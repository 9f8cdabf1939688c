----------------------------- MODULE ToolChecks -----------------------------
(***************************************************************************)
(* check_and_wait() of tools.py on the OutageGuard of _outage.py, called   *)
(* by several threads or tasks of one agent process against a Gateway that *)
(* answers, rejects, hangs up or comes back, while heartbeats refresh the  *)
(* governance state that the fail-open rule reads.                         *)
(*                                                                         *)
(* A step ends where the code releases a lock, sends a request or waits,   *)
(* so other callers interleave exactly there.  Time is kept as saturating  *)
(* ages: "never heard from" and "heard from too long ago" are one value,   *)
(* since degrade() treats them alike.                                      *)
(***************************************************************************)
EXTENDS CircuitBreaker, FiniteSets

CONSTANTS Callers,     \* concurrent callers of check_and_wait()
          Tools,       \* tool names
          FailOpen,    \* tool_check_failure_mode = "fail_open_bounded"
          MaxStale,    \* fail_open_max_stale_seconds, in ticks
          MaxTracked,  \* _MAX_TRACKED_TOOLS, the bound on remembered decisions
          Rechecks,    \* number of DEFAULT_RECHECK_DELAYS
          Restarts,    \* whether the agent calls governor.stop() and start()
          Torn         \* whether a heartbeat can be read half written

ASSUME ToolChecksAssumption ==
  /\ IsFiniteSet(Tools)
  /\ FailOpen \in BOOLEAN /\ Restarts \in BOOLEAN /\ Torn \in BOOLEAN
  /\ MaxStale \in Nat \ {0} /\ MaxTracked \in Nat \ {0} /\ Rechecks \in Nat

VARIABLES
  breaker,       \* outage.breaker
  okAge,         \* age of outage._last_ok
  lastDecision,  \* outage._last_decision, "none" for a tool not in it
  since,         \* its order: the tools recorded since each tool was
  hbAge,         \* age of state.last_heartbeat_monotonic
  suspended,     \* state.is_suspended
  pc,            \* where each caller is in check_and_wait()
  tool,          \* the tool each caller checks
  left,          \* rechecks each caller has left
  answer,        \* the latest decision Gateway put on the wire for this call
  probe,         \* whether the breaker let this request out as its probe
  streak,        \* history: consecutive transport failures, up to Threshold
  seen,          \* history: the last decision recorded per tool, never evicted
  told,          \* history: whether the last heartbeat reported a suspension
  tainted        \* history: degrade() read a record the history contradicts

breakerVars == <<breaker, streak>>
callVars == <<pc, tool, left, answer, probe>>
bookVars == <<okAge, lastDecision, since, seen>>
stateVars == <<hbAge, suspended, told>>
vars == <<breakerVars, callVars, bookVars, stateVars, tainted>>

-----------------------------------------------------------------------------
Stale == MaxStale + 1          \* the saturated age, also "never"
Decisions == {"ALLOW", "DENY", "PENDING"}
\* "BARE" is a PENDING without a resume token, "UNKNOWN" any other body.
Answers == {"ALLOW", "DENY", "PENDING", "BARE", "UNKNOWN"}
Locations == {"idle", "gate", "inflight", "record", "recheck", "polling",
              "contact", "degrade", "degrade_last", "degrade_age",
              "granted", "degraded", "denied", "failed"}
Done == {"granted", "degraded", "denied", "failed"}
Clean == {"none", "ALLOW"}     \* records degrade() may fail open on

\* Slip: a body is passed on as it came.
RawAnswer(a) == a

\* _decision_from(): what the SDK makes of a body.
Decided(a) == IF a = "UNKNOWN" THEN "DENY" ELSE IF a = "BARE" THEN "PENDING" ELSE a

Tracked == {t \in Tools : lastDecision[t] # "none"}

\* The bound of _MAX_TRACKED_TOOLS: other tools have been recorded since.
Forgotten(t) == Cardinality(since[t]) >= MaxTracked

TypeOK ==
  /\ breaker \in Breakers
  /\ okAge \in 0..Stale /\ hbAge \in 0..Stale
  /\ lastDecision \in [Tools -> Decisions \cup {"none"}]
  /\ since \in [Tools -> SUBSET Tools]
  /\ suspended \in BOOLEAN /\ told \in BOOLEAN
  /\ pc \in [Callers -> Locations]
  /\ tool \in [Callers -> Tools \cup {"none"}]
  /\ \A c \in Callers : /\ pc[c] # "idle" => tool[c] \in Tools
                        /\ pc[c] = "recheck" => left[c] > 0
                        /\ pc[c] \in {"record", "contact"} => answer[c] # "none"
  /\ left \in [Callers -> 0..Rechecks]
  /\ answer \in [Callers -> Answers \cup {"none"}]
  /\ probe \in [Callers -> BOOLEAN]
  /\ streak \in 0..Threshold
  /\ seen \in [Tools -> Decisions \cup {"none"}]
  /\ tainted \in [Callers -> BOOLEAN]

Init ==
  /\ breaker = ClosedBreaker /\ streak = 0
  /\ okAge = Stale /\ hbAge = Stale
  /\ lastDecision = [t \in Tools |-> "none"] /\ seen = lastDecision
  /\ since = [t \in Tools |-> {}]
  /\ suspended = FALSE /\ told = FALSE
  /\ pc = [c \in Callers |-> "idle"]
  /\ tool = [c \in Callers |-> "none"]
  /\ left = [c \in Callers |-> Rechecks]
  /\ answer = [c \in Callers |-> "none"]
  /\ probe = [c \in Callers |-> FALSE]
  /\ tainted = [c \in Callers |-> FALSE]

-----------------------------------------------------------------------------
(* check_and_wait(): the request *)

Goto(c, l) == pc' = [pc EXCEPT ![c] = l]

StartCheck(c) ==
  /\ pc[c] = "idle"
  /\ Goto(c, "gate")
  /\ \E t \in Tools : tool' = [tool EXCEPT ![c] = t]
  /\ UNCHANGED <<left, answer, probe, breakerVars, bookVars, stateVars, tainted>>

\* Slip: rechecks fall back on degrade() too.
RecheckDegrades(c) == "degrade"

\* A ToolCheckUnavailable: the first check may degrade, a recheck may not.
Unavailable(c) == IF left[c] = Rechecks THEN "degrade" ELSE "failed"

\* outage.before_call(): the request goes out, or the circuit is open.
Admitted(c) ==
  /\ pc[c] = "gate" /\ Admits(breaker)
  /\ breaker' = AfterAcquire(breaker)
  /\ probe' = [probe EXCEPT ![c] = breaker.open]
  /\ Goto(c, "inflight")
  /\ UNCHANGED <<tool, left, answer, streak, bookVars, stateVars, tainted>>

FailFast(c) ==
  /\ pc[c] = "gate" /\ ~Admits(breaker)
  /\ Goto(c, Unavailable(c))
  /\ UNCHANGED <<tool, left, answer, probe, breakerVars, bookVars, stateVars, tainted>>

\* Gateway answers with a decision: reachable(), before it is recorded.
Answered(c) ==
  /\ pc[c] = "inflight"
  /\ breaker' = AfterSuccess(breaker) /\ streak' = 0
  /\ \E a \in Answers : answer' = [answer EXCEPT ![c] = a]
  /\ probe' = [probe EXCEPT ![c] = FALSE]
  /\ Goto(c, "record")
  /\ UNCHANGED <<tool, left, bookVars, stateVars, tainted>>

\* Gateway answers with a 4xx: reachable(), and the error is raised.
Rejected(c) ==
  /\ pc[c] = "inflight"
  /\ breaker' = AfterSuccess(breaker) /\ streak' = 0
  /\ probe' = [probe EXCEPT ![c] = FALSE]
  /\ Goto(c, "failed")
  /\ UNCHANGED <<tool, left, answer, bookVars, stateVars, tainted>>

\* A connection error, a timeout or a 5xx, after the transport's retries.
TransportFailed(c) ==
  /\ pc[c] = "inflight"
  /\ breaker' = AfterFailure(breaker)
  /\ streak' = IF streak < Threshold THEN streak + 1 ELSE Threshold
  /\ probe' = [probe EXCEPT ![c] = FALSE]
  /\ Goto(c, Unavailable(c))
  /\ UNCHANGED <<tool, left, answer, bookVars, stateVars, tainted>>

\* Anything else leaves the request: a cancelled task, an unexpected exception.
Aborted(c) ==
  /\ pc[c] = "inflight"
  /\ breaker' = AfterRelease(breaker)
  /\ probe' = [probe EXCEPT ![c] = FALSE]
  /\ Goto(c, "failed")
  /\ UNCHANGED <<tool, left, answer, streak, bookVars, stateVars, tainted>>

-----------------------------------------------------------------------------
(* check_and_wait(): what the answer leads to *)

\* Slip: only ALLOWs are remembered.
RememberAllowOnly(t, d) ==
  /\ lastDecision' = [lastDecision EXCEPT ![t] = IF d = "ALLOW" THEN d ELSE @]
  /\ since' = since
  /\ seen' = [seen EXCEPT ![t] = d]

\* record_decision()'s bookkeeping: the tool becomes the newest entry, and
\* the oldest one is evicted when the table overflows.
Remember(t, d) ==
  LET entries == Tracked \cup {t}
      newest == [u \in Tools |-> IF u = t THEN {} ELSE since[u] \cup {t}]
      evicted == IF Cardinality(entries) > MaxTracked
                   THEN {u \in entries : entries \ {u} \subseteq newest[u]}
                   ELSE {}
  IN /\ lastDecision' = [u \in Tools |-> IF u \in evicted THEN "none"
                                         ELSE IF u = t THEN d ELSE lastDecision[u]]
     /\ since' = newest
     /\ seen' = [seen EXCEPT ![t] = d]

\* Where an immediate answer takes check_and_wait(): tokenless PENDINGs are
\* rechecked while delays are left, then denied.
AfterCheck(c) ==
  CASE answer[c] = "ALLOW" -> "granted"
    [] answer[c] \in {"DENY", "UNKNOWN"} -> "denied"
    [] answer[c] = "PENDING" -> "polling"
    [] answer[c] = "BARE" -> IF left[c] > 0 THEN "recheck" ELSE "denied"

Record(c) ==
  /\ pc[c] = "record"
  /\ okAge' = IF answer[c] = "UNKNOWN" THEN okAge ELSE 0
  /\ Remember(tool[c], Decided(answer[c]))
  /\ Goto(c, AfterCheck(c))
  /\ UNCHANGED <<tool, left, answer, probe, breakerVars, stateVars, tainted>>

\* Slip: the delays are never used up.
RecheckForever(c) ==
  /\ pc[c] = "recheck"
  /\ Goto(c, "gate")
  /\ UNCHANGED <<left, tool, answer, probe, breakerVars, bookVars, stateVars, tainted>>

\* A recheck delay is over.
Recheck(c) ==
  /\ pc[c] = "recheck"
  /\ left' = [left EXCEPT ![c] = left[c] - 1]
  /\ Goto(c, "gate")
  /\ UNCHANGED <<tool, answer, probe, breakerVars, bookVars, stateVars, tainted>>

\* status(): a poll is answered; it bypasses the breaker.
PollAnswered(c) ==
  /\ pc[c] = "polling"
  /\ \E a \in Answers : answer' = [answer EXCEPT ![c] = a]
  /\ Goto(c, "contact")
  /\ UNCHANGED <<tool, left, probe, breakerVars, bookVars, stateVars, tainted>>

\* A poll fails in any way: status() raises, and nothing is softened.
PollFailed(c) ==
  /\ pc[c] = "polling"
  /\ Goto(c, "failed")
  /\ UNCHANGED <<tool, left, answer, probe, breakerVars, bookVars, stateVars, tainted>>

\* record_contact(), then a decision returns and a PENDING is polled again
\* or times out (the clock of this loop is left out).
Contact(c) ==
  /\ pc[c] = "contact"
  /\ okAge' = 0
  /\ \/ Decided(answer[c]) = "ALLOW" /\ Goto(c, "granted")
     \/ Decided(answer[c]) = "DENY" /\ Goto(c, "denied")
     \/ Decided(answer[c]) = "PENDING" /\ Goto(c, "polling")
     \/ Decided(answer[c]) = "PENDING" /\ Goto(c, "failed")
  /\ UNCHANGED <<tool, left, answer, probe, breakerVars, lastDecision, since, seen,
                 stateVars, tainted>>

-----------------------------------------------------------------------------
(* OutageGuard.degrade(): three reads, each under its own lock or none *)

Degrade(c) ==
  /\ pc[c] = "degrade"
  /\ Goto(c, IF FailOpen /\ ~suspended THEN "degrade_last" ELSE "failed")
  /\ tainted' = [tainted EXCEPT ![c] = told]
  /\ UNCHANGED <<tool, left, answer, probe, breakerVars, bookVars, stateVars>>

DegradeLast(c) ==
  /\ pc[c] = "degrade_last"
  /\ Goto(c, IF lastDecision[tool[c]] \in Clean THEN "degrade_age" ELSE "failed")
  /\ tainted' = [tainted EXCEPT ![c] =
                   @ \/ (~Forgotten(tool[c]) /\ seen[tool[c]] \notin Clean)]
  /\ UNCHANGED <<tool, left, answer, probe, breakerVars, bookVars, stateVars>>

DegradeAge(c) ==
  /\ pc[c] = "degrade_age"
  /\ Goto(c, IF okAge <= MaxStale \/ hbAge <= MaxStale THEN "degraded" ELSE "failed")
  /\ UNCHANGED <<tool, left, answer, probe, breakerVars, bookVars, stateVars, tainted>>

\* The decision or the exception reaches the caller.
Return(c) ==
  /\ pc[c] \in Done
  /\ Goto(c, "idle")
  /\ left' = [left EXCEPT ![c] = Rechecks]
  /\ tool' = [tool EXCEPT ![c] = "none"]
  /\ answer' = [answer EXCEPT ![c] = "none"]
  /\ tainted' = [tainted EXCEPT ![c] = FALSE]
  /\ UNCHANGED <<probe, breakerVars, bookVars, stateVars>>

-----------------------------------------------------------------------------
(* The rest of the process, and time *)

\* A telemetry response carried a heartbeat.
Heartbeat ==
  /\ hbAge' = 0
  /\ suspended' \in BOOLEAN /\ told' = suspended'
  /\ UNCHANGED <<breakerVars, callVars, bookVars, tainted>>

\* Its two fields are written one by one: from suspended to emergency-stopped,
\* another thread (never another task) sees neither in between.
TornHeartbeat ==
  /\ Torn
  /\ suspended' = FALSE
  /\ UNCHANGED <<hbAge, told, breakerVars, callVars, bookVars, tainted>>

\* The control stream pushed a suspension.
Hint ==
  /\ suspended' = TRUE
  /\ UNCHANGED <<hbAge, told, breakerVars, callVars, bookVars, tainted>>

\* governor.stop() and start(): a new exporter with a fresh GovernanceState,
\* while the OutageGuard is the one of the identity and lives on.
Restart ==
  /\ Restarts
  /\ hbAge' = Stale /\ suspended' = FALSE
  /\ UNCHANGED <<told, breakerVars, callVars, bookVars, tainted>>

Older(age) == IF age < Stale THEN age + 1 ELSE Stale

Tick ==
  /\ breaker' = Aged(breaker)
  /\ okAge' = Older(okAge) /\ hbAge' = Older(hbAge)
  /\ UNCHANGED <<streak, lastDecision, since, seen, suspended, told, callVars, tainted>>

\* What a caller does once it has called: the code runs on, and the HTTP
\* client's timeouts end every request one way or another.
Step(c) ==
  \/ Admitted(c) \/ FailFast(c)
  \/ Answered(c) \/ Rejected(c) \/ TransportFailed(c)
  \/ Record(c) \/ Recheck(c)
  \/ PollAnswered(c) \/ PollFailed(c) \/ Contact(c)
  \/ Degrade(c) \/ DegradeLast(c) \/ DegradeAge(c)
  \/ Return(c)

Environment == Heartbeat \/ TornHeartbeat \/ Hint \/ Restart \/ Tick

Next == \/ \E c \in Callers : StartCheck(c) \/ Aborted(c) \/ Step(c)
        \/ Environment

Spec == Init /\ [][Next]_vars
FairSpec == Spec /\ WF_vars(Tick) /\ \A c \in Callers : WF_vars(Step(c))

-----------------------------------------------------------------------------
(* What makes the component correct *)

\* A probe flag never outlives the request it was set for: every way out of
\* _check_raw() clears it, so an open circuit can always be probed again.
NotWedged == breaker.probing => \E c \in Callers : pc[c] = "inflight" /\ probe[c]

\* The circuit is open exactly while the last Threshold outcomes that gave a
\* verdict on Gateway's health were failures, whatever the interleaving of
\* probes, stragglers and aborted calls.
OpenExactlyOnStreak == breaker.open <=> streak = Threshold

\* "Never softened" (README.md, "When Gateway is unreachable"): a check that
\* fails open did so while the last heartbeat had not reported a suspension
\* and the tool's most recent decision was not DENY or PENDING, unless
\* MaxTracked other tools have been checked since.
DegradesOnCleanKnowledge == \A c \in Callers : pc[c] = "degraded" => ~tainted[c]

\* README.md lists among what is never softened "a suspended or
\* emergency-stopped state the last heartbeat reported": no call fails open on
\* a local state that no longer knows of it.
ReportedSuspensionHolds ==
  [][\A c \in Callers : DegradeAge(c) /\ pc'[c] = "degraded" => (told => suspended)]_vars

\* The bounded table forgets only tools that MaxTracked others have followed.
RecentDecisionsKept ==
  \A t \in Tools : ~Forgotten(t) => lastDecision[t] = seen[t]

\* CircuitBreaker's docstring: "exactly one probe call is allowed through".
AtMostOneProbe == Cardinality({c \in Callers : probe[c]}) <= 1

\* Every check comes to an end or to a human's approval: tokenless PENDINGs
\* cannot keep a caller rechecking.
ChecksSettle == \A c \in Callers : pc[c] = "gate" ~> pc[c] \in Done \cup {"polling"}

\* Once no request fails or is aborted any more and the agent keeps making
\* tool calls, the circuit closes for good.
Fails == \E c \in Callers : TransportFailed(c) \/ Aborted(c)
Starts == \E c \in Callers : StartCheck(c)
CircuitRecovers ==
  (<>[][~Fails]_vars /\ []<><<Starts>>_vars) => <>[](~breaker.open)

\* check_and_wait() keeps the promise of GovernedCall: a tool runs only on a
\* rendered ALLOW or, before any verdict, on a configured fail-open.
Promise == INSTANCE GovernedCall WITH
  stage <- [c \in Callers |-> IF pc[c] \in Done \cup {"idle"} THEN pc[c] ELSE "asking"],
  verdict <- [c \in Callers |-> Decided(answer[c])]

KeepsPromise == Promise!Spec
=============================================================================
