-------------------------- MODULE ToolChecks_proofs --------------------------
(***************************************************************************)
(* Proofs about ToolChecks, for any number of callers and tools and any    *)
(* threshold, cooldown, staleness bound, table size and number of rechecks. *)
(***************************************************************************)
EXTENDS ToolChecks, FiniteSetTheorems, TLAPS

-----------------------------------------------------------------------------
(* The breaker's methods keep a breaker a breaker. *)

\* Every method of CircuitBreaker returns a well-formed breaker.
LEMMA BreakerTyping ==
  ASSUME NEW b \in Breakers
  PROVE  /\ AfterAcquire(b) \in Breakers
         /\ AfterSuccess(b) \in Breakers
         /\ AfterFailure(b) \in Breakers
         /\ AfterRelease(b) \in Breakers
         /\ Aged(b) \in Breakers
<1> USE BreakerAssumption DEF Breakers
<1>1. AfterAcquire(b) \in Breakers
  BY DEF AfterAcquire
<1>2. AfterSuccess(b) \in Breakers
  BY DEF AfterSuccess, ClosedBreaker
<1>3. AfterFailure(b) \in Breakers
  <2>1. CASE b.probing
    <3>1. AfterFailure(b) = [b EXCEPT !.probing = FALSE, !.open = TRUE, !.age = 0]
      BY <2>1 DEF AfterFailure
    <3>2. 0 \in 0..Cooldown
      OBVIOUS
    <3>3. QED BY <3>1, <3>2
  <2>2. CASE ~b.probing
    <3> DEFINE count == IF b.failures < Threshold THEN b.failures + 1 ELSE Threshold
               trips == ~b.open /\ count = Threshold
    <3>1. count \in 0..Threshold
      OBVIOUS
    <3>2. (b.open \/ trips) \in BOOLEAN /\ (IF trips THEN 0 ELSE b.age) \in 0..Cooldown
      OBVIOUS
    <3>3. AfterFailure(b) = [b EXCEPT !.failures = count, !.open = b.open \/ trips,
                                      !.age = IF trips THEN 0 ELSE b.age]
      BY <2>2 DEF AfterFailure
    <3> HIDE DEF count, trips
    <3>4. QED BY <3>1, <3>2, <3>3
  <2>3. QED BY <2>1, <2>2
<1>4. AfterRelease(b) \in Breakers
  BY DEF AfterRelease
<1>5. Aged(b) \in Breakers
  BY DEF Aged
<1>6. QED BY <1>1, <1>2, <1>3, <1>4, <1>5

-----------------------------------------------------------------------------
(* Type correctness *)

\* Type correctness of check_and_wait() and of everything it shares.
THEOREM TypeCorrect == Spec => []TypeOK
<1>0. /\ Stale \in 0..Stale /\ 0 \in 0..Stale
      /\ 0 \in 0..Threshold /\ Rechecks \in 0..Rechecks
  BY BreakerAssumption, ToolChecksAssumption DEF Stale
<1>1. Init => TypeOK
  <2>1. ClosedBreaker \in Breakers
    BY BreakerAssumption DEF ClosedBreaker, Breakers
  <2>2. ASSUME Init PROVE TypeOK
    <3> USE <2>2 DEF Init
    <3>1. /\ breaker \in Breakers /\ streak \in 0..Threshold
          /\ okAge \in 0..Stale /\ hbAge \in 0..Stale
          /\ suspended \in BOOLEAN /\ told \in BOOLEAN
      BY <2>1, <1>0
    <3>2. /\ lastDecision \in [Tools -> Decisions \cup {"none"}]
          /\ seen \in [Tools -> Decisions \cup {"none"}]
          /\ since \in [Tools -> SUBSET Tools]
      OBVIOUS
    <3>3. /\ pc \in [Callers -> Locations]
          /\ tool \in [Callers -> Tools \cup {"none"}]
          /\ answer \in [Callers -> Answers \cup {"none"}]
          /\ probe \in [Callers -> BOOLEAN]
          /\ tainted \in [Callers -> BOOLEAN]
      BY DEF Locations
    <3>4. left \in [Callers -> 0..Rechecks]
      BY <1>0
    <3>5. \A c \in Callers : pc[c] = "idle"
      OBVIOUS
    <3>6. QED BY <3>1, <3>2, <3>3, <3>4, <3>5 DEF TypeOK
  <2>3. QED BY <2>2
<1>2. TypeOK /\ [Next]_vars => TypeOK'
  <2> SUFFICES ASSUME TypeOK, [Next]_vars PROVE TypeOK'
    OBVIOUS
  <2> USE BreakerTyping, BreakerAssumption, ToolChecksAssumption
      DEF TypeOK, Stale, Locations, Done, Decisions, Answers, Goto,
          breakerVars, callVars, bookVars, stateVars
  <2>1. ASSUME NEW c \in Callers, StartCheck(c) PROVE TypeOK'
    BY <2>1 DEF StartCheck
  <2>2. ASSUME NEW c \in Callers, Aborted(c) PROVE TypeOK'
    BY <2>2 DEF Aborted
  <2>3. ASSUME NEW c \in Callers, Admitted(c) PROVE TypeOK'
    <3>1. breaker.open \in BOOLEAN
      BY DEF Breakers
    <3>2. QED BY <2>3, <3>1 DEF Admitted
  <2>4. ASSUME NEW c \in Callers, FailFast(c) PROVE TypeOK'
    BY <2>4 DEF FailFast, Unavailable
  <2>5. ASSUME NEW c \in Callers, Answered(c) PROVE TypeOK'
    BY <2>5 DEF Answered
  <2>6. ASSUME NEW c \in Callers, Rejected(c) PROVE TypeOK'
    BY <2>6 DEF Rejected
  <2>7. ASSUME NEW c \in Callers, TransportFailed(c) PROVE TypeOK'
    BY <2>7 DEF TransportFailed, Unavailable
  <2>8. ASSUME NEW c \in Callers, Record(c) PROVE TypeOK'
    <3>1. /\ AfterCheck(c) \in {"granted", "denied", "polling", "recheck"}
          /\ AfterCheck(c) = "recheck" => left[c] > 0
      <4>1. pc[c] = "record" /\ answer[c] \in Answers /\ left[c] \in 0..Rechecks
        BY <2>8 DEF Record
      <4> QED BY <4>1 DEF AfterCheck
    <3>2. Decided(answer[c]) \in Decisions /\ tool[c] \in Tools
      BY <2>8 DEF Record, Decided
    <3>3. /\ lastDecision' \in [Tools -> Decisions \cup {"none"}]
          /\ since' \in [Tools -> SUBSET Tools]
          /\ seen' \in [Tools -> Decisions \cup {"none"}]
      BY <2>8, <3>2 DEF Record, Remember
    <3> HIDE DEF Decisions
    <3>4. QED BY <2>8, <3>1, <3>3 DEF Record
  <2>9. ASSUME NEW c \in Callers, Recheck(c) PROVE TypeOK'
    BY <2>9 DEF Recheck
  <2>10. ASSUME NEW c \in Callers, PollAnswered(c) PROVE TypeOK'
    BY <2>10 DEF PollAnswered
  <2>11. ASSUME NEW c \in Callers, PollFailed(c) PROVE TypeOK'
    BY <2>11 DEF PollFailed
  <2>12. ASSUME NEW c \in Callers, Contact(c) PROVE TypeOK'
    BY <2>12 DEF Contact
  <2>13. ASSUME NEW c \in Callers, Degrade(c) PROVE TypeOK'
    BY <2>13 DEF Degrade
  <2>14. ASSUME NEW c \in Callers, DegradeLast(c) PROVE TypeOK'
    BY <2>14 DEF DegradeLast
  <2>15. ASSUME NEW c \in Callers, DegradeAge(c) PROVE TypeOK'
    BY <2>15 DEF DegradeAge
  <2>16. ASSUME NEW c \in Callers, Return(c) PROVE TypeOK'
    BY <2>16 DEF Return
  <2>17. CASE Environment
    <3>1. CASE Heartbeat
      BY <3>1 DEF Heartbeat
    <3>2. CASE TornHeartbeat
      BY <3>2 DEF TornHeartbeat
    <3>3. CASE Hint
      BY <3>3 DEF Hint
    <3>4. CASE Restart
      BY <3>4, <1>0 DEF Restart
    <3>5. CASE Tick
      BY <3>5 DEF Tick, Older
    <3>6. QED BY <2>17, <3>1, <3>2, <3>3, <3>4, <3>5 DEF Environment
  <2>18. CASE UNCHANGED vars
    BY <2>18 DEF vars
  <2>19. QED
    BY <2>1, <2>2, <2>3, <2>4, <2>5, <2>6, <2>7, <2>8, <2>9, <2>10, <2>11, <2>12,
       <2>13, <2>14, <2>15, <2>16, <2>17, <2>18 DEF Next, Step
<1>3. QED BY <1>1, <1>2, PTL DEF Spec

-----------------------------------------------------------------------------
(* The circuit breaker under any interleaving of its callers *)

\* OpenExactlyOnStreak is not inductive: the counter of a closed breaker must
\* be the streak itself, and only an open breaker may be probing.
StreakInv ==
  /\ breaker.probing => breaker.open
  /\ breaker.open => streak = Threshold
  /\ ~breaker.open => breaker.failures = streak /\ streak < Threshold

\* A step either leaves the breaker and the streak alone or is one method
\* call on it with the outcome that the streak counts.
LEMMA BreakerSteps ==
  ASSUME Next
  PROVE  \/ UNCHANGED breakerVars
         \/ breaker' = AfterAcquire(breaker) /\ streak' = streak
         \/ breaker' = AfterSuccess(breaker) /\ streak' = 0
         \/ /\ breaker' = AfterFailure(breaker)
            /\ streak' = IF streak < Threshold THEN streak + 1 ELSE Threshold
         \/ breaker' = AfterRelease(breaker) /\ streak' = streak
         \/ breaker' = Aged(breaker) /\ streak' = streak
<1> USE DEF breakerVars
<1>1. ASSUME NEW c \in Callers, StartCheck(c) \/ FailFast(c) \/ Record(c) \/ Recheck(c)
                                \/ PollAnswered(c) \/ PollFailed(c) \/ Contact(c)
      PROVE UNCHANGED breakerVars
  BY <1>1 DEF StartCheck, FailFast, Record, Recheck, PollAnswered, PollFailed, Contact
<1>2. ASSUME NEW c \in Callers, Degrade(c) \/ DegradeLast(c) \/ DegradeAge(c) \/ Return(c)
      PROVE UNCHANGED breakerVars
  BY <1>2 DEF Degrade, DegradeLast, DegradeAge, Return
<1>3. ASSUME NEW c \in Callers, Admitted(c)
      PROVE breaker' = AfterAcquire(breaker) /\ streak' = streak
  BY <1>3 DEF Admitted
<1>4. ASSUME NEW c \in Callers, Answered(c) \/ Rejected(c)
      PROVE breaker' = AfterSuccess(breaker) /\ streak' = 0
  BY <1>4 DEF Answered, Rejected
<1>5. ASSUME NEW c \in Callers, TransportFailed(c)
      PROVE /\ breaker' = AfterFailure(breaker)
            /\ streak' = IF streak < Threshold THEN streak + 1 ELSE Threshold
  BY <1>5 DEF TransportFailed
<1>6. ASSUME NEW c \in Callers, Aborted(c)
      PROVE breaker' = AfterRelease(breaker) /\ streak' = streak
  BY <1>6 DEF Aborted
<1>7. ASSUME Environment
      PROVE UNCHANGED breakerVars \/ (breaker' = Aged(breaker) /\ streak' = streak)
  BY <1>7 DEF Environment, Heartbeat, TornHeartbeat, Hint, Restart, Tick
<1>8. QED
  BY <1>1, <1>2, <1>3, <1>4, <1>5, <1>6, <1>7 DEF Next, Step

\* The streak invariant holds of every reachable state.
LEMMA StreakCorrect == Spec => []StreakInv
<1>1. Init => StreakInv
  BY BreakerAssumption DEF Init, StreakInv, ClosedBreaker
<1>2. TypeOK /\ StreakInv /\ [Next]_vars => StreakInv'
  <2> SUFFICES ASSUME TypeOK, StreakInv, [Next]_vars PROVE StreakInv'
    OBVIOUS
  <2> USE BreakerAssumption DEF StreakInv, TypeOK, Breakers
  <2>1. CASE UNCHANGED breakerVars
    BY <2>1 DEF breakerVars
  <2>2. CASE breaker' = AfterAcquire(breaker) /\ streak' = streak
    BY <2>2 DEF AfterAcquire
  <2>3. CASE breaker' = AfterSuccess(breaker) /\ streak' = 0
    BY <2>3 DEF AfterSuccess, ClosedBreaker
  <2>4. CASE /\ breaker' = AfterFailure(breaker)
             /\ streak' = IF streak < Threshold THEN streak + 1 ELSE Threshold
    <3>1. CASE breaker.probing
      BY <2>4, <3>1 DEF AfterFailure
    <3>2. CASE ~breaker.probing /\ breaker.open
      BY <2>4, <3>2 DEF AfterFailure
    <3>3. CASE ~breaker.probing /\ ~breaker.open
      <4>1. breaker.failures = streak /\ streak < Threshold /\ streak' = streak + 1
        BY <2>4, <3>3
      <4>2. CASE streak + 1 = Threshold
        <5>1. breaker' = [breaker EXCEPT !.failures = Threshold, !.open = TRUE, !.age = 0]
          BY <2>4, <3>3, <4>1, <4>2 DEF AfterFailure
        <5>2. QED BY <3>3, <4>1, <4>2, <5>1
      <4>3. CASE streak + 1 # Threshold
        <5>1. breaker' = [breaker EXCEPT !.failures = streak + 1, !.open = FALSE]
          BY <2>4, <3>3, <4>1, <4>3 DEF AfterFailure
        <5>2. QED BY <3>3, <4>1, <4>3, <5>1
      <4>4. QED BY <4>2, <4>3
    <3>4. QED BY <3>1, <3>2, <3>3
  <2>5. CASE breaker' = AfterRelease(breaker) /\ streak' = streak
    BY <2>5 DEF AfterRelease
  <2>6. CASE breaker' = Aged(breaker) /\ streak' = streak
    BY <2>6 DEF Aged
  <2>7. CASE UNCHANGED vars
    BY <2>7, <2>1 DEF vars, breakerVars
  <2>8. QED
    BY <2>1, <2>2, <2>3, <2>4, <2>5, <2>6, <2>7, BreakerSteps
<1>3. QED BY <1>1, <1>2, TypeCorrect, PTL DEF Spec

\* The circuit is open exactly while the last Threshold verdicts on Gateway's
\* health were failures, for any number of concurrent callers.
THEOREM CircuitFollowsStreak == Spec => []OpenExactlyOnStreak
<1>1. TypeOK /\ StreakInv => OpenExactlyOnStreak
  BY BreakerAssumption DEF StreakInv, OpenExactlyOnStreak, TypeOK, Breakers
<1>2. QED BY <1>1, StreakCorrect, TypeCorrect, PTL

\* An open circuit never waits for a probe that nobody is making.
THEOREM ProbesEnd == Spec => []NotWedged
<1>1. Init => NotWedged
  BY DEF Init, NotWedged, ClosedBreaker
<1>2. TypeOK /\ StreakInv /\ NotWedged /\ [Next]_vars => NotWedged'
  <2> SUFFICES ASSUME TypeOK, StreakInv, NotWedged, [Next]_vars, breaker'.probing
               PROVE  \E c \in Callers : pc'[c] = "inflight" /\ probe'[c]
    BY DEF NotWedged
  <2> USE DEF NotWedged, TypeOK, Breakers, Goto, breakerVars
  <2>1. ASSUME NEW d \in Callers, Admitted(d) PROVE \E c \in Callers : pc'[c] = "inflight" /\ probe'[c]
    <3>1. CASE breaker.open
      BY <2>1, <3>1 DEF Admitted
    <3>2. CASE ~breaker.open
      BY <2>1, <3>2 DEF Admitted, AfterAcquire, StreakInv
    <3>3. QED BY <3>1, <3>2
  <2>2. ASSUME NEW d \in Callers, Answered(d) \/ Rejected(d) \/ TransportFailed(d) \/ Aborted(d)
        PROVE FALSE
    <3>1. ~AfterSuccess(breaker).probing /\ ~AfterRelease(breaker).probing
      BY DEF AfterSuccess, AfterRelease, ClosedBreaker
    <3>2. ~AfterFailure(breaker).probing
      BY DEF AfterFailure
    <3>3. QED
      BY <2>2, <3>1, <3>2 DEF Answered, Rejected, TransportFailed, Aborted
  <2>3. ASSUME breaker'.probing = breaker.probing,
               NEW d \in Callers, pc[d] # "inflight",
               \A c \in Callers \ {d} : pc'[c] = pc[c],
               UNCHANGED probe
        PROVE \E c \in Callers : pc'[c] = "inflight" /\ probe'[c]
    BY <2>3
  <2>4. ASSUME NEW d \in Callers, StartCheck(d) \/ FailFast(d) \/ Record(d) \/ Recheck(d)
                                  \/ PollAnswered(d) \/ PollFailed(d) \/ Contact(d)
        PROVE \E c \in Callers : pc'[c] = "inflight" /\ probe'[c]
    BY <2>3, <2>4 DEF StartCheck, FailFast, Record, Recheck, PollAnswered, PollFailed, Contact
  <2>5. ASSUME NEW d \in Callers, Degrade(d) \/ DegradeLast(d) \/ DegradeAge(d) \/ Return(d)
        PROVE \E c \in Callers : pc'[c] = "inflight" /\ probe'[c]
    BY <2>3, <2>5 DEF Degrade, DegradeLast, DegradeAge, Return, Done
  <2>6. CASE Environment
    BY <2>6 DEF Environment, Heartbeat, TornHeartbeat, Hint, Restart, Tick, Aged, callVars
  <2>7. CASE UNCHANGED vars
    BY <2>7 DEF vars, callVars
  <2>8. QED
    BY <2>1, <2>2, <2>4, <2>5, <2>6, <2>7 DEF Next, Step
<1>3. QED BY <1>1, <1>2, TypeCorrect, StreakCorrect, PTL DEF Spec

-----------------------------------------------------------------------------
(* The bounded table of decisions, and what degrade() reads in it *)

\* record_decision() evicts only tools that MaxTracked others have followed.
LEMMA RememberKeepsRecent ==
  ASSUME TypeOK, RecentDecisionsKept, NEW t0 \in Tools, NEW d, Remember(t0, d)
  PROVE  RecentDecisionsKept'
<1> USE ToolChecksAssumption DEF TypeOK
<1> DEFINE entries == Tracked \cup {t0}
           newest == [u \in Tools |-> IF u = t0 THEN {} ELSE since[u] \cup {t0}]
           evicted == IF Cardinality(entries) > MaxTracked
                        THEN {u \in entries : entries \ {u} \subseteq newest[u]}
                        ELSE {}
<1>1. /\ lastDecision' = [u \in Tools |-> IF u \in evicted THEN "none"
                                          ELSE IF u = t0 THEN d ELSE lastDecision[u]]
      /\ since' = newest
      /\ seen' = [seen EXCEPT ![t0] = d]
  BY DEF Remember
<1>2. /\ entries \subseteq Tools /\ IsFiniteSet(entries)
      /\ \A u \in Tools : /\ IsFiniteSet(newest[u]) /\ IsFiniteSet(since[u])
                          /\ Cardinality(newest[u]) \in Nat /\ Cardinality(since[u]) \in Nat
  <2>1. entries \subseteq Tools /\ \A u \in Tools : newest[u] \subseteq Tools /\ since[u] \subseteq Tools
    BY DEF Tracked
  <2>2. QED BY <2>1, FS_Subset, FS_CardinalityType
<1>3. SUFFICES ASSUME NEW u \in Tools, Cardinality(newest[u]) < MaxTracked
               PROVE  lastDecision'[u] = seen'[u]
  <2>1. \A u \in Tools : Forgotten(u)' <=> Cardinality(newest[u]) >= MaxTracked
    BY <1>1 DEF Forgotten
  <2> HIDE DEF newest, evicted, entries
  <2>2. QED BY <2>1, <1>2, <1>3 DEF RecentDecisionsKept
<1>4. u \notin evicted
  <2> SUFFICES ASSUME u \in evicted PROVE FALSE
    OBVIOUS
  <2>1. u \in entries /\ entries \ {u} \subseteq newest[u] /\ Cardinality(entries) > MaxTracked
    OBVIOUS
  <2> HIDE DEF entries, newest, evicted
  <2>2. Cardinality(entries \ {u}) = Cardinality(entries) - 1
    BY <2>1, <1>2, FS_RemoveElement
  <2>3. Cardinality(entries \ {u}) <= Cardinality(newest[u])
    BY <2>1, <1>2, FS_Subset
  <2>4. Cardinality(entries) \in Nat
    BY <1>2, FS_CardinalityType
  <2>5. QED BY <2>1, <2>2, <2>3, <2>4, <1>2, <1>3
<1>5. CASE u = t0
  BY <1>1, <1>4, <1>5
<1>6. CASE u # t0
  <2>1. since[u] \subseteq newest[u]
    BY <1>6
  <2>2. lastDecision'[u] = lastDecision[u] /\ seen'[u] = seen[u]
    BY <1>1, <1>4, <1>6
  <2> HIDE DEF entries, newest, evicted
  <2>3. Cardinality(since[u]) <= Cardinality(newest[u])
    BY <2>1, <1>2, FS_Subset
  <2>4. ~Forgotten(u)
    BY <2>3, <1>2, <1>3 DEF Forgotten
  <2>5. QED BY <2>2, <2>4 DEF RecentDecisionsKept
<1>7. QED BY <1>5, <1>6

\* The table agrees with history for every tool it is still bound to know.
THEOREM TableKeepsRecent == Spec => []RecentDecisionsKept
<1>1. Init => RecentDecisionsKept
  BY DEF Init, RecentDecisionsKept
<1>2. TypeOK /\ RecentDecisionsKept /\ [Next]_vars => RecentDecisionsKept'
  <2> SUFFICES ASSUME TypeOK, RecentDecisionsKept, [Next]_vars PROVE RecentDecisionsKept'
    OBVIOUS
  <2>1. ASSUME UNCHANGED <<lastDecision, since, seen>> PROVE RecentDecisionsKept'
    BY <2>1 DEF RecentDecisionsKept, Forgotten
  <2>2. ASSUME NEW c \in Callers, Record(c) PROVE RecentDecisionsKept'
    <3>1. tool[c] \in Tools
      BY <2>2 DEF Record, TypeOK
    <3>2. QED BY <2>2, <3>1, RememberKeepsRecent DEF Record
  <2> USE DEF bookVars
  <2>3. ASSUME NEW c \in Callers, StartCheck(c) \/ Aborted(c) \/ Admitted(c) \/ FailFast(c)
                                  \/ Answered(c) \/ Rejected(c) \/ TransportFailed(c)
        PROVE UNCHANGED <<lastDecision, since, seen>>
    BY <2>3 DEF StartCheck, Aborted, Admitted, FailFast, Answered, Rejected, TransportFailed
  <2>4. ASSUME NEW c \in Callers, Recheck(c) \/ PollAnswered(c) \/ PollFailed(c) \/ Contact(c)
                                  \/ Degrade(c) \/ DegradeLast(c) \/ DegradeAge(c) \/ Return(c)
        PROVE UNCHANGED <<lastDecision, since, seen>>
    BY <2>4 DEF Recheck, PollAnswered, PollFailed, Contact, Degrade, DegradeLast, DegradeAge, Return
  <2>5. ASSUME Environment PROVE UNCHANGED <<lastDecision, since, seen>>
    BY <2>5 DEF Environment, Heartbeat, TornHeartbeat, Hint, Restart, Tick
  <2>6. CASE UNCHANGED vars
    BY <2>6, <2>1 DEF vars
  <2>7. QED
    BY <2>1, <2>2, <2>3, <2>4, <2>5, <2>6 DEF Next, Step
<1>3. QED BY <1>1, <1>2, TypeCorrect, PTL DEF Spec

\* What degrade() has read so far agrees with history at every one of its
\* steps, and without restarts and torn heartbeats the local state knows a
\* reported suspension.
CleanInv ==
  /\ told => suspended
  /\ \A c \in Callers :
       pc[c] \in {"degrade_last", "degrade_age", "degraded"} => ~tainted[c]

\* No check fails open against a suspension the last heartbeat reported or a
\* DENY or PENDING the bounded table must still hold.
THEOREM FailOpenIsClean ==
  ASSUME Restarts = FALSE, Torn = FALSE
  PROVE  Spec => []DegradesOnCleanKnowledge
<1>1. Init => CleanInv
  BY DEF Init, CleanInv
<1>2. TypeOK /\ RecentDecisionsKept /\ CleanInv /\ [Next]_vars => CleanInv'
  <2> SUFFICES ASSUME TypeOK, RecentDecisionsKept, CleanInv, [Next]_vars PROVE CleanInv'
    OBVIOUS
  <2> USE DEF CleanInv, TypeOK, Goto, stateVars
  <2>1. ASSUME NEW c \in Callers, StartCheck(c) \/ Aborted(c) \/ Admitted(c) \/ FailFast(c)
                                  \/ Answered(c) \/ Rejected(c) \/ TransportFailed(c)
        PROVE CleanInv'
    BY <2>1 DEF StartCheck, Aborted, Admitted, FailFast, Answered, Rejected, TransportFailed,
                Unavailable
  <2>2. ASSUME NEW c \in Callers, Recheck(c) \/ PollAnswered(c) \/ PollFailed(c) \/ Contact(c)
        PROVE CleanInv'
    BY <2>2 DEF Recheck, PollAnswered, PollFailed, Contact
  <2>3. ASSUME NEW c \in Callers, Record(c) PROVE CleanInv'
    <3>1. AfterCheck(c) \in {"granted", "denied", "polling", "recheck"}
      BY <2>3 DEF Record, AfterCheck, Answers
    <3>2. QED BY <2>3, <3>1 DEF Record
  <2>4. ASSUME NEW c \in Callers, Degrade(c) PROVE CleanInv'
    BY <2>4 DEF Degrade
  <2>5. ASSUME NEW c \in Callers, DegradeLast(c) PROVE CleanInv'
    <3>1. tool[c] \in Tools
      BY <2>5 DEF DegradeLast
    <3>2. lastDecision[tool[c]] \in Clean =>
            (Forgotten(tool[c]) \/ seen[tool[c]] \in Clean)
      BY <3>1 DEF RecentDecisionsKept
    <3>3. QED BY <2>5, <3>2 DEF DegradeLast
  <2>6. ASSUME NEW c \in Callers, DegradeAge(c) \/ Return(c) PROVE CleanInv'
    BY <2>6 DEF DegradeAge, Return
  <2>7. CASE Environment
    BY <2>7 DEF Environment, Heartbeat, TornHeartbeat, Hint, Restart, Tick, callVars
  <2>8. CASE UNCHANGED vars
    BY <2>8 DEF vars, callVars
  <2>9. QED
    BY <2>1, <2>2, <2>3, <2>4, <2>5, <2>6, <2>7, <2>8 DEF Next, Step
<1>3. CleanInv => DegradesOnCleanKnowledge
  BY DEF CleanInv, DegradesOnCleanKnowledge
<1>4. QED BY <1>1, <1>2, <1>3, TypeCorrect, TableKeepsRecent, PTL DEF Spec

-----------------------------------------------------------------------------
(* check_and_wait() implements GovernedCall *)

\* What the latest answer can be where the caller is: nothing before and
\* during a degrade(), a tokenless PENDING between rechecks, a PENDING while
\* its approval is polled.
AnswerInv ==
  \A c \in Callers :
    /\ pc[c] \in {"gate", "inflight"} => answer[c] \in {"none", "BARE"}
    /\ pc[c] \in {"gate", "inflight"} /\ left[c] = Rechecks => answer[c] = "none"
    /\ pc[c] = "idle" => answer[c] = "none" /\ left[c] = Rechecks
    /\ pc[c] = "recheck" => answer[c] = "BARE"
    /\ pc[c] = "polling" => Decided(answer[c]) = "PENDING"
    /\ pc[c] \in {"degrade", "degrade_last", "degrade_age"} => answer[c] = "none"
    /\ pc[c] \in {"degrade_last", "degrade_age"} => FailOpen

\* The answer invariant holds of every reachable state.
LEMMA AnswerCorrect == Spec => []AnswerInv
<1>1. Init => AnswerInv
  BY DEF Init, AnswerInv
<1>2. TypeOK /\ AnswerInv /\ [Next]_vars => AnswerInv'
  <2> SUFFICES ASSUME TypeOK, AnswerInv, [Next]_vars PROVE AnswerInv'
    OBVIOUS
  <2> USE ToolChecksAssumption DEF AnswerInv, TypeOK, Goto, Decided
  <2>1. ASSUME NEW c \in Callers, StartCheck(c) \/ Admitted(c) PROVE AnswerInv'
    BY <2>1 DEF StartCheck, Admitted
  <2>2. ASSUME NEW c \in Callers, FailFast(c) PROVE AnswerInv'
    BY <2>2 DEF FailFast, Unavailable
  <2>3. ASSUME NEW c \in Callers, TransportFailed(c) PROVE AnswerInv'
    BY <2>3 DEF TransportFailed, Unavailable
  <2>4. ASSUME NEW c \in Callers, Answered(c) \/ Rejected(c) \/ Aborted(c) PROVE AnswerInv'
    BY <2>4 DEF Answered, Rejected, Aborted
  <2>5. ASSUME NEW c \in Callers, Record(c) PROVE AnswerInv'
    <3>1. /\ AfterCheck(c) \in {"granted", "denied", "polling", "recheck"}
          /\ AfterCheck(c) = "polling" => answer[c] = "PENDING"
          /\ AfterCheck(c) = "recheck" => answer[c] = "BARE"
      BY <2>5 DEF Record, AfterCheck, Answers
    <3>2. QED BY <2>5, <3>1 DEF Record
  <2>6. ASSUME NEW c \in Callers, Recheck(c) PROVE AnswerInv'
    <3>1. left'[c] # Rechecks /\ answer'[c] = "BARE" /\ pc'[c] = "gate"
      BY <2>6 DEF Recheck
    <3>2. QED BY <2>6, <3>1 DEF Recheck
  <2>7. ASSUME NEW c \in Callers, PollAnswered(c) \/ PollFailed(c) \/ Contact(c) PROVE AnswerInv'
    BY <2>7 DEF PollAnswered, PollFailed, Contact
  <2>8. ASSUME NEW c \in Callers, Degrade(c) \/ DegradeLast(c) \/ DegradeAge(c) PROVE AnswerInv'
    BY <2>8 DEF Degrade, DegradeLast, DegradeAge
  <2>9. ASSUME NEW c \in Callers, Return(c) PROVE AnswerInv'
    BY <2>9 DEF Return
  <2>10. CASE Environment \/ UNCHANGED vars
    BY <2>10 DEF Environment, Heartbeat, TornHeartbeat, Hint, Restart, Tick, vars, callVars
  <2>11. QED
    BY <2>1, <2>2, <2>3, <2>4, <2>5, <2>6, <2>7, <2>8, <2>9, <2>10 DEF Next, Step
<1>3. QED BY <1>1, <1>2, TypeCorrect, PTL DEF Spec

\* What the abstract specification sees of a caller.
Stage(c) == IF pc[c] \in Done \cup {"idle"} THEN pc[c] ELSE "asking"

\* A step of one caller as the abstract specification sees it.
LEMMA CallerSteps ==
  ASSUME TypeOK, AnswerInv, NEW c \in Callers, StartCheck(c) \/ Aborted(c) \/ Step(c)
  PROVE  /\ \A d \in Callers \ {c} : pc'[d] = pc[d] /\ answer'[d] = answer[d]
         /\ \/ Stage(c)' = Stage(c) /\ Decided(answer[c])' = Decided(answer[c])
            \/ /\ Stage(c) = "idle" /\ Stage(c)' = "asking"
               /\ answer'[c] = answer[c]
            \/ /\ Stage(c) = "asking" /\ Stage(c)' = "asking"
               /\ Decided(answer[c]) \in {"none", "PENDING"}
               /\ Decided(answer[c])' \in Decisions
            \/ /\ Stage(c) = "asking"
               /\ answer'[c] = answer[c]
               /\ \/ Stage(c)' = "granted"  /\ Decided(answer[c]) = "ALLOW"
                  \/ Stage(c)' = "degraded" /\ Decided(answer[c]) = "none" /\ FailOpen
                  \/ Stage(c)' = "denied"   /\ Decided(answer[c]) \in {"DENY", "PENDING"}
                  \/ Stage(c)' = "failed"   /\ Decided(answer[c]) \in {"none", "PENDING"}
            \/ Stage(c) \in Done /\ Stage(c)' = "idle" /\ answer'[c] = "none"
<1> USE DEF AnswerInv, TypeOK, Goto, Stage, Done, Decisions, Answers
<1>1. CASE StartCheck(c) \/ Admitted(c)
  BY <1>1 DEF StartCheck, Admitted
<1>2. CASE FailFast(c)
  BY <1>2 DEF FailFast, Unavailable, Decided
<1>3. CASE TransportFailed(c)
  BY <1>3 DEF TransportFailed, Unavailable, Decided
<1>4. CASE Answered(c)
  BY <1>4 DEF Answered, Decided
<1>5. CASE Rejected(c) \/ Aborted(c)
  BY <1>5 DEF Rejected, Aborted, Decided
<1>6. CASE Record(c)
  <2>1. CASE answer[c] = "BARE"
    BY <1>6, <2>1 DEF Record, AfterCheck, Decided
  <2>2. CASE answer[c] # "BARE"
    BY <1>6, <2>2 DEF Record, AfterCheck, Decided
  <2>3. QED BY <2>1, <2>2
<1>7. CASE Recheck(c)
  BY <1>7 DEF Recheck
<1>8. CASE PollAnswered(c)
  BY <1>8 DEF PollAnswered, Decided
<1>9. CASE PollFailed(c)
  BY <1>9 DEF PollFailed
<1>10. CASE Contact(c)
  BY <1>10 DEF Contact
<1>11. CASE Degrade(c) \/ DegradeLast(c) \/ DegradeAge(c)
  BY <1>11 DEF Degrade, DegradeLast, DegradeAge, Decided
<1>12. CASE Return(c)
  BY <1>12 DEF Return
<1>13. QED
  BY <1>1, <1>2, <1>3, <1>4, <1>5, <1>6, <1>7, <1>8, <1>9, <1>10, <1>11, <1>12 DEF Step

\* check_and_wait() keeps GovernedCall's promise: for any number of callers, a
\* tool runs only on a rendered ALLOW or on a configured fail-open before any
\* verdict, and a PENDING never leaves the check.
THEOREM ImplementsPromise == Spec => KeepsPromise
<1> DEFINE stageBar == [c \in Callers |-> Stage(c)]
           verdictBar == [c \in Callers |-> Decided(answer[c])]
<1>1. Init => Promise!Init
  BY DEF Init, Promise!Init, Decided
<1>2. TypeOK /\ AnswerInv /\ [Next]_vars => [Promise!Next]_(Promise!cvars)
  <2> SUFFICES ASSUME TypeOK, AnswerInv, [Next]_vars
               PROVE  [Promise!Next]_<<stageBar, verdictBar>>
    BY DEF Promise!cvars, Stage
  <2>1. ASSUME NEW c \in Callers, StartCheck(c) \/ Aborted(c) \/ Step(c)
        PROVE  [Promise!Next]_<<stageBar, verdictBar>>
    <3>1. \A d \in Callers \ {c} : Stage(d)' = Stage(d) /\ Decided(answer[d])' = Decided(answer[d])
      BY <2>1, CallerSteps DEF Stage
    <3>2. CASE Stage(c)' = Stage(c) /\ Decided(answer[c])' = Decided(answer[c])
      BY <3>1, <3>2
    <3>3. CASE Stage(c) = "idle" /\ Stage(c)' = "asking" /\ answer'[c] = answer[c]
      <4>1. stageBar' = [stageBar EXCEPT ![c] = "asking"] /\ verdictBar' = verdictBar
        BY <3>1, <3>3
      <4>2. Promise!Ask(c)
        BY <4>1, <3>3 DEF Promise!Ask, Stage
      <4>3. QED BY <4>2 DEF Promise!Next
    <3>4. CASE /\ Stage(c) = "asking" /\ Stage(c)' = "asking"
               /\ Decided(answer[c]) \in {"none", "PENDING"}
               /\ Decided(answer[c])' \in Decisions
      <4>1. /\ stageBar' = stageBar
            /\ verdictBar' = [verdictBar EXCEPT ![c] = Decided(answer[c])']
        BY <3>1, <3>4
      <4>2. Promise!Render(c)
        BY <4>1, <3>4 DEF Promise!Render, Stage, Decisions
      <4>3. QED BY <4>2 DEF Promise!Next
    <3>5. CASE /\ Stage(c) = "asking"
               /\ answer'[c] = answer[c]
               /\ \/ Stage(c)' = "granted"  /\ Decided(answer[c]) = "ALLOW"
                  \/ Stage(c)' = "degraded" /\ Decided(answer[c]) = "none" /\ FailOpen
                  \/ Stage(c)' = "denied"   /\ Decided(answer[c]) \in {"DENY", "PENDING"}
                  \/ Stage(c)' = "failed"   /\ Decided(answer[c]) \in {"none", "PENDING"}
      <4>1. stageBar' = [stageBar EXCEPT ![c] = Stage(c)'] /\ verdictBar' = verdictBar
        BY <3>1, <3>5
      <4>2. Promise!Leave(c)
        BY <4>1, <3>5 DEF Promise!Leave, Promise!MayLeave, Promise!Outcomes, Stage
      <4>3. QED BY <4>2 DEF Promise!Next
    <3>6. CASE Stage(c) \in Done /\ Stage(c)' = "idle" /\ answer'[c] = "none"
      <4>1. /\ stageBar' = [stageBar EXCEPT ![c] = "idle"]
            /\ verdictBar' = [verdictBar EXCEPT ![c] = "none"]
        BY <3>1, <3>6 DEF Decided
      <4>2. Promise!Return(c)
        BY <4>1, <3>6 DEF Promise!Return, Promise!Outcomes, Stage, Done
      <4>3. QED BY <4>2 DEF Promise!Next
    <3>7. QED BY <2>1, CallerSteps, <3>2, <3>3, <3>4, <3>5, <3>6
  <2>2. CASE Environment \/ UNCHANGED vars
    BY <2>2 DEF Environment, Heartbeat, TornHeartbeat, Hint, Restart, Tick, vars, callVars, Stage
  <2>3. QED BY <2>1, <2>2 DEF Next
<1>3. QED
  BY <1>1, <1>2, TypeCorrect, AnswerCorrect, PTL DEF Spec, KeepsPromise, Promise!Spec
=============================================================================
