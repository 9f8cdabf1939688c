---------------------------- MODULE RapidSuspend ----------------------------
(***************************************************************************)
(* How a suspension decided at Gateway reaches the agent: the heartbeat    *)
(* half of TelemetryExporter (telemetry.py) and the frames of the control  *)
(* stream (_FrameHandler of control_stream.py), on one GovernanceState.    *)
(*                                                                         *)
(* Three kinds of thread touch that state: the exporter's loop, the        *)
(* stream's reader, and user threads in flush_now() or set_on_suspend().   *)
(* The hint and the notification run under _state_lock; the heartbeat is   *)
(* written field by field under no lock.  A poll that a full batch caused  *)
(* is a poll like any other; what happens to the events is TelemetryQueue. *)
(***************************************************************************)
EXTENDS Naturals

CONSTANTS Users,       \* user threads
          Lifecycles,  \* the lifecycle statuses an identity goes through
          Stoppable,   \* bound: those in which its tenant's stop is used
          Pushed       \* bound: those that frames carry, late ones included

ASSUME RapidSuspendAssumption ==
  /\ "active" \in Lifecycles
  /\ Lifecycles \cup Pushed \subseteq {"active", "suspended", "revoked"}
  /\ Stoppable \subseteq Lifecycles
  /\ {"loop", "stream"} \cap Users = {}

VARIABLES
  gateway,      \* the identity at Gateway: its lifecycle and its tenant's stop
  lifecycle,    \* state.lifecycle_status
  stop,         \* state.emergency_stop
  registered,   \* whether _on_suspend is set
  notified,     \* _suspend_notified
  pc,           \* where each thread is
  reply,        \* the heartbeat of each poller's response
  frame,        \* the frame the stream's reader handles
  tightens,     \* whether it tightens the state, as far as known
  overtaken,    \* history: a heartbeat landed since, before its write
  saw,          \* is_suspended as read by the thread that holds the lock
  refresh,      \* _refresh_requested
  wake,         \* _wake
  forced,       \* this iteration of the loop polls in any case
  asked,        \* history: a refresh was requested, no poll sent since
  relaxed       \* history: the state has been unsuspended since on_suspend ran

localVars == <<lifecycle, stop>>
noteVars == <<registered, notified, saw, relaxed>>
wakeVars == <<refresh, wake, forced, asked>>
streamVars == <<frame, tightens, overtaken>>
vars == <<gateway, localVars, noteVars, wakeVars, streamVars, pc, reply>>

\* The values of lifecycle_status, and _LIFECYCLE_SEVERITY.
Statuses == Lifecycles \cup Pushed \cup {"unknown"}
Severity == [s \in Statuses |->
               IF s = "revoked" THEN 2 ELSE IF s = "suspended" THEN 1 ELSE 0]
Identities == [lifecycle : Lifecycles, stop : {FALSE}]
         \cup [lifecycle : Stoppable, stop : {TRUE}]
\* A lifecycle frame says nothing of the stop, nor the other way round.
Frames == [name : {"ready"}, lifecycle : Pushed, stop : {FALSE}]
     \cup [name : {"ready"}, lifecycle : Stoppable, stop : {TRUE}]
     \cup [name : {"lifecycle"}, lifecycle : Pushed, stop : {FALSE}]
     \cup [name : {"emergency_stop"}, lifecycle : {"active"}, stop : BOOLEAN]

Pollers == {"loop"} \cup Users
Threads == {"stream"} \cup Pollers
NoReply == [lifecycle |-> "none", stop |-> FALSE]
NoFrame == [name |-> "none", lifecycle |-> "none", stop |-> FALSE]

\* is_suspended
Suspends(l, s) == s \/ l \in {"suspended", "revoked"}
Suspended == Suspends(lifecycle, stop)

\* Somebody holds _state_lock.
Locked == \E t \in Threads : pc[t] \in {"hint", "notify_set"}

PollSteps == {"flight", "stop", "notify", "notify_set"}
Places(t) ==
  CASE t = "loop" -> PollSteps \cup {"first", "top", "flush", "wait", "clear"}
    [] t = "stream" -> {"idle", "hint", "notify", "notify_set", "confirm", "wakeup"}
    [] t \in Users -> PollSteps \cup {"idle"}
Placed == DOMAIN pc = Threads /\ \A t \in Threads : pc[t] \in Places(t)

TypeOK ==
  /\ gateway \in Identities
  /\ lifecycle \in Statuses /\ stop \in BOOLEAN
  /\ registered \in BOOLEAN /\ notified \in BOOLEAN
  /\ saw \in BOOLEAN /\ relaxed \in BOOLEAN
  /\ refresh \in BOOLEAN /\ wake \in BOOLEAN /\ forced \in BOOLEAN
  /\ asked \in BOOLEAN
  /\ Placed
  /\ reply \in [Pollers -> Identities \cup {NoReply}]
  /\ \A p \in Pollers : pc[p] = "stop" => reply[p] # NoReply
  /\ frame \in Frames \cup {NoFrame} /\ tightens \in BOOLEAN /\ overtaken \in BOOLEAN
  /\ pc["stream"] \notin {"idle", "wakeup"} => frame # NoFrame

Init ==
  /\ gateway = [lifecycle |-> "active", stop |-> FALSE]
  /\ lifecycle = "unknown" /\ stop = FALSE
  /\ registered \in BOOLEAN /\ notified = FALSE
  /\ saw = FALSE /\ relaxed = TRUE
  /\ refresh = FALSE /\ wake = FALSE /\ forced = FALSE
  /\ asked = FALSE
  /\ pc = [t \in Threads |-> IF t = "loop" THEN "first" ELSE "idle"]
  /\ reply = [p \in Pollers |-> NoReply]
  /\ frame = NoFrame /\ tightens = FALSE /\ overtaken = FALSE

Goto(t, l) == pc' = [pc EXCEPT ![t] = l]

-----------------------------------------------------------------------------
\* An admin changes the identity's lifecycle or the tenant's emergency stop.
Change ==
  /\ gateway' \in Identities \ {gateway}
  /\ UNCHANGED <<localVars, noteVars, wakeVars, streamVars, pc, reply>>

-----------------------------------------------------------------------------
(* The stream's reader: apply_control_hint(), then request_refresh() *)

\* A frame arrives: current, late, misordered or replayed, so any frame (one
\* about another identity changes nothing).  tighten_from_hint() compares it
\* with lifecycle_status ...
Receive ==
  /\ pc["stream"] = "idle" /\ ~Locked
  /\ frame' \in Frames
  /\ tightens' = (/\ frame'.name \in {"lifecycle", "ready"}
                  /\ Severity[frame'.lifecycle] > Severity[lifecycle])
  /\ overtaken' = FALSE
  /\ Goto("stream", "hint")
  /\ UNCHANGED <<gateway, localVars, noteVars, wakeVars, reply>>

\* Slip: a frame is taken at its word.
TakeFrame ==
  /\ pc["stream"] = "hint"
  /\ lifecycle' = IF frame.name = "emergency_stop" THEN lifecycle ELSE frame.lifecycle
  /\ stop' = IF frame.name = "lifecycle" THEN stop ELSE frame.stop
  /\ relaxed' = (relaxed \/ ~Suspends(lifecycle', stop'))
  /\ Goto("stream", "notify")
  /\ UNCHANGED <<gateway, registered, notified, saw, wakeVars, reply, streamVars>>

\* ... and writes it, whatever a heartbeat wrote in between.
Tighten ==
  LET stops == /\ frame.name \in {"emergency_stop", "ready"}
               /\ frame.stop /\ ~stop
  IN /\ pc["stream"] = "hint"
     /\ lifecycle' = IF tightens THEN frame.lifecycle ELSE lifecycle
     /\ stop' = (stop \/ stops)
     /\ tightens' = (tightens \/ stops)
     /\ Goto("stream", IF tightens' THEN "notify" ELSE "confirm")
     /\ UNCHANGED <<gateway, noteVars, wakeVars, reply, frame, overtaken>>

\* _snapshot_differs(), on the state the frame has already tightened; the
\* configVersion may differ too.
Confirm ==
  /\ pc["stream"] = "confirm"
  /\ \/ /\ refresh' = TRUE /\ asked' = TRUE
        /\ Goto("stream", "wakeup")
     \/ /\ frame.name = "ready"
        /\ frame.lifecycle = lifecycle /\ frame.stop = stop
        /\ Goto("stream", "idle")
        /\ UNCHANGED <<refresh, asked>>
  /\ frame' = NoFrame /\ tightens' = FALSE /\ overtaken' = FALSE
  /\ UNCHANGED <<gateway, localVars, noteVars, wake, forced, reply>>

\* Slip: the flag is set, the loop is left asleep.
WakeNobody ==
  /\ pc["stream"] = "wakeup"
  /\ Goto("stream", "idle")
  /\ UNCHANGED <<gateway, localVars, noteVars, wakeVars, reply, streamVars>>

WakeUp ==
  /\ pc["stream"] = "wakeup"
  /\ wake' = TRUE
  /\ Goto("stream", "idle")
  /\ UNCHANGED <<gateway, localVars, noteVars, refresh, forced, asked,
                 reply, streamVars>>

-----------------------------------------------------------------------------
(* The exporter's loop: _run() *)

\* The flag is cleared before the flush; the jitter of a tenant-wide event
\* only delays the flush.  The first iteration polls in any case.
LoopTop ==
  /\ pc["loop"] \in {"first", "top"}
  /\ forced' = (refresh \/ pc["loop"] = "first")
  /\ refresh' = FALSE
  /\ Goto("loop", "flush")
  /\ UNCHANGED <<gateway, localVars, noteVars, wake, asked, reply, streamVars>>

\* _flush(): a poll, forced, due or carrying events ...
Send ==
  /\ pc["loop"] = "flush"
  /\ forced' = FALSE /\ asked' = FALSE
  /\ Goto("loop", "flight")
  /\ UNCHANGED <<gateway, localVars, noteVars, refresh, wake, reply, streamVars>>

\* ... or nothing to do.
Skip ==
  /\ pc["loop"] = "flush" /\ ~forced
  /\ Goto("loop", "wait")
  /\ UNCHANGED <<gateway, localVars, noteVars, wakeVars, reply, streamVars>>

\* _wake.wait() returns for a request, or when its timeout is over.
Woken ==
  /\ pc["loop"] = "wait" /\ wake
  /\ Goto("loop", "clear")
  /\ UNCHANGED <<gateway, localVars, noteVars, wakeVars, reply, streamVars>>

TimedOut ==
  /\ pc["loop"] = "wait" /\ ~wake
  /\ Goto("loop", "clear")
  /\ UNCHANGED <<gateway, localVars, noteVars, wakeVars, reply, streamVars>>

\* Slip: the request is cleared along with the event that announced it.
ClearBoth ==
  /\ pc["loop"] = "clear"
  /\ wake' = FALSE /\ refresh' = FALSE
  /\ Goto("loop", "top")
  /\ UNCHANGED <<gateway, localVars, noteVars, forced, asked, reply, streamVars>>

Clear ==
  /\ pc["loop"] = "clear"
  /\ wake' = FALSE
  /\ Goto("loop", "top")
  /\ UNCHANGED <<gateway, localVars, noteVars, refresh, forced, asked,
                 reply, streamVars>>

-----------------------------------------------------------------------------
(* A poll, by the loop or by flush_now() *)

FlushNow(u) ==
  /\ pc[u] = "idle"
  /\ Goto(u, "flight")
  /\ UNCHANGED <<gateway, localVars, noteVars, wakeVars, reply, streamVars>>

\* Gateway reads the identity and answers.
Serve(p) ==
  /\ pc[p] = "flight" /\ reply[p] = NoReply
  /\ reply' = [reply EXCEPT ![p] = gateway]
  /\ UNCHANGED <<gateway, localVars, noteVars, wakeVars, pc, streamVars>>

\* After a batch: the loop waits, or drains a backlog at once like _flush_all().
AfterBatch(p) == IF p = "loop" THEN {"wait", "top"} ELSE {"idle", "flight"}

\* The request or its response is lost, is an error, or carries no heartbeat.
PollFailed(p) ==
  /\ pc[p] = "flight"
  /\ reply' = [reply EXCEPT ![p] = NoReply]
  /\ \E l \in AfterBatch(p) : Goto(p, l)
  /\ UNCHANGED <<gateway, localVars, noteVars, wakeVars, streamVars>>

\* Slip: a response without a heartbeat is taken for one.
HeartbeatAssumed(p) ==
  /\ pc[p] = "flight"
  /\ lifecycle' = reply[p].lifecycle
  /\ relaxed' = (relaxed \/ ~Suspends(lifecycle', stop))
  /\ overtaken' = (overtaken \/ (pc["stream"] = "hint" /\ tightens))
  /\ Goto(p, "stop")
  /\ UNCHANGED <<gateway, stop, registered, notified, saw, wakeVars, reply,
                 frame, tightens>>

\* update_from_heartbeat(): lifecycle_status first, then emergency_stop.
WriteLifecycle(p) ==
  /\ pc[p] = "flight" /\ reply[p] # NoReply
  /\ lifecycle' = reply[p].lifecycle
  /\ relaxed' = (relaxed \/ ~Suspends(lifecycle', stop))
  /\ overtaken' = (overtaken \/ (pc["stream"] = "hint" /\ tightens))
  /\ Goto(p, "stop")
  /\ UNCHANGED <<gateway, stop, registered, notified, saw, wakeVars, reply,
                 frame, tightens>>

\* Slip: a heartbeat only ever sets the stop.
WriteStopOn(p) ==
  /\ pc[p] = "stop"
  /\ stop' = (stop \/ reply[p].stop)
  /\ relaxed' = (relaxed \/ ~Suspends(lifecycle, stop'))
  /\ reply' = [reply EXCEPT ![p] = NoReply]
  /\ Goto(p, "notify")
  /\ UNCHANGED <<gateway, lifecycle, registered, notified, saw, wakeVars, streamVars>>

WriteStop(p) ==
  /\ pc[p] = "stop"
  /\ stop' = reply[p].stop
  /\ relaxed' = (relaxed \/ ~Suspends(lifecycle, stop'))
  /\ reply' = [reply EXCEPT ![p] = NoReply]
  /\ Goto(p, "notify")
  /\ UNCHANGED <<gateway, lifecycle, registered, notified, saw, wakeVars, streamVars>>

-----------------------------------------------------------------------------
(* on_suspend: set_on_suspend() and _maybe_notify_suspend() *)

\* Slip: a callback registered late waits for the next notification.
RegisterSilently(u) ==
  /\ pc[u] = "idle"
  /\ registered' = TRUE
  /\ UNCHANGED <<gateway, localVars, notified, saw, relaxed, wakeVars, pc,
                 reply, streamVars>>

Register(u) ==
  /\ pc[u] = "idle"
  /\ registered' = TRUE
  /\ Goto(u, "notify")
  /\ UNCHANGED <<gateway, localVars, notified, saw, relaxed, wakeVars,
                 reply, streamVars>>

Unregister(u) ==
  /\ pc[u] = "idle"
  /\ registered' = FALSE
  /\ UNCHANGED <<gateway, localVars, notified, saw, relaxed, wakeVars, pc,
                 reply, streamVars>>

TakeLock(t) ==
  /\ pc[t] = "notify" /\ ~Locked
  /\ saw' = Suspended
  /\ Goto(t, "notify_set")
  /\ UNCHANGED <<gateway, localVars, registered, notified, relaxed, wakeVars,
                 reply, streamVars>>

AfterNotify(t) == IF t = "stream" THEN {"confirm"} ELSE AfterBatch(t)

Fires(t) == pc[t] = "notify_set" /\ saw /\ ~notified /\ registered

\* Slip: only the all-clear is recorded.
NotifyEachTime(t) ==
  /\ pc[t] = "notify_set"
  /\ notified' = (notified /\ saw)
  /\ relaxed' = IF Fires(t) THEN ~Suspended ELSE relaxed
  /\ saw' = FALSE
  /\ \E l \in AfterNotify(t) : Goto(t, l)
  /\ UNCHANGED <<gateway, localVars, registered, wakeVars, reply, streamVars>>

\* The callback itself runs after the lock is released.
Notify(t) ==
  /\ pc[t] = "notify_set"
  /\ notified' = (saw /\ (notified \/ registered))
  /\ relaxed' = IF Fires(t) THEN ~Suspended ELSE relaxed
  /\ saw' = FALSE
  /\ \E l \in AfterNotify(t) : Goto(t, l)
  /\ UNCHANGED <<gateway, localVars, registered, wakeVars, reply, streamVars>>

-----------------------------------------------------------------------------
Stream == Receive \/ Tighten \/ Confirm \/ WakeUp
Loop == LoopTop \/ Send \/ Skip \/ Woken \/ TimedOut \/ Clear
Poll(p) == PollFailed(p) \/ WriteLifecycle(p) \/ WriteStop(p)
Note(t) == TakeLock(t) \/ Notify(t)

Next ==
  \/ Change
  \/ Stream \/ Loop
  \/ \E u \in Users : FlushNow(u) \/ Register(u) \/ Unregister(u)
  \/ \E p \in Pollers : Serve(p) \/ Poll(p)
  \/ \E t \in Threads : Note(t)

Spec == Init /\ [][Next]_vars

\* The exporter's thread and the reader run on, the loop's HTTP requests end,
\* and so does on_suspend; the lock the loop wants again and again it gets.
FairSpec ==
  /\ Spec
  /\ WF_vars(Loop) /\ WF_vars(Poll("loop")) /\ SF_vars(TakeLock("loop"))
  /\ WF_vars(Tighten) /\ WF_vars(\E t \in Threads : Notify(t))

-----------------------------------------------------------------------------
(* What makes the component correct *)

\* "A refresh requested while this iteration is in flight survives to the
\* next one instead of being lost" (_run), wherever the loop is.
RefreshNotLost == asked => refresh \/ (pc["loop"] = "flush" /\ forced)

\* The loop never sleeps out its interval on a requested refresh.
NoSleepOnRequest ==
  refresh /\ pc["loop"] = "wait" => wake \/ pc["stream"] = "wakeup"

\* A suspension known locally has been announced to the registered callback,
\* or a thread is on its way to do so: whatever order a heartbeat, a push and
\* set_on_suspend() come in, the callback is not skipped.
SuspensionAnnounced ==
  Suspended /\ registered =>
    notified \/ \E t \in Threads : pc[t] \in {"hint", "stop", "notify", "notify_set"}

\* on_suspend runs once per local suspension: before it runs again the state
\* has been unsuspended in between.
AnnouncedOnce == [][\A t \in Threads : Notify(t) /\ Fires(t) => relaxed]_vars

\* "A hint can only ever move the state upward" (telemetry.py, at the table of
\* severities), unless a heartbeat landed between its comparison and its write,
\* which share no lock with it: then it may put a suspended in place of a
\* revoked.  Even so it relaxes nothing: what is suspended remains so.
HintMovesUpward ==
  [][Tighten => /\ Suspended => Suspended'
                /\ stop => stop'
                /\ Severity[lifecycle'] >= Severity[lifecycle] \/ overtaken]_vars

\* "Polling stays the guarantee": when Gateway no longer changes, no more
\* frames arrive and polls keep succeeding, the local state becomes and stays
\* Gateway's, whatever was pushed and however stale the answers in flight.
Agrees == lifecycle = gateway.lifecycle /\ stop = gateway.stop
FollowsGateway ==
  (<>[][~(Change \/ Receive)]_vars /\ []<><<WriteStop("loop")>>_vars) => <>[]Agrees

\* control_stream.py: "every push also triggers an immediate heartbeat poll
\* that sets the authoritative state": the loop is not left asleep after a
\* push that tightened the state.
PushConfirmed ==
  [][Confirm /\ tightens => refresh' \/ pc["loop"] # "wait"]_vars
=============================================================================
