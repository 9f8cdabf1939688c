------------------------- MODULE RapidSuspend_proofs -------------------------
(***************************************************************************)
(* Proofs about RapidSuspend, for any set of user threads and any set of   *)
(* lifecycle statuses: its types, that refreshes are neither lost nor      *)
(* slept out, that on_suspend is neither skipped nor repeated, and that a  *)
(* push only moves the state upward unless a heartbeat has overtaken it.   *)
(***************************************************************************)
EXTENDS RapidSuspend, TLAPS

\* "loop", "stream" and the user threads are different threads.
LEMMA ThreadNames ==
  /\ "loop" \notin Users /\ "stream" \notin Users
  /\ "loop" \in Pollers /\ "loop" \in Threads /\ "stream" \in Threads
  /\ \A p \in Pollers : p \in Threads /\ p # "stream" /\ (p = "loop" \/ p \in Users)
  /\ \A u \in Users : u \in Pollers /\ u # "loop" /\ u # "stream"
BY RapidSuspendAssumption DEF Pollers, Threads

\* A thread that goes to one of its places leaves the others where they are.
LEMMA GotoPlaced ==
  ASSUME Placed, NEW t \in Threads, NEW l \in Places(t), Goto(t, l)
  PROVE  /\ Placed'
         /\ pc'[t] = l
         /\ \A u \in Threads \ {t} : pc'[u] = pc[u]
BY DEF Placed, Goto

\* The places of each kind of thread.
LEMMA PlacesOf ==
  /\ Places("loop") = PollSteps \cup {"first", "top", "flush", "wait", "clear"}
  /\ Places("stream") = {"idle", "hint", "notify", "notify_set", "confirm", "wakeup"}
  /\ \A u \in Users : Places(u) = PollSteps \cup {"idle"}
  /\ \A p \in Pollers : /\ PollSteps \subseteq Places(p)
                        /\ AfterBatch(p) \subseteq Places(p) \ {"stop", "notify", "notify_set"}
  /\ \A t \in Threads : {"notify", "notify_set"} \subseteq Places(t)
<1> USE ThreadNames
<1>1. Places("loop") = PollSteps \cup {"first", "top", "flush", "wait", "clear"}
  BY DEF Places
<1>2. Places("stream") = {"idle", "hint", "notify", "notify_set", "confirm", "wakeup"}
  BY DEF Places
<1>3. \A u \in Users : Places(u) = PollSteps \cup {"idle"}
  BY DEF Places
<1>4. \A p \in Pollers : AfterBatch(p) \subseteq Places(p) \ {"stop", "notify", "notify_set"}
  BY <1>1, <1>3 DEF AfterBatch, PollSteps
<1>5. \A p \in Pollers : PollSteps \subseteq Places(p)
  BY <1>1, <1>3
<1>6. \A t \in Threads : {"notify", "notify_set"} \subseteq Places(t)
  BY <1>2, <1>5 DEF Threads, PollSteps
<1>7. QED BY <1>1, <1>2, <1>3, <1>4, <1>5, <1>6

\* Where each step that moves a thread takes it.
LEMMA Moves ==
  ASSUME TypeOK, Next
  PROVE  \/ UNCHANGED pc
         \/ \E t \in Threads : \E l \in Places(t) : Goto(t, l)
<1> USE ThreadNames, PlacesOf
<1>1. CASE Change \/ \E u \in Users : Unregister(u)
  BY <1>1 DEF Change, Unregister
<1>2. CASE Stream
  BY <1>2 DEF Stream, Receive, Tighten, Confirm, WakeUp
<1>3. CASE Loop
  BY <1>3 DEF Loop, LoopTop, Send, Skip, Woken, TimedOut, Clear, PollSteps
<1>4. CASE \E u \in Users : FlushNow(u) \/ Register(u)
  <2>1. \A u \in Users : u \in Threads /\ "flight" \in Places(u) /\ "notify" \in Places(u)
    BY DEF PollSteps
  <2>2. QED BY <1>4, <2>1 DEF FlushNow, Register
<1>5. CASE \E p \in Pollers : Serve(p)
  BY <1>5 DEF Serve
<1>6. CASE \E p \in Pollers : Poll(p)
  BY <1>6 DEF Poll, PollFailed, WriteLifecycle, WriteStop, PollSteps
<1>7. CASE \E t \in Threads : Note(t)
  <2>1. \A t \in Threads : AfterNotify(t) \subseteq Places(t)
    BY DEF AfterNotify, Threads
  <2>2. QED BY <1>7, <2>1 DEF Note, TakeLock, Notify
<1>8. QED BY <1>1, <1>2, <1>3, <1>4, <1>5, <1>6, <1>7 DEF Next

\* Every variable keeps its type, a poller that writes a heartbeat has one,
\* and the stream's reader has a frame wherever it needs one.
THEOREM TypeCorrect == Spec => []TypeOK
<1>1. Init => TypeOK
  <2> SUFFICES ASSUME Init PROVE TypeOK
    OBVIOUS
  <2>1. Placed
    <3>1. "first" \in Places("loop") /\ "idle" \in Places("stream")
      BY PlacesOf
    <3>2. \A u \in Users : "idle" \in Places(u)
      BY PlacesOf
    <3>3. \A t \in Threads : pc[t] \in Places(t)
      BY <3>1, <3>2, ThreadNames DEF Init, Threads, Pollers
    <3>4. QED BY <3>3 DEF Init, Placed
  <2>2. QED BY <2>1, ThreadNames, RapidSuspendAssumption DEF Init, TypeOK, Identities, Statuses
<1>2. TypeOK /\ [Next]_vars => TypeOK'
  <2> SUFFICES ASSUME TypeOK, [Next]_vars PROVE TypeOK'
    OBVIOUS
  <2>0. Placed'
    <3>1. CASE UNCHANGED pc
      BY <3>1 DEF TypeOK, Placed
    <3>2. CASE Next
      BY <3>1, <3>2, Moves, GotoPlaced DEF TypeOK
    <3>3. QED BY <3>1, <3>2 DEF vars
  <2> USE RapidSuspendAssumption, ThreadNames, PlacesOf, <2>0
      DEF TypeOK, localVars, noteVars, wakeVars, streamVars
  <2>1. CASE Change
    BY <2>1 DEF Change
  <2>2. CASE Receive
    <3>1. tightens' \in BOOLEAN
      BY <2>2 DEF Receive
    <3>2. frame' \in Frames /\ frame' # NoFrame
      <4>1. \A f \in Frames : f.name # "none"
        BY DEF Frames
      <4>2. QED BY <2>2, <4>1 DEF Receive, NoFrame
    <3>3. \A p \in Pollers : pc'[p] = pc[p]
      BY <2>2, GotoPlaced DEF Receive
    <3>4. QED BY <2>2, <3>1, <3>2, <3>3 DEF Receive
  <2>3. CASE Tighten
    <3>1. frame \in Frames
      BY <2>3 DEF Tighten
    <3>2. tightens' \in BOOLEAN /\ stop' \in BOOLEAN /\ lifecycle' \in Statuses
      BY <2>3, <3>1 DEF Tighten, Frames, Statuses
    <3>3. \A p \in Pollers : pc'[p] = pc[p]
      BY <2>3, GotoPlaced DEF Tighten
    <3>4. QED BY <2>3, <3>2, <3>3 DEF Tighten
  <2>4. CASE Confirm
    <3>1. pc'["stream"] \in {"idle", "wakeup"} /\ \A p \in Pollers : pc'[p] = pc[p]
      BY <2>4, GotoPlaced DEF Confirm
    <3>2. QED BY <2>4, <3>1 DEF Confirm
  <2>5. CASE WakeUp
    <3>1. pc'["stream"] = "idle" /\ \A p \in Pollers : pc'[p] = pc[p]
      BY <2>5, GotoPlaced DEF WakeUp
    <3>2. QED BY <2>5, <3>1 DEF WakeUp
  <2>6. CASE Loop
    <3>1. pc'["loop"] # "stop" /\ \A t \in Threads \ {"loop"} : pc'[t] = pc[t]
      BY <2>6, GotoPlaced DEF Loop, LoopTop, Send, Skip, Woken, TimedOut, Clear, PollSteps
    <3>2. UNCHANGED <<gateway, lifecycle, stop, noteVars, reply, frame, tightens, overtaken>>
      BY <2>6 DEF Loop, LoopTop, Send, Skip, Woken, TimedOut, Clear, streamVars
    <3>3. refresh' \in BOOLEAN /\ wake' \in BOOLEAN /\ forced' \in BOOLEAN /\ asked' \in BOOLEAN
      BY <2>6 DEF Loop, LoopTop, Send, Skip, Woken, TimedOut, Clear
    <3>4. QED BY <3>1, <3>2, <3>3
  <2>7. ASSUME NEW u \in Users, FlushNow(u) \/ Register(u) \/ Unregister(u) PROVE TypeOK'
    <3>1. UNCHANGED pc \/ (pc'[u] # "stop" /\ \A t \in Threads \ {u} : pc'[t] = pc[t])
      BY <2>7, GotoPlaced DEF FlushNow, Register, Unregister, PollSteps
    <3>2. registered' \in BOOLEAN
      BY <2>7 DEF FlushNow, Register, Unregister
    <3>3. UNCHANGED <<gateway, localVars, notified, saw, relaxed, wakeVars, reply, streamVars>>
      BY <2>7 DEF FlushNow, Register, Unregister
    <3>4. QED BY <3>1, <3>2, <3>3
  <2>8. ASSUME NEW p \in Pollers, Serve(p) PROVE TypeOK'
    <3>1. gateway.lifecycle \in Lifecycles
      BY DEF Identities
    <3>2. gateway # NoReply
      BY <3>1 DEF NoReply
    <3>3. QED BY <2>8, <3>2 DEF Serve
  <2>9. ASSUME NEW p \in Pollers, PollFailed(p) PROVE TypeOK'
    <3>1. pc'[p] # "stop" /\ \A t \in Threads \ {p} : pc'[t] = pc[t]
      BY <2>9, GotoPlaced DEF PollFailed
    <3>2. QED BY <2>9, <3>1 DEF PollFailed
  <2>10. ASSUME NEW p \in Pollers, WriteLifecycle(p) PROVE TypeOK'
    <3>1. reply[p].lifecycle \in Lifecycles
      BY <2>10 DEF WriteLifecycle, Identities
    <3>2. relaxed' \in BOOLEAN /\ overtaken' \in BOOLEAN
      BY <2>10 DEF WriteLifecycle, Suspends
    <3>3. \A t \in Threads \ {p} : pc'[t] = pc[t]
      BY <2>10, GotoPlaced DEF WriteLifecycle, PollSteps
    <3>4. QED BY <2>10, <3>1, <3>2, <3>3 DEF WriteLifecycle, Statuses
  <2>11. ASSUME NEW p \in Pollers, WriteStop(p) PROVE TypeOK'
    <3>1. reply[p].stop \in BOOLEAN
      BY <2>11 DEF WriteStop, Identities
    <3>2. relaxed' \in BOOLEAN
      BY <2>11 DEF WriteStop, Suspends
    <3>3. pc'[p] = "notify" /\ \A t \in Threads \ {p} : pc'[t] = pc[t]
      BY <2>11, GotoPlaced DEF WriteStop, PollSteps
    <3>4. QED BY <2>11, <3>1, <3>2, <3>3 DEF WriteStop
  <2>12. ASSUME NEW t \in Threads, TakeLock(t) PROVE TypeOK'
    <3>1. saw' \in BOOLEAN
      BY <2>12 DEF TakeLock, Suspended, Suspends
    <3>2. pc'[t] = "notify_set" /\ \A u \in Threads \ {t} : pc'[u] = pc[u]
      BY <2>12, GotoPlaced DEF TakeLock
    <3>3. QED BY <2>12, <3>1, <3>2 DEF TakeLock
  <2>13. ASSUME NEW t \in Threads, Notify(t) PROVE TypeOK'
    <3>1. notified' \in BOOLEAN /\ relaxed' \in BOOLEAN
      BY <2>13 DEF Notify, Suspended, Suspends
    <3>2. pc'[t] # "stop" /\ \A u \in Threads \ {t} : pc'[u] = pc[u]
      BY <2>13, GotoPlaced DEF Notify, AfterNotify, Threads
    <3>3. t = "stream" => frame # NoFrame
      BY <2>13 DEF Notify, Threads
    <3>4. QED BY <2>13, <3>1, <3>2, <3>3 DEF Notify
  <2>14. CASE UNCHANGED vars
    BY <2>14 DEF vars
  <2>15. QED
    BY <2>1, <2>2, <2>3, <2>4, <2>5, <2>6, <2>7, <2>8, <2>9, <2>10, <2>11, <2>12,
       <2>13, <2>14 DEF Next, Stream, Poll, Note
<1>3. QED BY <1>1, <1>2, PTL DEF Spec

-----------------------------------------------------------------------------
(* Refreshes *)

\* A request outlives the event that announced it only on the way to the top
\* of the loop, where it is looked at.
WakeInv ==
  /\ RefreshNotLost
  /\ refresh => wake \/ pc["stream"] = "wakeup" \/ pc["loop"] \in {"first", "top"}

\* The wake-up invariant holds of every reachable state.
LEMMA WakeCorrect == Spec => []WakeInv
<1>1. Init => WakeInv
  BY DEF Init, WakeInv, RefreshNotLost
<1>2. TypeOK /\ WakeInv /\ [Next]_vars => WakeInv'
  <2> SUFFICES ASSUME TypeOK, WakeInv, [Next]_vars PROVE WakeInv'
    OBVIOUS
  <2> USE ThreadNames, PlacesOf
      DEF WakeInv, RefreshNotLost, localVars, noteVars, wakeVars, streamVars
  <2>0. Placed
    BY DEF TypeOK
  <2>1. CASE Change
    BY <2>1 DEF Change
  <2>2. CASE Receive
    <3>1. pc["stream"] = "idle" /\ pc'["stream"] = "hint" /\ pc'["loop"] = pc["loop"]
      BY <2>0, <2>2, GotoPlaced DEF Receive
    <3>2. QED BY <2>2, <3>1 DEF Receive
  <2>3. CASE Tighten
    <3>1. pc["stream"] = "hint" /\ pc'["loop"] = pc["loop"]
      BY <2>0, <2>3, GotoPlaced DEF Tighten
    <3>2. QED BY <2>3, <3>1 DEF Tighten
  <2>4. CASE Confirm
    <3>1. pc["stream"] = "confirm" /\ pc'["loop"] = pc["loop"]
      BY <2>0, <2>4, GotoPlaced DEF Confirm
    <3>2. CASE refresh' = TRUE /\ asked' = TRUE /\ Goto("stream", "wakeup")
      <4>1. pc'["stream"] = "wakeup"
        BY <2>0, <3>2, GotoPlaced
      <4>2. QED BY <2>4, <3>1, <3>2, <4>1 DEF Confirm
    <3>3. CASE UNCHANGED <<refresh, asked>>
      BY <2>4, <3>1, <3>3 DEF Confirm
    <3>4. QED BY <2>4, <3>2, <3>3 DEF Confirm
  <2>5. CASE WakeUp
    <3>1. pc'["loop"] = pc["loop"]
      BY <2>0, <2>5, GotoPlaced DEF WakeUp
    <3>2. QED BY <2>5, <3>1 DEF WakeUp
  <2>6. CASE LoopTop
    <3>1. pc'["loop"] = "flush"
      BY <2>0, <2>6, GotoPlaced DEF LoopTop
    <3>2. QED BY <2>6, <3>1 DEF LoopTop
  <2>7. CASE Send \/ Skip \/ Woken \/ TimedOut
    <3>1. pc["loop"] \in {"flush", "wait"} /\ pc'["stream"] = pc["stream"]
      BY <2>0, <2>7, GotoPlaced DEF Send, Skip, Woken, TimedOut, PollSteps
    <3>2. QED BY <2>7, <3>1 DEF Send, Skip, Woken, TimedOut
  <2>8. CASE Clear
    <3>1. pc["loop"] = "clear" /\ pc'["loop"] = "top"
      BY <2>0, <2>8, GotoPlaced DEF Clear
    <3>2. QED BY <2>8, <3>1 DEF Clear
  <2>9. ASSUME NEW u \in Users, FlushNow(u) \/ Register(u) \/ Unregister(u) PROVE WakeInv'
    <3>1. pc'["loop"] = pc["loop"] /\ pc'["stream"] = pc["stream"]
      BY <2>0, <2>9, GotoPlaced DEF FlushNow, Register, Unregister, PollSteps
    <3>2. QED BY <2>9, <3>1 DEF FlushNow, Register, Unregister
  <2>10. ASSUME NEW p \in Pollers, Serve(p) \/ Poll(p) PROVE WakeInv'
    <3>1. UNCHANGED wakeVars
      BY <2>10 DEF Serve, Poll, PollFailed, WriteLifecycle, WriteStop
    <3>2. UNCHANGED pc \/ (pc[p] \in {"flight", "stop"} /\ \A t \in Threads \ {p} : pc'[t] = pc[t])
      BY <2>0, <2>10, GotoPlaced DEF Serve, Poll, PollFailed, WriteLifecycle, WriteStop, PollSteps
    <3>3. QED BY <3>1, <3>2
  <2>11. ASSUME NEW t \in Threads, Note(t) PROVE WakeInv'
    <3>1. UNCHANGED wakeVars
      BY <2>11 DEF Note, TakeLock, Notify
    <3>2. pc[t] \in {"notify", "notify_set"} /\ \A u \in Threads \ {t} : pc'[u] = pc[u]
      BY <2>0, <2>11, GotoPlaced DEF Note, TakeLock, Notify, AfterNotify, Threads
    <3>3. QED BY <3>1, <3>2
  <2>12. CASE UNCHANGED vars
    BY <2>12 DEF vars
  <2>13. QED
    BY <2>1, <2>2, <2>3, <2>4, <2>5, <2>6, <2>7, <2>8, <2>9, <2>10, <2>11, <2>12
       DEF Next, Stream, Loop
<1>3. QED BY <1>1, <1>2, TypeCorrect, PTL DEF Spec

\* A requested refresh is polled for, wherever the loop is when it comes in.
THEOREM RefreshesSurvive == Spec => []RefreshNotLost
<1>1. WakeInv => RefreshNotLost
  BY DEF WakeInv
<1>2. QED BY <1>1, WakeCorrect, PTL

\* The loop never waits on a requested refresh unless its wake-up is under way.
THEOREM RefreshesWake == Spec => []NoSleepOnRequest
<1>1. WakeInv => NoSleepOnRequest
  BY DEF WakeInv, NoSleepOnRequest
<1>2. QED BY <1>1, WakeCorrect, PTL

-----------------------------------------------------------------------------
(* The notification and the pushes *)

\* Thread t is going to announce the suspension.
Announcing(t) == pc[t] \in {"stop", "notify"} \/ (pc[t] = "notify_set" /\ saw)

\* _state_lock is held by one thread at a time.
OneLock == \A t, u \in Threads :
             pc[t] \in {"hint", "notify_set"} /\ pc[u] \in {"hint", "notify_set"} => t = u

\* A thread that read "not suspended" under the lock and is overtaken by a
\* heartbeat is followed by the thread that wrote it.
Announced ==
  /\ \A t \in Threads : pc[t] = "notify_set" /\ ~saw /\ Suspended =>
                         \E u \in Threads : pc[u] \in {"stop", "notify"}
  /\ Suspended /\ registered => notified \/ \E t \in Threads : Announcing(t)

\* What keeps a second announcement from following the first one.
Once ==
  /\ ~Suspended => relaxed
  /\ ~relaxed => notified
  /\ \A t \in Threads : pc[t] = "notify_set" /\ ~saw => relaxed

\* A frame that tightens carries a suspension, more severe than the local status
\* unless a heartbeat has written that since.
PushInv ==
  pc["stream"] = "hint" /\ tightens =>
    /\ frame.lifecycle \in {"suspended", "revoked"} \cap Statuses
    /\ overtaken \/ Severity[frame.lifecycle] > Severity[lifecycle]

NoteInv == OneLock /\ Announced /\ Once /\ PushInv

\* The notification invariant holds of every reachable state.
LEMMA NoteCorrect == Spec => []NoteInv
<1>1. Init => NoteInv
  <2>1. Init => \A t \in Threads : pc[t] \in {"first", "idle"}
    BY DEF Init
  <2>2. QED
    BY <2>1, ThreadNames
       DEF Init, NoteInv, OneLock, Announced, Once, PushInv, Suspended, Suspends
<1>2. TypeOK /\ NoteInv /\ [Next]_vars => NoteInv'
  <2> SUFFICES ASSUME TypeOK, NoteInv, [Next]_vars PROVE NoteInv'
    OBVIOUS
  <2>0. Placed
    BY DEF TypeOK
  <2> USE ThreadNames, PlacesOf
      DEF NoteInv, OneLock, Announced, Announcing, Once, PushInv,
          localVars, noteVars, wakeVars, streamVars
  <2>1. CASE Change
    BY <2>1 DEF Change, Suspended, Suspends
  <2>2. CASE Receive
    <3>1. pc["stream"] = "idle" /\ pc'["stream"] = "hint"
          /\ \A u \in Threads \ {"stream"} : pc'[u] = pc[u]
      BY <2>0, <2>2, GotoPlaced DEF Receive
    <3>2. \A u \in Threads : pc[u] \notin {"hint", "notify_set"}
      BY <2>2 DEF Receive, Locked
    <3>3. tightens' => /\ frame'.lifecycle \in {"suspended", "revoked"} \cap Statuses
                       /\ Severity[frame'.lifecycle] > Severity[lifecycle]
      <4>1. SUFFICES ASSUME tightens' PROVE /\ frame'.lifecycle \in {"suspended", "revoked"} \cap Statuses
                                            /\ Severity[frame'.lifecycle] > Severity[lifecycle]
        OBVIOUS
      <4>2. /\ frame' \in Frames /\ frame'.name # "emergency_stop"
            /\ Severity[frame'.lifecycle] > Severity[lifecycle]
        BY <2>2, <4>1 DEF Receive
      <4>3. frame'.lifecycle \in Pushed \cup Stoppable
        BY <4>2 DEF Frames
      <4>4. lifecycle \in Statuses /\ frame'.lifecycle \in Statuses
        BY <4>3, RapidSuspendAssumption DEF TypeOK, Statuses
      <4>5. \A l \in Statuses : Severity[l] \in {0, 1, 2} /\ (Severity[l] > 0 => l \in {"suspended", "revoked"})
        BY DEF Severity
      <4>6. QED BY <4>2, <4>4, <4>5
    <3>4. UNCHANGED <<registered, notified, saw, relaxed, lifecycle>> /\ Suspended' = Suspended
      BY <2>2 DEF Receive, Suspended, Suspends
    <3>5. QED BY <3>1, <3>2, <3>3, <3>4
  <2>3. CASE Tighten
    <3>1. pc["stream"] = "hint" /\ \A u \in Threads \ {"stream"} : pc'[u] = pc[u]
      BY <2>0, <2>3, GotoPlaced DEF Tighten
    <3>2. pc'["stream"] = IF tightens' THEN "notify" ELSE "confirm"
      BY <2>0, <2>3, GotoPlaced DEF Tighten
    <3>3. Suspended => Suspended'
      BY <2>3, <3>1 DEF Tighten, Suspended, Suspends
    <3>4. Suspended' => Suspended \/ tightens'
      BY <2>3 DEF Tighten, Suspended, Suspends
    <3>5. UNCHANGED <<registered, notified, saw, relaxed>>
      BY <2>3 DEF Tighten
    <3>6. \A t \in Threads : pc[t] # "notify_set" /\ pc'[t] # "notify_set"
      BY <3>1, <3>2
    <3>7. QED BY <3>1, <3>2, <3>3, <3>4, <3>5, <3>6
  <2>4. CASE Confirm \/ WakeUp
    <3>1. pc["stream"] \in {"confirm", "wakeup"} /\ pc'["stream"] \in {"idle", "wakeup"}
          /\ \A u \in Threads \ {"stream"} : pc'[u] = pc[u]
      BY <2>0, <2>4, GotoPlaced DEF Confirm, WakeUp
    <3>2. UNCHANGED <<registered, notified, saw, relaxed>> /\ Suspended' = Suspended
      BY <2>4 DEF Confirm, WakeUp, Suspended, Suspends
    <3>3. QED BY <3>1, <3>2
  <2>5. CASE Loop
    <3>1. pc["loop"] \in {"first", "top", "flush", "wait", "clear"}
          /\ pc'["loop"] \in {"flush", "flight", "wait", "clear", "top"}
          /\ \A u \in Threads \ {"loop"} : pc'[u] = pc[u]
      BY <2>0, <2>5, GotoPlaced DEF Loop, LoopTop, Send, Skip, Woken, TimedOut, Clear, PollSteps
    <3>2. UNCHANGED <<registered, notified, saw, relaxed, streamVars, lifecycle>>
          /\ Suspended' = Suspended
      BY <2>5 DEF Loop, LoopTop, Send, Skip, Woken, TimedOut, Clear, Suspended, Suspends
    <3>3. QED BY <3>1, <3>2
  <2>6. ASSUME NEW u \in Users, FlushNow(u) \/ Register(u) PROVE NoteInv'
    <3>1. pc[u] = "idle" /\ \A t \in Threads \ {u} : pc'[t] = pc[t]
      BY <2>0, <2>6, GotoPlaced DEF FlushNow, Register, PollSteps
    <3>2. \/ pc'[u] = "flight" /\ UNCHANGED registered
          \/ pc'[u] = "notify"
      BY <2>0, <2>6, GotoPlaced DEF FlushNow, Register, PollSteps
    <3>3. UNCHANGED <<notified, saw, relaxed, streamVars, lifecycle>>
          /\ Suspended' = Suspended
      BY <2>6 DEF FlushNow, Register, Suspended, Suspends
    <3>4. QED BY <3>1, <3>2, <3>3
  <2>7. ASSUME NEW u \in Users, Unregister(u) PROVE NoteInv'
    BY <2>7 DEF Unregister, Suspended, Suspends
  <2>8. ASSUME NEW p \in Pollers, Serve(p) PROVE NoteInv'
    BY <2>8 DEF Serve, Suspended, Suspends
  <2>9. ASSUME NEW p \in Pollers, PollFailed(p) PROVE NoteInv'
    <3>1. pc[p] = "flight" /\ pc'[p] \in {"wait", "top", "idle", "flight"}
          /\ \A t \in Threads \ {p} : pc'[t] = pc[t]
      BY <2>0, <2>9, GotoPlaced DEF PollFailed, AfterBatch
    <3>2. UNCHANGED <<registered, notified, saw, relaxed, streamVars, lifecycle>>
          /\ Suspended' = Suspended
      BY <2>9 DEF PollFailed, Suspended, Suspends
    <3>3. QED BY <3>1, <3>2
  <2>10. ASSUME NEW p \in Pollers, WriteLifecycle(p) \/ WriteStop(p) PROVE NoteInv'
    <3>1. pc[p] \in {"flight", "stop"} /\ pc'[p] \in {"stop", "notify"}
          /\ \A t \in Threads \ {p} : pc'[t] = pc[t]
      BY <2>0, <2>10, GotoPlaced DEF WriteLifecycle, WriteStop, PollSteps
    <3>2. relaxed' = (relaxed \/ ~Suspended')
      BY <2>10 DEF WriteLifecycle, WriteStop, Suspended
    <3>3. UNCHANGED <<registered, notified, saw, frame, tightens>>
      BY <2>10 DEF WriteLifecycle, WriteStop
    <3>6. overtaken' \/ UNCHANGED lifecycle \/ ~(pc["stream"] = "hint" /\ tightens)
      BY <2>10 DEF WriteLifecycle, WriteStop
    <3>7. overtaken => overtaken'
      BY <2>10 DEF WriteLifecycle, WriteStop
    <3>8. PushInv'
      BY <3>1, <3>3, <3>6, <3>7
    <3>4. relaxed \in BOOLEAN
      BY DEF TypeOK
    <3>5. QED BY <3>1, <3>2, <3>3, <3>4, <3>8
  <2>11. ASSUME NEW t \in Threads, TakeLock(t) PROVE NoteInv'
    <3>1. pc[t] = "notify" /\ pc'[t] = "notify_set"
          /\ \A u \in Threads \ {t} : pc'[u] = pc[u]
      BY <2>0, <2>11, GotoPlaced DEF TakeLock
    <3>2. \A u \in Threads : pc[u] \notin {"hint", "notify_set"}
      BY <2>11 DEF TakeLock, Locked
    <3>3. saw' = Suspended /\ UNCHANGED <<registered, notified, relaxed, streamVars, lifecycle>>
          /\ Suspended' = Suspended
      BY <2>11 DEF TakeLock, Suspended, Suspends
    <3>4. QED BY <3>1, <3>2, <3>3
  <2>12. ASSUME NEW t \in Threads, Notify(t) PROVE NoteInv'
    <3>1. pc[t] = "notify_set" /\ pc'[t] \in {"confirm", "wait", "top", "idle", "flight"}
          /\ \A u \in Threads \ {t} : pc'[u] = pc[u]
      BY <2>0, <2>12, GotoPlaced DEF Notify, AfterNotify, AfterBatch, Threads
    <3>2. notified' = (saw /\ (notified \/ registered))
          /\ relaxed' = IF Fires(t) THEN ~Suspended ELSE relaxed
      BY <2>12 DEF Notify
    <3>3. UNCHANGED <<registered, streamVars, lifecycle>> /\ Suspended' = Suspended
      BY <2>12 DEF Notify, Suspended, Suspends
    <3>4. \A u \in Threads \ {t} : pc[u] \notin {"hint", "notify_set"}
      BY <3>1
    <3>5. OneLock' /\ PushInv'
      BY <3>1, <3>3, <3>4
    <3>6. Once'
      BY <3>1, <3>2, <3>3, <3>4 DEF Fires, TypeOK
    <3>7. Announced'
      BY <3>1, <3>2, <3>3, <3>4 DEF TypeOK
    <3>8. QED BY <3>5, <3>6, <3>7
  <2>13. CASE UNCHANGED vars
    BY <2>13 DEF vars, Suspended, Suspends
  <2>14. QED
    BY <2>1, <2>2, <2>3, <2>4, <2>5, <2>6, <2>7, <2>8, <2>9, <2>10, <2>11, <2>12, <2>13
       DEF Next, Stream, Poll, Note
<1>3. QED BY <1>1, <1>2, TypeCorrect, PTL DEF Spec

\* A suspension known locally has been announced to the registered callback,
\* or a thread is on its way to do so.
THEOREM Announcement == Spec => []SuspensionAnnounced
<1>1. NoteInv => SuspensionAnnounced
  BY DEF NoteInv, Announced, Announcing, SuspensionAnnounced
<1>2. QED BY <1>1, NoteCorrect, PTL

\* on_suspend runs once per local suspension.
THEOREM OneAnnouncement == Spec => AnnouncedOnce
<1>1. TypeOK /\ NoteInv /\ [Next]_vars =>
        [\A t \in Threads : Notify(t) /\ Fires(t) => relaxed]_vars
  BY DEF NoteInv, Once, Fires, TypeOK
<1>2. QED BY <1>1, TypeCorrect, NoteCorrect, PTL DEF Spec, AnnouncedOnce

\* A pushed frame only moves the state upward, unless a heartbeat landed in
\* mid-hint; and what is suspended remains so in any case.
THEOREM PushesTighten == Spec => HintMovesUpward
<1>1. TypeOK /\ NoteInv /\ Tighten =>
        /\ Suspended => Suspended'
        /\ stop => stop'
        /\ Severity[lifecycle'] >= Severity[lifecycle] \/ overtaken
  <2> SUFFICES ASSUME TypeOK, NoteInv, Tighten
               PROVE  /\ Suspended => Suspended'
                      /\ stop => stop'
                      /\ Severity[lifecycle'] >= Severity[lifecycle] \/ overtaken
    OBVIOUS
  <2>1. /\ lifecycle' = IF tightens THEN frame.lifecycle ELSE lifecycle
        /\ tightens => /\ frame.lifecycle \in {"suspended", "revoked"} \cap Statuses
                       /\ overtaken \/ Severity[frame.lifecycle] > Severity[lifecycle]
        /\ stop => stop'
    BY DEF NoteInv, PushInv, Tighten
  <2>2. Suspended => Suspended'
    BY <2>1 DEF Suspended, Suspends
  <2>3. \A l \in Statuses : Severity[l] \in {0, 1, 2}
    BY DEF Severity
  <2>4. lifecycle \in Statuses
    BY DEF TypeOK
  <2>5. tightens => Severity[frame.lifecycle] \in {0, 1, 2}
    BY <2>1, <2>3
  <2>6. Severity[lifecycle] \in {0, 1, 2}
    BY <2>3, <2>4
  <2>7. Severity[lifecycle'] >= Severity[lifecycle] \/ overtaken
    <3>1. CASE tightens
      BY <2>1, <2>5, <2>6, <3>1
    <3>2. CASE ~tightens
      BY <2>1, <2>6, <3>2
    <3>3. QED BY <3>1, <3>2
  <2>8. QED BY <2>1, <2>2, <2>7
<1>2. QED BY <1>1, TypeCorrect, NoteCorrect, PTL DEF Spec, HintMovesUpward
=============================================================================
