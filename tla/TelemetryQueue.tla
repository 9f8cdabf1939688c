--------------------------- MODULE TelemetryQueue ---------------------------
(***************************************************************************)
(* The events half of TelemetryExporter and AsyncTelemetryExporter         *)
(* (telemetry.py): threads submit() events into a bounded queue; the       *)
(* exporter's loop and a thread that calls flush_now() or stop() drain it  *)
(* in batches, put back what could not be sent and drop what Gateway       *)
(* refuses for good.                                                       *)
(*                                                                         *)
(* Every queue operation is one step (queue.Queue locks each by itself),   *)
(* so an eviction, a drain and a requeue interleave event by event.  Tasks *)
(* switch at an await only, which is one of these interleavings; what they *)
(* do differently is the end of a join that times out.                     *)
(***************************************************************************)
EXTENDS Integers, FiniteSets, SequencesExt

CONSTANTS Submitters,  \* threads that submit events
          MaxEvents,   \* bound: events submitted in a behaviour
          QueueMax,    \* telemetry_queue_max
          BatchSize,   \* telemetry_batch_size
          FailOpen     \* fail_open_telemetry

ASSUME TelemetryQueueAssumption ==
  /\ MaxEvents \in Nat /\ QueueMax \in Nat \ {0} /\ BatchSize \in Nat \ {0}
  /\ FailOpen \in BOOLEAN
  /\ Submitters \cap {"loop", "closer"} = {}

VARIABLES
  queue,         \* _queue
  next,          \* number of events taken by submit(); events are numbered
  holding,       \* the event each submitter has in hand, 0 for none
  batch,         \* the events each flusher has drained
  pc,            \* where each thread is
  lastError,     \* last_error is set
  stopping,      \* _stop_event
  kind,          \* whose loop it is: a thread's or an asyncio task's
  settled,       \* history: the events acknowledged by Gateway or dropped
  excess,        \* dropped_count, less the number of events really dropped
  abandoned,     \* history: the events whose request was cancelled
  clean          \* history: since stop() was called, it had every chance

gone == <<settled, excess, abandoned>>
stop == <<stopping, kind>>
vars == <<queue, next, holding, batch, pc, lastError, stop, gone, clean>>

Flushers == {"loop", "closer"}
Events == 1..MaxEvents
Submitted == 1..next

TypeOK ==
  /\ queue \in Seq(Events) /\ Len(queue) <= QueueMax
  /\ next \in 0..MaxEvents
  /\ holding \in [Submitters -> 0..MaxEvents]
  /\ \A s \in Submitters : pc[s] # "idle" => holding[s] # 0
  /\ batch \in [Flushers -> Seq(Events)]
  /\ \A f \in Flushers : Len(batch[f]) <= BatchSize
  /\ DOMAIN pc = Submitters \cup Flushers
  /\ \A s \in Submitters : pc[s] \in {"idle", "evict", "retry"}
  /\ pc["loop"] \in {"drain", "flight", "requeue", "wait", "exited"}
  /\ pc["closer"] \in {"idle", "join", "drain", "flight", "requeue", "return", "stopped"}
  /\ lastError \in BOOLEAN /\ stopping \in BOOLEAN /\ clean \in BOOLEAN
  /\ kind \in {"thread", "task"}
  /\ settled \subseteq Events /\ abandoned \subseteq Events /\ excess \in Int

Init ==
  /\ queue = <<>> /\ next = 0
  /\ holding = [s \in Submitters |-> 0]
  /\ batch = [f \in Flushers |-> <<>>]
  /\ pc = [t \in Submitters \cup Flushers |-> IF t = "loop" THEN "drain" ELSE "idle"]
  /\ lastError = FALSE /\ stopping = FALSE /\ clean = FALSE
  /\ kind \in {"thread", "task"}
  /\ settled = {} /\ excess = 0 /\ abandoned = {}

Goto(t, l) == pc' = [pc EXCEPT ![t] = l]
Full == Len(queue) >= QueueMax

\* The events es leave, and dropped_count grows by n.
Drop(es, n) == /\ settled' = settled \cup es
               /\ excess' = excess + n - Cardinality(es)
               /\ UNCHANGED abandoned

-----------------------------------------------------------------------------
(* submit() *)

\* _raise_pending(): the caller gets the stored error instead of its event in.
SubmitRaises(s) ==
  /\ pc[s] = "idle" /\ ~FailOpen /\ lastError
  /\ lastError' = FALSE
  /\ UNCHANGED <<queue, next, holding, batch, pc, stop, gone, clean>>

Submit(s) ==
  /\ pc[s] = "idle" /\ (FailOpen \/ ~lastError)
  /\ next < MaxEvents /\ next' = next + 1
  /\ clean' = FALSE
  /\ \/ /\ ~Full
        /\ queue' = Append(queue, next')
        /\ UNCHANGED <<holding, pc>>
     \/ /\ Full
        /\ holding' = [holding EXCEPT ![s] = next']
        /\ Goto(s, "evict")
        /\ UNCHANGED queue
  /\ UNCHANGED <<batch, lastError, stop, gone>>

\* The oldest event makes room; the count grows even if there is none any more.
Evict(s) ==
  /\ pc[s] = "evict"
  /\ \/ /\ queue # <<>>
        /\ queue' = Tail(queue)
        /\ Drop({Head(queue)}, 1)
     \/ /\ queue = <<>>
        /\ UNCHANGED queue
        /\ Drop({}, 1)
  /\ Goto(s, "retry")
  /\ UNCHANGED <<next, holding, batch, lastError, stop, clean>>

\* Slip: the second queue.Full is passed over in silence.
RetryUncounted(s) ==
  /\ pc[s] = "retry"
  /\ queue' = IF Full THEN queue ELSE Append(queue, holding[s])
  /\ IF Full THEN Drop({holding[s]}, 0) ELSE UNCHANGED gone
  /\ holding' = [holding EXCEPT ![s] = 0]
  /\ Goto(s, "idle")
  /\ UNCHANGED <<next, batch, lastError, stop, clean>>

\* Others may have taken the room: then the new event is the one dropped.
Retry(s) ==
  /\ pc[s] = "retry"
  /\ \/ /\ ~Full
        /\ queue' = Append(queue, holding[s])
        /\ UNCHANGED gone
     \/ /\ Full
        /\ Drop({holding[s]}, 1)
        /\ UNCHANGED queue
  /\ holding' = [holding EXCEPT ![s] = 0]
  /\ Goto(s, "idle")
  /\ UNCHANGED <<next, batch, lastError, stop, clean>>

-----------------------------------------------------------------------------
(* _flush() *)

\* Slip: one batch is all that flush_now() and stop() send.
OneShot(f, ok) ==
  IF f = "closer" THEN "return"
  ELSE IF stopping THEN "exited"
  ELSE IF ok /\ queue # <<>> THEN "drain" ELSE "wait"

\* After a batch: a backlog is drained back to back, by _run() as well as by
\* _flush_all(); the loop ends when it is stopping.
AfterBatch(f, ok) ==
  IF f = "loop" /\ stopping THEN "exited"
  ELSE IF ok /\ queue # <<>> THEN "drain"
  ELSE IF f = "loop" THEN "wait" ELSE "return"

\* Slip: the size of a batch is checked too late.
DrainOneMore(f) ==
  /\ pc[f] = "drain" /\ queue # <<>> /\ Len(batch[f]) <= BatchSize
  /\ batch' = [batch EXCEPT ![f] = Append(@, Head(queue))]
  /\ queue' = Tail(queue)
  /\ UNCHANGED <<next, holding, pc, lastError, stop, gone, clean>>

DrainOne(f) ==
  /\ pc[f] = "drain" /\ queue # <<>> /\ Len(batch[f]) < BatchSize
  /\ batch' = [batch EXCEPT ![f] = Append(@, Head(queue))]
  /\ queue' = Tail(queue)
  /\ UNCHANGED <<next, holding, pc, lastError, stop, gone, clean>>

Drained(f) == queue = <<>> \/ Len(batch[f]) = BatchSize

Send(f) ==
  /\ pc[f] = "drain" /\ Drained(f)
  /\ Goto(f, "flight")
  /\ UNCHANGED <<queue, next, holding, batch, lastError, stop, gone, clean>>

\* Nothing to send and no heartbeat due.
Skip ==
  /\ pc["loop"] = "drain" /\ Drained("loop") /\ batch["loop"] = <<>>
  /\ Goto("loop", AfterBatch("loop", TRUE))
  /\ UNCHANGED <<queue, next, holding, batch, lastError, stop, gone, clean>>

Acknowledged(f) ==
  /\ pc[f] = "flight"
  /\ settled' = settled \cup ToSet(batch[f])
  /\ batch' = [batch EXCEPT ![f] = <<>>]
  /\ Goto(f, AfterBatch(f, TRUE))
  /\ UNCHANGED <<queue, next, holding, lastError, stop, excess, abandoned, clean>>

\* A permanent rejection: the batch is dropped and the next one goes on.
Refused(f) ==
  /\ pc[f] = "flight"
  /\ Drop(ToSet(batch[f]), Len(batch[f]))
  /\ batch' = [batch EXCEPT ![f] = <<>>]
  /\ lastError' = (lastError \/ ~FailOpen)
  /\ Goto(f, AfterBatch(f, TRUE))
  /\ UNCHANGED <<queue, next, holding, stop, clean>>

\* Slip: a failed batch is forgotten.
FailedForgotten(f) ==
  /\ pc[f] = "flight"
  /\ Goto(f, "requeue")
  /\ batch' = [batch EXCEPT ![f] = <<>>]
  /\ clean' = (clean /\ f # "closer")
  /\ UNCHANGED <<queue, next, holding, lastError, stop, gone>>

\* A transient error, or a response nobody can read; Gateway may have taken
\* the batch all the same.
Failed(f) ==
  /\ pc[f] = "flight"
  /\ Goto(f, "requeue")
  /\ clean' = (clean /\ f # "closer")
  /\ UNCHANGED <<queue, next, holding, batch, lastError, stop, gone>>

Requeue(f) ==
  /\ pc[f] = "requeue" /\ batch[f] # <<>>
  /\ batch' = [batch EXCEPT ![f] = Tail(@)]
  /\ \/ /\ ~Full
        /\ queue' = Append(queue, Head(batch[f]))
        /\ UNCHANGED gone
     \/ /\ Full
        /\ Drop({Head(batch[f])}, 1)
        /\ UNCHANGED queue
  /\ UNCHANGED <<next, holding, pc, lastError, stop, clean>>

\* A GatewayError is stored for the next caller, another exception is not.
Requeued(f) ==
  /\ pc[f] = "requeue" /\ batch[f] = <<>>
  /\ lastError' \in {lastError, lastError \/ ~FailOpen}
  /\ Goto(f, AfterBatch(f, FALSE))
  /\ UNCHANGED <<queue, next, holding, batch, stop, gone, clean>>

-----------------------------------------------------------------------------
(* The loop's wait, flush_now() and stop() *)

\* The interval is over, or a stop woke the loop up.
WaitOver ==
  /\ pc["loop"] = "wait"
  /\ Goto("loop", IF stopping THEN "exited" ELSE "drain")
  /\ UNCHANGED <<queue, next, holding, batch, lastError, stop, gone, clean>>

FlushNow ==
  /\ pc["closer"] = "idle"
  /\ Goto("closer", "drain")
  /\ UNCHANGED <<queue, next, holding, batch, lastError, stop, gone, clean>>

Stop ==
  /\ pc["closer"] = "idle"
  /\ stopping' = TRUE
  /\ clean' = \A s \in Submitters : pc[s] = "idle"
  /\ Goto("closer", "join")
  /\ UNCHANGED <<queue, next, holding, batch, lastError, kind, gone>>

Joined ==
  /\ pc["closer"] = "join" /\ pc["loop"] = "exited"
  /\ Goto("closer", "drain")
  /\ UNCHANGED <<queue, next, holding, batch, lastError, stop, gone, clean>>

\* The join is given five seconds, less than a request may take.  A thread is
\* left to itself ...
JoinTimesOut ==
  /\ kind = "thread" /\ pc["closer"] = "join" /\ pc["loop"] # "exited"
  /\ clean' = FALSE
  /\ Goto("closer", "drain")
  /\ UNCHANGED <<queue, next, holding, batch, lastError, stop, gone>>

\* The loop is at an await: of its jitter, of the request or of its wake-up.
Awaits == pc["loop"] \in {"flight", "wait"} \/ (pc["loop"] = "drain" /\ batch["loop"] = <<>>)

\* ... and a task is cancelled where it awaits.  A CancelledError passes the
\* handlers of _flush(): what was in flight is neither put back nor counted.
JoinCancels ==
  /\ kind = "task" /\ pc["closer"] = "join" /\ Awaits
  /\ abandoned' = abandoned \cup ToSet(batch["loop"])
  /\ batch' = [batch EXCEPT !["loop"] = <<>>]
  /\ clean' = FALSE
  /\ pc' = [pc EXCEPT !["loop"] = "exited", !["closer"] = "drain"]
  /\ UNCHANGED <<queue, next, holding, lastError, stop, settled, excess>>

\* flush_now() and stop() raise the stored error last.
Return ==
  /\ pc["closer"] = "return"
  /\ lastError' = (lastError /\ FailOpen)
  /\ Goto("closer", IF stopping THEN "stopped" ELSE "idle")
  /\ UNCHANGED <<queue, next, holding, batch, stop, gone, clean>>

-----------------------------------------------------------------------------
Outcome(f) == Acknowledged(f) \/ Refused(f) \/ Failed(f)
Flush(f) == DrainOne(f) \/ Send(f) \/ Outcome(f) \/ Requeue(f) \/ Requeued(f)

Next ==
  \/ \E s \in Submitters : SubmitRaises(s) \/ Submit(s) \/ Evict(s) \/ Retry(s)
  \/ \E f \in Flushers : Flush(f)
  \/ Skip \/ WaitOver
  \/ FlushNow \/ Stop \/ Joined \/ JoinTimesOut \/ JoinCancels \/ Return

Spec == Init /\ [][Next]_vars

\* Threads run on and requests end; Gateway is not down for ever, and takes a
\* batch of events in the end, whoever sends it.
FairSpec ==
  /\ Spec
  /\ \A s \in Submitters : WF_vars(Evict(s) \/ Retry(s))
  /\ \A f \in Flushers : WF_vars(Flush(f)) /\ SF_vars(batch[f] # <<>> /\ Acknowledged(f))
  /\ WF_vars(Skip \/ WaitOver) /\ WF_vars(Joined \/ JoinTimesOut \/ JoinCancels)
  /\ WF_vars(Return)

-----------------------------------------------------------------------------
(* What makes the component correct *)

InHand == {holding[s] : s \in Submitters} \ {0}
InBatches == ToSet(batch["loop"]) \cup ToSet(batch["closer"])

\* No event is lost without being counted, wherever an eviction, a drain and
\* a requeue interleave: each is queued, in hand, in a batch, acknowledged, or
\* dropped and counted in dropped_count.  The one batch that is neither is that
\* of an asyncio loop which stop() has cancelled after its join timed out.
NothingLostSilently ==
  /\ Submitted = ToSet(queue) \cup InHand \cup InBatches \cup settled \cup abandoned
  /\ excess >= 0
  /\ Cardinality(abandoned) <= BatchSize
  /\ abandoned # {} => kind = "task" /\ stopping /\ pc["loop"] = "exited"

\* An event is in one place only: none is sent again once it is settled or
\* abandoned, and none is in two batches.
InOnePlace ==
  LET total == Len(queue) + Len(batch["loop"]) + Len(batch["closer"])
               + Cardinality({s \in Submitters : holding[s] # 0})
  IN total + Cardinality(settled) + Cardinality(abandoned) = next

\* stop() sends everything, the last batch of the loop included, unless its
\* own sends fail, the join times out or events are still being submitted.
StopLosesNothing == pc["closer"] = "stopped" /\ clean => settled = Submitted

\* While the exporter runs, every event is in the end acknowledged or dropped:
\* requeueing at the tail and evicting at the head starve none.  (A behaviour
\* submits MaxEvents events at most, so this is said of all of them at once.)
EventsSettle == <>[](settled = Submitted \/ stopping)
=============================================================================
