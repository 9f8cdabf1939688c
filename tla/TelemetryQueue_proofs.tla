----------------------- MODULE TelemetryQueue_proofs -----------------------
(***************************************************************************)
(* Proofs about TelemetryQueue, for any submitters, numbers of events,     *)
(* sizes of the queue and of batches, failing open or not: its types, that *)
(* no event is lost without being counted, that an event is in one place   *)
(* only, and that stop() sends everything where it had every chance.       *)
(***************************************************************************)
EXTENDS TelemetryQueue, FiniteSetTheorems, SequenceTheorems, TLAPS

(* Sequences without repetition *)

Distinct(s) == \A i, j \in 1..Len(s) : s[i] = s[j] => i = j

LEMMA EmptyHolds == ToSet(<<>>) = {} /\ Distinct(<<>>)
BY DEF ToSet, Distinct

LEMMA AppendHolds ==
  ASSUME NEW S, NEW s \in Seq(S), NEW e \in S
  PROVE  /\ Append(s, e) \in Seq(S) /\ Len(Append(s, e)) = Len(s) + 1
         /\ ToSet(Append(s, e)) = ToSet(s) \cup {e}
         /\ Distinct(s) /\ e \notin ToSet(s) => Distinct(Append(s, e))
<1>1. /\ Append(s, e) \in Seq(S) /\ Len(Append(s, e)) = Len(s) + 1 /\ Len(s) \in Nat
      /\ \A i \in 1..Len(s) : Append(s, e)[i] = s[i]
      /\ Append(s, e)[Len(s) + 1] = e
      /\ DOMAIN s = 1..Len(s) /\ DOMAIN Append(s, e) = 1..(Len(s) + 1)
  BY AppendProperties, LenProperties
<1> DEFINE t == Append(s, e)
<1>2. 1..(Len(s) + 1) = 1..Len(s) \cup {Len(s) + 1}
  BY <1>1
<1> HIDE DEF t
<1>3. ToSet(t) = ToSet(s) \cup {e}
  BY <1>1, <1>2 DEF ToSet, t
<1>4. Distinct(s) /\ e \notin ToSet(s) => Distinct(t)
  BY <1>1, <1>2 DEF ToSet, Distinct, t
<1>5. QED BY <1>1, <1>3, <1>4 DEF t

LEMMA TailHolds ==
  ASSUME NEW S, NEW s \in Seq(S), s # <<>>
  PROVE  /\ Head(s) \in S /\ Tail(s) \in Seq(S) /\ Len(Tail(s)) = Len(s) - 1
         /\ Len(s) \in Nat \ {0}
         /\ ToSet(s) = {Head(s)} \cup ToSet(Tail(s))
         /\ Distinct(s) => Distinct(Tail(s)) /\ Head(s) \notin ToSet(Tail(s))
<1> DEFINE t == Tail(s)
<1>1. /\ Head(s) \in S /\ t \in Seq(S) /\ Len(t) = Len(s) - 1
      /\ \A i \in 1..Len(t) : t[i] = s[i + 1]
      /\ Len(s) \in Nat \ {0} /\ Head(s) = s[1]
      /\ DOMAIN s = 1..Len(s) /\ DOMAIN t = 1..(Len(s) - 1)
  BY HeadTailProperties, LenProperties, EmptySeq
<1> HIDE DEF t
<1>2. ToSet(s) = {Head(s)} \cup ToSet(t)
  <2>1. ASSUME NEW e \in ToSet(s) PROVE e \in {Head(s)} \cup ToSet(t)
    <3>1. PICK i \in 1..Len(s) : e = s[i]
      BY <1>1 DEF ToSet
    <3>2. CASE i = 1
      BY <1>1, <3>1, <3>2
    <3>3. CASE i # 1
      <4>1. i - 1 \in 1..Len(t) /\ t[i - 1] = s[i]
        BY <1>1, <3>3
      <4>2. QED BY <1>1, <3>1, <4>1 DEF ToSet
    <3>4. QED BY <3>2, <3>3
  <2>2. ToSet(t) \subseteq ToSet(s) /\ Head(s) \in ToSet(s)
    BY <1>1 DEF ToSet
  <2>3. QED BY <2>1, <2>2
<1>3. Distinct(s) => Distinct(t) /\ Head(s) \notin ToSet(t)
  BY <1>1 DEF ToSet, Distinct
<1>4. QED BY <1>1, <1>2, <1>3 DEF t

LEMMA DistinctCounted ==
  ASSUME NEW S, NEW s \in Seq(S)
  PROVE  /\ IsFiniteSet(ToSet(s)) /\ Cardinality(ToSet(s)) \in Nat
         /\ Distinct(s) => Cardinality(ToSet(s)) = Len(s)
<1>1. /\ s \in [1..Len(s) -> ToSet(s)] /\ Len(s) \in Nat
      /\ \A e \in ToSet(s) : \E i \in 1..Len(s) : s[i] = e
  BY LenProperties DEF ToSet
<1>2. s \in Surjection(1..Len(s), ToSet(s))
  BY <1>1 DEF Surjection
<1>3. IsFiniteSet(1..Len(s)) /\ Cardinality(1..Len(s)) = Len(s)
  <2>1. IsFiniteSet(1..Len(s)) /\ Cardinality(1..Len(s)) = IF 1 > Len(s) THEN 0 ELSE Len(s) - 1 + 1
    <3>1. 1 \in Int /\ Len(s) \in Int
      BY <1>1
    <3>2. QED BY <3>1, FS_Interval
  <2>2. QED BY <1>1, <2>1
<1>4. /\ IsFiniteSet(ToSet(s))
      /\ Cardinality(ToSet(s)) = Cardinality(1..Len(s)) <=> s \in Injection(1..Len(s), ToSet(s))
  BY <1>2, <1>3, FS_Surjection
<1>5. Distinct(s) => s \in Injection(1..Len(s), ToSet(s))
  BY <1>1 DEF Distinct, Injection, IsInjective
<1>6. QED BY <1>3, <1>4, <1>5, FS_CardinalityType
-----------------------------------------------------------------------------
(* Types *)

\* What Drop makes of the history and of the count.
LEMMA DropCounts ==
  ASSUME TypeOK, NEW es \in SUBSET Events, IsFiniteSet(es), NEW n \in Nat, Drop(es, n)
  PROVE  /\ settled' \subseteq Events /\ abandoned' \subseteq Events /\ excess' \in Int
         /\ excess' = excess + n - Cardinality(es)
BY FS_CardinalityType DEF TypeOK, Drop

\* The types by what an action may disturb.
QueueTypes == queue \in Seq(Events) /\ Len(queue) <= QueueMax
BatchTypes == /\ batch \in [Flushers -> Seq(Events)]
              /\ \A f \in Flushers : Len(batch[f]) <= BatchSize
HandTypes == /\ next \in 0..MaxEvents /\ holding \in [Submitters -> 0..MaxEvents]
             /\ \A s \in Submitters : pc[s] # "idle" => holding[s] # 0
             /\ \A s \in Submitters : pc[s] \in {"idle", "evict", "retry"}

\* One case for each action, and under it the part of the types it disturbs.
LEMMA TypesKept == TypeOK /\ [Next]_vars => TypeOK'
<1> SUFFICES ASSUME TypeOK, [Next]_vars PROVE TypeOK'
  OBVIOUS
<1> USE TelemetryQueueAssumption DEF gone, stop, Goto, Full, Events, Flushers
<1>1. /\ queue \in Seq(Events) /\ Len(queue) \in Nat
      /\ \A f \in Flushers : batch[f] \in Seq(Events) /\ Len(batch[f]) \in Nat
  BY LenProperties DEF TypeOK
<1>2. ASSUME NEW s \in Submitters, SubmitRaises(s) PROVE TypeOK'
  BY <1>2 DEF SubmitRaises, TypeOK
<1>3. ASSUME NEW s \in Submitters, Submit(s) PROVE TypeOK'
  <2>1. next' \in Events /\ next' # 0
    BY <1>3 DEF Submit, TypeOK
  <2>2. CASE ~Full /\ queue' = Append(queue, next') /\ UNCHANGED <<holding, pc>>
    <3>1. queue' \in Seq(Events) /\ Len(queue') = Len(queue) + 1
      BY <1>1, <2>1, <2>2, AppendHolds
    <3>2. HandTypes' /\ QueueTypes'
      BY <1>1, <1>3, <2>1, <2>2, <3>1 DEF Submit, TypeOK, HandTypes, QueueTypes
    <3>3. QED BY <1>3, <2>2, <3>2 DEF Submit, TypeOK, HandTypes, QueueTypes
  <2>3. CASE /\ holding' = [holding EXCEPT ![s] = next'] /\ pc' = [pc EXCEPT ![s] = "evict"]
             /\ UNCHANGED queue
    <3>1. holding' \in [Submitters -> 0..MaxEvents] /\ next' \in 0..MaxEvents
      BY <1>3, <2>1, <2>3 DEF Submit, TypeOK
    <3>2. HandTypes'
      BY <1>3, <2>1, <2>3, <3>1 DEF Submit, TypeOK, HandTypes
    <3>3. QED BY <1>3, <2>3, <3>2 DEF Submit, TypeOK, HandTypes
  <2>4. QED BY <1>3, <2>2, <2>3 DEF Submit
<1>4. ASSUME NEW s \in Submitters, Evict(s) PROVE TypeOK'
  <2>1. CASE queue # <<>> /\ queue' = Tail(queue) /\ Drop({Head(queue)}, 1)
    <3>1. /\ Head(queue) \in Events /\ queue' \in Seq(Events)
          /\ Len(queue') = Len(queue) - 1
      BY <1>1, <2>1, TailHolds
    <3>2. settled' \subseteq Events /\ abandoned' \subseteq Events /\ excess' \in Int
      BY <2>1, <3>1, FS_Singleton, DropCounts
    <3>3. QED BY <1>1, <1>4, <3>1, <3>2 DEF Evict, TypeOK
  <2>2. CASE queue = <<>> /\ UNCHANGED queue /\ Drop({}, 1)
    <3>1. settled' \subseteq Events /\ abandoned' \subseteq Events /\ excess' \in Int
      BY <2>2, FS_EmptySet, DropCounts
    <3>2. QED BY <1>4, <2>2, <3>1 DEF Evict, TypeOK
  <2>3. QED BY <1>4, <2>1, <2>2 DEF Evict
<1>5. ASSUME NEW s \in Submitters, Retry(s) PROVE TypeOK'
  <2>1. holding[s] \in Events
    BY <1>5 DEF Retry, TypeOK
  <2>2. CASE ~Full /\ queue' = Append(queue, holding[s]) /\ UNCHANGED gone
    <3>1. queue' \in Seq(Events) /\ Len(queue') = Len(queue) + 1
      BY <1>1, <2>1, <2>2, AppendHolds
    <3>2. QED BY <1>1, <1>5, <2>2, <3>1 DEF Retry, TypeOK
  <2>3. CASE Full /\ Drop({holding[s]}, 1) /\ UNCHANGED queue
    <3>1. settled' \subseteq Events /\ abandoned' \subseteq Events /\ excess' \in Int
      BY <2>1, <2>3, FS_Singleton, DropCounts
    <3>2. QED BY <1>5, <2>3, <3>1 DEF Retry, TypeOK
  <2>4. QED BY <1>5, <2>2, <2>3 DEF Retry
<1>6. ASSUME NEW f \in Flushers, DrainOne(f) PROVE TypeOK'
  <2>1. /\ Head(queue) \in Events /\ Tail(queue) \in Seq(Events)
        /\ Len(Tail(queue)) = Len(queue) - 1
    BY <1>1, <1>6, TailHolds DEF DrainOne
  <2>2. /\ Append(batch[f], Head(queue)) \in Seq(Events)
        /\ Len(Append(batch[f], Head(queue))) = Len(batch[f]) + 1
    BY <1>1, <2>1, AppendHolds
  <2>3. BatchTypes'
    BY <1>1, <1>6, <2>2 DEF DrainOne, TypeOK, BatchTypes
  <2>4. QED BY <1>1, <1>6, <2>1, <2>3 DEF DrainOne, TypeOK, BatchTypes
<1>7. ASSUME NEW f \in Flushers, NEW ok \in BOOLEAN
      PROVE  /\ AfterBatch("loop", ok) \in {"drain", "wait", "exited"}
             /\ AfterBatch("closer", ok) \in {"drain", "return"}
  BY DEF AfterBatch
<1>8. ASSUME NEW f \in Flushers, Send(f) PROVE TypeOK'
  BY <1>8 DEF Send, TypeOK
<1>9. CASE Skip
  BY <1>7, <1>9 DEF Skip, TypeOK
<1>10. ASSUME NEW f \in Flushers, Acknowledged(f) PROVE TypeOK'
  <2>1. ToSet(batch[f]) \subseteq Events
    BY <1>1, LenProperties DEF ToSet
  <2>2. <<>> \in Seq(Events) /\ Len(<<>>) = 0
    BY EmptySeq
  <2>3. BatchTypes'
    BY <1>10, <2>2 DEF Acknowledged, TypeOK, BatchTypes
  <2>4. QED BY <1>7, <1>10, <2>1, <2>3 DEF Acknowledged, TypeOK, BatchTypes
<1>11. ASSUME NEW f \in Flushers, Refused(f) PROVE TypeOK'
  <2>1. ToSet(batch[f]) \subseteq Events /\ IsFiniteSet(ToSet(batch[f]))
    <3>1. ToSet(batch[f]) \subseteq Events
      BY <1>1, LenProperties DEF ToSet
    <3>2. QED BY <1>1, <3>1, DistinctCounted
  <2>2. settled' \subseteq Events /\ abandoned' \subseteq Events /\ excess' \in Int
    BY <1>1, <1>11, <2>1, DropCounts DEF Refused
  <2>3. <<>> \in Seq(Events) /\ Len(<<>>) = 0
    BY EmptySeq
  <2>4. BatchTypes'
    BY <1>11, <2>3 DEF Refused, TypeOK, BatchTypes
  <2>5. QED BY <1>7, <1>11, <2>2, <2>4 DEF Refused, TypeOK, BatchTypes
<1>12. ASSUME NEW f \in Flushers, Failed(f) PROVE TypeOK'
  BY <1>12 DEF Failed, TypeOK
<1>13. ASSUME NEW f \in Flushers, Requeue(f) PROVE TypeOK'
  <2> DEFINE e == Head(batch[f])
  <2>1. /\ e \in Events /\ Tail(batch[f]) \in Seq(Events)
        /\ Len(Tail(batch[f])) = Len(batch[f]) - 1
    BY <1>1, <1>13, TailHolds DEF Requeue
  <2>2. CASE ~Full /\ queue' = Append(queue, e) /\ UNCHANGED gone
    <3>1. queue' \in Seq(Events) /\ Len(queue') = Len(queue) + 1
      BY <1>1, <2>1, <2>2, AppendHolds
    <3>2. QED BY <1>1, <1>13, <2>1, <2>2, <3>1 DEF Requeue, TypeOK
  <2>3. CASE Full /\ Drop({e}, 1) /\ UNCHANGED queue
    <3>1. settled' \subseteq Events /\ abandoned' \subseteq Events /\ excess' \in Int
      BY <2>1, <2>3, FS_Singleton, DropCounts
    <3>2. QED BY <1>1, <1>13, <2>1, <2>3, <3>1, SMTT(30) DEF Requeue, TypeOK
  <2>4. QED BY <1>13, <2>2, <2>3 DEF Requeue
<1>14. ASSUME NEW f \in Flushers, Requeued(f) PROVE TypeOK'
  BY <1>7, <1>14 DEF Requeued, TypeOK
<1>15. CASE WaitOver \/ FlushNow \/ Stop \/ Joined \/ JoinTimesOut \/ Return
  BY <1>15 DEF WaitOver, FlushNow, Stop, Joined, JoinTimesOut, Return, TypeOK
<1>16. CASE JoinCancels
  <2>1. ToSet(batch["loop"]) \subseteq Events
    BY <1>1, LenProperties DEF ToSet
  <2>2. <<>> \in Seq(Events) /\ Len(<<>>) = 0
    BY EmptySeq
  <2>3. BatchTypes'
    BY <1>16, <2>2 DEF JoinCancels, TypeOK, BatchTypes
  <2>4. QED BY <1>16, <2>1, <2>3 DEF JoinCancels, TypeOK, BatchTypes
<1>17. CASE UNCHANGED vars
  BY <1>17 DEF vars, TypeOK
<1>18. QED
  BY <1>2, <1>3, <1>4, <1>5, <1>6, <1>8, <1>9, <1>10, <1>11, <1>12, <1>13, <1>14, <1>15, <1>16,
     <1>17 DEF Next, Flush, Outcome

LEMMA TypesStart == Init => TypeOK
<1> SUFFICES ASSUME Init PROVE TypeOK
  OBVIOUS
<1> USE TelemetryQueueAssumption DEF Init, Flushers, Events
<1>1. <<>> \in Seq(Events) /\ Len(<<>>) = 0
  BY EmptySeq
<1>2. QueueTypes /\ BatchTypes
  BY <1>1 DEF QueueTypes, BatchTypes
<1>3. HandTypes
  BY DEF HandTypes
<1>4. /\ DOMAIN pc = Submitters \cup Flushers /\ pc["loop"] = "drain"
      /\ pc["closer"] = "idle"
  OBVIOUS
<1>5. /\ lastError \in BOOLEAN /\ stopping \in BOOLEAN /\ clean \in BOOLEAN
      /\ kind \in {"thread", "task"}
      /\ settled \subseteq Events /\ abandoned \subseteq Events /\ excess \in Int
  <2>1. lastError \in BOOLEAN /\ stopping \in BOOLEAN /\ clean \in BOOLEAN
    BY Zenon
  <2>2. QED BY <2>1
<1> HIDE DEF Init, Events
<1>6. QED BY <1>2, <1>3, <1>4, <1>5 DEF TypeOK, QueueTypes, BatchTypes, HandTypes

\* Every variable keeps its type: neither the queue nor a batch exceeds its
\* size, whatever threads do in between.
THEOREM TypeCorrect == Spec => []TypeOK
BY TypesStart, TypesKept, PTL DEF Spec
-----------------------------------------------------------------------------
(* Places *)

\* The events that are nowhere any more.
Left == settled \cup abandoned

\* Where an event is, none is twice, and each is in one place.
Apart ==
  /\ Distinct(queue) /\ \A f \in Flushers : Distinct(batch[f])
  /\ \A s \in Submitters : pc[s] = "idle" => holding[s] = 0
  /\ \A s, t \in Submitters : holding[s] = holding[t] /\ holding[s] # 0 => s = t
  /\ ToSet(queue) \cap (InHand \cup InBatches \cup Left) = {}
  /\ InHand \cap (InBatches \cup Left) = {}
  /\ ToSet(batch["loop"]) \cap ToSet(batch["closer"]) = {}
  /\ InBatches \cap Left = {}
  /\ settled \cap abandoned = {}

\* Together, the places hold what was submitted.
Whole ==
  /\ Submitted = ToSet(queue) \cup InHand \cup InBatches \cup Left
  /\ excess >= 0

PlacesInv == TypeOK /\ Apart /\ Whole

\* What a submitter takes into its hand, and what it lets go.
LEMMA HandTakes ==
  ASSUME TypeOK, NEW s \in Submitters, NEW e \in Events, holding[s] = 0,
         holding' = [holding EXCEPT ![s] = e]
  PROVE  InHand' = InHand \cup {e}
BY DEF TypeOK, InHand, Events

LEMMA HandLetsGo ==
  ASSUME TypeOK, Apart, NEW s \in Submitters, holding[s] # 0,
         holding' = [holding EXCEPT ![s] = 0]
  PROVE  InHand' = InHand \ {holding[s]} /\ holding[s] \in InHand
BY DEF TypeOK, Apart, InHand

\* What a thread drops with the count that goes with it leaves the excess.
LEMMA DropKeeps ==
  ASSUME TypeOK, NEW e \in Events, Drop({e}, 1)
  PROVE  settled' = settled \cup {e} /\ excess' = excess /\ abandoned' = abandoned
<1>1. Cardinality({e}) = 1
  BY FS_Singleton
<1>2. QED BY <1>1 DEF TypeOK, Drop

\* A flusher's batch becomes b; the other's stays.
LEMMA OneBatchChanges ==
  ASSUME TypeOK, Apart, NEW f \in Flushers, NEW b, Distinct(b),
         batch' = [batch EXCEPT ![f] = b]
  PROVE  \E other :
           /\ InBatches = ToSet(batch[f]) \cup other /\ ToSet(batch[f]) \cap other = {}
           /\ InBatches' = ToSet(b) \cup other
           /\ ToSet(b) \cap other = {} =>
                ToSet(batch'["loop"]) \cap ToSet(batch'["closer"]) = {}
           /\ \A g \in Flushers : Distinct(batch'[g])
<1>1. /\ batch'[f] = b /\ \A g \in Flushers \ {f} : batch'[g] = batch[g]
  BY DEF TypeOK
<1>2. CASE f = "loop"
  <2> WITNESS ToSet(batch["closer"])
  <2>1. QED BY <1>1, <1>2 DEF Apart, InBatches, Flushers
<1>3. CASE f = "closer"
  <2> WITNESS ToSet(batch["loop"])
  <2>1. QED BY <1>1, <1>3 DEF Apart, InBatches, Flushers
<1>4. QED BY <1>2, <1>3 DEF Flushers

LEMMA PlacesKept == PlacesInv /\ TypeOK' /\ [Next]_vars => Apart' /\ Whole'
<1> SUFFICES ASSUME PlacesInv, TypeOK', [Next]_vars PROVE Apart' /\ Whole'
  OBVIOUS
<1> USE TelemetryQueueAssumption DEF PlacesInv, gone, stop, Left, Goto, Full
<1>1. /\ queue \in Seq(Events) /\ \A f \in Flushers : batch[f] \in Seq(Events)
      /\ next \in Nat
  BY DEF TypeOK
<1>2. ASSUME UNCHANGED <<queue, next, holding, batch, settled, excess, abandoned>>,
             \A s \in Submitters : pc'[s] = pc[s]
      PROVE  Apart' /\ Whole'
  BY <1>2 DEF Apart, Whole, InHand, InBatches, Submitted
<1>3. ASSUME NEW s \in Submitters, Submit(s) PROVE Apart' /\ Whole'
  <2> DEFINE e == next + 1
  <2>1. /\ e \in Events /\ e \notin Submitted /\ Submitted' = Submitted \cup {e}
        /\ next' = e /\ UNCHANGED <<batch, gone>>
    BY <1>1, <1>3 DEF Submit, Events, Submitted
  <2>2. /\ e \notin ToSet(queue) /\ e \notin InHand /\ e \notin InBatches /\ e \notin Left
    BY <2>1 DEF Whole
  <2>3. InBatches' = InBatches
    BY <2>1 DEF InBatches
  <2> HIDE DEF e
  <2>4. CASE queue' = Append(queue, e) /\ UNCHANGED <<holding, pc>>
    <3>1. ToSet(queue') = ToSet(queue) \cup {e} /\ Distinct(queue')
      BY <1>1, <2>1, <2>2, <2>4, AppendHolds DEF Apart
    <3>2. InHand' = InHand
      BY <2>4 DEF InHand
    <3>3. QED BY <2>1, <2>2, <2>3, <2>4, <3>1, <3>2 DEF Apart, Whole
  <2>5. CASE /\ holding' = [holding EXCEPT ![s] = e] /\ pc' = [pc EXCEPT ![s] = "evict"]
             /\ UNCHANGED queue
    <3>1. InHand' = InHand \cup {e}
      BY <1>3, <2>1, <2>5, HandTakes DEF Submit, Apart
    <3>2. /\ \A t \in Submitters : pc'[t] = "idle" => holding'[t] = 0
          /\ \A t, u \in Submitters : holding'[t] = holding'[u] /\ holding'[t] # 0 => t = u
      <4>1. \A t \in Submitters : holding[t] # e
        BY <2>1, <2>2 DEF InHand, Events
      <4>2. QED BY <2>5, <4>1 DEF Apart, TypeOK
    <3>3. QED BY <2>1, <2>2, <2>3, <2>5, <3>1, <3>2 DEF Apart, Whole
  <2>6. QED BY <1>3, <2>1, <2>4, <2>5 DEF Submit
<1>4. ASSUME NEW s \in Submitters, Evict(s) PROVE Apart' /\ Whole'
  <2>1. /\ UNCHANGED <<next, holding, batch>> /\ pc' = [pc EXCEPT ![s] = "retry"]
        /\ InHand' = InHand /\ InBatches' = InBatches /\ Submitted' = Submitted
    BY <1>4 DEF Evict, InHand, InBatches, Submitted
  <2>2. \A t \in Submitters : pc'[t] = "idle" => holding'[t] = 0
    BY <2>1 DEF Apart, TypeOK
  <2>3. CASE queue # <<>> /\ queue' = Tail(queue) /\ Drop({Head(queue)}, 1)
    <3> DEFINE e == Head(queue)
    <3>1. /\ e \in Events /\ ToSet(queue) = {e} \cup ToSet(queue')
          /\ Distinct(queue') /\ e \notin ToSet(queue')
      BY <1>1, <2>3, TailHolds DEF Apart
    <3>2. settled' = settled \cup {e} /\ excess' = excess /\ abandoned' = abandoned
      BY <2>3, <3>1, DropKeeps
    <3> HIDE DEF e
    <3>3. QED BY <2>1, <2>2, <3>1, <3>2 DEF Apart, Whole
  <2>4. CASE UNCHANGED queue /\ Drop({}, 1)
    <3>1. settled' = settled /\ excess' = excess + 1 /\ abandoned' = abandoned
      BY <2>4, FS_EmptySet DEF Drop, TypeOK
    <3>2. QED BY <2>1, <2>2, <2>4, <3>1 DEF Apart, Whole, TypeOK
  <2>5. QED BY <1>4, <2>3, <2>4 DEF Evict
<1>5. ASSUME NEW s \in Submitters, Retry(s) PROVE Apart' /\ Whole'
  <2> DEFINE e == holding[s]
  <2>1. /\ UNCHANGED <<next, batch>> /\ pc' = [pc EXCEPT ![s] = "idle"]
        /\ holding' = [holding EXCEPT ![s] = 0] /\ e # 0 /\ e \in Events
        /\ InBatches' = InBatches /\ Submitted' = Submitted
    BY <1>5 DEF Retry, InBatches, Submitted, TypeOK, Events
  <2>2. InHand' = InHand \ {e} /\ e \in InHand
    BY <2>1, HandLetsGo
  <2>3. /\ \A t \in Submitters : pc'[t] = "idle" => holding'[t] = 0
        /\ \A t, u \in Submitters : holding'[t] = holding'[u] /\ holding'[t] # 0 => t = u
    BY <2>1 DEF Apart, TypeOK
  <2>4. CASE queue' = Append(queue, e) /\ UNCHANGED gone
    <3>1. e \notin ToSet(queue)
      BY <2>2 DEF Apart
    <3>2. ToSet(queue') = ToSet(queue) \cup {e} /\ Distinct(queue')
      BY <1>1, <2>1, <2>4, <3>1, AppendHolds DEF Apart
    <3> HIDE DEF e
    <3>3. QED BY <2>1, <2>2, <2>3, <2>4, <3>2 DEF Apart, Whole
  <2>5. CASE Drop({e}, 1) /\ UNCHANGED queue
    <3>1. settled' = settled \cup {e} /\ excess' = excess /\ abandoned' = abandoned
      BY <2>1, <2>5, DropKeeps
    <3> HIDE DEF e
    <3>2. QED BY <2>1, <2>2, <2>3, <2>5, <3>1 DEF Apart, Whole
  <2>6. QED BY <1>5, <2>4, <2>5 DEF Retry
<1>6. ASSUME NEW f \in Flushers, DrainOne(f) PROVE Apart' /\ Whole'
  <2> DEFINE e == Head(queue)
             b == Append(batch[f], e)
  <2>1. /\ e \in Events /\ ToSet(queue) = {e} \cup ToSet(queue')
        /\ Distinct(queue') /\ e \notin ToSet(queue')
    BY <1>1, <1>6, TailHolds DEF Apart, DrainOne
  <2>2. /\ UNCHANGED <<next, holding, pc, gone>> /\ InHand' = InHand /\ Submitted' = Submitted
        /\ batch' = [batch EXCEPT ![f] = b]
    BY <1>6 DEF DrainOne, InHand, Submitted
  <2>3. e \notin ToSet(batch[f])
    BY <2>1 DEF Apart, InBatches, Flushers
  <2>4. ToSet(b) = ToSet(batch[f]) \cup {e} /\ Distinct(b)
    BY <1>1, <2>1, <2>3, AppendHolds DEF Apart
  <2> HIDE DEF e, b
  <2>5. PICK other :
        /\ InBatches = ToSet(batch[f]) \cup other /\ ToSet(batch[f]) \cap other = {}
        /\ InBatches' = ToSet(b) \cup other
        /\ ToSet(b) \cap other = {} =>
             ToSet(batch'["loop"]) \cap ToSet(batch'["closer"]) = {}
        /\ \A g \in Flushers : Distinct(batch'[g])
    BY <2>2, <2>4, OneBatchChanges
  <2>6. Apart'
    BY <2>1, <2>2, <2>4, <2>5 DEF Apart
  <2>7. QED BY <2>1, <2>2, <2>4, <2>5, <2>6 DEF Whole
<1>7. ASSUME NEW f \in Flushers, Acknowledged(f) \/ Refused(f)
      PROVE  Apart' /\ Whole'
  <2>1. /\ UNCHANGED <<queue, next, holding>> /\ InHand' = InHand /\ Submitted' = Submitted
        /\ batch' = [batch EXCEPT ![f] = <<>>]
    <3>1. UNCHANGED <<queue, next, holding>> /\ batch' = [batch EXCEPT ![f] = <<>>]
      BY <1>7, Zenon DEF Acknowledged, Refused
    <3>2. QED BY <3>1, Zenon DEF InHand, Submitted
  <2>2. /\ settled' = settled \cup ToSet(batch[f])
        /\ excess' = excess /\ abandoned' = abandoned
    <3>1. Cardinality(ToSet(batch[f])) = Len(batch[f]) /\ Len(batch[f]) \in Nat
      BY <1>1, DistinctCounted, LenProperties DEF Apart
    <3>2. CASE Acknowledged(f)
      BY <3>2 DEF Acknowledged
    <3>3. CASE Refused(f)
      BY <3>1, <3>3 DEF Refused, Drop, TypeOK
    <3>4. QED BY <1>7, <3>2, <3>3
  <2>3. \A s \in Submitters : pc'[s] = pc[s]
    BY <1>7 DEF Acknowledged, Refused, TypeOK, Flushers
  <2>4. PICK other :
        /\ InBatches = ToSet(batch[f]) \cup other /\ ToSet(batch[f]) \cap other = {}
        /\ InBatches' = ToSet(<<>>) \cup other
        /\ ToSet(<<>>) \cap other = {} =>
             ToSet(batch'["loop"]) \cap ToSet(batch'["closer"]) = {}
        /\ \A g \in Flushers : Distinct(batch'[g])
    BY <2>1, EmptyHolds, OneBatchChanges
  <2>5. Apart'
    BY <2>1, <2>2, <2>3, <2>4, EmptyHolds DEF Apart
  <2>6. QED BY <2>1, <2>2, <2>4, <2>5, EmptyHolds DEF Whole
<1>8. ASSUME NEW f \in Flushers, Requeue(f) PROVE Apart' /\ Whole'
  <2> DEFINE e == Head(batch[f])
             b == Tail(batch[f])
  <2>1. /\ e \in Events /\ ToSet(batch[f]) = {e} \cup ToSet(b)
        /\ Distinct(b) /\ e \notin ToSet(b)
    BY <1>1, <1>8, TailHolds DEF Apart, Requeue
  <2>2. /\ UNCHANGED <<next, holding, pc>> /\ InHand' = InHand /\ Submitted' = Submitted
        /\ batch' = [batch EXCEPT ![f] = b]
    BY <1>8 DEF Requeue, InHand, Submitted
  <2>3. e \in InBatches
    BY <2>1 DEF InBatches, Flushers
  <2>4. PICK other :
        /\ InBatches = ToSet(batch[f]) \cup other /\ ToSet(batch[f]) \cap other = {}
        /\ InBatches' = ToSet(b) \cup other
        /\ ToSet(b) \cap other = {} =>
             ToSet(batch'["loop"]) \cap ToSet(batch'["closer"]) = {}
        /\ \A g \in Flushers : Distinct(batch'[g])
    BY <2>1, <2>2, OneBatchChanges
  <2>5. CASE queue' = Append(queue, e) /\ UNCHANGED gone
    <3>1. ToSet(queue') = ToSet(queue) \cup {e} /\ Distinct(queue')
      BY <1>1, <2>1, <2>3, <2>5, AppendHolds DEF Apart
    <3> HIDE DEF e, b
    <3>2. Apart'
      BY <2>1, <2>2, <2>4, <2>5, <3>1 DEF Apart
    <3>3. QED BY <2>1, <2>2, <2>4, <2>5, <3>1, <3>2 DEF Whole
  <2>6. CASE Drop({e}, 1) /\ UNCHANGED queue
    <3>1. settled' = settled \cup {e} /\ excess' = excess /\ abandoned' = abandoned
      BY <2>1, <2>6, DropKeeps
    <3> HIDE DEF e, b
    <3>2. Apart'
      BY <2>1, <2>2, <2>3, <2>4, <2>6, <3>1 DEF Apart
    <3>3. QED BY <2>1, <2>2, <2>4, <2>6, <3>1, <3>2 DEF Whole
  <2>7. QED BY <1>8, <2>5, <2>6 DEF Requeue
<1>9. ASSUME NEW f \in Flushers, Send(f) \/ Failed(f) \/ Requeued(f)
      PROVE  Apart' /\ Whole'
  BY <1>2, <1>9 DEF Send, Failed, Requeued, TypeOK, Flushers
<1>10. ASSUME NEW s \in Submitters, SubmitRaises(s) PROVE Apart' /\ Whole'
  BY <1>2, <1>10 DEF SubmitRaises
<1>11. CASE Skip \/ WaitOver \/ FlushNow \/ Stop \/ Joined \/ JoinTimesOut \/ Return
  <2>1. CASE Skip \/ WaitOver
    BY <1>2, <2>1 DEF Skip, WaitOver, TypeOK, Flushers
  <2>2. CASE FlushNow \/ Stop
    BY <1>2, <2>2 DEF FlushNow, Stop, TypeOK, Flushers
  <2>3. CASE Joined \/ JoinTimesOut \/ Return
    BY <1>2, <2>3 DEF Joined, JoinTimesOut, Return, TypeOK, Flushers
  <2>4. QED BY <1>11, <2>1, <2>2, <2>3
<1>12. CASE JoinCancels
  <2>1. /\ UNCHANGED <<queue, next, holding, settled, excess>>
        /\ InHand' = InHand /\ Submitted' = Submitted
        /\ batch' = [batch EXCEPT !["loop"] = <<>>]
        /\ abandoned' = abandoned \cup ToSet(batch["loop"])
    BY <1>12 DEF JoinCancels, InHand, Submitted
  <2>2. \A s \in Submitters : pc'[s] = pc[s]
    BY <1>12 DEF JoinCancels, TypeOK, Flushers
  <2>3. PICK other :
        /\ InBatches = ToSet(batch["loop"]) \cup other /\ ToSet(batch["loop"]) \cap other = {}
        /\ InBatches' = ToSet(<<>>) \cup other
        /\ ToSet(<<>>) \cap other = {} =>
             ToSet(batch'["loop"]) \cap ToSet(batch'["closer"]) = {}
        /\ \A g \in Flushers : Distinct(batch'[g])
    BY <2>1, EmptyHolds, OneBatchChanges DEF Flushers
  <2>4. Apart'
    BY <2>1, <2>2, <2>3, EmptyHolds DEF Apart
  <2>5. QED BY <2>1, <2>3, <2>4, EmptyHolds DEF Whole
<1>13. CASE UNCHANGED vars
  BY <1>2, <1>13 DEF vars
<1>14. QED
  BY <1>3, <1>4, <1>5, <1>6, <1>7, <1>8, <1>9, <1>10, <1>11, <1>12, <1>13 DEF Next, Flush, Outcome

LEMMA PlacesAlways == Spec => []PlacesInv
<1>1. Init => Apart /\ Whole
  <2> SUFFICES ASSUME Init PROVE Apart /\ Whole
    OBVIOUS
  <2>1. /\ ToSet(queue) = {} /\ InBatches = {} /\ Distinct(queue)
        /\ \A f \in Flushers : ToSet(batch[f]) = {} /\ Distinct(batch[f])
    BY EmptyHolds DEF Init, InBatches, Flushers
  <2>2. /\ Submitted = {} /\ InHand = {} /\ settled = {} /\ abandoned = {} /\ Left = {} /\ excess = 0
        /\ \A s \in Submitters : holding[s] = 0
    BY DEF Init, Submitted, InHand, Left
  <2>3. QED BY <2>1, <2>2 DEF Apart, Whole, Flushers
<1>2. PlacesInv /\ [Next]_vars => PlacesInv'
  BY TypesKept, PlacesKept DEF PlacesInv
<1>3. Spec => [](TypeOK /\ Apart /\ Whole)
  BY <1>1, TypesStart, <1>2, PTL DEF Spec, PlacesInv
<1>4. QED BY <1>3 DEF PlacesInv

\* The batch of a loop that was cancelled is all that is abandoned.
AbandonInv ==
  /\ Cardinality(abandoned) <= BatchSize
  /\ abandoned # {} => kind = "task" /\ stopping /\ pc["loop"] = "exited"
  /\ pc["closer"] = "join" => stopping

LEMMA AbandonKept == PlacesInv /\ AbandonInv /\ [Next]_vars => AbandonInv'
<1> SUFFICES ASSUME PlacesInv, AbandonInv, [Next]_vars PROVE AbandonInv'
  OBVIOUS
<1> USE TelemetryQueueAssumption DEF gone, stop, Goto, Flushers
<1>1. TypeOK
  BY DEF PlacesInv
<1>2. CASE JoinCancels
  <2>1. abandoned = {}
    BY <1>2 DEF JoinCancels, Awaits, AbandonInv
  <2>2. batch["loop"] \in Seq(Events) /\ Distinct(batch["loop"]) /\ Len(batch["loop"]) <= BatchSize
    BY <1>1 DEF TypeOK, PlacesInv, Apart
  <2>3. Cardinality(ToSet(batch["loop"])) = Len(batch["loop"])
    BY <2>2, DistinctCounted
  <2>4. abandoned' = ToSet(batch["loop"])
    BY <1>2, <2>1 DEF JoinCancels
  <2>5. kind' = "task" /\ stopping' /\ pc'["loop"] = "exited" /\ pc'["closer"] # "join"
    BY <1>1, <1>2 DEF JoinCancels, AbandonInv, TypeOK
  <2>6. QED BY <2>2, <2>3, <2>4, <2>5 DEF AbandonInv
<1>3. ASSUME UNCHANGED <<abandoned, kind>>, stopping => stopping',
             pc["loop"] = "exited" => pc'["loop"] = "exited",
             pc'["closer"] = "join" => stopping' PROVE AbandonInv'
  BY <1>3 DEF AbandonInv
<1>4. ASSUME NEW s \in Submitters, SubmitRaises(s) \/ Submit(s) \/ Evict(s) \/ Retry(s)
      PROVE  AbandonInv'
  <2>1. UNCHANGED <<abandoned, stop, pc>>
        \/ (UNCHANGED <<abandoned, stop>> /\ \E l : pc' = [pc EXCEPT ![s] = l])
    BY <1>4 DEF SubmitRaises, Submit, Evict, Retry, Drop
  <2>2. UNCHANGED <<abandoned, stop>> /\ pc'["loop"] = pc["loop"] /\ pc'["closer"] = pc["closer"]
    BY <1>1, <2>1 DEF TypeOK
  <2>3. QED BY <1>3, <2>2 DEF AbandonInv
<1>5. ASSUME NEW f \in Flushers, Flush(f) PROVE AbandonInv'
  <2>1. UNCHANGED <<abandoned, stop>> /\ pc[f] \notin {"exited", "join"}
    BY <1>5 DEF Flush, Outcome, DrainOne, Send, Acknowledged, Refused, Failed, Requeue,
                Requeued, Drop
  <2>2. pc' = pc \/ \E l : l # "join" /\ pc' = [pc EXCEPT ![f] = l]
    BY <1>5 DEF Flush, Outcome, DrainOne, Send, Acknowledged, Refused, Failed, Requeue,
                Requeued, AfterBatch
  <2>3. /\ pc["loop"] = "exited" => pc'["loop"] = "exited"
        /\ pc'["closer"] = "join" => pc["closer"] = "join"
    BY <1>1, <2>1, <2>2 DEF TypeOK
  <2>4. QED BY <1>3, <2>1, <2>3 DEF AbandonInv
<1>6. CASE Skip \/ WaitOver \/ FlushNow \/ Stop \/ Joined \/ JoinTimesOut \/ Return
  <2>1. UNCHANGED <<abandoned, kind>> /\ (stopping => stopping')
    <3>1. CASE Stop
      BY <3>1 DEF Stop
    <3>2. CASE Skip \/ WaitOver \/ FlushNow \/ Joined \/ JoinTimesOut \/ Return
      <4>1. UNCHANGED <<abandoned, stop>>
        BY <3>2 DEF Skip, WaitOver, FlushNow, Joined, JoinTimesOut, Return
      <4>2. QED BY <4>1
    <3>3. QED BY <1>6, <3>1, <3>2
  <2>2. /\ pc["loop"] = "exited" => pc'["loop"] = "exited"
        /\ pc'["closer"] = "join" => stopping'
    BY <1>1, <1>6 DEF Skip, WaitOver, FlushNow, Stop, Joined, JoinTimesOut, Return,
                      AfterBatch, AbandonInv, TypeOK
  <2>3. QED BY <1>3, <2>1, <2>2
<1>7. CASE UNCHANGED vars
  BY <1>3, <1>7 DEF vars, AbandonInv
<1>8. QED BY <1>2, <1>4, <1>5, <1>6, <1>7 DEF Next

LEMMA AbandonAlways == Spec => []AbandonInv
<1>1. Init => AbandonInv
  BY TelemetryQueueAssumption, FS_EmptySet DEF Init, AbandonInv, Flushers
<1>2. QED BY <1>1, AbandonKept, PlacesAlways, PTL DEF Spec

\* No event is lost without being counted, wherever an eviction, a drain and a
\* requeue interleave, but for one batch of a task that stop() has cancelled.
THEOREM NothingLost == Spec => []NothingLostSilently
<1>1. PlacesInv /\ AbandonInv => NothingLostSilently
  BY DEF PlacesInv, AbandonInv, Whole, Left, NothingLostSilently
<1>2. QED BY <1>1, PlacesAlways, AbandonAlways, PTL
-----------------------------------------------------------------------------
(* One place *)

LEMMA DisjointUnion ==
  ASSUME NEW S, NEW T, IsFiniteSet(S), IsFiniteSet(T), S \cap T = {}
  PROVE  IsFiniteSet(S \cup T) /\ Cardinality(S \cup T) = Cardinality(S) + Cardinality(T)
<1>1. Cardinality(S \cap T) = 0
  BY FS_EmptySet
<1>2. Cardinality(S) \in Nat /\ Cardinality(T) \in Nat
  BY FS_CardinalityType
<1>3. /\ IsFiniteSet(S \cup T)
      /\ Cardinality(S \cup T) = Cardinality(S) + Cardinality(T) - Cardinality(S \cap T)
  BY FS_Union
<1>4. QED BY <1>1, <1>2, <1>3

LEMMA SubmittedCounted ==
  ASSUME TypeOK
  PROVE  IsFiniteSet(Submitted) /\ Cardinality(Submitted) = next
<1>1. 1 \in Int /\ next \in Int /\ next \in Nat
  BY TelemetryQueueAssumption DEF TypeOK
<1>2. /\ IsFiniteSet(1..next)
      /\ Cardinality(1..next) = IF 1 > next THEN 0 ELSE next - 1 + 1
  BY <1>1, FS_Interval
<1>3. QED BY <1>1, <1>2 DEF Submitted

\* Each busy submitter holds an event of its own.
LEMMA HandsCounted ==
  ASSUME TypeOK, Apart, IsFiniteSet(InHand)
  PROVE  Cardinality({s \in Submitters : holding[s] # 0}) = Cardinality(InHand)
<1> DEFINE Busy == {s \in Submitters : holding[s] # 0}
           h == [e \in InHand |-> CHOOSE s \in Submitters : holding[s] = e]
<1>1. \A e \in InHand : h[e] \in Busy /\ holding[h[e]] = e
  BY DEF InHand
<1>2. \A s \in Busy : holding[s] \in InHand /\ h[holding[s]] = s
  <2>1. \A s \in Busy : holding[s] \in InHand
    BY DEF InHand
  <2>2. QED BY <1>1, <2>1 DEF Apart
<1>3. h \in [InHand -> Busy]
  BY <1>1
<1> HIDE DEF h, Busy
<1>4. h \in Bijection(InHand, Busy)
  BY <1>1, <1>2, <1>3 DEF Bijection, Injection, Surjection, IsInjective
<1>5. ExistsBijection(InHand, Busy)
  BY <1>4 DEF ExistsBijection
<1>6. Cardinality(Busy) = Cardinality(InHand)
  BY <1>5, FS_Bijection
<1>7. QED BY <1>6 DEF Busy

\* No step is counted: events are numbered, so the places, which are apart and
\* together hold what was submitted, have next events among them.
LEMMA PlacesCounted == PlacesInv => InOnePlace
<1> SUFFICES ASSUME PlacesInv PROVE InOnePlace
  OBVIOUS
<1> DEFINE q == ToSet(queue)
           l == ToSet(batch["loop"])
           c == ToSet(batch["closer"])
<1>1. /\ Submitted = ((((q \cup l) \cup c) \cup InHand) \cup Left)
      /\ q \cap l = {} /\ (q \cup l) \cap c = {} /\ ((q \cup l) \cup c) \cap InHand = {}
      /\ (((q \cup l) \cup c) \cup InHand) \cap Left = {}
  BY DEF PlacesInv, Apart, Whole, InBatches
<1>2. IsFiniteSet(Submitted) /\ Cardinality(Submitted) = next
  BY SubmittedCounted DEF PlacesInv
<1>3. IsFiniteSet(InHand) /\ IsFiniteSet(settled) /\ IsFiniteSet(abandoned)
  <2>1. /\ InHand \in SUBSET Submitted /\ settled \in SUBSET Submitted
        /\ abandoned \in SUBSET Submitted
    BY <1>1 DEF Left
  <2>2. QED BY <1>2, <2>1, FS_Subset
<1>4. /\ IsFiniteSet(q) /\ Cardinality(q) = Len(queue)
      /\ IsFiniteSet(l) /\ Cardinality(l) = Len(batch["loop"])
      /\ IsFiniteSet(c) /\ Cardinality(c) = Len(batch["closer"])
  <2>1. /\ queue \in Seq(Events) /\ Distinct(queue)
        /\ \A f \in Flushers : batch[f] \in Seq(Events) /\ Distinct(batch[f])
    BY DEF PlacesInv, TypeOK, Apart
  <2>2. /\ batch["loop"] \in Seq(Events) /\ Distinct(batch["loop"])
        /\ batch["closer"] \in Seq(Events) /\ Distinct(batch["closer"])
    BY <2>1 DEF Flushers
  <2>3. QED BY <2>1, <2>2, DistinctCounted
<1>5. Cardinality({s \in Submitters : holding[s] # 0}) = Cardinality(InHand)
  BY <1>3, HandsCounted DEF PlacesInv
<1> HIDE DEF q, l, c
<1>6. IsFiniteSet(q \cup l) /\ Cardinality(q \cup l) = Len(queue) + Len(batch["loop"])
  <2>1. IsFiniteSet(q \cup l) /\ Cardinality(q \cup l) = Cardinality(q) + Cardinality(l)
    BY <1>1, <1>4, DisjointUnion
  <2>2. QED BY <1>4, <2>1
<1>7. /\ IsFiniteSet((q \cup l) \cup c)
      /\ Cardinality((q \cup l) \cup c)
           = Len(queue) + Len(batch["loop"]) + Len(batch["closer"])
  <2>1. /\ IsFiniteSet((q \cup l) \cup c)
        /\ Cardinality((q \cup l) \cup c) = Cardinality(q \cup l) + Cardinality(c)
    BY <1>1, <1>4, <1>6, DisjointUnion
  <2>2. QED BY <1>4, <1>6, <2>1
<1>8. /\ IsFiniteSet(((q \cup l) \cup c) \cup InHand)
      /\ Cardinality(((q \cup l) \cup c) \cup InHand)
           = Cardinality((q \cup l) \cup c) + Cardinality(InHand)
  BY <1>1, <1>3, <1>7, DisjointUnion
<1>9. Cardinality(Submitted) = Cardinality(((q \cup l) \cup c) \cup InHand) + Cardinality(settled)
                               + Cardinality(abandoned)
  <2>1. IsFiniteSet(Left) /\ Cardinality(Left) = Cardinality(settled) + Cardinality(abandoned)
    <3>1. settled \cap abandoned = {}
      BY DEF PlacesInv, Apart
    <3>2. QED BY <1>3, <3>1, DisjointUnion DEF Left
  <2>2. Cardinality((((q \cup l) \cup c) \cup InHand) \cup Left)
          = Cardinality(((q \cup l) \cup c) \cup InHand) + Cardinality(Left)
    BY <1>1, <1>3, <1>8, <2>1, DisjointUnion
  <2>3. Cardinality(((q \cup l) \cup c) \cup InHand) \in Nat
    BY <1>8, FS_CardinalityType
  <2>4. Cardinality(settled) \in Nat /\ Cardinality(abandoned) \in Nat
    BY <1>3, FS_CardinalityType
  <2>5. QED BY <1>1, <2>1, <2>2, <2>3, <2>4
<1>10. QED BY <1>2, <1>5, <1>7, <1>8, <1>9 DEF InOnePlace

\* An event is in one place only: none is sent again once it is settled, and
\* none is in two batches.
THEOREM OnePlace == Spec => []InOnePlace
BY PlacesCounted, PlacesAlways, PTL
-----------------------------------------------------------------------------
(* stop() *)

\* What a stop() that had every chance until now has seen to so far: nobody
\* submits, the loop has ended by itself with nothing in hand, and the queue is
\* empty once its own flush is over.
StopInv ==
  /\ pc["closer"] = "idle" => ~stopping
  /\ pc["loop"] \in {"wait", "exited"} => batch["loop"] = <<>>
  /\ pc["closer"] \in {"idle", "join", "return", "stopped"} => batch["closer"] = <<>>
  /\ clean => /\ stopping /\ \A s \in Submitters : pc[s] = "idle"
              /\ pc["closer"] \in {"join", "drain", "flight", "return", "stopped"}
              /\ abandoned = {}
              /\ pc["closer"] # "join" => pc["loop"] = "exited"
              /\ pc["closer"] \in {"return", "stopped"} => queue = <<>>

LEMMA StopKept == TypeOK /\ AbandonInv /\ StopInv /\ [Next]_vars => StopInv'
<1> SUFFICES ASSUME TypeOK, AbandonInv, StopInv, [Next]_vars PROVE StopInv'
  OBVIOUS
<1> USE TelemetryQueueAssumption DEF gone, stop, Goto, Flushers
<1>1. /\ "loop" \notin Submitters /\ "closer" \notin Submitters
      /\ DOMAIN pc = Submitters \cup {"loop", "closer"}
      /\ DOMAIN batch = {"loop", "closer"}
  BY DEF TypeOK
<1>2. ASSUME NEW s \in Submitters, SubmitRaises(s) \/ Submit(s) \/ Evict(s) \/ Retry(s)
      PROVE  StopInv'
  BY <1>1, <1>2 DEF SubmitRaises, Submit, Evict, Retry, StopInv
<1>3. ASSUME NEW f \in Flushers, DrainOne(f) \/ Requeue(f) PROVE StopInv'
  BY <1>1, <1>3 DEF DrainOne, Requeue, Drop, StopInv
<1>4. ASSUME NEW f \in Flushers, Send(f) \/ Failed(f) PROVE StopInv'
  <2>1. CASE Send(f)
    BY <1>1, <2>1 DEF Send, StopInv
  <2>2. CASE Failed(f)
    <3>1. /\ UNCHANGED <<queue, batch>> /\ pc' = [pc EXCEPT ![f] = "requeue"]
          /\ pc[f] = "flight" /\ (stopping <=> stopping') /\ UNCHANGED abandoned
          /\ (clean' => clean /\ f = "loop")
      BY <2>2 DEF Failed
    <3>2. QED BY <1>1, <3>1 DEF StopInv
  <2>3. QED BY <1>4, <2>1, <2>2
<1>5. ASSUME NEW f \in Flushers, Acknowledged(f) \/ Refused(f) PROVE StopInv'
  BY <1>1, <1>5 DEF Acknowledged, Refused, Drop, AfterBatch, StopInv
<1>6. ASSUME NEW f \in Flushers, Requeued(f) PROVE StopInv'
  BY <1>1, <1>6 DEF Requeued, AfterBatch, StopInv
<1>7. CASE Skip
  BY <1>1, <1>7 DEF Skip, AfterBatch, StopInv
<1>8. CASE Stop
  <2>0. abandoned = {} /\ abandoned' = {}
    BY <1>8 DEF Stop, StopInv, AbandonInv
  <2>1. /\ pc["closer"] = "idle" /\ pc' = [pc EXCEPT !["closer"] = "join"]
        /\ UNCHANGED <<queue, batch>> /\ stopping'
        /\ clean' => \A s \in Submitters : pc[s] = "idle"
    BY <1>8 DEF Stop
  <2>2. QED BY <1>1, <2>0, <2>1 DEF StopInv
<1>9. CASE WaitOver \/ FlushNow \/ Joined \/ JoinTimesOut \/ Return
  BY <1>1, <1>9 DEF WaitOver, FlushNow, Joined, JoinTimesOut, Return, StopInv
<1>10. CASE JoinCancels
  BY <1>1, <1>10 DEF JoinCancels, StopInv
<1>11. CASE UNCHANGED vars
  BY <1>11 DEF vars, StopInv
<1>12. QED
  BY <1>2, <1>3, <1>4, <1>5, <1>6, <1>7, <1>8, <1>9, <1>10, <1>11 DEF Next, Flush, Outcome

LEMMA StopAlways == Spec => []StopInv
<1>1. Init => StopInv
  BY TelemetryQueueAssumption DEF Init, StopInv, Flushers
<1>2. QED BY <1>1, TypeCorrect, AbandonAlways, StopKept, PTL DEF Spec

\* stop() sends everything, the last batch of the loop included, unless its own
\* sends fail, the join times out or events are still being submitted.
THEOREM StopSendsAll == Spec => []StopLosesNothing
<1>1. PlacesInv /\ StopInv => StopLosesNothing
  <2> SUFFICES ASSUME PlacesInv, StopInv, pc["closer"] = "stopped", clean
               PROVE  settled = Submitted
    BY DEF StopLosesNothing
  <2>1. ToSet(queue) = {} /\ InBatches = {}
    BY EmptyHolds DEF StopInv, InBatches
  <2>2. InHand = {}
    BY DEF StopInv, PlacesInv, Apart, InHand
  <2>3. Left = settled
    BY DEF StopInv, Left
  <2>4. QED BY <2>1, <2>2, <2>3 DEF PlacesInv, Whole
<1>2. QED BY <1>1, PlacesAlways, StopAlways, PTL
=============================================================================
