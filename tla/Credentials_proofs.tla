------------------------- MODULE Credentials_proofs -------------------------
(***************************************************************************)
(* Proofs about Credentials, for any processes, environments and numbers   *)
(* of identities, keys and retries: its types, that no call makes two      *)
(* keys, that a returned key is held, that the two files belong together,  *)
(* and that no identity's saved key is replaced unknowingly.               *)
(***************************************************************************)
EXTENDS Credentials, TLAPS

\* What a process may know before its configuration is loaded, what a call may
\* rely on, and what a key that came back is bound with.
MemoryInv ==
  \A p \in Procs :
    /\ bound[p].id = NoId => bound[p] = Nobody
    /\ pc[p] \in {"off", "loading"} =>
         bound[p].key = NoKey /\ returned[p] = NoKey
    /\ pc[p] = "posting" /\ call[p].op = "rotate" => bound[p].id # NoId
    /\ pc[p] \in {"key", "meta"} =>
         bound[p] = [id |-> returned[p].of, key |-> returned[p]] /\ returned[p] \in Keys

\* Between two attempts nothing has been made.
AttemptInv == \A p \in Procs : ~minted[p]

\* Of a process whose knowledge is fresh: in its save the key file holds its
\* key; the files it was loaded from, or has saved, are of its identity; and
\* a registration that may not overwrite has found nothing to overwrite.
KnowsFiles(p) ==
  fresh[p] =>
    /\ pc[p] = "meta" => keyFile = returned[p]
    /\ ~foreign[p] /\ ~torn /\ bound[p].id # NoId =>
         keyFile = NoKey \/ keyFile.of = bound[p].id
    /\ pc[p] \in {"posting", "key"} /\ call[p].op = "register"
         /\ call[p].persist /\ ~call[p].overwrite => keyFile = NoKey

\* A registration saves only what it was asked to save, and no identity is
\* foreign before it is loaded.
InOrder(p) ==
  /\ pc[p] = "key" /\ call[p].op = "register" => call[p].persist
  /\ pc[p] \in {"off", "loading"} => ~foreign[p]

FilesInv == PairMatches /\ \A p \in Procs : KnowsFiles(p) /\ InOrder(p)

IInv == TypeOK /\ MemoryInv /\ AttemptInv /\ KeyHeld /\ FilesInv
-----------------------------------------------------------------------------
\* The key Gateway makes for a call is a key, of the identity that rotates.
LEMMA KeyMade ==
  ASSUME TypeOK, MemoryInv, NEW p \in Procs, pc[p] = "posting", CanMake(p)
  PROVE  /\ NextKey(p) \in Keys
         /\ call[p].op = "rotate" => NextKey(p).of = bound[p].id
         /\ [made EXCEPT ![NextKey(p).of] = NextKey(p).gen] \in [Ids -> 0..MaxKeys]
<1> USE CredentialsAssumption
<1>1. CASE call[p].op = "rotate"
  <2>1. bound[p].id \in Ids
    BY <1>1 DEF TypeOK, MemoryInv
  <2>2. made[bound[p].id] \in 0..MaxKeys /\ made[bound[p].id] < MaxKeys
    BY <1>1, <2>1 DEF TypeOK, CanMake
  <2>3. NextKey(p) = [of |-> bound[p].id, gen |-> made[bound[p].id] + 1]
    BY <1>1 DEF NextKey
  <2>4. NextKey(p) \in Keys
    BY <2>1, <2>2, <2>3 DEF Keys
  <2>5. QED BY <2>1, <2>2, <2>3, <2>4 DEF TypeOK
<1>2. CASE call[p].op # "rotate"
  <2>1. PICK i \in Ids : made[i] = 0
    BY <1>2 DEF CanMake
  <2> DEFINE new == CHOOSE j \in Ids : made[j] = 0
  <2>2. new \in Ids
    BY <2>1
  <2>3. NextKey(p) = [of |-> new, gen |-> 1]
    BY <1>2 DEF NextKey
  <2>4. 1 \in 1..MaxKeys /\ 1 \in 0..MaxKeys
    OBVIOUS
  <2>5. QED BY <1>2, <2>2, <2>3, <2>4 DEF Keys, TypeOK
<1>3. QED BY <1>1, <1>2

\* A call that is over leaves the request as it was before the first one.
LEMMA Forgotten ==
  ASSUME TypeOK, NEW p \in Procs, Forget(p)
  PROVE  /\ call' \in [Procs -> Calls] /\ attempt' \in [Procs -> 0..MaxRetries]
         /\ minted' \in [Procs -> BOOLEAN]
         /\ \A q \in Procs \ {p} : call'[q] = call[q]
BY CredentialsAssumption DEF TypeOK, Forget, Calls, NoCall

\* Types, and what memory holds, are kept together.
LEMMA MemoryKept == Spec => [](TypeOK /\ MemoryInv)
<1> USE CredentialsAssumption
<1>1. Init => TypeOK /\ MemoryInv
  <2> SUFFICES ASSUME Init PROVE TypeOK /\ MemoryInv
    OBVIOUS
  <2>1. EnvIdentity.key \in Keys /\ EnvIdentity.id \in Ids
    BY DEF EnvIdentity, Keys, Ids
  <2>2. Nobody \in [id : Ids \cup {NoId}, key : Keys \cup {NoKey}] /\ Nobody.key = NoKey
    BY DEF Nobody
  <2>3. NoCall \in Calls
    BY DEF NoCall, Calls
  <2>4. \A i \in Ids : made[i] \in 0..MaxKeys
    BY DEF Init
  <2>5. made \in [Ids -> 0..MaxKeys]
    BY <2>4 DEF Init
  <2>6. /\ \A p \in Procs : bound[p] = Nobody /\ pc[p] = "off" /\ returned[p] = NoKey
        /\ bound \in [Procs -> [id : Ids \cup {NoId}, key : Keys \cup {NoKey}]]
    BY <2>2 DEF Init
  <2>7. /\ call \in [Procs -> Calls] /\ attempt \in [Procs -> 0..MaxRetries]
        /\ pc \in [Procs -> {"off", "loading", "idle", "posting", "key", "meta"}]
        /\ returned \in [Procs -> Keys \cup {NoKey}]
    BY <2>3 DEF Init
  <2>8. /\ persisted \in [Procs -> BOOLEAN] /\ foreign \in [Procs -> BOOLEAN]
        /\ minted \in [Procs -> BOOLEAN] /\ fresh \in [Procs -> BOOLEAN]
        /\ torn \in BOOLEAN
    BY DEF Init
  <2>9. keyFile \in Keys \cup {NoKey} /\ metaFile \in Ids \cup {NoId}
    BY <2>1 DEF Init
  <2>10. TypeOK
    BY <2>5, <2>6, <2>7, <2>8, <2>9 DEF TypeOK
  <2>11. MemoryInv
    BY <2>2, <2>6 DEF MemoryInv
  <2>12. QED BY <2>10, <2>11
<1>2. TypeOK /\ MemoryInv /\ [Next]_vars => (TypeOK /\ MemoryInv)'
  <2> SUFFICES ASSUME TypeOK, MemoryInv, [Next]_vars PROVE TypeOK' /\ MemoryInv'
    OBVIOUS
  <2> USE DEF Goto, disk, memory, request
  <2>1. ASSUME NEW p \in Procs, LoadMeta(p) PROVE TypeOK' /\ MemoryInv'
    <3> DEFINE id == IF keyFile = NoKey THEN NoId ELSE metaFile
    <3>1. /\ bound' = [bound EXCEPT ![p] = [id |-> id, key |-> NoKey]]
          /\ returned[p] = NoKey /\ id \in Ids \cup {NoId}
      BY <2>1 DEF LoadMeta, MemoryInv, TypeOK, NoKey
    <3>2. TypeOK'
      BY <2>1, <3>1 DEF LoadMeta, TypeOK, Knows
    <3>3. MemoryInv'
      BY <2>1, <3>1 DEF LoadMeta, MemoryInv, TypeOK, Nobody
    <3>4. QED BY <3>2, <3>3
  <2>2. ASSUME NEW p \in Procs, NEW env \in Environments, Start(p, env) PROVE TypeOK' /\ MemoryInv'
    <3>1. EnvIdentity.key \in Keys /\ EnvIdentity.id \in Ids
      BY DEF EnvIdentity, Keys, Ids
    <3> DEFINE loaded == [id |-> IF env = "full" THEN EnvIdentity.id ELSE bound[p].id,
                          key |-> IF env # "none" THEN EnvIdentity.key ELSE keyFile]
               new == IF loaded.id = NoId THEN Nobody ELSE loaded
    <3>2. /\ new \in [id : Ids \cup {NoId}, key : Keys \cup {NoKey}]
          /\ new.id = NoId => new = Nobody
      BY <3>1 DEF TypeOK, Nobody
    <3>3. bound' = [bound EXCEPT ![p] = new] /\ pc' = [pc EXCEPT ![p] = "idle"]
      BY <2>2 DEF Start
    <3>4. TypeOK'
      BY <2>2, <3>2, <3>3 DEF Start, TypeOK
    <3>5. MemoryInv'
      BY <2>2, <3>2, <3>3 DEF Start, MemoryInv, TypeOK
    <3>6. QED BY <3>4, <3>5
  <2>3. ASSUME NEW p \in Procs, End(p) PROVE TypeOK' /\ MemoryInv'
    <3>1. Nobody \in [id : Ids \cup {NoId}, key : Keys \cup {NoKey}] /\ Nobody.key = NoKey
      BY DEF Nobody
    <3>2. TypeOK'
      BY <2>3, <3>1, Forgotten DEF End, TypeOK
    <3>3. MemoryInv'
      BY <2>3, <3>1, Forgotten DEF End, MemoryInv, TypeOK
    <3>4. QED BY <3>2, <3>3
  <2>4. ASSUME NEW p \in Procs, NEW c \in Calls, Ask(p, c),
               pc[p] = "idle", c.op = "rotate" => bound[p].id # NoId,
               fresh' \in [Procs -> BOOLEAN]
        PROVE  TypeOK' /\ MemoryInv'
    <3>1. TypeOK'
      BY <2>4 DEF Ask, TypeOK
    <3>2. MemoryInv'
      BY <2>4 DEF Ask, MemoryInv, TypeOK
    <3>3. QED BY <3>1, <3>2
  <2>5. ASSUME NEW p \in Procs, NEW persist \in BOOLEAN, NEW overwrite \in BOOLEAN,
               Register(p, persist, overwrite)
        PROVE  TypeOK' /\ MemoryInv'
    <3>1. fresh' \in [Procs -> BOOLEAN]
      BY <2>5 DEF Register, Knows, TypeOK
    <3>2. [op |-> "register", persist |-> persist, overwrite |-> overwrite] \in Calls
      BY DEF Calls
    <3>3. QED BY <2>4, <2>5, <3>1, <3>2 DEF Register
  <2>6. ASSUME NEW p \in Procs, Rotate(p) PROVE TypeOK' /\ MemoryInv'
    <3>1. fresh' \in [Procs -> BOOLEAN]
      BY <2>6 DEF Rotate, TypeOK
    <3>2. [op |-> "rotate", persist |-> FALSE, overwrite |-> FALSE] \in Calls
      BY DEF Calls
    <3>3. QED BY <2>4, <2>6, <3>1, <3>2 DEF Rotate
  <2>7. ASSUME NEW p \in Procs, NEW answer, Unanswered(p, answer) PROVE TypeOK' /\ MemoryInv'
    <3>1. made' \in [Ids -> 0..MaxKeys]
      BY <2>7, KeyMade DEF Unanswered, Make, TypeOK
    <3>2. CASE Retried(answer, FALSE, attempt[p])
      <4> DEFINE madeNow == minted[p] \/ made' # made
      <4>1. /\ minted' = [minted EXCEPT ![p] = madeNow] /\ madeNow \in BOOLEAN
            /\ attempt' = [attempt EXCEPT ![p] = @ + 1]
            /\ UNCHANGED <<pc, call, bound, returned>>
        BY <2>7, <3>2, Zenon DEF Unanswered
      <4>2. attempt' \in [Procs -> 0..MaxRetries]
        BY <3>2, <4>1 DEF Retried, TypeOK
      <4> HIDE DEF madeNow
      <4>3. TypeOK'
        BY <2>7, <3>1, <4>1, <4>2 DEF Unanswered, TypeOK
      <4>4. MemoryInv'
        BY <4>1 DEF MemoryInv
      <4>5. QED BY <4>3, <4>4
    <3>3. CASE ~Retried(answer, FALSE, attempt[p])
      <4>1. pc' = [pc EXCEPT ![p] = "idle"] /\ Forget(p) /\ UNCHANGED <<bound, returned>>
        BY <2>7, <3>3 DEF Unanswered
      <4>2. TypeOK'
        BY <2>7, <3>1, <4>1, Forgotten DEF Unanswered, TypeOK
      <4>3. MemoryInv'
        BY <4>1, Forgotten DEF MemoryInv, TypeOK
      <4>4. QED BY <4>2, <4>3
    <3>4. QED BY <3>2, <3>3
  <2>8. ASSUME NEW p \in Procs, Answered(p) PROVE TypeOK' /\ MemoryInv'
    <3> DEFINE key == NextKey(p)
    <3>1. key \in Keys /\ made' \in [Ids -> 0..MaxKeys]
      BY <2>8, KeyMade DEF Answered, Make
    <3>2. /\ bound' = [bound EXCEPT ![p] = [id |-> key.of, key |-> key]]
          /\ returned' = [returned EXCEPT ![p] = key]
          /\ [id |-> key.of, key |-> key] \in [id : Ids \cup {NoId}, key : Keys \cup {NoKey}]
          /\ key.of # NoId
      BY <2>8, <3>1 DEF Answered, Bind, Keys, Ids, NoId
    <3>3. \/ pc' = [pc EXCEPT ![p] = "key"] /\ UNCHANGED request
          \/ pc' = [pc EXCEPT ![p] = "idle"] /\ Forget(p)
      BY <2>8 DEF Answered
    <3>4. /\ call' \in [Procs -> Calls] /\ attempt' \in [Procs -> 0..MaxRetries]
          /\ minted' \in [Procs -> BOOLEAN]
          /\ \A q \in Procs \ {p} : call'[q] = call[q]
      BY <3>3, Forgotten DEF TypeOK
    <3>5. foreign' \in [Procs -> BOOLEAN]
      <4> DEFINE other == foreign[p] \/ call[p].op = "register"
      <4>1. foreign' = [foreign EXCEPT ![p] = other] /\ other \in BOOLEAN
        BY <2>8, Zenon DEF Answered
      <4> HIDE DEF other
      <4>2. QED BY <4>1 DEF TypeOK
    <3>6. TypeOK'
      BY <2>8, <3>1, <3>2, <3>3, <3>4, <3>5 DEF Answered, TypeOK
    <3>7. ASSUME NEW q \in Procs, q # p
          PROVE  bound'[q] = bound[q] /\ returned'[q] = returned[q] /\ pc'[q] = pc[q]
                   /\ call'[q] = call[q]
      BY <3>2, <3>3, <3>4, <3>7 DEF TypeOK
    <3>8. /\ bound'[p] = [id |-> key.of, key |-> key] /\ returned'[p] = key
          /\ pc'[p] \in {"key", "idle"}
      BY <3>2, <3>3 DEF TypeOK
    <3>9. MemoryInv'
      BY <3>1, <3>2, <3>7, <3>8 DEF MemoryInv
    <3>10. QED BY <3>6, <3>9
  <2>9. ASSUME NEW p \in Procs, SaveKey(p) PROVE TypeOK' /\ MemoryInv'
    <3>1. TypeOK'
      BY <2>9 DEF SaveKey, Wrote, TypeOK
    <3>2. MemoryInv'
      BY <2>9 DEF SaveKey, MemoryInv, TypeOK
    <3>3. QED BY <3>1, <3>2
  <2>10. ASSUME NEW p \in Procs, SaveMeta(p) PROVE TypeOK' /\ MemoryInv'
    <3>1. returned[p] \in Keys /\ returned[p].of \in Ids
      BY <2>10 DEF SaveMeta, MemoryInv, Keys
    <3>2. TypeOK'
      BY <2>10, <3>1, Forgotten DEF SaveMeta, Wrote, TypeOK
    <3>3. MemoryInv'
      BY <2>10, Forgotten DEF SaveMeta, MemoryInv, TypeOK
    <3>4. QED BY <3>2, <3>3
  <2>11. ASSUME NEW p \in Procs, SaveFails(p) PROVE TypeOK' /\ MemoryInv'
    <3>1. TypeOK'
      BY <2>11, Forgotten DEF SaveFails, TypeOK
    <3>2. MemoryInv'
      BY <2>11, Forgotten DEF SaveFails, MemoryInv, TypeOK
    <3>3. QED BY <3>1, <3>2
  <2>12. CASE UNCHANGED vars
    BY <2>12 DEF vars, TypeOK, MemoryInv
  <2>13. QED
    BY <2>1, <2>2, <2>3, <2>5, <2>6, <2>7, <2>8, <2>9, <2>10, <2>11, <2>12 DEF Next
<1>3. QED BY <1>1, <1>2, PTL DEF Spec

\* Every variable keeps its type: no request is retried more often than the
\* policy allows.
THEOREM TypeCorrect == Spec => []TypeOK
BY MemoryKept, PTL

-----------------------------------------------------------------------------
(* Calls and the keys they make *)

\* No attempt of register() or rotate_key() is sent once Gateway has made a key
\* for the call: what is retried was answered with a 429, and made nothing.
THEOREM OneKey == Spec => []OneKeyPerCall
<1>1. Init => AttemptInv
  BY DEF Init, AttemptInv
<1>2. TypeOK /\ AttemptInv /\ [Next]_vars => AttemptInv'
  <2> SUFFICES ASSUME TypeOK, AttemptInv, [Next]_vars PROVE AttemptInv'
    OBVIOUS
  <2> USE DEF AttemptInv, TypeOK
  <2>1. (\E p \in Procs : Forget(p)) \/ UNCHANGED minted => AttemptInv'
    BY DEF Forget
  <2>2. ASSUME NEW p \in Procs, NEW answer, Unanswered(p, answer) PROVE AttemptInv'
    <3>1. CASE Retried(answer, FALSE, attempt[p])
      <4>1. answer = "limited" /\ made' = made
        BY <2>2, <3>1 DEF Unanswered, Retried
      <4>2. minted' = [minted EXCEPT ![p] = @ \/ made' # made]
        BY <2>2, <3>1 DEF Unanswered
      <4>3. \A q \in Procs : minted'[q] = (minted[q] \/ (q = p /\ made' # made))
        BY <4>2, Zenon
      <4>4. QED BY <4>1, <4>3
    <3>2. QED BY <2>1, <2>2, <3>1 DEF Unanswered
  <2>3. ASSUME NEW p \in Procs, NEW c, Ask(p, c) PROVE AttemptInv'
    BY <2>1, <2>3 DEF Ask
  <2>4. QED
    BY <2>1, <2>2, <2>3
       DEF Next, LoadMeta, Start, End, Register, Rotate, Answered, SaveKey, SaveMeta,
           SaveFails, vars, request
<1>3. AttemptInv => OneKeyPerCall
  BY DEF AttemptInv, OneKeyPerCall
<1>4. QED BY <1>1, <1>2, <1>3, TypeCorrect, PTL DEF Spec

\* From its return to the end of the process a private key is in memory.
THEOREM ReturnedKeyHeld == Spec => []KeyHeld
<1>1. Init => KeyHeld
  BY DEF Init, KeyHeld
<1>2. TypeOK /\ MemoryInv /\ KeyHeld /\ [Next]_vars => KeyHeld'
  <2> SUFFICES ASSUME TypeOK, MemoryInv, KeyHeld, [Next]_vars PROVE KeyHeld'
    OBVIOUS
  <2> USE DEF TypeOK, KeyHeld
  <2>1. CASE UNCHANGED <<bound, returned>>
    BY <2>1
  <2>2. ASSUME NEW p \in Procs, LoadMeta(p) \/ \E env \in Environments : Start(p, env)
        PROVE  KeyHeld'
    <3>1. returned[p] = NoKey /\ returned' = returned
      BY <2>2 DEF LoadMeta, Start, MemoryInv
    <3>2. \A q \in Procs \ {p} : bound'[q] = bound[q]
      BY <2>2 DEF LoadMeta, Start
    <3>3. QED BY <3>1, <3>2
  <2>3. ASSUME NEW p \in Procs, End(p) PROVE KeyHeld'
    BY <2>3 DEF End
  <2>4. ASSUME NEW p \in Procs, Answered(p) PROVE KeyHeld'
    <3>1. bound'[p].key = NextKey(p) /\ returned'[p] = NextKey(p)
      BY <2>4 DEF Answered, Bind
    <3>2. \A q \in Procs \ {p} : bound'[q] = bound[q] /\ returned'[q] = returned[q]
      BY <2>4 DEF Answered, Bind
    <3>3. QED BY <3>1, <3>2
  <2>5. QED
    BY <2>1, <2>2, <2>3, <2>4
       DEF Next, Register, Rotate, Ask, Unanswered, SaveKey, SaveMeta, SaveFails, vars, memory
<1>3. QED BY <1>1, <1>2, MemoryKept, PTL DEF Spec

-----------------------------------------------------------------------------
(* The two files *)

\* What a process knows stays true while neither it nor a file moves.
LEMMA StillKnown ==
  ASSUME NEW q \in Procs, KnowsFiles(q), InOrder(q), fresh'[q] => fresh[q],
         UNCHANGED keyFile, torn => torn',
         pc'[q] = pc[q], bound'[q] = bound[q], foreign'[q] = foreign[q],
         returned'[q] = returned[q], call'[q] = call[q]
  PROVE  KnowsFiles(q)' /\ InOrder(q)'
BY DEF KnowsFiles, InOrder

\* The files match as before while they and the saves under way stay.
LEMMA StillPaired ==
  ASSUME PairMatches, UNCHANGED disk, \A q \in Procs : pc[q] = "meta" => pc'[q] = "meta"
  PROVE  PairMatches'
BY DEF PairMatches, disk

\* A step of p preserves FilesInv if p itself, and the pair, are in order after it.
LEMMA StepOf ==
  ASSUME FilesInv, TypeOK, NEW p \in Procs, PairMatches', KnowsFiles(p)', InOrder(p)',
         UNCHANGED keyFile, torn => torn',
         \A q \in Procs \ {p} :
           /\ fresh'[q] => fresh[q]
           /\ pc'[q] = pc[q] /\ bound'[q] = bound[q] /\ foreign'[q] = foreign[q]
           /\ returned'[q] = returned[q] /\ call'[q] = call[q]
  PROVE  FilesInv'
<1>1. ASSUME NEW q \in Procs \ {p} PROVE KnowsFiles(q)' /\ InOrder(q)'
  BY StillKnown DEF FilesInv
<1>2. QED BY <1>1 DEF FilesInv

\* The same for a write, after which nobody else's knowledge is fresh.
LEMMA WriteOf ==
  ASSUME FilesInv, TypeOK, NEW p \in Procs, PairMatches', KnowsFiles(p)', InOrder(p)',
         Wrote(p),
         \A q \in Procs \ {p} :
           pc'[q] = pc[q] /\ call'[q] = call[q] /\ foreign'[q] = foreign[q]
  PROVE  FilesInv'
BY DEF FilesInv, KnowsFiles, InOrder, Wrote

LEMMA FilesKept == TypeOK /\ MemoryInv /\ FilesInv /\ [Next]_vars => FilesInv'
<1> SUFFICES ASSUME TypeOK, MemoryInv, FilesInv, [Next]_vars PROVE FilesInv'
  OBVIOUS
<1> USE DEF TypeOK, Goto, disk, memory, request
<1>1. ASSUME NEW p \in Procs, LoadMeta(p) PROVE FilesInv'
  <2>1. PairMatches'
    BY <1>1, StillPaired DEF LoadMeta, FilesInv
  <2>2. /\ pc'[p] = "loading" /\ fresh'[p] => \A q \in Procs : pc[q] # "meta"
        /\ bound'[p].id = IF keyFile = NoKey THEN NoId ELSE metaFile
    BY <1>1 DEF LoadMeta, Knows
  <2>3. KnowsFiles(p)' /\ InOrder(p)'
    BY <1>1, <2>2 DEF LoadMeta, FilesInv, PairMatches, KnowsFiles, InOrder
  <2>4. QED BY <1>1, <2>1, <2>3, StepOf DEF LoadMeta, Knows
<1>2. ASSUME NEW p \in Procs, NEW env \in Environments, Start(p, env) PROVE FilesInv'
  <2>1. PairMatches'
    BY <1>2, StillPaired DEF Start, FilesInv
  <2>2. /\ pc'[p] = "idle" /\ fresh'[p] = fresh[p]
        /\ ~foreign'[p] => env # "full"
    BY <1>2 DEF Start
  <2>3. env # "full" => bound'[p].id = bound[p].id
    BY <1>2 DEF Start, Nobody, MemoryInv
  <2>4. KnowsFiles(p)' /\ InOrder(p)'
    <3>1. pc[p] = "loading" /\ ~foreign[p]
      BY <1>2 DEF Start, FilesInv, InOrder
    <3>2. QED BY <1>2, <2>2, <2>3, <3>1 DEF Start, FilesInv, KnowsFiles, InOrder
  <2>5. QED BY <1>2, <2>1, <2>4, StepOf DEF Start
<1>3. ASSUME NEW p \in Procs, End(p) PROVE FilesInv'
  <2>1. /\ UNCHANGED <<keyFile, metaFile>> /\ torn' = (torn \/ pc[p] = "meta")
        /\ \A q \in Procs \ {p} : pc'[q] = pc[q] /\ call'[q] = call[q]
        /\ pc'[p] = "off" /\ ~fresh'[p] /\ ~foreign'[p]
    BY <1>3 DEF End, Forget
  <2>2. PairMatches'
    BY <2>1 DEF FilesInv, PairMatches
  <2>3. KnowsFiles(p)' /\ InOrder(p)'
    BY <2>1 DEF KnowsFiles, InOrder
  <2>4. QED BY <1>3, <2>1, <2>2, <2>3, StepOf DEF End
<1>4. ASSUME NEW p \in Procs, NEW persist \in BOOLEAN, NEW overwrite \in BOOLEAN,
             Register(p, persist, overwrite)
      PROVE  FilesInv'
  <2>1. PairMatches'
    BY <1>4, StillPaired DEF Register, Ask, FilesInv
  <2>2. /\ pc'[p] = "posting" /\ UNCHANGED <<keyFile, torn, bound, foreign>>
        /\ call'[p] = [op |-> "register", persist |-> persist, overwrite |-> overwrite]
    BY <1>4 DEF Register, Ask
  <2>3. persist /\ ~overwrite => keyFile = NoKey
    BY <1>4 DEF Register, CredentialsExist
  <2>4. ~(persist /\ ~overwrite) => fresh' = fresh
    BY <1>4 DEF Register
  <2>5. KnowsFiles(p)' /\ InOrder(p)'
    BY <2>2, <2>3, <2>4 DEF FilesInv, KnowsFiles, InOrder
  <2>6. \A q \in Procs \ {p} : fresh'[q] = fresh[q]
    BY <1>4 DEF Register, Knows
  <2>7. QED BY <1>4, <2>1, <2>2, <2>5, <2>6, StepOf DEF Register, Ask
<1>5. ASSUME NEW p \in Procs, Rotate(p) PROVE FilesInv'
  <2>1. PairMatches'
    BY <1>5, StillPaired DEF Rotate, Ask, FilesInv
  <2>2. KnowsFiles(p)' /\ InOrder(p)'
    BY <1>5 DEF Rotate, Ask, FilesInv, KnowsFiles, InOrder
  <2>3. QED BY <1>5, <2>1, <2>2, StepOf DEF Rotate, Ask
<1>6. ASSUME NEW p \in Procs, NEW answer, Unanswered(p, answer) PROVE FilesInv'
  <2>1. /\ \/ pc' = pc /\ call' = call
           \/ pc' = [pc EXCEPT ![p] = "idle"] /\ Forget(p)
        /\ pc[p] = "posting" /\ UNCHANGED <<disk, memory, returned, fresh>>
    BY <1>6 DEF Unanswered
  <2>2. /\ \A q \in Procs \ {p} : pc'[q] = pc[q] /\ call'[q] = call[q]
        /\ \/ pc'[p] = "posting" /\ call'[p] = call[p]
           \/ pc'[p] = "idle"
    BY <2>1 DEF Forget
  <2>3. PairMatches'
    BY <2>1, <2>2, StillPaired DEF FilesInv
  <2>4. KnowsFiles(p)' /\ InOrder(p)'
    BY <2>1, <2>2 DEF FilesInv, KnowsFiles, InOrder
  <2>5. QED BY <2>1, <2>2, <2>3, <2>4, StepOf
<1>7. ASSUME NEW p \in Procs, Answered(p) PROVE FilesInv'
  <2> DEFINE key == NextKey(p)
  <2>1. /\ pc[p] = "posting" /\ UNCHANGED <<disk, fresh>>
        /\ \/ pc' = [pc EXCEPT ![p] = "key"] /\ call' = call /\ Saves(p)
           \/ pc' = [pc EXCEPT ![p] = "idle"] /\ Forget(p)
    BY <1>7 DEF Answered
  <2>2. /\ \A q \in Procs \ {p} : pc'[q] = pc[q] /\ call'[q] = call[q]
        /\ \/ pc'[p] = "key" /\ call'[p] = call[p] /\ Saves(p)
           \/ pc'[p] = "idle"
    BY <2>1 DEF Forget
  <2>3. /\ \A q \in Procs \ {p} :
             /\ bound'[q] = bound[q] /\ returned'[q] = returned[q]
             /\ foreign'[q] = foreign[q]
        /\ bound'[p].id = key.of
    BY <1>7 DEF Answered, Bind
  <2>4. PairMatches'
    BY <2>1, <2>2, StillPaired DEF FilesInv
  <2>5. InOrder(p)'
    BY <2>2 DEF InOrder, Saves
  <2>6. CASE call[p].op = "rotate"
    <3>1. key.of = bound[p].id
      BY <1>7, <2>6, KeyMade DEF Answered, Make
    <3>2. foreign'[p] = foreign[p]
      BY <1>7, <2>6, Zenon DEF Answered
    <3>3. KnowsFiles(p)'
      BY <2>1, <2>2, <2>3, <2>6, <3>1, <3>2 DEF FilesInv, KnowsFiles
    <3>4. QED BY <2>1, <2>2, <2>3, <2>4, <2>5, <3>3, StepOf
  <2>7. CASE call[p].op = "register"
    <3>1. foreign'[p]
      BY <1>7, <2>7 DEF Answered
    <3>2. KnowsFiles(p)'
      BY <2>1, <2>2, <3>1 DEF FilesInv, KnowsFiles
    <3>3. QED BY <2>1, <2>2, <2>3, <2>4, <2>5, <3>2, StepOf
  <2>8. QED BY <2>6, <2>7 DEF Calls
<1>8. ASSUME NEW p \in Procs, SaveKey(p) PROVE FilesInv'
  <2>1. /\ pc'[p] = "meta" /\ keyFile' = returned[p] /\ Wrote(p)
        /\ UNCHANGED <<metaFile, torn, bound, foreign, call, returned>>
        /\ \A q \in Procs \ {p} : pc'[q] = pc[q]
    BY <1>8 DEF SaveKey
  <2>2. bound[p].id = returned[p].of
    BY <1>8 DEF SaveKey, MemoryInv
  <2>3. PairMatches'
    BY <2>1 DEF PairMatches
  <2>4. KnowsFiles(p)' /\ InOrder(p)'
    BY <2>1, <2>2 DEF KnowsFiles, InOrder
  <2>5. QED BY <2>1, <2>3, <2>4, WriteOf
<1>9. ASSUME NEW p \in Procs, SaveMeta(p) PROVE FilesInv'
  <2>1. /\ pc[p] = "meta" /\ pc'[p] = "idle" /\ metaFile' = returned[p].of /\ torn' = ~fresh[p]
        /\ Wrote(p) /\ UNCHANGED <<keyFile, bound, returned>>
        /\ \A q \in Procs \ {p} :
             pc'[q] = pc[q] /\ call'[q] = call[q] /\ foreign'[q] = foreign[q]
    BY <1>9 DEF SaveMeta, Forget
  <2>2. bound[p].id = returned[p].of
    BY <2>1 DEF MemoryInv
  <2>3. fresh[p] => keyFile = returned[p]
    BY <2>1 DEF FilesInv, KnowsFiles
  <2>4. PairMatches'
    BY <2>1, <2>3 DEF PairMatches
  <2>5. KnowsFiles(p)' /\ InOrder(p)'
    BY <2>1, <2>2, <2>3 DEF KnowsFiles, InOrder
  <2>6. QED BY <2>1, <2>4, <2>5, WriteOf
<1>10. ASSUME NEW p \in Procs, SaveFails(p) PROVE FilesInv'
  <2>1. /\ UNCHANGED <<keyFile, metaFile, bound, foreign, returned, fresh>>
        /\ torn' = (torn \/ pc[p] = "meta") /\ pc'[p] = "idle"
        /\ \A q \in Procs \ {p} : pc'[q] = pc[q] /\ call'[q] = call[q]
    BY <1>10 DEF SaveFails, Forget
  <2>2. PairMatches'
    BY <2>1 DEF FilesInv, PairMatches
  <2>3. KnowsFiles(p)' /\ InOrder(p)'
    BY <2>1 DEF FilesInv, KnowsFiles, InOrder
  <2>4. QED BY <2>1, <2>2, <2>3, StepOf
<1>11. CASE UNCHANGED vars
  <2>1. PairMatches'
    BY <1>11, StillPaired DEF vars, FilesInv
  <2>2. ASSUME NEW q \in Procs PROVE KnowsFiles(q)' /\ InOrder(q)'
    BY <1>11, StillKnown DEF vars, FilesInv
  <2>3. QED BY <2>1, <2>2 DEF FilesInv
<1>12. QED
  BY <1>1, <1>2, <1>3, <1>4, <1>5, <1>6, <1>7, <1>8, <1>9, <1>10, <1>11 DEF Next

\* It holds from the start on.
LEMMA FilesAlways == Spec => [](TypeOK /\ MemoryInv /\ FilesInv)
<1>1. Init => FilesInv
  BY DEF Init, FilesInv, PairMatches, KnowsFiles, InOrder, EnvIdentity
<1>2. QED BY <1>1, FilesKept, MemoryKept, PTL DEF Spec

\* The key and the metadata are of one identity, unless a save is under way or
\* the last one was cut short or crossed.
THEOREM FilesMatch == Spec => []PairMatches
<1>1. FilesInv => PairMatches
  BY DEF FilesInv
<1>2. QED BY <1>1, FilesAlways, PTL

\* A saved key gives way to another identity's only where that was asked for,
\* or where the process that writes could not know.
THEOREM OverwritesKnowingly == Spec => KeysReplacedKnowingly
<1> DEFINE Knowing ==
     \A p \in Procs :
       SaveKey(p) /\ keyFile # NoKey /\ keyFile.of # returned[p].of
         => \/ ~fresh[p]
            \/ call[p].op = "register" /\ call[p].overwrite
            \/ call[p].op = "rotate" /\ (foreign[p] \/ torn)
<1>1. TypeOK /\ MemoryInv /\ FilesInv => Knowing
  <2> SUFFICES ASSUME TypeOK, MemoryInv, FilesInv, NEW p \in Procs, SaveKey(p), keyFile # NoKey,
                      keyFile.of # returned[p].of, fresh[p]
               PROVE  \/ call[p].op = "register" /\ call[p].overwrite
                      \/ call[p].op = "rotate" /\ (foreign[p] \/ torn)
    OBVIOUS
  <2>1. pc[p] = "key" /\ KnowsFiles(p) /\ InOrder(p)
    BY DEF SaveKey, FilesInv
  <2>2. bound[p] = [id |-> returned[p].of, key |-> returned[p]] /\ returned[p] \in Keys
    BY <2>1 DEF MemoryInv
  <2>3. bound[p].id = returned[p].of
    BY <2>2
  <2>4. bound[p].id # NoId
    BY <2>2, <2>3, CredentialsAssumption DEF Keys, Ids, NoId
  <2>5. CASE call[p].op = "rotate"
    BY <2>1, <2>3, <2>4, <2>5 DEF KnowsFiles
  <2>6. CASE call[p].op = "register"
    BY <2>1, <2>6 DEF KnowsFiles, InOrder
  <2>7. QED BY <2>5, <2>6 DEF TypeOK, Calls
<1>2. TypeOK /\ MemoryInv /\ FilesInv => [Knowing]_vars
  BY <1>1
<1>3. QED BY <1>2, FilesAlways, PTL DEF KeysReplacedKnowingly
=============================================================================
