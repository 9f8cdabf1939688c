--------------------------- MODULE Sessions_proofs ---------------------------
(***************************************************************************)
(* Proofs about Sessions, for any callers and identities: its types, that  *)
(* the session is the bound identity's, that handshakes are shared, that a *)
(* retry is fresh, and that a stream reported as connected is open.        *)
(***************************************************************************)
EXTENDS Sessions, TLAPS

\* Every variable keeps its type.
THEOREM TypeCorrect == Spec => []TypeOK
<1> USE SessionsAssumption DEF Users, Holders
<1>1. Init => TypeOK
  <2> SUFFICES ASSUME Init PROVE TypeOK
    OBVIOUS
  <2>1. /\ \A u \in Users : as[u] = NoOne
        /\ \A u \in Users : pc[u] = IF u = "stream" THEN "get" ELSE "idle"
    BY DEF Init
  <2>2. /\ issuedTo = NoOne /\ session = "none" /\ identity \in Identities
        /\ signer = [of |-> identity, live |-> TRUE]
        /\ binder = [at |-> "idle", to |-> identity]
    BY DEF Init, Bind
  <2>3. /\ token \in [Holders -> SUBSET Callers] /\ as \in [Users -> Identities \cup {NoOne}]
        /\ pc \in [Users -> {"idle", "get", "shake", "minted", "send", "drop",
                             "open", "pause", "ended"}]
    BY DEF Init
  <2>4. retried = {} /\ status = "connecting" /\ stop = "no"
    BY DEF Init
  <2>5. \A c \in Callers : pc[c] \notin {"open", "pause", "ended"}
    BY <2>1
  <2>6. \A u \in Users : as[u] # NoOne <=> pc[u] \in {"shake", "minted"}
    BY <2>1
  <2>7. QED BY <2>2, <2>3, <2>4, <2>5, <2>6 DEF TypeOK
<1>2. TypeOK /\ [Next]_vars => TypeOK'
  <2> SUFFICES ASSUME TypeOK, [Next]_vars PROVE TypeOK'
    OBVIOUS
  <2> USE DEF TypeOK, managerVars, bindVars, callVars, streamVars, Goto, Take
  <2>1. CASE Age
    BY <2>1 DEF Age
  <2>2. CASE Binding
    <3>1. CASE Rotate
      BY <3>1 DEF Rotate, Bind
    <3>2. CASE Register
      <4>1. PICK i \in Identities : binder' = [at |-> "reply", to |-> i]
        BY <3>2 DEF Register, Bind
      <4>2. QED BY <3>2, <4>1 DEF Register
    <3>3. CASE ReplyLost
      BY <3>3 DEF ReplyLost, Bind
    <3>4. CASE Rekey
      BY <3>4 DEF Rekey, Bind
    <3>5. CASE Rebind
      BY <3>5 DEF Rebind, Bind, Drop
    <3>6. QED BY <2>2, <3>1, <3>2, <3>3, <3>4, <3>5 DEF Binding
  <2>3. ASSUME NEW u \in Users, Get(u) PROVE TypeOK'
    <3>1. CASE UseCached(u)
      BY <3>1 DEF UseCached
    <3>2. CASE StartHandshake(u)
      BY <3>2 DEF StartHandshake
    <3>3. QED BY <2>3, <3>1, <3>2 DEF Get
  <2>4. ASSUME NEW u \in Users, Minted(u) PROVE TypeOK'
    BY <2>4 DEF Minted
  <2>5. ASSUME NEW u \in Users, Store(u) PROVE TypeOK'
    BY <2>5 DEF Store
  <2>6. ASSUME NEW u \in Users, Invalidate(u) PROVE TypeOK'
    BY <2>6 DEF Invalidate, Drop
  <2>7. ASSUME NEW c \in Callers, Call(c) PROVE TypeOK'
    BY <2>7 DEF Call
  <2>8. ASSUME NEW c \in Callers, Retry(c) PROVE TypeOK'
    <3>1. Forget(c) => token' \in [Holders -> SUBSET Callers]
      BY DEF Forget
    <3>2. CASE End(c)
      BY <3>1, <3>2 DEF End
    <3>3. CASE Expired(c)
      BY <3>1, <3>3 DEF Expired
    <3>4. QED BY <2>8, <3>2, <3>3 DEF Retry, HandshakeFails, Answered
  <2>9. CASE \E l \in {"pause", "ended", "drop"} :
               \E s \in {status, "unsupported", "backoff", "stopped"} : Leave(l, s)
    <3>1. PICK l \in {"pause", "ended", "drop"} : pc' = [pc EXCEPT !["stream"] = l]
      BY <2>9 DEF Leave
    <3>2. /\ pc' \in [Users -> {"idle", "get", "shake", "minted", "send", "drop",
                               "open", "pause", "ended"}]
          /\ \A c \in Callers : pc'[c] \notin {"open", "pause", "ended"}
      BY <3>1
    <3>3. token' \in [Holders -> SUBSET Callers]
      BY <2>9 DEF Leave
    <3>4. status' \in {"connecting", "connected", "backoff", "unsupported", "stopped"}
      BY <2>9 DEF Leave
    <3>5. /\ as' \in [Users -> Identities \cup {NoOne}]
          /\ \A u \in Users : as'[u] # NoOne <=> pc'[u] \in {"shake", "minted"}
      BY <2>9, <3>1 DEF Leave
    <3>6. UNCHANGED <<managerVars, bindVars, retried, stop>>
      BY <2>9 DEF Leave
    <3>7. QED BY <3>2, <3>3, <3>4, <3>5, <3>6
  <2>10. CASE Stream
    <3>1. CASE Connect \/ Again
      BY <3>1 DEF Connect, Again
    <3>2. CASE ConnectFails \/ Broken \/ GiveUp \/ Closed \/ StreamExpired \/ Quit
      BY <2>9, <3>2 DEF ConnectFails, Broken, GiveUp, Closed, StreamExpired, Quit
    <3>3. QED BY <2>10, <3>1, <3>2 DEF Stream
  <2>11. CASE Ready \/ Stop \/ StopReturns
    BY <2>11 DEF Ready, Stop, StopReturns
  <2>12. CASE UNCHANGED vars
    BY <2>12 DEF vars
  <2>13. QED
    BY <2>1, <2>2, <2>3, <2>4, <2>5, <2>6, <2>7, <2>8, <2>10, <2>11, <2>12
       DEF Next, Shake
<1>3. QED BY <1>1, <1>2, PTL DEF Spec

-----------------------------------------------------------------------------
\* The lock is held by one user at a time, and until the session is renewed.
LockInv ==
  /\ \A u, v \in Users : pc[u] \in {"shake", "minted"} /\ pc[v] \in {"shake", "minted"} => u = v
  /\ HandshakeNeeded

\* What is cached or on its way into the cache is the bound identity's.
BoundInv ==
  ~Async =>
    /\ SessionIsBound
    /\ \A u \in Users : pc[u] \in {"shake", "minted"} => as[u] = identity

\* Once a call that failed has dropped the session, only newer ones can be found.
FreshInv ==
  \A c \in retried :
    /\ pc[c] \in {"drop", "get", "shake", "minted", "send"}
    /\ pc[c] # "drop" =>
         /\ session # "none" => c \in token["manager"]
         /\ \A u \in Users : pc[u] = "minted" => c \in token[u]
    /\ pc[c] = "send" => c \in token[c]

IInv == LockInv /\ BoundInv /\ FreshInv /\ ConnectedMeansOpen

\* FreshInv survives a step that moves none of the retried calls, starts no
\* mint and takes no mark off the tokens FreshInv speaks of.
LEMMA FreshKept ==
  ASSUME FreshInv, session' \in {session, "none"},
         \A d \in retried' : d \in retried /\ pc'[d] = pc[d],
         \A d \in retried' : d \in token["manager"] => d \in token'["manager"],
         \A d \in retried' : pc[d] = "send" /\ d \in token[d] => d \in token'[d],
         \A u \in Users : pc'[u] = "minted" => pc[u] = "minted",
         \A u \in Users : \A d \in retried' :
            pc[u] = "minted" /\ pc'[u] = "minted" /\ d \in token[u] => d \in token'[u]
  PROVE  FreshInv'
BY DEF FreshInv

\* The inductive invariant holds of every reachable state.
LEMMA InvCorrect == Spec => []IInv
<1> USE SessionsAssumption DEF Users, Holders
<1>1. Init => IInv
  BY DEF Init, IInv, LockInv, BoundInv, FreshInv, HandshakeNeeded, SessionIsBound,
         ConnectedMeansOpen, Locked
<1>2. TypeOK /\ IInv /\ [Next]_vars => IInv'
  <2> SUFFICES ASSUME TypeOK, IInv, [Next]_vars PROVE IInv'
    OBVIOUS
  <2> USE DEF TypeOK, IInv, LockInv, BoundInv, FreshInv, HandshakeNeeded, SessionIsBound,
              ConnectedMeansOpen, Locked, managerVars, bindVars, callVars, streamVars,
              Goto, Take
  <2>1. CASE Age
    BY <2>1 DEF Age
  <2>2. CASE Binding
    <3>1. CASE Rotate \/ Register \/ ReplyLost \/ Rekey
      <4>1. UNCHANGED <<managerVars, callVars, streamVars>>
        BY <3>1 DEF Rotate, Register, ReplyLost, Rekey
      <4>2. QED BY <4>1
    <3>2. CASE Rebind
      <4>1. /\ session' = "none" /\ (Async \/ ~Locked)
            /\ UNCHANGED <<pc, as, retried, streamVars>>
            /\ \A u \in Users : token'[u] = token[u]
        BY <3>2 DEF Rebind, Drop
      <4>2. QED BY <4>1
    <3>3. QED BY <2>2, <3>1, <3>2 DEF Binding
  <2>3. ASSUME NEW u \in Users, UseCached(u) PROVE IInv'
    BY <2>3 DEF UseCached
  <2>4. ASSUME NEW u \in Users, StartHandshake(u) PROVE IInv'
    BY <2>4 DEF StartHandshake
  <2>5. ASSUME NEW u \in Users, Minted(u) PROVE IInv'
    BY <2>5 DEF Minted
  <2>6. ASSUME NEW u \in Users, Store(u) PROVE IInv'
    BY <2>6 DEF Store
  <2>7. ASSUME NEW u \in Users, Invalidate(u) PROVE IInv'
    <3>1. /\ pc[u] = "drop" /\ session' = "none"
          /\ UNCHANGED <<identity, as, retried, status>>
      BY <2>7 DEF Invalidate, Drop
    <3>2. /\ pc'[u] \in {"get", "pause"} /\ (u \in Callers => pc'[u] = "get")
          /\ \A v \in Users \ {u} : pc'[v] = pc[v]
      BY <2>7 DEF Invalidate
    <3>3. \A v \in Users : token'[v] = token[v]
      BY <2>7 DEF Invalidate, Drop
    <3>4. LockInv' /\ BoundInv' /\ ConnectedMeansOpen'
      BY <3>1, <3>2
    <3>5. FreshInv'
      <4> SUFFICES ASSUME NEW c \in retried PROVE
             /\ pc'[c] \in {"drop", "get", "shake", "minted", "send"}
             /\ pc'[c] # "drop" => \A v \in Users : pc'[v] = "minted" => c \in token'[v]
             /\ pc'[c] = "send" => c \in token'[c]
        BY <3>1
      <4>1. c \in Callers /\ (c = u \/ pc'[c] = pc[c])
        BY <3>2
      <4>2. \A v \in Users : pc'[v] # "minted" \/ (v # u /\ pc[v] = "minted")
        BY <3>2
      <4>3. c = u => \A v \in Users : pc[v] # "minted"
        BY <2>7 DEF Invalidate
      <4>4. QED BY <3>1, <3>2, <3>3, <4>1, <4>2, <4>3
    <3>6. QED BY <3>4, <3>5
  <2>8. ASSUME NEW c \in Callers, Call(c) PROVE IInv'
    BY <2>8 DEF Call
  <2>9. ASSUME NEW c \in Callers, Retry(c) PROVE IInv'
    <3>1. Forget(c) => \A h \in Holders : \A d \in Callers \ {c} :
                         h # c /\ d \in token[h] => d \in token'[h]
      BY DEF Forget
    <3>2. CASE End(c)
      <4>1. /\ pc'[c] = "idle" /\ \A v \in Users \ {c} : pc'[v] = pc[v] /\ as'[v] = as[v]
            /\ retried' = retried \ {c}
            /\ Forget(c) /\ UNCHANGED <<managerVars, streamVars>>
        BY <3>2 DEF End
      <4>2. LockInv' /\ BoundInv'
        BY <4>1
      <4>3. ConnectedMeansOpen'
        BY <4>1
      <4>4. FreshInv'
        <5>1. \A d \in retried' : d \in retried /\ d \in Callers \ {c} /\ pc'[d] = pc[d]
          BY <4>1
        <5>2. \A d \in retried' : \A h \in Holders \ {c} : d \in token[h] => d \in token'[h]
          BY <3>1, <4>1, <5>1
        <5>3. \A u \in Users : pc'[u] = "minted" => u # c /\ pc[u] = "minted"
          BY <4>1
        <5>4. "manager" # c /\ session' = session
          BY <4>1
        <5>5. \A d \in retried' : d \in Users /\ d # c
          BY <5>1
        <5>6. QED BY <5>1, <5>2, <5>3, <5>4, <5>5, FreshKept
      <4>5. QED BY <4>2, <4>3, <4>4
    <3>3. CASE Expired(c)
      <4>1. /\ pc'[c] = "drop" /\ \A v \in Users \ {c} : pc'[v] = pc[v]
            /\ retried' = retried \cup {c}
            /\ Forget(c) /\ UNCHANGED <<managerVars, as, streamVars>>
        BY <3>3 DEF Expired
      <4>2. LockInv' /\ BoundInv' /\ ConnectedMeansOpen'
        BY <4>1
      <4>3. FreshInv'
        BY <3>1, <4>1
      <4>4. QED BY <4>2, <4>3
    <3>4. QED BY <2>9, <3>2, <3>3 DEF Retry, HandshakeFails, Answered
  <2>10. CASE \E l \in {"pause", "ended", "drop"} :
                \E s \in {status, "unsupported", "backoff", "stopped"} :
                  Leave(l, s) /\ (s # "connected" \/ pc["stream"] # "open")
    <3>1. /\ pc'["stream"] \in {"pause", "ended", "drop"}
          /\ \A v \in Users \ {"stream"} : pc'[v] = pc[v] /\ as'[v] = as[v]
      BY <2>10 DEF Leave
    <3>2. /\ \A h \in Holders \ {"stream"} : token'[h] = token[h]
          /\ UNCHANGED <<managerVars, retried>>
      BY <2>10 DEF Leave
    <3>3. status' # "connected"
      BY <2>10 DEF Leave
    <3>4. LockInv' /\ BoundInv'
      BY <3>1, <3>2
    <3>5. /\ retried' = retried /\ session' = session
          /\ \A d \in retried : d # "stream" /\ d \in Users /\ pc'[d] = pc[d]
      BY <3>1, <3>2
    <3>6. /\ token'["manager"] = token["manager"]
          /\ \A v \in Users \ {"stream"} : token'[v] = token[v]
      BY <3>2
    <3>7. \A v \in Users : pc'[v] = "minted" => v # "stream" /\ pc[v] = "minted"
      BY <3>1
    <3>8. FreshInv'
      BY <3>5, <3>6, <3>7, FreshKept
    <3>9. QED BY <3>3, <3>4, <3>8
  <2>11. CASE Stream
    <3>1. CASE Connect \/ Again
      <4>1. /\ pc["stream"] \in {"send", "pause"} /\ pc'["stream"] \in {"open", "get"}
            /\ \A v \in Users \ {"stream"} : pc'[v] = pc[v]
            /\ UNCHANGED <<managerVars, as, retried, token>>
        BY <3>1 DEF Connect, Again
      <4>2. status' # "connected"
        BY <3>1 DEF Connect, Again
      <4>3. LockInv' /\ BoundInv'
        BY <4>1
      <4>4. FreshInv'
        <5>1. \A d \in retried : d # "stream" /\ d \in Users /\ pc'[d] = pc[d]
          BY <4>1
        <5>2. \A v \in Users : pc'[v] = "minted" => pc[v] = "minted"
          BY <4>1
        <5>3. QED BY <4>1, <5>1, <5>2, FreshKept
      <4>5. QED BY <4>2, <4>3, <4>4
    <3>2. CASE ConnectFails \/ Broken \/ GiveUp \/ Closed \/ StreamExpired \/ Quit
      BY <2>10, <3>2 DEF ConnectFails, Broken, GiveUp, Closed, StreamExpired, Quit
    <3>3. QED BY <2>11, <3>1, <3>2 DEF Stream
  <2>12. CASE Ready \/ Stop \/ StopReturns
    BY <2>12 DEF Ready, Stop, StopReturns
  <2>13. CASE UNCHANGED vars
    BY <2>13 DEF vars
  <2>14. QED
    BY <2>1, <2>2, <2>3, <2>4, <2>5, <2>6, <2>7, <2>8, <2>9, <2>11, <2>12, <2>13
       DEF Next, Get, Shake
<1>3. QED BY <1>1, <1>2, TypeCorrect, PTL DEF Spec

\* rebind() "drops the cached session", also when a handshake is out: the
\* session is always the bound identity's.
THEOREM SessionFollowsIdentity ==
  ASSUME ~Async PROVE Spec => []SessionIsBound
<1>1. IInv => SessionIsBound
  BY DEF IInv, BoundInv
<1>2. QED BY <1>1, InvCorrect, PTL

\* No handshake is made while there is a session that needs no renewal.
THEOREM HandshakesShared == Spec => []HandshakeNeeded
<1>1. IInv => HandshakeNeeded
  BY DEF IInv, LockInv
<1>2. QED BY <1>1, InvCorrect, PTL

\* The token of a retry was minted after the first attempt failed.
THEOREM RetriesFresh == Spec => []RetryIsFresh
<1>1. IInv => RetryIsFresh
  BY DEF IInv, FreshInv, RetryIsFresh
<1>2. QED BY <1>1, InvCorrect, PTL

\* The stream is reported as connected only while a connection is open.
THEOREM ConnectedIsOpen == Spec => []ConnectedMeansOpen
<1>1. IInv => ConnectedMeansOpen
  BY DEF IInv
<1>2. QED BY <1>1, InvCorrect, PTL
=============================================================================
