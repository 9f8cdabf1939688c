------------------------------ MODULE Sessions ------------------------------
(***************************************************************************)
(* The session with Gateway (SessionManager of session.py) and those who   *)
(* share it: calls that are retried once after a session_expired           *)
(* (call_with_retry(), and the LLM clients' SessionRetryTransport), the    *)
(* connection loop of the control stream, and the binding of a new         *)
(* identity or key (Governor._bind_identity).                              *)
(*                                                                         *)
(* The manager's lock is held for the whole of a handshake.  Of a session  *)
(* token only what the properties tell apart is kept: the identity it was  *)
(* issued to, and which calls had already failed once when it was minted.  *)
(* Gateway may answer session_expired to any token: it answers so to       *)
(* unknown and evicted ones, and to all of them when its Redis is down.    *)
(***************************************************************************)

CONSTANTS Callers,     \* threads that call Gateway through the session
          Identities,  \* identities the agent may be bound to
          Async        \* whether the manager is the AsyncSessionManager

NoOne == "no one"
ASSUME SessionsAssumption ==
  /\ {"stream", "manager"} \cap Callers = {}
  /\ NoOne \notin Identities
  /\ Async \in BOOLEAN

VARIABLES
  session,   \* the manager's session: none, good, or past its renewal fraction
  issuedTo,  \* the identity it was issued to
  token,     \* history: of each user's token, and of the manager's,
             \* the calls that had failed once when it was minted
  identity,  \* the identity the manager acts for
  signer,    \* whose key the signer has, and whether it is the current one
  binder,    \* where a bind is, and to which identity
  pc,        \* where each user of the session is
  as,        \* the identity its handshake is for
  retried,   \* the calls in their second attempt
  status,    \* _Policy.status
  stop       \* whether the stream's stop() was called, and has returned

managerVars == <<session, issuedTo, identity>>
bindVars == <<signer, binder>>
callVars == <<pc, as, retried, token>>
streamVars == <<status, stop>>
vars == <<managerVars, bindVars, callVars, streamVars>>

Users == Callers \cup {"stream"}
Holders == Users \cup {"manager"}
Bind(at, to) == [at |-> at, to |-> to]

\* Somebody holds the manager's lock.
Locked == \E u \in Users : pc[u] \in {"shake", "minted"}

\* The stream's _stop event is set.
Asked == stop # "no"

TypeOK ==
  /\ session \in {"none", "good", "aged"}
  /\ issuedTo \in Identities \cup {NoOne} /\ identity \in Identities
  /\ session = "none" <=> issuedTo = NoOne
  /\ token \in [Holders -> SUBSET Callers]
  /\ signer \in [of : Identities, live : BOOLEAN]
  /\ binder \in [at : {"idle", "reply", "rekeyed"}, to : Identities]
  /\ pc \in [Users -> {"idle", "get", "shake", "minted", "send", "drop",
                       "open", "pause", "ended"}]
  /\ \A c \in Callers : pc[c] \notin {"open", "pause", "ended"}
  /\ as \in [Users -> Identities \cup {NoOne}]
  /\ \A u \in Users : as[u] # NoOne <=> pc[u] \in {"shake", "minted"}
  /\ retried \subseteq Callers
  /\ status \in {"connecting", "connected", "backoff", "unsupported", "stopped"}
  /\ stop \in {"no", "joining", "done"}

Init ==
  /\ session = "none" /\ issuedTo = NoOne
  /\ token = [h \in Holders |-> {}]
  /\ identity \in Identities
  /\ signer = [of |-> identity, live |-> TRUE]
  /\ binder = Bind("idle", identity)
  /\ pc = [u \in Users |-> IF u = "stream" THEN "get" ELSE "idle"]
  /\ as = [u \in Users |-> NoOne]
  /\ retried = {}
  /\ status = "connecting" /\ stop = "no"

Goto(u, l) == pc' = [pc EXCEPT ![u] = l]
Take(h, calls) == token' = [token EXCEPT ![h] = calls]

\* Slip: the token is dropped, and what else is kept of the session is not.
DropToken == session' = "none" /\ Take("manager", {}) /\ UNCHANGED issuedTo

\* The manager's session is dropped.
Drop == session' = "none" /\ issuedTo' = NoOne /\ Take("manager", {})

-----------------------------------------------------------------------------
(* Time, and a new identity or key: register() again, rotate_key() *)

Age ==
  /\ session = "good"
  /\ session' = "aged"
  /\ UNCHANGED <<issuedTo, identity, bindVars, callVars, streamVars>>

\* Gateway replaces the key of the identity at once ...
Rotate ==
  /\ binder.at = "idle"
  /\ binder' = Bind("reply", identity)
  /\ signer' = [of |-> signer.of, live |-> FALSE]
  /\ UNCHANGED <<managerVars, callVars, streamVars>>

Register ==
  /\ binder.at = "idle"
  /\ \E i \in Identities \ {identity} : binder' = Bind("reply", i)
  /\ UNCHANGED <<managerVars, signer, callVars, streamVars>>

\* ... whether or not the answer arrives (another process may have asked).
ReplyLost ==
  /\ binder.at = "reply"
  /\ binder' = Bind("idle", identity)
  /\ UNCHANGED <<managerVars, signer, callVars, streamVars>>

\* _bind_identity(): the signer first, under no lock (a signature made between
\* the writes of its fields is refused like one with the wrong key) ...
Rekey ==
  /\ binder.at = "reply"
  /\ signer' = [of |-> binder.to, live |-> TRUE]
  /\ binder' = Bind("rekeyed", binder.to)
  /\ UNCHANGED <<managerVars, callVars, streamVars>>

\* Slip: the session is rebound while a handshake is out, as the asynchronous
\* manager does.
RebindUnlocked ==
  /\ binder.at = "rekeyed"
  /\ identity' = binder.to /\ Drop
  /\ binder' = Bind("idle", binder.to)
  /\ UNCHANGED <<signer, pc, as, retried, streamVars>>

\* ... then the session.  The asynchronous manager takes no lock for it.
Rebind ==
  /\ binder.at = "rekeyed" /\ (Async \/ ~Locked)
  /\ identity' = binder.to /\ Drop
  /\ binder' = Bind("idle", binder.to)
  /\ UNCHANGED <<signer, pc, as, retried, streamVars>>

-----------------------------------------------------------------------------
(* get_token() *)

UseCached(u) ==
  /\ pc[u] = "get" /\ ~Locked
  /\ session = "good"
  /\ Take(u, token["manager"]) /\ Goto(u, "send")
  /\ UNCHANGED <<managerVars, bindVars, as, retried, streamVars>>

\* Slip: the lock is not held for the handshake.
StartAnyway(u) ==
  /\ pc[u] = "get"
  /\ session # "good"
  /\ as' = [as EXCEPT ![u] = identity]
  /\ Goto(u, "shake")
  /\ UNCHANGED <<managerVars, bindVars, token, retried, streamVars>>

StartHandshake(u) ==
  /\ pc[u] = "get" /\ ~Locked
  /\ session # "good"
  /\ as' = [as EXCEPT ![u] = identity]
  /\ Goto(u, "shake")
  /\ UNCHANGED <<managerVars, bindVars, token, retried, streamVars>>

\* Gateway accepts the signature, unless its key was replaced; one made before
\* the signer went over to another identity is still good.
Minted(u) ==
  /\ pc[u] = "shake"
  /\ signer.of = as[u] => signer.live
  /\ Take(u, retried) /\ Goto(u, "minted")
  /\ UNCHANGED <<managerVars, bindVars, as, retried, streamVars>>

Store(u) ==
  /\ pc[u] = "minted"
  /\ session' = "good" /\ issuedTo' = as[u]
  /\ Take("manager", token[u]) /\ Goto(u, "send")
  /\ as' = [as EXCEPT ![u] = NoOne]
  /\ UNCHANGED <<identity, bindVars, retried, streamVars>>

-----------------------------------------------------------------------------
(* call_with_retry() and SessionRetryTransport *)

Call(c) ==
  /\ pc[c] = "idle"
  /\ Goto(c, "get")
  /\ UNCHANGED <<managerVars, bindVars, as, retried, token, streamVars>>

\* Nobody's token is newer than a first attempt of c that is yet to fail.
Forget(c) == token' = [h \in Holders |-> IF h = c THEN {} ELSE token[h] \ {c}]

\* The call ends, with an answer or an error.
End(c) ==
  /\ Goto(c, "idle") /\ Forget(c)
  /\ as' = [as EXCEPT ![c] = NoOne]
  /\ retried' = retried \ {c}
  /\ UNCHANGED <<managerVars, bindVars, streamVars>>

\* A handshake is refused, lost, or answered out of form.
HandshakeFails(c) == pc[c] \in {"shake", "minted"} /\ End(c)

\* An answer other than session_expired, or none; or session_expired again.
Answered(c) == pc[c] = "send" /\ End(c)

\* Slip: a retry is retried like a first attempt.
ExpiredEachTime(c) ==
  /\ pc[c] = "send"
  /\ Goto(c, "drop") /\ Forget(c)
  /\ retried' = retried \cup {c}
  /\ UNCHANGED <<managerVars, bindVars, as, streamVars>>

\* session_expired for the first time.
Expired(c) ==
  /\ pc[c] = "send" /\ c \notin retried
  /\ Goto(c, "drop") /\ Forget(c)
  /\ retried' = retried \cup {c}
  /\ UNCHANGED <<managerVars, bindVars, as, streamVars>>

\* Slip: the retry starts with whatever session is cached.
InvalidateNothing(u) ==
  /\ pc[u] = "drop" /\ ~Locked
  /\ Goto(u, IF u = "stream" THEN "pause" ELSE "get")
  /\ UNCHANGED <<managerVars, bindVars, as, retried, token, streamVars>>

\* invalidate()
Invalidate(u) ==
  /\ pc[u] = "drop" /\ ~Locked
  /\ Drop
  /\ Goto(u, IF u = "stream" THEN "pause" ELSE "get")
  /\ UNCHANGED <<identity, bindVars, as, retried, streamVars>>

-----------------------------------------------------------------------------
(* The control stream's loop: ControlStreamConsumer._run() *)

\* The reader leaves the iteration, with the given status.
Leave(l, s) ==
  /\ Goto("stream", l) /\ Take("stream", {})
  /\ as' = [as EXCEPT !["stream"] = NoOne]
  /\ status' = s
  /\ UNCHANGED <<managerVars, bindVars, retried, stop>>

\* after_error(): while connecting, a refusal for now or for long, a missing
\* route, or a rate limit, which leaves the status alone.
ConnectFails ==
  /\ pc["stream"] \in {"shake", "minted", "send"} /\ ~Asked
  /\ \E s \in {status, "unsupported", "backoff"} : Leave("pause", s)

Broken == pc["stream"] = "open" /\ ~Asked /\ Leave("pause", "backoff")

\* Once stop() was called there is no next attempt.
GiveUp == pc["stream"] \in {"shake", "minted", "send", "open"} /\ Asked /\ Leave("ended", "stopped")

Connect ==
  /\ pc["stream"] = "send"
  /\ Goto("stream", "open") /\ status' = "connecting"
  /\ UNCHANGED <<managerVars, bindVars, as, retried, token, stop>>

Ready ==
  /\ pc["stream"] = "open" /\ ~Asked /\ status = "connecting"
  /\ status' = "connected"
  /\ UNCHANGED <<managerVars, bindVars, callVars, stop>>

\* Slip: the status of a stream that was closed is left as it was.
ClosedQuietly == pc["stream"] = "open" /\ Leave("pause", status)

\* after_close(): Gateway closes the stream, or the reader sees the stop.
Closed == pc["stream"] = "open" /\ Leave("pause", "backoff")

StreamExpired == pc["stream"] = "send" /\ Leave("drop", status)

Again ==
  /\ pc["stream"] = "pause" /\ ~Asked
  /\ Goto("stream", "get")
  /\ UNCHANGED <<managerVars, bindVars, as, retried, token, streamVars>>

\* Slip: stop() only ends a wait.
QuitWhenIdle == pc["stream"] = "pause" /\ stop = "joining" /\ Leave("ended", "stopped")

Quit == pc["stream"] = "pause" /\ Asked /\ Leave("ended", "stopped")

\* stop() sets the event, shuts the connection down and joins the reader, for
\* two seconds at most.
Stop ==
  /\ stop = "no"
  /\ stop' = "joining"
  /\ UNCHANGED <<managerVars, bindVars, callVars, status>>

StopReturns ==
  /\ stop = "joining"
  /\ stop' = "done" /\ status' = "stopped"
  /\ UNCHANGED <<managerVars, bindVars, callVars>>

-----------------------------------------------------------------------------
Binding == Rotate \/ Register \/ ReplyLost \/ Rekey \/ Rebind
Get(u) == UseCached(u) \/ StartHandshake(u)
Shake(u) == Minted(u) \/ Store(u)
Retry(c) == HandshakeFails(c) \/ Answered(c) \/ Expired(c)
Stream == \/ ConnectFails \/ Broken \/ GiveUp \/ Connect
          \/ Closed \/ StreamExpired \/ Again \/ Quit

Next ==
  \/ Binding
  \/ /\ Async => binder.at # "rekeyed"    \* no await in _bind_identity()
     /\ \/ Age \/ Stream \/ Ready \/ Stop \/ StopReturns
        \/ \E u \in Users : Get(u) \/ Shake(u) \/ Invalidate(u)
        \/ \E c \in Callers : Call(c) \/ Retry(c)

Spec == Init /\ [][Next]_vars

\* Requests and handshakes end (the HTTP client's timeouts see to it), threads
\* run on, and a lock wanted again and again is obtained in the end.  An open
\* stream may stay open until stop() closes it.
FairSpec ==
  /\ Spec
  /\ \A u \in Users : SF_vars(Get(u) \/ Invalidate(u))
  /\ \A c \in Callers : WF_vars(Shake(c) \/ Retry(c))
  /\ WF_vars((pc["stream"] = "open" => Asked) /\ (Shake("stream") \/ Stream))

-----------------------------------------------------------------------------
(* What makes the component correct *)

\* "Adopts a rotated identity in place and drops the cached session" (rebind):
\* the cached session was issued to the identity the manager acts for, also
\* when a handshake for the previous one was out.
SessionIsBound == session # "none" => issuedTo = identity

\* Users who find the session missing or aged at the same time share one
\* handshake: none is made while there is a session that needs no renewal.
HandshakeNeeded == Locked => session # "good"

\* "Catching exactly one SessionExpired and retrying once after a fresh
\* handshake": the token of the retry was minted after the first attempt
\* failed, whoever else renews or drops the session meanwhile.
RetryIsFresh == \A c \in retried : pc[c] = "send" => c \in token[c]

\* The stream is reported as connected only while a connection is open,
\* however the last one ended.
ConnectedMeansOpen == status = "connected" => pc["stream"] = "open"

\* Every call comes to an end: no failed handshake leaves the lock behind.
CallsEnd == \A c \in Callers : pc[c] # "idle" ~> pc[c] = "idle"

\* The stream's reader ends after stop(), wherever it was then.
ReaderEnds == Asked ~> pc["stream"] = "ended"
=============================================================================
