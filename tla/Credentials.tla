---------------------------- MODULE Credentials ----------------------------
(***************************************************************************)
(* The two files that keep an agent's identity (identity.py), the calls    *)
(* that write them (register() and rotate_key() of governor.py) and the    *)
(* configuration that is loaded from them and from the environment         *)
(* (config.py): agents and commands of the command line, one operating     *)
(* system process each, that share one agent name.  Names that             *)
(* _safe_filename() maps to the same files are one name here.              *)
(*                                                                         *)
(* A process may end, or be killed, between any two steps; the files and   *)
(* Gateway's register of identities survive it.  Each of the two files is  *)
(* replaced atomically.  Gateway returns a private key once, in the        *)
(* response to the call that made it, and the response may be lost.        *)
(***************************************************************************)
EXTENDS Naturals

CONSTANTS Procs,         \* processes of one agent name
          MaxIds,        \* bound: identities Gateway registers
          MaxKeys,       \* bound: keys Gateway makes for one identity
          MaxRetries,    \* RetryPolicy.max_retries
          Environments   \* what the environment variables may hold:
                         \* "none", a "full" identity, or a private "key" only

ASSUME CredentialsAssumption ==
  /\ MaxIds \in Nat \ {0} /\ MaxKeys \in Nat \ {0} /\ MaxRetries \in Nat
  /\ Environments \subseteq {"none", "full", "key"}

Ids == 1..MaxIds
Keys == [of : Ids, gen : 1..MaxKeys]
NoId == 0
NoKey == [of |-> NoId, gen |-> 0]
Nobody == [id |-> NoId, key |-> NoKey]
EnvIdentity == [id |-> 1, key |-> [of |-> 1, gen |-> 1]]

VARIABLES
  keyFile,    \* the private key in the .pem file
  metaFile,   \* the identity in the .json file
  made,       \* keys Gateway has made for each identity
  pc,         \* where each process is
  bound,      \* the identity its governor acts for, and the key
  persisted,  \* Governor._persisted
  call,       \* its call: register() or rotate_key(), and how
  attempt,    \* retries of the call's request so far
  minted,     \* history: whether Gateway has made a key for the call
  returned,   \* history: the last key Gateway has returned to the process
  foreign,    \* history: its identity was neither loaded from the files nor saved
  fresh,      \* history: it has read, checked or written the files with no
              \* other save under way, and no other process has written since
  torn        \* history: the last save was cut short, or crossed by another

disk == <<keyFile, metaFile, torn>>
memory == <<bound, persisted, foreign>>
request == <<call, attempt, minted>>
vars == <<disk, made, pc, memory, request, returned, fresh>>

Calls == [op : {"register", "rotate"}, persist : BOOLEAN, overwrite : BOOLEAN]
NoCall == [op |-> "rotate", persist |-> FALSE, overwrite |-> FALSE]

TypeOK ==
  /\ keyFile \in Keys \cup {NoKey} /\ metaFile \in Ids \cup {NoId}
  /\ made \in [Ids -> 0..MaxKeys]
  /\ pc \in [Procs -> {"off", "loading", "idle", "posting", "key", "meta"}]
  /\ bound \in [Procs -> [id : Ids \cup {NoId}, key : Keys \cup {NoKey}]]
  /\ persisted \in [Procs -> BOOLEAN] /\ foreign \in [Procs -> BOOLEAN]
  /\ call \in [Procs -> Calls] /\ attempt \in [Procs -> 0..MaxRetries]
  /\ minted \in [Procs -> BOOLEAN] /\ returned \in [Procs -> Keys \cup {NoKey}]
  /\ fresh \in [Procs -> BOOLEAN] /\ torn \in BOOLEAN

\* Identity 1 was registered elsewhere; its files may have been copied here.
Init ==
  /\ \/ keyFile = NoKey /\ metaFile = NoId
     \/ keyFile = EnvIdentity.key /\ metaFile = EnvIdentity.id
  /\ torn = FALSE
  /\ made = [i \in Ids |-> IF i = EnvIdentity.id THEN 1 ELSE 0]
  /\ pc = [p \in Procs |-> "off"]
  /\ bound = [p \in Procs |-> Nobody]
  /\ persisted = [p \in Procs |-> FALSE] /\ foreign = persisted /\ fresh = persisted
  /\ minted = persisted
  /\ call = [p \in Procs |-> NoCall]
  /\ attempt = [p \in Procs |-> 0]
  /\ returned = [p \in Procs |-> NoKey]

Goto(p, l) == pc' = [pc EXCEPT ![p] = l]

\* p's call is over.
Forget(p) ==
  /\ call' = [call EXCEPT ![p] = NoCall]
  /\ attempt' = [attempt EXCEPT ![p] = 0]
  /\ minted' = [minted EXCEPT ![p] = FALSE]

\* p looks at the files.
Knows(p) == fresh' = [fresh EXCEPT ![p] = \A q \in Procs : pc[q] # "meta"]

\* p has written a file: what the others knew of the files is out of date.
Wrote(p) == fresh' = [q \in Procs |-> q = p]

-----------------------------------------------------------------------------
(* Loading the configuration: GatewayConfig.load(), Governor.__init__() *)

\* load_credentials() needs both files.  The metadata is read first ...
LoadMeta(p) ==
  /\ pc[p] = "off"
  /\ LET id == IF keyFile = NoKey THEN NoId ELSE metaFile
     IN  bound' = [bound EXCEPT ![p] = [id |-> id, key |-> NoKey]]
  /\ Goto(p, "loading")
  /\ Knows(p)
  /\ UNCHANGED <<disk, made, persisted, foreign, request, returned>>

\* ... then the key.  Each variable of the environment overrides the file's,
\* and a governor is bound only if nothing is missing (has_identity()).
Start(p, env) ==
  LET loaded == [id |-> IF env = "full" THEN EnvIdentity.id ELSE bound[p].id,
                 key |-> IF env # "none" THEN EnvIdentity.key ELSE keyFile]
  IN  /\ pc[p] = "loading"
      /\ bound' = [bound EXCEPT ![p] = IF loaded.id = NoId THEN Nobody ELSE loaded]
      /\ foreign' = [foreign EXCEPT ![p] = env = "full"]
      /\ Goto(p, "idle")
      /\ UNCHANGED <<disk, made, persisted, request, returned, fresh>>

\* The process ends, by itself or not: what it had in memory is gone.
End(p) ==
  /\ pc[p] # "off"
  /\ Goto(p, "off")
  /\ bound' = [bound EXCEPT ![p] = Nobody]
  /\ persisted' = [persisted EXCEPT ![p] = FALSE]
  /\ foreign' = [foreign EXCEPT ![p] = FALSE]
  /\ Forget(p)
  /\ returned' = [returned EXCEPT ![p] = NoKey]
  /\ fresh' = [fresh EXCEPT ![p] = FALSE]
  /\ torn' = (torn \/ pc[p] = "meta")
  /\ UNCHANGED <<keyFile, metaFile, made>>

-----------------------------------------------------------------------------
(* register() and rotate_key(): the request *)

Ask(p, c) ==
  /\ call' = [call EXCEPT ![p] = c]
  /\ Goto(p, "posting")
  /\ UNCHANGED <<disk, made, memory, attempt, minted, returned>>

\* Slip: only the metadata file is looked for.
MetaExists == metaFile # NoId

\* _refuse_to_overwrite(), before the request.
CredentialsExist == metaFile # NoId \/ keyFile # NoKey

Register(p, persist, overwrite) ==
  /\ pc[p] = "idle"
  /\ persist /\ ~overwrite => ~CredentialsExist
  /\ Ask(p, [op |-> "register", persist |-> persist, overwrite |-> overwrite])
  /\ IF persist /\ ~overwrite THEN Knows(p) ELSE UNCHANGED fresh

Rotate(p) ==
  /\ pc[p] = "idle" /\ bound[p].id # NoId
  /\ Ask(p, [op |-> "rotate", persist |-> FALSE, overwrite |-> FALSE])
  /\ UNCHANGED fresh

\* Slip: every failure that a retry may cure is retried.
RetriedAny(answer, idempotent, n) ==
  n < MaxRetries /\ answer \in {"limited", "failed", "dropped"}

\* Slip: the attempts are counted from one too few.
RetriedOnceMore(answer, idempotent, n) ==
  /\ n <= MaxRetries
  /\ answer = "limited" \/ (idempotent /\ answer \in {"failed", "dropped"})

\* GatewayHTTP.request(): a 429 is always retried, for it was answered instead
\* of the call; a 5xx or a transport error only if the call is idempotent.
Retried(answer, idempotent, n) ==
  /\ n < MaxRetries
  /\ answer = "limited" \/ (idempotent /\ answer \in {"failed", "dropped"})

\* The key Gateway makes for p's call: of a new identity, or a next one.
NextKey(p) ==
  IF call[p].op = "rotate"
  THEN [of |-> bound[p].id, gen |-> made[bound[p].id] + 1]
  ELSE [of |-> CHOOSE i \in Ids : made[i] = 0, gen |-> 1]

CanMake(p) ==
  IF call[p].op = "rotate" THEN made[bound[p].id] < MaxKeys
                           ELSE \E i \in Ids : made[i] = 0

Make(p) ==
  /\ CanMake(p)
  /\ made' = [made EXCEPT ![NextKey(p).of] = NextKey(p).gen]

\* No key comes back: too many requests, refused, failed, or no answer at all.
\* The last two leave open whether Gateway has done as asked.
Unanswered(p, answer) ==
  /\ pc[p] = "posting"
  /\ \/ UNCHANGED made
     \/ answer \in {"failed", "dropped"} /\ Make(p)
  /\ IF Retried(answer, FALSE, attempt[p])
     THEN /\ attempt' = [attempt EXCEPT ![p] = @ + 1]
          /\ minted' = [minted EXCEPT ![p] = @ \/ made' # made]
          /\ UNCHANGED <<pc, call>>
     ELSE Goto(p, "idle") /\ Forget(p)
  /\ UNCHANGED <<disk, memory, returned, fresh>>

-----------------------------------------------------------------------------
(* register() and rotate_key(): the key that came back *)

\* _persist_rotated() saves wherever this process has saved before, or where
\* there is a metadata file; whose it is, is not looked at.
Saves(p) == IF call[p].op = "register" THEN call[p].persist
                                       ELSE persisted[p] \/ metaFile # NoId

\* Slip: the key is bound once it has been saved.
BindLater(p, key) ==
  IF Saves(p) THEN UNCHANGED bound
              ELSE bound' = [bound EXCEPT ![p] = [id |-> key.of, key |-> key]]

\* _bind_identity(): before the key is saved.
Bind(p, key) == bound' = [bound EXCEPT ![p] = [id |-> key.of, key |-> key]]

Answered(p) ==
  /\ pc[p] = "posting"
  /\ Make(p)
  /\ Bind(p, NextKey(p))
  /\ returned' = [returned EXCEPT ![p] = NextKey(p)]
  /\ foreign' = [foreign EXCEPT ![p] = @ \/ call[p].op = "register"]
  /\ IF Saves(p) THEN Goto(p, "key") /\ UNCHANGED request
                 ELSE Goto(p, "idle") /\ Forget(p)
  /\ UNCHANGED <<disk, persisted, fresh>>

\* Slip: an existing key file is not replaced.
SaveKeyOnce(p) ==
  /\ pc[p] = "key"
  /\ keyFile' = IF keyFile = NoKey THEN returned[p] ELSE keyFile
  /\ Goto(p, "meta")
  /\ Wrote(p)
  /\ UNCHANGED <<metaFile, torn, made, memory, request, returned>>

\* save_credentials(): the key ...
SaveKey(p) ==
  /\ pc[p] = "key"
  /\ keyFile' = returned[p]
  /\ Goto(p, "meta")
  /\ Wrote(p)
  /\ UNCHANGED <<metaFile, torn, made, memory, request, returned>>

\* ... then the metadata.
SaveMeta(p) ==
  /\ pc[p] = "meta"
  /\ metaFile' = returned[p].of
  /\ torn' = ~fresh[p]
  /\ persisted' = [persisted EXCEPT ![p] = TRUE]
  /\ foreign' = [foreign EXCEPT ![p] = FALSE]
  /\ Goto(p, "idle") /\ Forget(p)
  /\ Wrote(p)
  /\ UNCHANGED <<keyFile, made, bound, returned>>

\* An OSError from either write: the file is left as it was, and the error
\* (_save_or_explain()) says that the key is in memory.
SaveFails(p) ==
  /\ pc[p] \in {"key", "meta"}
  /\ Goto(p, "idle") /\ Forget(p)
  /\ torn' = (torn \/ pc[p] = "meta")
  /\ UNCHANGED <<keyFile, metaFile, made, memory, returned, fresh>>

-----------------------------------------------------------------------------
Next ==
  \E p \in Procs :
    \/ LoadMeta(p) \/ End(p)
    \/ \E env \in Environments : Start(p, env)
    \/ \E persist, overwrite \in BOOLEAN : Register(p, persist, overwrite)
    \/ Rotate(p)
    \/ \E answer \in {"limited", "refused", "failed", "dropped"} : Unanswered(p, answer)
    \/ Answered(p) \/ SaveKey(p) \/ SaveMeta(p) \/ SaveFails(p)

Spec == Init /\ [][Next]_vars

-----------------------------------------------------------------------------
(* What makes the component correct *)

\* register() and rotate_key() are not idempotent ("calling this twice creates
\* two identities"): once Gateway has made a key for a call, whether or not the
\* answer has arrived, no attempt of that call is sent any more.
OneKeyPerCall == \A p \in Procs : pc[p] = "posting" => ~minted[p]

\* "The key exists exactly once, so it must be held in memory even if the disk
\* write fails": from the response on, whatever fails, for as long as it lives.
KeyHeld ==
  \A p \in Procs : returned[p] # NoKey => bound[p].key = returned[p]

\* load_credentials() pairs whatever the two files hold.  They belong together
\* while no save is under way, unless the last one was cut short by a crash or
\* a failed write, or crossed by another process's.
PairMatches ==
  metaFile # NoId /\ keyFile # NoKey /\ keyFile.of # metaFile
    => torn \/ \E p \in Procs : pc[p] = "meta"

\* A saved key, its metadata written or not, gives way to another identity's
\* only where the caller of register() asked for that, where a rotated identity
\* never came from the files or an earlier save was cut short, or where another
\* process has written since this one looked.
KeysReplacedKnowingly ==
  [][\A p \in Procs :
       SaveKey(p) /\ keyFile # NoKey /\ keyFile.of # returned[p].of
         => \/ ~fresh[p]
            \/ call[p].op = "register" /\ call[p].overwrite
            \/ call[p].op = "rotate" /\ (foreign[p] \/ torn)]_vars
=============================================================================
