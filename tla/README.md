# A TLA+ model of matimo-agdk

matimo-agdk is the Python SDK an AI agent embeds to be governed by Gateway: it
asks Gateway before each tool call, reports what the agent did, and obeys a
suspension or an emergency stop.  Nearly everything in it runs concurrently
with something else (user threads or asyncio tasks, the telemetry exporter's
loop, the control stream's reader) and has to go on when Gateway is slow,
refuses, disappears or comes back.  These modules model that behaviour, the
configurations check it with TLC on small instances, and `ToolChecks_proofs`,
`RapidSuspend_proofs`, `TelemetryQueue_proofs`, `Sessions_proofs`,
`Credentials_proofs`, `GatewayModel_proofs` and `Frameworks_proofs` prove the
safety part of it for every instance with TLAPS.

## 1. Inventory

| component | source | state | operations | module |
|---|---|---|---|---|
| Circuit breaker | `_outage.py` 61-137 | failures, opened-at, probing, a lock | `acquire`, `record_success`, `record_failure`, `release_probe` | CircuitBreaker |
| Outage guard | `_outage.py` 140-271 | the breaker, last contact, bounded table of last decisions | `before_call`, `transport_failed`, `reachable`, `aborted`, `record_decision`, `record_contact`, `degrade` | ToolChecks |
| Tool checks | `tools.py` | none of its own; per call: rechecks left, resume token | `check_and_wait`, `check`, `status`, `await_decision`, `report_result` | ToolChecks, GovernedCall |
| Governance state | `telemetry.py` 74-162 | lifecycle status, emergency stop, heartbeat clock | `update_from_heartbeat`, `tighten_from_hint`, `is_suspended` | RapidSuspend, ToolChecks |
| Telemetry exporter | `telemetry.py` 330-856 | queue, stored error, dropped count, wake and refresh events, notified flag | `submit`, `flush_now`, `stop`, `request_refresh`, `set_on_suspend`, `apply_control_hint`, the loop | TelemetryQueue (events), RapidSuspend (heartbeat) |
| Control stream | `control_stream.py` | connection status, back-off attempt | frame handler; connection loop | RapidSuspend (frames), Sessions (connection) |
| Runs and guarded calls | `governor.py` 55-115, 505-693 | context variable, stored telemetry error | `run`, `guard` | GuardedRun, Frameworks |
| Governor lifecycle | `governor.py` 228-456 | started, identity, the components above | `start`, `stop`, `register`, `rotate_key`, `_bind_identity` | ToolChecks (restart), Sessions (binding), Credentials (files) |
| Sessions | `session.py` | token and its age, identity, a lock | `get_token`, `invalidate`, `rebind`, `call_with_retry` | Sessions |
| Transports | `transport.py`, `_retry_transport*.py` | none | retry classes, one re-handshake | Credentials (what is retried), Sessions (the re-handshake) |
| Credentials | `identity.py` | two files, the signer's key | `save_credentials`, `load_credentials`, `rekey` | Credentials |
| LangChain adapter | `adapters/langchain.py` | run tree, owned runs, tool calls under way and reported, a context marker | handler callbacks, `govern_tools()` wrappers | LangChainSpans |
| Google ADK plugin | `adapters/google_adk.py` | pending model and tool calls, previous and open runs | the plugin's callbacks | AdkPlugin |
| ADK's model through Gateway | `adapters/_adk_openai.py` | what a stream has brought so far | conversation to messages, answer to response | GatewayModel |
| Generic, AutoGen, CrewAI | `adapters/_shared.py`, `generic.py`, `autogen.py`, `crewai.py` | none of their own | wrapped tools, clients, requests | WrappedTools |
| Config, CLI | `config.py`, `cli.py` | none | `load`, `has_identity`; `register`, `rotate-key` | Credentials |
| Errors, redaction, compatibility | `exceptions.py`, `_redact.py`, `_compat.py` | none | mapping of data | not modelled |
| Gateway | external | identity, decisions | answers, failures, heartbeats, frames | the environment of every module |

How they interact:

- `guard()` wraps a tool: it opens a run if there is none, raises a stored
  telemetry error, calls `check_and_wait()`, runs the tool and submits a span.
- `check_and_wait()` passes the breaker, sends the request and, if Gateway is
  unreachable, asks `degrade()`, which reads the governance state and the
  table of decisions.
- The exporter's loop sends queued events; the response carries the heartbeat
  that updates the governance state, and may fire `on_suspend`.
- The control stream's frames tighten the same state at once and ask the loop
  for a confirming heartbeat.
- `stop()` and `start()` replace the exporter with its state, but not the
  outage guard.
- Model calls, telemetry batches and the control stream carry a token of the one
  session manager; who finds it missing, aged or refused makes a handshake.
  `register()` and `rotate_key()` rebind signer and manager under them, and save
  what they bound in two files that other processes of the agent load.
- An agent's framework calls the adapters back, which check tools, open runs and
  submit spans as `guard()` does, but swallow the stored telemetry error.

Every component has a synchronous (threads and locks) and an asynchronous
version (tasks; a switch only at an `await`).  They take the same steps in the
same order.  The modules model the threads, whose interleavings include those
of the tasks; where the two differ in what they do, both are alternatives: of
`rebind()` (`Async` of Sessions), of a nested LangChain call (`setup`), and of an
exporter's `stop()` whose join times out (`kind` of TelemetryQueue).

What is hard here, and what makes each component correct:

- *Breaker.* Requests that left before the circuit opened report while a probe
  is out.  The circuit must be open exactly on a streak of failures, must never
  be wedged by a lost probe flag, and must close again.
- *Tool checks.* Failing open is allowed on clean and fresh knowledge only,
  which is read in three steps while others write it.  A call must never be
  granted on anything but an ALLOW.
- *Rapid suspend.* A push, a stale answer and a registration interleave on a
  state written field by field.  No refresh may be lost, the callback must run
  exactly once, and polling must win in the end.
- *Event queue.* Evictions, drains and requeues interleave event by event.
  Nothing may vanish uncounted, `stop()` must send the rest unless it runs out of
  time, and no event may starve.
- *Guarded calls.* A telemetry error may strike between any two steps of a
  call.  It must not replace the outcome of a tool that has run, and one error
  must not cost its span.
- *Sessions.* A handshake, an invalidation and a new identity interleave on one
  cached session.  It must be the bound identity's, be shared, and be fresh for
  a retry; no failed handshake may leave the lock behind.
- *Stream connection.* It ends in many ways.  The status must follow, and the
  reader must end after `stop()` from wherever it is.
- *Credentials.* A private key is returned once; the request must not be
  repeated, the key must survive a failed write, and no other identity's files
  may be replaced unknowingly, whatever crashes or runs beside it.
- *Adapters.* Callbacks of concurrent, nested and cancelled calls meet in tables.
  Each call must be reported once and under its own run, whoever reports it, and
  no run may stay open or bound; an error that is swallowed must cost one event
  only.
- *ADK's model.* Interrupted tools leave calls without results, and streams bring
  fragments in any order.  What is sent must be acceptable to a backend, what is
  delivered must be what was meant.

The `hazards` list of `PROJECT.json` names each of these at its line.

## 2. The modules

**CircuitBreaker** has the breaker as operators on a record; each method holds
the lock for its whole body, so each is atomic.  The failure count saturates at
the threshold and the age of the opening at the cooldown: the code compares
both only with `>=`.

**GovernedCall** is the abstract promise of a tool check: a caller leaves
`granted` only on a rendered ALLOW, `degraded` only if no verdict was rendered
and the agent fails open, `denied` only after a verdict that was not ALLOW,
`failed` only without a final verdict.

**ToolChecks** is `check_and_wait()` on the outage guard.  `pc[c]` says where a
caller is: `gate` (before the breaker), `inflight`, `record` (after
`reachable()`, before `record_decision()`), `recheck`, `polling`, `contact`, the
three reads of `degrade()`, and the four ways out.  Every place where the code
releases a lock, sends or waits is a boundary between steps.  `Heartbeat`,
`Hint`, `Restart` and `Tick` are the rest of the process and the clock;
`TornHeartbeat` is the moment between the two writes of a heartbeat that moves
an agent from `suspended` to emergency-stopped, where another thread reads
neither (tasks cannot).  `since[t]`, the set of tools recorded since `t` was,
gives the order of the `OrderedDict`.  The transport's own retries are part of a
request, whose outcome after them is one step.  The history variables `streak`,
`seen`, `told` and `tainted` record what really happened, to compare what the
code remembers with; no guard reads them.

**RapidSuspend** is the heartbeat half of the exporter with the frame handler.
The threads are `loop`, `stream` and user threads in `flush_now()` or
`set_on_suspend()`.  `WriteLifecycle` and `WriteStop` are the two writes of
`update_from_heartbeat()`, which takes no lock; `Receive` and `Tighten` are the
comparison and the write of `tighten_from_hint()` under the state lock, and a
heartbeat, which takes no lock, may land in between (`overtaken`).  `Severity` is
the table both compare by.  `TakeLock` and `Notify` are
`_maybe_notify_suspend()`.  `Serve` is Gateway reading the identity, so an
answer can be stale by the time it is used.  A frame may be any frame: current,
late or replayed.  The jitter of a tenant-wide event only delays the poll.

**TelemetryQueue** is the events half: `Submit`, `Evict` and `Retry` are the
three queue operations of `submit()`; `DrainOne`, `Send`, `Acknowledged`,
`Refused`, `Failed`, `Requeue` are a flush by the loop or by a thread in
`flush_now()` or `stop()`.  Events are numbered in the order they are taken.
`settled` holds the events acknowledged or dropped, and `excess` is
`dropped_count` less the number of events really dropped: nothing in the code
reads the count, so only the difference matters.  A batch whose answer is lost
counts as failed although Gateway may have stored it (delivery is at least once,
and removing duplicates is Gateway's task).  The `+=` on `dropped_count` is
taken as atomic: the interpreter does not switch threads within it.
`kind` is whose loop it is.  When the join of `stop()` times out, a thread lives
on beside the closer (`JoinTimesOut`), but a task is cancelled where it awaits
(`JoinCancels`): a `CancelledError` passes the `except Exception` of `_flush()`,
so the batch in flight is neither put back nor counted, and `abandoned` remembers
it.

**GuardedRun** EXTENDS GovernedCall and puts `guard()` and `run()` around it.
`lastError` is the exporter's stored error, shared by all callers and set by
`StoreError`; `Accepted` and `Raised` are the two outcomes of a `submit()`.
`current[c]` is the context variable: no run, the caller's own `run()` block,
the implicit run of its call, or a run that is over or was never opened
(`stale`), which is what remains when `run()` raises before its reset; `cut[c]`
remembers that it has.  `due[c]`
is what the call is to end with; `ran[c]` is a history of how the tool itself
ended, to compare it with.  `LeaveCall` and `EndImplicit` hand `due` back.

**Sessions** is the session manager with those who share it.  `pc[u]` says where
a user is: `get` (before `get_token()`'s lock), `shake` and `minted` (holding it,
before and after Gateway minted a session), `send`, `drop` (before
`invalidate()`'s lock); the stream's reader also `open`, `pause` (in its wait)
and `ended`.  `Rotate`, `Register`, `Rekey` and `Rebind` are a bind in its order:
at Gateway, in the signer without a lock, in the manager.  One bind is under way
at a time.  `Async` says whether `rebind()` takes the lock; the managers differ
in nothing else the invariants see, but that no task runs between the two halves
of a bind.  Gateway may refuse any handshake and answer `session_expired` to any
token, so the model needs no table of live sessions.  `token` is a history: of
each token, the calls that had failed once when it was minted.  A signature may
have been made before the signer went over to another identity and is then still
good.

**Credentials** is the two files of an agent name under several processes, which
are agents or commands of the CLI.  `LoadMeta` and `Start` are the two reads of
`load_credentials()` with the overrides of the environment; `Register` and
`Rotate` send the request, after `_refuse_to_overwrite()`; `Unanswered` and
`Answered` are the ends of an attempt, where a failed one may have been executed
by Gateway nevertheless; `SaveKey`, `SaveMeta` and `SaveFails` are
`save_credentials()`.  `End` is a process that ends or is killed, between any two
of these.  A key is the identity it belongs to and its generation.  `minted`,
`returned`, `foreign`, `fresh` and `torn` are histories.

**LangChainSpans** is one tree of LangChain calls, numbered as they start.
`at[n]` follows a node from the handler's start callback through the wrapper
(`called`, `inner`) and the body to its end callback (`over`, `done`); `refused`
and `dropped` are the ends without one.  Handler and wrapper `Submit` each event
once and swallow the stored error it may meet, which costs that event (`lost`,
at most `MaxLost` in a behaviour), though the call is marked as reported.
`setup` is how the agent is built, all sixteen ways.  `rootOf`, `owned`, `calls`
and `emitted` are the handler's tables, `marker` the context variable that tells
an inner wrapper that an outer one has governed the call.

**AdkPlugin** is the plugin under several agents, each a task with its own
context.  Agents `Join` an invocation and `Part` from it, or are cancelled with
what they had under way; the plugin files model calls by invocation, so calls of
one invocation that are out together are mixed up (`mixed` remembers them).  The
model's answer may be a stream: the runner calls `after_model_callback` for each
partial one (`PartialAnswer`) and for the last (`AfterModel`), or
`on_model_error_callback` in its place; the first of them takes the entry that
was filed (`answered`).  A tool's span may be lost to a stored error (`missed`).

**GatewayModel** follows a conversation of contents (turns of user, model and
tools) to the messages of a request, `EnsureToolResults(Flat(...))`, and an
answer back, whole (`Completion`) or in fragments (`TextDelta`, `CallDelta`,
`StreamEnds`).  Text and arguments are two fragments each.  A stream that is cut
off is taken to carry the finish reason `length`; the code believes a stream
that ends without any reason to be complete.

**WrappedTools** is a wrapped call: check, body, and the report in the `finally`,
of up to three events of which each may meet the stored error.

**Frameworks** EXTENDS GuardedRun and INSTANCEs the four adapters: `framework` is
how the agent is built, and only that part moves, from any of its initial
states; the others stay in one.  It states once what all of them promise:
`SpansKept`, `RunsEnd`, `OutcomesKept`, `ToolsPermitted`.

## 3. Runs

| run | asks | bounds |
|---|---|---|
| ToolChecks | breaker invariants, clean fail-open, refinement of GovernedCall, progress and recovery | 2 callers, 1 tool, threshold 2, cooldown 1, stale after 1, 1 recheck |
| ToolTable | the bounded table of decisions, with restarts and torn heartbeats | 1 caller, 3 tools, 2 remembered |
| SecondProbe | is there at most one probe? (no) | 3 callers, threshold 1 |
| SuspendedRestart | does a reported suspension survive a restart? (no) | 1 caller, restarts |
| RapidSuspend | refreshes, callbacks, what a pushed hint may do, and whether polling wins in the end | loop, stream, 1 user thread; Gateway's agent active or revoked, the stop while active; frames active or suspended |
| ReadyFrame | is every push confirmed by a poll? (no) | loop and stream, all lifecycles |
| TelemetryQueue | conservation, `stop()`, no starvation | 2 submitters, 5 events, queue of 3, batches of 2; the loop a thread or a task |
| Sessions | binding, sharing and freshness of the session; status; calls and reader end | 2 callers and the stream, 2 identities, synchronous |
| LateHandshake | is the asynchronous session the bound identity's? (no) | 1 caller and the stream, 2 identities |
| Credentials | one key per call, kept in memory, files that match and are not replaced unknowingly | 2 processes, 3 identities, 2 keys each, 1 retry |
| Frameworks | outcomes, spans, runs, permission, return, conversations and streams | 2 callers; 3 LangChain nodes, 2 tools; 2 ADK agents, 2 invocations, 1 tool call; 1 event lost in LangChain, 1 in ADK; 3 contents; 1 wrapper |
| OutcomeReplaced | is the outcome kept outside `run()` too? (no) | 1 caller |

Why the bounds are enough.  Two callers are the fewest with a straggler beside a
probe; threshold 2 separates counting a failure from tripping; one recheck
separates the first check from the last; three tools on a table of two make it
evict.  Five events on a queue of three fill it, evict from it and meet a
requeue while full, and a full queue takes more than one batch to drain.  Two
submitters are needed for the second `queue.Full` of `submit()`, since one alone
could only be overtaken by requeues.  For RapidSuspend one user thread adds a
second poller and a registration; further ones repeat it.  A revoked agent at
Gateway and frames of an earlier suspension are the fewest statuses with which a
late hint could move the state downward.  Its Gateway stops an agent only while
it is active, which bounds the states and leaves out only a stop beside a
suspension, where the agent is suspended either way.  For Sessions, two callers
can drop and renew a session under each other with the stream as a third, and
two identities tell the bound one from the other.  For Credentials, two
processes can cross each other's saves and reads; the three identities are one
from elsewhere and one for each process.  Three LangChain nodes are a tool
inside the same tool inside a chain, or two children beside each other; a
wrapped and a bare tool distinguish who reports.  One lost event is enough: it
shows that an error costs no other event.  Two ADK agents share an invocation or
not.  Three contents are a call, a user turn or partial result, and the request
after them.  One wrapper is enough since other submitters show up only in the
stored error, which comes and goes at will.

`MaxEvents`, `MaxIds`, `MaxKeys`, `MaxNodes`, `MaxTurns` and `MaxLost` bound the
length of a behaviour, and each invocation and tool call of ADK happens once;
the other modules are finite by saturation.

Only TelemetryQueue turns the deadlock check off: after `stop()` nothing runs.

Fairness, and why the code justifies it:

- *ToolChecks*: every caller's steps and the clock are weakly fair.  Threads run
  on, and the HTTP client's timeouts end every request.  Nothing is assumed of
  Gateway; `CircuitRecovers` states as its premise that no request fails any
  more and that the agent goes on calling tools.
- *RapidSuspend*: the loop, the stream's reader once it has a frame, and polls
  are weakly fair; taking the state lock is strongly fair, as it is held for a
  few instructions only.  `FollowsGateway` has as premises that Gateway and the
  stream fall silent and that the loop's polls keep succeeding.
- *TelemetryQueue*: flushes end; an acknowledgement is strongly fair for a
  thread that keeps having a batch in flight, i.e. Gateway takes a batch sooner
  or later.  Without it `EventsSettle` is not promised.
- *Frameworks*: for guarded calls (`FairFor`), checks end (ToolChecks shows it
  up to a human's approval, which has its own timeout), tools return, the
  wrapper runs on.  Nothing is assumed of the exporter, which may store errors
  at any rate, nor of the adapters.
- *Sessions*: requests and handshakes end by the HTTP client's timeouts, and
  threads run on (weak fairness); a user who wants the lock again and again gets
  it in the end (strong fairness; every holder releases it).  Nothing is assumed
  of Gateway, of binds, or of an open stream before `stop()`.

## 4. What the violations show

- **SecondProbe**: the docstring promises "exactly one probe call".
  `record_failure()` clears the probe flag whoever calls it, so a straggler that
  fails during a probe lets a second probe out after the next cooldown.
- **SuspendedRestart**: `README.md` of the SDK says a suspension the last
  heartbeat reported is never softened.  `stop()` and `start()` during an outage
  install a fresh governance state while the outage guard, with its fresh last
  contact, lives on: a check fails open on a suspended agent.
- **ReadyFrame**: a `ready` frame is compared with the local state after it has
  been applied, so one that tightened it triggers no confirming heartbeat.
- **OutcomeReplaced**: with `fail_open_telemetry=False`, the terminal span of an
  implicit run raises a stored error in place of the tool's result, and the
  context variable is not reset.
- **LateHandshake**: `AsyncSessionManager.rebind()` "drops the cached session"
  without the lock `get_token()` holds across its `await`.  A handshake that is
  out for the previous identity is cached when it returns, and its session is
  used for the new identity.

Observations without a run of their own.  The first two contradict a comment or a
docstring; the passing properties exempt them by name (`overtaken`, `abandoned`)
and hold of everything else.

- `telemetry.py` 69-70 says that "a hint can only ever move the state upward".
  `tighten_from_hint()` compares and writes under a lock that
  `update_from_heartbeat()` does not take: a heartbeat that writes `revoked` in
  between is overwritten with `suspended`.  The agent stays suspended, and the
  poll that the frame asks for restores `revoked` (`HintMovesUpward`,
  `FollowsGateway`).
- A failed flush puts back what it drained "so it is not silently lost"
  (`telemetry.py` 536-537), to "never lose the batch" (815).  The asynchronous
  `stop()` cancels its loop when the join times out
  (674-677), and the batch in flight is neither put back nor counted as dropped
  (`NothingLostSilently`).  A caller that cancels its own `flush_now()` loses
  one in the same way, which the model leaves out.

In the rest, no document says otherwise or the model leaves the detail out:

- A streamed ADK model call gets a span for each answer, of which only the first
  has the call's start and model (`google_adk.py` 257-275).
- The adapters submit each event once, and LangChain's wrapper marks the call as
  reported all the same (`langchain.py` 246-248): with
  `fail_open_telemetry=False` a stored error costs the event it strikes,
  uncounted and unseen, the opening or the end of a run included.
- The torn heartbeat above: a check may fail open although the agent is suspended
  before and after (ToolChecks and the theorem exclude it).
- `README.md` 220-228 still calls the state "POLLED, not pushed", which predates
  the control stream.
- `rotate-key` with an identity from the environment and no metadata file does
  not save the new key (`governor.py` 401), but the CLI prints that the files were
  overwritten (`cli.py` 94-101).  With files of another identity under the same
  name, it overwrites those (`governor.py` 395-399; `foreign` in
  `KeysReplacedKnowingly`).
- Two `register()` calls pass the refusal to overwrite together, and an agent that
  lives on and rotates after a forced re-registration destroys the new key
  (`fresh` in that property).  A loader may read between the two writes of a save.
- `stop()` that raises the stored error leaves `_started` set (`governor.py` 454),
  and the following `start()` does nothing.
- A LangChain tool that calls itself in an asynchronous agent is not checked
  again (the marker); a cancelled one leaves its table entries, and the run it
  opened, behind.
- Parallel model calls of one ADK invocation are reported as each other's
  (`google_adk.py` 251); a denied ADK tool may get a second, `completed` span.
- A late tool result, after a placeholder has answered its call, is sent as a tool
  message that answers nothing; arguments cut off parse as none.
- A tool cancelled by a `BaseException` is recorded as completed
  (`governor.py` 665).

## 5. Proofs

`ToolChecks_proofs` proves, for all callers, tools, thresholds, cooldowns and
bounds that satisfy `BreakerAssumption` and `ToolChecksAssumption`:

| theorem | statement |
|---|---|
| TypeCorrect | `Spec => []TypeOK` |
| CircuitFollowsStreak | `Spec => []OpenExactlyOnStreak` |
| ProbesEnd | `Spec => []NotWedged` |
| TableKeepsRecent | `Spec => []RecentDecisionsKept` |
| FailOpenIsClean | without restarts and torn heartbeats, `Spec => []DegradesOnCleanKnowledge` |
| ImplementsPromise | `Spec => KeepsPromise` |

The argument:

- `OpenExactlyOnStreak` is not inductive.  `StreakInv` adds that a closed
  circuit counts exactly the streak and that only an open one is probing: with
  it, a failure during a probe is one more failure of a streak that has already
  reached the threshold.  `BreakerSteps`
  states what each operation of the breaker does to those facts.
- `RecentDecisionsKept` needs that `since` orders the tracked tools: the lemma
  `RememberKeepsRecent` shows that an eviction takes a tool that all other
  entries have followed, `MaxTracked` of them.
- `CleanInv` is where a caller's taint can come from: it is false as long as the
  caller has passed each of the reads on its way to `degraded`.  The first needs
  `told => suspended`, which holds without restarts and torn heartbeats only
  (hence the theorem's assumptions, and the run SuspendedRestart); the second
  needs
  `RecentDecisionsKept`.
- `AnswerInv` ties `answer[c]` to `pc[c]`: no answer before the first record, a
  final one in `granted` and `denied`.  Under it each step maps to a step of
  GovernedCall or to a stutter; `CallerSteps` is that case analysis.

`RapidSuspend_proofs` proves, for any user threads and lifecycle statuses that
satisfy `RapidSuspendAssumption`:

| theorem | statement |
|---|---|
| TypeCorrect | `Spec => []TypeOK` |
| RefreshesSurvive | `Spec => []RefreshNotLost` |
| RefreshesWake | `Spec => []NoSleepOnRequest` |
| Announcement | `Spec => []SuspensionAnnounced` |
| OneAnnouncement | `Spec => AnnouncedOnce` |
| PushesTighten | `Spec => HintMovesUpward` |

The argument:

- `NoSleepOnRequest` speaks of the wait only, but the loop reaches it from a
  flush.  `WakeInv` says where a request may outlive the event that announced
  it: on the way to the top of the loop, where it is looked at next.
- `SuspensionAnnounced` counts a thread that holds the lock as on its way,
  although it may have read "not suspended" and be about to clear `notified`.
  `Announced` adds that in this case another thread, the one that wrote the
  suspension since, has still to notify; this uses `OneLock`.
- `AnnouncedOnce` needs `Once`: a suspension that has been announced and not
  lifted since is still recorded as notified.
- `HintMovesUpward` needs `PushInv`: as long as no heartbeat has overtaken it, a
  frame found more severe is more severe than the state it is written over; and
  one that was ever found more severe carries a suspension, so that what is
  suspended stays so even when it has been overtaken.

`TelemetryQueue_proofs` proves, for any submitting threads, capacity, batch size
and number of events that satisfy `TelemetryQueueAssumption`:

| theorem | statement |
|---|---|
| TypeCorrect | `Spec => []TypeOK` |
| NothingLost | `Spec => []NothingLostSilently` |
| OnePlace | `Spec => []InOnePlace` |
| StopSendsAll | `Spec => []StopLosesNothing` |

The argument:

- `InOnePlace` adds up lengths and cardinalities.  `PlacesInv` says without
  counting what makes the sum right: no event is twice in the queue or in a
  batch (`Distinct`), no two of queue, hands, batches and settled events share
  one (`Apart`), and together they are all there are (`NothingLostSilently`).
  The two have to be proved together: a requeued event keeps its place in the
  whole only because it was nowhere else.  The events of a cancelled loop are a
  place of their own; that it held one batch at most, and that there is only one
  such loop, is `AbandonInv`.
- The counting is done once, by `DistinctCounted`, `HandsCounted` and
  `PlacesCounted`, which rest on `DisjointUnion`.
- `StopLosesNothing` speaks of the end of `stop()`.  `StopInv` says what holds on
  the way there if the stop has had every chance: nobody submits, the loop has
  exited, and when the closer is about to return the queue is empty.  With
  `NothingLostSilently`, nothing is left but what is settled.

`Sessions_proofs` proves, for any callers and identities that satisfy
`SessionsAssumption`:

| theorem | statement |
|---|---|
| TypeCorrect | `Spec => []TypeOK` |
| SessionFollowsIdentity | with the synchronous manager, `Spec => []SessionIsBound` |
| HandshakesShared | `Spec => []HandshakeNeeded` |
| RetriesFresh | `Spec => []RetryIsFresh` |
| ConnectedIsOpen | `Spec => []ConnectedMeansOpen` |

The argument:

- `HandshakeNeeded` is inductive with the mutual exclusion of those who hold the
  lock (`LockInv`): `Store` must leave nobody else in a handshake.
- `SessionIsBound` needs that a handshake that is out is for the bound identity
  (`BoundInv`), which is what the lock in `rebind()` protects.
- `RetryIsFresh` speaks of the sent token only.  `FreshInv` says that, from the
  moment a failed call has dropped the session, whatever is cached or about to
  be was minted since.

`Credentials_proofs` proves, for any processes, environments and numbers of
identities, keys and retries that satisfy `CredentialsAssumption`:

| theorem | statement |
|---|---|
| TypeCorrect | `Spec => []TypeOK` |
| OneKey | `Spec => []OneKeyPerCall` |
| ReturnedKeyHeld | `Spec => []KeyHeld` |
| FilesMatch | `Spec => []PairMatches` |
| OverwritesKnowingly | `Spec => KeysReplacedKnowingly` |

The argument:

- `OneKeyPerCall` follows from `AttemptInv`: a call that is between two
  attempts has made nothing, for only a 429 leads back to posting.
- `KeyHeld` and the types need `MemoryInv`, which ties what a process is bound to
  to where it is in its save.
- `PairMatches` is not inductive: a save writes the key first and the metadata
  second, over files the process may have loaded long before.  `KnowsFiles` says
  what a process may still rely on as long as no other has written since
  (`fresh`).  `StillKnown` shows that it survives what others do, `WriteOf` what
  a write makes of it.
- `KeysReplacedKnowingly` is a consequence of `KnowsFiles` at the one step that
  writes the key.

`GatewayModel_proofs` proves, for conversations of any length:

| theorem | statement |
|---|---|
| ConversationAnswered | `AgentSpec => []ChatAnswered` |
| AnswerWhole | `AgentSpec => []StreamWhole` |

The argument:

- `_ensure_tool_results()` is a loop over the messages, and what it has built
  after each round (`Rounds`) is a recursive function.  TLAPS cannot instantiate
  the library's induction theorems, which take a predicate; `Inductive` takes a
  set instead, and is derived from the well-foundedness of finite sets.
  `RoundsExist` shows that the recursive function is one.
- `RoundByRound` is the loop's invariant.  `Healed`: every call made so far has
  been answered, by a tool message that only tool messages part from it, or it
  is pending and only tool messages have come since.  `InStep`: the messages
  that are no placeholders are those seen so far, in order.  `ResultAnswers` is
  the round of a result, where `list.remove()` takes one id from the pending
  ones (`RemovesFirst`); `NonePending` and `CallsPending` are that of any other
  message.
- `ChatInv` says that the request awaiting its answer was made of the
  conversation as it is, for no turn is added while it is out.
- `StreamWhole` speaks of what was delivered.  `StreamInv` says, for each
  fragment received, that the text parts and the calls by index are what the
  backend meant, as far as the stream has brought it.  `FinalIds` is why no two
  calls share an id, `SortedIs` why they come out in their order.

`Frameworks_proofs` proves, for any callers, tools, calls of LangChain, agents,
invocations and wrappers that satisfy `FrameworksAssumption` (among it: no tool
has the name of one of the other kinds of node, and `Nowhere` is no invocation
and no agent):

| theorem | statement |
|---|---|
| TypesHold | `AgentSpec => []TypesOK` |
| OutcomesSurvive | `AgentSpec => OutcomesKept` |
| RunsAreEnded | `AgentSpec => []RunsEnd` |
| ToolsArePermitted | `AgentSpec => ToolsPermitted` |
| SpansSurvive | `AgentSpec => []SpansKept` |

The argument goes component by component, for a step of Frameworks is a step of
one of the modules it composes:

- `CallsInv`: from its tool's end to the end of its run, what is due to a caller
  is what the tool ended with; and where neither a block nor an implicit run is
  open, the context names no run, or one whose opening or end a stored error has
  taken the place of (`cut`).
- `LangChainInv`: every registered call has a run to land in, and a run that was
  opened is closed, still owned, or its end was lost (`RunsBegun`, `RunsClosed`;
  `EventsSubmitted` is what a submission does to them).  `AdkInv`: the run to go
  back to is filed for every model call that met no other, until its first answer
  takes it.  `WrappedInv`: every wrapper still owes
  its caller what its function ended with.
- `PermitInv`: a call that came back granted has an ALLOW, one that came back
  degraded no verdict, and neither changes on the way to the tool (the theorem
  GuardPermits).
- `ChainPermitInv`: a wrapped tool in its body is governed by itself or by a call
  of the same tool around it, which is what the marker in its context says.  The
  calls around a node are the least set that leads upwards from it
  (`Enclosing`); `EnclosingGrows` and `EnclosingStays` say what a new node makes
  of them, without any recursion.
- The spans need the error's history.  `CallSpansInv`: a stored error that is
  met after a call was let in has struck it, a second one has struck it again.
  `ChainSpansInv`: a call has no span before its end, and none has been lost
  (`SpanSubmitted`).  `AdkSpansInv`: a tool call under way has no status yet,
  and an observed one that ended without has been `missed`.  `WrappedSpansInv`:
  as many errors were swallowed as events are missing; `EventsCounted` makes a
  cardinality of it.
- The types rest on these invariants.  `ChainTypes` adds that nodes start in
  turn, without which a parent could come after its child.  `ToolCallTypes` adds
  that a tool call has a caller while it is under way and only then, which is
  what keeps the table of pending calls equal to the calls it is kept for.

Only model-checked: the liveness properties (`ChecksSettle`, `CircuitRecovers`,
`FollowsGateway`, `EventsSettle`, `CallsEnd`, `ReaderEnds`, `CallsReturn`), for
fairness and ENABLED are out of the prover's reach.  Every safety property of a
passing run is a theorem.

## 6. Not modelled

Signing, redaction, span construction and error mapping are pure functions of
data whose values no property here tells apart, and so are schemas, media parts
and usage numbers of the adapters, whose construction of the frameworks' model
clients is wiring.  Time is left out where it only delays: the waits of the
back-off and of retries, the clock of `await_decision()` (a PENDING is polled
again or times out), Gateway's rate limits.  Nested `run()` blocks add a level of
what `saved` restores, and a guarded tool calling another one behaves like a
call within a run.  `scripts/live_check.py` and the examples drive the SDK against
a real Gateway and are no part of it.

## 7. Plan

1. Proofs: `FailOpenIsClean` and `SessionFollowsIdentity` hold under conditions
   (no restart or torn heartbeat, the synchronous manager); what remains true
   without them.
2. **Lifecycle** of the governor: `start()` and `stop()` around the exporter and
   the stream, with `stop()` raising before it clears `_started`.
3. **ControlStream**: `start()` after `stop()`, whose reader may have outlived the
   join, and the attempt counter of the back-off.
