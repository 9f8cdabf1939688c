------------------------------ MODULE AdkPlugin ------------------------------
(***************************************************************************)
(* MatimoPlugin, the Google ADK adapter: one plugin object that every      *)
(* agent of every invocation calls back, with tables of the model calls,   *)
(* tool calls and runs that are under way.                                 *)
(*                                                                         *)
(* Agents of one invocation may run side by side, each in a task with a    *)
(* context variable of its own; the plugin files a model call under the    *)
(* invocation, so two of them may meet there (mixed).  A streamed model    *)
(* call is called back for each of its answers.                            *)
(*                                                                         *)
(* A span is submitted once; one that meets the stored error of an         *)
(* exporter that does not fail open is lost, and the error swallowed.      *)
(* This is followed for the spans of tools; those of models and runs are   *)
(* submitted in the same way, and change nothing here when they are lost.  *)
(***************************************************************************)
EXTENDS Naturals, FiniteSets, Functions

CONSTANTS
  Agents,       \* agents, each in a task
  Invocations,  \* invocations of the runner
  ToolCalls,    \* tool calls, by ADK's function_call_id
  Nowhere,      \* no invocation: what a context names outside of them
  MaxLost       \* bound: tool calls that lost a span

VARIABLES
  govern,       \* mode="govern", not "observe"
  serves,       \* the invocation each agent works for
  asks,         \* agents whose model call is out
  mixed,        \* history: those that have met another of their invocation
  bound,        \* the run id bound in each agent's context
  pendingLlm,   \* _pending_llm: invocation -> the agent whose call it is
  previousRun,  \* _previous_run: invocation -> the run id to restore
  answered,     \* history: those of asks that have had a partial answer
  openRuns,     \* _open_runs
  closedRuns,   \* history: runs that _close_run() has ended
  tool,         \* where each tool call is
  caller,       \* the agent that makes it, while it is under way
  pendingTool,  \* _pending_tool: call -> whether it has a resume token
  toolSpans,    \* history: the statuses each tool call was reported with
  reported,     \* history: the tool calls whose result was reported back
  missed        \* history: tool calls that a span was lost of

adkModel == <<asks, mixed, bound, pendingLlm, previousRun, answered>>
adkRuns == <<openRuns, closedRuns>>
adkTools == <<tool, caller, pendingTool, toolSpans, reported>>
adkVars == <<govern, serves, adkModel, adkRuns, adkTools, missed>>

RunIds == Invocations \cup {Nowhere}
Partial(D, R) == UNION {[X -> R] : X \in SUBSET D}

AdkTypeOK ==
  /\ govern \in BOOLEAN /\ serves \in [Agents -> RunIds]
  /\ asks \subseteq Agents /\ mixed \subseteq Agents
  /\ bound \in [Agents -> RunIds]
  /\ pendingLlm \in Partial(Invocations, Agents)
  /\ previousRun \in Partial(Invocations, RunIds)
  /\ DOMAIN previousRun = DOMAIN pendingLlm
  /\ answered \subseteq asks /\ missed \subseteq ToolCalls
  /\ openRuns \subseteq Invocations /\ closedRuns \subseteq Invocations \ openRuns
  /\ tool \in [ToolCalls -> {"new", "running", "short", "done", "cancelled"}]
  /\ caller \in [ToolCalls -> Agents \cup {Nowhere}]
  /\ pendingTool \in Partial(ToolCalls, BOOLEAN)
  /\ DOMAIN pendingTool = {k \in ToolCalls : tool[k] \in {"running", "cancelled"}}
  /\ toolSpans \in [ToolCalls -> SUBSET {"denied", "completed", "error"}]
  /\ reported \subseteq ToolCalls

AdkInit ==
  /\ govern \in BOOLEAN
  /\ serves = [a \in Agents |-> Nowhere] /\ bound = serves
  /\ asks = {} /\ mixed = {} /\ answered = {} /\ missed = {}
  /\ pendingLlm = [i \in {} |-> 0] /\ previousRun = pendingLlm /\ pendingTool = pendingLlm
  /\ openRuns = {} /\ closedRuns = {}
  /\ tool = [k \in ToolCalls |-> "new"] /\ toolSpans = [k \in ToolCalls |-> {}]
  /\ caller = [k \in ToolCalls |-> Nowhere]
  /\ reported = {}

Filed(table, key, value) ==
  [k \in DOMAIN table \cup {key} |-> IF k = key THEN value ELSE table[k]]
Popped(table, key) == Restrict(table, DOMAIN table \ {key})
Dispatched(a) == {k \in ToolCalls : caller[k] = a}

-----------------------------------------------------------------------------
(* Runs *)

BeforeRun(i) ==
  /\ i \notin openRuns \cup closedRuns
  /\ openRuns' = openRuns \cup {i}
  /\ UNCHANGED <<closedRuns, govern, serves, adkModel, adkTools, missed>>

\* An agent is put to work for a run, or is done with it.
Join(a) ==
  /\ serves[a] = Nowhere
  /\ \E i \in openRuns : serves' = [serves EXCEPT ![a] = i]
  /\ UNCHANGED <<govern, adkModel, adkRuns, adkTools, missed>>

Part(a) ==
  /\ serves[a] # Nowhere /\ a \notin asks /\ Dispatched(a) = {}
  /\ serves' = [serves EXCEPT ![a] = Nowhere]
  /\ UNCHANGED <<govern, adkModel, adkRuns, adkTools, missed>>

\* Its task is cancelled, and its context dies with it; no callback is made.
Cancel(a) ==
  /\ serves[a] # Nowhere
  /\ serves' = [serves EXCEPT ![a] = Nowhere]
  /\ asks' = asks \ {a} /\ mixed' = mixed \ {a}
  /\ bound' = [bound EXCEPT ![a] = Nowhere]
  /\ answered' = answered \ {a}
  /\ tool' = [k \in ToolCalls |->
                IF k \in Dispatched(a) THEN IF tool[k] = "running" THEN "cancelled" ELSE "done"
                ELSE tool[k]]
  /\ caller' = [k \in ToolCalls |-> IF k \in Dispatched(a) THEN Nowhere ELSE caller[k]]
  /\ UNCHANGED <<govern, pendingLlm, previousRun, adkRuns, pendingTool, toolSpans,
                 reported, missed>>

\* after_run_callback and on_run_error_callback: _close_run().  Neither is made
\* if the caller drops the event stream.
AfterRun(i) ==
  /\ i \in openRuns /\ \A a \in Agents : serves[a] # i
  /\ openRuns' = openRuns \ {i} /\ closedRuns' = closedRuns \cup {i}
  /\ UNCHANGED <<govern, serves, adkModel, adkTools, missed>>

-----------------------------------------------------------------------------
(* Model calls *)

BeforeModel(a) ==
  LET i == serves[a] IN
  /\ i # Nowhere /\ a \notin asks
  /\ previousRun' = Filed(previousRun, i, bound[a])
  /\ bound' = [bound EXCEPT ![a] = i]
  /\ pendingLlm' = Filed(pendingLlm, i, a)
  /\ asks' = asks \cup {a}
  /\ LET met == {b \in asks : serves[b] = i} IN
       mixed' = mixed \cup met \cup (IF met = {} THEN {} ELSE {a})
  /\ UNCHANGED <<govern, serves, answered, adkRuns, adkTools, missed>>

\* _restore_run()
Restored(a, i) ==
  IF i \in DOMAIN previousRun THEN [bound EXCEPT ![a] = previousRun[i]] ELSE bound

\* after_model_callback, called for every answer: the partial ones of a stream,
\* then the last one, or on_model_error_callback in its place.  Its span is that
\* of the call filed under the invocation, or one without start and model.
Answer(a) ==
  LET i == serves[a] IN
  /\ a \in asks
  /\ bound' = Restored(a, i)
  /\ previousRun' = Popped(previousRun, i)
  /\ pendingLlm' = Popped(pendingLlm, i)
  /\ UNCHANGED <<govern, serves, mixed, adkRuns, adkTools, missed>>

PartialAnswer(a) == Answer(a) /\ answered' = answered \cup {a} /\ UNCHANGED asks
AfterModel(a) == Answer(a) /\ answered' = answered \ {a} /\ asks' = asks \ {a}

-----------------------------------------------------------------------------
(* Tool calls *)

Dispatch(k, a) ==
  /\ tool[k] = "new" /\ serves[a] # Nowhere /\ a \notin asks
  /\ caller' = [caller EXCEPT ![k] = a]

\* emit_tool_span(): submitted once; an event that meets the stored error is
\* lost, and the error swallowed.
Report(k, status) ==
  \/ (toolSpans' = [toolSpans EXCEPT ![k] = @ \cup {status}] /\ UNCHANGED missed)
  \/ (missed' = missed \cup {k} /\ Cardinality(missed') <= MaxLost /\ UNCHANGED toolSpans)

\* before_tool_callback lets the tool run: mode="observe", or it was allowed.
ToolRuns(k, a) ==
  /\ Dispatch(k, a)
  /\ tool' = [tool EXCEPT ![k] = "running"]
  /\ \E token \in IF govern THEN BOOLEAN ELSE {FALSE} : pendingTool' = Filed(pendingTool, k, token)
  /\ UNCHANGED <<govern, serves, adkModel, adkRuns, toolSpans, reported, missed>>

\* It answers {"error": ...} in the tool's place: denied, or unavailable.
ToolShort(k, a) ==
  /\ Dispatch(k, a) /\ govern
  /\ tool' = [tool EXCEPT ![k] = "short"]
  /\ Report(k, "denied") \/ UNCHANGED <<toolSpans, missed>>
  /\ UNCHANGED <<govern, serves, adkModel, adkRuns, pendingTool, reported>>

HasToken(k) == k \in DOMAIN pendingTool /\ pendingTool[k]

\* after_tool_callback and on_tool_error_callback; whether ADK makes the first
\* one after an answer in the tool's place is not said in the code.
AfterTool(k) ==
  /\ tool[k] \in {"running", "short"}
  /\ \E status \in {"completed", "error"} : Report(k, status)
  /\ pendingTool' = Popped(pendingTool, k)
  /\ reported' = IF HasToken(k) THEN reported \cup {k} ELSE reported
  /\ tool' = [tool EXCEPT ![k] = "done"] /\ caller' = [caller EXCEPT ![k] = Nowhere]
  /\ UNCHANGED <<govern, serves, adkModel, adkRuns>>

NoAfterTool(k) ==
  /\ tool[k] = "short"
  /\ tool' = [tool EXCEPT ![k] = "done"] /\ caller' = [caller EXCEPT ![k] = Nowhere]
  /\ UNCHANGED <<govern, serves, adkModel, adkRuns, pendingTool, toolSpans, reported, missed>>

AdkRest == closedRuns = Invocations /\ UNCHANGED adkVars

AdkNext ==
  \/ AdkRest
  \/ \E i \in Invocations : BeforeRun(i) \/ AfterRun(i)
  \/ \E a \in Agents : Join(a) \/ Part(a) \/ Cancel(a) \/ BeforeModel(a)
                    \/ PartialAnswer(a) \/ AfterModel(a)
  \/ \E k \in ToolCalls, a \in Agents : ToolRuns(k, a) \/ ToolShort(k, a)
  \/ \E k \in ToolCalls : AfterTool(k) \/ NoAfterTool(k)

AdkSpec == AdkInit /\ [][AdkNext]_adkVars

-----------------------------------------------------------------------------
(* What makes the component correct *)

\* The first answer of a model call is reported as the call it answers, with
\* its own start and model, unless another model call of the same invocation is
\* or was out beside it; calls of other invocations, and cancelled ones, do not
\* matter.  The further answers
\* of a stream are reported with neither, and never as another call.
AdkOwnSpan ==
  \A a \in asks \ mixed :
    IF a \in answered THEN serves[a] \notin DOMAIN pendingLlm
    ELSE serves[a] \in DOMAIN pendingLlm /\ pendingLlm[serves[a]] = a

\* A tool that ran to its end has one span at most.  Where tools are observed
\* only, and where a result is reported back (a governed call's alone), it has
\* none only if that was lost to a stored error.
AdkToolSpans ==
  \A k \in ToolCalls :
    /\ tool[k] = "done" /\ "denied" \notin toolSpans[k] => Cardinality(toolSpans[k]) <= 1
    /\ tool[k] = "done" /\ toolSpans[k] = {} => govern \/ k \in missed
    /\ k \in reported =>
         /\ govern
         /\ toolSpans[k] \in {{"completed"}, {"error"}} \/ (k \in missed /\ toolSpans[k] = {})

\* Outside a model call no agent's context names a run, so that what it does
\* next is not filed under an invocation that is over (with the same proviso).
AdkRunRestored == \A a \in Agents \ (asks \cup mixed) : bound[a] = Nowhere
=============================================================================
