--------------------------- MODULE LangChainSpans ---------------------------
(***************************************************************************)
(* The LangChain adapter: the callback handler with its run tree, and the  *)
(* wrappers of govern_tools(), over one tree of LangChain calls (nodes).   *)
(*                                                                         *)
(* LangChain calls the handler at the start and the end of every node and  *)
(* runs the wrapper in between; a tool that a wrapper has reported must    *)
(* not be reported by the handler, and the other way round.  In a          *)
(* synchronous agent calls nest; in an asynchronous one the children of a  *)
(* node run side by side and may outlive it.  Tools have been handed to    *)
(* govern_tools() or not (Wrapped).                                        *)
(*                                                                         *)
(* Handler and wrapper submit each event once; one that meets the stored   *)
(* error of an exporter that does not fail open is lost, and the error     *)
(* swallowed.                                                              *)
(***************************************************************************)
EXTENDS Naturals, FiniteSets, FiniteSetsExt

CONSTANTS
  MaxNodes,   \* bound: calls in the tree, numbered as they start
  Tools,      \* tools of the agent
  Wrapped,    \* those that govern_tools() has wrapped
  MaxLost     \* bound: events lost to stored errors

VARIABLES
  setup,      \* how the agent is built: which of the Options it has
  what,       \* what each node calls: a chain, a model, or a tool
  parent,     \* its parent, 0 if it has none
  at,         \* where it is
  marker,     \* _GOVERNED_TOOL in the context of its body
  permitted,  \* nodes whose check allowed the tool
  checks,     \* checks made for each node
  rootOf,     \* _RunTree._root_of, the run of each registered node
  owned,      \* _owned: nodes whose run the handler opened
  calls,      \* _TOOL_CALLS, tool calls under way ...
  emitted,    \* ... and those of them that a wrapper has reported
  aside,      \* nodes whose wrapper stepped aside
  spans,      \* history: how many spans reported each node
  landed,     \* history: the runs they landed in
  opened,     \* history: runs opened by the handler
  closed,     \* history: runs closed by the handler
  lost        \* history: events lost, with the node they are about

lcTree == <<setup, what, parent, at>>
lcRule == <<marker, permitted, checks, aside>>
lcTables == <<rootOf, owned, calls, emitted>>
lcSeen == <<spans, landed, opened, closed, lost>>
lcVars == <<lcTree, lcRule, lcTables, lcSeen>>

Nodes == 1..MaxNodes
Ambient == 0                \* the run of a governor.run() block around it all
Own == MaxNodes + 1         \* a run of its own that a span opens and closes
\* mode="govern" (or "observe"), a callback handler attached to the agent, a
\* governor.run() block around it, an asynchronous agent.
Options == {"govern", "attached", "ambient", "async"}
Active == {n \in Nodes : at[n] \in {"called", "inner", "body", "over"}}
AtRest == {"unborn", "done", "refused", "dropped"}
Events == {"open", "span", "close"}

LCTypeOK ==
  /\ setup \subseteq Options
  /\ what \in [Nodes -> Tools \cup {"chain", "llm", "none"}]
  /\ parent \in [Nodes -> 0..MaxNodes] /\ \A n \in Nodes : parent[n] < n
  /\ at \in [Nodes -> {"called", "inner", "body", "over"} \cup AtRest]
  /\ marker \in [Nodes -> Wrapped \cup {"none"}]
  /\ permitted \subseteq Nodes /\ aside \subseteq Nodes
  /\ checks \in [Nodes -> 0..2]
  /\ DOMAIN rootOf \subseteq Nodes
  /\ \A n \in DOMAIN rootOf : rootOf[n] \in 0..n
  /\ owned \subseteq DOMAIN rootOf /\ calls \subseteq DOMAIN rootOf
  /\ emitted \subseteq calls
  /\ spans \in [Nodes -> 0..2] /\ landed \in [Nodes -> SUBSET (0..Own)]
  /\ opened \subseteq Nodes /\ closed \subseteq Nodes /\ lost \subseteq Nodes \X Events

LCInit ==
  /\ setup \in SUBSET Options
  /\ what = [n \in Nodes |-> "none"] /\ marker = what
  /\ parent = [n \in Nodes |-> 0] /\ checks = parent /\ spans = parent
  /\ at = [n \in Nodes |-> "unborn"]
  /\ rootOf = [n \in {} |-> 0]
  /\ permitted = {} /\ owned = {} /\ calls = {} /\ emitted = {} /\ aside = {}
  /\ landed = [n \in Nodes |-> {}]
  /\ opened = {} /\ closed = {} /\ lost = {}

Is(option) == option \in setup
Goto(n, l) == at' = [at EXCEPT ![n] = l]

-----------------------------------------------------------------------------
(* Events of a node *)

\* The run its span goes to: that of the node, the ambient one, or one of its
\* own (_in_own_run(), whose further events WrappedTools follows).
RunOf(n) ==
  IF n \in DOMAIN rootOf THEN rootOf[n] ELSE IF Is("ambient") THEN Ambient ELSE Own

\* run_span(), emit_tool_span(), emit_llm_span(): the events due are submitted,
\* each best-effort and once.
Submit(n, due) ==
  \E sent \in SUBSET due :
    /\ lost' = lost \cup ({n} \X (due \ sent)) /\ Cardinality(lost') <= MaxLost
    /\ IF "span" \in sent
       THEN /\ spans' = [spans EXCEPT ![n] = IF @ < 2 THEN @ + 1 ELSE 2]
            /\ landed' = [landed EXCEPT ![n] = @ \cup {RunOf(n)}]
       ELSE UNCHANGED <<spans, landed>>
    /\ opened' = IF "open" \in sent THEN opened \cup {n} ELSE opened
    /\ closed' = IF "close" \in sent THEN closed \cup {n} ELSE closed

-----------------------------------------------------------------------------
(* A node starts *)

\* Who may call: the innermost node of a synchronous agent; any body of an
\* asynchronous one, and what a body that is over has left running.
Hosts == {p \in Nodes : at[p] = "body" /\ what[p] # "llm"
                          /\ (Is("async") \/ p = Max(Active))}
Stragglers == {p \in Nodes : at[p] = "done" /\ what[p] # "llm" /\ Is("async")}
AtTop == IF Is("async") \/ Active = {} THEN {0} ELSE {}

\* _RunTree.start(): the parent's run, the ambient one, or a run of its own.
RootFor(n, p) ==
  IF p \in DOMAIN rootOf THEN rootOf[p] ELSE IF Is("ambient") THEN Ambient ELSE n

\* on_chain_start, on_llm_start, on_chat_model_start, on_tool_start
Register(n, p, w) ==
  /\ rootOf' = [m \in DOMAIN rootOf \cup {n} |-> IF m = n THEN RootFor(n, p) ELSE rootOf[m]]
  /\ calls' = IF w \in Tools THEN calls \cup {n} ELSE calls
  /\ IF RootFor(n, p) = n
     THEN owned' = owned \cup {n} /\ Submit(n, {"open"})
     ELSE UNCHANGED <<owned, lcSeen>>
  /\ UNCHANGED emitted

Start(n) ==
  /\ at[n] = "unborn" /\ \A m \in 1..(n - 1) : at[m] # "unborn"
  /\ \E p \in AtTop \cup Hosts \cup Stragglers, w \in Tools \cup {"chain", "llm"} :
       /\ parent' = [parent EXCEPT ![n] = p]
       /\ what' = [what EXCEPT ![n] = w]
       /\ marker' = [marker EXCEPT ![n] = IF p = 0 THEN "none" ELSE marker[p]]
       /\ \/ /\ IF Is("attached") THEN Register(n, p, w) ELSE UNCHANGED <<lcTables, lcSeen>>
             /\ Goto(n, IF w \in Wrapped THEN "called" ELSE "body")
          \* suspended: the handler raises before it registers anything
          \/ /\ Is("attached") /\ Is("govern") /\ w # "chain"
             /\ Goto(n, "refused")
             /\ UNCHANGED <<lcTables, lcSeen>>
  /\ UNCHANGED <<setup, permitted, checks, aside>>

-----------------------------------------------------------------------------
(* The wrapper of govern_tools() *)

\* The call is marked, whatever has become of its span.
MarkEmitted(n) == emitted' = emitted \cup ({n} \cap calls)

\* The asynchronous wrapper sees its own id: a wrapper above has governed it.
StepAside(n) ==
  /\ at[n] = "called" /\ marker[n] = what[n]
  /\ aside' = aside \cup {n}
  /\ Goto(n, "body")
  /\ UNCHANGED <<setup, what, parent, marker, permitted, checks, lcTables, lcSeen>>

Mark(n) == marker' = IF Is("async") THEN [marker EXCEPT ![n] = what[n]] ELSE marker

\* A tool without a coroutine of its own is routed through its wrapped _run().
EnterBody(n) ==
  /\ Mark(n)
  /\ at' \in {[at EXCEPT ![n] = l] : l \in IF Is("async") THEN {"body", "inner"} ELSE {"body"}}

\* mode="observe"
Observe(n) ==
  /\ at[n] = "called" /\ marker[n] # what[n] /\ ~Is("govern")
  /\ EnterBody(n)
  /\ UNCHANGED <<setup, what, parent, permitted, checks, aside, lcTables, lcSeen>>

\* The check says yes, or fails open.
Allowed(n) ==
  /\ at[n] = "called" /\ marker[n] # what[n] /\ Is("govern")
  /\ checks' = [checks EXCEPT ![n] = IF @ < 2 THEN @ + 1 ELSE 2]
  /\ permitted' = permitted \cup {n}
  /\ EnterBody(n)
  /\ UNCHANGED <<setup, what, parent, aside, lcTables, lcSeen>>

\* It says no: the denied span, and a ToolException.
Denied(n) ==
  /\ at[n] = "called" /\ marker[n] # what[n] /\ Is("govern")
  /\ checks' = [checks EXCEPT ![n] = IF @ < 2 THEN @ + 1 ELSE 2]
  /\ Submit(n, {"span"}) /\ MarkEmitted(n)
  /\ Goto(n, "over")
  /\ UNCHANGED <<setup, what, parent, marker, permitted, aside, rootOf, owned, calls>>

\* Suspended, or Gateway is unreachable and the agent fails closed.
Failed(n) ==
  /\ at[n] = "called" /\ marker[n] # what[n] /\ Is("govern")
  /\ Goto(n, "over")
  /\ UNCHANGED <<setup, what, parent, lcRule, lcTables, lcSeen>>

\* The synchronous wrapper below the asynchronous one.
Inner(n) ==
  /\ at[n] = "inner"
  /\ Goto(n, IF marker[n] = what[n] THEN "body" ELSE "called")
  /\ UNCHANGED <<setup, what, parent, lcRule, lcTables, lcSeen>>

\* A body returns or raises: the wrapper, unless it stepped aside, reports it.
\* A tool that is cancelled leaves so as well, but LangChain tells no handler.
Leave(n, l) ==
  /\ at[n] = "body" /\ (Is("async") \/ n = Max(Active))
  /\ IF what[n] \in Wrapped /\ n \notin aside
     THEN Submit(n, {"span"}) /\ MarkEmitted(n)
     ELSE UNCHANGED <<lcSeen, emitted>>
  /\ Goto(n, l)
  /\ UNCHANGED <<setup, what, parent, lcRule, rootOf, owned, calls>>

BodyEnds(n) == Leave(n, "over")
Cancelled(n) == what[n] \in Tools /\ Is("async") /\ Leave(n, "dropped")

-----------------------------------------------------------------------------
(* A node ends *)

\* Slip: the handler reports every tool, whoever has reported it already.
Unreported(n) == what[n] # "chain"

\* on_tool_end skips a call that a wrapper has reported.
Untold(n) == what[n] # "chain" /\ n \notin emitted

\* on_chain_end, on_llm_end, on_tool_end, and the same for errors
Ended(n) ==
  /\ rootOf' = [m \in DOMAIN rootOf \ {n} |-> rootOf[m]]
  /\ calls' = calls \ {n} /\ emitted' = emitted \ {n}
  /\ owned' = owned \ {n}
  /\ Submit(n, {e \in {"span", "close"} : IF e = "span" THEN Untold(n) ELSE n \in owned})

End(n) ==
  /\ at[n] = "over"
  /\ IF Is("attached") THEN Ended(n) ELSE UNCHANGED <<lcTables, lcSeen>>
  /\ Goto(n, "done")
  /\ UNCHANGED <<setup, what, parent, lcRule>>

Rest == (\A n \in Nodes : at[n] \in AtRest \ {"unborn"}) /\ UNCHANGED lcVars

LCNext ==
  \/ Rest
  \/ \E n \in Nodes : \/ Start(n) \/ StepAside(n) \/ Observe(n) \/ Allowed(n) \/ Denied(n)
                      \/ Failed(n) \/ Inner(n) \/ BodyEnds(n) \/ Cancelled(n) \/ End(n)

LCSpec == LCInit /\ [][LCNext]_lcVars

-----------------------------------------------------------------------------
(* What makes the component correct *)

\* "One span per tool call": with a handler attached, whoever else reports
\* them, every model and tool call that ended has exactly one span, or lost
\* that one to a stored error; without a handler, no call has two.
LCOneSpan ==
  \A n \in Nodes :
    /\ at[n] = "done" /\ Is("attached") /\ what[n] # "chain" =>
         spans[n] = IF <<n, "span">> \in lost THEN 0 ELSE 1
    /\ spans[n] <= 1

\* Spans land in the ambient run if there is one, else in a run the handler
\* opened; what a node has left in the tables is gone when it ends, and with
\* it the run it opened, however its parent ended.  Only an opening or an end
\* that was itself lost to a stored error is missing.
LCRunsEnd ==
  \A n \in Nodes :
    /\ Is("ambient") => landed[n] \subseteq {Ambient} /\ opened = {}
    /\ Is("attached") /\ ~Is("ambient") =>
         \A r \in landed[n] : r \in opened \/ <<r, "open">> \in lost
    /\ at[n] \in {"done", "refused"} =>
         /\ n \notin DOMAIN rootOf \cup calls \cup owned
         /\ n \in opened => n \in closed \/ <<n, "close">> \in lost

\* The nodes a node runs inside of, itself included: those that no set can do
\* without that holds the node and, with each of its members, its parent.
Upward(S) == \A k \in S : parent[k] # 0 => parent[k] \in S
Enclosing(n) == {m \in Nodes : \A S \in SUBSET Nodes : n \in S /\ Upward(S) => m \in S}

\* Where the adapter governs, a wrapped tool runs only if it, or an enclosing
\* call of the same tool, was allowed; and no call is checked twice.
LCPermitted ==
  \A n \in Nodes :
    /\ at[n] = "body" /\ what[n] \in Wrapped /\ Is("govern") =>
         \E m \in Enclosing(n) : what[m] = what[n] /\ m \in permitted
    /\ checks[n] <= 1
=============================================================================
