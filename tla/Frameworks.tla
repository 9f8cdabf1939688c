----------------------------- MODULE Frameworks -----------------------------
(***************************************************************************)
(* An agent that runs its tools and models under the governor, whichever   *)
(* way it was built: with guard() and run() around its own code, with      *)
(* LangChain or Google ADK, with the model that ADK reaches through        *)
(* Gateway, or with an adapter that only wraps (AutoGen, CrewAI, the       *)
(* generic one).  Each way keeps state of its own and none of another's;   *)
(* what they promise is stated here once for all of them.                  *)
(***************************************************************************)
EXTENDS GuardedRun

CONSTANTS MaxNodes, Tools, Wrapped,                \* of LangChainSpans
          Agents, Invocations, ToolCalls, Nowhere, \* of AdkPlugin
          MaxLost,                                 \* of both
          MaxTurns,                                \* of GatewayModel
          Wrappers                                 \* of WrappedTools

ASSUME FrameworksAssumption ==
  /\ MaxNodes \in Nat \ {0} /\ Wrapped \subseteq Tools
  /\ Tools \cap {"chain", "llm", "none"} = {}
  /\ Nowhere \notin Invocations \cup Agents
  /\ MaxTurns \in Nat /\ MaxLost \in Nat

VARIABLES
  framework,  \* how the agent is built
  setup, what, parent, at, marker, permitted, checks, rootOf, owned, calls,
  emitted, aside, spans, landed, opened, closed, lost,  \* of LangChainSpans
  govern, serves, asks, mixed, bound, pendingLlm, previousRun, answered, openRuns,
  closedRuns, tool, caller, pendingTool, toolSpans, reported, missed,  \* of AdkPlugin
  contents, request, answer, fed, textParts, functionCalls, delivered,
  stored, step, form, inRun, end, outcome, sent, eaten  \* of WrappedTools

LC == INSTANCE LangChainSpans
Adk == INSTANCE AdkPlugin
GM == INSTANCE GatewayModel
WT == INSTANCE WrappedTools

langchain == <<setup, what, parent, at, marker, permitted, checks, rootOf, owned,
               calls, emitted, aside, spans, landed, opened, closed, lost>>
adk == <<govern, serves, asks, mixed, bound, pendingLlm, previousRun, answered, openRuns,
         closedRuns, tool, caller, pendingTool, toolSpans, reported, missed>>
gateway_model == <<contents, request, answer, fed, textParts, functionCalls, delivered>>
wrappers == <<stored, step, form, inRun, end, outcome, sent, eaten>>
agentVars == <<framework, vars, langchain, adk, gateway_model, wrappers>>

AgentInit ==
  /\ framework \in {"own_code", "langchain", "google_adk", "gateway_model", "wrappers"}
  /\ GuardInit /\ LC!LCInit /\ Adk!AdkInit /\ GM!GMInit /\ WT!WTInit
  /\ framework # "langchain" => setup = {}
  /\ framework # "google_adk" => govern

Calls ==
  /\ framework = "own_code" /\ GuardNext
  /\ UNCHANGED <<framework, langchain, adk, gateway_model, wrappers>>

LangChain ==
  /\ framework = "langchain" /\ LC!LCNext
  /\ UNCHANGED <<framework, vars, adk, gateway_model, wrappers>>

GoogleAdk ==
  /\ framework = "google_adk" /\ Adk!AdkNext
  /\ UNCHANGED <<framework, vars, langchain, gateway_model, wrappers>>

ModelCalls ==
  /\ framework = "gateway_model" /\ GM!GMNext
  /\ UNCHANGED <<framework, vars, langchain, adk, wrappers>>

WrappedCalls ==
  /\ framework = "wrappers" /\ WT!WTNext
  /\ UNCHANGED <<framework, vars, langchain, adk, gateway_model>>

AgentNext == Calls \/ LangChain \/ GoogleAdk \/ ModelCalls \/ WrappedCalls

AgentSpec ==
  /\ AgentInit /\ [][AgentNext]_agentVars
  /\ \A c \in Callers : FairFor(c)

-----------------------------------------------------------------------------
(* What every way of building an agent promises *)

\* The types of all of them.
TypesOK ==
  TypeOK /\ LC!LCTypeOK /\ Adk!AdkTypeOK /\ GM!GMTypeOK /\ WT!WTTypeOK

\* Every call has its span, one and its own, as far as the stored errors of the
\* exporter allow: guard() submits a span once more, so that one of them does
\* not cost it; the adapters try once, so that each error costs the one event it
\* strikes and no other.
SpansKept ==
  OneErrorCostsNoSpan /\ LC!LCOneSpan /\ Adk!AdkOwnSpan /\ Adk!AdkToolSpans
    /\ WT!WTOneEventPerError

\* Every run that a call opened of itself is ended, and no context goes on
\* naming a run that is over, unless a stored error took the place of the run's
\* own opening or end.
RunsEnd ==
  ImplicitRunsEnd /\ LC!LCRunsEnd /\ Adk!AdkRunRestored /\ WT!WTRunsEnd

\* A telemetry error never takes the place of what the tool, the model or the
\* check ended with.
OutcomesKept == OutcomeKeptInRuns /\ []WT!WTOutcomeKept

\* A governed tool runs only on an ALLOW, or where the agent fails open.
ToolsPermitted == RunsOnlyPermitted /\ []LC!LCPermitted

\* What the model is sent is a conversation that backends accept.
ChatAnswered == GM!ChatAnswered

\* What it answers reaches ADK whole.
StreamWhole == GM!StreamWhole
=============================================================================
