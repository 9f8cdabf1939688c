\* Two callers share the stored error; checks and telemetry may both fail.
\* A tree of three LangChain calls with one wrapped tool and one bare one, two
\* ADK agents over two invocations, a conversation of three contents.
SPECIFICATION AgentSpec
CONSTANTS
  Callers = {c1, c2}
  FailOpen = TRUE
  FailOpenTelemetry = FALSE
  MaxNodes = 3
  Tools = {"wrapped", "bare"}
  Wrapped = {"wrapped"}
  Agents = {a1, a2}
  Invocations = {v1, v2}
  ToolCalls = {k1}
  Nowhere = nowhere
  MaxLost = 1
  MaxTurns = 3
  Wrappers = {w1}
INVARIANTS
  TypesOK
  SpansKept
  RunsEnd
  ChatAnswered
  StreamWhole
PROPERTIES
  OutcomesKept
  ToolsPermitted
  CallsReturn
