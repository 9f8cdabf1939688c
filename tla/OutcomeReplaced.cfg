\* One call outside any run() block.
SPECIFICATION GuardSpec
CONSTANTS
  Callers = {c1}
  FailOpen = FALSE
  FailOpenTelemetry = FALSE
PROPERTY
  OutcomeKept
