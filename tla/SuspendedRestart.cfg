\* The agent restarts its governor during an outage.
SPECIFICATION FairSpec
CONSTANTS
  Callers = {c1}
  Tools = {t1}
  Threshold = 1
  Cooldown = 1
  FailOpen = TRUE
  MaxStale = 2
  MaxTracked = 1
  Rechecks = 0
  Restarts = TRUE
  Torn = FALSE
PROPERTIES
  ReportedSuspensionHolds
