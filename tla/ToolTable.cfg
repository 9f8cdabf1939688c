\* One caller and one tool more than the table of decisions holds.
SPECIFICATION Spec
CONSTANTS
  Callers = {c1}
  Tools = {t1, t2, t3}
  Threshold = 2
  Cooldown = 1
  FailOpen = TRUE
  MaxStale = 1
  MaxTracked = 2
  Rechecks = 1
  Restarts = TRUE
  Torn = TRUE
INVARIANTS
  RecentDecisionsKept
