\* Two callers on one tool, failing open.  Two failures open the circuit.
SPECIFICATION FairSpec
CONSTANTS
  Callers = {c1, c2}
  Tools = {t1}
  Threshold = 2
  Cooldown = 1
  FailOpen = TRUE
  MaxStale = 1
  MaxTracked = 1
  Rechecks = 1
  Restarts = FALSE
  Torn = FALSE
INVARIANTS
  TypeOK
  NotWedged
  OpenExactlyOnStreak
  DegradesOnCleanKnowledge
PROPERTIES
  KeepsPromise
  ChecksSettle
  CircuitRecovers
