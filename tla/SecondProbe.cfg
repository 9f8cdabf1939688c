\* A call that left while the circuit was closed fails while a probe is out.
SPECIFICATION Spec
CONSTANTS
  Callers = {c1, c2, c3}
  Tools = {t1}
  Threshold = 1
  Cooldown = 1
  FailOpen = FALSE
  MaxStale = 1
  MaxTracked = 1
  Rechecks = 0
  Restarts = FALSE
  Torn = FALSE
INVARIANTS
  AtMostOneProbe
