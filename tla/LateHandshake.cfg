\* The asynchronous manager: rebind() takes no lock, and a handshake that is out
\* for the previous identity is cached when it returns.
SPECIFICATION Spec
CONSTANTS
  Callers = {c1}
  Identities = {i1, i2}
  Async = TRUE
INVARIANTS
  SessionIsBound
