\* No user thread is needed.
SPECIFICATION Spec
CONSTANTS
  Users = {}
  Lifecycles = {"active", "suspended", "revoked"}
  Stoppable = {"active", "suspended", "revoked"}
  Pushed = {"active", "suspended", "revoked"}
PROPERTIES
  PushConfirmed
