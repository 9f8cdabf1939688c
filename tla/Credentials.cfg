\* Two processes of one agent name, beside an identity that came from elsewhere.
SPECIFICATION Spec
CONSTANTS
  Procs = {p1, p2}
  MaxIds = 3
  MaxKeys = 2
  MaxRetries = 1
  Environments = {"none", "full", "key"}
INVARIANTS
  TypeOK
  OneKeyPerCall
  KeyHeld
  PairMatches
PROPERTIES
  KeysReplacedKnowingly
