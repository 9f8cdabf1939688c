\* Two callers beside the stream's reader, two identities.
SPECIFICATION FairSpec
CONSTANTS
  Callers = {c1, c2}
  Identities = {i1, i2}
  Async = FALSE
INVARIANTS
  TypeOK
  SessionIsBound
  HandshakeNeeded
  RetryIsFresh
  ConnectedMeansOpen
PROPERTIES
  CallsEnd
  ReaderEnds
