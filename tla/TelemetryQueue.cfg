\* Two events more than the queue holds, in batches smaller than the queue.
SPECIFICATION FairSpec
CONSTANTS
  Submitters = {s1, s2}
  MaxEvents = 5
  QueueMax = 3
  BatchSize = 2
  FailOpen = FALSE
INVARIANTS
  TypeOK
  NothingLostSilently
  InOnePlace
  StopLosesNothing
PROPERTIES
  EventsSettle
\* After stop() nothing runs any more.
CHECK_DEADLOCK FALSE
