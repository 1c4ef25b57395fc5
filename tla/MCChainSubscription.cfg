SPECIFICATION FairSpec
CONSTANTS
  NumLogs = 3
  BlockOf <- MCBlockOf
  FirstOf <- OneBatch
  Polls = {p1, p2}
  FromBlock = Unset
  Unset = Unset
  MaxHeight = 2
  MaxFailures = 1
  MaxWaiters = 1
INVARIANTS
  TypeOK
  Covers
  CursorCovers
  NothingFromThePast
  NoCallStranded
  NoneWaitsWhenDone
  QueuedUntilHanded
PROPERTIES
  EveryLogDelivered
CHECK_DEADLOCK FALSE
