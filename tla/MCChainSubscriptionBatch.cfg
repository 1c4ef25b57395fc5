SPECIFICATION Spec
CONSTANTS
  NumLogs = 3
  BlockOf <- MCBlockOf
  FirstOf <- OneBatch
  Polls = {p1}
  FromBlock = Unset
  Unset = Unset
  MaxHeight = 2
  MaxFailures = 0
  MaxWaiters = 1
INVARIANTS
  EveryEventEmitted
CHECK_DEADLOCK FALSE
