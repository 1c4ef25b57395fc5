SPECIFICATION Spec
CONSTANTS
  Subs = {s1, s2}
  MaxQueue = 2
  MaxEvents = 5
  MaxCalls = 3
SYMMETRY Interchangeable
INVARIANTS
  TypeOK
  NoCallLeftWaiting
  NewestKept
  EveryEventCounted
  AnsweredInOrder
  OverIsFinal
CHECK_DEADLOCK FALSE
