SPECIFICATION FairReplaySpec
CONSTANTS
  e1 = e1
  e2 = e2
  e3 = e3
  NaN = NaN
  None = None
  Ids = {e1, e2, e3}
  Hex <- MCHex
  Lower <- MCLower
  ValueText <- MCValueText
  BigInt <- MCBigInt
  NotANumber = NaN
  NoNonce = None
  NoTransfer = None
  Auth <- MCAuth
  Transfers <- MCTransfers
  WatchTimeout = 2
  MaxQueue = 1
  Logs <- MCLogs
  Unreadable = Unreadable
INVARIANTS
  ReplayAgreesWithLog
  NothingLeftPending
PROPERTIES
  ReplayEnds
CHECK_DEADLOCK FALSE
