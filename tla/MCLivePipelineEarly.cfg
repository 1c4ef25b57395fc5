SPECIFICATION PipelineSpec
CONSTANTS
  e1 = e1
  e2 = e2
  e3 = e3
  NaN = NaN
  None = None
  Ids = {e1}
  Hex <- MCHex
  Lower <- MCLower
  ValueText <- MCValueText
  BigInt <- MCBigInt
  NotANumber = NaN
  NoNonce = None
  NoTransfer = None
  Auth <- MCAuth
  Transfers <- OneTransfer
  Outcomes = {"paid", "rejected", "upstream_timeout", "unknown"}
  WatchTimeout = 2
  SweepInterval = 1
  Latency = 0
  Horizon = 1
  MaxDeliveries = 1
  MaxQueue = 1
INVARIANTS
  ChainSaysYes
CHECK_DEADLOCK FALSE
