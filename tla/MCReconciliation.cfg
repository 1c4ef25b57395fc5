SPECIFICATION Spec
CONSTANTS
  e1 = e1
  e2 = e2
  e3 = e3
  NaN = NaN
  None = None
  Ids = {e1, e2, e3}
  Hex <- MCHex
  Lower <- MCLower
  ValueText <- MCValueText
  BigInt <- MCBigInt
  NotANumber = NaN
  NoNonce = None
  NoTransfer = None
  Auth <- MCAuth
  Transfers <- RetryTransfers
  Outcomes = {"paid", "rejected"}
  WatchTimeout = 2
  SweepInterval = 1
  Latency = 0
  Horizon = 1
  MaxDeliveries = 1
INVARIANTS
  TypeOK
  Inductive
  Accounted
  NoTransferWasted
  OldestFirst
  HeldBounded
  VerdictsJustified
PROPERTIES
  ImplementsExchangeWatch
CHECK_DEADLOCK FALSE
