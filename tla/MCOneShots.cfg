SPECIFICATION Spec
CONSTANTS
  NoObject = NoObject
  NoText = NoText
  Window <- MCWindow
  Threshold = 2
  Options <- MCOptions
  Manifests <- MCManifests
  Challenges <- MCChallenges
  Listings <- MCListings
  EarlierProbes <- MCEarlierProbes
  Late = 21
  NoBody = NoBody
  NoList = NoList
  NoEntry = NoEntry
  NoTerms = NoTerms
  Absent = Absent
  NotANumber = NotANumber
  CommandLines <- MCCommandLines
  Bodies402 <- MCBodies402
  Balances = {100, 500}
  KnownAliases = {"cdp", "xpay"}
  Verifications <- MCVerifications
  Questions <- MCQuestions
  Receipts <- MCReceipts
  Unspecified = Unspecified
  MaxHead = 3
INVARIANTS
  OneShotsTypeOK
  VerdictsEarned
  ValidateExitEarned
  LookupEarned
PROPERTIES
  ProgramsEnd
CHECK_DEADLOCK FALSE
