SPECIFICATION Spec
CONSTANTS
  c1 = c1
  c2 = c2
  c3 = c3
  Window <- MCWindow
  Threshold = 2
  Checks = {c1, c2, c3}
  UrlOf <- MCUrlOf
  EarlierLogs <- MCEarlierLogs
  AnswersGiven = {"responsive", "5xx", "ENOTFOUND"}
  Ticks = {2, 3}
  MaxTime = 5
  None = None
INVARIANTS
  ReachTypeOK
  UnreachableIsWitnessed
SYMMETRY Symmetry
CHECK_DEADLOCK FALSE
