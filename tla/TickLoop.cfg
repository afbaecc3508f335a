SPECIFICATION Spec
CONSTANTS
  Ids = {p1, p2}
  Symbols = {"XAUUSD", "EURUSD"}
  Gold = {"XAUUSD"}
  Config <- MCConfig
  Untracked = Untracked
  Gains <- MCFewGains
  ATRs = {100, 400}
  StopLevels <- MCStops
  TargetLevels <- MCFewTargets
  LotSizes = {1, 2}
SYMMETRY MCSymmetry
INVARIANTS
  TypeOK
  StagesHold
  BrokerStopFollows
  BooksAgree
PROPERTIES
  StopsRatchet
  MovedStopNeverFires
CHECK_DEADLOCK FALSE
