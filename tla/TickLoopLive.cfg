SPECIFICATION FairSpec
CONSTANTS
  Ids = {1}
  Symbols = {"XAUUSD", "EURUSD"}
  Gold = {"XAUUSD"}
  Config <- MCConfig
  Untracked = Untracked
  Gains <- MCGains
  ATRs = {100, 400}
  StopLevels <- MCStops
  TargetLevels <- MCTargets
  LotSizes = {1, 2}
PROPERTIES
  OverdueCloses
CHECK_DEADLOCK FALSE
