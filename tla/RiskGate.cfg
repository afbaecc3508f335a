SPECIFICATION Spec
CONSTANTS
  Symbols <- MCSymbols
  Gold <- MCSymbols
  GoldCent <- MCGoldCent
  InitialEquity = 2
  DrawdownLimit = 2
  InitialTarget = 2
  InitialMaxOpen = 1
  InitialMinLot = 1
  InitialMaxLot = 5
  InitialMaxSpread = 60
  TickSkew <- MCNoSkew
  LocalSkew <- MCNoSkew
  NoOrder = NoOrder
  PnLs <- MCPnLs
  Equities <- MCEquities
  Spreads = {20, 50}
  RawLots = {1, 9}
  UserLots = {2}
  LotCaps = {3, 5}
  OpenCaps = {2}
  Targets = {0}
  MaxDay = 2
  MaxPnL = 2
  MaxPositions = 1
INVARIANTS
  TypeOK
  BreachOpensBreaker
PROPERTIES
  NoApprovalAfterBreach
  HaltLastsTheDay
  SizedLotsRespectCap
CHECK_DEADLOCK FALSE
