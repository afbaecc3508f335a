SPECIFICATION PipelineSpec
CONSTANTS
  Symbols <- MCSymbols
  Gold <- MCSymbols
  GoldCent = {}
  InitialEquity = 5
  DrawdownLimit = 1
  InitialTarget = 2
  InitialMaxOpen = 2
  InitialMinLot = 1
  InitialMaxLot = 1
  InitialMaxSpread = 60
  TickSkew <- MCNoSkew
  LocalSkew <- MCNoSkew
  NoOrder = NoOrder
  Results <- MCPnLs
  Prompt = TRUE
  MaxOrders = 4
  MaxResult = 3
  LastDay = 2
INVARIANTS
  TotalAgrees
  NoStacking
  AtMostOneLateOrder
CHECK_DEADLOCK FALSE
