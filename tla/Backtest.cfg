SPECIFICATION Spec
CONSTANTS
  Ids = {1, 2}
  Symbols <- MCSymbols
  Gold <- MCSymbols
  Symbol = "XAUUSD"
  Config <- MCConfig
  Untracked = Untracked
  NoOrder = NoOrder
  InitialEquity = 700
  DrawdownLimit = 300
  InitialMinLot = 1
  InitialMaxLot = 2
  Slippage = 1
  Commission = 4
  Signals <- MCSignals
  Gains <- MCGains
  ATRs = {100}
  Spreads = {20}
  RawLots = {1, 2}
  FirstDays <- MCDays
  MaxSamples = 2
INVARIANTS
  BooksAgree
  LedgersAgree
  DrawdownIsWorst
CHECK_DEADLOCK FALSE
