SPECIFICATION FairSpec
CONSTANTS
  Orders <- MCOrders
  Symbols = {"XAUUSD", "EURUSD"}
  SymbolOf <- MCSymbolOf
  Workers = {w1, w2}
  QueueSize = 1
  Window = 2
  MaxClock = 3
  None = None
INVARIANTS
  TypeOK
  NoPhantomKey
  GuardHoldsWhilePrompt
PROPERTIES
  ImplementsDesk
  EveryOrderAnswered
  ShutdownCompletes
CHECK_DEADLOCK FALSE
