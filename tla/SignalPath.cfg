SPECIFICATION Spec
CONSTANTS
  Prices = {2000000, 2009000}
  HalfSpread = 100
  ATRs = {1000}
  Discounts = {0}
  Arrivals <- MCArrivals
  WarmUp = 3
  Periods <- MCPeriods
  BufferSize = 3
  VelocitySize = 2
  Window = 4
  RingSize = 2
  MaxHistory = 3
  EnoughM5 = 2
  WarmM5 = 1
  EnoughH1 = 2
  FastEMA = 1
  SlowEMA = 2
  SnapshotGap = 3
  MaxSnapshots = 2
  Rederive = 2
  QueueSize = 1
  Spacing = 6
  Events <- MCEvents
  BlackoutBefore = 1
  BlackoutAfter = 1
  LeastInWindow = 0
  MostInWindow = 2
  FileSettings <- MCFileSettings
  Percents = {30, 80}
  None = None
  MaxTicks = 6
INVARIANTS
  RecentTicks
  CandlesAgree
  OrdersSound
CHECK_DEADLOCK FALSE
