SPECIFICATION Spec
CONSTANTS
  Tickets = {t1, t2, t3}
  Lots = {1}
  NoLot = NoLot
  NoTrade = NoTrade
  Torn = Torn
  NoFile = NoFile
  DayLength = 2
  Retention = 2
  Cap = 2
  MaxClock = 2
  MaxCrashes = 1
  MaxSets = 1
  MaxDeals = 3
SYMMETRY MCSymmetry
INVARIANTS
  TypeOK
  Durable
  LotKept
CHECK_DEADLOCK FALSE
