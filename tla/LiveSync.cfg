SPECIFICATION FairSpec
CONSTANTS
  Symbols = {XAUUSD}
  FirstStops <- MCFirstStops
  MaxStop = 3
  Nobody = Nobody
  MaxTickets = 2
  MaxFaults = 2
INVARIANTS
  TypeOK
  OnePerSymbol
  OwnTicket
  RecordedOnce
  AtMostOneAfterHalt
PROPERTIES
  Settles
CHECK_DEADLOCK FALSE
