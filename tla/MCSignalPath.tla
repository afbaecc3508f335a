--------------------------- MODULE MCSignalPath ---------------------------
(* Six ticks that wrap every ring around, each far enough from the one before *)
(* to close candles or stamped late, into the same candle or the one before.  *)
(* The strategy's candles are M5 ones, as configured; the periods divide each *)
(* other, as five minutes, fifteen and an hour do.                            *)
EXTENDS SignalPath

MCArrivals == {<<5, 0>>, <<1, 2>>}
MCEvents == {<<"USD", 9>>, <<"EUR", 4>>}
MCFileSettings == [ml |-> TRUE, least |-> 75, leastRange |-> 65, chop |-> TRUE, dual |-> TRUE]
MCPeriods == [Base |-> 2, M5 |-> 2, M15 |-> 4, H1 |-> 8]
=============================================================================
