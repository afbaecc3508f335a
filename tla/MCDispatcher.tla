---------------------------- MODULE MCDispatcher ----------------------------
(* Two orders of one symbol and one of another, two workers, queue of one.   *)
EXTENDS Dispatcher

MCSymbolOf == [o1 |-> "XAUUSD", o2 |-> "XAUUSD", o3 |-> "EURUSD"]
MCOrders == DOMAIN MCSymbolOf
=============================================================================
