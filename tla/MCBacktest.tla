----------------------------- MODULE MCBacktest -----------------------------
(* The default engine on gold: ticks of New Year's eve and of today; small    *)
(* accounts, so that losses reach the breaker and the end of the equity.      *)
EXTENDS Backtest

MCConfig ==
    [trailing |-> TRUE, trailATR |-> TRUE, trailPips |-> 150, trailMult |-> 15,
     breakEven |-> TRUE, bePips |-> 200, beBuffer |-> 20,
     locker |-> TRUE, stageMult |-> <<10, 18, 25>>,
     partial |-> TRUE, ratio |-> 50, tp1 |-> 300, tp2 |-> 600,
     timeStop |-> TRUE, autoRemove |-> TRUE]

MCSymbols == {"XAUUSD"}
MCSignals == {[side |-> "BUY", sl |-> 100, tp |-> 2000], [side |-> "SELL", sl |-> 0, tp |-> 400]}
MCGains == {-400, 100, 520}
MCDays == {365}
=============================================================================
