----------------------------- MODULE MCRiskGate -----------------------------
(* XAUUSDc, a cent symbol, and GOLD; two losses of one unit reach the limit.  *)
EXTENDS RiskGate

MCSymbols == {"XAUUSD", "GOLD"}
MCGoldCent == {"XAUUSD"}
MCPnLs == {-1, 1}
MCEquities == {0, 2}
MCNoSkew == {0}
MCServerAhead == {0, 1}
=============================================================================
