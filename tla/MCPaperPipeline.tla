-------------------------- MODULE MCPaperPipeline --------------------------
(* Two gold symbols, as -symbols allows; one position in total by default.   *)
EXTENDS PaperPipeline

MCSymbols == {"XAUUSD", "GOLD"}
MCPnLs == {-1, 1}
MCNoSkew == {0}
=============================================================================
