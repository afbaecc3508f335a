---------------------------- MODULE MCLiveSync -----------------------------
(* One symbol, so that its positions follow one another under every race;    *)
(* orders placed with one of two stops, two faults.                          *)
EXTENDS LiveSync

MCFirstStops == {1, 2}
=============================================================================
