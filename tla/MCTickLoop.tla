----------------------------- MODULE MCTickLoop -----------------------------
(* The default configuration (config/default.yaml), one lot that is too small *)
(* to split and one that is not; gains on both sides of every threshold.      *)
EXTENDS TickLoop, TLC

MCConfig ==
    [trailing |-> TRUE, trailATR |-> TRUE, trailPips |-> 150, trailMult |-> 15,
     breakEven |-> TRUE, bePips |-> 200, beBuffer |-> 20,
     locker |-> TRUE, stageMult |-> <<10, 18, 25>>,
     partial |-> TRUE, ratio |-> 50, tp1 |-> 400, tp2 |-> 800,
     timeStop |-> TRUE, autoRemove |-> TRUE]

MCGains == {-400, 100, 320, 520, 640, 880}
MCFewGains == {-400, 320, 640, 880}
MCStops == {-300, NoStop}
MCTargets == {640, 1200, NoTarget}
MCFewTargets == {640, 1200}
MCSymmetry == Permutations(Ids)
=============================================================================
