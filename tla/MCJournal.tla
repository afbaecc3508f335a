----------------------------- MODULE MCJournal -----------------------------
(* Three trades, one more than the files hold, one of them in two deals; two *)
(* days of two units each, so that trades grow too old; one lot set by a     *)
(* user and one crash, anywhere on the way.                                  *)
EXTENDS Journal, TLC

MCSymmetry == Permutations(Tickets)
=============================================================================
