----------------------------- MODULE MCMt5Link -----------------------------
(* One user of the adapter with one command, next to the heartbeats of three *)
(* connections and two faults, which use up three connections at the most.       *)
EXTENDS Mt5Link
=============================================================================
