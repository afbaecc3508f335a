----------------------------- MODULE OrderDesk -----------------------------
(***************************************************************************)
(* What the executor promises its callers about an order, whatever its     *)
(* queue and workers do: an accepted order is executed at the broker once, *)
(* and after that its outcome is reported once; an order that was refused  *)
(* never reaches the broker.                                               *)
(***************************************************************************)
EXTENDS Naturals

CONSTANT Orders

VARIABLES
    accepted,   \* the orders taken in
    executed,   \* how often each order was executed at the broker
    notified    \* how often the outcome of each order was reported

deskVars == <<accepted, executed, notified>>

DeskInit ==
    /\ accepted = {}
    /\ executed = [o \in Orders |-> 0]
    /\ notified = [o \in Orders |-> 0]

Accept(o) ==
    /\ o \notin accepted
    /\ accepted' = accepted \cup {o}
    /\ UNCHANGED <<executed, notified>>

ExecuteOnce(o) ==
    /\ o \in accepted /\ executed[o] = 0
    /\ executed' = [executed EXCEPT ![o] = 1]
    /\ UNCHANGED <<accepted, notified>>

NotifyOnce(o) ==
    /\ executed[o] = 1 /\ notified[o] = 0
    /\ notified' = [notified EXCEPT ![o] = 1]
    /\ UNCHANGED <<accepted, executed>>

DeskNext == \E o \in Orders : Accept(o) \/ ExecuteOnce(o) \/ NotifyOnce(o)

DeskSpec == DeskInit /\ [][DeskNext]_deskVars
=============================================================================
