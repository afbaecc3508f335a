----------------------------- MODULE Mt5Proofs -----------------------------
(***************************************************************************)
(* The bot's two loops with the terminal: the positions it follows there   *)
(* (LiveSync) and the command connection its calls go over (Mt5Link).      *)
(*                                                                         *)
(* For every set of symbols, every bound and every stop: at most one order *)
(* after a halt, every trade recorded once, one position per symbol, each  *)
(* under its own record.                                                   *)
(*                                                                         *)
(* For any number of callers, connections, commands and faults: the answer *)
(* an adapter call returns is its own, and a connection that is not the    *)
(* current one is closed.  RequestID is never compared, so the first rests *)
(* on where lines can be: a connection has at most one line under way;     *)
(* between two calls the connection in use has none; and a connection that *)
(* was given up with a line on it is never in use again, because `ready'   *)
(* stays down until a connection nobody has used takes its place.          *)
(***************************************************************************)
EXTENDS LiveSync, Mt5Link, FiniteSetTheorems, TLAPS

-----------------------------------------------------------------------------
(* After a halt.                                                            *)

\* The order that counts as late has left the consumer, and no other is approved
\* before the halt ends.
LateOrderGone ==
    /\ late \in {0, 1}
    /\ late = 1 => halted /\ consumer = Nobody

\* Once trading is halted (kill switch, pause), at most the order the consumer had had
\* approved reaches the dispatcher: main.go:2355 before main.go:2668.
THEOREM HaltStopsOrders == Spec => []AtMostOneAfterHalt
<1>1. Init => LateOrderGone
  BY DEF Init, LateOrderGone
<1>2. LateOrderGone /\ [Next]_vars => LateOrderGone'
  <2> SUFFICES ASSUME LateOrderGone, [Next]_vars PROVE LateOrderGone'
    OBVIOUS
  <2> USE DEF LateOrderGone
  <2>1. CASE Reconcile
    BY <2>1 DEF Reconcile, List, SyncPositions, Prune, ApplyOne, FinishSync, orders
  <2>2. ASSUME NEW t \in Tickets, TickTightens(t) \/ TickCloses(t) PROVE LateOrderGone'
    BY <2>2 DEF TickTightens, TickCloses, orders
  <2>3. CASE SendModification
    BY <2>3 DEF SendModification, orders
  <2>4. ASSUME NEW s \in Symbols, Approve(s) \/ SpacingOver(s) PROVE LateOrderGone'
    BY <2>4 DEF Approve, SpacingOver
  <2>5. CASE Drop \/ Submit
    BY <2>5 DEF Drop, Submit
  <2>6. CASE Worker
    BY <2>6 DEF Worker, ExecuteOrder, RejectOrder, RecordFill, LeaveLevels
  <2>7. CASE TogglePause
    BY <2>7 DEF TogglePause
  <2>8. ASSUME NEW t \in Tickets, UserCloses(t) \/ TerminalCloses(t) PROVE LateOrderGone'
    BY <2>8 DEF UserCloses, TerminalCloses, orders
  <2>9. CASE UNCHANGED vars
    BY <2>9 DEF vars, orders
  <2>10. QED
    BY <2>1, <2>2, <2>3, <2>4, <2>5, <2>6, <2>7, <2>8, <2>9 DEF Next
<1>3. LateOrderGone => AtMostOneAfterHalt
  BY DEF LateOrderGone, AtMostOneAfterHalt
<1>4. QED
  BY <1>1, <1>2, <1>3, PTL DEF Spec

-----------------------------------------------------------------------------
(* One record per trade.                                                    *)

Issued == 1..Len(symbolOf)
Names == Symbols \cup {Nobody}

\* Every ticket anyone knows of was issued by the terminal.
TicketsIssued ==
    /\ symbolOf \in Seq(Names) /\ consumer \in Names
    /\ worker \in [at : {"idle", "queued", "filled", "counted"}, symbol : Names, stop : Nat]
    /\ Open \subseteq Issued
    /\ sync = [at |-> sync.at, list |-> sync.list, todo |-> sync.todo]
    /\ sync.at \in {"rest", "count", "prune", "apply"}
    /\ DOMAIN sync.list \subseteq Issued /\ sync.todo \subseteq DOMAIN sync.list
    /\ tracked = [t \in Tickets |-> tracked[t]]
    /\ Tracked \subseteq Issued

\* Until it is used up, a list has every tracked position that is still open: what
\* opened since is not tracked yet.
ListComplete ==
    sync.at \in {"count", "prune"} => Tracked \cap Open \subseteq DOMAIN sync.list

\* A recorded trade is out of every book for good.
RecordedGone ==
    \A t \in Tickets :
        /\ recorded[t] \in {0, 1}
        /\ recorded[t] = 1 => t \in Issued \ (Open \cup Tracked \cup DOMAIN sync.list)

SyncInv == TicketsIssued /\ ListComplete /\ RecordedGone

LEMMA SyncInvInit == Init => SyncInv
BY DEF Init, SyncInv, TicketsIssued, ListComplete, RecordedGone, Idle, Resting, Open, Tracked,
       Issued, Names, Tickets

\* A step that leaves lists, tracker and records alone and opens nothing keeps it all.
LEMMA ClosingKeeps ==
    ASSUME SyncInv, UNCHANGED <<symbolOf, sync, tracked, recorded>>,
           Open' \subseteq Open, consumer' \in Names,
           worker' \in [at : {"idle", "queued", "filled", "counted"}, symbol : Names, stop : Nat]
    PROVE  SyncInv'
BY DEF SyncInv, TicketsIssued, ListComplete, RecordedGone, Tracked, Issued

LEMMA ListKeeps == SyncInv /\ List => SyncInv'
BY DEF List, SyncInv, TicketsIssued, ListComplete, RecordedGone, Tracked, Issued, Open,
       terminal, books

LEMMA CountKeeps == SyncInv /\ SyncPositions => SyncInv'
BY DEF SyncPositions, SyncInv, TicketsIssued, ListComplete, RecordedGone, Tracked, Issued, Open,
       terminal, orders

LEMMA PruneKeeps == SyncInv /\ Prune => SyncInv'
<1> SUFFICES ASSUME SyncInv, Prune PROVE SyncInv'
  OBVIOUS
<1> DEFINE gone == Tracked \ DOMAIN sync.list
<1> USE DEF SyncInv, TicketsIssued
<1>1. Open' = Open /\ Issued' = Issued /\ sync'.list = sync.list /\ sync'.at = "apply"
  BY DEF Prune, Open, Issued, terminal
<1>2. Tracked' = Tracked \ gone
  BY DEF Prune, Tracked
<1>3. gone \cap Open = {}
  BY DEF Prune, ListComplete
<1>4. TicketsIssued'
  <2>1. UNCHANGED <<symbolOf, consumer, worker>>
    BY DEF Prune, orders, terminal
  <2>2. /\ sync' = [at |-> sync'.at, list |-> sync'.list, todo |-> sync'.todo]
        /\ sync'.todo \subseteq DOMAIN sync.list
    BY DEF Prune
  <2>3. tracked' = [t \in Tickets |-> tracked'[t]]
    BY DEF Prune
  <2> QED BY <1>1, <1>2, <2>1, <2>2, <2>3
<1>5. ListComplete'
  BY <1>1 DEF ListComplete
<1>6. RecordedGone'
  <2> SUFFICES ASSUME NEW t \in Tickets
               PROVE  /\ recorded'[t] \in {0, 1}
                      /\ recorded'[t] = 1 =>
                            t \in Issued \ (Open \cup Tracked' \cup DOMAIN sync.list)
    BY <1>1 DEF RecordedGone
  <2>1. CASE t \in gone
    BY <2>1, <1>2, <1>3 DEF RecordedGone, Prune
  <2>2. CASE t \notin gone
    BY <2>2, <1>2 DEF RecordedGone, Prune
  <2> QED BY <2>1, <2>2
<1> QED BY <1>4, <1>5, <1>6

LEMMA ApplyKeeps == SyncInv /\ ApplyOne => SyncInv'
<1> SUFFICES ASSUME SyncInv, ApplyOne PROVE SyncInv'
  OBVIOUS
<1> USE DEF SyncInv, TicketsIssued
<1>1. PICK t \in sync.todo : Apply(t) /\ sync' = [sync EXCEPT !.todo = @ \ {t}]
  BY DEF ApplyOne
<1>2. /\ Open' = Open /\ Issued' = Issued /\ recorded' = recorded
      /\ sync'.list = sync.list /\ sync'.at = "apply" /\ sync'.todo \subseteq sync.todo
      /\ sync' = [at |-> sync'.at, list |-> sync'.list, todo |-> sync'.todo]
  BY <1>1 DEF ApplyOne, Open, Issued, terminal
<1>3. /\ Tracked' \subseteq Tracked \cup {t}
      /\ tracked' = [u \in Tickets |-> tracked'[u]]
  BY <1>1 DEF Apply, Tracked, SameSymbol
<1>4. TicketsIssued'
  BY <1>2, <1>3 DEF ApplyOne, orders, terminal
<1>5. ListComplete'
  BY <1>2 DEF ListComplete
<1>6. RecordedGone'
  BY <1>2, <1>3 DEF RecordedGone
<1> QED BY <1>4, <1>5, <1>6

LEMMA FinishKeeps == SyncInv /\ FinishSync => SyncInv'
BY DEF FinishSync, SyncInv, TicketsIssued, ListComplete, RecordedGone, Tracked, Issued, Open,
       Resting, books

LEMMA ExecuteKeeps == SyncInv /\ ExecuteOrder => SyncInv'
<1> SUFFICES ASSUME SyncInv, ExecuteOrder PROVE SyncInv'
  OBVIOUS
<1> USE DEF SyncInv, TicketsIssued
<1> DEFINE new == Len(symbolOf) + 1
<1>1. /\ symbolOf' \in Seq(Names) /\ Issued' = Issued \cup {new} /\ new \notin Issued
  BY DEF ExecuteOrder, Issued
<1>2. Open' = Open \cup {new}
  BY DEF ExecuteOrder, Open
<1>3. UNCHANGED <<sync, tracked, recorded, consumer>> /\ Tracked' = Tracked
  BY DEF ExecuteOrder, books, Tracked
<1>4. worker' \in [at : {"idle", "queued", "filled", "counted"}, symbol : Names, stop : Nat]
  BY DEF ExecuteOrder, Idle, Names
<1>5. TicketsIssued'
  BY <1>1, <1>2, <1>3, <1>4
<1>6. ListComplete' /\ RecordedGone'
  BY <1>1, <1>2, <1>3 DEF ListComplete, RecordedGone
<1> QED BY <1>5, <1>6

LEMMA SyncInvNext == SyncInv /\ [Next]_vars => SyncInv'
<1> SUFFICES ASSUME SyncInv, [Next]_vars PROVE SyncInv'
  OBVIOUS
<1>0. /\ consumer \in Names
      /\ worker \in [at : {"idle", "queued", "filled", "counted"}, symbol : Names, stop : Nat]
  BY DEF SyncInv, TicketsIssued
<1>1. CASE Reconcile
  BY <1>1, ListKeeps, CountKeeps, PruneKeeps, ApplyKeeps, FinishKeeps DEF Reconcile
<1>2. ASSUME NEW t \in Tickets, TickTightens(t) PROVE SyncInv'
  BY <1>2 DEF TickTightens, SyncInv, TicketsIssued, ListComplete, RecordedGone, Tracked,
              Issued, Open, terminal, orders
<1>3. ASSUME NEW t \in Tickets, TickCloses(t) PROVE SyncInv'
  BY <1>3, <1>0, ClosingKeeps DEF TickCloses, Without, Open, books, orders
<1>4. CASE SendModification
  BY <1>4, <1>0, ClosingKeeps DEF SendModification, Open, books, orders
<1>5. ASSUME NEW s \in Symbols, Approve(s) \/ SpacingOver(s) PROVE SyncInv'
  BY <1>5, <1>0, ClosingKeeps DEF Approve, SpacingOver, Names, Open, terminal, books
<1>6. CASE Drop
  BY <1>6, <1>0, ClosingKeeps DEF Drop, Names, Open, terminal, books
<1>7. CASE Submit
  <2>1. FirstStops \subseteq Nat
    BY SyncAssumption
  <2> QED BY <2>1, <1>7, <1>0, ClosingKeeps DEF Submit, Names, Open, terminal, books
<1>8. CASE Worker
  <2>1. CASE ExecuteOrder
    BY <2>1, ExecuteKeeps
  <2>2. CASE RejectOrder \/ LeaveLevels
    BY <2>2, <1>0, ClosingKeeps DEF RejectOrder, LeaveLevels, Idle, Names, Open, terminal, books
  <2>3. CASE RecordFill
    BY <2>3, <1>0, ClosingKeeps DEF RecordFill, Open, terminal
  <2> QED BY <1>8, <2>1, <2>2, <2>3 DEF Worker
<1>9. CASE TogglePause
  BY <1>9, <1>0, ClosingKeeps DEF TogglePause, Open, terminal, books
<1>10. ASSUME NEW t \in Tickets, UserCloses(t) \/ TerminalCloses(t) PROVE SyncInv'
  BY <1>10, <1>0, ClosingKeeps DEF UserCloses, TerminalCloses, Without, Open, books, orders
<1>11. CASE UNCHANGED vars
  BY <1>11, <1>0, ClosingKeeps DEF vars, Open, terminal, books, orders
<1>12. QED
  BY <1>1, <1>2, <1>3, <1>4, <1>5, <1>6, <1>7, <1>8, <1>9, <1>10, <1>11 DEF Next

LEMMA SyncInvariant == Spec => []SyncInv
BY SyncInvInit, SyncInvNext, PTL DEF Spec

\* A trade is recorded once, and only when its position is closed: main.go:1120-1152, whose
\* list may be older than what happened since.
THEOREM TradesRecordedOnce == Spec => []RecordedOnce
<1>1. SyncInv => RecordedOnce
  BY DEF SyncInv, RecordedGone, RecordedOnce
<1> QED BY <1>1, SyncInvariant, PTL

-----------------------------------------------------------------------------
(* Types.                                                                   *)

TerminalTypes ==
    /\ symbolOf \in Seq(Symbols) /\ Len(symbolOf) <= MaxTickets
    /\ \A t \in Open : live[t] \in Stops

BookTypes ==
    /\ tracked \in [Tickets -> Record \cup {Nobody}]
    /\ counted \in [Symbols -> Nat] /\ pendingFills \in [Symbols -> Stops \cup {Nobody}]
    /\ recorded \in [Tickets -> Nat]

\* What a list and a stop change on its way hold, they took from a position.
CarriedTypes ==
    /\ \A t \in DOMAIN sync.list : sync.list[t] \in Stops
    /\ modifications = <<>>
         \/ \E m \in [ticket : Tickets, stop : Stops] : modifications = <<m>>

OrderTypes ==
    /\ consumer \in Symbols \cup {Nobody}
    /\ worker \in [at : {"idle", "queued", "filled", "counted"},
                   symbol : Symbols \cup {Nobody}, stop : 0..MaxStop]
    /\ worker.at # "idle" => worker.symbol \in Symbols /\ worker.stop \in Stops
    /\ worker.at = "queued" => Len(symbolOf) < MaxTickets
    /\ spacing \in [Symbols -> {"over", "fresh", "listed", "synced"}]
    /\ halted \in BOOLEAN /\ faults \in 0..MaxFaults /\ late \in Nat

TypeInv == SyncInv /\ TerminalTypes /\ BookTypes /\ CarriedTypes /\ OrderTypes

LEMMA OneOrNone ==
    ASSUME NEW s, s = <<>> \/ \E m : s = <<m>>
    PROVE  Len(s) <= 1 /\ (s # <<>> => Tail(s) = <<>>)
<1>1. CASE s = <<>>
  BY <1>1
<1>2. ASSUME NEW m, s = <<m>> PROVE Len(s) <= 1 /\ Tail(s) = <<>>
  <2>1. Len(<<m>>) = 1 /\ Tail(<<m>>) = <<>>
    OBVIOUS
  <2> QED BY <1>2, <2>1
<1> QED BY <1>1, <1>2

LEMMA TypeInvGivesTypeOK == TypeInv => TypeOK
<1> SUFFICES ASSUME TypeInv PROVE TypeOK
  OBVIOUS
<1>1. Len(modifications) <= 1
  BY OneOrNone DEF TypeInv, CarriedTypes
<1>2. /\ Open \subseteq 1..Len(symbolOf) /\ sync.at \in {"rest", "count", "prune", "apply"}
      /\ sync.todo \subseteq DOMAIN sync.list
  BY DEF TypeInv, SyncInv, TicketsIssued, Issued
<1> QED BY <1>1, <1>2 DEF TypeInv, TerminalTypes, BookTypes, OrderTypes, TypeOK

LEMMA TypeInvInit == Init => TypeInv
<1> SUFFICES ASSUME Init PROVE TypeInv
  OBVIOUS
<1> USE SyncAssumption DEF Init
<1>1. TerminalTypes
  BY DEF TerminalTypes, Open
<1>2. BookTypes
  BY DEF BookTypes
<1>3. CarriedTypes
  BY DEF CarriedTypes, Resting
<1>4. OrderTypes
  <2>1. worker \in [at : {"idle", "queued", "filled", "counted"},
                    symbol : Symbols \cup {Nobody}, stop : 0..MaxStop]
    BY DEF Idle
  <2>2. worker.at = "idle"
    BY DEF Idle
  <2>3. spacing \in [Symbols -> {"over", "fresh", "listed", "synced"}]
    OBVIOUS
  <2>4. consumer \in Symbols \cup {Nobody} /\ halted \in BOOLEAN
    OBVIOUS
  <2>5. faults \in 0..MaxFaults /\ late \in Nat
    <3>1. MaxFaults \in Nat /\ faults = 0 /\ late = 0
      OBVIOUS
    <3> HIDE DEF Init
    <3> QED BY <3>1
  <2> HIDE DEF Init
  <2> QED BY <2>1, <2>2, <2>3, <2>4, <2>5 DEF OrderTypes
<1> QED BY <1>1, <1>2, <1>3, <1>4, SyncInvInit DEF TypeInv

\* Tickets in a book name a symbol and, if tracked, a record.
LEMMA BookedTickets ==
    ASSUME TypeInv
    PROVE  /\ \A t \in Open \cup DOMAIN sync.list : t \in Tickets /\ symbolOf[t] \in Symbols
           /\ \A t \in Tracked : t \in Tickets /\ symbolOf[t] \in Symbols /\ tracked[t] \in Record
           /\ Nobody \notin Record /\ Nobody \notin Symbols
<1>1. symbolOf \in Seq(Symbols) /\ Len(symbolOf) <= MaxTickets
  BY DEF TypeInv, TerminalTypes
<1>2. /\ Open \subseteq 1..Len(symbolOf) /\ DOMAIN sync.list \subseteq 1..Len(symbolOf)
      /\ Tracked \subseteq 1..Len(symbolOf)
  BY DEF TypeInv, SyncInv, TicketsIssued, Issued
<1>3. \A t \in 1..Len(symbolOf) : t \in Tickets /\ symbolOf[t] \in Symbols
  BY <1>1, SyncAssumption DEF Tickets
<1>4. Record \subseteq [origin : Nat, stop : Nat]
  BY DEF Record, Tickets, Stops
<1>5. \A t \in Tracked : tracked[t] \in Record
  BY DEF TypeInv, BookTypes, Tracked
<1> QED BY <1>2, <1>3, <1>4, <1>5, SyncAssumption

LEMMA ReconcileTypes == ASSUME TypeInv, Reconcile, SyncInv' PROVE TypeInv'
<1> USE SyncAssumption DEF TypeInv
<1>1. CASE List
  <2>1. TerminalTypes' /\ BookTypes' /\ CarriedTypes'
    BY <1>1 DEF List, TerminalTypes, BookTypes, CarriedTypes, terminal, books, Open
  <2>2. OrderTypes'
    BY <1>1 DEF List, OrderTypes, terminal
  <2> QED BY <2>1, <2>2
<1>2. CASE SyncPositions
  <2>1. counted' \in [Symbols -> Nat]
    <3>1. IsFiniteSet(DOMAIN sync.list)
      <4>1. IsFiniteSet(1..Len(symbolOf))
        BY FS_Interval DEF TerminalTypes
      <4>2. DOMAIN sync.list \subseteq 1..Len(symbolOf)
        BY DEF SyncInv, TicketsIssued, Issued
      <4> QED BY <4>1, <4>2, FS_Subset
    <3>2. \A s \in Symbols : Cardinality({t \in DOMAIN sync.list : symbolOf[t] = s}) \in Nat
      BY <3>1, FS_Subset, FS_CardinalityType
    <3> QED BY <1>2, <3>2 DEF SyncPositions
  <2>2. BookTypes'
    BY <1>2, <2>1 DEF SyncPositions, BookTypes
  <2>3. TerminalTypes' /\ CarriedTypes' /\ OrderTypes'
    BY <1>2 DEF SyncPositions, TerminalTypes, CarriedTypes, OrderTypes, terminal, orders, Open
  <2> QED BY <2>2, <2>3
<1>3. CASE Prune
  <2>1. BookTypes'
    BY <1>3 DEF Prune, BookTypes
  <2>2. TerminalTypes' /\ CarriedTypes' /\ OrderTypes'
    BY <1>3 DEF Prune, TerminalTypes, CarriedTypes, OrderTypes, terminal, orders, Open
  <2> QED BY <2>1, <2>2
<1>4. CASE ApplyOne
  <2>1. PICK t \in sync.todo : Apply(t) /\ sync' = [sync EXCEPT !.todo = @ \ {t}]
    BY <1>4 DEF ApplyOne
  <2>2. t \in Tickets /\ symbolOf[t] \in Symbols /\ sync.list[t] \in Stops
    BY BookedTickets DEF SyncInv, TicketsIssued, CarriedTypes
  <2>3. pendingFills' \in [Symbols -> Stops \cup {Nobody}]
    BY <2>1, <2>2 DEF Apply, BookTypes
  <2>4. tracked' \in [Tickets -> Record \cup {Nobody}]
    <3>1. CASE t \in Tracked /\ tracked' = [tracked EXCEPT ![t].stop = sync.list[t]]
      <4>1. tracked[t] \in Record
        BY <3>1, BookedTickets
      <4>2. [tracked[t] EXCEPT !.stop = sync.list[t]] \in Record
        BY <2>2, <4>1 DEF Record
      <4> QED BY <2>2, <3>1, <4>2 DEF BookTypes
    <3>2. ASSUME NEW u \in SameSymbol(t),
                 tracked' = [tracked EXCEPT ![t] = [tracked[u] EXCEPT !.stop = sync.list[t]],
                                            ![u] = Nobody]
          PROVE  tracked' \in [Tickets -> Record \cup {Nobody}]
      <4>1. tracked[u] \in Record
        BY BookedTickets DEF SameSymbol
      <4>2. [tracked[u] EXCEPT !.stop = sync.list[t]] \in Record
        BY <2>2, <4>1 DEF Record
      <4> QED BY <2>2, <3>2, <4>2 DEF BookTypes
    <3>3. ASSUME tracked' = [tracked EXCEPT ![t] =
                    [origin |-> t, stop |-> IF pendingFills[symbolOf[t]] = Nobody THEN sync.list[t]
                                            ELSE pendingFills[symbolOf[t]]]]
          PROVE  tracked' \in [Tickets -> Record \cup {Nobody}]
      <4>1. [origin |-> t, stop |-> IF pendingFills[symbolOf[t]] = Nobody THEN sync.list[t]
                                    ELSE pendingFills[symbolOf[t]]] \in Record
        BY <2>2 DEF Record, BookTypes
      <4> QED BY <2>2, <3>3, <4>1 DEF BookTypes
    <3> QED BY <2>1, <3>1, <3>2, <3>3 DEF Apply
  <2>5. BookTypes'
    BY <1>4, <2>3, <2>4 DEF ApplyOne, BookTypes
  <2>6. sync'.list = sync.list
    BY <2>1
  <2>7. TerminalTypes' /\ CarriedTypes' /\ OrderTypes'
    BY <1>4, <2>6 DEF ApplyOne, TerminalTypes, CarriedTypes, OrderTypes, terminal, orders, Open
  <2> QED BY <2>5, <2>7
<1>5. CASE FinishSync
  <2>1. TerminalTypes'
    BY <1>5 DEF FinishSync, TerminalTypes, Open
  <2>2. BookTypes' /\ CarriedTypes'
    BY <1>5 DEF FinishSync, BookTypes, CarriedTypes, Resting, books
  <2>3. OrderTypes'
    BY <1>5 DEF FinishSync, OrderTypes
  <2> QED BY <2>1, <2>2, <2>3
<1> QED BY <1>1, <1>2, <1>3, <1>4, <1>5 DEF Reconcile

LEMMA TickTypes ==
    ASSUME TypeInv, SyncInv', SendModification \/ \E t \in Tickets : TickTightens(t) \/ TickCloses(t)
    PROVE  TypeInv'
<1> USE SyncAssumption DEF TypeInv
<1>1. ASSUME NEW t \in Tickets, TickTightens(t) PROVE TypeInv'
  <2>1. PICK stop \in tracked[t].stop + 1 .. MaxStop :
           /\ tracked' = [tracked EXCEPT ![t].stop = stop]
           /\ modifications' = <<[ticket |-> t, stop |-> stop]>>
    BY <1>1 DEF TickTightens
  <2>2. tracked[t] \in Record
    BY <1>1, BookedTickets DEF TickTightens
  <2>3. stop \in Stops
    BY <2>2 DEF Record, Stops
  <2>4. [tracked[t] EXCEPT !.stop = stop] \in Record
    BY <2>2, <2>3 DEF Record
  <2>5. BookTypes'
    BY <1>1, <2>1, <2>4 DEF BookTypes, TickTightens
  <2>6. CarriedTypes'
    BY <1>1, <2>1, <2>3 DEF CarriedTypes, TickTightens
  <2>7. TerminalTypes' /\ OrderTypes'
    BY <1>1 DEF TickTightens, TerminalTypes, OrderTypes, terminal, orders, Open
  <2> QED BY <2>5, <2>6, <2>7
<1>2. ASSUME NEW t \in Tickets, TickCloses(t) PROVE TypeInv'
  <2>1. TerminalTypes'
    BY <1>2 DEF TickCloses, TerminalTypes, Open, Without
  <2>2. faults' \in 0..MaxFaults
    BY <1>2 DEF TickCloses, Fault, OrderTypes
  <2>3. BookTypes' /\ CarriedTypes' /\ OrderTypes'
    BY <1>2, <2>2 DEF TickCloses, BookTypes, CarriedTypes, OrderTypes, books, orders
  <2> QED BY <2>1, <2>3
<1>3. CASE SendModification
  <2>1. PICK m \in [ticket : Tickets, stop : Stops] : modifications = <<m>>
    BY <1>3 DEF SendModification, CarriedTypes
  <2>2. Head(modifications) = m /\ modifications' = <<>>
    BY <1>3, <2>1, OneOrNone DEF SendModification
  <2>3. TerminalTypes'
    BY <1>3, <2>2 DEF SendModification, TerminalTypes, Open
  <2>4. faults' \in 0..MaxFaults
    BY <1>3 DEF SendModification, Fault, OrderTypes
  <2>5. BookTypes' /\ CarriedTypes' /\ OrderTypes'
    BY <1>3, <2>2, <2>4 DEF SendModification, BookTypes, CarriedTypes, OrderTypes, books, orders
  <2> QED BY <2>3, <2>5
<1> QED BY <1>1, <1>2, <1>3

LEMMA OrderPathTypes ==
    ASSUME TypeInv, SyncInv',
           Drop \/ Submit \/ Worker \/ \E s \in Symbols : Approve(s) \/ SpacingOver(s)
    PROVE  TypeInv'
<1> USE SyncAssumption DEF TypeInv
<1>1. ASSUME Drop \/ Submit \/ \E s \in Symbols : Approve(s) \/ SpacingOver(s) PROVE TypeInv'
  <2>1. TerminalTypes' /\ BookTypes' /\ CarriedTypes'
    BY <1>1 DEF Drop, Submit, Approve, SpacingOver, TerminalTypes, BookTypes, CarriedTypes,
                terminal, books, Open
  <2>2. CASE Drop \/ \E s \in Symbols : Approve(s) \/ SpacingOver(s)
    <3>1. OrderTypes'
      BY <2>2 DEF Drop, Approve, SpacingOver, OrderTypes, terminal
    <3> QED BY <2>1, <3>1
  <2>3. CASE Submit
    <3>1. PICK stop \in FirstStops :
             worker' = [at |-> "queued", symbol |-> consumer, stop |-> stop]
      BY <2>3 DEF Submit
    <3>2. stop \in Stops /\ stop \in 0..MaxStop /\ consumer \in Symbols
      BY <2>3 DEF Stops, Submit, OrderTypes
    <3>3. OrderTypes'
      BY <2>3, <3>1, <3>2 DEF Submit, OrderTypes, terminal
    <3> QED BY <2>1, <3>3
  <2> QED BY <1>1, <2>2, <2>3
<1>2. CASE ExecuteOrder
  <2> DEFINE new == Len(symbolOf) + 1
  <2>1. worker.symbol \in Symbols /\ worker.stop \in Stops /\ Len(symbolOf) < MaxTickets
    BY <1>2 DEF ExecuteOrder, OrderTypes
  <2>2. symbolOf' \in Seq(Symbols) /\ Len(symbolOf') = new
    BY <1>2, <2>1 DEF ExecuteOrder, TerminalTypes
  <2>3. live' = [u \in Open \cup {new} |-> IF u = new THEN worker.stop ELSE live[u]]
    BY <1>2 DEF ExecuteOrder
  <2>4. \A t \in DOMAIN live' : live'[t] \in Stops
    BY <2>1, <2>3 DEF TerminalTypes
  <2>5. Len(symbolOf) \in Nat
    BY DEF TerminalTypes
  <2>6. TerminalTypes'
    BY <2>1, <2>2, <2>4, <2>5 DEF TerminalTypes, Open
  <2>7. BookTypes' /\ CarriedTypes'
    BY <1>2 DEF ExecuteOrder, BookTypes, CarriedTypes, books
  <2>8. faults' \in 0..MaxFaults
    BY <1>2 DEF ExecuteOrder, Fault, OrderTypes
  <2>9. OrderTypes'
    BY <1>2, <2>8 DEF ExecuteOrder, OrderTypes, Idle
  <2> QED BY <2>6, <2>7, <2>9
<1>3. CASE RejectOrder
  <2>1. OrderTypes'
    BY <1>3 DEF RejectOrder, Fault, OrderTypes, Idle, terminal
  <2> QED BY <1>3, <2>1 DEF RejectOrder, TerminalTypes, BookTypes, CarriedTypes, terminal, books, Open
<1>4. CASE RecordFill
  <2>1. OrderTypes'
    BY <1>4 DEF RecordFill, OrderTypes, terminal
  <2>2. BookTypes'
    BY <1>4 DEF RecordFill, BookTypes, OrderTypes
  <2> QED BY <1>4, <2>1, <2>2 DEF RecordFill, TerminalTypes, CarriedTypes, terminal, Open
<1>5. CASE LeaveLevels
  <2>1. OrderTypes'
    BY <1>5 DEF LeaveLevels, OrderTypes, Idle, terminal
  <2>2. BookTypes'
    BY <1>5 DEF LeaveLevels, BookTypes, OrderTypes
  <2> QED BY <1>5, <2>1, <2>2 DEF LeaveLevels, TerminalTypes, CarriedTypes, terminal, Open
<1> QED BY <1>1, <1>2, <1>3, <1>4, <1>5 DEF Worker

LEMMA TypeInvNext == TypeInv /\ [Next]_vars => TypeInv'
<1> SUFFICES ASSUME TypeInv, [Next]_vars PROVE TypeInv'
  OBVIOUS
<1> USE DEF TypeInv
<1>0. SyncInv'
  BY SyncInvNext
<1>1. CASE TogglePause
  BY <1>0, <1>1 DEF TogglePause, TerminalTypes, BookTypes, CarriedTypes, OrderTypes,
                    terminal, books, Open
<1>2. ASSUME NEW t \in Tickets, UserCloses(t) \/ TerminalCloses(t) PROVE TypeInv'
  <2>1. TerminalTypes'
    BY <1>2 DEF UserCloses, TerminalCloses, TerminalTypes, Without, Open
  <2> QED BY <1>0, <1>2, <2>1 DEF UserCloses, TerminalCloses, BookTypes, CarriedTypes, OrderTypes,
                                  books, orders
<1>3. CASE UNCHANGED vars
  BY <1>0, <1>3 DEF vars, TerminalTypes, BookTypes, CarriedTypes, OrderTypes,
                    terminal, books, orders, Open
<1> QED BY <1>0, <1>1, <1>2, <1>3, ReconcileTypes, TickTypes, OrderPathTypes DEF Next

LEMMA TypeInvariant == Spec => []TypeInv
BY TypeInvInit, TypeInvNext, PTL DEF Spec

\* Every ticket, stop and record in any of the books has its type: a stop change names an
\* issued ticket, a list only positions there were.
THEOREM SyncTypes == Spec => []TypeOK
BY TypeInvariant, TypeInvGivesTypeOK, PTL

-----------------------------------------------------------------------------
(* One position per symbol, under its own ticket.                           *)

NoneOpen(s) == \A t \in Open : symbolOf[t] # s

\* A symbol is taken at most once, in the terminal and in any list of it, so that the
\* adoption by symbol finds nobody: what is tracked when a list is applied is in it.
OneEach ==
    /\ \A t, u \in Open : symbolOf[t] = symbolOf[u] => t = u
    /\ \A t, u \in DOMAIN sync.list : symbolOf[t] = symbolOf[u] => t = u
    /\ sync.at = "apply" => Tracked \subseteq DOMAIN sync.list
    /\ OwnTicket

\* An order under way keeps its symbol's spacing fresh; one approved and not submitted
\* has it over.  Neither has a position of the symbol next to it.
OrderAlone ==
    /\ worker.at # "idle" => spacing[worker.symbol] = "fresh"
    /\ worker.at = "queued" => NoneOpen(worker.symbol)
    /\ consumer # Nobody => spacing[consumer] = "over" /\ NoneOpen(consumer)

\* Once the spacing of a symbol is no longer fresh, lists have its position, and the
\* count made of such a list is not zero while it is open: what spacing and count
\* together tell Approve.
CountCovers ==
    \A s \in Symbols :
       /\ spacing[s] # "fresh" /\ sync.at # "rest" =>
             \A t \in Open : symbolOf[t] = s => t \in DOMAIN sync.list
       /\ \/ spacing[s] \in {"synced", "over"}
          \/ spacing[s] = "listed" /\ sync.at \in {"prune", "apply"}
          => (counted[s] = 0 => NoneOpen(s))

AloneInv == OneEach /\ OrderAlone /\ CountCovers

LEMMA AloneInit == Init => AloneInv
<1> SUFFICES ASSUME Init PROVE AloneInv
  OBVIOUS
<1>1. Open = {} /\ DOMAIN sync.list = {} /\ Tracked = {} /\ sync.at = "rest"
      /\ worker.at = "idle" /\ consumer = Nobody
  BY DEF Init, Open, Resting, Tracked, Idle
<1> QED BY <1>1 DEF AloneInv, OneEach, OrderAlone, CountCovers, NoneOpen, OwnTicket

\* A step that opens nothing and leaves the rest alone.
LEMMA NothingOpens ==
    ASSUME TypeInv, AloneInv, UNCHANGED <<symbolOf, tracked, sync, spacing, counted>>,
           Open' \subseteq Open, UNCHANGED worker \/ worker' = Idle
             \/ (worker'.at # "queued" /\ worker.at # "idle" /\ worker'.symbol = worker.symbol),
           UNCHANGED consumer \/ consumer' = Nobody
    PROVE  AloneInv'
<1>1. Tracked' = Tracked /\ (OwnTicket => OwnTicket')
  BY DEF Tracked, OwnTicket
<1>2. OneEach'
  BY <1>1 DEF AloneInv, OneEach
<1>3. \A s : NoneOpen(s) => NoneOpen(s)'
  BY DEF NoneOpen
<1>4. OrderAlone'
  BY <1>3 DEF AloneInv, OrderAlone, Idle
<1>5. CountCovers'
  BY <1>3 DEF AloneInv, CountCovers
<1> QED BY <1>2, <1>4, <1>5 DEF AloneInv

LEMMA ListAlone == TypeInv /\ AloneInv /\ List => AloneInv'
<1> SUFFICES ASSUME TypeInv, AloneInv, List PROVE AloneInv'
  OBVIOUS
<1> USE DEF AloneInv
<1>1. /\ Open' = Open /\ UNCHANGED <<symbolOf, tracked, counted, worker, consumer>>
      /\ sync'.list = live /\ sync'.at = "count" /\ Tracked' = Tracked
  BY DEF List, terminal, books, Open, Tracked
<1>2. spacing' = [s \in Symbols |->
          IF spacing[s] = "fresh" /\ worker.symbol # s THEN "listed" ELSE spacing[s]]
  BY DEF List
<1>3. OneEach'
  BY <1>1 DEF OneEach, OwnTicket, Open
<1>4. \A s : NoneOpen(s)' <=> NoneOpen(s)
  BY <1>1 DEF NoneOpen
<1>5. OrderAlone'
  <2>1. worker.at # "idle" => worker.symbol \in Symbols
    BY DEF TypeInv, OrderTypes
  <2>2. consumer # Nobody => consumer \in Symbols
    BY DEF TypeInv, OrderTypes
  <2> QED BY <1>1, <1>2, <1>4, <2>1, <2>2 DEF OrderAlone
<1>6. CountCovers'
  BY <1>1, <1>2, <1>4 DEF CountCovers, Open
<1> QED BY <1>3, <1>5, <1>6

LEMMA CountAlone == TypeInv /\ AloneInv /\ SyncPositions => AloneInv'
<1> SUFFICES ASSUME TypeInv, AloneInv, SyncPositions PROVE AloneInv'
  OBVIOUS
<1> USE DEF AloneInv
<1>1. /\ Open' = Open /\ UNCHANGED <<symbolOf, tracked, spacing, worker, consumer>>
      /\ sync.at = "count" /\ sync'.list = sync.list /\ sync'.at = "prune" /\ Tracked' = Tracked
  BY DEF SyncPositions, terminal, orders, Open, Tracked, TypeInv, SyncInv, TicketsIssued
<1>2. OneEach'
  BY <1>1 DEF OneEach, OwnTicket
<1>3. \A s : NoneOpen(s)' <=> NoneOpen(s)
  BY <1>1 DEF NoneOpen
<1>4. OrderAlone'
  BY <1>1, <1>3 DEF OrderAlone
<1>5. ASSUME NEW s \in Symbols, spacing[s] # "fresh", counted'[s] = 0 PROVE NoneOpen(s)
  <2>1. \A t \in Open : symbolOf[t] = s => t \in DOMAIN sync.list
    BY <1>1, <1>5 DEF CountCovers
  <2> DEFINE of == {t \in DOMAIN sync.list : symbolOf[t] = s}
  <2>2. Cardinality(of) = 0
    BY <1>5 DEF SyncPositions
  <2>3. IsFiniteSet(of)
    <3>1. IsFiniteSet(1..Len(symbolOf))
      BY FS_Interval DEF TypeInv, TerminalTypes
    <3>2. of \subseteq 1..Len(symbolOf)
      BY DEF TypeInv, SyncInv, TicketsIssued, Issued
    <3> QED BY <3>1, <3>2, FS_Subset
  <2>4. of = {}
    BY <2>2, <2>3, FS_EmptySet
  <2> QED BY <2>1, <2>4 DEF NoneOpen
<1>6. CountCovers'
  BY <1>1, <1>3, <1>5 DEF CountCovers
<1> QED BY <1>2, <1>4, <1>6

LEMMA PruneAlone == TypeInv /\ AloneInv /\ Prune => AloneInv'
<1> SUFFICES ASSUME TypeInv, AloneInv, Prune PROVE AloneInv'
  OBVIOUS
<1> USE DEF AloneInv
<1>1. /\ Open' = Open /\ UNCHANGED <<symbolOf, counted, spacing, worker, consumer>>
      /\ sync.at = "prune" /\ sync'.list = sync.list /\ sync'.at = "apply"
      /\ Tracked' = Tracked \cap DOMAIN sync.list
      /\ \A t \in Tracked' : tracked'[t] = tracked[t]
  BY DEF Prune, terminal, orders, Open, Tracked, TypeInv, SyncInv, TicketsIssued
<1>2. OneEach'
  BY <1>1 DEF OneEach, OwnTicket
<1>3. \A s : NoneOpen(s)' <=> NoneOpen(s)
  BY <1>1 DEF NoneOpen
<1>4. OrderAlone'
  BY <1>1, <1>3 DEF OrderAlone
<1>5. CountCovers'
  BY <1>1, <1>3 DEF CountCovers
<1> QED BY <1>2, <1>4, <1>5

\* The adoption under a new ticket never happens: it would take two positions.
LEMMA ApplyAlone == TypeInv /\ AloneInv /\ ApplyOne => AloneInv'
<1> SUFFICES ASSUME TypeInv, AloneInv, ApplyOne PROVE AloneInv'
  OBVIOUS
<1> USE DEF AloneInv
<1>1. PICK t \in sync.todo : Apply(t) /\ sync' = [sync EXCEPT !.todo = @ \ {t}]
  BY DEF ApplyOne
<1>2. /\ Open' = Open /\ UNCHANGED <<symbolOf, counted, spacing, worker, consumer>>
      /\ sync.at = "apply" /\ sync'.list = sync.list /\ sync'.at = "apply"
      /\ t \in DOMAIN sync.list
  BY <1>1 DEF ApplyOne, terminal, orders, Open, TypeInv, SyncInv, TicketsIssued
<1>3. t \in Tickets /\ tracked \in [Tickets -> Record \cup {Nobody}] /\ Nobody \notin Record
  BY <1>2, BookedTickets DEF TypeInv, BookTypes
<1>4. ASSUME NEW u \in SameSymbol(t), t \notin Tracked PROVE FALSE
  BY <1>2, <1>4 DEF SameSymbol, OneEach
<1>5. /\ Tracked' = Tracked \cup {t}
      /\ tracked'[t].origin = t /\ \A u \in Tracked \ {t} : tracked'[u] = tracked[u]
  <2>1. CASE t \in Tracked /\ tracked' = [tracked EXCEPT ![t].stop = sync.list[t]]
    <3>1. tracked[t] \in Record /\ tracked[t].origin = t
      BY <2>1, BookedTickets DEF OneEach, OwnTicket
    <3>2. tracked'[t] = [tracked[t] EXCEPT !.stop = sync.list[t]]
      BY <1>3, <2>1
    <3>3. sync.list[t] \in Stops
      BY <1>2 DEF TypeInv, CarriedTypes
    <3>4. tracked'[t] \in Record /\ tracked'[t].origin = t
      BY <3>1, <3>2, <3>3 DEF Record
    <3>5. \A u \in Tickets \ {t} : tracked'[u] = tracked[u]
      BY <1>3, <2>1
    <3> QED BY <1>3, <2>1, <3>4, <3>5 DEF Tracked
  <2>2. ASSUME NEW stop \in Stops, t \notin Tracked,
               tracked' = [tracked EXCEPT ![t] = [origin |-> t, stop |-> stop]]
        PROVE  /\ Tracked' = Tracked \cup {t}
               /\ tracked'[t].origin = t /\ \A u \in Tracked \ {t} : tracked'[u] = tracked[u]
    <3>1. /\ tracked'[t] = [origin |-> t, stop |-> stop]
          /\ \A u \in Tickets \ {t} : tracked'[u] = tracked[u]
      BY <1>3, <2>2
    <3>2. tracked'[t] \in Record
      BY <1>3, <3>1 DEF Record
    <3> QED BY <1>3, <3>1, <3>2 DEF Tracked
  <2>3. CASE t \notin Tracked /\ SameSymbol(t) = {}
    <3> DEFINE waiting == pendingFills[symbolOf[t]]
               stop == IF waiting = Nobody THEN sync.list[t] ELSE waiting
    <3>1. stop \in Stops
      BY <1>2, BookedTickets DEF TypeInv, CarriedTypes, BookTypes
    <3>2. tracked' = [tracked EXCEPT ![t] = [origin |-> t, stop |-> stop]]
      BY <1>1, <2>3 DEF Apply
    <3> HIDE DEF stop
    <3> QED BY <2>2, <2>3, <3>1, <3>2
  <2>4. t \notin Tracked => SameSymbol(t) = {}
    BY <1>4
  <2> QED BY <1>1, <2>1, <2>3, <2>4 DEF Apply
<1>6. OneEach'
  BY <1>2, <1>5 DEF OneEach, OwnTicket
<1>7. \A s : NoneOpen(s)' <=> NoneOpen(s)
  BY <1>2 DEF NoneOpen
<1>8. OrderAlone'
  BY <1>2, <1>7 DEF OrderAlone
<1>9. CountCovers'
  BY <1>2, <1>7 DEF CountCovers
<1> QED BY <1>6, <1>8, <1>9

LEMMA FinishAlone == TypeInv /\ AloneInv /\ FinishSync => AloneInv'
<1> SUFFICES ASSUME TypeInv, AloneInv, FinishSync PROVE AloneInv'
  OBVIOUS
<1> USE DEF AloneInv
<1>1. /\ Open' \subseteq Open /\ UNCHANGED <<symbolOf, tracked, counted, worker, consumer>>
      /\ sync.at = "apply" /\ sync'.at = "rest" /\ DOMAIN sync'.list = {} /\ Tracked' = Tracked
  BY DEF FinishSync, books, Open, Tracked, Resting
<1>2. spacing' = [s \in Symbols |-> IF spacing[s] = "listed" THEN "synced" ELSE spacing[s]]
  BY DEF FinishSync
<1>3. OneEach'
  BY <1>1 DEF OneEach, OwnTicket
<1>4. \A s : NoneOpen(s) => NoneOpen(s)'
  BY <1>1 DEF NoneOpen
<1>5. OrderAlone'
  <2>1. worker.at # "idle" => worker.symbol \in Symbols
    BY DEF TypeInv, OrderTypes
  <2>2. consumer # Nobody => consumer \in Symbols
    BY DEF TypeInv, OrderTypes
  <2> QED BY <1>1, <1>2, <1>4, <2>1, <2>2 DEF OrderAlone
<1>6. CountCovers'
  BY <1>1, <1>2, <1>4 DEF CountCovers
<1> QED BY <1>3, <1>5, <1>6

LEMMA TickAlone ==
    ASSUME TypeInv, AloneInv, NEW t \in Tickets, TickTightens(t)
    PROVE  AloneInv'
<1>1. /\ Open' = Open
      /\ UNCHANGED <<symbolOf, sync, counted, spacing, worker, consumer>>
  BY DEF TickTightens, terminal, orders, Open
<1>2. t \in Tracked /\ tracked[t] \in Record /\ tracked \in [Tickets -> Record \cup {Nobody}]
  BY BookedTickets DEF TickTightens, TypeInv, BookTypes
<1>3. PICK stop \in tracked[t].stop + 1 .. MaxStop :
         tracked' = [tracked EXCEPT ![t].stop = stop]
  BY DEF TickTightens
<1>4. stop \in Stops
  BY <1>2, <1>3 DEF Record, Stops
<1>5. tracked'[t] = [tracked[t] EXCEPT !.stop = stop] /\ \A u \in Tickets \ {t} : tracked'[u] = tracked[u]
  BY <1>2, <1>3
<1>6. tracked'[t] \in Record /\ tracked'[t].origin = tracked[t].origin
  BY <1>2, <1>4, <1>5 DEF Record
<1>7. Tracked' = Tracked
  BY <1>2, <1>5, <1>6, BookedTickets DEF Tracked
<1>8. OneEach'
  BY <1>1, <1>2, <1>5, <1>6, <1>7 DEF AloneInv, OneEach, OwnTicket, Tracked
<1>9. OrderAlone' /\ CountCovers'
  BY <1>1 DEF AloneInv, OrderAlone, CountCovers, NoneOpen
<1> QED BY <1>8, <1>9 DEF AloneInv

LEMMA ApproveAlone ==
    ASSUME TypeInv, AloneInv, NEW s \in Symbols, Approve(s)
    PROVE  AloneInv'
<1>1. /\ Open' = Open /\ Tracked' = Tracked
      /\ UNCHANGED <<symbolOf, tracked, sync, counted, spacing, worker>>
      /\ consumer' = s /\ spacing[s] = "over" /\ counted[s] = 0
  BY DEF Approve, terminal, books, Open, Tracked
<1>2. NoneOpen(s)
  BY <1>1 DEF AloneInv, CountCovers
<1>3. OneEach' /\ CountCovers'
  BY <1>1 DEF AloneInv, OneEach, CountCovers, NoneOpen, OwnTicket
<1>4. OrderAlone'
  BY <1>1, <1>2 DEF AloneInv, OrderAlone, NoneOpen
<1> QED BY <1>3, <1>4 DEF AloneInv

LEMMA SpacingAlone ==
    ASSUME TypeInv, AloneInv, NEW s \in Symbols, SpacingOver(s)
    PROVE  AloneInv'
<1>1. /\ Open' = Open /\ Tracked' = Tracked
      /\ UNCHANGED <<symbolOf, tracked, sync, counted, consumer, worker>>
      /\ spacing[s] = "synced" /\ spacing' = [spacing EXCEPT ![s] = "over"]
  BY DEF SpacingOver, terminal, books, Open, Tracked
<1>2. spacing \in [Symbols -> {"over", "fresh", "listed", "synced"}]
  BY DEF TypeInv, OrderTypes
<1>3. OneEach' /\ CountCovers'
  BY <1>1, <1>2 DEF AloneInv, OneEach, CountCovers, NoneOpen, OwnTicket
<1>4. OrderAlone'
  BY <1>1, <1>2 DEF AloneInv, OrderAlone, NoneOpen
<1> QED BY <1>3, <1>4 DEF AloneInv

LEMMA SubmitAlone == TypeInv /\ AloneInv /\ Submit => AloneInv'
<1> SUFFICES ASSUME TypeInv, AloneInv, Submit PROVE AloneInv'
  OBVIOUS
<1>1. /\ Open' = Open /\ Tracked' = Tracked
      /\ UNCHANGED <<symbolOf, tracked, sync, counted>>
      /\ consumer # Nobody /\ consumer' = Nobody
      /\ worker'.symbol = consumer /\ worker'.at = "queued"
      /\ spacing' = [spacing EXCEPT ![consumer] = "fresh"]
  BY DEF Submit, terminal, books, Open, Tracked
<1>2. /\ spacing \in [Symbols -> {"over", "fresh", "listed", "synced"}]
      /\ consumer \in Symbols /\ NoneOpen(consumer)
  BY <1>1 DEF TypeInv, OrderTypes, AloneInv, OrderAlone
<1>3. OneEach' /\ CountCovers'
  BY <1>1, <1>2 DEF AloneInv, OneEach, CountCovers, NoneOpen, OwnTicket
<1>4. OrderAlone'
  BY <1>1, <1>2 DEF OrderAlone, NoneOpen
<1> QED BY <1>3, <1>4 DEF AloneInv

LEMMA ExecuteAlone == TypeInv /\ AloneInv /\ ExecuteOrder => AloneInv'
<1> SUFFICES ASSUME TypeInv, AloneInv, ExecuteOrder PROVE AloneInv'
  OBVIOUS
<1> DEFINE new == Len(symbolOf) + 1
           sym == worker.symbol
<1>1. /\ Open' = Open \cup {new} /\ Tracked' = Tracked
      /\ UNCHANGED <<tracked, sync, counted, consumer, spacing>>
      /\ worker.at = "queued" /\ sym \in Symbols
  BY DEF ExecuteOrder, books, Open, Tracked, TypeInv, OrderTypes
<1>2. /\ symbolOf'[new] = sym /\ \A t \in 1..Len(symbolOf) : symbolOf'[t] = symbolOf[t]
      /\ new \notin 1..Len(symbolOf)
  BY <1>1 DEF ExecuteOrder, TypeInv, TerminalTypes
<1>3. Open \subseteq 1..Len(symbolOf) /\ DOMAIN sync.list \subseteq 1..Len(symbolOf)
  BY DEF TypeInv, SyncInv, TicketsIssued, Issued
<1>4. NoneOpen(sym) /\ spacing[sym] = "fresh"
  BY <1>1 DEF AloneInv, OrderAlone
<1>5. \A t, u \in Open' : symbolOf'[t] = symbolOf'[u] => t = u
  <2>1. \A t, u \in Open : symbolOf'[t] = symbolOf'[u] => t = u
    BY <1>2, <1>3 DEF AloneInv, OneEach
  <2>2. \A t \in Open : symbolOf'[t] # symbolOf'[new]
    BY <1>2, <1>3, <1>4 DEF NoneOpen
  <2> QED BY <1>1, <2>1, <2>2
<1>6. OneEach'
  <2>1. \A t, u \in DOMAIN sync.list : symbolOf'[t] = symbolOf'[u] => t = u
    BY <1>2, <1>3 DEF AloneInv, OneEach
  <2> QED BY <1>1, <1>5, <2>1 DEF AloneInv, OneEach, OwnTicket
<1>7. \A s \in Symbols : s # sym => (NoneOpen(s) => NoneOpen(s)')
  BY <1>1, <1>2, <1>3 DEF NoneOpen
<1>8. OrderAlone'
  <2>1. worker'.at \in {"idle", "filled"} /\ (worker'.at = "filled" => worker'.symbol = sym)
    BY DEF ExecuteOrder, Idle, TypeInv, OrderTypes
  <2>2. consumer # Nobody => consumer \in Symbols /\ consumer # sym
    BY <1>4 DEF TypeInv, OrderTypes, AloneInv, OrderAlone
  <2> QED BY <1>1, <1>4, <1>7, <2>1, <2>2 DEF AloneInv, OrderAlone
<1>9. CountCovers'
  <2> SUFFICES ASSUME NEW s \in Symbols, spacing[s] # "fresh"
               PROVE  /\ sync.at # "rest" =>
                            \A t \in Open' : symbolOf'[t] = s => t \in DOMAIN sync.list
                      /\ \/ spacing[s] \in {"synced", "over"}
                         \/ spacing[s] = "listed" /\ sync.at \in {"prune", "apply"}
                         => (counted[s] = 0 => NoneOpen(s)')
    BY <1>1 DEF CountCovers
  <2>1. s # sym
    BY <1>4
  <2>2. \A t \in Open' : symbolOf'[t] = s => t \in Open /\ symbolOf[t] = s
    BY <1>1, <1>2, <1>3, <2>1
  <2> QED BY <1>7, <2>1, <2>2 DEF AloneInv, CountCovers
<1> QED BY <1>6, <1>8, <1>9 DEF AloneInv

LEMMA FillAlone == TypeInv /\ AloneInv /\ RecordFill => AloneInv'
<1> SUFFICES ASSUME TypeInv, AloneInv, RecordFill PROVE AloneInv'
  OBVIOUS
<1>1. /\ Open' = Open /\ Tracked' = Tracked
      /\ UNCHANGED <<symbolOf, tracked, sync, spacing, consumer>>
      /\ worker'.symbol = worker.symbol /\ worker'.at = "counted" /\ worker.at = "filled"
      /\ counted' = [counted EXCEPT ![worker.symbol] = @ + 1]
  BY DEF RecordFill, terminal, Open, Tracked, TypeInv, OrderTypes
<1>2. \A s \in Symbols : counted'[s] = 0 => counted[s] = 0
  BY <1>1 DEF TypeInv, BookTypes
<1>3. OneEach' /\ OrderAlone'
  BY <1>1 DEF AloneInv, OneEach, OrderAlone, NoneOpen, OwnTicket
<1>4. CountCovers'
  BY <1>1, <1>2 DEF AloneInv, CountCovers, NoneOpen
<1> QED BY <1>3, <1>4 DEF AloneInv

LEMMA AloneNext == TypeInv /\ AloneInv /\ [Next]_vars => AloneInv'
<1> SUFFICES ASSUME TypeInv, AloneInv, [Next]_vars PROVE AloneInv'
  OBVIOUS
<1>1. CASE Reconcile
  BY <1>1, ListAlone, CountAlone, PruneAlone, ApplyAlone, FinishAlone DEF Reconcile
<1>2. ASSUME NEW t \in Tickets, TickTightens(t) PROVE AloneInv'
  BY <1>2, TickAlone
<1>3. ASSUME NEW t \in Tickets, TickCloses(t) \/ UserCloses(t) \/ TerminalCloses(t)
      PROVE  AloneInv'
  BY <1>3, NothingOpens DEF TickCloses, UserCloses, TerminalCloses, Without, Open, books, orders
<1>4. CASE SendModification
  BY <1>4, NothingOpens DEF SendModification, Open, books, orders
<1>5. ASSUME NEW s \in Symbols, Approve(s) \/ SpacingOver(s) PROVE AloneInv'
  BY <1>5, ApproveAlone, SpacingAlone
<1>6. CASE Drop \/ TogglePause
  BY <1>6, NothingOpens DEF Drop, TogglePause, Open, terminal, books
<1>7. CASE Submit
  BY <1>7, SubmitAlone
<1>8. CASE Worker
  <2>1. CASE RejectOrder \/ LeaveLevels
    BY <2>1, NothingOpens DEF RejectOrder, LeaveLevels, Open, terminal, books
  <2> QED BY <1>8, <2>1, ExecuteAlone, FillAlone DEF Worker
<1>9. CASE UNCHANGED vars
  BY <1>9, NothingOpens DEF vars, Open, terminal, books, orders
<1> QED BY <1>1, <1>2, <1>3, <1>4, <1>5, <1>6, <1>7, <1>8, <1>9 DEF Next

LEMMA AloneInvariant == Spec => [](TypeInv /\ AloneInv)
BY TypeInvariant, AloneInit, AloneNext, PTL DEF Spec

\* "Anti-stacking" in live mode: with the order spacing (main.go:2458) and the limit of
\* one position, a symbol has one position at the most, its order under way included,
\* whatever answers get lost and however stale the list is that overwrites the counts.
THEOREM NoStackingLive == Spec => []OnePerSymbol
<1>1. TypeInv /\ AloneInv => OnePerSymbol
  <2> SUFFICES ASSUME TypeInv, AloneInv, NEW s \in Symbols
               PROVE  Cardinality({t \in Open : symbolOf[t] = s})
                        + (IF worker.at = "queued" /\ worker.symbol = s THEN 1 ELSE 0) <= 1
    BY DEF OnePerSymbol
  <2> DEFINE of == {t \in Open : symbolOf[t] = s}
  <2>1. \A t, u \in of : t = u
    BY DEF AloneInv, OneEach
  <2>2. Cardinality(of) = 0 \/ Cardinality(of) = 1
    <3>1. CASE of = {}
      BY <3>1, FS_EmptySet
    <3>2. CASE of # {}
      <4>1. PICK t : t \in of
        BY <3>2
      <4>2. of = {t}
        BY <2>1, <4>1
      <4> QED BY <4>2, FS_Singleton
    <3> QED BY <3>1, <3>2
  <2>3. worker.at = "queued" /\ worker.symbol = s => Cardinality(of) = 0
    <3>1. worker.at = "queued" /\ worker.symbol = s => of = {}
      BY DEF AloneInv, OrderAlone, NoneOpen
    <3> QED BY <3>1, FS_EmptySet
  <2>4. CASE worker.at = "queued" /\ worker.symbol = s
    BY <2>3, <2>4
  <2>5. CASE ~(worker.at = "queued" /\ worker.symbol = s)
    BY <2>2, <2>5
  <2> QED BY <2>4, <2>5
<1> QED BY <1>1, AloneInvariant, PTL

\* No position is managed under the record of another one: the reconcile loop's adoption
\* of an unknown ticket by its symbol (main.go:1171) never meets two positions.
THEOREM RecordsKeepTheirTicket == Spec => []OwnTicket
<1>1. AloneInv => OwnTicket
  BY DEF AloneInv, OneEach
<1> QED BY <1>1, AloneInvariant, PTL

-----------------------------------------------------------------------------
(* The command connection.                                                   *)

USE LinkAssumption DEF LinkAssumption, closeVars, CloseStages

-----------------------------------------------------------------------------
(* The invariant.                                                           *)

ServerTypes ==
    /\ cmdConn \in Conns \cup {NoConn}
    /\ ready \in BOOLEAN /\ closed \in BOOLEAN /\ listening \in BOOLEAN
    /\ closer \in [at : CloseStages, conn : Conns \cup {NoConn}]
    /\ acceptor \in [at : {"accept", "install", "spawn", "exit"}, conn : Conns \cup {NoConn}]
    /\ beat \in [Conns -> {"none", "wait", "ping", "failed", "gone"}]
    /\ call \in Calls \cup {NoCall}
    /\ open \in [Conns -> BOOLEAN]

NetTypes ==
    /\ up \in [Conns -> BOOLEAN] /\ ea \in Conns \cup {NoConn}
    /\ conns \in 0..MaxConns /\ linkFaults \in 0..MaxLinkFaults
    /\ backlog \in Seq(Conns)
    /\ DOMAIN toEA = Conns /\ DOMAIN toServer = Conns

CallerTypes ==
    /\ want \in [Callers -> Orders \cup {NoCall}] /\ issued \in 0..MaxReqs
    /\ result \in [Orders -> Answers] /\ executed \subseteq Orders

\* A connection has one line under way at the most.
Short(S) == {<<>>} \cup {<<x>> : x \in S}

OneLine ==
    \A c \in Conns :
       /\ toEA[c] \in Short(Orders \cup {Ping}) /\ toServer[c] \in Short(Answers)
       /\ toEA[c] = <<>> \/ toServer[c] = <<>>

Types == ServerTypes /\ NetTypes /\ CallerTypes

Empty(c) == toEA[c] = <<>> /\ toServer[c] = <<>>

Waiting == {backlog[i] : i \in 1..Len(backlog)}

\* Not made yet, not accepted yet, or accepted and not installed.
Unused(c) == c > conns \/ c \in Waiting \/ (acceptor.at = "install" /\ c = acceptor.conn)

AcceptedOnce ==
    /\ \A i, j \in 1..Len(backlog) : backlog[i] = backlog[j] => i = j
    /\ \A c \in Waiting : c <= conns
    /\ acceptor.at = "install" =>
          acceptor.conn \in Conns /\ acceptor.conn <= conns /\ acceptor.conn \notin Waiting

UnusedEmpty == \A c \in Conns : Unused(c) => Empty(c) /\ c # cmdConn

QuietBetweenCalls == ready /\ Unlocked /\ cmdConn # NoConn => Empty(cmdConn)

CallOwnsLine ==
    call # NoCall =>
       /\ call.conn = cmdConn
       /\ toEA[cmdConn] # <<>> => Head(toEA[cmdConn]) = call.req
       /\ toServer[cmdConn] # <<>> => Head(toServer[cmdConn]).of = call.req

\* What is on its way from the terminal as "done" was carried out there.
DoneIsExecuted ==
    \A c \in Conns : toServer[c] # <<>> =>
       (Head(toServer[c]).kind = "done" /\ Head(toServer[c]).of \in Orders
          => Head(toServer[c]).of \in executed)

Lines ==
    /\ OneLine /\ AcceptedOnce /\ UnusedEmpty
    /\ QuietBetweenCalls /\ CallOwnsLine /\ DoneIsExecuted

LinkInv == Types /\ Lines /\ AnswersMatch

LEMMA LinkInvInit == LinkInit => LinkInv
<1> SUFFICES ASSUME LinkInit PROVE LinkInv
  OBVIOUS
<1> USE DEF LinkInit
<1>1. Pending \in Answers /\ Pending.kind = "pending"
  BY DEF Pending, Answer, Answers
<1>2. ServerTypes
  BY DEF ServerTypes
<1>3. NetTypes
  BY DEF NetTypes
<1>4. CallerTypes
  BY <1>1 DEF CallerTypes
<1>5. Waiting = {} /\ \A c \in Conns : Empty(c)
  BY DEF Waiting, Empty
<1>6. OneLine /\ AcceptedOnce
  BY <1>5 DEF OneLine, AcceptedOnce, Empty, Short
<1>7. UnusedEmpty /\ QuietBetweenCalls /\ CallOwnsLine
  BY <1>5 DEF UnusedEmpty, QuietBetweenCalls, CallOwnsLine, Conns
<1>8. DoneIsExecuted
  BY <1>5 DEF DoneIsExecuted, Empty
<1>9. AnswersMatch
  BY <1>1 DEF AnswersMatch
<1> QED BY <1>2, <1>3, <1>4, <1>6, <1>7, <1>8, <1>9 DEF LinkInv, Types, Lines

-----------------------------------------------------------------------------
(* Short sequences.                                                         *)

LEMMA OneLineSeq ==
    ASSUME NEW x
    PROVE  /\ <<x>> # <<>> /\ Head(<<x>>) = x /\ Tail(<<x>>) = <<>>
           /\ Append(<<>>, x) = <<x>> /\ <<>> \o <<x>> = <<x>> /\ <<>> \o <<>> = <<>>
<1>1. <<x>> # <<>> /\ Head(<<x>>) = x /\ Tail(<<x>>) = <<>>
  OBVIOUS
<1>2. Append(<<>>, x) = <<x>>
  OBVIOUS
<1>3. <<>> \o <<x>> = <<x>> /\ <<>> \o <<>> = <<>>
  OBVIOUS
<1> QED BY <1>1, <1>2, <1>3

LEMMA ShortSeq ==
    ASSUME NEW S, NEW s \in Short(S)
    PROVE  /\ s \in Seq(S) /\ (Len(s) = 0 \/ Len(s) = 1)
           /\ s = <<>> => Len(s) = 0
           /\ s # <<>> => Head(s) \in S /\ s = <<Head(s)>> /\ Tail(s) = <<>>
<1>1. CASE s = <<>>
  BY <1>1
<1>2. ASSUME NEW x \in S, s = <<x>>
      PROVE  s # <<>> /\ s \in Seq(S) /\ Len(s) = 1 /\ Head(s) = x /\ Tail(s) = <<>>
  <2>1. <<x>> \in Seq(S) /\ Len(<<x>>) = 1
    OBVIOUS
  <2> QED BY <1>2, <2>1, OneLineSeq
<1> QED BY <1>1, <1>2 DEF Short

LEMMA InvGivesTypeOK == LinkInv => LinkTypeOK
<1> SUFFICES ASSUME LinkInv PROVE LinkTypeOK
  OBVIOUS
<1> USE DEF LinkInv, Types, Lines
<1>1. ASSUME NEW c \in Conns
      PROVE  /\ toEA[c] \in Seq(Orders \cup {Ping}) /\ toServer[c] \in Seq(Answers)
             /\ Len(toEA[c]) + Len(toServer[c]) <= 1
  <2>1. /\ toEA[c] \in Short(Orders \cup {Ping}) /\ toServer[c] \in Short(Answers)
        /\ toEA[c] = <<>> \/ toServer[c] = <<>>
    BY DEF OneLine
  <2>2. /\ toEA[c] \in Seq(Orders \cup {Ping}) /\ toServer[c] \in Seq(Answers)
        /\ Len(toEA[c]) \in {0, 1} /\ Len(toServer[c]) \in {0, 1}
        /\ Len(toEA[c]) = 0 \/ Len(toServer[c]) = 0
    BY <2>1, ShortSeq
  <2>3. \A m, n \in {0, 1} : m = 0 \/ n = 0 => m + n <= 1
    OBVIOUS
  <2> QED BY <2>2, <2>3, Zenon
<1> QED BY <1>1 DEF ServerTypes, NetTypes, CallerTypes, LinkTypeOK

\* A queue of distinct connections loses its head.
LEMMA WaitingTail ==
    ASSUME backlog \in Seq(Conns), backlog # <<>>, backlog' = Tail(backlog), AcceptedOnce
    PROVE  /\ Head(backlog) \in Conns /\ backlog' \in Seq(Conns)
           /\ Waiting = Waiting' \cup {Head(backlog)} /\ Head(backlog) \notin Waiting'
           /\ \A i, j \in 1..Len(backlog') : backlog'[i] = backlog'[j] => i = j
<1>1. /\ Len(backlog) \in Nat /\ Len(backlog) >= 1
      /\ Len(backlog') = Len(backlog) - 1 /\ Head(backlog) = backlog[1]
      /\ \A i \in 1..Len(backlog') : backlog'[i] = backlog[i + 1]
      /\ Head(backlog) \in Conns /\ backlog' \in Seq(Conns)
  OBVIOUS
<1>2. \A i \in 2..Len(backlog) : i - 1 \in 1..Len(backlog') /\ backlog[i] = backlog'[i - 1]
  BY <1>1
<1>3. \A i, j \in 1..Len(backlog') : backlog'[i] = backlog'[j] => i = j
  BY <1>1 DEF AcceptedOnce
<1>4. Head(backlog) \notin Waiting'
  BY <1>1 DEF AcceptedOnce, Waiting
<1>5. ASSUME NEW c PROVE c \in Waiting <=> c \in Waiting' \cup {Head(backlog)}
  <2>1. CASE c = Head(backlog)
    BY <1>1, <2>1 DEF Waiting
  <2>2. ASSUME c \in Waiting' PROVE c \in Waiting
    BY <1>1, <2>2 DEF Waiting
  <2>3. ASSUME c \in Waiting, c # Head(backlog) PROVE c \in Waiting'
    <3>1. PICK i \in 1..Len(backlog) : c = backlog[i]
      BY <2>3 DEF Waiting
    <3>2. i \in 2..Len(backlog)
      BY <1>1, <2>3, <3>1
    <3> QED BY <1>2, <3>1, <3>2 DEF Waiting
  <2> QED BY <2>1, <2>2, <2>3
<1> QED BY <1>1, <1>3, <1>4, <1>5

LEMMA WaitingAppend ==
    ASSUME backlog \in Seq(Conns), NEW c \in Conns, c \notin Waiting, AcceptedOnce,
           backlog' = Append(backlog, c)
    PROVE  /\ backlog' \in Seq(Conns) /\ Waiting' = Waiting \cup {c}
           /\ \A i, j \in 1..Len(backlog') : backlog'[i] = backlog'[j] => i = j
<1>1. /\ Len(backlog') = Len(backlog) + 1 /\ backlog'[Len(backlog) + 1] = c
      /\ \A i \in 1..Len(backlog) : backlog'[i] = backlog[i]
      /\ backlog' \in Seq(Conns) /\ Len(backlog) \in Nat
  OBVIOUS
<1>2. Waiting' = Waiting \cup {c}
  BY <1>1 DEF Waiting
<1>3. \A i \in 1..Len(backlog) : backlog[i] # c
  BY DEF Waiting
<1>4. \A i, j \in 1..Len(backlog') : backlog'[i] = backlog'[j] => i = j
  BY <1>1, <1>3 DEF AcceptedOnce
<1> QED BY <1>1, <1>2, <1>4

-----------------------------------------------------------------------------
(* The accept loop.                                                         *)

LEMMA AcceptConnKeeps == LinkInv /\ AcceptConn => LinkInv'
<1> SUFFICES ASSUME LinkInv, AcceptConn PROVE LinkInv'
  OBVIOUS
<1> USE DEF LinkInv, Types, Lines
<1>0. backlog \in Seq(Conns) /\ backlog # <<>> /\ backlog' = Tail(backlog)
  BY DEF AcceptConn, NetTypes
<1>1. /\ Head(backlog) \in Conns /\ backlog' \in Seq(Conns)
      /\ Waiting = Waiting' \cup {Head(backlog)} /\ Head(backlog) \notin Waiting'
      /\ \A i, j \in 1..Len(backlog') : backlog'[i] = backlog'[j] => i = j
  BY <1>0, WaitingTail
<1>2. acceptor' = [at |-> "install", conn |-> Head(backlog)]
  BY DEF AcceptConn
<1>3. /\ open' \in [Conns -> BOOLEAN]
      /\ UNCHANGED <<cmdConn, ready, closed, listening, closer, beat, call>>
  BY <1>1 DEF AcceptConn, ServerTypes
<1>4. ServerTypes'
  BY <1>1, <1>2, <1>3 DEF ServerTypes, Calls
<1>5. NetTypes' /\ CallerTypes' /\ AnswersMatch'
  BY <1>1 DEF AcceptConn, NetTypes, CallerTypes, callerVars, AnswersMatch
<1>6. UNCHANGED <<toEA, toServer, conns, executed>>
  BY DEF AcceptConn, callerVars
<1>7. AcceptedOnce'
  BY <1>1, <1>2, <1>6 DEF AcceptedOnce
<1>8. UnusedEmpty'
  BY <1>1, <1>2, <1>3, <1>6 DEF UnusedEmpty, Unused, Empty
<1>9. OneLine' /\ QuietBetweenCalls' /\ CallOwnsLine' /\ DoneIsExecuted'
  BY <1>3, <1>6 DEF OneLine, QuietBetweenCalls, CallOwnsLine, DoneIsExecuted, Unlocked, Empty
<1> QED BY <1>4, <1>5, <1>7, <1>8, <1>9

LEMMA InstallKeeps == LinkInv /\ Install => LinkInv'
<1> SUFFICES ASSUME LinkInv, Install PROVE LinkInv'
  OBVIOUS
<1> USE DEF LinkInv, Types, Lines
<1>1. /\ acceptor.at = "install" /\ acceptor' = [acceptor EXCEPT !.at = "spawn"]
      /\ call = NoCall /\ cmdConn' = acceptor.conn /\ ready' = TRUE
      /\ UNCHANGED <<closed, listening, closer, beat, call>>
      /\ UNCHANGED <<ea, backlog, up, toEA, toServer, conns, linkFaults>>
      /\ UNCHANGED <<want, issued, result, executed>>
  BY DEF Install, Unlocked, eaVars, callerVars
<1>2. acceptor.conn \in Conns /\ acceptor.conn <= conns /\ acceptor.conn \notin Waiting
  BY <1>1 DEF AcceptedOnce
<1>3. open' \in [Conns -> BOOLEAN] /\ acceptor'.at = "spawn"
  BY <1>1 DEF Install, ServerTypes
<1>4. ServerTypes'
  BY <1>1, <1>2, <1>3 DEF ServerTypes, Calls
<1>5. NetTypes' /\ CallerTypes' /\ AnswersMatch'
  BY <1>1 DEF NetTypes, CallerTypes, AnswersMatch
<1>6. Waiting' = Waiting
  BY <1>1 DEF Waiting
<1>7. AcceptedOnce'
  BY <1>1, <1>3, <1>6 DEF AcceptedOnce
<1>8. UnusedEmpty'
  <2>1. conns \in Nat /\ \A c \in Conns : c \in Nat
    BY DEF NetTypes, Conns
  <2>2. \A c \in Conns : Unused(c)' => Unused(c) /\ c # acceptor.conn
    BY <1>1, <1>2, <1>3, <1>6, <2>1 DEF Unused
  <2> QED BY <1>1, <2>2 DEF UnusedEmpty, Empty
<1>9. OneLine' /\ QuietBetweenCalls' /\ CallOwnsLine' /\ DoneIsExecuted'
  <2>1. Empty(acceptor.conn)
    BY <1>1, <1>2 DEF UnusedEmpty, Unused
  <2> QED BY <1>1, <2>1 DEF OneLine, QuietBetweenCalls, CallOwnsLine, DoneIsExecuted, Empty
<1> QED BY <1>4, <1>5, <1>7, <1>8, <1>9

\* Steps that touch neither a line, nor the connection in use, nor the backlog.
LEMMA QuietStep ==
    ASSUME LinkInv, ServerTypes', CallerTypes', AnswersMatch',
           UNCHANGED <<cmdConn, call, eaVars, executed>>, ready' => ready,
           acceptor' = acceptor \/ acceptor'.at # "install"
    PROVE  LinkInv'
<1> USE DEF LinkInv, Types, Lines, eaVars
<1>1. Waiting' = Waiting
  BY DEF Waiting
<1>2. AcceptedOnce' /\ UnusedEmpty'
  BY <1>1 DEF AcceptedOnce, UnusedEmpty, Unused, Empty
<1>3. OneLine' /\ QuietBetweenCalls' /\ CallOwnsLine' /\ DoneIsExecuted'
  BY DEF OneLine, QuietBetweenCalls, CallOwnsLine, DoneIsExecuted, Unlocked, Empty
<1>4. NetTypes'
  BY DEF NetTypes
<1> QED BY <1>2, <1>3, <1>4

LEMMA QuietStepsKeep ==
    ASSUME LinkInv,
           \/ SpawnHeartbeat \/ AcceptFails \/ Close \/ UNCHANGED linkVars
           \/ \E c \in Conns : HeartbeatTick(c)
           \/ \E p \in Callers : Request(p)
    PROVE  LinkInv'
<1> USE DEF LinkInv, Types
<1>1. CASE SpawnHeartbeat
  <2>1. ServerTypes' /\ acceptor'.at = "accept"
    BY <1>1 DEF SpawnHeartbeat, ServerTypes, Calls
  <2>2. CallerTypes' /\ AnswersMatch'
    BY <1>1 DEF SpawnHeartbeat, callerVars, CallerTypes, AnswersMatch
  <2> QED BY <1>1, <2>1, <2>2, QuietStep DEF SpawnHeartbeat, callerVars
<1>2. CASE AcceptFails
  <2>1. ServerTypes' /\ acceptor'.at = "exit"
    BY <1>2 DEF AcceptFails, ServerTypes, Calls
  <2>2. CallerTypes' /\ AnswersMatch'
    BY <1>2 DEF AcceptFails, callerVars, CallerTypes, AnswersMatch
  <2> QED BY <1>2, <2>1, <2>2, QuietStep DEF AcceptFails, callerVars
<1>3. CASE Close
  <2>1. closer \in [at : CloseStages, conn : Conns \cup {NoConn}]
    BY DEF ServerTypes
  <2>2. closer' \in [at : CloseStages, conn : Conns \cup {NoConn}]
    <3>1. CASE CloseBegins \/ CloseUnready \/ CloseListener
      BY <2>1, <3>1 DEF CloseBegins, CloseUnready, CloseListener
    <3>2. CASE CloseTests
      BY <3>2 DEF CloseTests, ServerTypes
    <3>3. CASE CloseConn
      BY <3>3 DEF CloseConn
    <3> QED BY <1>3, <3>1, <3>2, <3>3 DEF Close
  <2>3. UNCHANGED <<cmdConn, acceptor, beat, call, eaVars, callerVars>>
    BY <1>3 DEF Close, CloseBegins, CloseUnready, CloseTests, CloseConn, CloseListener
  <2>4. /\ ready' \in BOOLEAN /\ closed' \in BOOLEAN /\ listening' \in BOOLEAN
        /\ open' \in [Conns -> BOOLEAN] /\ (ready' => ready)
    <3>1. /\ ready \in BOOLEAN /\ closed \in BOOLEAN /\ listening \in BOOLEAN
          /\ open \in [Conns -> BOOLEAN]
      BY DEF ServerTypes
    <3>2. CASE CloseBegins
      BY <3>1, <3>2 DEF CloseBegins
    <3>3. CASE CloseUnready
      BY <3>1, <3>3 DEF CloseUnready
    <3>4. CASE CloseTests
      BY <3>1, <3>4 DEF CloseTests
    <3>5. CASE CloseConn
      BY <3>1, <3>5 DEF CloseConn
    <3>6. CASE CloseListener
      BY <3>1, <3>6 DEF CloseListener
    <3> QED BY <1>3, <3>2, <3>3, <3>4, <3>5, <3>6 DEF Close
  <2>5. ServerTypes'
    BY <2>2, <2>3, <2>4 DEF ServerTypes, Calls
  <2>6. CallerTypes' /\ AnswersMatch'
    BY <2>3 DEF callerVars, CallerTypes, AnswersMatch
  <2> QED BY <2>3, <2>4, <2>5, <2>6, QuietStep DEF callerVars
<1>4. ASSUME NEW c \in Conns, HeartbeatTick(c) PROVE LinkInv'
  <2>1. ServerTypes'
    BY <1>4 DEF HeartbeatTick, ServerTypes, Calls
  <2>2. CallerTypes' /\ AnswersMatch'
    BY <1>4 DEF HeartbeatTick, callerVars, CallerTypes, AnswersMatch
  <2> QED BY <1>4, <2>1, <2>2, QuietStep DEF HeartbeatTick, callerVars
<1>5. ASSUME NEW p \in Callers, Request(p) PROVE LinkInv'
  <2>1. ServerTypes'
    BY <1>5 DEF Request, serverVars, ServerTypes, Calls
  <2>2. CallerTypes' /\ AnswersMatch'
    BY <1>5 DEF Request, CallerTypes, AnswersMatch, Orders
  <2> QED BY <1>5, <2>1, <2>2, QuietStep DEF Request, serverVars
<1>6. CASE UNCHANGED linkVars
  <2>1. ServerTypes' /\ CallerTypes' /\ AnswersMatch'
    BY <1>6 DEF linkVars, serverVars, callerVars, ServerTypes, Calls, CallerTypes, AnswersMatch
  <2> QED BY <1>6, <2>1, QuietStep DEF linkVars, serverVars, callerVars
<1> QED BY <1>1, <1>2, <1>3, <1>4, <1>5, <1>6

-----------------------------------------------------------------------------
(* SendCommand, the heartbeat and the callers.                              *)

\* A call returns to the adapter with an answer of its own, or with none.
LEMMA ReturnKeeps ==
    ASSUME CallerTypes, AnswersMatch,
           beat \in [Conns -> {"none", "wait", "ping", "failed", "gone"}],
           NEW by \in Callers \cup Conns, NEW req \in Orders \cup {Ping},
           NEW answer \in Answers, Return(by, req, answer),
           answer.kind = "done" /\ req \in Orders => answer.of = req /\ req \in executed
    PROVE  /\ CallerTypes' /\ AnswersMatch' /\ executed' = executed
           /\ beat' \in [Conns -> {"none", "wait", "ping", "failed", "gone"}]
<1>1. CASE by \in Callers
  <2>1. /\ result' = [result EXCEPT ![req] = answer]
        /\ want' = [want EXCEPT ![by] = NoCall]
        /\ UNCHANGED <<beat, issued, executed>>
    BY <1>1 DEF Return
  <2>2. CallerTypes'
    BY <2>1 DEF CallerTypes
  <2>3. AnswersMatch'
    BY <2>1 DEF AnswersMatch, CallerTypes
  <2> QED BY <2>1, <2>2, <2>3
<1>2. CASE by \notin Callers
  <2>1. /\ beat' = [beat EXCEPT ![by] = IF answer.kind = "error" THEN "failed" ELSE "wait"]
        /\ UNCHANGED <<want, issued, result, executed>>
    BY <1>2 DEF Return, callerVars
  <2> QED BY <2>1 DEF CallerTypes, AnswersMatch
<1> QED BY <1>1, <1>2

LEMMA FailedIsError == Failed \in Answers /\ Failed.kind = "error"
BY DEF Failed, Answer, Answers

LEMMA SendCommandKeeps ==
    ASSUME LinkInv, NEW by \in Callers \cup Conns, NEW req \in Orders \cup {Ping},
           SendCommand(by, req)
    PROVE  LinkInv'
<1> USE DEF LinkInv, Types, Lines
<1>1. /\ call = NoCall
      /\ UNCHANGED <<cmdConn, closed, listening, closer, acceptor, open>>
      /\ UNCHANGED <<ea, backlog, up, toServer, conns, linkFaults>>
  BY DEF SendCommand, Unlocked
<1>2. Waiting' = Waiting
  BY <1>1 DEF Waiting
<1>3. beat \in [Conns -> {"none", "wait", "ping", "failed", "gone"}]
  BY DEF ServerTypes
<1>4. ASSUME Return(by, req, Failed), UNCHANGED <<call, toEA>>, ready' => ready, ready' \in BOOLEAN
      PROVE  LinkInv'
  <2>1. /\ CallerTypes' /\ AnswersMatch' /\ executed' = executed
        /\ beat' \in [Conns -> {"none", "wait", "ping", "failed", "gone"}]
    BY <1>3, <1>4, FailedIsError, ReturnKeeps
  <2>2. ServerTypes'
    BY <1>1, <1>4, <2>1 DEF ServerTypes, Calls
  <2> QED BY <1>1, <1>4, <2>1, <2>2, QuietStep DEF eaVars
<1>5. CASE /\ ready /\ cmdConn # NoConn /\ open[cmdConn]
           /\ call' = [by |-> by, req |-> req, conn |-> cmdConn]
           /\ toEA' = [toEA EXCEPT ![cmdConn] = IF up[cmdConn] THEN Append(@, req) ELSE @]
           /\ UNCHANGED <<ready, beat, callerVars>>
  <2>1. cmdConn \in Conns
    BY <1>5 DEF ServerTypes
  <2>2. call' \in Calls /\ call' # NoCall /\ call'.conn = cmdConn /\ call'.req = req
    BY <1>5, <2>1 DEF Calls
  <2>3. ServerTypes'
    BY <1>1, <1>5, <2>2 DEF ServerTypes, Calls
  <2>4. CallerTypes' /\ AnswersMatch' /\ executed' = executed
    BY <1>5 DEF callerVars, CallerTypes, AnswersMatch
  <2>5. NetTypes'
    BY <1>1, <1>5 DEF NetTypes
  <2>6. /\ Empty(cmdConn)
        /\ \A c \in Conns \ {cmdConn} : toEA'[c] = toEA[c]
        /\ toEA'[cmdConn] \in {<<>>, Append(<<>>, req)}
    <3>1. Empty(cmdConn)
      BY <1>1, <1>5 DEF QuietBetweenCalls, Unlocked
    <3> QED BY <1>5, <2>1, <3>1 DEF Empty, NetTypes
  <2>7. Append(<<>>, req) = <<req>> /\ <<req>> # <<>> /\ Head(<<req>>) = req
    BY OneLineSeq
  <2>8. OneLine'
    BY <1>1, <2>6, <2>7 DEF OneLine, Empty, Short
  <2>9. AcceptedOnce'
    BY <1>1, <1>2 DEF AcceptedOnce
  <2>10. UnusedEmpty'
    BY <1>1, <1>2, <2>6 DEF UnusedEmpty, Unused, Empty
  <2>11. QuietBetweenCalls' /\ CallOwnsLine'
    BY <1>1, <2>2, <2>6, <2>7 DEF QuietBetweenCalls, CallOwnsLine, Unlocked, Empty
  <2>12. DoneIsExecuted'
    BY <1>1, <2>4 DEF DoneIsExecuted
  <2> QED BY <2>3, <2>4, <2>5, <2>8, <2>9, <2>10, <2>11, <2>12
<1>6. CASE /\ ~ready \/ cmdConn = NoConn
           /\ Return(by, req, Failed) /\ UNCHANGED <<ready, call, toEA>>
  BY <1>4, <1>6 DEF ServerTypes
<1>7. CASE ready' = FALSE /\ Return(by, req, Failed) /\ UNCHANGED <<call, toEA>>
  BY <1>4, <1>7
<1> QED BY <1>5, <1>6, <1>7 DEF SendCommand

LEMMA ReadAnswerKeeps == LinkInv /\ ReadAnswer => LinkInv'
<1> SUFFICES ASSUME LinkInv, ReadAnswer PROVE LinkInv'
  OBVIOUS
<1> USE DEF LinkInv, Types, Lines
<1> DEFINE answer == Head(toServer[call.conn])
           taken == IF answer.kind = "garbled" THEN Failed ELSE answer
<1>1. /\ call # NoCall /\ toServer[call.conn] # <<>>
      /\ Return(call.by, call.req, taken)
      /\ toServer' = [toServer EXCEPT ![call.conn] = Tail(@)] /\ call' = NoCall
      /\ UNCHANGED <<cmdConn, ready, closed, listening, closer, acceptor, open>>
      /\ UNCHANGED <<ea, backlog, up, toEA, conns, linkFaults>>
  BY DEF ReadAnswer
<1>2. call.conn \in Conns /\ call.by \in Callers \cup Conns /\ call.req \in Orders \cup {Ping}
  BY <1>1 DEF ServerTypes, Calls
<1>3. call.conn = cmdConn /\ answer.of = call.req
  BY <1>1 DEF CallOwnsLine
<1>4. /\ answer \in Answers /\ Tail(toServer[call.conn]) = <<>> /\ toEA[call.conn] = <<>>
  BY <1>1, <1>2, ShortSeq DEF OneLine
<1>5. answer.kind = "done" /\ answer.of \in Orders => answer.of \in executed
  BY <1>1, <1>2 DEF DoneIsExecuted
<1>6. taken \in Answers /\ (taken.kind = "done" /\ call.req \in Orders
                              => taken.of = call.req /\ call.req \in executed)
  BY <1>3, <1>4, <1>5, FailedIsError
<1>7. /\ CallerTypes' /\ AnswersMatch' /\ executed' = executed
      /\ beat' \in [Conns -> {"none", "wait", "ping", "failed", "gone"}]
  <2>1. beat \in [Conns -> {"none", "wait", "ping", "failed", "gone"}]
    BY DEF ServerTypes
  <2> HIDE DEF taken
  <2> QED BY <1>1, <1>2, <1>6, <2>1, ReturnKeeps
<1>8. ServerTypes'
  BY <1>1, <1>7 DEF ServerTypes, Calls
<1>9. NetTypes'
  BY <1>1 DEF NetTypes
<1>10. toServer'[cmdConn] = <<>> /\ \A c \in Conns \ {cmdConn} : toServer'[c] = toServer[c]
  BY <1>1, <1>2, <1>3, <1>4 DEF NetTypes
<1>11. OneLine'
  BY <1>1, <1>10 DEF OneLine, Short
<1>12. Waiting' = Waiting
  BY <1>1 DEF Waiting
<1>13. AcceptedOnce' /\ UnusedEmpty'
  BY <1>1, <1>10, <1>12 DEF AcceptedOnce, UnusedEmpty, Unused, Empty
<1>14. QuietBetweenCalls' /\ CallOwnsLine'
  BY <1>1, <1>3, <1>4, <1>10 DEF QuietBetweenCalls, CallOwnsLine, Empty
<1>15. DoneIsExecuted'
  BY <1>7, <1>10 DEF DoneIsExecuted
<1> QED BY <1>7, <1>8, <1>9, <1>11, <1>13, <1>14, <1>15

LEMMA ReadFailsKeeps == LinkInv /\ ReadFails => LinkInv'
<1> SUFFICES ASSUME LinkInv, ReadFails PROVE LinkInv'
  OBVIOUS
<1> USE DEF LinkInv, Types, Lines
<1>1. /\ call # NoCall /\ ready' = FALSE /\ call' = NoCall
      /\ Return(call.by, call.req, Failed)
      /\ UNCHANGED <<cmdConn, closed, listening, closer, acceptor, open>>
      /\ UNCHANGED <<ea, backlog, up, toEA, toServer, conns>>
  BY DEF ReadFails
<1>2. call.by \in Callers \cup Conns /\ call.req \in Orders \cup {Ping}
  BY <1>1 DEF ServerTypes, Calls
<1>3. /\ CallerTypes' /\ AnswersMatch' /\ executed' = executed
      /\ beat' \in [Conns -> {"none", "wait", "ping", "failed", "gone"}]
  <2>1. beat \in [Conns -> {"none", "wait", "ping", "failed", "gone"}]
    BY DEF ServerTypes
  <2> QED BY <1>1, <1>2, <2>1, FailedIsError, ReturnKeeps
<1>4. ServerTypes'
  BY <1>1, <1>3 DEF ServerTypes, Calls
<1>5. linkFaults' \in 0..MaxLinkFaults
  BY DEF ReadFails, NetTypes
<1>6. NetTypes'
  BY <1>1, <1>5 DEF NetTypes
<1>7. Waiting' = Waiting
  BY <1>1 DEF Waiting
<1>8. AcceptedOnce' /\ UnusedEmpty'
  BY <1>1, <1>7 DEF AcceptedOnce, UnusedEmpty, Unused, Empty
<1>9. OneLine' /\ QuietBetweenCalls' /\ CallOwnsLine' /\ DoneIsExecuted'
  BY <1>1, <1>3 DEF OneLine, QuietBetweenCalls, CallOwnsLine, DoneIsExecuted
<1> QED BY <1>3, <1>4, <1>6, <1>8, <1>9

LEMMA HeartbeatClosesKeeps == ASSUME LinkInv, NEW c \in Conns, HeartbeatCloses(c) PROVE LinkInv'
<1> USE DEF LinkInv, Types, Lines
<1>1. /\ UNCHANGED <<closed, listening, closer, acceptor, call, eaVars, callerVars>>
      /\ call = NoCall
      /\ \/ cmdConn' = NoConn /\ ready' = FALSE
         \/ UNCHANGED <<cmdConn, ready>>
  BY DEF HeartbeatCloses, Unlocked
<1>2. beat' \in [Conns -> {"none", "wait", "ping", "failed", "gone"}] /\ open' \in [Conns -> BOOLEAN]
  BY DEF HeartbeatCloses, ServerTypes
<1>3. ServerTypes'
  BY <1>1, <1>2 DEF ServerTypes, Calls
<1>4. NetTypes' /\ CallerTypes' /\ AnswersMatch'
  BY <1>1 DEF eaVars, callerVars, NetTypes, CallerTypes, AnswersMatch
<1>5. UNCHANGED <<toEA, toServer, backlog, conns, executed>> /\ Waiting' = Waiting
  BY <1>1 DEF Waiting, eaVars, callerVars
<1>6. NoConn \notin Conns
  BY DEF Conns
<1>7. AcceptedOnce' /\ UnusedEmpty'
  BY <1>1, <1>5, <1>6 DEF AcceptedOnce, UnusedEmpty, Unused, Empty
<1>8. OneLine' /\ DoneIsExecuted'
  BY <1>5 DEF OneLine, DoneIsExecuted
<1>9. QuietBetweenCalls' /\ CallOwnsLine'
  <2>1. CASE cmdConn' = NoConn /\ ready' = FALSE
    BY <1>1, <2>1 DEF QuietBetweenCalls, CallOwnsLine
  <2>2. CASE UNCHANGED <<cmdConn, ready>>
    BY <1>1, <1>5, <2>2 DEF QuietBetweenCalls, CallOwnsLine, Unlocked, Empty
  <2> QED BY <1>1, <2>1, <2>2
<1> QED BY <1>3, <1>4, <1>7, <1>8, <1>9

-----------------------------------------------------------------------------
(* The terminal and the network.                                            *)

LEMMA EnsureConnectionsKeeps == LinkInv /\ EnsureConnections => LinkInv'
<1> SUFFICES ASSUME LinkInv, EnsureConnections PROVE LinkInv'
  OBVIOUS
<1> USE DEF LinkInv, Types, Lines
<1>1. UNCHANGED <<toEA, toServer, linkFaults, serverVars, callerVars>>
  BY DEF EnsureConnections
<1>2. ServerTypes' /\ CallerTypes' /\ AnswersMatch'
  BY <1>1 DEF serverVars, callerVars, ServerTypes, Calls, CallerTypes, AnswersMatch
<1>3. OneLine' /\ QuietBetweenCalls' /\ CallOwnsLine' /\ DoneIsExecuted'
  BY <1>1 DEF serverVars, callerVars, OneLine, QuietBetweenCalls, CallOwnsLine,
              DoneIsExecuted, Unlocked, Empty
<1>4. UNCHANGED <<acceptor, cmdConn>>
  BY <1>1 DEF serverVars
<1>5. CASE UNCHANGED <<conns, backlog>>
  <2>1. ea' \in Conns \cup {NoConn} /\ up' \in [Conns -> BOOLEAN]
    <3>1. conns # conns + 1
      BY DEF NetTypes
    <3>2. ea' = NoConn /\ up' = [c \in Conns |-> up[c] /\ c # ea]
      BY <1>5, <3>1 DEF EnsureConnections
    <3> QED BY <3>2 DEF NetTypes
  <2>2. NetTypes'
    BY <1>1, <1>5, <2>1 DEF NetTypes
  <2>3. Waiting' = Waiting
    BY <1>5 DEF Waiting
  <2>4. AcceptedOnce' /\ UnusedEmpty'
    BY <1>1, <1>4, <1>5, <2>3 DEF AcceptedOnce, UnusedEmpty, Unused, Empty
  <2> QED BY <1>2, <1>3, <2>2, <2>4
<1>6. CASE /\ conns < MaxConns /\ conns' = conns + 1 /\ ea' = conns + 1
           /\ backlog' = Append(backlog, conns + 1)
           /\ up' = [c \in Conns |-> c = conns + 1 \/ (up[c] /\ c # ea)]
  <2>1. conns \in Nat /\ conns + 1 \in Conns /\ conns + 1 \in 0..MaxConns /\ backlog \in Seq(Conns)
    BY <1>6 DEF NetTypes, Conns
  <2>2. conns + 1 \notin Waiting
    BY <2>1 DEF AcceptedOnce
  <2>3. /\ backlog' \in Seq(Conns) /\ Waiting' = Waiting \cup {conns + 1}
        /\ \A i, j \in 1..Len(backlog') : backlog'[i] = backlog'[j] => i = j
    BY <1>6, <2>1, <2>2, WaitingAppend
  <2>4. up' \in [Conns -> BOOLEAN]
    BY <1>6 DEF NetTypes
  <2>5. NetTypes'
    BY <1>1, <1>6, <2>1, <2>3, <2>4 DEF NetTypes
  <2>6. AcceptedOnce'
    <3>1. conns' = conns + 1 /\ Waiting \subseteq Nat
      BY <1>6, <2>1 DEF Waiting, Conns
    <3>2. \A c \in Waiting' : c <= conns'
      BY <2>1, <2>3, <3>1 DEF AcceptedOnce
    <3>3. acceptor.at = "install" =>
             /\ acceptor.conn \in Conns /\ acceptor.conn <= conns'
             /\ acceptor.conn \notin Waiting'
      BY <2>1, <2>3, <3>1 DEF AcceptedOnce, Conns
    <3> QED BY <1>4, <2>3, <3>2, <3>3 DEF AcceptedOnce
  <2>7. \A c \in Conns : Unused(c)' => Unused(c)
    BY <1>4, <1>6, <2>1, <2>3 DEF Unused, Conns
  <2>8. UnusedEmpty'
    BY <1>1, <1>4, <2>7 DEF UnusedEmpty, Empty
  <2> QED BY <1>2, <1>3, <2>5, <2>6, <2>8
<1> QED BY <1>5, <1>6 DEF EnsureConnections

LEMMA ServeCommandKeeps == LinkInv /\ ServeCommand => LinkInv'
<1> SUFFICES ASSUME LinkInv, ServeCommand PROVE LinkInv'
  OBVIOUS
<1> USE DEF LinkInv, Types, Lines
<1> DEFINE req == Head(toEA[ea])
<1>1. /\ ea \in Conns /\ toEA[ea] # <<>>
      /\ executed' = IF req \in Orders THEN executed \cup {req} ELSE executed
      /\ toEA' = [toEA EXCEPT ![ea] = Tail(@)]
      /\ UNCHANGED <<cmdConn, ready, closed, listening, closer, acceptor, beat, call, open>>
      /\ UNCHANGED <<ea, backlog, up, conns, want, issued, result>>
  BY DEF ServeCommand, serverVars, NetTypes
<1>2. PICK answers \in {<<Answer(req, "done")>>, <<Answer(req, "garbled")>>, <<>>} :
         toServer' = [toServer EXCEPT ![ea] = @ \o answers]
  BY DEF ServeCommand
<1>3. req \in Orders \cup {Ping} /\ Tail(toEA[ea]) = <<>> /\ toServer[ea] = <<>>
  BY <1>1, ShortSeq DEF OneLine
<1>4. toEA'[ea] = <<>> /\ \A c \in Conns \ {ea} : toEA'[c] = toEA[c] /\ toServer'[c] = toServer[c]
  BY <1>1, <1>2, <1>3 DEF NetTypes
<1>5. PICK kind \in {"done", "garbled"} :
         toServer'[ea] = <<>> \/ toServer'[ea] = <<Answer(req, kind)>>
  BY <1>1, <1>2, <1>3, OneLineSeq DEF NetTypes
<1>6. /\ Answer(req, kind) \in Answers /\ Answer(req, kind).of = req
      /\ <<Answer(req, kind)>> # <<>> /\ Head(<<Answer(req, kind)>>) = Answer(req, kind)
  BY <1>3, <1>5, OneLineSeq DEF Answer, Answers
<1>7. linkFaults' \in 0..MaxLinkFaults
  BY DEF ServeCommand, NetTypes
<1>8. ServerTypes'
  BY <1>1 DEF ServerTypes, Calls
<1>9. NetTypes'
  BY <1>1, <1>2, <1>7 DEF NetTypes
<1>10. CallerTypes' /\ AnswersMatch'
  BY <1>1 DEF CallerTypes, AnswersMatch
<1>11. OneLine'
  BY <1>1, <1>4, <1>5, <1>6 DEF OneLine, Short
<1>12. Waiting' = Waiting /\ \A c \in Conns : Unused(c)' <=> Unused(c)
  BY <1>1 DEF Waiting, Unused
<1>13. \A c \in Conns : Unused(c) => c # ea
  BY <1>1 DEF UnusedEmpty, Empty
<1>14. AcceptedOnce' /\ UnusedEmpty'
  BY <1>1, <1>4, <1>12, <1>13 DEF AcceptedOnce, UnusedEmpty, Empty
<1>15. QuietBetweenCalls'
  BY <1>1, <1>4 DEF QuietBetweenCalls, Unlocked, Empty, ServerTypes
<1>16. CallOwnsLine'
  <2>1. call # NoCall => cmdConn \in Conns
    BY DEF CallOwnsLine, ServerTypes, Calls
  <2>2. CASE cmdConn = ea
    BY <1>1, <1>4, <1>5, <1>6, <2>2 DEF CallOwnsLine
  <2>3. CASE cmdConn # ea
    BY <1>1, <1>4, <2>1, <2>3 DEF CallOwnsLine
  <2> QED BY <2>2, <2>3
<1>17. DoneIsExecuted'
  <2>1. req \in Orders => req \in executed'
    BY <1>1
  <2>2. executed \subseteq executed'
    BY <1>1
  <2> HIDE DEF req
  <2> QED BY <1>1, <1>4, <1>5, <1>6, <2>1, <2>2 DEF DoneIsExecuted
<1> QED BY <1>8, <1>9, <1>10, <1>11, <1>14, <1>15, <1>16, <1>17

LEMMA CutKeeps == LinkInv /\ Cut => LinkInv'
<1> SUFFICES ASSUME LinkInv, Cut PROVE LinkInv'
  OBVIOUS
<1> USE DEF LinkInv, Types, Lines
<1>1. /\ ea \in Conns /\ toEA' = [toEA EXCEPT ![ea] = <<>>]
      /\ UNCHANGED <<cmdConn, ready, closed, listening, closer, acceptor, beat, call, open>>
      /\ UNCHANGED <<ea, backlog, toServer, conns, want, issued, result, executed>>
  BY DEF Cut, serverVars, callerVars, NetTypes
<1>2. up' \in [Conns -> BOOLEAN] /\ linkFaults' \in 0..MaxLinkFaults
  BY DEF Cut, NetTypes
<1>3. toEA'[ea] = <<>> /\ \A c \in Conns \ {ea} : toEA'[c] = toEA[c]
  BY <1>1 DEF NetTypes
<1>4. ServerTypes'
  BY <1>1 DEF ServerTypes, Calls
<1>5. NetTypes'
  BY <1>1, <1>2 DEF NetTypes
<1>6. CallerTypes' /\ AnswersMatch'
  BY <1>1 DEF CallerTypes, AnswersMatch
<1>7. OneLine'
  BY <1>1, <1>3 DEF OneLine, Short
<1>8. Waiting' = Waiting /\ \A c \in Conns : Unused(c)' <=> Unused(c)
  BY <1>1 DEF Waiting, Unused
<1>9. AcceptedOnce' /\ UnusedEmpty'
  BY <1>1, <1>3, <1>8 DEF AcceptedOnce, UnusedEmpty, Empty
<1>10. QuietBetweenCalls' /\ CallOwnsLine'
  BY <1>1, <1>3 DEF QuietBetweenCalls, CallOwnsLine, Unlocked, Empty, ServerTypes
<1>11. DoneIsExecuted'
  BY <1>1 DEF DoneIsExecuted
<1> QED BY <1>4, <1>5, <1>6, <1>7, <1>9, <1>10, <1>11

-----------------------------------------------------------------------------
(* The theorems.                                                            *)

LEMMA LinkInvNext == LinkInv /\ [LinkNext]_linkVars => LinkInv'
<1> SUFFICES ASSUME LinkInv, [LinkNext]_linkVars PROVE LinkInv'
  OBVIOUS
<1>1. CASE Accept
  BY <1>1, AcceptConnKeeps, InstallKeeps, QuietStepsKeep DEF Accept
<1>2. ASSUME NEW c \in Conns, Heartbeat(c) PROVE LinkInv'
  <2>1. CASE HeartbeatPing(c)
    BY <2>1, SendCommandKeeps DEF HeartbeatPing
  <2> QED BY <1>2, <2>1, QuietStepsKeep, HeartbeatClosesKeeps DEF Heartbeat
<1>3. ASSUME NEW p \in Callers, Call(p) PROVE LinkInv'
  <2>1. want[p] \in Orders /\ SendCommand(p, want[p])
    BY <1>3 DEF Call, LinkInv, Types, CallerTypes
  <2> QED BY <2>1, SendCommandKeeps
<1>4. CASE ReadAnswer \/ ReadFails
  BY <1>4, ReadAnswerKeeps, ReadFailsKeeps
<1>5. CASE EnsureConnections \/ ServeCommand \/ Cut
  BY <1>5, EnsureConnectionsKeeps, ServeCommandKeeps, CutKeeps
<1>6. CASE Close \/ UNCHANGED linkVars \/ \E p \in Callers : Request(p)
  BY <1>6, QuietStepsKeep
<1> QED BY <1>1, <1>2, <1>3, <1>4, <1>5, <1>6 DEF LinkNext

LEMMA LinkInvariant == LinkSpec => []LinkInv
BY LinkInvInit, LinkInvNext, PTL DEF LinkSpec

\* The types, and that a connection never has two lines under way although the adapter's
\* callers and the heartbeats share it (cmdMu, server.go).
THEOREM LinkTypes == LinkSpec => []LinkTypeOK
BY LinkInvariant, InvGivesTypeOK, PTL

\* The answer SendCommand returns to an adapter call was given to that call's command,
\* which the terminal carried out, whatever timed out, broke, was garbled or came late.
THEOREM AnswersAreOwn == LinkSpec => []AnswersMatch
<1>1. LinkInv => AnswersMatch
  BY DEF LinkInv
<1> QED BY <1>1, LinkInvariant, PTL

\* A connection that was accepted is the current one, about to become it, or closed.
THEOREM ConnectionsClosed == LinkSpec => []OnlyCurrentOpen
<1>1. LinkInit => OnlyCurrentOpen
  BY DEF LinkInit, OnlyCurrentOpen
<1>2. LinkInv /\ OnlyCurrentOpen /\ [LinkNext]_linkVars => OnlyCurrentOpen'
  <2> SUFFICES ASSUME LinkInv, OnlyCurrentOpen, [LinkNext]_linkVars PROVE OnlyCurrentOpen'
    OBVIOUS
  <2>0. open \in [Conns -> BOOLEAN]
        /\ acceptor \in [at : {"accept", "install", "spawn", "exit"}, conn : Conns \cup {NoConn}]
    BY DEF LinkInv, Types, ServerTypes
  <2>1. CASE AcceptConn
    BY <2>0, <2>1 DEF AcceptConn, OnlyCurrentOpen
  <2>2. CASE Install
    BY <2>0, <2>2 DEF Install, OnlyCurrentOpen
  <2>3. CASE SpawnHeartbeat \/ AcceptFails
    BY <2>3 DEF SpawnHeartbeat, AcceptFails, OnlyCurrentOpen
  <2>4. ASSUME NEW c \in Conns, HeartbeatCloses(c) PROVE OnlyCurrentOpen'
    BY <2>0, <2>4 DEF HeartbeatCloses, OnlyCurrentOpen
  <2>5. CASE Close
    BY <2>0, <2>5 DEF Close, CloseBegins, CloseUnready, CloseTests, CloseConn, CloseListener,
                      OnlyCurrentOpen
  <2>6. CASE UNCHANGED <<cmdConn, acceptor, open>>
    BY <2>6 DEF OnlyCurrentOpen
  <2>7. ASSUME \/ \E c \in Conns : HeartbeatTick(c) \/ HeartbeatPing(c)
               \/ \E p \in Callers : Request(p) \/ Call(p)
               \/ ReadAnswer \/ ReadFails \/ EnsureConnections \/ ServeCommand \/ Cut
               \/ UNCHANGED linkVars
        PROVE  UNCHANGED <<cmdConn, acceptor, open>>
    BY <2>7 DEF HeartbeatTick, HeartbeatPing, Request, Call, SendCommand, ReadAnswer,
                ReadFails, EnsureConnections, ServeCommand, Cut, linkVars, serverVars
  <2> QED BY <2>1, <2>2, <2>3, <2>4, <2>5, <2>6, <2>7 DEF LinkNext, Accept, Heartbeat
<1> QED BY <1>1, <1>2, LinkInvariant, PTL DEF LinkSpec

=============================================================================
