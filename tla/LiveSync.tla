----------------------------- MODULE LiveSync ------------------------------
(***************************************************************************)
(* cmd/bot/main.go with the MT5 adapter: four parties keep books of the    *)
(* same positions.  The terminal holds them; every 500 ms the reconcile    *)
(* loop lists them, overwrites the risk manager's counts and brings the    *)
(* tracker into line; the tick goroutine tightens stops in the tracker and *)
(* sends them out; a worker places orders, whose fill callback counts the  *)
(* position and leaves its levels in pendingFills.  The web and Telegram   *)
(* handlers halt trading and close positions at any moment.                *)
(*                                                                         *)
(* A command is one step at the terminal, as cmdMu admits one at a time    *)
(* (Mt5Link), and may fail or be carried out with its answer lost.  A stop *)
(* is a level: the higher, the tighter.  A symbol takes one position       *)
(* (MaxPositionsPerSymbol), and the tracker's rules of when to tighten or  *)
(* to close (PositionTracker) are any choice here.                         *)
(***************************************************************************)
EXTENDS Naturals, Sequences, FiniteSets

CONSTANTS
    Symbols,
    FirstStops,    \* stops orders are placed with
    MaxStop,       \* the tightest stop
    Nobody,
    MaxTickets, MaxFaults   \* bounds of the model

ASSUME SyncAssumption ==
    /\ MaxStop \in Nat /\ FirstStops \subseteq 1..MaxStop
    /\ Nobody \notin Symbols \cup [origin : Nat, stop : Nat]
    /\ MaxTickets \in Nat /\ MaxFaults \in Nat

Tickets == 1..MaxTickets

VARIABLES
    \* the terminal
    symbolOf,     \* the tickets issued so far, by symbol
    live,         \* ticket -> its stop, for the positions open
    \* the bot's books
    tracked,      \* ticket -> the tracker's record of it, or Nobody
    counted,      \* symbol -> the risk manager's positions
    pendingFills, \* symbol -> stop left by the fill callback, or Nobody
    modifications,\* stop changes the tick goroutine has to send
    \* the goroutines
    sync,         \* the reconcile loop: where it stands, its list, what is left of it
    consumer,     \* the symbol of the order approved and not submitted, or Nobody
    worker,       \* the order a worker is busy with
    spacing,      \* symbol -> how far its order spacing (90 s) has run
    halted,       \* emergencyHalted
    faults,
    recorded,     \* history: ticket -> trades recorded for it
    late          \* history: orders accepted since the halt

terminal == <<symbolOf, live>>
books == <<tracked, counted, pendingFills>>
orders == <<consumer, worker, spacing, halted, late>>
vars == <<terminal, books, modifications, sync, orders, faults, recorded>>

Idle == [at |-> "idle", symbol |-> Nobody, stop |-> 0]
Resting == [at |-> "rest", list |-> <<>>, todo |-> {}]

Init ==
    /\ symbolOf = <<>> /\ live = [t \in {} |-> 0]
    /\ tracked = [t \in Tickets |-> Nobody]
    /\ counted = [s \in Symbols |-> 0] /\ pendingFills = [s \in Symbols |-> Nobody]
    /\ modifications = <<>> /\ sync = Resting
    /\ consumer = Nobody /\ worker = Idle
    /\ spacing = [s \in Symbols |-> "over"]
    /\ halted = FALSE /\ faults = 0
    /\ recorded = [t \in Tickets |-> 0] /\ late = 0

Open == DOMAIN live
Tracked == {t \in Tickets : tracked[t] # Nobody}
Without(f, t) == [u \in DOMAIN f \ {t} |-> f[u]]
Fault == faults < MaxFaults /\ faults' = faults + 1

-----------------------------------------------------------------------------
(* The reconcile loop.                                                      *)

\* GetAccountState and ListOpenPositionsWithDetails; the orders placed before
\* this list and answered are in it.
List ==
    /\ sync.at = "rest"
    /\ sync' = [at |-> "count", list |-> live, todo |-> {}]
    /\ spacing' = [s \in Symbols |->
                      IF spacing[s] = "fresh" /\ worker.symbol # s THEN "listed" ELSE spacing[s]]
    /\ UNCHANGED <<terminal, books, modifications, consumer, worker, halted, late,
                   faults, recorded>>

SyncPositions ==
    /\ sync.at = "count"
    /\ counted' = [s \in Symbols |-> Cardinality({t \in DOMAIN sync.list : symbolOf[t] = s})]
    /\ sync' = [sync EXCEPT !.at = "prune"]
    /\ UNCHANGED <<terminal, tracked, pendingFills, modifications, orders, faults, recorded>>

\* Fault: positions the terminal no longer lists stay in the tracker.
Prune_Skipped ==
    /\ sync.at = "prune"
    /\ sync' = [sync EXCEPT !.at = "apply", !.todo = DOMAIN sync.list]
    /\ UNCHANGED <<terminal, books, modifications, orders, faults, recorded>>

\* Fault: a closed position is recorded, and not removed.
Prune_Keeps ==
    /\ sync.at = "prune"
    /\ recorded' = [t \in Tickets |->
                       recorded[t] + IF t \in Tracked \ DOMAIN sync.list THEN 1 ELSE 0]
    /\ sync' = [sync EXCEPT !.at = "apply", !.todo = DOMAIN sync.list]
    /\ UNCHANGED <<terminal, books, modifications, orders, faults>>

\* Positions closed at the terminal leave the tracker and are recorded.
Prune ==
    /\ sync.at = "prune"
    /\ LET gone == Tracked \ DOMAIN sync.list IN
          /\ tracked' = [t \in Tickets |-> IF t \in gone THEN Nobody ELSE tracked[t]]
          /\ recorded' = [t \in Tickets |-> recorded[t] + IF t \in gone THEN 1 ELSE 0]
    /\ sync' = [sync EXCEPT !.at = "apply", !.todo = DOMAIN sync.list]
    /\ UNCHANGED <<terminal, counted, pendingFills, modifications, orders, faults>>

SameSymbol(t) == {u \in Tracked : symbolOf[u] = symbolOf[t]}

\* Fault: only new positions take the terminal's stop.
Apply_NoUpdate(t) ==
    /\ IF t \in Tracked THEN UNCHANGED tracked
       ELSE tracked' = [tracked EXCEPT ![t] = [origin |-> t, stop |-> sync.list[t]]]
    /\ UNCHANGED pendingFills

\* One listed position: the tracked one takes its stop; an unknown one is the
\* tracked position of its symbol under a new ticket, if there is one; else it is
\* added, with the levels waiting in pendingFills rather than its own.
Apply(t) ==
    \/ /\ t \in Tracked
       /\ tracked' = [tracked EXCEPT ![t].stop = sync.list[t]]
       /\ UNCHANGED pendingFills
    \/ /\ t \notin Tracked
       /\ \E u \in SameSymbol(t) :
             tracked' = [tracked EXCEPT ![t] = [tracked[u] EXCEPT !.stop = sync.list[t]],
                                        ![u] = Nobody]
       /\ UNCHANGED pendingFills
    \/ /\ t \notin Tracked /\ SameSymbol(t) = {}
       /\ LET waiting == pendingFills[symbolOf[t]] IN
             tracked' = [tracked EXCEPT ![t] =
                 [origin |-> t, stop |-> IF waiting = Nobody THEN sync.list[t] ELSE waiting]]
       /\ pendingFills' = [pendingFills EXCEPT ![symbolOf[t]] = Nobody]

ApplyOne ==
    /\ sync.at = "apply"
    /\ \E t \in sync.todo : Apply(t) /\ sync' = [sync EXCEPT !.todo = @ \ {t}]
    /\ UNCHANGED <<terminal, counted, modifications, orders, faults, recorded>>

\* The stagnant-trade killer closes any of the tracked positions; then the loop rests.
FinishSync ==
    /\ sync.at = "apply" /\ sync.todo = {}
    /\ \E stagnant \in SUBSET Tracked : live' = [t \in Open \ stagnant |-> live[t]]
    /\ sync' = Resting
    /\ spacing' = [s \in Symbols |-> IF spacing[s] = "listed" THEN "synced" ELSE spacing[s]]
    /\ UNCHANGED <<symbolOf, books, modifications, consumer, worker, halted, late,
                   faults, recorded>>

-----------------------------------------------------------------------------
(* The tick goroutine: OnTick only once the last tick's changes are sent.   *)

\* Fault: a tick is handled before the stops of the last one are sent.
TickTightens_Unsent(t) ==
    /\ t \in Tracked /\ tracked[t].stop < MaxStop
    /\ \E stop \in tracked[t].stop + 1 .. MaxStop :
          /\ tracked' = [tracked EXCEPT ![t].stop = stop]
          /\ modifications' = Append(modifications, [ticket |-> t, stop |-> stop])
    /\ UNCHANGED <<terminal, counted, pendingFills, sync, orders, faults, recorded>>

TickTightens(t) ==
    /\ modifications = <<>> /\ t \in Tracked /\ tracked[t].stop < MaxStop
    /\ \E stop \in tracked[t].stop + 1 .. MaxStop :
          /\ tracked' = [tracked EXCEPT ![t].stop = stop]
          /\ modifications' = <<[ticket |-> t, stop |-> stop]>>
    /\ UNCHANGED <<terminal, counted, pendingFills, sync, orders, faults, recorded>>

\* A stop, target or time limit is hit: the broker is asked to close, on every
\* such tick again until the reconcile loop takes the position out.
TickCloses(t) ==
    /\ modifications = <<>> /\ t \in Tracked
    /\ \/ live' = Without(live, t) /\ UNCHANGED faults
       \/ Fault /\ UNCHANGED live
    /\ UNCHANGED <<symbolOf, books, modifications, sync, orders, recorded>>

\* ModifyPosition: the terminal takes the stop, or the command fails.
SendModification ==
    /\ modifications # <<>>
    /\ LET m == Head(modifications) IN
          \/ /\ live' = IF m.ticket \in Open THEN [live EXCEPT ![m.ticket] = m.stop] ELSE live
             /\ UNCHANGED faults
          \/ Fault /\ UNCHANGED live
    /\ modifications' = Tail(modifications)
    /\ UNCHANGED <<symbolOf, books, sync, orders, recorded>>

-----------------------------------------------------------------------------
(* The signal consumer and a worker.                                        *)

\* Fault: the kill switch is not tested.
Approve_NoHalt(s) ==
    /\ consumer = Nobody
    /\ spacing[s] = "over" /\ counted[s] = 0
    /\ consumer' = s
    /\ UNCHANGED <<terminal, books, modifications, sync, worker, spacing, halted, late,
                   faults, recorded>>

\* Fault: the order spacing is not tested.
Approve_NoSpacing(s) ==
    /\ consumer = Nobody /\ ~halted /\ counted[s] = 0
    /\ consumer' = s
    /\ UNCHANGED <<terminal, books, modifications, sync, worker, spacing, halted, late,
                   faults, recorded>>

\* The kill switch, the order spacing and the risk manager's limit are tested.
Approve(s) ==
    /\ consumer = Nobody /\ ~halted
    /\ spacing[s] = "over" /\ counted[s] = 0
    /\ consumer' = s
    /\ UNCHANGED <<terminal, books, modifications, sync, worker, spacing, halted, late,
                   faults, recorded>>

\* A later gate, or the dispatcher, refuses the order.
Drop ==
    /\ consumer # Nobody /\ consumer' = Nobody
    /\ UNCHANGED <<terminal, books, modifications, sync, worker, spacing, halted, late,
                   faults, recorded>>

Submit ==
    /\ consumer # Nobody /\ worker = Idle /\ Len(symbolOf) < MaxTickets
    /\ \E stop \in FirstStops :
          worker' = [at |-> "queued", symbol |-> consumer, stop |-> stop]
    /\ spacing' = [spacing EXCEPT ![consumer] = "fresh"]
    /\ consumer' = Nobody
    /\ late' = IF halted THEN late + 1 ELSE 0
    /\ UNCHANGED <<terminal, books, modifications, sync, halted, faults, recorded>>

\* The terminal opens the position and the answer arrives, or gets lost and the
\* order counts as rejected.
ExecuteOrder ==
    /\ worker.at = "queued"
    /\ LET t == Len(symbolOf) + 1 IN
          /\ symbolOf' = Append(symbolOf, worker.symbol)
          /\ live' = [u \in Open \cup {t} |-> IF u = t THEN worker.stop ELSE live[u]]
    /\ \/ worker' = [worker EXCEPT !.at = "filled"] /\ UNCHANGED faults
       \/ worker' = Idle /\ Fault
    /\ UNCHANGED <<books, modifications, sync, consumer, spacing, halted, late, recorded>>

RejectOrder ==
    /\ worker.at = "queued" /\ Fault
    /\ worker' = Idle
    /\ UNCHANGED <<terminal, books, modifications, sync, consumer, spacing, halted, late, recorded>>

\* The fill callback: RecordFillForSymbol, then pendingFills.
RecordFill ==
    /\ worker.at = "filled"
    /\ counted' = [counted EXCEPT ![worker.symbol] = @ + 1]
    /\ worker' = [worker EXCEPT !.at = "counted"]
    /\ UNCHANGED <<terminal, tracked, pendingFills, modifications, sync, consumer,
                   spacing, halted, late, faults, recorded>>

LeaveLevels ==
    /\ worker.at = "counted"
    /\ pendingFills' = [pendingFills EXCEPT ![worker.symbol] = worker.stop]
    /\ worker' = Idle
    /\ UNCHANGED <<terminal, tracked, counted, modifications, sync, consumer,
                   spacing, halted, late, faults, recorded>>

\* Ninety seconds are over: longer than an order and the reconcile cycle after it.
SpacingOver(s) ==
    /\ spacing[s] = "synced"
    /\ spacing' = [spacing EXCEPT ![s] = "over"]
    /\ UNCHANGED <<terminal, books, modifications, sync, consumer, worker, halted, late,
                   faults, recorded>>

-----------------------------------------------------------------------------
(* The user and the market.                                                 *)

\* The kill switch or a pause (emergencyHalted), and its end.
TogglePause ==
    /\ halted' = ~halted /\ late' = 0
    /\ UNCHANGED <<terminal, books, modifications, sync, consumer, worker, spacing,
                   faults, recorded>>

\* Kill switch, close-all and close-position handlers close what is tracked.
UserCloses(t) ==
    /\ t \in Tracked \cap Open
    /\ live' = Without(live, t)
    /\ UNCHANGED <<symbolOf, books, modifications, sync, orders, faults, recorded>>

\* The terminal's own stop or target, whoever tracks the position.
TerminalCloses(t) ==
    /\ t \in Open
    /\ live' = Without(live, t)
    /\ UNCHANGED <<symbolOf, books, modifications, sync, orders, faults, recorded>>

Reconcile == List \/ SyncPositions \/ Prune \/ ApplyOne \/ FinishSync
Worker == ExecuteOrder \/ RejectOrder \/ RecordFill \/ LeaveLevels

Next ==
    \/ Reconcile
    \/ \E t \in Tickets : TickTightens(t) \/ TickCloses(t)
    \/ SendModification
    \/ \E s \in Symbols : Approve(s) \/ SpacingOver(s)
    \/ Drop \/ Submit
    \/ Worker
    \/ TogglePause
    \/ \E t \in Tickets : UserCloses(t) \/ TerminalCloses(t)

Spec == Init /\ [][Next]_vars

\* The reconcile loop, the workers and the sending of stops are not starved.
FairSpec == Spec /\ WF_vars(Reconcile) /\ WF_vars(Worker) /\ WF_vars(SendModification)
-----------------------------------------------------------------------------
Stops == 1..MaxStop
Record == [origin : Tickets, stop : Stops]

\* Type invariant.
TypeOK ==
    /\ symbolOf \in Seq(Symbols) /\ Open \subseteq 1..Len(symbolOf)
    /\ \A t \in Open : live[t] \in Stops
    /\ tracked \in [Tickets -> Record \cup {Nobody}]
    /\ counted \in [Symbols -> Nat] /\ pendingFills \in [Symbols -> Stops \cup {Nobody}]
    /\ Len(modifications) <= 1
    /\ sync.at \in {"rest", "count", "prune", "apply"} /\ sync.todo \subseteq DOMAIN sync.list
    /\ consumer \in Symbols \cup {Nobody}
    /\ worker \in [at : {"idle", "queued", "filled", "counted"},
                   symbol : Symbols \cup {Nobody}, stop : 0..MaxStop]
    /\ spacing \in [Symbols -> {"over", "fresh", "listed", "synced"}]
    /\ halted \in BOOLEAN /\ faults \in 0..MaxFaults
    /\ recorded \in [Tickets -> Nat] /\ late \in Nat

\* "Anti-stacking" in live mode: whatever answers get lost and however stale the
\* list the counts are overwritten with, a symbol has one position at the most,
\* its order under way included.
OnePerSymbol ==
    \A s \in Symbols :
       Cardinality({t \in Open : symbolOf[t] = s})
         + (IF worker.at = "queued" /\ worker.symbol = s THEN 1 ELSE 0) <= 1

\* No position is managed under the record of another one: the adoption of an
\* unknown ticket by its symbol never meets two different positions.
OwnTicket == \A t \in Tracked : tracked[t].origin = t

\* A trade is recorded once, and only when its position is closed.
RecordedOnce == \A t \in Tickets : recorded[t] <= (IF t \in Open THEN 0 ELSE 1)

\* Once halted, at most one more order is accepted: the one already approved.
AtMostOneAfterHalt == late <= 1

\* All books agree again and again: the tracker has the terminal's positions with
\* their stops, and the risk manager counts them.
Agree ==
    /\ Tracked = Open
    /\ \A t \in Open : tracked[t].stop = live[t]
    /\ \A s \in Symbols : counted[s] = Cardinality({t \in Open : symbolOf[t] = s})

Settles == []<>Agree
=============================================================================
