------------------------------ MODULE TickLoop ------------------------------
(***************************************************************************)
(* cmd/bot/main.go in paper mode (no MT5 adapter): the tick goroutine gives *)
(* every tick to the position tracker, settles the close events with the   *)
(* broker and then sends it the new stops, while the dispatcher's workers  *)
(* add the positions they fill.  The broker's book is what its calls make   *)
(* of it (broker/mock.go: no call on a position fails).                    *)
(***************************************************************************)
EXTENDS PositionTracker

CONSTANTS
    StopLevels, TargetLevels, LotSizes   \* of the orders that are filled

ASSUME TickLoopAssumption ==
    /\ StopLevels \subseteq NoStop..-1 /\ TargetLevels \subseteq 1..NoTarget
    /\ LotSizes \subseteq Nat \ {0}

VARIABLES
    pc,           \* of the tick goroutine
    outbox,       \* id -> drained modify events not sent yet
    brokerStop,   \* id -> the stop the broker has for it
    brokerLots,   \* id -> the lots the broker holds
    overdue,      \* ids whose time stop is due
    filled        \* ids ever filled

loopVars == <<pc, outbox, brokerStop, brokerLots, overdue, filled>>
vars == <<trackerVars, loopVars>>

Init ==
    /\ TrackerInit
    /\ pc = "tick"
    /\ outbox = [id \in Ids |-> <<>>]
    /\ brokerStop = [id \in Ids |-> NoStop]
    /\ brokerLots = [id \in Ids |-> 0]
    /\ overdue = {} /\ filled = {}

\* The fill callback: the broker has filled the order with its levels.
Fill(id, sym, side, lots, sl, tp) ==
    /\ id \notin filled
    /\ filled' = filled \cup {id}
    /\ Add(id, Opened(sym, side, lots, sl, tp))
    /\ brokerStop' = [brokerStop EXCEPT ![id] = sl]
    /\ brokerLots' = [brokerLots EXCEPT ![id] = lots]
    /\ UNCHANGED <<pc, outbox, overdue>>

Tick(sym, gain, atr) ==
    /\ pc = "tick"
    /\ OnTick(sym, gain, atr, overdue)
    /\ pc' = "closes"
    /\ UNCHANGED <<outbox, brokerStop, brokerLots, overdue, filled>>

\* A part is closed by ClosePartial, a position by Close.
SettleClose(id) ==
    /\ pc = "closes"
    /\ HandleClose(id)
    /\ brokerLots' = [brokerLots EXCEPT ![id] =
           IF Head(closes[id]).reason = "PARTIAL_TP1_HIT" THEN @ - Head(closes[id]).lots ELSE 0]
    /\ UNCHANGED <<pc, outbox, brokerStop, overdue, filled>>

Drain ==
    /\ pc = "closes" /\ \A id \in Ids : closes[id] = <<>>
    /\ outbox' = modifications
    /\ DrainModifications
    /\ pc' = "modify"
    /\ UNCHANGED <<brokerStop, brokerLots, overdue, filled>>

ModifyPosition(id) ==
    /\ pc = "modify" /\ outbox[id] # <<>>
    /\ brokerStop' = [brokerStop EXCEPT ![id] = Head(outbox[id]).stop]
    /\ outbox' = [outbox EXCEPT ![id] = Tail(@)]
    /\ UNCHANGED <<trackerVars, pc, brokerLots, overdue, filled>>

NextTick ==
    /\ pc = "modify" /\ \A id \in Ids : outbox[id] = <<>>
    /\ pc' = "tick"
    /\ UNCHANGED <<trackerVars, outbox, brokerStop, brokerLots, overdue, filled>>

\* Environment: TimeStopDuration has passed since the position was opened.
Overdue(id) ==
    /\ id \in Tracked \ overdue
    /\ overdue' = overdue \cup {id}
    /\ UNCHANGED <<trackerVars, pc, outbox, brokerStop, brokerLots, filled>>

Next ==
    \/ \E id \in Ids, sym \in Symbols, side \in {"BUY", "SELL"}, lots \in LotSizes,
          sl \in StopLevels, tp \in TargetLevels : Fill(id, sym, side, lots, sl, tp)
    \/ \E sym \in Symbols, gain \in [Ids -> Gains], atr \in ATRs : Tick(sym, gain, atr)
    \/ \E id \in Ids : SettleClose(id) \/ ModifyPosition(id) \/ Overdue(id)
    \/ Drain
    \/ NextTick

Spec == Init /\ [][Next]_vars

\* The tick goroutine never blocks for good, and the feed keeps delivering ticks of
\* every symbol through the one channel the goroutine reads.
Fairness ==
    /\ WF_vars(\E id \in Ids : SettleClose(id))
    /\ WF_vars(Drain)
    /\ WF_vars(\E id \in Ids : ModifyPosition(id))
    /\ WF_vars(NextTick)
    /\ \A sym \in Symbols :
          SF_vars(\E gain \in [Ids -> Gains], atr \in ATRs : Tick(sym, gain, atr))

FairSpec == Spec /\ Fairness
-----------------------------------------------------------------------------
\* Type invariant.
TypeOK ==
    /\ \A id \in Ids : positions[id] = Untracked \/ positions[id] \in Positions
    /\ modifications \in [Ids -> Seq(Levels)] /\ outbox \in [Ids -> Seq(Levels)]
    /\ closes \in [Ids -> Seq(CloseEvents)]
    /\ pc \in {"tick", "closes", "modify"}
    /\ brokerStop \in [Ids -> Int] /\ brokerLots \in [Ids -> Nat]
    /\ overdue \subseteq Ids /\ filled \subseteq Ids

\* No step loosens the stop of a managed position: whatever stage of partial take
\* profit, profit locker, break-even and trailing a tick goes through, in whatever
\* order a run of ticks goes through them.
StopsRatchet ==
    [][\A id \in Ids : positions[id] # Untracked /\ positions'[id] # Untracked
          => positions'[id].stop >= positions[id].stop]_vars

\* A stop that is moved lies behind the price that moved it: a position is stopped
\* out by a tick only at or below the stop it had before that tick.
MovedStopNeverFires ==
    [][\A id \in Ids : \A i \in 1..Len(closes'[id]) :
          (pc = "tick" /\ closes'[id][i].reason = "SL_HIT")
              => closes'[id][i].pips <= positions[id].stop]_vars

\* The gain a profit stage promised stays locked: the stop of a gold position at
\* stage 2 or 3 never lies below that stage's floor, and once break-even has been
\* announced the stop never lies below the entry plus the buffer.
StagesHold == \A id \in Tracked : StageOK(positions[id])

Pending(id) == outbox[id] \o modifications[id]

\* The broker will have the tracker's stop once the events under way have reached it:
\* no path of OnTick moves a stop without announcing it, none is lost or overtaken.
BrokerStopFollows ==
    \A id \in Tracked :
        IF Pending(id) = <<>> THEN brokerStop[id] = positions[id].stop
        ELSE Pending(id)[Len(Pending(id))].stop = positions[id].stop

\* The broker holds what the tracker thinks remains, plus the lots of the close
\* events still to be settled: parts and wholes are never closed twice or lost.
BooksAgree ==
    \A id \in Ids :
        brokerLots[id] = LotsOf(closes[id])
                         + IF id \in Tracked THEN positions[id].remaining ELSE 0

\* A position whose time stop is due leaves the broker's book.
OverdueCloses ==
    \A id \in Ids : (Config.timeStop /\ id \in overdue) ~> (brokerLots[id] = 0)
=============================================================================
