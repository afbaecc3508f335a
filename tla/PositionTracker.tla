-------------------------- MODULE PositionTracker --------------------------
(***************************************************************************)
(* internal/executor/tracker.go: the positions under management and what a *)
(* tick does to each: time stop, partial take profit, profit locker or     *)
(* break-even, trailing stop, and the stop-loss and take-profit tests.     *)
(* PositionTracker.mu makes every method one action.                       *)
(*                                                                         *)
(* A price of a position is counted in pips in its favour from its entry:  *)
(* Bid - EntryPrice of a BUY, EntryPrice - Ask of a SELL.  In these units  *)
(* the two sides of the code are one; a missing stop (price 0) is below    *)
(* every price of a BUY, and the tests for it of a SELL say the same, but  *)
(* for the trailing stop, which never gives a SELL its first stop.         *)
(* Gold's pip is $0.01.  ATR multiples are in tenths, lots in hundredths,  *)
(* PartialTPRatio in percent; quotients are rounded down to a pip.         *)
(***************************************************************************)
EXTENDS Integers, Sequences

CONSTANTS
    Ids,            \* order ids (tickets)
    Symbols, Gold,
    Config,         \* the TrackerConfig
    Untracked,
    Gains, ATRs     \* gains a tick may show, ATRs a strategy may report

Positions ==
    [symbol : Symbols, side : {"BUY", "SELL"}, stop : Int, target : Int, lots : Nat,
     remaining : Nat, hwm : Int, breakEven : BOOLEAN, partialDone : BOOLEAN,
     stage : 0..3, state : {"open", "modified", "closed"}]

Levels == [stop : Int, target : Int]
CloseEvents ==
    [reason : {"PARTIAL_TP1_HIT", "TIME_STOP_HIT", "SL_HIT", "TP_HIT", "TP2_HIT"},
     lots : Nat, pips : Int]


ASSUME TrackerAssumption ==
    /\ Gold \subseteq Symbols
    /\ Config \in [trailing : BOOLEAN, trailATR : BOOLEAN, trailPips : Nat, trailMult : Nat,
                   breakEven : BOOLEAN, bePips : Nat, beBuffer : Nat,
                   locker : BOOLEAN, stageMult : [1..3 -> Nat],
                   partial : BOOLEAN, ratio : 1..99, tp1 : Nat, tp2 : Nat,
                   timeStop : BOOLEAN, autoRemove : BOOLEAN]
    /\ Untracked \notin Positions
    /\ Gains \subseteq Int /\ ATRs \subseteq Nat

VARIABLES
    positions,      \* id -> tracked position, Untracked if there is none
    modifications,  \* id -> the modify events not drained yet, oldest first
    closes          \* id -> the close events OnTick returned, not handled yet

trackerVars == <<positions, modifications, closes>>

NoStop   == -1000000   \* StopLoss 0
NoTarget ==  1000000   \* TakeProfit 0

Higher(a, b) == IF a > b THEN a ELSE b

Tracked == {id \in Ids : positions[id] # Untracked}

TrackerInit ==
    /\ positions = [id \in Ids |-> Untracked]
    /\ modifications = [id \in Ids |-> <<>>]
    /\ closes = [id \in Ids |-> <<>>]

Opened(sym, side, lots, sl, tp) ==
    [symbol |-> sym, side |-> side, stop |-> sl, target |-> tp,
     lots |-> lots, remaining |-> lots, hwm |-> 0,
     breakEven |-> FALSE, partialDone |-> FALSE, stage |-> 0, state |-> "open"]

Add(id, pos) ==
    /\ positions' = [positions EXCEPT ![id] = pos]
    /\ UNCHANGED <<modifications, closes>>

-----------------------------------------------------------------------------
(* OnTick for one position.  A tick's work on it is a record of the         *)
(* position so far and of the events raised so far.                          *)

Work(p) == [pos |-> p, mods |-> <<>>, closes |-> <<>>]

\* Every change of a stop is announced with the levels it leaves.
Modified(w, p) ==
    [w EXCEPT !.pos = [p EXCEPT !.state = "modified"],
              !.mods = Append(@, [stop |-> p.stop, target |-> p.target])]

WithClose(w, reason, lots, gain) ==
    [w EXCEPT !.closes = Append(@, [reason |-> reason, lots |-> lots, pips |-> gain])]

Closed(w, reason, gain) ==
    WithClose([w EXCEPT !.pos.state = "closed"], reason, w.pos.remaining, gain)

PartialLots(p) == (p.lots * Config.ratio) \div 100

PartialDue(p, gain) ==
    /\ Config.partial /\ ~p.partialDone /\ Config.tp1 > 0
    /\ gain >= IF p.symbol \in Gold THEN Higher(Config.tp1, 500) ELSE Config.tp1

\* The gold floor of the buffer applies only to a position too small to split.
PartialBuffer(p) ==
    IF p.symbol \in Gold /\ PartialLots(p) = 0 THEN Higher(Config.beBuffer, 20)
                                               ELSE Config.beBuffer

\* Fault: the whole position is closed in the name of its part.
PartialTP_All(w, gain) ==
    LET p == w.pos
        kept == [p EXCEPT !.partialDone = TRUE, !.breakEven = TRUE,
                          !.stop = Higher(@, PartialBuffer(p))]
    IN IF ~PartialDue(p, gain) THEN w
       ELSE IF PartialLots(p) = 0 THEN Modified(w, [kept EXCEPT !.stage = 1])
       ELSE WithClose(Modified(w, [kept EXCEPT !.remaining = @ - PartialLots(p)]),
                      "PARTIAL_TP1_HIT", p.lots, gain)

\* Fault: what is kept and what is closed are swapped in the subtraction.
PartialTP_Swapped(w, gain) ==
    LET p == w.pos
        kept == [p EXCEPT !.partialDone = TRUE, !.breakEven = TRUE,
                          !.stop = Higher(@, PartialBuffer(p))]
    IN IF ~PartialDue(p, gain) \/ PartialLots(p) >= p.remaining THEN w
       ELSE IF PartialLots(p) = 0 THEN Modified(w, [kept EXCEPT !.stage = 1])
       ELSE WithClose(Modified(w, [kept EXCEPT !.remaining = PartialLots(p) - @]),
                      "PARTIAL_TP1_HIT", PartialLots(p), gain)

\* Multi-stage partial take profit: close a part, or keep all; the stop goes to
\* break-even.  The part is smaller than what remains, as the ratio is below one.
PartialTP(w, gain) ==
    LET p == w.pos
        kept == [p EXCEPT !.partialDone = TRUE, !.breakEven = TRUE,
                          !.stop = Higher(@, PartialBuffer(p))]
    IN IF ~PartialDue(p, gain) \/ PartialLots(p) >= p.remaining THEN w
       ELSE IF PartialLots(p) = 0 THEN Modified(w, [kept EXCEPT !.stage = 1])
       ELSE WithClose(Modified(w, [kept EXCEPT !.remaining = @ - PartialLots(p)]),
                      "PARTIAL_TP1_HIT", PartialLots(p), gain)

-----------------------------------------------------------------------------
StageFloor == <<300, 600, 850>>
StageThreshold(k, atr) == Higher((atr * Config.stageMult[k]) \div 10, StageFloor[k])

\* Fault: the whole gain is locked.
LockedGain_Full(k, gain) == gain

LockedGain(k, gain) ==
    CASE k = 3 -> Higher((gain * 3) \div 4, 750)
      [] k = 2 -> Higher(gain \div 2, 350)
      [] k = 1 -> Higher(Config.beBuffer, 20)

StageStep(k) == IF k = 1 THEN 15 ELSE 25

\* The highest stage the gain has reached and the position has not; 0 if none.
StageDue(p, gain, atr) ==
    IF gain >= StageThreshold(3, atr) /\ p.stage < 3 THEN 3
    ELSE IF gain >= StageThreshold(2, atr) /\ p.stage < 2 THEN 2
    ELSE IF gain >= StageThreshold(1, atr) /\ p.stage < 1 THEN 1
    ELSE 0

\* Fault: the stage is advanced although the stop was not moved.
ProfitLock_StageOnly(w, gain, atr) ==
    LET k == StageDue(w.pos, gain, atr)
    IN IF k > 0 THEN Modified(w, [w.pos EXCEPT !.stage = k, !.breakEven = TRUE]) ELSE w

ProfitLock(w, gain, atr) ==
    LET k == StageDue(w.pos, gain, atr)
    IN IF k > 0 /\ LockedGain(k, gain) > w.pos.stop + StageStep(k)
       THEN Modified(w, [w.pos EXCEPT !.stop = LockedGain(k, gain), !.stage = k,
                                      !.breakEven = TRUE])
       ELSE w

BreakEvenAt(sym, atr) ==
    IF sym \in Gold THEN Higher(Config.bePips, Higher((atr * 15) \div 10, 500))
                    ELSE Config.bePips

BreakEvenBuffer(sym) ==
    IF sym \in Gold THEN Higher(Config.beBuffer, 15) ELSE Config.beBuffer

BreakEven(w, gain, atr) ==
    LET p == w.pos
    IN IF ~p.breakEven /\ gain >= BreakEvenAt(p.symbol, atr)
       THEN Modified(w, [p EXCEPT !.stop = Higher(@, BreakEvenBuffer(p.symbol)),
                                  !.breakEven = TRUE, !.stage = 1])
       ELSE w

\* The profit locker manages gold; everything else gets the plain break-even.
Protect(w, gain, atr) ==
    IF Config.locker /\ w.pos.symbol \in Gold THEN ProfitLock(w, gain, atr)
    ELSE IF Config.breakEven THEN BreakEven(w, gain, atr)
    ELSE w

-----------------------------------------------------------------------------
TrailDistance(sym, atr) ==
    LET dist == IF Config.trailATR /\ atr > 0 THEN (atr * Config.trailMult) \div 10
                                              ELSE Config.trailPips
    IN IF sym \in Gold THEN Higher(dist, Higher((atr * 12) \div 10, 150)) ELSE dist

TrailStep(sym) == IF sym \in Gold THEN 25 ELSE 5

\* Fault: the trailed level is not compared with the stop in force.
Trails_NoCompare(p, level) == p.side = "BUY" \/ p.stop # NoStop

Trails(p, level) ==
    /\ level > p.stop + TrailStep(p.symbol)
    /\ p.side = "BUY" \/ p.stop # NoStop

\* Fault: the trailed stop is not announced.
Trail_Silent(w, gain, atr) ==
    LET p     == [w.pos EXCEPT !.hwm = gain]
        level == gain - TrailDistance(p.symbol, atr)
    IN IF ~Config.trailing \/ gain <= w.pos.hwm THEN w
       ELSE IF Trails(p, level) THEN [w EXCEPT !.pos = [p EXCEPT !.stop = level]]
       ELSE [w EXCEPT !.pos = p]

\* A new best gain pulls the stop behind it, by a step at least.
Trail(w, gain, atr) ==
    LET p     == [w.pos EXCEPT !.hwm = gain]
        level == gain - TrailDistance(p.symbol, atr)
    IN IF ~Config.trailing \/ gain <= w.pos.hwm THEN w
       ELSE IF Trails(p, level) THEN Modified(w, [p EXCEPT !.stop = level])
       ELSE [w EXCEPT !.pos = p]

Exit(w, gain) ==
    LET p   == w.pos
        tp2 == IF p.symbol \in Gold THEN Higher(Config.tp2, 200) ELSE Config.tp2
    IN IF p.stop # NoStop /\ gain <= p.stop THEN Closed(w, "SL_HIT", gain)
       ELSE IF p.target # NoTarget /\ gain >= p.target THEN Closed(w, "TP_HIT", gain)
       ELSE IF p.target = NoTarget /\ Config.tp2 > 0 /\ gain >= tp2
            THEN Closed(w, "TP2_HIT", gain)
       ELSE w

Managed(p, gain, atr) == Trail(Protect(PartialTP(Work(p), gain), gain, atr), gain, atr)

\* Fault: only losing positions are timed out.
AfterTick_LosersOnly(p, gain, atr, overdue) ==
    IF Config.timeStop /\ overdue /\ gain < 0 THEN Closed(Work(p), "TIME_STOP_HIT", gain)
    ELSE Exit(Managed(p, gain, atr), gain)

AfterTick(p, gain, atr, overdue) ==
    IF Config.timeStop /\ overdue THEN Closed(Work(p), "TIME_STOP_HIT", gain)
    ELSE Exit(Managed(p, gain, atr), gain)

-----------------------------------------------------------------------------
\* A tick of sym: gain[id] is what it makes of position id, overdue the ids whose
\* TimeStopDuration is over.
OnTick(sym, gain, atr, overdue) ==
    LET after == [id \in Ids |->
            IF positions[id] # Untracked /\ positions[id].symbol = sym
            THEN AfterTick(positions[id], gain[id], atr, id \in overdue)
            ELSE Work(positions[id])]
        Gone(id) == \E i \in 1..Len(after[id].closes) :
                        after[id].closes[i].reason # "PARTIAL_TP1_HIT"
    IN /\ positions' = [id \in Ids |->
             IF Config.autoRemove /\ Gone(id) THEN Untracked ELSE after[id].pos]
       /\ modifications' = [id \in Ids |-> modifications[id] \o after[id].mods]
       /\ closes' = [id \in Ids |-> after[id].closes]

\* The tick loop takes the next close event of id.
HandleClose(id) ==
    /\ closes[id] # <<>>
    /\ closes' = [closes EXCEPT ![id] = Tail(@)]
    /\ UNCHANGED <<positions, modifications>>

DrainModifications ==
    /\ modifications' = [id \in Ids |-> <<>>]
    /\ UNCHANGED <<positions, closes>>
-----------------------------------------------------------------------------
\* What the stages of profit protection have promised for a position's stop.
StageOK(p) ==
    /\ p.stage = 3 => p.stop >= 750
    /\ p.stage >= 2 => p.stop >= 350
    /\ p.stage >= 1 \/ p.breakEven => p.stop >= Config.beBuffer

\* The lots of close events together.
LotsOf(events) ==
    LET sum[i \in 0..Len(events)] == IF i = 0 THEN 0 ELSE sum[i - 1] + events[i].lots
    IN sum[Len(events)]
=============================================================================
