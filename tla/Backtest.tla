------------------------------ MODULE Backtest ------------------------------
(***************************************************************************)
(* internal/backtest: the engine that runs recorded ticks of one symbol    *)
(* through the risk manager and the position tracker of the live bot, and  *)
(* the report made of its trades.  One goroutine: an iteration of its loop *)
(* is tracked, then its close events are settled, then a signal may enter  *)
(* a position, then the equity may be sampled.                             *)
(*                                                                         *)
(* What the strategies and the AI filter make of a tick is any signal and  *)
(* any verdict.  Money is in cents (one pip of a hundredth of a lot of     *)
(* gold), distances in gold pips.                                          *)
(***************************************************************************)
EXTENDS PositionTracker, FiniteSetsExt

CONSTANTS
    Symbol,
    InitialEquity,    \* cfg.InitialBalance, and the manager's InitialEquity
    DrawdownLimit, InitialMinLot, InitialMaxLot, NoOrder,
    Slippage,         \* pips
    Commission,       \* cents per hundredth of a lot
    Signals,          \* side and distances of the levels; 0 for a missing level
    Spreads, RawLots,
    FirstDays,        \* the day (YearDay) the ticks start on; they end today
    MaxSamples        \* bound of the model, as is the number of Ids

ASSUME BacktestAssumption ==
    /\ Symbols = {Symbol} /\ Symbol \in Gold
    /\ IsFiniteSet(Ids) /\ Ids = 1..Cardinality(Ids)
    /\ InitialEquity \in Int /\ DrawdownLimit \in Nat
    /\ InitialMinLot \in Nat /\ InitialMaxLot \in Nat
    /\ Slippage \in Nat /\ Commission \in Nat /\ MaxSamples \in Nat
    /\ Signals \subseteq [side : {"BUY", "SELL"}, sl : Nat, tp : Nat]
    /\ Spreads \subseteq Nat /\ RawLots \subseteq Nat /\ FirstDays \subseteq Nat

VARIABLES
    equity, dailyPnL, openPositions, symbolPositions, circuitOpen,
    profitTargetReached, lastResetDay, fixedLots, cfg, order, utcDay, low,
    pc,          \* of the loop
    day,         \* the day of the current tick
    signal,      \* the one being turned into an order
    nextId,      \* orderSeq + 1
    active,      \* activePositions: id -> lots
    floating,    \* id -> CurrentPnL, of the tracked positions
    balance, trades, curve

Risk == INSTANCE RiskManager WITH
    GoldCent <- {}, InitialTarget <- 0, InitialMaxOpen <- 2, InitialMaxSpread <- 60,
    TickSkew <- {0}, LocalSkew <- {0}

riskVars ==
    <<equity, dailyPnL, openPositions, symbolPositions, circuitOpen,
      profitTargetReached, lastResetDay, fixedLots, cfg, order, utcDay, low>>
ledgerVars == <<balance, trades, curve>>
entryVars  == <<signal, nextId>>
vars == <<trackerVars, riskVars, ledgerVars, entryVars, pc, day, active, floating>>

NoSignal == [side |-> "BUY", sl |-> 0, tp |-> 0]

Init ==
    /\ TrackerInit
    /\ Risk!RiskInit
    /\ pc = "track" /\ day \in FirstDays
    /\ signal = NoSignal /\ nextId = 1
    /\ active = <<>> /\ floating = [id \in Ids |-> 0]
    /\ balance = InitialEquity /\ trades = <<>> /\ curve = <<InitialEquity>>

GoTo(from, to) == pc = from /\ pc' = to

\* The loop goes on to the next tick, or this was the last.
NextTick(from) == pc = from /\ pc' \in {"track", "done"}

-----------------------------------------------------------------------------
(* A. The tracker.                                                          *)

Track(gain, atr, overdue) ==
    /\ GoTo("track", "closes")
    /\ OnTick(Symbol, gain, atr, overdue)
    /\ floating' = [id \in Ids |->
           IF id \in Tracked THEN gain[id] * positions[id].remaining ELSE 0]
    /\ UNCHANGED <<riskVars, ledgerVars, entryVars, day, active>>

\* Net of slippage and commission.
NetPnL(event) == event.lots * (event.pips - Slippage - Commission)

\* Fault: a part is booked as if the symbol's position were closed.
Book_FreesSlot(id, event) ==
    IF event.reason = "PARTIAL_TP1_HIT"
    THEN /\ Risk!RecordCloseForSymbol(Symbol, NetPnL(event))
         /\ active' = [active EXCEPT ![id] = @ - event.lots]
    ELSE /\ Risk!RecordCloseForSymbol(Symbol, NetPnL(event))
         /\ active' = [i \in DOMAIN active \ {id} |-> active[i]]

\* Fault: the risk manager is told the result before costs.
Book_Gross(id, event) ==
    IF event.reason = "PARTIAL_TP1_HIT"
    THEN /\ Risk!RecordClose(event.lots * event.pips)
         /\ active' = [active EXCEPT ![id] = @ - event.lots]
    ELSE /\ Risk!RecordCloseForSymbol(Symbol, event.lots * event.pips)
         /\ active' = [i \in DOMAIN active \ {id} |-> active[i]]

\* A part leaves the symbol's slot taken, though not the one of the total.
Book(id, event) ==
    IF event.reason = "PARTIAL_TP1_HIT"
    THEN /\ Risk!RecordClose(NetPnL(event))
         /\ active' = [active EXCEPT ![id] = @ - event.lots]
    ELSE /\ Risk!RecordCloseForSymbol(Symbol, NetPnL(event))
         /\ active' = [i \in DOMAIN active \ {id} |-> active[i]]

\* Events of an id the engine does not hold are passed over; LotsAgree says that
\* there are none.
SettleClose(id) ==
    /\ pc = "closes" /\ HandleClose(id)
    /\ LET event == Head(closes[id]) IN
          IF id \notin DOMAIN active THEN UNCHANGED <<riskVars, active, balance, trades>>
          ELSE /\ Book(id, event)
               /\ balance' = balance + NetPnL(event)
               /\ trades' = Append(trades,
                     [id |-> id, lots |-> event.lots, pnl |-> NetPnL(event)])
    /\ UNCHANGED <<curve, entryVars, pc, day, floating>>

Settled ==
    /\ GoTo("closes", "signal")
    /\ \A id \in Ids : closes[id] = <<>>
    /\ UNCHANGED <<trackerVars, riskVars, ledgerVars, entryVars, day, active, floating>>

-----------------------------------------------------------------------------
(* B and C. The signal.                                                     *)

NoEntry ==
    /\ GoTo("signal", "sample")
    /\ UNCHANGED <<trackerVars, riskVars, ledgerVars, entryVars, day, active, floating>>

\* Gate 1 (the trend of the hour or the quarter) or the AI filter says no: the rest of
\* the iteration is skipped.
Veto ==
    /\ NextTick("signal")
    /\ UNCHANGED <<trackerVars, riskVars, ledgerVars, entryVars, day, active, floating>>

Consider(s, spread, raw) ==
    /\ pc = "signal" /\ nextId \in Ids
    /\ Risk!Evaluate(Symbol, day, TRUE, spread, TRUE, raw)
    /\ signal' = s
    /\ pc' \in IF order' = NoOrder THEN {"track", "done"} ELSE {"size"}
    /\ UNCHANGED <<trackerVars, ledgerVars, nextId, day, active, floating>>

Size(bet) ==
    /\ GoTo("size", "enter")
    /\ Risk!ScaleByConfidence(TRUE, bet)
    /\ UNCHANGED <<trackerVars, ledgerVars, entryVars, day, active, floating>>

Within(x, least, most) == IF x < least THEN least ELSE IF x > most THEN most ELSE x

StopDistance(s) == Within(s.sl, 350, 650)
TargetDistance(s) ==
    Within(s.tp, Higher((StopDistance(s) * 15) \div 10, 500), 1200)

\* A signal without both levels keeps what it has.
StopOf(s) ==
    IF s.sl > 0 /\ s.tp > 0 THEN -StopDistance(s) ELSE IF s.sl > 0 THEN -s.sl ELSE NoStop
TargetOf(s) ==
    IF s.sl > 0 /\ s.tp > 0 THEN TargetDistance(s) ELSE IF s.tp > 0 THEN s.tp ELSE NoTarget

Enter ==
    /\ GoTo("enter", "fill")
    /\ Add(nextId, Opened(Symbol, signal.side, order.lots, StopOf(signal), TargetOf(signal)))
    /\ active' = [i \in DOMAIN active \cup {nextId} |->
                      IF i = nextId THEN order.lots ELSE active[i]]
    /\ nextId' = nextId + 1 /\ signal' = NoSignal
    /\ Risk!TakeOrder
    /\ UNCHANGED <<ledgerVars, day, floating>>

RecordFill ==
    /\ GoTo("fill", "sample")
    /\ Risk!RecordFillForSymbol(Symbol)
    /\ UNCHANGED <<trackerVars, ledgerVars, entryVars, day, active, floating>>

-----------------------------------------------------------------------------
(* D. The equity curve, and the report.                                     *)

Total(s) ==
    LET sum[i \in 0..Len(s)] == IF i = 0 THEN 0 ELSE sum[i - 1] + s[i] IN sum[Len(s)]

Floating == Total([id \in Ids |-> IF id \in Tracked THEN floating[id] ELSE 0])

\* Every 500th tick, and the last.
Sample ==
    /\ NextTick("sample")
    /\ Len(curve) <= MaxSamples
    /\ curve' = Append(curve, balance + Floating)
    /\ UNCHANGED <<trackerVars, riskVars, balance, trades, entryVars, day, active, floating>>

SkipSample ==
    /\ GoTo("sample", "track")
    /\ UNCHANGED <<trackerVars, riskVars, ledgerVars, entryVars, day, active, floating>>

\* Environment: the next tick is of today.
NextDay ==
    /\ pc = "track" /\ day # utcDay /\ day' = utcDay
    /\ UNCHANGED <<trackerVars, riskVars, ledgerVars, entryVars, pc, active, floating>>

Next ==
    \/ \E gain \in [Ids -> Gains], atr \in ATRs, overdue \in SUBSET Tracked :
          Track(gain, atr, overdue)
    \/ \E id \in Ids : SettleClose(id)
    \/ Settled
    \/ NoEntry \/ Veto
    \/ \E s \in Signals, spread \in Spreads, raw \in RawLots : Consider(s, spread, raw)
    \/ \E bet \in RawLots : Size(bet)
    \/ Enter \/ RecordFill
    \/ Sample \/ SkipSample
    \/ NextDay

Spec == Init /\ [][Next]_vars

\* CalculateMetrics: the sums, and the worst fall from a running peak.
GrossProfit == Total([i \in DOMAIN trades |-> Higher(trades[i].pnl, 0)])
GrossLoss   == Total([i \in DOMAIN trades |-> Higher(-trades[i].pnl, 0)])
NetProfit   == Total([i \in DOMAIN trades |-> trades[i].pnl])

\* Fault: the fall from the peak to the last point is kept, not the worst one.
Drawdown_Last(dd, equityNow) ==
    LET peak == Higher(dd.peak, equityNow)
    IN [peak |-> peak, worst |-> peak - equityNow]

Drawdown(dd, equityNow) ==
    LET peak == Higher(dd.peak, equityNow)
    IN [peak |-> peak, worst |-> Higher(dd.worst, peak - equityNow)]

\* Without a trade the report is returned before the curve is looked at.
MaxDrawdown ==
    LET dd[i \in 0..Len(curve)] ==
            IF i = 0 THEN [peak |-> InitialEquity, worst |-> 0]
            ELSE Drawdown(dd[i - 1], curve[i])
    IN IF trades = <<>> THEN 0 ELSE dd[Len(curve)].worst

-----------------------------------------------------------------------------
\* The engine's own positions are the tracker's and the close events not yet settled.
LotsAgree ==
    \A id \in Ids :
        (IF id \in DOMAIN active THEN active[id] ELSE 0)
            = LotsOf(closes[id]) + IF id \in Tracked THEN positions[id].remaining ELSE 0

\* The manager's slot of the symbol is taken while there is a position.
SlotAgrees ==
    /\ Cardinality(DOMAIN active) <= cfg.maxPerSymbol
    /\ pc # "fill" => symbolPositions[Symbol] = Cardinality(DOMAIN active)

\* Three records of the open positions (engine, tracker, manager's slots) agree whatever
\* parts were closed: no part is closed twice or lost, and no second position comes in,
\* although each part takes one off the manager's total.
BooksAgree == LotsAgree /\ SlotAgrees

\* The engine's balance, the manager's equity and the trades reported tell the same
\* result, with costs and with positions closed in parts by any number of events.
LedgersAgree ==
    /\ balance = equity
    /\ balance = InitialEquity + NetProfit
    /\ NetProfit = GrossProfit - GrossLoss

\* The deepest fall between any two points of the curve.
WorstFall ==
    Max({curve[p[1]] - curve[p[2]] :
            p \in {q \in (1..Len(curve)) \X (1..Len(curve)) : q[1] <= q[2]}})

\* Of a run that closed a trade, the drawdown reported is the deepest fall between any two
\* samples of the equity curve, an earlier peak and a recovery in between included.  It
\* speaks of the curve as sampled (engine.go:405 may count a part twice), and says nothing
\* of a run without a trade, for which CalculateMetrics reports 0 even if the curve fell.
DrawdownIsWorst == trades # <<>> => MaxDrawdown = WorstFall
=============================================================================
