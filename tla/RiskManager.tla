---------------------------- MODULE RiskManager ----------------------------
(***************************************************************************)
(* internal/risk/manager.go: the risk manager every signal must pass       *)
(* before an order reaches the dispatcher.  Manager.mu makes every method  *)
(* atomic, so each method is one action; the one exception,                *)
(* EvaluateWithConfidence, releases the mutex half-way and is two actions. *)
(*                                                                         *)
(* Money is counted in abstract units, lots in hundredths, spreads in      *)
(* pips.  Days are the values of time.YearDay(): the day the process's     *)
(* clock shows in UTC (utcDay), the day stamped on a tick (utcDay plus one *)
(* of TickSkew: the MT5 feed stamps broker-server time, a backtest stamps  *)
(* historical time) and the process's local day (utcDay plus one of        *)
(* LocalSkew).                                                             *)
(***************************************************************************)
EXTENDS Integers, FiniteSets

CONSTANTS
    Symbols,         \* canonical symbols (model.NormalizeSymbol), one broker spelling each
    Gold, GoldCent,  \* the gold symbols, and those the broker spells with the suffix "c"
    InitialEquity,   \* cfg.InitialEquity
    DrawdownLimit,   \* cfg.InitialEquity * cfg.MaxDailyDrawdown
    InitialTarget,   \* the daily profit target in money; 0 when none is set
    InitialMaxOpen,  \* cfg.MaxOpenPositions
    InitialMinLot, InitialMaxLot, InitialMaxSpread,
    TickSkew, LocalSkew,
    NoOrder

ASSUME RiskAssumption ==
    /\ GoldCent \subseteq Gold /\ Gold \subseteq Symbols
    /\ InitialEquity \in Int /\ DrawdownLimit \in Nat /\ InitialTarget \in Nat
    /\ InitialMaxOpen \in Nat
    /\ InitialMinLot \in Nat /\ InitialMaxLot \in Nat /\ InitialMaxSpread \in Nat
    /\ TickSkew \subseteq Int /\ LocalSkew \subseteq Int

VARIABLES
    equity, dailyPnL, openPositions, symbolPositions,
    circuitOpen, profitTargetReached, lastResetDay, fixedLots,
    cfg,      \* the fields of ManagerConfig that change at run time
    order,    \* the order the consumer holds between Evaluate and Submit
    utcDay,   \* environment: the wall clock's UTC day
    low       \* history: the lowest dailyPnL since the last daily reset

bookVars  == <<equity, dailyPnL, circuitOpen, profitTargetReached, lastResetDay, low>>
countVars == <<openPositions, symbolPositions>>
confVars  == <<fixedLots, cfg>>
riskVars  == <<bookVars, countVars, confVars, order, utcDay>>

Smaller(a, b) == IF a < b THEN a ELSE b
Larger(a, b)  == IF a > b THEN a ELSE b

\* The two daily limits, as Evaluate and RecordCloseForSymbol test them.
LossHit(pnl)   == pnl < 0 /\ -pnl >= DrawdownLimit
TargetHit(pnl) == cfg.target > 0 /\ pnl >= cfg.target

NoPositions == [s \in Symbols |-> 0]

-----------------------------------------------------------------------------
\* NewManager, with the limits main passes it.
RiskInit ==
    /\ equity = InitialEquity
    /\ dailyPnL = 0 /\ low = 0
    /\ openPositions = 0 /\ symbolPositions = NoPositions
    /\ circuitOpen = FALSE /\ profitTargetReached = FALSE
    /\ lastResetDay = 0
    /\ fixedLots = 0
    /\ cfg = [target |-> InitialTarget, maxSpread |-> InitialMaxSpread,
              maxOpen |-> InitialMaxOpen, maxPerSymbol |-> 1,
              minLot |-> InitialMinLot, maxLot |-> InitialMaxLot]
    /\ order = NoOrder
    /\ utcDay = 1

\* The persisted state of the same local day is put back at start-up, before the
\* first signal is evaluated.  What was saved came from a manager's own getters, so
\* a saved loss at the limit comes with the breaker open (the three getters that
\* straddle a daily reset, and so disagree, are left out).
RestoreDailyState(pnl, target, circuit) ==
    /\ lastResetDay = 0
    /\ LossHit(pnl) => circuit
    /\ dailyPnL' = pnl /\ low' = pnl
    /\ profitTargetReached' = target /\ circuitOpen' = circuit
    /\ \E skew \in LocalSkew : lastResetDay' = utcDay + skew
    /\ UNCHANGED <<equity, countVars, confVars, order, utcDay>>

-----------------------------------------------------------------------------
(* Evaluate(signal, tick, atr).  The daily reset runs first on the wall     *)
(* clock and again, once the filters let the tick through, on the tick's    *)
(* own day; either resets when the day differs from the last reset's.       *)

\* Fault: the reset also fires on the day of the last reset.
DailyReset_SameDay(days) == \E d \in days : d >= lastResetDay

DailyReset(days) == \E d \in days : d # lastResetDay

ResetPnL(rolled)  == IF rolled THEN 0 ELSE dailyPnL
ResetLow(rolled)  == IF rolled THEN 0 ELSE low

\* A market filter vetoes the tick: only the wall-clock reset has happened.
FilterRejects ==
    LET rolled == DailyReset({utcDay})
    IN /\ dailyPnL' = ResetPnL(rolled) /\ low' = ResetLow(rolled)
       /\ circuitOpen' = (circuitOpen /\ ~rolled)
       /\ profitTargetReached' = (profitTargetReached /\ ~rolled)
       /\ lastResetDay' = utcDay
       /\ UNCHANGED <<equity, order>>

\* Both resets: the second compares the tick's day with the wall clock's.
Rolled(tickDay) == DailyReset({utcDay}) \/ tickDay # utcDay

Roll(tickDay) ==
    /\ dailyPnL' = ResetPnL(Rolled(tickDay)) /\ low' = ResetLow(Rolled(tickDay))
    /\ lastResetDay' = tickDay
    /\ UNCHANGED equity

\* Fault: Guard 2 is dropped, the breaker is only tested against today's result.
Halted_NoCircuit(tickDay) == profitTargetReached /\ ~Rolled(tickDay)

Halted(tickDay) == (circuitOpen \/ profitTargetReached) /\ ~Rolled(tickDay)

\* The day's result has hit a limit that is not latched yet (Guards 3 and 3b).
LimitHit(tickDay) ==
    LossHit(ResetPnL(Rolled(tickDay))) \/ TargetHit(ResetPnL(Rolled(tickDay)))

\* Guards 2 and 2b, and the trips of 3 and 3b: the flags change, no order.
HaltRejects(tickDay) ==
    LET pnl == ResetPnL(Rolled(tickDay))
    IN /\ Roll(tickDay)
       /\ \/ /\ Halted(tickDay)
             /\ UNCHANGED <<circuitOpen, profitTargetReached>>
          \/ /\ ~Halted(tickDay) /\ LimitHit(tickDay)
             /\ circuitOpen' = LossHit(pnl)
             /\ profitTargetReached' = ~LossHit(pnl)
       /\ UNCHANGED order

\* What remains: a signal that is not actionable, or a day still open to trading.
ResetFlags(tickDay) ==
    /\ circuitOpen' = (circuitOpen /\ ~Rolled(tickDay))
    /\ profitTargetReached' = (profitTargetReached /\ ~Rolled(tickDay))

SpreadLimit(sym) ==
    CASE sym \in GoldCent        -> Larger(cfg.maxSpread, 60)
      [] sym \in Gold \ GoldCent -> Smaller(cfg.maxSpread, 35)
      [] OTHER                   -> cfg.maxSpread

\* Guards 4 to 6 and the sizing error of calculateLotSize.
WithinLimits(sym, spread, atrOk) ==
    /\ openPositions < cfg.maxOpen
    /\ symbolPositions[sym] < cfg.maxPerSymbol
    /\ spread <= SpreadLimit(sym)
    /\ equity > 0
    /\ fixedLots > 0 \/ atrOk

\* raw is riskAmount / (atrPips * pipValue), before the configured bounds.
\* Fault: the clamp to MaxLotSize is missing.
LotSize_NoCap(raw) == IF fixedLots > 0 THEN fixedLots ELSE Larger(raw, cfg.minLot)

LotSize(raw) ==
    IF fixedLots > 0 THEN fixedLots
                     ELSE Smaller(Larger(raw, cfg.minLot), cfg.maxLot)

GuardRejects(sym, tickDay, actionable, spread, atrOk) ==
    /\ Roll(tickDay) /\ ResetFlags(tickDay)
    /\ \/ ~actionable
       \/ /\ ~Halted(tickDay) /\ ~LimitHit(tickDay)
          /\ ~WithinLimits(sym, spread, atrOk)
    /\ UNCHANGED order

Approves(sym, tickDay, spread, atrOk, raw) ==
    /\ ~Halted(tickDay) /\ ~LimitHit(tickDay)
    /\ WithinLimits(sym, spread, atrOk)
    /\ Roll(tickDay) /\ ResetFlags(tickDay)
    /\ order' = [symbol |-> sym, lots |-> LotSize(raw), sized |-> FALSE]

\* The first, locked half of EvaluateWithConfidence.
Evaluate(sym, tickDay, actionable, spread, atrOk, raw) ==
    /\ order = NoOrder
    /\ \/ FilterRejects
       \/ GuardRejects(sym, tickDay, actionable, spread, atrOk)
       \/ actionable /\ HaltRejects(tickDay)
       \/ actionable /\ Approves(sym, tickDay, spread, atrOk, raw)
    /\ UNCHANGED <<countVars, confVars, utcDay>>

\* The second half reads fixedLots and the lot bounds without the mutex; bet is the
\* lot the bet fraction selects between the bounds, conf whether the model gave one.
ScaleByConfidence(conf, bet) ==
    /\ order # NoOrder /\ ~order.sized
    /\ order' = [order EXCEPT !.sized = TRUE,
                   !.lots = IF fixedLots > 0 THEN fixedLots
                            ELSE IF conf /\ cfg.maxLot > cfg.minLot
                                 THEN Smaller(Larger(bet, cfg.minLot), cfg.maxLot)
                                 ELSE @]
    /\ UNCHANGED <<bookVars, countVars, confVars, utcDay>>

-----------------------------------------------------------------------------
RecordFillForSymbol(sym) ==
    /\ openPositions' = openPositions + 1
    /\ symbolPositions' = [symbolPositions EXCEPT ![sym] = @ + 1]
    /\ UNCHANGED <<bookVars, confVars, order, utcDay>>

\* Fault: the breaker follows the running result instead of latching.
Book_NoLatch(pnl) ==
    /\ dailyPnL' = dailyPnL + pnl
    /\ equity' = equity + pnl
    /\ low' = Smaller(low, dailyPnL')
    /\ circuitOpen' = LossHit(dailyPnL')
    /\ profitTargetReached' = (profitTargetReached \/ TargetHit(dailyPnL'))
    /\ UNCHANGED lastResetDay

\* The day's result is booked, and the limits it reaches are latched.
Book(pnl) ==
    /\ dailyPnL' = dailyPnL + pnl
    /\ equity' = equity + pnl
    /\ low' = Smaller(low, dailyPnL')
    /\ circuitOpen' = (circuitOpen \/ LossHit(dailyPnL'))
    /\ profitTargetReached' = (profitTargetReached \/ TargetHit(dailyPnL'))
    /\ UNCHANGED lastResetDay

RecordCloseForSymbol(sym, pnl) ==
    /\ openPositions' = Larger(openPositions - 1, 0)
    /\ symbolPositions' = [symbolPositions EXCEPT ![sym] = Larger(@ - 1, 0)]
    /\ Book(pnl)
    /\ UNCHANGED <<confVars, order, utcDay>>

\* Fault: the count is decremented without the test for zero.
RecordClose_NoFloor(pnl) ==
    /\ openPositions' = openPositions - 1
    /\ Book(pnl)
    /\ UNCHANGED <<symbolPositions, confVars, order, utcDay>>

\* Fault: a close without a symbol does not free the slot of the total either.
RecordClose_KeepCount(pnl) ==
    /\ Book(pnl)
    /\ UNCHANGED <<countVars, confVars, order, utcDay>>

\* RecordClose passes the empty symbol: no symbol's count changes.
RecordClose(pnl) ==
    /\ openPositions' = Larger(openPositions - 1, 0)
    /\ Book(pnl)
    /\ UNCHANGED <<symbolPositions, confVars, order, utcDay>>

\* live[s] is the number of the broker's positions of symbol s; total is their sum.
SyncPositions(live, total) ==
    /\ openPositions' = total
    /\ symbolPositions' = live
    /\ UNCHANGED <<bookVars, confVars, order, utcDay>>

SetOpenPositions(n) ==
    /\ openPositions' = n
    /\ symbolPositions' = IF n = 0 THEN NoPositions ELSE symbolPositions
    /\ UNCHANGED <<bookVars, confVars, order, utcDay>>

UpdateEquity(e) ==
    /\ e > 0
    /\ equity' = e
    /\ UNCHANGED <<dailyPnL, low, circuitOpen, profitTargetReached, lastResetDay,
                   countVars, confVars, order, utcDay>>

-----------------------------------------------------------------------------
SetConf(fixed, c) ==
    /\ fixedLots' = fixed /\ cfg' = c
    /\ UNCHANGED <<bookVars, countVars, order, utcDay>>

SetProfitTarget(amount) == SetConf(fixedLots, [cfg EXCEPT !.target = amount])

SetMaxOpenPositions(n) == n > 0 /\ SetConf(fixedLots, [cfg EXCEPT !.maxOpen = n])

SetMaxLotSize(lot) == lot > 0 /\ SetConf(fixedLots, [cfg EXCEPT !.maxLot = lot])

SetFixedLotSize(lot) ==
    SetConf(lot, IF lot > 0 THEN [cfg EXCEPT !.minLot = lot, !.maxLot = Larger(@, lot)]
                            ELSE cfg)

\* The cent profile is stricter on every limit but the spread.
ApplyAccountProfile(cent) ==
    LET cap == IF fixedLots > 0 THEN cfg.maxLot
               ELSE IF cent THEN 1
               ELSE IF cfg.maxLot > 5 \/ cfg.maxLot <= 0 THEN 5 ELSE cfg.maxLot
    IN SetConf(fixedLots,
               [cfg EXCEPT !.maxSpread = IF cent THEN 60 ELSE 35,
                           !.maxLot = cap,
                           !.maxOpen = IF cent THEN 1 ELSE 2,
                           !.maxPerSymbol = 1])

-----------------------------------------------------------------------------
\* Fault: the order is kept after it was handed over, and handed over again.
TakeOrder_Keep ==
    /\ order # NoOrder /\ order.sized
    /\ UNCHANGED riskVars

\* The consumer hands its order to the dispatcher (or drops it at a later gate).
TakeOrder ==
    /\ order # NoOrder /\ order.sized
    /\ order' = NoOrder
    /\ UNCHANGED <<bookVars, countVars, confVars, utcDay>>

\* Environment: midnight UTC.
Midnight ==
    /\ utcDay' = utcDay + 1
    /\ UNCHANGED <<bookVars, countVars, confVars, order>>

TickDays == {utcDay + skew : skew \in TickSkew}
=============================================================================
