------------------------------ MODULE RiskGate ------------------------------
(***************************************************************************)
(* The risk manager under the calls its users make: the signal consumer    *)
(* (EvaluateWithConfidence, then Submit), the fill callback, the tick loop *)
(* and the backtest engine (closes), the MT5 sync loop (positions, equity, *)
(* account profile), the web and Telegram handlers (lots, limits) and the  *)
(* start-up code (RestoreDailyState).                                      *)
(***************************************************************************)
EXTENDS RiskManager

CONSTANTS
    PnLs,                       \* results of a closed position
    Equities,                   \* equities the broker reports
    Spreads, RawLots,           \* spreads of a tick, lots the ATR rule computes
    UserLots, LotCaps, OpenCaps, Targets,
    MaxDay, MaxPnL, MaxPositions   \* bounds of the model

ASSUME GateAssumption ==
    /\ PnLs \subseteq Int /\ Equities \subseteq Int
    /\ Spreads \subseteq Nat /\ RawLots \subseteq Nat
    /\ UserLots \subseteq Nat \ {0} /\ LotCaps \subseteq Nat \ {0}
    /\ OpenCaps \subseteq Nat \ {0} /\ Targets \subseteq Nat
    /\ MaxDay \in Nat /\ MaxPnL \in Nat /\ MaxPositions \in Nat

VARIABLE
    capInForce   \* history: the largest lot cap since the approval of the order held

gateVars == <<riskVars, capInForce>>

Bounded(amount) == amount \in -MaxPnL..MaxPnL

Init == RiskInit /\ capInForce = 0

\* The consumer goroutine: one signal at a time.
Consumer ==
    \/ \E sym \in Symbols, day \in TickDays, actionable \in BOOLEAN,
          spread \in Spreads, atrOk \in BOOLEAN, raw \in RawLots :
          Evaluate(sym, day, actionable, spread, atrOk, raw)
    \/ \E conf \in BOOLEAN, bet \in RawLots : ScaleByConfidence(conf, bet)
    \/ TakeOrder

Fills == \E sym \in Symbols :
    /\ openPositions < MaxPositions /\ symbolPositions[sym] < MaxPositions
    /\ RecordFillForSymbol(sym)

Closes == \E pnl \in PnLs :
    /\ Bounded(dailyPnL + pnl) /\ Bounded(equity + pnl)
    /\ \/ \E sym \in Symbols : RecordCloseForSymbol(sym, pnl)
       \/ RecordClose(pnl)

\* One symbol at most is live in this environment; LiveSync drives the general case.
Syncs ==
    \/ SyncPositions(NoPositions, 0)
    \/ \E sym \in Symbols : SyncPositions([NoPositions EXCEPT ![sym] = 1], 1)
    \/ \E n \in 0..1 : SetOpenPositions(n)
    \/ \E e \in Equities : UpdateEquity(e)

\* At any time, also between the two halves of EvaluateWithConfidence.
Settings ==
    \/ \E lot \in UserLots : SetFixedLotSize(lot)
    \/ \E amount \in Targets : SetProfitTarget(amount)
    \/ \E n \in OpenCaps : SetMaxOpenPositions(n)
    \/ \E lot \in LotCaps : SetMaxLotSize(lot)
    \/ \E cent \in BOOLEAN : ApplyAccountProfile(cent)

Restart == \E pnl \in PnLs, target \in BOOLEAN, circuit \in BOOLEAN :
               RestoreDailyState(pnl, target, circuit)

Step ==
    \/ Consumer
    \/ Fills
    \/ Closes
    \/ Syncs
    \/ Settings
    \/ Restart
    \/ utcDay < MaxDay /\ Midnight

\* The cap the order was approved under, and every one set while it was held.
KeepCap ==
    capInForce' = IF order' = NoOrder THEN 0
                  ELSE IF order = NoOrder THEN cfg'.maxLot
                  ELSE Larger(capInForce, cfg'.maxLot)

Next == Step /\ KeepCap

Spec == Init /\ [][Next]_gateVars

-----------------------------------------------------------------------------
Orders == [symbol : Symbols, lots : Nat, sized : BOOLEAN]

\* No order is the value that stands for its absence.
ASSUME NoOrderAssumption == NoOrder \notin Orders

BookOK ==
    /\ equity \in Int /\ dailyPnL \in Int /\ low \in Int
    /\ lastResetDay \in Int /\ utcDay \in Int
FlagsOK == circuitOpen \in BOOLEAN /\ profitTargetReached \in BOOLEAN
CountOK == openPositions \in Nat /\ symbolPositions \in [Symbols -> Nat]
ConfOK ==
    /\ fixedLots \in Nat
    /\ cfg \in [target : Nat, maxSpread : Nat, maxOpen : Nat, maxPerSymbol : Nat,
                minLot : Nat, maxLot : Nat]
OrderOK == order \in Orders \cup {NoOrder}

\* Type invariant: in particular the position counts stay natural numbers whatever
\* closes arrive without a matching fill.
TypeOK == BookOK /\ FlagsOK /\ CountOK /\ ConfOK /\ OrderOK

Approval == order = NoOrder /\ order' # NoOrder

\* Once the day's booked result has touched the drawdown limit the breaker is open,
\* whatever closes, syncs and settings follow, and even if later wins bring the
\* result back above the limit (RecordCloseForSymbol latches, Evaluate re-checks).
BreachOpensBreaker == LossHit(low) => circuitOpen

\* Evaluate, the only gateway to execution, approves no order on a day whose booked
\* result has ever touched the drawdown limit: no interleaving of closes, syncs,
\* restarts and account changes between the loss and the signal lets one through.
NoApprovalAfterBreach == [][Approval => ~LossHit(low')]_gateVars

\* "Trading halted for the day": a halt ends only when the manager moves to another
\* day, so two resets in one Evaluate must not clear it and come back to that day.
HaltLastsTheDay ==
    [][(circuitOpen /\ ~circuitOpen') \/ (profitTargetReached /\ ~profitTargetReached')
        => lastResetDay' # lastResetDay]_gateVars

\* An order not sized yet holds lots within a cap it has seen, unless an override will
\* replace them: what makes SizedLotsRespectCap inductive.
PendingLotsRespectCap ==
    /\ capInForce \in Nat
    /\ order # NoOrder /\ ~order.sized /\ fixedLots = 0 => order.lots <= capInForce

\* The second half of EvaluateWithConfidence holds no lock: overrides, caps and account
\* profiles may change after the first half has sized the order.  With an override it
\* leaves with exactly that ("respect it absolutely"); without one, within the cap now in
\* force, or with the first half's lots and these within a cap in force since the approval.
SizedLotsRespectCap ==
    [][(order # NoOrder /\ order' # NoOrder /\ order' # order) =>
         IF fixedLots' > 0 THEN order'.lots = fixedLots'
         ELSE \/ order'.lots <= cfg'.maxLot
              \/ order'.lots = order.lots /\ order.lots <= capInForce']_gateVars
=============================================================================
