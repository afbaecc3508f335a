----------------------------- MODULE RiskProofs -----------------------------
(***************************************************************************)
(* The risk manager under all the calls its users make (RiskGate), and in  *)
(* the paper-mode pipeline between the consumer, the dispatcher's workers, *)
(* the fill callback and the tick goroutine (PaperPipeline): for every set *)
(* of symbols, every limit, every result and every set of inputs.          *)
(***************************************************************************)
EXTENDS RiskGate, PaperPipeline, FiniteSetTheorems, TLAPS

USE RiskAssumption, GateAssumption DEF RiskAssumption, GateAssumption

\* Every method keeps the fields of the manager and the caller's order well typed.
THEOREM TypeCorrect == Spec => []TypeOK
<1>1. Init => TypeOK
  <2> SUFFICES ASSUME Init PROVE TypeOK
    OBVIOUS
  <2> USE DEF Init, RiskInit
  <2>1. BookOK
    BY DEF BookOK
  <2>1a. FlagsOK
    BY DEF FlagsOK
  <2>2. CountOK
    BY DEF CountOK, NoPositions
  <2>3. ConfOK
    BY DEF ConfOK
  <2>4. OrderOK
    BY DEF OrderOK
  <2>5. QED
    BY <2>1, <2>1a, <2>2, <2>3, <2>4 DEF TypeOK
<1>2. TypeOK /\ [Next]_gateVars => TypeOK'
  <2> SUFFICES ASSUME TypeOK, [Next]_gateVars PROVE TypeOK'
    OBVIOUS
  <2>1. BookOK /\ FlagsOK /\ CountOK /\ ConfOK /\ OrderOK
    BY DEF TypeOK
  <2>2. ASSUME NEW sym \in Symbols, NEW day \in TickDays, NEW actionable \in BOOLEAN,
               NEW spread \in Spreads, NEW atrOk \in BOOLEAN, NEW raw \in RawLots,
               Evaluate(sym, day, actionable, spread, atrOk, raw)
        PROVE  TypeOK'
    <3>1. day \in Int
      BY <2>1 DEF TickDays, BookOK
    <3>2. CountOK' /\ ConfOK' /\ utcDay' = utcDay
      BY <2>1, <2>2 DEF Evaluate, CountOK, ConfOK, countVars, confVars
    <3>3. BookOK'
      BY <2>1, <2>2, <3>1, <3>2 DEF Evaluate, FilterRejects, GuardRejects, HaltRejects,
         Approves, Roll, ResetPnL, ResetLow, BookOK
    <3>4. FlagsOK'
      BY <2>1, <2>2 DEF Evaluate, FilterRejects, GuardRejects, HaltRejects,
         Approves, ResetFlags, LossHit, FlagsOK
    <3>5. OrderOK'
      <4>1. LotSize(raw) \in Nat
        BY <2>1 DEF LotSize, Smaller, Larger, ConfOK
      <4>2. CASE order' = order
        BY <2>1, <4>2 DEF OrderOK
      <4>3. CASE Approves(sym, day, spread, atrOk, raw)
        BY <4>1, <4>3 DEF Approves, OrderOK, Orders
      <4>4. QED
        BY <2>2, <4>2, <4>3 DEF Evaluate, FilterRejects, GuardRejects, HaltRejects
    <3>6. QED
      BY <3>2, <3>3, <3>4, <3>5 DEF TypeOK
  <2>3. ASSUME NEW conf \in BOOLEAN, NEW bet \in RawLots, ScaleByConfidence(conf, bet)
        PROVE  TypeOK'
    <3>1. BookOK' /\ FlagsOK' /\ CountOK' /\ ConfOK'
      BY <2>1, <2>3 DEF ScaleByConfidence, bookVars, countVars, confVars,
         BookOK, FlagsOK, CountOK, ConfOK
    <3>2. OrderOK'
      BY <2>1, <2>3 DEF ScaleByConfidence, Smaller, Larger, OrderOK, ConfOK, Orders
    <3>3. QED
      BY <3>1, <3>2 DEF TypeOK
  <2>4. CASE TakeOrder
    BY <2>1, <2>4 DEF TakeOrder, bookVars, countVars, confVars,
       TypeOK, BookOK, FlagsOK, CountOK, ConfOK, OrderOK
  <2>5. CASE Fills
    BY <2>1, <2>5 DEF Fills, RecordFillForSymbol, bookVars, confVars,
       TypeOK, BookOK, FlagsOK, CountOK, ConfOK, OrderOK
  <2>6. CASE Closes
    <3>1. BookOK'
      BY <2>1, <2>6 DEF Closes, RecordCloseForSymbol, RecordClose, Book, Smaller, BookOK
    <3>1a. FlagsOK'
      BY <2>1, <2>6 DEF Closes, RecordCloseForSymbol, RecordClose, Book, LossHit,
         TargetHit, FlagsOK
    <3>2. CountOK'
      BY <2>1, <2>6 DEF Closes, RecordCloseForSymbol, RecordClose, Larger, CountOK
    <3>3. ConfOK' /\ OrderOK'
      BY <2>1, <2>6 DEF Closes, RecordCloseForSymbol, RecordClose, confVars, ConfOK, OrderOK
    <3>4. QED
      BY <3>1, <3>1a, <3>2, <3>3 DEF TypeOK
  <2>7. CASE Syncs
    BY <2>1, <2>7 DEF Syncs, SyncPositions, SetOpenPositions, UpdateEquity, NoPositions,
       bookVars, countVars, confVars, TypeOK, BookOK, FlagsOK, CountOK, ConfOK, OrderOK
  <2>8. CASE Settings
    <3>1. BookOK' /\ FlagsOK' /\ CountOK' /\ OrderOK'
      BY <2>1, <2>8 DEF Settings, SetFixedLotSize, SetProfitTarget, SetMaxOpenPositions,
         SetMaxLotSize, ApplyAccountProfile, SetConf, bookVars, countVars,
         BookOK, FlagsOK, CountOK, OrderOK
    <3>2. ConfOK'
      <4> USE DEF ConfOK, SetConf
      <4>1. ASSUME NEW lot \in UserLots, SetFixedLotSize(lot) PROVE ConfOK'
        BY <2>1, <4>1 DEF SetFixedLotSize, Larger
      <4>2. ASSUME NEW amount \in Targets, SetProfitTarget(amount) PROVE ConfOK'
        BY <2>1, <4>2 DEF SetProfitTarget
      <4>3. ASSUME NEW n \in OpenCaps, SetMaxOpenPositions(n) PROVE ConfOK'
        BY <2>1, <4>3 DEF SetMaxOpenPositions
      <4>4. ASSUME NEW lot \in LotCaps, SetMaxLotSize(lot) PROVE ConfOK'
        BY <2>1, <4>4 DEF SetMaxLotSize
      <4>5. ASSUME NEW cent \in BOOLEAN, ApplyAccountProfile(cent) PROVE ConfOK'
        <5> DEFINE cap == IF fixedLots > 0 THEN cfg.maxLot
                          ELSE IF cent THEN 1
                          ELSE IF cfg.maxLot > 5 \/ cfg.maxLot <= 0 THEN 5 ELSE cfg.maxLot
                   spread == IF cent THEN 60 ELSE 35
                   most == IF cent THEN 1 ELSE 2
        <5>1. cap \in Nat /\ spread \in Nat /\ most \in Nat
          BY <2>1
        <5>2. /\ cfg' = [cfg EXCEPT !.maxSpread = spread, !.maxLot = cap, !.maxOpen = most,
                                    !.maxPerSymbol = 1]
              /\ fixedLots' = fixedLots
          BY <4>5 DEF ApplyAccountProfile
        <5> HIDE DEF cap, spread, most
        <5>3. QED
          BY <2>1, <5>1, <5>2
      <4>6. QED
        BY <2>8, <4>1, <4>2, <4>3, <4>4, <4>5 DEF Settings
    <3>3. QED
      BY <3>1, <3>2 DEF TypeOK
  <2>9. CASE Restart
    BY <2>1, <2>9 DEF Restart, RestoreDailyState, countVars, confVars,
       TypeOK, BookOK, FlagsOK, CountOK, ConfOK, OrderOK
  <2>10. CASE Midnight
    BY <2>1, <2>10 DEF Midnight, bookVars, countVars, confVars,
       TypeOK, BookOK, FlagsOK, CountOK, ConfOK, OrderOK
  <2>11. CASE UNCHANGED gateVars
    BY <2>1, <2>11 DEF gateVars, riskVars, bookVars, countVars, confVars,
       TypeOK, BookOK, FlagsOK, CountOK, ConfOK, OrderOK
  <2>12. QED
    BY <2>2, <2>3, <2>4, <2>5, <2>6, <2>7, <2>8, <2>9, <2>10, <2>11 DEF Next, Step, Consumer
<1>3. QED
  BY <1>1, <1>2, PTL DEF Spec

-----------------------------------------------------------------------------
\* Closes, syncs, restarts and settings in any order leave the breaker open on a day
\* that touched the limit: BreachOpensBreaker is inductive given the types.
LEMMA BreachStep ==
  TypeOK /\ BreachOpensBreaker /\ [Next]_gateVars => BreachOpensBreaker'
<1> SUFFICES ASSUME TypeOK, BreachOpensBreaker, [Next]_gateVars
             PROVE  BreachOpensBreaker'
  OBVIOUS
<1> USE DEF BreachOpensBreaker, LossHit
<1>0. dailyPnL \in Int /\ low \in Int /\ circuitOpen \in BOOLEAN
  BY DEF TypeOK, BookOK, FlagsOK
<1>1. CASE circuitOpen' = circuitOpen /\ low' = low
  BY <1>1
<1>2. ASSUME NEW sym \in Symbols, NEW day \in TickDays, NEW actionable \in BOOLEAN,
             NEW spread \in Spreads, NEW atrOk \in BOOLEAN, NEW raw \in RawLots,
             Evaluate(sym, day, actionable, spread, atrOk, raw)
      PROVE  BreachOpensBreaker'
  <2>1. CASE FilterRejects
    BY <1>0, <2>1 DEF FilterRejects, ResetLow
  <2>2. CASE GuardRejects(sym, day, actionable, spread, atrOk)
    BY <1>0, <2>2 DEF GuardRejects, Roll, ResetFlags, ResetLow
  <2>3. CASE HaltRejects(day)
    <3>1. CASE Halted(day)
      BY <1>0, <2>3, <3>1 DEF HaltRejects, Halted, Roll, ResetLow, ResetPnL
    <3>2. CASE ~Halted(day)
      BY <1>0, <2>3, <3>2 DEF HaltRejects, Halted, Roll, ResetLow, ResetPnL
    <3>3. QED
      BY <3>1, <3>2
  <2>4. CASE Approves(sym, day, spread, atrOk, raw)
    BY <1>0, <2>4 DEF Approves, Roll, ResetFlags, ResetLow
  <2>5. QED
    BY <1>2, <2>1, <2>2, <2>3, <2>4 DEF Evaluate
<1>3. ASSUME NEW pnl \in PnLs, Book(pnl) PROVE BreachOpensBreaker'
  BY <1>0, <1>3 DEF Book, Smaller
<1>4. CASE Closes
  BY <1>3, <1>4 DEF Closes, RecordCloseForSymbol, RecordClose
<1>5. CASE Restart
  BY <1>0, <1>5 DEF Restart, RestoreDailyState
<1>6. CASE Fills \/ Syncs \/ Settings \/ Midnight \/ TakeOrder \/ UNCHANGED gateVars
  BY <1>1, <1>6 DEF Fills, RecordFillForSymbol, Syncs, SyncPositions, SetOpenPositions,
     UpdateEquity, Settings, SetFixedLotSize, SetProfitTarget, SetMaxOpenPositions,
     SetMaxLotSize, ApplyAccountProfile, SetConf, Midnight, TakeOrder, gateVars, riskVars, bookVars
<1>7. ASSUME NEW conf \in BOOLEAN, NEW bet \in RawLots, ScaleByConfidence(conf, bet)
      PROVE  BreachOpensBreaker'
  BY <1>1, <1>7 DEF ScaleByConfidence, bookVars
<1>8. QED
  BY <1>2, <1>4, <1>5, <1>6, <1>7 DEF Next, Step, Consumer

\* The breaker is open on every day that has touched the drawdown limit.
THEOREM BreachLatched == Spec => []BreachOpensBreaker
<1>1. Init => BreachOpensBreaker
  BY DEF Init, RiskInit, BreachOpensBreaker, LossHit
<1>2. QED
  BY <1>1, BreachStep, TypeCorrect, PTL DEF Spec

\* Only the approving branch of Evaluate puts an order in the consumer's hands.
LEMMA ApprovalIsEvaluate ==
  ASSUME [Next]_gateVars, Approval
  PROVE  \E sym \in Symbols, day \in TickDays, spread \in Spreads, atrOk \in BOOLEAN,
            raw \in RawLots : Approves(sym, day, spread, atrOk, raw)
<1>1. ~UNCHANGED order
  BY DEF Approval
<1>2. CASE Consumer
  BY <1>1, <1>2 DEF Approval, Consumer, Evaluate, FilterRejects, GuardRejects,
     HaltRejects, ScaleByConfidence, TakeOrder
<1>3. CASE Closes
  BY <1>1, <1>3 DEF Closes, RecordCloseForSymbol, RecordClose
<1>4. CASE Restart
  BY <1>1, <1>4 DEF Restart, RestoreDailyState
<1>5. CASE Fills \/ Syncs \/ Settings \/ Midnight \/ UNCHANGED gateVars
  BY <1>1, <1>5 DEF Fills, RecordFillForSymbol, Syncs, SyncPositions, SetOpenPositions,
     UpdateEquity, Settings, SetFixedLotSize, SetProfitTarget, SetMaxOpenPositions,
     SetMaxLotSize, ApplyAccountProfile, SetConf, Midnight, gateVars, riskVars
<1>6. QED
  BY <1>2, <1>3, <1>4, <1>5 DEF Next, Step

\* No signal is approved on a day that has touched the drawdown limit.
THEOREM BreachBlocksApproval == Spec => NoApprovalAfterBreach
<1>1. ASSUME TypeOK, BreachOpensBreaker, [Next]_gateVars, Approval
      PROVE  ~LossHit(low')
  <2>1. PICK sym \in Symbols, day \in TickDays, spread \in Spreads, atrOk \in BOOLEAN,
             raw \in RawLots : Approves(sym, day, spread, atrOk, raw)
    BY <1>1, ApprovalIsEvaluate
  <2>2. CASE Rolled(day)
    BY <2>1, <2>2 DEF Approves, Roll, ResetLow, LossHit
  <2>3. CASE ~Rolled(day)
    BY <1>1, <2>1, <2>3 DEF Approves, Roll, ResetLow, Halted, BreachOpensBreaker
  <2>4. QED
    BY <2>2, <2>3
<1>2. TypeOK /\ BreachOpensBreaker /\ [Next]_gateVars
        => [Approval => ~LossHit(low')]_gateVars
  BY <1>1
<1>3. QED
  BY <1>2, TypeCorrect, BreachLatched, PTL DEF Spec, NoApprovalAfterBreach

-----------------------------------------------------------------------------
\* When tick stamps and the local clock agree with UTC, both daily resets of one
\* Evaluate see the same day, and a halt ends only with the day it began on.  The
\* premise is what the skewed configurations of RiskGate drop.
ClocksAgree == TickSkew = {0} /\ LocalSkew = {0}

DaysStarted == utcDay >= 1

\* The process's UTC day is a day of the year: never the zero of a fresh manager.
LEMMA DayPositive == Spec => []DaysStarted
<1>1. Init => DaysStarted
  BY DEF Init, RiskInit, DaysStarted
<1>2. ASSUME TypeOK, DaysStarted, [Next]_gateVars PROVE DaysStarted'
  <2>1. utcDay' = utcDay \/ utcDay' = utcDay + 1
    BY <1>2 DEF Next, Step, Consumer, Evaluate, ScaleByConfidence,
       TakeOrder, Fills, RecordFillForSymbol, Closes, RecordCloseForSymbol, RecordClose,
       Syncs, SyncPositions, SetOpenPositions, UpdateEquity, Settings, SetFixedLotSize,
       SetProfitTarget, SetMaxOpenPositions, SetMaxLotSize, ApplyAccountProfile, SetConf,
       Restart, RestoreDailyState, Midnight, gateVars, riskVars
  <2>2. QED
    BY <1>2, <2>1 DEF TypeOK, BookOK, DaysStarted
<1>3. QED
  BY <1>1, <1>2, TypeCorrect, PTL DEF Spec

HaltEnds == \/ circuitOpen /\ ~circuitOpen'
            \/ profitTargetReached /\ ~profitTargetReached'

LEMMA HaltStep ==
  ASSUME ClocksAgree, TypeOK, DaysStarted, [Next]_gateVars, HaltEnds
  PROVE  lastResetDay' # lastResetDay
<1> USE DEF HaltEnds
<1>0. utcDay \in Int /\ lastResetDay \in Int /\ utcDay # 0
  BY DEF TypeOK, BookOK, DaysStarted
<1>1. ASSUME NEW sym \in Symbols, NEW day \in TickDays, NEW actionable \in BOOLEAN,
             NEW spread \in Spreads, NEW atrOk \in BOOLEAN, NEW raw \in RawLots,
             Evaluate(sym, day, actionable, spread, atrOk, raw)
      PROVE  lastResetDay' # lastResetDay
  <2>1. day = utcDay
    BY <1>0 DEF TickDays, ClocksAgree
  <2>2. CASE FilterRejects
    BY <2>2 DEF FilterRejects, DailyReset
  <2>3. CASE GuardRejects(sym, day, actionable, spread, atrOk)
    BY <2>1, <2>3 DEF GuardRejects, Roll, ResetFlags, Rolled, DailyReset
  <2>4. CASE HaltRejects(day)
    BY <2>1, <2>4 DEF HaltRejects, Roll, Halted, Rolled, DailyReset
  <2>5. CASE Approves(sym, day, spread, atrOk, raw)
    BY <2>1, <2>5 DEF Approves, Roll, ResetFlags, Rolled, DailyReset
  <2>6. QED
    BY <1>1, <2>2, <2>3, <2>4, <2>5 DEF Evaluate
<1>2. CASE Restart
  BY <1>0, <1>2 DEF Restart, RestoreDailyState, ClocksAgree
<1>3. CASE Closes
  BY <1>3 DEF Closes, RecordCloseForSymbol, RecordClose, Book
<1>4. CASE Fills \/ Syncs \/ Settings \/ Midnight \/ TakeOrder \/ UNCHANGED gateVars
  <2>1. UNCHANGED <<circuitOpen, profitTargetReached>>
    BY <1>4 DEF Fills, RecordFillForSymbol, Syncs, SyncPositions, SetOpenPositions,
       UpdateEquity, Settings, SetFixedLotSize, SetProfitTarget, SetMaxOpenPositions,
       SetMaxLotSize, ApplyAccountProfile, SetConf, Midnight, TakeOrder, gateVars, riskVars, bookVars
  <2>2. QED
    BY <2>1
<1>5. ASSUME NEW conf \in BOOLEAN, NEW bet \in RawLots, ScaleByConfidence(conf, bet)
      PROVE  lastResetDay' # lastResetDay
  BY <1>5 DEF ScaleByConfidence, bookVars
<1>6. QED
  BY <1>1, <1>2, <1>3, <1>4, <1>5 DEF Next, Step, Consumer

\* A tripped breaker or a reached target holds for the rest of the manager's day.
THEOREM HaltOutlastsTheDay ==
  ASSUME ClocksAgree
  PROVE  Spec => HaltLastsTheDay
<1>1. ASSUME TypeOK, DaysStarted, [Next]_gateVars
      PROVE  [(circuitOpen /\ ~circuitOpen')
                 \/ (profitTargetReached /\ ~profitTargetReached')
               => lastResetDay' # lastResetDay]_gateVars
  BY <1>1, HaltStep DEF HaltEnds
<1>2. TypeOK /\ DaysStarted /\ [Next]_gateVars
        => [(circuitOpen /\ ~circuitOpen')
               \/ (profitTargetReached /\ ~profitTargetReached')
             => lastResetDay' # lastResetDay]_gateVars
  BY <1>1
<1>3. QED
  BY <1>2, TypeCorrect, DayPositive, PTL DEF Spec, HaltLastsTheDay

-----------------------------------------------------------------------------
\* The largest cap an order has seen only grows while it is held.
LEMMA CapGrows ==
  ASSUME TypeOK, TypeOK', PendingLotsRespectCap, [Next]_gateVars
  PROVE  /\ capInForce' \in Nat
         /\ order # NoOrder /\ order' # NoOrder => capInForce <= capInForce'
         /\ order = NoOrder /\ order' # NoOrder => capInForce' = cfg'.maxLot
<1>1. cfg'.maxLot \in Nat /\ capInForce \in Nat
  BY DEF TypeOK, ConfOK, PendingLotsRespectCap
<1>2. CASE KeepCap
  BY <1>1, <1>2 DEF KeepCap, Larger
<1>3. CASE UNCHANGED gateVars
  BY <1>1, <1>3 DEF gateVars, riskVars
<1>4. QED
  BY <1>2, <1>3 DEF Next

\* Whoever changes the caps in between: the lots of an order awaiting its size stay within
\* a cap it has seen, or an override exists that will replace them.
LEMMA PendingLotsStep ==
  TypeOK /\ TypeOK' /\ PendingLotsRespectCap /\ [Next]_gateVars => PendingLotsRespectCap'
<1> SUFFICES ASSUME TypeOK, TypeOK', PendingLotsRespectCap, [Next]_gateVars
             PROVE  PendingLotsRespectCap'
  OBVIOUS
<1> USE DEF PendingLotsRespectCap
<1>0. /\ ConfOK /\ OrderOK /\ capInForce \in Nat /\ capInForce' \in Nat
      /\ order # NoOrder /\ order' # NoOrder => capInForce <= capInForce'
      /\ order = NoOrder /\ order' # NoOrder => capInForce' = cfg'.maxLot
  BY CapGrows DEF TypeOK
<1>1. ASSUME order' = order, fixedLots' = fixedLots \/ fixedLots' > 0
      PROVE  PendingLotsRespectCap'
  <2>1. order # NoOrder => order.lots \in Nat
    BY <1>0 DEF OrderOK, Orders
  <2>2. order # NoOrder => capInForce <= capInForce'
    BY <1>0, <1>1
  <2>3. SUFFICES ASSUME order # NoOrder, ~order.sized, fixedLots' = 0
                 PROVE  order.lots <= capInForce'
    BY <1>0, <1>1
  <2>4. fixedLots = 0
    BY <1>1, <2>3
  <2>5. order.lots <= capInForce
    BY <1>0, <2>3, <2>4
  <2>6. QED
    BY <1>0, <2>1, <2>2, <2>3, <2>5
<1>2. ASSUME NEW sym \in Symbols, NEW day \in TickDays, NEW actionable \in BOOLEAN,
             NEW spread \in Spreads, NEW atrOk \in BOOLEAN, NEW raw \in RawLots,
             Evaluate(sym, day, actionable, spread, atrOk, raw)
      PROVE  PendingLotsRespectCap'
  <2>1. UNCHANGED <<fixedLots, cfg>>
    BY <1>2 DEF Evaluate, confVars
  <2>2. CASE order' = order
    BY <1>1, <2>1, <2>2
  <2>3. CASE Approves(sym, day, spread, atrOk, raw)
    <3>1. fixedLots = 0 => LotSize(raw) <= cfg.maxLot
      BY <1>0 DEF LotSize, Smaller, Larger, ConfOK
    <3>2. order'.lots = LotSize(raw) /\ order = NoOrder
      BY <1>2, <2>3 DEF Approves, Evaluate
    <3>3. QED
      BY <1>0, <2>1, <3>1, <3>2
  <2>4. QED
    BY <1>2, <2>2, <2>3 DEF Evaluate, FilterRejects, GuardRejects, HaltRejects
<1>3. ASSUME NEW conf \in BOOLEAN, NEW bet \in RawLots, ScaleByConfidence(conf, bet)
      PROVE  PendingLotsRespectCap'
  <2>1. order \in Orders /\ order'.sized
    BY <1>0, <1>3 DEF ScaleByConfidence, OrderOK, Orders
  <2>2. QED
    BY <1>0, <2>1
<1>4. CASE TakeOrder
  BY <1>0, <1>4 DEF TakeOrder
<1>5. CASE Settings
  <2>1. order' = order
    BY <1>5 DEF Settings, SetFixedLotSize, SetProfitTarget, SetMaxOpenPositions,
       SetMaxLotSize, ApplyAccountProfile, SetConf
  <2>2. fixedLots' = fixedLots \/ fixedLots' \in UserLots
    BY <1>5 DEF Settings, SetFixedLotSize, SetProfitTarget, SetMaxOpenPositions,
       SetMaxLotSize, ApplyAccountProfile, SetConf
  <2>3. \A lot \in UserLots : lot > 0
    BY GateAssumption
  <2>4. QED
    BY <1>1, <2>1, <2>2, <2>3
<1>6. CASE Fills \/ Closes \/ Syncs \/ Restart \/ Midnight \/ UNCHANGED gateVars
  BY <1>1, <1>6 DEF Fills, RecordFillForSymbol, Closes, RecordCloseForSymbol, RecordClose,
     Syncs, SyncPositions, SetOpenPositions, UpdateEquity, Restart, RestoreDailyState,
     Midnight, gateVars, riskVars, confVars
<1>7. QED
  BY <1>2, <1>3, <1>4, <1>5, <1>6 DEF Next, Step, Consumer

\* Whatever overrides, caps and account profiles were set between the two halves of
\* EvaluateWithConfidence, an order leaves it with exactly the override, within the cap now
\* in force, or with lots sized before and within a cap in force since its approval.
THEOREM LotsRespectCap == Spec => SizedLotsRespectCap
<1> DEFINE Sized == IF fixedLots' > 0 THEN order'.lots = fixedLots'
                    ELSE \/ order'.lots <= cfg'.maxLot
                         \/ order'.lots = order.lots /\ order.lots <= capInForce'
<1>1. Init => PendingLotsRespectCap
  BY DEF Init, RiskInit, PendingLotsRespectCap
<1>2. TypeOK /\ TypeOK' /\ PendingLotsRespectCap /\ [Next]_gateVars =>
        [(order # NoOrder /\ order' # NoOrder /\ order' # order) => Sized]_gateVars
  <2> SUFFICES ASSUME TypeOK, TypeOK', PendingLotsRespectCap, [Next]_gateVars,
                      order # NoOrder, order' # NoOrder, order' # order
               PROVE  Sized
    OBVIOUS
  <2>1. PICK conf \in BOOLEAN, bet \in RawLots : ScaleByConfidence(conf, bet)
    BY DEF Next, Step, Consumer, Evaluate, TakeOrder, Fills, RecordFillForSymbol, Closes,
       RecordCloseForSymbol, RecordClose, Syncs, SyncPositions, SetOpenPositions,
       UpdateEquity, Settings, SetFixedLotSize, SetProfitTarget, SetMaxOpenPositions,
       SetMaxLotSize, ApplyAccountProfile, SetConf, Restart, RestoreDailyState,
       Midnight, gateVars, riskVars
  <2>2. /\ order \in Orders /\ ConfOK /\ UNCHANGED <<fixedLots, cfg>> /\ ~order.sized
        /\ order' = [order EXCEPT !.sized = TRUE,
                       !.lots = IF fixedLots > 0 THEN fixedLots
                                ELSE IF conf /\ cfg.maxLot > cfg.minLot
                                     THEN Smaller(Larger(bet, cfg.minLot), cfg.maxLot)
                                     ELSE @]
    BY <2>1 DEF TypeOK, OrderOK, ScaleByConfidence, confVars
  <2>3. order'.lots = IF fixedLots > 0 THEN fixedLots
                      ELSE IF conf /\ cfg.maxLot > cfg.minLot
                           THEN Smaller(Larger(bet, cfg.minLot), cfg.maxLot)
                           ELSE order.lots
    BY <2>2 DEF Orders
  <2>4. CASE fixedLots > 0
    BY <2>2, <2>3, <2>4
  <2>5. CASE fixedLots = 0
    <3>1. order.lots <= capInForce' /\ order.lots \in Nat
      BY <2>2, <2>5, CapGrows DEF PendingLotsRespectCap, Orders
    <3>2. Smaller(Larger(bet, cfg.minLot), cfg.maxLot) <= cfg.maxLot
      BY <2>2 DEF ConfOK, Smaller, Larger
    <3>3. QED
      BY <2>2, <2>3, <2>5, <3>1, <3>2
  <2>6. QED
    BY <2>2, <2>4, <2>5 DEF ConfOK
<1>3. QED
  BY <1>1, <1>2, PendingLotsStep, TypeCorrect, PTL DEF Spec, SizedLotsRespectCap

-----------------------------------------------------------------------------
(* The paper pipeline.                                                       *)

HIDE DEF RiskAssumption, GateAssumption

Counts == [Symbols -> Nat]

\* The counts, and the domain of the consumer's order.
CountsOK ==
    /\ flight \in Counts /\ adding \in Counts /\ open \in Counts /\ closing \in Counts
    /\ symbolPositions \in Counts
    /\ order # NoOrder =>
          order.symbol \in Symbols /\ DOMAIN order = {"symbol", "lots", "sized"}

\* What keeps a symbol from being stacked: an order in flight is spaced, the manager has
\* counted every fill and takes none back, and an approved order is the only one.
SlotInv ==
    /\ CountsOK /\ cfg.maxPerSymbol = 1
    /\ \A sym \in Symbols :
          /\ flight[sym] > 0 => sym \in spaced
          /\ flight[sym] + symbolPositions[sym] <= 1
          /\ Held(sym) <= symbolPositions[sym]
    /\ order # NoOrder => flight[order.symbol] = 0 /\ symbolPositions[order.symbol] = 0

\* The dispatcher's late order and the one the consumer holds are one together.
LateInv ==
    /\ late \in Nat /\ circuitOpen \in BOOLEAN
    /\ ~circuitOpen => late = 0
    /\ order # NoOrder => late = 0
    /\ late <= 1

-----------------------------------------------------------------------------
LEMMA PlusOK ==
    ASSUME NEW c \in Counts, NEW sym \in Symbols, NEW n \in Int, c[sym] + n \in Nat
    PROVE  /\ Plus(c, sym, n) \in Counts
           /\ Plus(c, sym, n)[sym] = c[sym] + n
           /\ \A s \in Symbols : s # sym => Plus(c, sym, n)[s] = c[s]
BY DEF Plus, Counts

\* What an evaluation may do to the consumer's order.
LEMMA EvaluateOrder ==
    ASSUME NEW sym \in Symbols, NEW raw, Evaluate(sym, utcDay, TRUE, 0, TRUE, raw)
    PROVE  /\ order = NoOrder
           /\ UNCHANGED <<openPositions, symbolPositions, fixedLots, cfg, utcDay>>
           /\ \/ order' = NoOrder
              \/ /\ symbolPositions[sym] < cfg.maxPerSymbol
                 /\ order' = [symbol |-> sym, lots |-> LotSize(raw), sized |-> FALSE]
<1>1. order = NoOrder /\ UNCHANGED <<openPositions, symbolPositions, fixedLots, cfg, utcDay>>
  BY DEF Evaluate, countVars, confVars
<1>2. CASE FilterRejects
  BY <1>1, <1>2 DEF FilterRejects
<1>3. CASE GuardRejects(sym, utcDay, TRUE, 0, TRUE)
  BY <1>1, <1>3 DEF GuardRejects
<1>4. CASE HaltRejects(utcDay)
  BY <1>1, <1>4 DEF HaltRejects
<1>5. CASE Approves(sym, utcDay, 0, TRUE, raw)
  BY <1>1, <1>5 DEF Approves, WithinLimits
<1> QED
  BY <1>2, <1>3, <1>4, <1>5 DEF Evaluate

\* An order is only approved with the breaker closed, and leaves it closed.
LEMMA EvaluateBreaker ==
    ASSUME circuitOpen \in BOOLEAN, NEW sym \in Symbols, NEW raw,
           Evaluate(sym, utcDay, TRUE, 0, TRUE, raw)
    PROVE  circuitOpen' \in BOOLEAN /\ (order' # NoOrder => ~circuitOpen')
<1>1. order = NoOrder
  BY DEF Evaluate
<1>2. CASE FilterRejects
  BY <1>1, <1>2 DEF FilterRejects
<1>3. CASE GuardRejects(sym, utcDay, TRUE, 0, TRUE)
  BY <1>1, <1>3 DEF GuardRejects, ResetFlags
<1>4. CASE HaltRejects(utcDay)
  BY <1>1, <1>4 DEF HaltRejects, LossHit
<1>5. CASE Approves(sym, utcDay, 0, TRUE, raw)
  BY <1>1, <1>5 DEF Approves, ResetFlags, Halted
<1> QED
  BY <1>2, <1>3, <1>4, <1>5 DEF Evaluate

LEMMA SlotInit == PipelineInit => SlotInv
<1> SUFFICES ASSUME PipelineInit
             PROVE  SlotInv
  OBVIOUS
<1>1. /\ flight = NoPositions /\ adding = NoPositions /\ open = NoPositions
      /\ closing = NoPositions /\ symbolPositions = NoPositions /\ order = NoOrder
      /\ cfg.maxPerSymbol = 1
  BY DEF PipelineInit, RiskInit
<1>2. NoPositions \in Counts /\ \A sym \in Symbols : NoPositions[sym] = 0
  BY DEF NoPositions, Counts
<1> QED
  BY <1>1, <1>2 DEF SlotInv, CountsOK, Held

LEMMA SlotKept ==
    ASSUME Prompt, SlotInv, [PipelineNext]_vars
    PROVE  SlotInv'
<1> USE DEF bookVars, countVars, confVars, riskVars, deskVars
<1>0. /\ flight \in Counts /\ adding \in Counts /\ open \in Counts /\ closing \in Counts
      /\ symbolPositions \in Counts /\ cfg.maxPerSymbol = 1
      /\ \A sym \in Symbols :
            /\ flight[sym] \in Nat /\ adding[sym] \in Nat /\ open[sym] \in Nat
            /\ closing[sym] \in Nat /\ symbolPositions[sym] \in Nat
            /\ flight[sym] > 0 => sym \in spaced
            /\ flight[sym] + symbolPositions[sym] <= 1
            /\ adding[sym] + open[sym] + closing[sym] <= symbolPositions[sym]
      /\ order # NoOrder =>
            /\ order.symbol \in Symbols /\ DOMAIN order = {"symbol", "lots", "sized"}
            /\ flight[order.symbol] = 0 /\ symbolPositions[order.symbol] = 0
  BY DEF SlotInv, CountsOK, Counts, Held
<1> SUFFICES /\ flight' \in Counts /\ adding' \in Counts /\ open' \in Counts /\ closing' \in Counts
             /\ symbolPositions' \in Counts /\ cfg'.maxPerSymbol = 1
             /\ \A sym \in Symbols :
                   /\ flight'[sym] > 0 => sym \in spaced'
                   /\ flight'[sym] + symbolPositions'[sym] <= 1
                   /\ adding'[sym] + open'[sym] + closing'[sym] <= symbolPositions'[sym]
             /\ order' # NoOrder =>
                   /\ order'.symbol \in Symbols /\ DOMAIN order' = {"symbol", "lots", "sized"}
                   /\ flight'[order'.symbol] = 0 /\ symbolPositions'[order'.symbol] = 0
  BY DEF SlotInv, CountsOK, Held
<1>1. ASSUME NEW sym \in Symbols, Consider(sym)
      PROVE  /\ UNCHANGED <<flight, adding, open, closing, symbolPositions, cfg, spaced>>
             /\ order' # NoOrder =>
                   /\ order'.symbol \in Symbols /\ DOMAIN order' = {"symbol", "lots", "sized"}
                   /\ flight[order'.symbol] = 0 /\ symbolPositions[order'.symbol] = 0
  <2>1. /\ sym \notin spaced /\ Evaluate(sym, utcDay, TRUE, 0, TRUE, cfg.minLot)
        /\ UNCHANGED <<flight, adding, open, closing, spaced>>
    BY <1>1 DEF Consider
  <2>2. /\ UNCHANGED <<symbolPositions, cfg>>
        /\ \/ order' = NoOrder
           \/ /\ symbolPositions[sym] < cfg.maxPerSymbol
              /\ order' = [symbol |-> sym, lots |-> LotSize(cfg.minLot), sized |-> FALSE]
    BY <2>1, EvaluateOrder
  <2>3. flight[sym] = 0
    BY <1>0, <2>1
  <2>4. symbolPositions[sym] < 1 => symbolPositions[sym] = 0
    BY <1>0
  <2> QED
    BY <1>0, <2>1, <2>2, <2>3, <2>4
<1>2. ASSUME Scale
      PROVE  /\ UNCHANGED <<flight, adding, open, closing, symbolPositions, cfg, spaced>>
             /\ order # NoOrder /\ order'.symbol = order.symbol /\ DOMAIN order' = DOMAIN order
  BY <1>0, <1>2 DEF Scale, ScaleByConfidence
<1>3. ASSUME Drop
      PROVE  /\ UNCHANGED <<flight, adding, open, closing, symbolPositions, cfg, spaced>>
             /\ order' = NoOrder
  BY <1>3 DEF Drop, TakeOrder
<1>4. CASE \E sym \in Symbols : Consider(sym)
  BY <1>0, <1>1, <1>4
<1>5. CASE Scale
  BY <1>0, <1>2, <1>5
<1>6. CASE Drop
  BY <1>0, <1>3, <1>6
<1>7. CASE Submit
  <2> DEFINE s == order.symbol
  <2>1. /\ order # NoOrder /\ order' = NoOrder
        /\ flight' = Plus(flight, s, 1) /\ spaced' = spaced \cup {s}
        /\ UNCHANGED <<adding, open, closing, symbolPositions, cfg>>
    BY <1>7 DEF Submit, TakeOrder
  <2>2. s \in Symbols /\ flight[s] = 0 /\ symbolPositions[s] = 0
    BY <1>0, <2>1
  <2> HIDE DEF s
  <2>3. /\ flight' \in Counts /\ flight'[s] = 1
        /\ \A sym \in Symbols : sym # s => flight'[sym] = flight[sym]
    BY <1>0, <2>1, <2>2, PlusOK
  <2>4. ASSUME NEW sym \in Symbols
        PROVE  /\ flight'[sym] > 0 => sym \in spaced'
               /\ flight'[sym] + symbolPositions'[sym] <= 1
               /\ adding'[sym] + open'[sym] + closing'[sym] <= symbolPositions'[sym]
    <3>1. CASE sym = s
      BY <1>0, <2>1, <2>2, <2>3, <3>1
    <3>2. CASE sym # s
      BY <1>0, <2>1, <2>3, <3>2
    <3> QED
      BY <3>1, <3>2
  <2> QED
    BY <1>0, <2>1, <2>3, <2>4
<1>8. CASE \E s \in Symbols : Reject(s)
  <2>1. PICK s \in Symbols : Reject(s)
    BY <1>8
  <2>2. /\ flight[s] > 0 /\ flight' = Plus(flight, s, -1)
        /\ UNCHANGED <<adding, open, closing, symbolPositions, cfg, order, spaced>>
    BY <2>1 DEF Reject
  <2>3. /\ flight' \in Counts /\ flight'[s] = flight[s] - 1
        /\ \A sym \in Symbols : sym # s => flight'[sym] = flight[sym]
    <3>1. flight[s] + -1 \in Nat /\ -1 \in Int
      BY <1>0, <2>2
    <3> QED
      BY <1>0, <2>2, <3>1, PlusOK
  <2>4. \A sym \in Symbols : flight'[sym] \in Nat /\ flight'[sym] <= flight[sym]
    BY <1>0, <2>3 DEF Counts
  <2>5. ASSUME NEW sym \in Symbols
        PROVE  /\ flight'[sym] > 0 => sym \in spaced'
               /\ flight'[sym] + symbolPositions'[sym] <= 1
               /\ adding'[sym] + open'[sym] + closing'[sym] <= symbolPositions'[sym]
    BY <1>0, <2>2, <2>4
  <2>6. order # NoOrder => flight'[order.symbol] = 0
    BY <1>0, <2>4
  <2> QED
    BY <1>0, <2>2, <2>3, <2>5, <2>6
<1>9. CASE \E s \in Symbols : Fill(s)
  <2>1. PICK s \in Symbols : Fill(s)
    BY <1>9
  <2>2. /\ flight[s] > 0 /\ flight' = Plus(flight, s, -1) /\ adding' = Plus(adding, s, 1)
        /\ symbolPositions' = [symbolPositions EXCEPT ![s] = @ + 1]
        /\ UNCHANGED <<open, closing, cfg, order, spaced>>
    BY <2>1 DEF Fill, RecordFillForSymbol
  <2>3. /\ flight' \in Counts /\ flight'[s] = flight[s] - 1
        /\ \A sym \in Symbols : sym # s => flight'[sym] = flight[sym]
    <3>1. flight[s] + -1 \in Nat /\ -1 \in Int
      BY <1>0, <2>2
    <3> QED
      BY <1>0, <2>2, <3>1, PlusOK
  <2>4. /\ adding' \in Counts /\ adding'[s] = adding[s] + 1
        /\ \A sym \in Symbols : sym # s => adding'[sym] = adding[sym]
    BY <1>0, <2>2, PlusOK
  <2>5. /\ symbolPositions' \in Counts /\ symbolPositions'[s] = symbolPositions[s] + 1
        /\ \A sym \in Symbols : sym # s => symbolPositions'[sym] = symbolPositions[sym]
    BY <1>0, <2>2 DEF Counts
  <2>6. ASSUME NEW sym \in Symbols
        PROVE  /\ flight'[sym] > 0 => sym \in spaced'
               /\ flight'[sym] + symbolPositions'[sym] <= 1
               /\ adding'[sym] + open'[sym] + closing'[sym] <= symbolPositions'[sym]
    <3>1. CASE sym = s
      BY <1>0, <2>2, <2>3, <2>4, <2>5, <3>1
    <3>2. CASE sym # s
      BY <1>0, <2>2, <2>3, <2>4, <2>5, <3>2
    <3> QED
      BY <3>1, <3>2
  <2>7. order # NoOrder => order.symbol \in Symbols /\ order.symbol # s
    BY <1>0, <2>2
  <2> QED
    BY <1>0, <2>2, <2>3, <2>4, <2>5, <2>6, <2>7
<1>10. CASE \E s \in Symbols : Track(s)
  <2>1. PICK s \in Symbols : Track(s)
    BY <1>10
  <2>2. /\ adding[s] > 0 /\ adding' = Plus(adding, s, -1) /\ open' = Plus(open, s, 1)
        /\ UNCHANGED <<flight, closing, symbolPositions, cfg, order, spaced>>
    BY <2>1 DEF Track
  <2>3. /\ adding' \in Counts /\ adding'[s] = adding[s] - 1
        /\ \A sym \in Symbols : sym # s => adding'[sym] = adding[sym]
    <3>1. adding[s] + -1 \in Nat /\ -1 \in Int
      BY <1>0, <2>2
    <3> QED
      BY <1>0, <2>2, <3>1, PlusOK
  <2>4. /\ open' \in Counts /\ open'[s] = open[s] + 1
        /\ \A sym \in Symbols : sym # s => open'[sym] = open[sym]
    BY <1>0, <2>2, PlusOK
  <2>5. ASSUME NEW sym \in Symbols
        PROVE  adding'[sym] + open'[sym] + closing'[sym] <= symbolPositions'[sym]
    <3>1. CASE sym = s
      BY <1>0, <2>2, <2>3, <2>4, <3>1
    <3>2. CASE sym # s
      BY <1>0, <2>2, <2>3, <2>4, <3>2
    <3> QED
      BY <3>1, <3>2
  <2> QED
    BY <1>0, <2>2, <2>3, <2>4, <2>5
<1>11. CASE \E s \in Symbols : TickCloses(s)
  <2>0. PICK s \in Symbols : TickCloses(s)
    BY <1>11
  <2>1. PICK n \in 1..open[s] : open' = Plus(open, s, -n) /\ closing' = Plus(closing, s, n)
    BY <2>0 DEF TickCloses
  <2>2. UNCHANGED <<flight, adding, symbolPositions, cfg, order, spaced>>
    BY <1>11 DEF TickCloses
  <2>3. n \in Int /\ -n \in Int /\ open[s] + -n \in Nat /\ closing[s] + n \in Nat
    BY <1>0, <2>1
  <2>4. /\ open' \in Counts /\ open'[s] = open[s] + -n
        /\ \A sym \in Symbols : sym # s => open'[sym] = open[sym]
    BY <1>0, <2>1, <2>3, PlusOK
  <2>5. /\ closing' \in Counts /\ closing'[s] = closing[s] + n
        /\ \A sym \in Symbols : sym # s => closing'[sym] = closing[sym]
    BY <1>0, <2>1, <2>3, PlusOK
  <2>6. ASSUME NEW sym \in Symbols
        PROVE  adding'[sym] + open'[sym] + closing'[sym] <= symbolPositions'[sym]
    <3>1. CASE sym = s
      BY <1>0, <2>2, <2>3, <2>4, <2>5, <3>1
    <3>2. CASE sym # s
      BY <1>0, <2>2, <2>4, <2>5, <3>2
    <3> QED
      BY <3>1, <3>2
  <2> QED
    BY <1>0, <2>2, <2>4, <2>5, <2>6
<1>12. CASE \E s \in Symbols, pnl \in Results : SettleClose(s, pnl)
  <2>1. PICK s \in Symbols, pnl \in Results : SettleClose(s, pnl)
    BY <1>12
  <2>2. /\ closing[s] > 0 /\ closing' = Plus(closing, s, -1)
        /\ UNCHANGED <<flight, adding, open, symbolPositions, cfg, order, spaced>>
    BY <2>1 DEF SettleClose, RecordClose
  <2>3. /\ closing' \in Counts /\ closing'[s] = closing[s] - 1
        /\ \A sym \in Symbols : sym # s => closing'[sym] = closing[sym]
    <3>1. closing[s] + -1 \in Nat /\ -1 \in Int
      BY <1>0, <2>2
    <3> QED
      BY <1>0, <2>2, <3>1, PlusOK
  <2>4. ASSUME NEW sym \in Symbols
        PROVE  adding'[sym] + open'[sym] + closing'[sym] <= symbolPositions'[sym]
    <3>1. CASE sym = s
      BY <1>0, <2>2, <2>3, <3>1
    <3>2. CASE sym # s
      BY <1>0, <2>2, <2>3, <3>2
    <3> QED
      BY <3>1, <3>2
  <2> QED
    BY <1>0, <2>2, <2>3, <2>4
<1>13. CASE \E s \in Symbols : SpacingOver(s)
  <2>1. PICK s \in Symbols : SpacingOver(s)
    BY <1>13
  <2>2. /\ flight[s] + adding[s] = 0 /\ spaced' = spaced \ {s}
        /\ UNCHANGED <<flight, adding, open, closing, symbolPositions, cfg, order>>
    BY <2>1 DEF SpacingOver
  <2>3. flight[s] = 0
    BY <1>0, <2>2
  <2> QED
    BY <1>0, <2>2, <2>3
<1>14. CASE NextDay \/ UNCHANGED vars
  <2>1. UNCHANGED <<flight, adding, open, closing, symbolPositions, cfg, order, spaced>>
    BY <1>14 DEF NextDay, Midnight, vars
  <2> QED
    BY <1>0, <2>1
<1> QED
  BY <1>4, <1>5, <1>6, <1>7, <1>8, <1>9, <1>10, <1>11, <1>12, <1>13, <1>14 DEF PipelineNext

\* One position a symbol, orders on their way included, as long as no order is dealt with
\* later than the order spacing lasts.
THEOREM NeverStacked == ASSUME Prompt PROVE PipelineSpec => []NoStacking
<1>1. SlotInv => NoStacking
  <2> SUFFICES ASSUME SlotInv, NEW sym \in Symbols
               PROVE  flight[sym] + Held(sym) <= cfg.maxPerSymbol
    BY DEF NoStacking
  <2>1. /\ flight[sym] \in Nat /\ adding[sym] \in Nat /\ open[sym] \in Nat
        /\ closing[sym] \in Nat /\ symbolPositions[sym] \in Nat
    BY DEF SlotInv, CountsOK, Counts
  <2>2. /\ flight[sym] + symbolPositions[sym] <= 1 /\ Held(sym) <= symbolPositions[sym]
        /\ cfg.maxPerSymbol = 1
    BY DEF SlotInv
  <2> QED
    BY <2>1, <2>2 DEF Held
<1>2. SlotInv /\ [PipelineNext]_vars => SlotInv'
  BY SlotKept
<1> QED
  BY <1>1, <1>2, SlotInit, PTL DEF PipelineSpec

-----------------------------------------------------------------------------
LEMMA LateKept ==
    ASSUME LateInv, [PipelineNext]_vars
    PROVE  LateInv'
<1> USE DEF bookVars, countVars, confVars, riskVars, deskVars
<1>0. /\ late \in Nat /\ circuitOpen \in BOOLEAN /\ late <= 1
      /\ ~circuitOpen => late = 0
      /\ order # NoOrder => late = 0
  BY DEF LateInv
<1>1. CASE \E sym \in Symbols : Consider(sym)
  <2>1. PICK sym \in Symbols : Consider(sym)
    BY <1>1
  <2>2. /\ Evaluate(sym, utcDay, TRUE, 0, TRUE, cfg.minLot)
        /\ late' = IF circuitOpen' THEN late + 0 ELSE 0
    BY <2>1 DEF Consider, CountLate
  <2>3. circuitOpen' \in BOOLEAN /\ (order' # NoOrder => ~circuitOpen')
    BY <1>0, <2>2, EvaluateBreaker
  <2>4. late + 0 = late
    BY <1>0
  <2> QED
    BY <1>0, <2>2, <2>3, <2>4 DEF LateInv
<1>2. CASE Scale
  <2>1. order # NoOrder /\ UNCHANGED <<late, circuitOpen>>
    BY <1>2 DEF Scale, ScaleByConfidence
  <2> QED
    BY <1>0, <2>1 DEF LateInv
<1>3. CASE Drop
  <2>1. order' = NoOrder /\ UNCHANGED <<late, circuitOpen>>
    BY <1>3 DEF Drop, TakeOrder
  <2> QED
    BY <1>0, <2>1 DEF LateInv
<1>4. CASE Submit
  <2>1. /\ order # NoOrder /\ order' = NoOrder /\ circuitOpen' = circuitOpen
        /\ late' = IF circuitOpen' THEN late + 1 ELSE 0
    BY <1>4 DEF Submit, TakeOrder, CountLate
  <2>2. late + 1 = 1
    BY <1>0, <2>1
  <2> QED
    BY <1>0, <2>1, <2>2 DEF LateInv
<1>5. CASE \E sym \in Symbols, pnl \in Results : SettleClose(sym, pnl)
  <2>1. PICK sym \in Symbols, pnl \in Results : SettleClose(sym, pnl)
    BY <1>5
  <2>2. /\ circuitOpen' = (circuitOpen \/ LossHit(dailyPnL')) /\ order' = order
        /\ late' = IF circuitOpen' THEN late + 0 ELSE 0
    BY <2>1 DEF SettleClose, RecordClose, Book, CountLate
  <2>3. late + 0 = late /\ circuitOpen' \in BOOLEAN
    BY <1>0, <2>2
  <2> QED
    BY <1>0, <2>2, <2>3 DEF LateInv
<1>6. CASE \/ \E sym \in Symbols : Fill(sym) \/ Reject(sym) \/ Track(sym)
                                     \/ TickCloses(sym) \/ SpacingOver(sym)
           \/ NextDay \/ UNCHANGED vars
  <2>1. UNCHANGED <<late, circuitOpen, order>>
    BY <1>6 DEF Fill, RecordFillForSymbol, Reject, Track, TickCloses, SpacingOver, NextDay,
                Midnight, vars
  <2> QED
    BY <1>0, <2>1 DEF LateInv
<1> QED
  BY <1>1, <1>2, <1>3, <1>4, <1>5, <1>6 DEF PipelineNext

\* Once the breaker is open the dispatcher accepts at most the one order that was approved
\* before the loss was booked, whatever the spacing of orders and however late they fill.
THEOREM OneLateOrder == PipelineSpec => []AtMostOneLateOrder
<1>1. PipelineInit => LateInv
  <2> SUFFICES ASSUME PipelineInit
               PROVE  LateInv
    OBVIOUS
  <2>1. late = 0 /\ circuitOpen = FALSE /\ 0 \in Nat /\ 0 <= 1
    BY DEF PipelineInit, RiskInit
  <2> QED
    BY <2>1 DEF LateInv
<1>2. LateInv => AtMostOneLateOrder
  BY DEF LateInv, AtMostOneLateOrder
<1>3. LateInv /\ [PipelineNext]_vars => LateInv'
  BY LateKept
<1> QED
  BY <1>1, <1>2, <1>3, PTL DEF PipelineSpec

-----------------------------------------------------------------------------
(* The manager's total.                                                      *)

\* The counts of the positions on their way through the fill callback, the tracker and
\* the tick goroutine, and the manager's total of them.
TotalInv ==
    /\ adding \in Counts /\ open \in Counts /\ closing \in Counts
    /\ IsFiniteSet(Positions) /\ openPositions = Cardinality(Positions)

\* A position is one of the first Held(sym) of a symbol.
LEMMA PositionsAre ==
    \A p : p \in Positions <=> \E sym \in Symbols : \E i \in 1..Held(sym) : p = <<sym, i>>
<1> SUFFICES ASSUME NEW p
             PROVE  p \in Positions <=> \E sym \in Symbols : \E i \in 1..Held(sym) : p = <<sym, i>>
  OBVIOUS
<1> DEFINE of(sym) == {sym} \X (1..Held(sym))
<1>1. p \in Positions <=> \E sym \in Symbols : p \in of(sym)
  BY DEF Positions
<1>2. \A sym : p \in of(sym) <=> \E i \in 1..Held(sym) : p = <<sym, i>>
  OBVIOUS
<1> HIDE DEF of
<1> QED
  BY <1>1, <1>2

LEMMA HeldOK ==
    ASSUME adding \in Counts, open \in Counts, closing \in Counts, NEW sym \in Symbols
    PROVE  Held(sym) \in Nat
<1>1. adding[sym] \in Nat /\ open[sym] \in Nat /\ closing[sym] \in Nat
  BY DEF Counts
<1> QED
  BY <1>1 DEF Held

\* Steps that move positions on leave the set of them alone.
LEMMA TotalMoved ==
    ASSUME TotalInv, adding' \in Counts, open' \in Counts, closing' \in Counts,
           \A s \in Symbols : Held(s)' = Held(s), openPositions' = openPositions
    PROVE  TotalInv'
<1>1. Positions' = Positions
  BY DEF Positions
<1> QED
  BY <1>1 DEF TotalInv

LEMMA TotalFilled ==
    ASSUME TotalInv, adding' \in Counts, open' \in Counts, closing' \in Counts,
           NEW sym \in Symbols, Held(sym)' = Held(sym) + 1,
           \A s \in Symbols : s # sym => Held(s)' = Held(s),
           openPositions' = openPositions + 1
    PROVE  TotalInv'
<1> DEFINE h == Held(sym)
           new == <<sym, h + 1>>
<1>1. h \in Nat
  BY HeldOK DEF TotalInv
<1>2. \A p : p \in Positions' <=> \E s \in Symbols : \E i \in 1..Held(s)' : p = <<s, i>>
  <2> DEFINE of(s) == {s} \X (1..Held(s)')
  <2>1. \A p : p \in Positions' <=> \E s \in Symbols : p \in of(s)
    BY DEF Positions
  <2>2. \A s, p : p \in of(s) <=> \E i \in 1..Held(s)' : p = <<s, i>>
    OBVIOUS
  <2> HIDE DEF of
  <2> QED
    BY <2>1, <2>2
<1>3. Positions' = Positions \cup {new}
  <2>1. ASSUME NEW p \in Positions'
        PROVE  p \in Positions \cup {new}
    <3>1. PICK s \in Symbols : \E i \in 1..Held(s)' : p = <<s, i>>
      BY <1>2, <2>1
    <3>2. PICK i \in 1..Held(s)' : p = <<s, i>>
      BY <3>1
    <3>3. CASE s # sym
      BY <3>2, <3>3, PositionsAre
    <3>4. CASE s = sym /\ i # h + 1
      <4>1. i \in 1..Held(s)
        BY <1>1, <3>2, <3>4
      <4> QED
        BY <3>2, <4>1, PositionsAre
    <3>5. CASE s = sym /\ i = h + 1
      BY <3>2, <3>5
    <3> QED
      BY <3>3, <3>4, <3>5
  <2>2. ASSUME NEW p \in Positions
        PROVE  p \in Positions'
    <3>1. PICK s \in Symbols : \E i \in 1..Held(s) : p = <<s, i>>
      BY <2>2, PositionsAre
    <3>2. PICK i \in 1..Held(s) : p = <<s, i>>
      BY <3>1
    <3>3. i \in 1..Held(s)'
      BY <1>1, <3>2
    <3> QED
      BY <1>2, <3>2, <3>3
  <2>3. new \in Positions'
    <3>1. h + 1 \in 1..Held(sym)'
      BY <1>1
    <3> QED
      BY <1>2, <3>1
  <2> QED
    BY <2>1, <2>2, <2>3
<1>4. new \notin Positions
  <2>1. \A s \in Symbols : \A i \in 1..Held(s) : new # <<s, i>>
    <3> SUFFICES ASSUME NEW s \in Symbols, NEW i \in 1..Held(s), new = <<s, i>>
                 PROVE  FALSE
      OBVIOUS
    <3>1. s = sym /\ i = h + 1
      OBVIOUS
    <3> QED
      BY <1>1, <3>1
  <2> QED
    BY <2>1, PositionsAre
<1> HIDE DEF new, h
<1>5. IsFiniteSet(Positions') /\ Cardinality(Positions') = Cardinality(Positions) + 1
  BY <1>3, <1>4, FS_AddElement DEF TotalInv
<1> QED
  BY <1>5 DEF TotalInv

LEMMA TotalSettled ==
    ASSUME TotalInv, adding' \in Counts, open' \in Counts, closing' \in Counts,
           NEW sym \in Symbols, Held(sym) > 0, Held(sym)' = Held(sym) - 1,
           \A s \in Symbols : s # sym => Held(s)' = Held(s),
           openPositions' = Larger(openPositions - 1, 0)
    PROVE  TotalInv'
<1> DEFINE h == Held(sym)
           old == <<sym, h>>
<1>1. h \in Nat /\ h > 0
  BY HeldOK DEF TotalInv
<1>2. \A p : p \in Positions' <=> \E s \in Symbols : \E i \in 1..Held(s)' : p = <<s, i>>
  <2> DEFINE of(s) == {s} \X (1..Held(s)')
  <2>1. \A p : p \in Positions' <=> \E s \in Symbols : p \in of(s)
    BY DEF Positions
  <2>2. \A s, p : p \in of(s) <=> \E i \in 1..Held(s)' : p = <<s, i>>
    OBVIOUS
  <2> HIDE DEF of
  <2> QED
    BY <2>1, <2>2
<1>3. old \in Positions
  <2>1. h \in 1..Held(sym)
    BY <1>1
  <2> QED
    BY <2>1, PositionsAre
<1>4. Positions' = Positions \ {old}
  <2>1. ASSUME NEW p \in Positions'
        PROVE  p \in Positions \ {old}
    <3>1. PICK s \in Symbols : \E i \in 1..Held(s)' : p = <<s, i>>
      BY <1>2, <2>1
    <3>2. PICK i \in 1..Held(s)' : p = <<s, i>>
      BY <3>1
    <3>3. CASE s # sym
      BY <3>2, <3>3, PositionsAre
    <3>4. CASE s = sym
      <4>1. i \in 1..Held(s) /\ i # h
        BY <1>1, <3>2, <3>4
      <4>2. p \in Positions
        BY <3>2, <4>1, PositionsAre
      <4>3. p # old
        BY <3>2, <4>1
      <4> QED
        BY <4>2, <4>3
    <3> QED
      BY <3>3, <3>4
  <2>2. ASSUME NEW p \in Positions, p # old
        PROVE  p \in Positions'
    <3>1. PICK s \in Symbols : \E i \in 1..Held(s) : p = <<s, i>>
      BY <2>2, PositionsAre
    <3>2. PICK i \in 1..Held(s) : p = <<s, i>>
      BY <3>1
    <3>3. i \in 1..Held(s)'
      <4>1. CASE s # sym
        BY <3>2, <4>1
      <4>2. CASE s = sym
        <5>1. i # h
          BY <2>2, <3>2, <4>2
        <5> QED
          BY <1>1, <3>2, <4>2, <5>1
      <4> QED
        BY <4>1, <4>2
    <3> QED
      BY <1>2, <3>2, <3>3
  <2>3. old \notin Positions'
    <3> SUFFICES ASSUME NEW s \in Symbols, NEW i \in 1..Held(s)', old = <<s, i>>
                 PROVE  FALSE
      BY <1>2
    <3>1. s = sym /\ i = h
      OBVIOUS
    <3> QED
      BY <1>1, <3>1
  <2> QED
    BY <2>1, <2>2, <2>3
<1> HIDE DEF old, h
<1>5. IsFiniteSet(Positions') /\ Cardinality(Positions') = Cardinality(Positions) - 1
  BY <1>3, <1>4, FS_RemoveElement DEF TotalInv
<1>6. Cardinality(Positions) \in Nat /\ Cardinality(Positions) # 0
  BY <1>3, FS_CardinalityType, FS_EmptySet DEF TotalInv
<1>7. openPositions' = Cardinality(Positions) - 1
  <2>1. openPositions = Cardinality(Positions)
    BY DEF TotalInv
  <2> QED
    BY <1>6, <2>1 DEF Larger
<1> QED
  BY <1>5, <1>7 DEF TotalInv

\* What a move of n does to a symbol's count, and that it leaves the others'.
LEMMA MovedOK ==
    ASSUME NEW c \in Counts, NEW sym \in Symbols, NEW n \in Int, c[sym] + n >= 0
    PROVE  /\ Plus(c, sym, n) \in Counts
           /\ \A s \in Symbols :
                 Plus(c, sym, n)[s] = IF s = sym THEN c[s] + n ELSE c[s]
<1>1. c[sym] \in Nat
  BY DEF Counts
<1>2. c[sym] + n \in Nat
  BY <1>1
<1> QED
  BY <1>2, PlusOK

LEMMA TotalKept ==
    ASSUME TotalInv, [PipelineNext]_vars
    PROVE  TotalInv'
<1> USE DEF countVars, riskVars, deskVars
<1>0. /\ adding \in Counts /\ open \in Counts /\ closing \in Counts
      /\ \A s \in Symbols : adding[s] \in Nat /\ open[s] \in Nat /\ closing[s] \in Nat
  BY DEF TotalInv, Counts
<1>1. ASSUME UNCHANGED <<adding, open, closing, openPositions>>
      PROVE  TotalInv'
  <2>1. \A s \in Symbols : Held(s)' = Held(s)
    BY <1>1 DEF Held
  <2> QED
    BY <1>0, <1>1, <2>1, TotalMoved
<1>2. CASE \/ \E sym \in Symbols : Consider(sym) \/ Reject(sym) \/ SpacingOver(sym)
           \/ Scale \/ Drop \/ Submit \/ NextDay \/ UNCHANGED vars
  <2>1. UNCHANGED <<adding, open, closing, openPositions>>
    BY <1>2 DEF Consider, Evaluate, Reject, SpacingOver, Scale, ScaleByConfidence, Drop, TakeOrder,
                Submit, NextDay, Midnight, vars
  <2> QED
    BY <1>1, <2>1
<1>3. ASSUME NEW sym \in Symbols, Fill(sym)
      PROVE  TotalInv'
  <2>1. /\ adding' = Plus(adding, sym, 1) /\ UNCHANGED <<open, closing>>
        /\ openPositions' = openPositions + 1
    BY <1>3 DEF Fill, RecordFillForSymbol
  <2>2. /\ adding' \in Counts
        /\ \A s \in Symbols : adding'[s] = IF s = sym THEN adding[s] + 1 ELSE adding[s]
    <3>1. adding[sym] + 1 >= 0
      BY <1>0
    <3> QED
      BY <1>0, <2>1, <3>1, MovedOK
  <2>3. \A s \in Symbols : Held(s)' = IF s = sym THEN Held(s) + 1 ELSE Held(s)
    BY <1>0, <2>1, <2>2 DEF Held
  <2> QED
    BY <1>0, <2>1, <2>2, <2>3, TotalFilled
<1>4. ASSUME NEW sym \in Symbols, Track(sym)
      PROVE  TotalInv'
  <2>1. /\ adding[sym] > 0 /\ adding' = Plus(adding, sym, -1) /\ open' = Plus(open, sym, 1)
        /\ UNCHANGED <<closing, openPositions>>
    BY <1>4 DEF Track
  <2>2. adding[sym] + (-1) >= 0 /\ open[sym] + 1 >= 0
    BY <1>0, <2>1
  <2>3. /\ adding' \in Counts /\ open' \in Counts
        /\ \A s \in Symbols : /\ adding'[s] = IF s = sym THEN adding[s] + (-1) ELSE adding[s]
                              /\ open'[s] = IF s = sym THEN open[s] + 1 ELSE open[s]
    BY <1>0, <2>1, <2>2, MovedOK
  <2>4. \A s \in Symbols : Held(s)' = Held(s)
    BY <1>0, <2>1, <2>3 DEF Held
  <2> QED
    BY <1>0, <2>1, <2>3, <2>4, TotalMoved
<1>5. ASSUME NEW sym \in Symbols, TickCloses(sym)
      PROVE  TotalInv'
  <2>1. PICK n \in 1..open[sym] : open' = Plus(open, sym, -n) /\ closing' = Plus(closing, sym, n)
    BY <1>5 DEF TickCloses
  <2>2. UNCHANGED <<adding, openPositions>>
    BY <1>5 DEF TickCloses
  <2>3. n \in Int /\ -n \in Int /\ open[sym] + (-n) >= 0 /\ closing[sym] + n >= 0
    BY <1>0, <2>1
  <2>4. /\ open' \in Counts /\ closing' \in Counts
        /\ \A s \in Symbols : /\ open'[s] = IF s = sym THEN open[s] + (-n) ELSE open[s]
                              /\ closing'[s] = IF s = sym THEN closing[s] + n ELSE closing[s]
    BY <1>0, <2>1, <2>3, MovedOK
  <2>5. \A s \in Symbols : Held(s)' = Held(s)
    <3> SUFFICES ASSUME NEW s \in Symbols
                 PROVE  adding'[s] + open'[s] + closing'[s] = adding[s] + open[s] + closing[s]
      BY DEF Held
    <3>1. adding[s] \in Nat /\ open[s] \in Nat /\ closing[s] \in Nat /\ adding'[s] = adding[s]
      BY <1>0, <2>2
    <3>2. CASE s = sym
      <4>1. open'[s] = open[s] + (-n) /\ closing'[s] = closing[s] + n
        BY <2>4, <3>2
      <4> QED
        BY <2>3, <3>1, <4>1
    <3>3. CASE s # sym
      BY <2>4, <3>1, <3>3
    <3> QED
      BY <3>2, <3>3
  <2> QED
    BY <1>0, <2>2, <2>4, <2>5, TotalMoved
<1>6. ASSUME NEW sym \in Symbols, NEW pnl \in Results, SettleClose(sym, pnl)
      PROVE  TotalInv'
  <2>1. /\ closing[sym] > 0 /\ closing' = Plus(closing, sym, -1) /\ UNCHANGED <<adding, open>>
        /\ openPositions' = Larger(openPositions - 1, 0)
    BY <1>6 DEF SettleClose, RecordClose
  <2>2. closing[sym] + (-1) >= 0
    BY <1>0, <2>1
  <2>3. /\ closing' \in Counts
        /\ \A s \in Symbols : closing'[s] = IF s = sym THEN closing[s] + (-1) ELSE closing[s]
    BY <1>0, <2>1, <2>2, MovedOK
  <2>4. \A s \in Symbols : Held(s)' = IF s = sym THEN Held(s) - 1 ELSE Held(s)
    BY <1>0, <2>1, <2>3 DEF Held
  <2>5. Held(sym) > 0
    BY <1>0, <2>1 DEF Held
  <2> QED
    BY <1>0, <2>1, <2>3, <2>4, <2>5, TotalSettled
<1> QED
  BY <1>2, <1>3, <1>4, <1>5, <1>6 DEF PipelineNext

\* Whatever fill callbacks, ticks and settlements meet, for any number of symbols and
\* positions: the manager's total is the number of positions filled and not settled yet,
\* and the floor at zero in RecordClose never hides a close without a position.
THEOREM TotalIsHeld == PipelineSpec => []TotalAgrees
<1>1. PipelineInit => TotalInv
  <2> SUFFICES ASSUME PipelineInit
               PROVE  TotalInv
    OBVIOUS
  <2>1. /\ adding = NoPositions /\ open = NoPositions /\ closing = NoPositions
        /\ openPositions = 0
    BY DEF PipelineInit, RiskInit
  <2>2. NoPositions \in Counts /\ \A s \in Symbols : NoPositions[s] = 0
    BY DEF NoPositions, Counts
  <2>3. \A s \in Symbols : Held(s) = 0
    BY <2>1, <2>2 DEF Held
  <2>4. Positions = {}
    <3>1. \A s \in Symbols : 1..Held(s) = {}
      BY <2>3
    <3> QED
      BY <3>1, PositionsAre
  <2> QED
    BY <2>1, <2>2, <2>4, FS_EmptySet DEF TotalInv
<1>2. TotalInv => TotalAgrees
  BY DEF TotalInv, TotalAgrees
<1>3. TotalInv /\ [PipelineNext]_vars => TotalInv'
  BY TotalKept
<1> QED
  BY <1>1, <1>2, <1>3, PTL DEF PipelineSpec
=============================================================================
