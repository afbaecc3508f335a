--------------------------- MODULE TickLoopProofs ---------------------------
(***************************************************************************)
(* The tick loop's properties for every set of positions, gains, levels    *)
(* and configuration: the stops only rise, the stages keep their floors,   *)
(* no stop fires on the tick that moved it, and the broker's stops and     *)
(* lots follow the tracker's.  TrackerProofs says what a tick does.        *)
(***************************************************************************)
EXTENDS TickLoop, TrackerProofs

\* A position is tracked once, from its fill on; between ticks no close event waits.
LoopInv ==
    /\ positions \in [Ids -> Positions \cup {Untracked}]
    /\ closes \in [Ids -> Seq(CloseEvents)]
    /\ \A id \in Ids : positions[id] # Untracked => id \in filled
    /\ pc # "closes" => \A id \in Ids : closes[id] = <<>>

\* What a step may do to a tracked position: nothing, a tick, or forget it.
StepOK ==
    \A id \in Ids :
        positions[id] # Untracked =>
            \/ positions'[id] = Untracked \/ positions'[id] = positions[id]
            \/ positions'[id].stop >= positions[id].stop
               /\ (BufferBelowStages /\ StageOK(positions[id]) => StageOK(positions'[id]))

\* A position that appears is a new one, or the tracker's own after a tick.
BirthOK ==
    \A id \in Ids : positions[id] = Untracked /\ positions'[id] # Untracked
                        => StageOK(positions'[id])

StopOutOK ==
    LevelsBehindPrice =>
        \A id \in Ids : \A i \in 1..Len(closes'[id]) :
            (pc = "tick" /\ closes'[id][i].reason = "SL_HIT")
                => closes'[id][i].pips <= positions[id].stop

LEMMA OpenedOK ==
    ASSUME NEW sym \in Symbols, NEW side \in {"BUY", "SELL"}, NEW lots \in LotSizes,
           NEW sl \in StopLevels, NEW tp \in TargetLevels
    PROVE  Opened(sym, side, lots, sl, tp) \in Positions
           /\ StageOK(Opened(sym, side, lots, sl, tp))
<1>1. lots \in Nat /\ sl \in Int /\ tp \in Int
  BY TickLoopAssumption DEF TickLoopAssumption
<1>2. Opened(sym, side, lots, sl, tp) \in Positions
  BY <1>1 DEF Opened, Positions
<1>3. /\ Opened(sym, side, lots, sl, tp).stage = 0
      /\ Opened(sym, side, lots, sl, tp).breakEven = FALSE
  BY DEF Opened
<1>4. StageOK(Opened(sym, side, lots, sl, tp))
  BY <1>3 DEF StageOK
<1> QED
  BY <1>2, <1>4

LEMMA InitOK == Init => LoopInv
<1>1. <<>> \in Seq(CloseEvents)
  OBVIOUS
<1> QED
  BY <1>1 DEF Init, TrackerInit, LoopInv

LEMMA FillOK ==
    ASSUME LoopInv, NEW id \in Ids, NEW sym \in Symbols, NEW side \in {"BUY", "SELL"},
           NEW lots \in LotSizes, NEW sl \in StopLevels, NEW tp \in TargetLevels,
           Fill(id, sym, side, lots, sl, tp)
    PROVE  LoopInv' /\ StepOK /\ BirthOK /\ StopOutOK
<1> DEFINE new == Opened(sym, side, lots, sl, tp)
<1>1. new \in Positions /\ StageOK(new)
  BY OpenedOK
<1> HIDE DEF new
<1>2. /\ id \notin filled /\ filled' = filled \cup {id}
      /\ positions' = [positions EXCEPT ![id] = new]
      /\ closes' = closes /\ pc' = pc
  BY DEF Fill, Add, new
<1>3. LoopInv'
  BY <1>1, <1>2 DEF LoopInv
<1>4. StepOK /\ BirthOK
  BY <1>1, <1>2 DEF LoopInv, StepOK, BirthOK
<1>5. StopOutOK
  BY <1>2 DEF LoopInv, StopOutOK
<1> QED
  BY <1>3, <1>4, <1>5

LEMMA TickStepOK ==
    ASSUME LoopInv, NEW sym \in Symbols, NEW gain \in [Ids -> Gains], NEW atr \in ATRs,
           Tick(sym, gain, atr)
    PROVE  LoopInv' /\ StepOK /\ BirthOK /\ StopOutOK
<1> DEFINE after == [id \in Ids |->
              IF positions[id] # Untracked /\ positions[id].symbol = sym
              THEN AfterTick(positions[id], gain[id], atr, id \in overdue)
              ELSE Work(positions[id])]
<1>1. /\ pc = "tick" /\ pc' = "closes" /\ filled' = filled
      /\ closes' = [id \in Ids |-> after[id].closes]
      /\ \A id \in Ids : positions'[id] = Untracked \/ positions'[id] = after[id].pos
      /\ DOMAIN positions' = Ids
      /\ positions' = [id \in Ids |-> positions'[id]]
  BY DEF Tick, OnTick
<1>2. ASSUME NEW id \in Ids
      PROVE  \/ /\ positions[id] # Untracked /\ positions[id] \in Positions
                /\ TickOK(after[id], positions[id])
             \/ after[id].pos = positions[id] /\ after[id].closes = <<>>
  <2>1. CASE positions[id] # Untracked /\ positions[id].symbol = sym
    <3>1. positions[id] \in Positions
      BY <2>1 DEF LoopInv
    <3>2. gain[id] \in Int
      BY ConfigOK
    <3>3. TickOK(AfterTick(positions[id], gain[id], atr, id \in overdue), positions[id])
      BY <3>1, <3>2, AfterTickOK
    <3>4. after[id] = AfterTick(positions[id], gain[id], atr, id \in overdue)
      BY <2>1
    <3> QED
      BY <2>1, <3>1, <3>3, <3>4
  <2>2. CASE ~(positions[id] # Untracked /\ positions[id].symbol = sym)
    <3>1. after[id] = Work(positions[id])
      BY <2>2
    <3> QED
      BY <3>1 DEF Work
  <2> QED
    BY <2>1, <2>2
<1> HIDE DEF after
<1>3. ASSUME NEW id \in Ids
      PROVE  /\ positions'[id] \in Positions \cup {Untracked}
             /\ after[id].closes \in Seq(CloseEvents)
             /\ positions'[id] # Untracked => positions[id] # Untracked
  <2>1. positions[id] \in Positions \cup {Untracked}
    BY DEF LoopInv
  <2>2. CASE /\ positions[id] # Untracked /\ positions[id] \in Positions
             /\ TickOK(after[id], positions[id])
    <3>1. after[id] \in Works
      BY <2>2 DEF TickOK
    <3>2. after[id].pos \in Positions /\ after[id].closes \in Seq(CloseEvents)
      BY <3>1 DEF Works
    <3> QED
      BY <1>1, <2>2, <3>2
  <2>3. CASE after[id].pos = positions[id] /\ after[id].closes = <<>>
    <3>1. <<>> \in Seq(CloseEvents)
      OBVIOUS
    <3> QED
      BY <1>1, <2>1, <2>3, <3>1
  <2> QED
    BY <1>2, <2>2, <2>3
<1>4. LoopInv'
  <2>1. positions' \in [Ids -> Positions \cup {Untracked}]
    BY <1>1, <1>3
  <2>2. closes' \in [Ids -> Seq(CloseEvents)]
    BY <1>1, <1>3
  <2>3. \A id \in Ids : positions'[id] # Untracked => id \in filled'
    BY <1>1, <1>3 DEF LoopInv
  <2> QED
    BY <1>1, <2>1, <2>2, <2>3 DEF LoopInv
<1>5. StepOK
  BY <1>1, <1>2 DEF StepOK, TickOK
<1>6. BirthOK
  BY <1>3 DEF BirthOK
<1>7. StopOutOK
  <2> SUFFICES ASSUME LevelsBehindPrice, NEW id \in Ids, NEW i \in 1..Len(closes'[id]),
                      closes'[id][i].reason = "SL_HIT"
               PROVE  closes'[id][i].pips <= positions[id].stop
    BY DEF StopOutOK
  <2>1. closes'[id] = after[id].closes
    BY <1>1
  <2>2. TickOK(after[id], positions[id])
    <3>1. closes'[id] # <<>>
      OBVIOUS
    <3> QED
      BY <1>2, <2>1, <3>1
  <2> QED
    BY <2>1, <2>2 DEF TickOK
<1> QED
  BY <1>4, <1>5, <1>6, <1>7

LEMMA SettleOK ==
    ASSUME LoopInv, NEW id \in Ids, SettleClose(id)
    PROVE  LoopInv' /\ StepOK /\ BirthOK /\ StopOutOK
<1>1. /\ positions' = positions /\ filled' = filled /\ pc = "closes" /\ pc' = pc
      /\ closes[id] # <<>> /\ closes' = [closes EXCEPT ![id] = Tail(@)]
  BY DEF SettleClose, HandleClose
<1>2. closes[id] \in Seq(CloseEvents)
  BY DEF LoopInv
<1>3. Tail(closes[id]) \in Seq(CloseEvents)
  BY <1>1, <1>2
<1>4. LoopInv'
  BY <1>1, <1>3 DEF LoopInv
<1> QED
  BY <1>1, <1>4 DEF StepOK, BirthOK, StopOutOK

\* The rest of the loop leaves positions and close events alone.
LEMMA OthersOK ==
    ASSUME LoopInv,
           \/ UNCHANGED vars \/ Drain \/ NextTick
           \/ \E id \in Ids : ModifyPosition(id) \/ Overdue(id)
    PROVE  LoopInv' /\ StepOK /\ BirthOK /\ StopOutOK
<1>1. /\ positions' = positions /\ filled' = filled /\ closes' = closes
      /\ pc' # "closes" => \A id \in Ids : closes[id] = <<>>
  BY DEF LoopInv, vars, trackerVars, loopVars, Drain, DrainModifications, NextTick,
     ModifyPosition, Overdue
<1>2. LoopInv'
  BY <1>1 DEF LoopInv
<1>3. StopOutOK
  BY <1>1 DEF LoopInv, StopOutOK
<1> QED
  BY <1>1, <1>2, <1>3 DEF StepOK, BirthOK

LEMMA NextOK ==
    ASSUME LoopInv, [Next]_vars
    PROVE  LoopInv' /\ StepOK /\ BirthOK /\ StopOutOK
BY FillOK, TickStepOK, SettleOK, OthersOK DEF Next

LEMMA LoopInvariant == Spec => []LoopInv
<1>1. Init => LoopInv
  BY InitOK
<1>2. LoopInv /\ [Next]_vars => LoopInv'
  BY NextOK
<1> QED
  BY <1>1, <1>2, PTL DEF Spec

\* For every set of positions, gains and configuration: no step of the loop loosens
\* the stop of a position it keeps (OnTick's partial, locker, break-even, trailing).
THEOREM StopsNeverLoosen == Spec => StopsRatchet
<1>1. ASSUME LoopInv, [Next]_vars
      PROVE  \A id \in Ids : positions[id] # Untracked /\ positions'[id] # Untracked
                                => positions'[id].stop >= positions[id].stop
  <2> SUFFICES ASSUME NEW id \in Ids, positions[id] # Untracked, positions'[id] # Untracked
               PROVE  positions'[id].stop >= positions[id].stop
    OBVIOUS
  <2>1. positions[id] \in Positions /\ positions[id].stop \in Int
    BY <1>1 DEF LoopInv, Positions
  <2>2. StepOK
    BY <1>1, NextOK
  <2> QED
    BY <2>1, <2>2 DEF StepOK
<1>2. LoopInv /\ [Next]_vars =>
        [\A id \in Ids : positions[id] # Untracked /\ positions'[id] # Untracked
                            => positions'[id].stop >= positions[id].stop]_vars
  BY <1>1
<1> QED
  BY <1>2, LoopInvariant, PTL DEF Spec, StopsRatchet

Floors == \A id \in Ids : positions[id] # Untracked => StageOK(positions[id])

\* If the break-even buffer is below the profit that locks stage 1 ($3.00 of gold),
\* every profit stage keeps the floor it promised, whatever ticks follow.
THEOREM StagesKeepFloors == ASSUME BufferBelowStages PROVE Spec => []StagesHold
<1>1. Init => Floors
  BY DEF Init, TrackerInit, Floors
<1>2. LoopInv /\ Floors /\ [Next]_vars => Floors'
  <2> SUFFICES ASSUME LoopInv, Floors, [Next]_vars, NEW id \in Ids,
                      positions'[id] # Untracked
               PROVE  StageOK(positions'[id])
    BY DEF Floors, StageOK
  <2>1. StepOK /\ BirthOK
    BY NextOK
  <2>2. CASE positions[id] = Untracked
    BY <2>1, <2>2 DEF BirthOK
  <2>3. CASE positions[id] # Untracked
    <3>1. StageOK(positions[id])
      BY <2>3 DEF Floors
    <3> QED
      BY <2>1, <2>3, <3>1 DEF StepOK
  <2> QED
    BY <2>2, <2>3
<1>3. Floors => StagesHold
  BY DEF Floors, StagesHold, Tracked
<1> QED
  BY <1>1, <1>2, <1>3, LoopInvariant, PTL DEF Spec

\* If the configured levels lie behind the gains that set them, no stop OnTick has
\* just moved fires on the same tick: a stop-out is at the previous stop, or worse.
THEOREM MovedStopsWait == ASSUME LevelsBehindPrice PROVE Spec => MovedStopNeverFires
<1>1. ASSUME LoopInv, [Next]_vars
      PROVE  \A id \in Ids : \A i \in 1..Len(closes'[id]) :
                (pc = "tick" /\ closes'[id][i].reason = "SL_HIT")
                    => closes'[id][i].pips <= positions[id].stop
  BY <1>1, NextOK DEF StopOutOK
<1>2. LoopInv /\ [Next]_vars =>
        [\A id \in Ids : \A i \in 1..Len(closes'[id]) :
            (pc = "tick" /\ closes'[id][i].reason = "SL_HIT")
                => closes'[id][i].pips <= positions[id].stop]_vars
  BY <1>1
<1> QED
  BY <1>2, LoopInvariant, PTL DEF Spec, MovedStopNeverFires

-----------------------------------------------------------------------------
LEMMA TickEffect ==
    ASSUME LoopInv, NEW sym \in Symbols, NEW gain \in [Ids -> Gains], NEW atr \in ATRs,
           Tick(sym, gain, atr)
    PROVE  /\ \A id \in Ids : \E w : Ticked(id, w)
           /\ pc = "tick" /\ pc' = "closes"
           /\ UNCHANGED <<outbox, brokerStop, brokerLots, overdue, filled>>
           /\ modifications' = [id \in Ids |-> modifications'[id]]
BY OnTickEffect DEF Tick, LoopInv

\* Where the stop of id is on its way to the broker.
Reaches(id) ==
    positions[id].stop = IF outbox[id] # <<>> THEN outbox[id][Len(outbox[id])].stop
                         ELSE IF modifications[id] # <<>>
                              THEN modifications[id][Len(modifications[id])].stop
                              ELSE brokerStop[id]

\* Modify events are queued by ticks, sent in the last phase, of filled ids only; the
\* last of them carries the tracker's stop.
StopInv ==
    /\ modifications \in [Ids -> Seq(Levels)] /\ outbox \in [Ids -> Seq(Levels)]
    /\ brokerStop \in [Ids -> Int]
    /\ pc \in {"tick", "closes", "modify"}
    /\ overdue \subseteq Ids /\ filled \subseteq Ids
    /\ pc # "closes" => \A id \in Ids : modifications[id] = <<>>
    /\ pc # "modify" => \A id \in Ids : outbox[id] = <<>>
    /\ \A id \in Ids \ filled : modifications[id] = <<>> /\ outbox[id] = <<>>
    /\ \A id \in Ids : positions[id] # Untracked => Reaches(id)

LEMMA StopInit == Init => StopInv
<1>1. <<>> \in Seq(Levels) /\ NoStop \in Int
  BY DEF NoStop
<1> QED
  BY <1>1 DEF Init, TrackerInit, StopInv

LEMMA StopFill ==
    ASSUME LoopInv, StopInv, NEW id \in Ids, NEW sym \in Symbols, NEW side \in {"BUY", "SELL"},
           NEW lots \in LotSizes, NEW sl \in StopLevels, NEW tp \in TargetLevels,
           Fill(id, sym, side, lots, sl, tp)
    PROVE  StopInv'
<1> DEFINE new == Opened(sym, side, lots, sl, tp)
<1>1. new \in Positions /\ new.stop = sl /\ sl \in Int
  BY OpenedOK, TickLoopAssumption DEF Opened, TickLoopAssumption
<1> HIDE DEF new
<1>2. /\ id \notin filled /\ filled' = filled \cup {id}
      /\ positions' = [positions EXCEPT ![id] = new]
      /\ brokerStop' = [brokerStop EXCEPT ![id] = sl]
      /\ modifications' = modifications /\ outbox' = outbox /\ pc' = pc /\ overdue' = overdue
  BY DEF Fill, Add, new
<1>3. modifications[id] = <<>> /\ outbox[id] = <<>>
  BY <1>2 DEF StopInv
<1>4. \A i \in Ids : positions'[i] # Untracked => Reaches(i)'
  <2> SUFFICES ASSUME NEW i \in Ids, positions'[i] # Untracked
               PROVE  Reaches(i)'
    OBVIOUS
  <2>1. CASE i = id
    <3>1. positions'[i] = new /\ brokerStop'[i] = sl
      BY <1>2, <2>1 DEF LoopInv, StopInv
    <3> QED
      BY <1>1, <1>2, <1>3, <2>1, <3>1 DEF Reaches
  <2>2. CASE i # id
    <3>1. positions'[i] = positions[i] /\ brokerStop'[i] = brokerStop[i]
      BY <1>2, <2>2 DEF LoopInv, StopInv
    <3>2. Reaches(i)
      BY <3>1 DEF StopInv
    <3> QED
      BY <1>2, <3>1, <3>2 DEF Reaches
  <2> QED
    BY <2>1, <2>2
<1>5. brokerStop' \in [Ids -> Int]
  BY <1>1, <1>2 DEF StopInv
<1> QED
  BY <1>2, <1>4, <1>5 DEF StopInv

LEMMA StopTick ==
    ASSUME LoopInv, StopInv, NEW sym \in Symbols, NEW gain \in [Ids -> Gains], NEW atr \in ATRs,
           Tick(sym, gain, atr)
    PROVE  StopInv'
<1>1. /\ \A id \in Ids : \E w : Ticked(id, w)
      /\ pc = "tick" /\ pc' = "closes"
      /\ UNCHANGED <<outbox, brokerStop, brokerLots, overdue, filled>>
      /\ modifications' = [id \in Ids |-> modifications'[id]]
  BY TickEffect
<1>2. ASSUME NEW id \in Ids
      PROVE  /\ modifications'[id] \in Seq(Levels)
             /\ id \notin filled => modifications'[id] = <<>>
             /\ positions'[id] # Untracked => Reaches(id)'
  <2>1. PICK w : Ticked(id, w)
    BY <1>1
  <2>2. modifications[id] = <<>> /\ outbox[id] = <<>> /\ outbox'[id] = <<>>
    BY <1>1 DEF StopInv
  <2>3. CASE /\ positions[id] \in Positions \ {Untracked} /\ w \in Works
             /\ Told(w, positions[id].stop)
    <3>1. w.mods \in Seq(Levels) /\ id \in filled
      BY <2>3 DEF Works, LoopInv
    <3>2. modifications'[id] = w.mods
      BY <2>1, <2>2, <3>1, ConcatEmptySeq DEF Ticked
    <3>3. positions[id].stop = brokerStop[id]
      <4>1. Reaches(id)
        BY <2>3 DEF StopInv
      <4> QED
        BY <2>2, <4>1 DEF Reaches
    <3>4. positions'[id] # Untracked => positions'[id] = w.pos
      BY <2>1 DEF Ticked
    <3>5. positions'[id] # Untracked => Reaches(id)'
      BY <1>1, <2>2, <2>3, <3>2, <3>3, <3>4 DEF Reaches, Told
    <3> QED
      BY <3>1, <3>2, <3>5
  <2>4. CASE w = Work(positions[id])
    <3>1. w.mods = <<>> /\ w.pos = positions[id]
      BY <2>4 DEF Work
    <3>2. modifications'[id] = <<>>
      <4>1. <<>> \in Seq(Levels)
        OBVIOUS
      <4> QED
        BY <2>1, <2>2, <3>1, <4>1, ConcatEmptySeq DEF Ticked
    <3>3. positions'[id] # Untracked => positions'[id] = positions[id] /\ Reaches(id)
      BY <2>1, <3>1 DEF Ticked, StopInv
    <3>4. positions'[id] # Untracked => Reaches(id)'
      BY <1>1, <2>2, <3>2, <3>3 DEF Reaches
    <3>5. <<>> \in Seq(Levels)
      OBVIOUS
    <3> QED
      BY <3>2, <3>4, <3>5
  <2> QED
    BY <2>1, <2>3, <2>4 DEF Ticked
<1>3. modifications' \in [Ids -> Seq(Levels)]
  BY <1>1, <1>2
<1> QED
  BY <1>1, <1>2, <1>3 DEF StopInv

LEMMA StopModify ==
    ASSUME LoopInv, StopInv, NEW id \in Ids, ModifyPosition(id)
    PROVE  StopInv'
<1>1. /\ pc = "modify" /\ pc' = pc /\ outbox[id] # <<>> /\ outbox[id] \in Seq(Levels)
      /\ brokerStop' = [brokerStop EXCEPT ![id] = Head(outbox[id]).stop]
      /\ outbox' = [outbox EXCEPT ![id] = Tail(outbox[id])]
      /\ UNCHANGED <<positions, modifications, filled, overdue>>
  BY DEF ModifyPosition, StopInv, trackerVars
<1>2. /\ Head(outbox[id]) \in Levels /\ Tail(outbox[id]) \in Seq(Levels)
      /\ Head(outbox[id]) = outbox[id][1]
      /\ Tail(outbox[id]) = <<>> => Len(outbox[id]) = 1
      /\ Tail(outbox[id]) # <<>> =>
            Tail(outbox[id])[Len(Tail(outbox[id]))] = outbox[id][Len(outbox[id])]
  <2> DEFINE s == outbox[id]
  <2>1. s \in Seq(Levels) /\ s # <<>>
    BY <1>1
  <2> HIDE DEF s
  <2>2. /\ Head(s) \in Levels /\ Tail(s) \in Seq(Levels) /\ Len(Tail(s)) = Len(s) - 1
        /\ \A i \in 1..Len(Tail(s)) : Tail(s)[i] = s[i + 1]
        /\ Head(s) = s[1]
    BY <2>1, HeadTailProperties
  <2>3. Tail(s) = <<>> => Len(s) = 1
    <3>1. Len(s) \in Nat /\ Len(<<>>) = 0
      BY <2>1, LenProperties, EmptySeq
    <3>2. Tail(s) = <<>> => Len(s) - 1 = 0
      BY <2>2, <3>1
    <3> QED
      BY <3>1, <3>2
  <2>4. Tail(s) # <<>> => Tail(s)[Len(Tail(s))] = s[Len(s)]
    <3> SUFFICES ASSUME Tail(s) # <<>>
                 PROVE  Tail(s)[Len(Tail(s))] = s[Len(s)]
      OBVIOUS
    <3>1. Len(Tail(s)) \in 1..Len(Tail(s)) /\ Len(s) \in Nat
      BY <2>1, <2>2, EmptySeq
    <3> QED
      BY <2>2, <3>1
  <2> QED
    BY <2>2, <2>3, <2>4 DEF s
<1>3. Head(outbox[id]).stop \in Int
  BY <1>2 DEF Levels
<1>4. brokerStop' \in [Ids -> Int] /\ outbox' \in [Ids -> Seq(Levels)]
  BY <1>1, <1>2, <1>3 DEF StopInv
<1>5. id \in filled
  BY <1>1 DEF StopInv
<1>6. \A i \in Ids \ filled : outbox'[i] = <<>>
  BY <1>1, <1>5 DEF StopInv
<1>7. \A i \in Ids : positions'[i] # Untracked => Reaches(i)'
  <2> SUFFICES ASSUME NEW i \in Ids, positions[i] # Untracked
               PROVE  Reaches(i)'
    BY <1>1
  <2>1. Reaches(i) /\ modifications[i] = <<>>
    BY <1>1 DEF StopInv
  <2>2. CASE i = id
    <3>1. outbox'[i] = Tail(outbox[id]) /\ brokerStop'[i] = Head(outbox[id]).stop
      BY <1>1, <2>2 DEF StopInv
    <3> QED
      BY <1>1, <1>2, <2>1, <2>2, <3>1 DEF Reaches
  <2>3. CASE i # id
    <3>1. outbox'[i] = outbox[i] /\ brokerStop'[i] = brokerStop[i]
      BY <1>1, <2>3 DEF StopInv
    <3> QED
      BY <1>1, <2>1, <3>1 DEF Reaches
  <2> QED
    BY <2>2, <2>3
<1> QED
  BY <1>1, <1>4, <1>6, <1>7 DEF StopInv

LEMMA StopOthers ==
    ASSUME LoopInv, StopInv,
           \/ UNCHANGED vars \/ Drain \/ NextTick
           \/ \E id \in Ids : SettleClose(id) \/ Overdue(id)
    PROVE  StopInv'
<1>1. CASE UNCHANGED vars
  BY <1>1 DEF vars, trackerVars, loopVars, StopInv, Reaches
<1>2. CASE NextTick
  <2>1. \A id \in Ids : outbox[id] = <<>>
    BY <1>2 DEF NextTick
  <2> QED
    BY <1>2, <2>1 DEF NextTick, trackerVars, StopInv, Reaches
<1>3. ASSUME NEW id \in Ids, SettleClose(id)
      PROVE  StopInv'
  BY <1>3 DEF SettleClose, HandleClose, StopInv, Reaches
<1>4. ASSUME NEW id \in Ids, Overdue(id)
      PROVE  StopInv'
  BY <1>4 DEF Overdue, Tracked, trackerVars, StopInv, Reaches
<1>5. CASE Drain
  <2>1. /\ pc = "closes" /\ pc' = "modify" /\ outbox' = modifications
        /\ modifications' = [id \in Ids |-> <<>>]
        /\ UNCHANGED <<positions, brokerStop, overdue, filled>>
    BY <1>5 DEF Drain, DrainModifications
  <2>2. modifications' \in [Ids -> Seq(Levels)]
    <3>1. <<>> \in Seq(Levels)
      OBVIOUS
    <3> QED
      BY <2>1, <3>1
  <2>3. \A id \in Ids : positions'[id] # Untracked => Reaches(id)'
    BY <2>1 DEF StopInv, Reaches
  <2> QED
    BY <2>1, <2>2, <2>3 DEF StopInv
<1> QED
  BY <1>1, <1>2, <1>3, <1>4, <1>5

LEMMA StopNext ==
    ASSUME LoopInv, StopInv, [Next]_vars
    PROVE  StopInv'
BY StopFill, StopTick, StopModify, StopOthers DEF Next

LEMMA StopInvariant == Spec => []StopInv
<1>1. LoopInv /\ StopInv /\ [Next]_vars => StopInv'
  BY StopNext
<1> QED
  BY <1>1, StopInit, LoopInvariant, PTL DEF Spec

\* For every set of positions, levels and configuration: however many stops a run of
\* ticks moves, the last event on its way to the broker carries the tracker's stop.
THEOREM BrokerKeepsUp == Spec => []BrokerStopFollows
<1>1. StopInv => BrokerStopFollows
  <2> SUFFICES ASSUME StopInv, NEW id \in Ids, positions[id] # Untracked
               PROVE  IF Pending(id) = <<>> THEN brokerStop[id] = positions[id].stop
                      ELSE Pending(id)[Len(Pending(id))].stop = positions[id].stop
    BY DEF BrokerStopFollows, Tracked
  <2>1. Reaches(id) /\ (outbox[id] = <<>> \/ modifications[id] = <<>>)
    BY DEF StopInv
  <2>2. outbox[id] \in Seq(Levels) /\ modifications[id] \in Seq(Levels)
    BY DEF StopInv
  <2>3. Pending(id) = IF outbox[id] = <<>> THEN modifications[id] ELSE outbox[id]
    BY <2>1, <2>2, ConcatEmptySeq DEF Pending
  <2> QED
    BY <2>1, <2>3 DEF Reaches
<1> QED
  BY <1>1, StopInvariant, PTL

-----------------------------------------------------------------------------

\* What the broker holds of a position is what the tracker keeps and the close events
\* not yet settled will close.
BookInv ==
    /\ brokerLots \in [Ids -> Nat]
    /\ \A id \in Ids \ filled : closes[id] = <<>>
    /\ \A id \in Ids : Booked(closes[id], positions[id], brokerLots[id])

LEMMA BookInit == Init => BookInv
BY DEF Init, TrackerInit, BookInv, Booked, RestOf

LEMMA BookFill ==
    ASSUME LoopInv, BookInv, NEW id \in Ids, NEW sym \in Symbols, NEW side \in {"BUY", "SELL"},
           NEW lots \in LotSizes, NEW sl \in StopLevels, NEW tp \in TargetLevels,
           Fill(id, sym, side, lots, sl, tp)
    PROVE  BookInv'
<1> DEFINE new == Opened(sym, side, lots, sl, tp)
<1>1. new \in Positions /\ new # Untracked /\ new.remaining = lots /\ lots \in Nat
  BY OpenedOK, TickLoopAssumption, TrackerAssumption
     DEF Opened, TickLoopAssumption, TrackerAssumption
<1> HIDE DEF new
<1>2. /\ id \notin filled /\ filled' = filled \cup {id}
      /\ positions' = [positions EXCEPT ![id] = new]
      /\ brokerLots' = [brokerLots EXCEPT ![id] = lots]
      /\ closes' = closes
  BY DEF Fill, Add, new
<1>3. ASSUME NEW i \in Ids
      PROVE  Booked(closes'[i], positions'[i], brokerLots'[i])
  <2>1. CASE i = id
    <3>1. positions'[i] = new /\ brokerLots'[i] = lots /\ closes'[i] = <<>>
      BY <1>2, <2>1 DEF LoopInv, BookInv
    <3> QED
      BY <1>1, <3>1 DEF Booked, RestOf
  <2>2. CASE i # id
    BY <1>2, <2>2 DEF LoopInv, BookInv
  <2> QED
    BY <2>1, <2>2
<1>4. brokerLots' \in [Ids -> Nat] /\ \A i \in Ids \ filled' : closes'[i] = <<>>
  BY <1>1, <1>2 DEF BookInv
<1> QED
  BY <1>3, <1>4 DEF BookInv

LEMMA BookTick ==
    ASSUME RemovesClosed, LoopInv, BookInv, NEW sym \in Symbols, NEW gain \in [Ids -> Gains],
           NEW atr \in ATRs, Tick(sym, gain, atr)
    PROVE  BookInv'
<1>1. /\ \A id \in Ids : \E w : Ticked(id, w)
      /\ pc = "tick" /\ brokerLots' = brokerLots /\ filled' = filled
  BY TickEffect
<1>2. ASSUME NEW id \in Ids
      PROVE  /\ Booked(closes'[id], positions'[id], brokerLots[id])
             /\ id \notin filled => closes'[id] = <<>>
  <2>1. PICK w : Ticked(id, w)
    BY <1>1
  <2>2. /\ positions[id] \in Positions \cup {Untracked}
        /\ Booked(<<>>, positions[id], brokerLots[id])
    <3>1. closes[id] = <<>>
      BY <1>1 DEF LoopInv
    <3> QED
      BY <3>1 DEF LoopInv, BookInv
  <2>3. Booked(closes'[id], positions'[id], brokerLots[id])
    BY <2>1, <2>2, BookedTick DEF Ticked
  <2>4. id \notin filled => w = Work(positions[id])
    BY <2>1 DEF Ticked, LoopInv
  <2> QED
    BY <2>1, <2>3, <2>4 DEF Ticked, Work
<1> QED
  BY <1>1, <1>2 DEF BookInv

LEMMA BookSettle ==
    ASSUME LoopInv, BookInv, NEW id \in Ids, SettleClose(id)
    PROVE  BookInv'
<1> DEFINE first == Head(closes[id])
           held == IF first.reason = "PARTIAL_TP1_HIT" THEN brokerLots[id] - first.lots ELSE 0
<1>1. /\ closes[id] # <<>> /\ closes' = [closes EXCEPT ![id] = Tail(closes[id])]
      /\ brokerLots' = [brokerLots EXCEPT ![id] = held]
      /\ positions' = positions /\ filled' = filled
  BY DEF SettleClose, HandleClose
<1>2. Booked(Tail(closes[id]), positions[id], held) /\ held \in Nat
  <2>1. /\ positions[id] \in Positions \cup {Untracked}
        /\ Booked(closes[id], positions[id], brokerLots[id])
    BY DEF LoopInv, BookInv
  <2> QED
    BY <1>1, <2>1, BookedSettle
<1> HIDE DEF held, first
<1>3. \A i \in Ids : /\ Booked(closes'[i], positions'[i], brokerLots'[i])
                     /\ i \notin filled => closes'[i] = <<>>
  BY <1>1, <1>2 DEF LoopInv, BookInv
<1>4. brokerLots' \in [Ids -> Nat]
  BY <1>1, <1>2 DEF BookInv
<1> QED
  BY <1>1, <1>3, <1>4 DEF BookInv

LEMMA BookOthers ==
    ASSUME BookInv,
           \/ UNCHANGED vars \/ Drain \/ NextTick
           \/ \E id \in Ids : ModifyPosition(id) \/ Overdue(id)
    PROVE  BookInv'
<1>1. UNCHANGED <<positions, closes, brokerLots, filled>>
  BY DEF vars, trackerVars, loopVars, Drain, DrainModifications, NextTick, ModifyPosition, Overdue
<1> QED
  BY <1>1 DEF BookInv

LEMMA BookInvariant == ASSUME RemovesClosed PROVE Spec => []BookInv
<1>1. LoopInv /\ BookInv /\ [Next]_vars => BookInv'
  BY BookFill, BookTick, BookSettle, BookOthers DEF Next
<1> QED
  BY <1>1, BookInit, LoopInvariant, PTL DEF Spec

\* For every set of positions, lots, levels and ticks, with the tracker that removes
\* what it closes: what the broker holds is what the tracker still manages and the
\* close events still owe; a part and the rest are each closed once.
THEOREM BrokerLotsAgree == ASSUME RemovesClosed PROVE Spec => []BooksAgree
<1>1. LoopInv /\ BookInv => BooksAgree
  <2> SUFFICES ASSUME LoopInv, BookInv, NEW id \in Ids
               PROVE  brokerLots[id] = LotsOf(closes[id]) + RestOf(positions[id])
    BY DEF BooksAgree, Tracked, RestOf
  <2> QED
    BY BookedLots DEF LoopInv, BookInv
<1> QED
  BY <1>1, LoopInvariant, BookInvariant, PTL

\* Type correctness, the broker's lots never below zero included.
THEOREM LoopTypes == ASSUME RemovesClosed PROVE Spec => []TypeOK
<1>1. LoopInv /\ StopInv /\ BookInv => TypeOK
  BY DEF LoopInv, StopInv, BookInv, TypeOK
<1> QED
  BY <1>1, LoopInvariant, StopInvariant, BookInvariant, PTL
=============================================================================
