---------------------------- MODULE TrackerProofs ----------------------------
(***************************************************************************)
(* What a tick does to the positions of the tracker, for every position,   *)
(* gain, ATR and configuration, whoever calls OnTick: the lemmas that the  *)
(* proofs about the tick loop and the backtest engine share.               *)
(***************************************************************************)
EXTENDS PositionTracker, SequenceTheorems, TLAPS

\* The work of a tick on one position, well typed.
Works == [pos : Positions, mods : Seq(Levels), closes : Seq(CloseEvents)]

\* The break-even buffer is below the profit that locks the second stage's floor.
BufferBelowStages == Config.beBuffer < 300

\* Every level a stop is moved to lies behind the gain that moves it.
LevelsBehindPrice ==
    /\ BufferBelowStages
    /\ Config.beBuffer < Config.tp1 /\ Config.beBuffer < Config.bePips
    /\ \A sym \in Symbols, atr \in ATRs : TrailDistance(sym, atr) > 0

\* The last stop announced, if any was, is the position's; if none was, it is stop.
Told(w, stop) ==
    w.pos.stop = IF w.mods = <<>> THEN stop ELSE w.mods[Len(w.mods)].stop

NoStopOut(w) == \A i \in 1..Len(w.closes) : w.closes[i].reason # "SL_HIT"

\* What one stage of OnTick, from w to v, does to the position and its events.
Moves(v, w, gain) ==
    /\ v \in Works
    /\ v.pos.stop >= w.pos.stop
    /\ BufferBelowStages /\ StageOK(w.pos) => StageOK(v.pos)
    /\ LevelsBehindPrice => v.pos.stop = w.pos.stop \/ v.pos.stop < gain
    /\ NoStopOut(w) => NoStopOut(v)
    /\ \A stop \in Int : Told(w, stop) => Told(v, stop)

LEMMA ConfigOK ==
    /\ Gold \subseteq Symbols /\ ATRs \subseteq Nat /\ Gains \subseteq Int
    /\ Config.beBuffer \in Nat /\ Config.bePips \in Nat
    /\ Config.tp1 \in Nat /\ Config.tp2 \in Nat /\ Config.ratio \in Nat
    /\ Config.trailPips \in Nat /\ Config.trailMult \in Nat
    /\ Config.stageMult \in [1..3 -> Nat]
BY TrackerAssumption DEF TrackerAssumption

LEMMA HigherOK ==
    ASSUME NEW a \in Int, NEW b \in Int
    PROVE  Higher(a, b) \in Int /\ Higher(a, b) >= a /\ Higher(a, b) >= b
           /\ (Higher(a, b) = a \/ Higher(a, b) = b)
BY DEF Higher

LEMMA ScaledOK ==
    ASSUME NEW atr \in Nat, NEW m \in Nat
    PROVE  (atr * m) \div 10 \in Nat
<1>1. atr * m \in Nat
  OBVIOUS
<1> QED
  BY <1>1

LEMMA ModifiedOK ==
    ASSUME NEW w \in Works, NEW p \in Positions
    PROVE  /\ Modified(w, p) \in Works
           /\ Modified(w, p).pos = [p EXCEPT !.state = "modified"]
           /\ Modified(w, p).closes = w.closes
           /\ \A stop \in Int : Told(Modified(w, p), stop)
<1>1. [p EXCEPT !.state = "modified"] \in Positions
  BY DEF Positions
<1>2. [stop |-> p.stop, target |-> p.target] \in Levels
  BY DEF Positions, Levels
<1>3. Append(w.mods, [stop |-> p.stop, target |-> p.target]) \in Seq(Levels)
  BY <1>2 DEF Works
<1>4. /\ Modified(w, p) \in Works
      /\ Modified(w, p).pos = [p EXCEPT !.state = "modified"]
      /\ Modified(w, p).closes = w.closes
      /\ Modified(w, p).mods = Append(w.mods, [stop |-> p.stop, target |-> p.target])
  BY <1>1, <1>3 DEF Modified, Works
<1>5. [p EXCEPT !.state = "modified"].stop = p.stop
  BY DEF Positions
<1> DEFINE level == [stop |-> p.stop, target |-> p.target]
           m == Append(w.mods, level)
<1>6. m # <<>> /\ m[Len(m)] = level
  <2>1. w.mods \in Seq(Levels) /\ level \in Levels
    BY <1>2 DEF Works
  <2> HIDE DEF level
  <2> QED
    BY <2>1
<1>7. level.stop = p.stop
  OBVIOUS
<1> HIDE DEF m, level
<1>8. \A stop \in Int : Told(Modified(w, p), stop)
  <2>1. Modified(w, p).mods = m
    BY <1>4 DEF m, level
  <2> QED
    BY <1>4, <1>5, <1>6, <1>7, <2>1 DEF Told
<1> QED
  BY <1>4, <1>8

LEMMA WithCloseOK ==
    ASSUME NEW w \in Works, NEW reason, NEW lots \in Nat, NEW gain \in Int,
           reason \in {"PARTIAL_TP1_HIT", "TIME_STOP_HIT", "SL_HIT", "TP_HIT", "TP2_HIT"}
    PROVE  /\ WithClose(w, reason, lots, gain) \in Works
           /\ WithClose(w, reason, lots, gain).pos = w.pos
           /\ WithClose(w, reason, lots, gain).closes =
                 Append(w.closes, [reason |-> reason, lots |-> lots, pips |-> gain])
           /\ WithClose(w, reason, lots, gain).mods = w.mods
<1>1. [reason |-> reason, lots |-> lots, pips |-> gain] \in CloseEvents
  BY DEF CloseEvents
<1>2. Append(w.closes, [reason |-> reason, lots |-> lots, pips |-> gain]) \in Seq(CloseEvents)
  BY <1>1 DEF Works
<1> QED
  BY <1>2 DEF WithClose, Works

LEMMA MovesSelf ==
    ASSUME NEW w \in Works, NEW gain \in Int
    PROVE  Moves(w, w, gain)
BY DEF Moves, Works, Positions

LEMMA MovesTrans ==
    ASSUME NEW u, NEW v, NEW w \in Works, NEW gain \in Int,
           Moves(v, w, gain), Moves(u, v, gain)
    PROVE  Moves(u, w, gain)
<1>1. u.pos.stop \in Int /\ v.pos.stop \in Int /\ w.pos.stop \in Int
  BY DEF Moves, Works, Positions
<1> QED
  BY <1>1 DEF Moves

\* A modified position that moved its stop as required makes a stage that does.
LEMMA ModifiedMoves ==
    ASSUME NEW w \in Works, NEW p \in Positions, NEW gain \in Int,
           p.stop >= w.pos.stop,
           BufferBelowStages /\ StageOK(w.pos) => StageOK(p),
           LevelsBehindPrice => p.stop = w.pos.stop \/ p.stop < gain
    PROVE  Moves(Modified(w, p), w, gain)
<1>1. /\ Modified(w, p) \in Works
      /\ Modified(w, p).pos = [p EXCEPT !.state = "modified"]
      /\ Modified(w, p).closes = w.closes
      /\ \A stop \in Int : Told(Modified(w, p), stop)
  BY ModifiedOK
<1>2. /\ Modified(w, p).pos.stop = p.stop /\ Modified(w, p).pos.stage = p.stage
      /\ Modified(w, p).pos.breakEven = p.breakEven
  BY <1>1 DEF Positions
<1>3. StageOK(p) => StageOK(Modified(w, p).pos)
  BY <1>2 DEF StageOK
<1> QED
  BY <1>1, <1>2, <1>3 DEF Moves, NoStopOut

LEMMA RemainingSet ==
    ASSUME NEW p \in Positions, NEW n \in Nat
    PROVE  /\ [p EXCEPT !.remaining = n] \in Positions
           /\ [p EXCEPT !.remaining = n].stop = p.stop
           /\ [p EXCEPT !.remaining = n].stage = p.stage
           /\ [p EXCEPT !.remaining = n].breakEven = p.breakEven
BY DEF Positions

LEMMA PartialTPMoves ==
    ASSUME NEW w \in Works, NEW gain \in Int
    PROVE  Moves(PartialTP(w, gain), w, gain)
<1> DEFINE p == w.pos
           kept == [p EXCEPT !.partialDone = TRUE, !.breakEven = TRUE,
                             !.stop = Higher(@, PartialBuffer(p))]
           part == PartialLots(p)
<1>0. /\ p \in Positions /\ p.stop \in Int /\ p.lots \in Nat /\ p.remaining \in Nat
      /\ p.stage \in 0..3
  BY DEF Works, Positions
<1>1. part \in Nat
  <2>1. p.lots * Config.ratio \in Nat
    BY <1>0, ConfigOK
  <2> QED
    BY <2>1 DEF PartialLots
<1>2. PartialBuffer(p) \in Int /\ PartialBuffer(p) >= Config.beBuffer
      /\ (PartialDue(p, gain) /\ LevelsBehindPrice => PartialBuffer(p) < gain)
  BY <1>0, <1>1, ConfigOK DEF PartialBuffer, Higher, PartialDue, LevelsBehindPrice, BufferBelowStages
<1>3. /\ kept \in Positions /\ kept.stop = Higher(p.stop, PartialBuffer(p))
      /\ kept.stage = p.stage /\ kept.remaining = p.remaining
  BY <1>0, <1>2 DEF Positions, Higher
<1>4. /\ kept.stop \in Int /\ kept.stop >= p.stop /\ kept.stop >= Config.beBuffer
      /\ kept.stop = p.stop \/ kept.stop = PartialBuffer(p)
  BY <1>0, <1>2, <1>3, ConfigOK DEF Higher
<1>5. CASE ~PartialDue(p, gain) \/ part >= p.remaining
  BY <1>5, MovesSelf DEF PartialTP
<1>6. CASE ~(~PartialDue(p, gain) \/ part >= p.remaining) /\ part = 0
  <2> DEFINE q == [kept EXCEPT !.stage = 1]
  <2>1. q \in Positions /\ q.stop = kept.stop /\ q.stage = 1
    <3> HIDE DEF kept
    <3> QED
      BY <1>3 DEF Positions
  <2>2. StageOK(q)
    BY <2>1, <1>4 DEF StageOK
  <2>3. Moves(Modified(w, q), w, gain)
    BY <2>1, <2>2, <1>2, <1>4, <1>6, ModifiedMoves
  <2> QED
    BY <2>3, <1>6 DEF PartialTP
<1>7. CASE ~(~PartialDue(p, gain) \/ part >= p.remaining) /\ part # 0
  <2> DEFINE q == [kept EXCEPT !.remaining = @ - part]
             v == Modified(w, q)
             u == WithClose(v, "PARTIAL_TP1_HIT", part, gain)
  <2>1. q \in Positions /\ q.stop = kept.stop /\ q.stage = p.stage
    <3>1. kept.remaining - part \in Nat
      BY <1>0, <1>1, <1>3, <1>7
    <3> HIDE DEF kept, part
    <3> QED
      BY <3>1, <1>3, RemainingSet
  <2>2. StageOK(p) => StageOK(q)
    <3> HIDE DEF kept, part, q, p
    <3> QED
      BY <2>1, <1>0, <1>4, ConfigOK DEF StageOK
  <2>3. Moves(v, w, gain)
    BY <2>1, <2>2, <1>2, <1>4, <1>7, ModifiedMoves
  <2>4. /\ u \in Works /\ u.pos = v.pos
        /\ u.closes = Append(v.closes,
                 [reason |-> "PARTIAL_TP1_HIT", lots |-> part, pips |-> gain])
        /\ u.mods = v.mods
    BY <2>3, <1>1, WithCloseOK DEF Moves
  <2>5. NoStopOut(v) => NoStopOut(u)
    <3> HIDE DEF kept, part, q, p, v, u
    <3>1. v.closes \in Seq(CloseEvents)
      BY <2>3 DEF Moves, Works
    <3> QED
      BY <2>4, <3>1 DEF NoStopOut
  <2>6. Moves(u, w, gain)
    <3>1. \A stop \in Int : Told(v, stop) => Told(u, stop)
      BY <2>4 DEF Told
    <3> HIDE DEF kept, part, q, p, v, u
    <3> QED
      BY <2>3, <2>4, <2>5, <3>1 DEF Moves
  <2> QED
    BY <2>6, <1>7 DEF PartialTP
<1> QED
  BY <1>5, <1>6, <1>7

-----------------------------------------------------------------------------
Protected(p, level, k) == [p EXCEPT !.stop = level, !.stage = k, !.breakEven = TRUE]

LEMMA ProtectSet ==
    ASSUME NEW p \in Positions, NEW level \in Int, NEW k \in 0..3
    PROVE  /\ Protected(p, level, k) \in Positions
           /\ Protected(p, level, k).stop = level /\ Protected(p, level, k).stage = k
BY DEF Positions, Protected

LEMMA StageThresholdOK ==
    ASSUME NEW k \in 1..3, NEW atr \in Nat
    PROVE  StageThreshold(k, atr) \in Int /\ StageThreshold(k, atr) >= StageFloor[k]
<1>1. Config.stageMult[k] \in Nat
  BY ConfigOK
<1>2. (atr * Config.stageMult[k]) \div 10 \in Nat
  BY <1>1, ScaledOK
<1>3. StageFloor[k] \in Int
  BY DEF StageFloor
<1> DEFINE a == (atr * Config.stageMult[k]) \div 10
           b == StageFloor[k]
<1>4. StageThreshold(k, atr) = Higher(a, b)
  BY DEF StageThreshold
<1> HIDE DEF a
<1>5. a \in Int
  BY <1>2 DEF a
<1> QED
  BY <1>3, <1>4, <1>5, HigherOK

\* The stage that is due and the level it locks: below the gain, and high enough.
LEMMA LockedGainOK ==
    ASSUME NEW p \in Positions, NEW gain \in Int, NEW atr \in Nat,
           NEW k, k = StageDue(p, gain, atr), k > 0
    PROVE  /\ k \in 1..3 /\ LockedGain(k, gain) \in Int
           /\ BufferBelowStages => LockedGain(k, gain) < gain
           /\ BufferBelowStages => LockedGain(k, gain) >= Config.beBuffer
           /\ k >= 2 => LockedGain(k, gain) >= 350
           /\ k = 3 => LockedGain(k, gain) >= 750
<1>1. k \in 1..3 /\ gain >= StageThreshold(k, atr)
  BY DEF StageDue
<1>2. gain >= StageFloor[k]
  <2>1. StageFloor[k] \in Int
    BY <1>1 DEF StageFloor
  <2> QED
    BY <1>1, <2>1, StageThresholdOK
<1>3. CASE k = 1
  <2>1. LockedGain(k, gain) = Higher(Config.beBuffer, 20) /\ gain >= 300
    BY <1>2, <1>3 DEF LockedGain, StageFloor
  <2> QED
    BY <2>1, <1>3, ConfigOK DEF Higher, BufferBelowStages
<1>4. CASE k = 2
  <2>1. LockedGain(k, gain) = Higher(gain \div 2, 350) /\ gain >= 600
    BY <1>2, <1>4 DEF LockedGain, StageFloor
  <2> QED
    BY <2>1, <1>4, ConfigOK DEF Higher, BufferBelowStages
<1>5. CASE k = 3
  <2>1. LockedGain(k, gain) = Higher((gain * 3) \div 4, 750) /\ gain >= 850
    BY <1>2, <1>5 DEF LockedGain, StageFloor
  <2> QED
    BY <2>1, <1>5, ConfigOK DEF Higher, BufferBelowStages
<1> QED
  BY <1>1, <1>3, <1>4, <1>5

LEMMA ProfitLockMoves ==
    ASSUME NEW w \in Works, NEW gain \in Int, NEW atr \in Nat
    PROVE  Moves(ProfitLock(w, gain, atr), w, gain)
<1> DEFINE p == w.pos
           k == StageDue(p, gain, atr)
           level == LockedGain(k, gain)
           due == k > 0 /\ level > p.stop + StageStep(k)
           q == Protected(p, level, k)
<1>1. p \in Positions /\ p.stop \in Int
  BY DEF Works, Positions
<1>2. CASE ~due
  BY <1>2, MovesSelf DEF ProfitLock
<1>3. CASE due
  <2>1. /\ k \in 1..3 /\ level \in Int
        /\ BufferBelowStages => level < gain
        /\ BufferBelowStages => level >= Config.beBuffer
        /\ k >= 2 => level >= 350
        /\ k = 3 => level >= 750
    BY <1>1, <1>3, LockedGainOK
  <2>2. q \in Positions /\ q.stop = level /\ q.stage = k
    <3>1. k \in 0..3
      BY <2>1
    <3>2. \A l \in Int, n \in 0..3 :
             /\ Protected(p, l, n) \in Positions
             /\ Protected(p, l, n).stop = l /\ Protected(p, l, n).stage = n
      BY <1>1, ProtectSet
    <3> HIDE DEF p, level, k
    <3> QED
      BY <2>1, <3>1, <3>2
  <2>3. q.stop >= p.stop
    BY <1>1, <1>3, <2>1, <2>2 DEF StageStep
  <2>4. BufferBelowStages => StageOK(q)
    <3> HIDE DEF q, level, k, p
    <3> QED
      BY <2>1, <2>2 DEF StageOK
  <2>5. LevelsBehindPrice => q.stop < gain
    BY <2>1, <2>2 DEF LevelsBehindPrice
  <2>6. Moves(Modified(w, q), w, gain)
    <3> HIDE DEF q, level, k, due
    <3> QED
      BY <2>2, <2>3, <2>4, <2>5, ModifiedMoves
  <2> QED
    BY <1>3, <2>6 DEF ProfitLock, Protected
<1> QED
  BY <1>2, <1>3

LEMMA BreakEvenMoves ==
    ASSUME NEW w \in Works, NEW gain \in Int, NEW atr \in Nat
    PROVE  Moves(BreakEven(w, gain, atr), w, gain)
<1> DEFINE p == w.pos
           buffer == BreakEvenBuffer(p.symbol)
           due == ~p.breakEven /\ gain >= BreakEvenAt(p.symbol, atr)
           level == Higher(p.stop, buffer)
           q == Protected(p, level, 1)
<1>1. p \in Positions /\ p.stop \in Int
  BY DEF Works, Positions
<1>2. CASE ~due
  BY <1>2, MovesSelf DEF BreakEven
<1>3. CASE due
  <2>0. (atr * 15) \div 10 \in Nat
    OBVIOUS
  <2>1. buffer \in Int /\ buffer >= Config.beBuffer
        /\ (LevelsBehindPrice => buffer < gain)
    BY <1>3, <2>0, ConfigOK DEF BreakEvenBuffer, BreakEvenAt, Higher, LevelsBehindPrice,
       BufferBelowStages
  <2>2. /\ level \in Int /\ level >= p.stop /\ level >= buffer
        /\ level = p.stop \/ level = buffer
    BY <1>1, <2>1, HigherOK
  <2>3. q \in Positions /\ q.stop = level /\ q.stage = 1
    <3>1. 1 \in 0..3
      OBVIOUS
    <3> HIDE DEF p, level
    <3> QED
      BY <1>1, <2>2, <3>1, ProtectSet
  <2>4. StageOK(q)
    <3> HIDE DEF q, level, buffer, p
    <3> QED
      BY <2>1, <2>2, <2>3, ConfigOK DEF StageOK
  <2>6. Moves(Modified(w, q), w, gain)
    <3> HIDE DEF q, level, buffer, due
    <3> QED
      BY <2>1, <2>2, <2>3, <2>4, ModifiedMoves
  <2>7. q = [p EXCEPT !.stop = Higher(@, buffer), !.breakEven = TRUE, !.stage = 1]
    BY <1>1 DEF Positions, Protected
  <2> QED
    BY <1>3, <2>6, <2>7 DEF BreakEven
<1> QED
  BY <1>2, <1>3

LEMMA ProtectMoves ==
    ASSUME NEW w \in Works, NEW gain \in Int, NEW atr \in Nat
    PROVE  Moves(Protect(w, gain, atr), w, gain)
BY ProfitLockMoves, BreakEvenMoves, MovesSelf DEF Protect

-----------------------------------------------------------------------------
LEMMA TrailDistanceOK ==
    ASSUME NEW sym, NEW atr \in Nat
    PROVE  TrailDistance(sym, atr) \in Int
<1>1. (atr * Config.trailMult) \div 10 \in Nat /\ (atr * 12) \div 10 \in Nat
  BY ConfigOK, ScaledOK
<1> DEFINE a == (atr * Config.trailMult) \div 10
           b == (atr * 12) \div 10
           dist == IF Config.trailATR /\ atr > 0 THEN a ELSE Config.trailPips
<1>2. TrailDistance(sym, atr) = IF sym \in Gold THEN Higher(dist, Higher(b, 150)) ELSE dist
  BY DEF TrailDistance
<1>3. a \in Nat /\ b \in Nat
  BY <1>1
<1> HIDE DEF a, b
<1>4. dist \in Nat
  BY <1>3, ConfigOK
<1> HIDE DEF dist
<1> QED
  BY <1>2, <1>3, <1>4 DEF Higher

LEMMA HwmSet ==
    ASSUME NEW p \in Positions, NEW g \in Int
    PROVE  /\ [p EXCEPT !.hwm = g] \in Positions
           /\ [p EXCEPT !.hwm = g].stop = p.stop /\ [p EXCEPT !.hwm = g].stage = p.stage
           /\ [p EXCEPT !.hwm = g].breakEven = p.breakEven
           /\ [p EXCEPT !.hwm = g].symbol = p.symbol
BY DEF Positions

LEMMA StopSet ==
    ASSUME NEW p \in Positions, NEW level \in Int
    PROVE  /\ [p EXCEPT !.stop = level] \in Positions
           /\ [p EXCEPT !.stop = level].stop = level /\ [p EXCEPT !.stop = level].stage = p.stage
           /\ [p EXCEPT !.stop = level].breakEven = p.breakEven
BY DEF Positions

\* A stop that is only raised leaves what the stages promised.
LEMMA StageOKRaised ==
    ASSUME NEW p \in Positions, NEW q \in Positions, StageOK(p), q.stop >= p.stop,
           q.stage = p.stage, q.breakEven = p.breakEven
    PROVE  StageOK(q)
<1>1. p.stop \in Int /\ q.stop \in Int /\ p.stage \in 0..3
  BY DEF Positions
<1> QED
  BY <1>1, ConfigOK DEF StageOK

LEMMA TrailMoves ==
    ASSUME NEW w \in Works, NEW gain \in Int, NEW atr \in ATRs
    PROVE  Moves(Trail(w, gain, atr), w, gain)
<1> DEFINE p == [w.pos EXCEPT !.hwm = gain]
           dist == TrailDistance(p.symbol, atr)
           level == gain - dist
           q == [p EXCEPT !.stop = level]
           u == [w EXCEPT !.pos = p]
<1>1. /\ w.pos \in Positions /\ p \in Positions /\ p.stop = w.pos.stop
      /\ p.stage = w.pos.stage /\ p.breakEven = w.pos.breakEven /\ p.symbol = w.pos.symbol
      /\ p.stop \in Int
  <2>1. w.pos \in Positions /\ w.pos.stop \in Int
    BY DEF Works, Positions
  <2> QED
    BY <2>1, HwmSet
<1>2. dist \in Int /\ (LevelsBehindPrice => dist > 0)
  <2>1. atr \in Nat /\ p.symbol \in Symbols
    BY <1>1, ConfigOK DEF Positions
  <2> QED
    BY <2>1, TrailDistanceOK DEF LevelsBehindPrice
<1>3. CASE ~Config.trailing \/ gain <= w.pos.hwm
  BY <1>3, MovesSelf DEF Trail
<1>4. CASE ~(~Config.trailing \/ gain <= w.pos.hwm) /\ Trails(p, level)
  <2> HIDE DEF p, dist
  <2>1. q \in Positions /\ q.stop = level /\ q.stage = p.stage /\ q.breakEven = p.breakEven
    BY <1>1, <1>2, StopSet
  <2>2. level > p.stop
    BY <1>1, <1>2, <1>4 DEF Trails, TrailStep
  <2>3. StageOK(w.pos) => StageOK(q)
    <3>1. q.stop >= w.pos.stop
      BY <1>1, <1>2, <2>1, <2>2
    <3> HIDE DEF q
    <3> QED
      BY <1>1, <2>1, <3>1, StageOKRaised
  <2>4. Moves(Modified(w, q), w, gain)
    <3>1. q.stop >= w.pos.stop /\ (LevelsBehindPrice => q.stop < gain)
      BY <1>1, <1>2, <2>1, <2>2
    <3> HIDE DEF q
    <3> QED
      BY <2>1, <2>3, <3>1, ModifiedMoves
  <2> QED
    BY <1>4, <2>4 DEF Trail, p, dist
<1>5. CASE ~(~Config.trailing \/ gain <= w.pos.hwm) /\ ~Trails(p, level)
  <2>1. Trail(w, gain, atr) = u
    BY <1>5 DEF Trail
  <2>2. u \in Works /\ u.pos = p /\ u.closes = w.closes /\ u.mods = w.mods
    <3> HIDE DEF p
    <3> QED
      BY <1>1 DEF Works
  <2>3. StageOK(w.pos) => StageOK(p)
    <3> HIDE DEF p
    <3> QED
      BY <1>1, StageOKRaised
  <2>4. Moves(u, w, gain)
    <3> HIDE DEF p, u
    <3> QED
      BY <1>1, <2>2, <2>3 DEF Moves, NoStopOut, Told
  <2> QED
    BY <2>1, <2>4
<1> QED
  BY <1>3, <1>4, <1>5

\* Everything a tick does to a position before the exit tests.
LEMMA ManagedMoves ==
    ASSUME NEW p \in Positions, NEW gain \in Int, NEW atr \in ATRs
    PROVE  Moves(Managed(p, gain, atr), Work(p), gain)
<1> DEFINE w == Work(p)
           a == PartialTP(w, gain)
           b == Protect(a, gain, atr)
           c == Trail(b, gain, atr)
<1>1. w \in Works /\ atr \in Nat
  BY ConfigOK DEF Work, Works
<1>2. Moves(a, w, gain) /\ a \in Works
  BY <1>1, PartialTPMoves DEF Moves
<1>3. Moves(b, a, gain) /\ b \in Works
  BY <1>1, <1>2, ProtectMoves DEF Moves
<1>4. Moves(c, b, gain)
  BY <1>3, TrailMoves
<1>5. Moves(b, w, gain)
  BY <1>1, <1>2, <1>3, MovesTrans
<1>6. Moves(c, w, gain)
  BY <1>1, <1>4, <1>5, MovesTrans
<1> QED
  BY <1>6 DEF Managed

-----------------------------------------------------------------------------
LEMMA StateSet ==
    ASSUME NEW p \in Positions
    PROVE  /\ [p EXCEPT !.state = "closed"] \in Positions
           /\ [p EXCEPT !.state = "closed"].stop = p.stop
           /\ StageOK(p) => StageOK([p EXCEPT !.state = "closed"])
BY DEF Positions, StageOK

\* What a closing stage does: the levels stay, one event of the gain is added.
Closes(v, w, reason, gain) ==
    /\ v \in Works
    /\ v.pos.stop = w.pos.stop /\ (StageOK(w.pos) => StageOK(v.pos))
    /\ v.mods = w.mods
    /\ \E lots \in Nat :
          v.closes = Append(w.closes, [reason |-> reason, lots |-> lots, pips |-> gain])

LEMMA ClosedOK ==
    ASSUME NEW w \in Works, NEW gain \in Int,
           NEW reason \in {"TIME_STOP_HIT", "SL_HIT", "TP_HIT", "TP2_HIT"}
    PROVE  Closes(Closed(w, reason, gain), w, reason, gain)
<1> DEFINE p == [w.pos EXCEPT !.state = "closed"]
           v == [w EXCEPT !.pos = p]
           u == WithClose(v, reason, w.pos.remaining, gain)
<1>1. w.pos \in Positions /\ w.pos.remaining \in Nat
  BY DEF Works, Positions
<1>2. p \in Positions /\ p.stop = w.pos.stop /\ (StageOK(w.pos) => StageOK(p))
  BY <1>1, StateSet
<1>3. v \in Works /\ v.pos = p /\ v.closes = w.closes /\ v.mods = w.mods
  <2> HIDE DEF p
  <2> QED
    BY <1>2 DEF Works
<1>4. /\ u \in Works /\ u.pos = v.pos /\ u.mods = v.mods
      /\ u.closes = Append(v.closes,
               [reason |-> reason, lots |-> w.pos.remaining, pips |-> gain])
  <2> DEFINE n == w.pos.remaining
  <2>1. n \in Nat /\ v \in Works
    BY <1>1, <1>3
  <2> HIDE DEF v, n
  <2>2. /\ WithClose(v, reason, n, gain) \in Works
        /\ WithClose(v, reason, n, gain).pos = v.pos
        /\ WithClose(v, reason, n, gain).mods = v.mods
        /\ WithClose(v, reason, n, gain).closes =
              Append(v.closes, [reason |-> reason, lots |-> n, pips |-> gain])
    <3>1. reason \in {"PARTIAL_TP1_HIT", "TIME_STOP_HIT", "SL_HIT", "TP_HIT", "TP2_HIT"}
      OBVIOUS
    <3> QED
      BY <2>1, <3>1, WithCloseOK
  <2> QED
    BY <2>2 DEF n
<1>5. Closed(w, reason, gain) = u
  BY DEF Closed
<1>6. Closes(u, w, reason, gain)
  <2> HIDE DEF p, v, u
  <2> QED
    BY <1>1, <1>2, <1>3, <1>4 DEF Closes
<1> QED
  BY <1>5, <1>6

\* A tick's work on a position, whatever its branches: the stop never falls, the
\* stages keep their floors, and a stop-out is at the stop that was there before.
TickOK(v, p) ==
    /\ v \in Works
    /\ v.pos.stop >= p.stop
    /\ BufferBelowStages /\ StageOK(p) => StageOK(v.pos)
    /\ Told(v, p.stop)
    /\ LevelsBehindPrice =>
         \A i \in 1..Len(v.closes) : v.closes[i].reason = "SL_HIT" => v.closes[i].pips <= p.stop

LEMMA WorkTold ==
    ASSUME NEW p \in Positions
    PROVE  Told(Work(p), p.stop)
BY DEF Told, Work

LEMMA ClosesTickOK ==
    ASSUME NEW p \in Positions, NEW w \in Works, NEW v, NEW gain \in Int,
           NEW reason \in {"TIME_STOP_HIT", "SL_HIT", "TP_HIT", "TP2_HIT"},
           Moves(w, Work(p), gain), Closes(v, w, reason, gain),
           reason = "SL_HIT" => gain <= w.pos.stop
    PROVE  TickOK(v, p)
<1>1. NoStopOut(w) /\ Work(p).pos = p
  BY DEF Moves, NoStopOut, Work
<1>2. p.stop \in Int /\ w.pos.stop \in Int /\ w.closes \in Seq(CloseEvents)
  BY DEF Works, Positions
<1>3. ASSUME LevelsBehindPrice, NEW i \in 1..Len(v.closes), v.closes[i].reason = "SL_HIT"
      PROVE  v.closes[i].pips <= p.stop
  <2>1. PICK lots \in Nat :
           v.closes = Append(w.closes, [reason |-> reason, lots |-> lots, pips |-> gain])
    BY DEF Closes
  <2>2. i = Len(w.closes) + 1
    BY <1>1, <1>2, <1>3, <2>1 DEF NoStopOut
  <2>3. v.closes[i] = [reason |-> reason, lots |-> lots, pips |-> gain]
    BY <1>2, <2>1, <2>2
  <2>4. w.pos.stop = p.stop \/ w.pos.stop < gain
    BY <1>1, <1>3 DEF Moves
  <2> QED
    BY <1>2, <1>3, <2>3, <2>4
<1>4. v \in Works /\ v.pos.stop >= p.stop
  BY <1>1, <1>2 DEF Closes, Moves
<1>5. BufferBelowStages /\ StageOK(p) => StageOK(v.pos)
  BY <1>1 DEF Closes, Moves
<1>6. Told(v, p.stop)
  <2>1. Told(w, p.stop)
    BY <1>2, WorkTold DEF Moves
  <2> QED
    BY <2>1 DEF Closes, Told
<1> QED
  BY <1>3, <1>4, <1>5, <1>6 DEF TickOK

LEMMA MovesTickOK ==
    ASSUME NEW p \in Positions, NEW w, NEW gain \in Int, Moves(w, Work(p), gain)
    PROVE  TickOK(w, p)
<1>1. NoStopOut(Work(p)) /\ Work(p).pos = p
  BY DEF NoStopOut, Work
<1>2. NoStopOut(w)
  BY <1>1 DEF Moves
<1>3. w \in Works /\ w.pos.stop >= p.stop
  BY <1>1 DEF Moves
<1>4. BufferBelowStages /\ StageOK(p) => StageOK(w.pos)
  BY <1>1 DEF Moves
<1>5. \A i \in 1..Len(w.closes) : w.closes[i].reason # "SL_HIT"
  BY <1>2 DEF NoStopOut
<1>6. \A i \in 1..Len(w.closes) : w.closes[i].reason = "SL_HIT" => w.closes[i].pips <= p.stop
  BY <1>5
<1>7. Told(w, p.stop)
  <2>1. p.stop \in Int
    BY DEF Positions
  <2> QED
    BY <2>1, WorkTold DEF Moves
<1> QED
  BY <1>3, <1>4, <1>6, <1>7 DEF TickOK

LEMMA AfterTickOK ==
    ASSUME NEW p \in Positions, NEW gain \in Int, NEW atr \in ATRs, NEW late
    PROVE  TickOK(AfterTick(p, gain, atr, late), p)
<1> DEFINE w == Managed(p, gain, atr)
<1>1. Work(p) \in Works /\ Moves(Work(p), Work(p), gain)
  <2>1. Work(p) \in Works
    BY DEF Work, Works
  <2> QED
    BY <2>1, MovesSelf
<1>2. Moves(w, Work(p), gain) /\ w \in Works
  BY ManagedMoves DEF Moves
<1>3. CASE Config.timeStop /\ late
  <2>1. Closes(Closed(Work(p), "TIME_STOP_HIT", gain), Work(p), "TIME_STOP_HIT", gain)
    BY <1>1, ClosedOK
  <2>2. TickOK(Closed(Work(p), "TIME_STOP_HIT", gain), p)
    BY <1>1, <2>1, ClosesTickOK
  <2> QED
    BY <1>3, <2>2 DEF AfterTick
<1>4. CASE ~(Config.timeStop /\ late)
  <2> HIDE DEF w
  <2>1. TickOK(w, p)
    BY <1>2, MovesTickOK
  <2>2. TickOK(Closed(w, "TP_HIT", gain), p)
    <3>1. Closes(Closed(w, "TP_HIT", gain), w, "TP_HIT", gain)
      BY <1>2, ClosedOK
    <3> QED
      BY <1>2, <3>1, ClosesTickOK
  <2>3. TickOK(Closed(w, "TP2_HIT", gain), p)
    <3>1. Closes(Closed(w, "TP2_HIT", gain), w, "TP2_HIT", gain)
      BY <1>2, ClosedOK
    <3> QED
      BY <1>2, <3>1, ClosesTickOK
  <2>4. ASSUME gain <= w.pos.stop
        PROVE  TickOK(Closed(w, "SL_HIT", gain), p)
    <3>1. Closes(Closed(w, "SL_HIT", gain), w, "SL_HIT", gain)
      BY <1>2, ClosedOK
    <3> QED
      BY <1>2, <2>4, <3>1, ClosesTickOK
  <2>5. TickOK(Exit(w, gain), p)
    BY <2>1, <2>2, <2>3, <2>4 DEF Exit
  <2> QED
    BY <1>4, <2>5 DEF AfterTick, w
<1> QED
  BY <1>3, <1>4

-----------------------------------------------------------------------------
(* What a tick closes: of a position at most one part, then at most the rest. *)

LEMMA LotsNone == LotsOf(<<>>) = 0
<1> DEFINE Good(f) == f = [i \in 0..Len(<<>>) |-> IF i = 0 THEN 0 ELSE f[i - 1] + <<>>[i].lots]
           g == [i \in 0..0 |-> 0]
<1>1. Good(g)
  OBVIOUS
<1>2. Good(CHOOSE f : Good(f))
  BY <1>1
<1>3. LotsOf(<<>>) = (CHOOSE f : Good(f))[Len(<<>>)]
  BY DEF LotsOf
<1> QED
  BY <1>2, <1>3

LEMMA LotsOne ==
    ASSUME NEW a, a.lots \in Nat
    PROVE  LotsOf(<<a>>) = a.lots
<1> DEFINE Good(f) == f = [i \in 0..Len(<<a>>) |-> IF i = 0 THEN 0 ELSE f[i - 1] + <<a>>[i].lots]
           g == [i \in 0..1 |-> IF i = 0 THEN 0 ELSE a.lots]
           f == CHOOSE f : Good(f)
<1>1. Good(g)
  <2>1. Len(<<a>>) = 1 /\ <<a>>[1] = a
    OBVIOUS
  <2>2. \A i \in 0..1 : i # 0 => g[i] = g[i - 1] + <<a>>[i].lots
    BY <2>1
  <2> QED
    BY <2>1, <2>2
<1>2. LotsOf(<<a>>) = f[1]
  BY DEF LotsOf
<1> HIDE DEF g
<1>3. f = [i \in 0..1 |-> IF i = 0 THEN 0 ELSE f[i - 1] + <<a>>[i].lots]
  BY <1>1
<1> HIDE DEF f
<1> QED
  BY <1>2, <1>3

LEMMA LotsTwo ==
    ASSUME NEW a, NEW b, a.lots \in Nat, b.lots \in Nat
    PROVE  LotsOf(<<a, b>>) = a.lots + b.lots
<1> DEFINE s == <<a, b>>
           Good(f) == f = [i \in 0..Len(s) |-> IF i = 0 THEN 0 ELSE f[i - 1] + s[i].lots]
           g == [i \in 0..2 |-> IF i = 0 THEN 0 ELSE IF i = 1 THEN a.lots ELSE a.lots + b.lots]
           f == CHOOSE f : Good(f)
<1>1. Len(s) = 2 /\ s[1] = a /\ s[2] = b
  OBVIOUS
<1>2. LotsOf(s) = f[Len(s)]
  BY DEF LotsOf
<1> HIDE DEF s
<1>3. Good(g)
  <2>1. \A i \in 0..2 : i # 0 => g[i] = g[i - 1] + s[i].lots
    BY <1>1
  <2> QED
    BY <1>1, <2>1
<1> HIDE DEF g
<1>4. f = [i \in 0..2 |-> IF i = 0 THEN 0 ELSE f[i - 1] + s[i].lots]
  BY <1>1, <1>3
<1> HIDE DEF f
<1>5. f[2] = f[1] + b.lots /\ f[1] = f[0] + a.lots /\ f[0] = 0
  BY <1>1, <1>4
<1>6. LotsOf(s) = a.lots + b.lots
  BY <1>1, <1>2, <1>5
<1> QED
  BY <1>6 DEF s

LEMMA AppendPair ==
    ASSUME NEW S, NEW d \in S, NEW e \in S
    PROVE  Append(<<d>>, e) = <<d, e>>
<1> DEFINE s == Append(<<d>>, e)
           t == <<d, e>>
<1>1. s \in Seq(S) /\ t \in Seq(S)
  OBVIOUS
<1>2. Len(s) = 2 /\ Len(t) = 2 /\ s[1] = d /\ s[2] = e
  OBVIOUS
<1>3. \A i \in 1..2 : s[i] = t[i]
  BY <1>2
<1> HIDE DEF s, t
<1>4. s = t
  BY <1>1, <1>2, <1>3, SeqEqual
<1> QED
  BY <1>4 DEF s, t

PartEvent(e)  == e \in CloseEvents /\ e.reason = "PARTIAL_TP1_HIT"
WholeEvent(e) == e \in CloseEvents /\ e.reason # "PARTIAL_TP1_HIT"

\* The work w on position p has closed nothing or a part, and accounts for the rest.
Kept(w, p) ==
    \/ w.closes = <<>> /\ w.pos.remaining = p.remaining
    \/ \E e : PartEvent(e) /\ w.closes = <<e>> /\ p.remaining = e.lots + w.pos.remaining

\* The same at the end of the tick, when the rest may have been closed too.
Accounted(w, p) ==
    \/ Kept(w, p)
    \/ \E e : WholeEvent(e) /\ w.closes = <<e>> /\ p.remaining = e.lots
    \/ \E d, e : /\ PartEvent(d) /\ WholeEvent(e)
                 /\ w.closes = <<d, e>> /\ p.remaining = d.lots + e.lots

\* A stage that leaves the lots alone.
Same(v, w) == v.closes = w.closes /\ v.pos.remaining = w.pos.remaining

LEMMA ModifiedSame ==
    ASSUME NEW w \in Works, NEW p, DOMAIN p = DOMAIN w.pos
    PROVE  /\ Modified(w, p).closes = w.closes
           /\ Modified(w, p).pos.remaining = p.remaining
<1>1. "remaining" \in DOMAIN p
  BY DEF Works, Positions
<1>2. [p EXCEPT !.state = "modified"].remaining = p.remaining
  BY <1>1
<1> QED
  BY <1>2 DEF Modified, Works

LEMMA ProtectSame ==
    ASSUME NEW w \in Works, NEW gain, NEW atr
    PROVE  Same(Protect(w, gain, atr), w)
<1>1. \A level, k : /\ DOMAIN [w.pos EXCEPT !.stop = level, !.stage = k, !.breakEven = TRUE] = DOMAIN w.pos
                    /\ [w.pos EXCEPT !.stop = level, !.stage = k, !.breakEven = TRUE].remaining
                          = w.pos.remaining
                    /\ DOMAIN [w.pos EXCEPT !.stop = level, !.breakEven = TRUE, !.stage = k] = DOMAIN w.pos
                    /\ [w.pos EXCEPT !.stop = level, !.breakEven = TRUE, !.stage = k].remaining
                          = w.pos.remaining
  BY DEF Works, Positions
<1>2. ASSUME NEW level, NEW k
      PROVE  /\ Same(Modified(w, [w.pos EXCEPT !.stop = level, !.stage = k, !.breakEven = TRUE]), w)
             /\ Same(Modified(w, [w.pos EXCEPT !.stop = level, !.breakEven = TRUE, !.stage = k]), w)
  <2> DEFINE q == [w.pos EXCEPT !.stop = level, !.stage = k, !.breakEven = TRUE]
             r == [w.pos EXCEPT !.stop = level, !.breakEven = TRUE, !.stage = k]
  <2>1. /\ DOMAIN q = DOMAIN w.pos /\ q.remaining = w.pos.remaining
        /\ DOMAIN r = DOMAIN w.pos /\ r.remaining = w.pos.remaining
    BY <1>1
  <2> HIDE DEF q, r
  <2>2. Same(Modified(w, q), w) /\ Same(Modified(w, r), w)
    BY <2>1, ModifiedSame DEF Same
  <2> QED
    BY <2>2 DEF q, r
<1>3. Same(ProfitLock(w, gain, atr), w)
  <2>1. \A level, k :
           Same(Modified(w, [w.pos EXCEPT !.stop = level, !.stage = k, !.breakEven = TRUE]), w)
    BY <1>2
  <2>2. Same(w, w)
    BY DEF Same
  <2> QED
    BY <2>1, <2>2, Zenon DEF ProfitLock
<1>4. Same(BreakEven(w, gain, atr), w)
  <2>1. \A level, k :
           Same(Modified(w, [w.pos EXCEPT !.stop = level, !.breakEven = TRUE, !.stage = k]), w)
    BY <1>2
  <2>2. Same(w, w)
    BY DEF Same
  <2> QED
    BY <2>1, <2>2, Zenon DEF BreakEven
<1> QED
  BY <1>3, <1>4 DEF Protect, Same

LEMMA TrailSame ==
    ASSUME NEW w \in Works, NEW gain, NEW atr
    PROVE  Same(Trail(w, gain, atr), w)
<1> DEFINE p == [w.pos EXCEPT !.hwm = gain]
           level == gain - TrailDistance(p.symbol, atr)
           q == [p EXCEPT !.stop = level]
<1>1. /\ DOMAIN p = DOMAIN w.pos /\ p.remaining = w.pos.remaining
      /\ DOMAIN q = DOMAIN w.pos /\ q.remaining = w.pos.remaining
  BY DEF Works, Positions
<1>2. Same(Modified(w, q), w)
  <2> HIDE DEF q
  <2> QED
    BY <1>1, ModifiedSame DEF Same
<1>3. Same([w EXCEPT !.pos = p], w)
  BY <1>1 DEF Same, Works
<1> QED
  BY <1>2, <1>3 DEF Trail, Same

LEMMA PartialTPKept ==
    ASSUME NEW p \in Positions, NEW gain \in Int
    PROVE  Kept(PartialTP(Work(p), gain), p)
<1> DEFINE w == Work(p)
           part == PartialLots(p)
           kept == [p EXCEPT !.partialDone = TRUE, !.breakEven = TRUE,
                             !.stop = Higher(@, PartialBuffer(p))]
           q == [kept EXCEPT !.stage = 1]
           r == [kept EXCEPT !.remaining = @ - part]
           u == WithClose(Modified(w, r), "PARTIAL_TP1_HIT", part, gain)
<1>1. w \in Works /\ w.pos = p /\ w.closes = <<>> /\ p.remaining \in Nat /\ p.lots \in Nat
  BY DEF Work, Works, Positions
<1>2. part \in Nat
  <2>1. p.lots * Config.ratio \in Nat
    BY <1>1, ConfigOK
  <2> QED
    BY <2>1 DEF PartialLots
<1>3. DOMAIN kept = DOMAIN p /\ kept.remaining = p.remaining
  BY DEF Positions
<1>4. /\ DOMAIN q = DOMAIN p /\ q.remaining = p.remaining
      /\ DOMAIN r = DOMAIN p /\ r.remaining = p.remaining - part
  <2>1. "remaining" \in DOMAIN kept /\ "stage" \in DOMAIN kept
    BY <1>3 DEF Positions
  <2> HIDE DEF kept, part
  <2> QED
    BY <1>3, <2>1
<1>5. CASE ~PartialDue(p, gain) \/ part >= p.remaining
  BY <1>1, <1>5 DEF PartialTP, Kept
<1>6. CASE ~(~PartialDue(p, gain) \/ part >= p.remaining) /\ part = 0
  <2>1. Kept(Modified(w, q), p)
    <3> HIDE DEF q, w
    <3> QED
      BY <1>1, <1>4, ModifiedSame DEF Kept
  <2> QED
    BY <1>1, <1>6, <2>1 DEF PartialTP
<1>7. CASE ~(~PartialDue(p, gain) \/ part >= p.remaining) /\ part # 0
  <2> DEFINE e == [reason |-> "PARTIAL_TP1_HIT", lots |-> part, pips |-> gain]
             v == Modified(w, r)
  <2>1. v.closes = <<>> /\ v.pos.remaining = p.remaining - part
    <3> HIDE DEF r, w, part
    <3> QED
      BY <1>1, <1>4, ModifiedSame
  <2>2. PartEvent(e) /\ e.lots = part
    BY <1>2 DEF PartEvent, CloseEvents
  <2>3. u.closes = Append(v.closes, e) /\ u.pos = v.pos
    BY DEF WithClose, Modified, Work
  <2>4. p.remaining = e.lots + u.pos.remaining /\ u.closes = <<e>>
    <3> HIDE DEF e, v, u, part
    <3> QED
      BY <1>1, <1>2, <1>7, <2>1, <2>2, <2>3
  <2>5. Kept(u, p)
    <3> HIDE DEF e, v, u, part
    <3> QED
      BY <2>2, <2>4 DEF Kept
  <2> QED
    BY <1>1, <1>7, <2>5 DEF PartialTP
<1> QED
  BY <1>5, <1>6, <1>7

LEMMA ManagedKept ==
    ASSUME NEW p \in Positions, NEW gain \in Int, NEW atr \in ATRs
    PROVE  Kept(Managed(p, gain, atr), p)
<1> DEFINE w == Work(p)
           a == PartialTP(w, gain)
           b == Protect(a, gain, atr)
           c == Trail(b, gain, atr)
<1>1. w \in Works /\ atr \in Nat
  BY ConfigOK DEF Work, Works
<1>2. a \in Works /\ Kept(a, p)
  BY <1>1, PartialTPMoves, PartialTPKept DEF Moves
<1>3. b \in Works
  BY <1>1, <1>2, ProtectMoves DEF Moves
<1>4. Same(b, a) /\ Same(c, b)
  BY <1>2, <1>3, ProtectSame, TrailSame
<1>5. Kept(c, p)
  <2> HIDE DEF a, b, c
  <2> QED
    BY <1>2, <1>4 DEF Kept, Same
<1> QED
  BY <1>5 DEF Managed

\* Closing what remains settles the position.
LEMMA ClosedAccounted ==
    ASSUME NEW p \in Positions, NEW w \in Works, NEW gain \in Int, Kept(w, p),
           NEW reason \in {"TIME_STOP_HIT", "SL_HIT", "TP_HIT", "TP2_HIT"}
    PROVE  Accounted(Closed(w, reason, gain), p)
<1> DEFINE e == [reason |-> reason, lots |-> w.pos.remaining, pips |-> gain]
           u == Closed(w, reason, gain)
<1>1. w.pos.remaining \in Nat
  BY DEF Works, Positions
<1>2. WholeEvent(e) /\ e.lots = w.pos.remaining
  BY <1>1 DEF WholeEvent, CloseEvents
<1>3. u.closes = Append(w.closes, e)
  BY DEF Closed, WithClose, Works
<1> HIDE DEF e, u
<1>4. CASE w.closes = <<>> /\ w.pos.remaining = p.remaining
  <2>1. u.closes = <<e>>
    BY <1>3, <1>4
  <2> QED
    BY <1>2, <1>4, <2>1 DEF Accounted, u
<1>5. ASSUME NEW d, PartEvent(d), w.closes = <<d>>, p.remaining = d.lots + w.pos.remaining
      PROVE  Accounted(u, p)
  <2>1. Append(<<d>>, e) = <<d, e>>
    <3>1. d \in CloseEvents /\ e \in CloseEvents
      BY <1>2, <1>5 DEF PartEvent, WholeEvent
    <3> QED
      BY <3>1, AppendPair
  <2>2. u.closes = <<d, e>>
    BY <1>3, <1>5, <2>1
  <2> QED
    BY <1>2, <1>5, <2>2 DEF Accounted
<1> QED
  BY <1>4, <1>5 DEF Kept, u

LEMMA AfterTickAccounted ==
    ASSUME NEW p \in Positions, NEW gain \in Int, NEW atr \in ATRs, NEW late
    PROVE  Accounted(AfterTick(p, gain, atr, late), p)
<1> DEFINE w == Managed(p, gain, atr)
<1>1. Work(p) \in Works /\ Kept(Work(p), p)
  BY DEF Work, Works, Kept
<1>2. w \in Works /\ Kept(w, p)
  BY ManagedMoves, ManagedKept DEF Moves
<1>3. Accounted(Closed(Work(p), "TIME_STOP_HIT", gain), p)
  BY <1>1, ClosedAccounted
<1> HIDE DEF w
<1>4. /\ Accounted(Closed(w, "SL_HIT", gain), p) /\ Accounted(Closed(w, "TP_HIT", gain), p)
      /\ Accounted(Closed(w, "TP2_HIT", gain), p) /\ Accounted(w, p)
  BY <1>2, ClosedAccounted DEF Accounted
<1>5. Accounted(Exit(w, gain), p)
  BY <1>4 DEF Exit
<1> QED
  BY <1>3, <1>5 DEF AfterTick, w

-----------------------------------------------------------------------------
(* OnTick, and the books of whoever settles its close events.                *)

Whole(w) == \E i \in 1..Len(w.closes) : w.closes[i].reason # "PARTIAL_TP1_HIT"

\* What a tick does to position id: the work w done on it is queued and counted.
Ticked(id, w) ==
    /\ closes'[id] = w.closes
    /\ modifications'[id] = modifications[id] \o w.mods
    /\ positions'[id] = IF Config.autoRemove /\ Whole(w) THEN Untracked ELSE w.pos
    /\ \/ /\ positions[id] \in Positions \ {Untracked} /\ w \in Works
          /\ Told(w, positions[id].stop) /\ Accounted(w, positions[id])
       \/ w = Work(positions[id])

LEMMA OnTickEffect ==
    ASSUME positions \in [Ids -> Positions \cup {Untracked}],
           NEW sym \in Symbols, NEW gain \in [Ids -> Gains], NEW atr \in ATRs, NEW late,
           OnTick(sym, gain, atr, late)
    PROVE  /\ \A id \in Ids : \E w : Ticked(id, w)
           /\ positions' = [id \in Ids |-> positions'[id]]
           /\ modifications' = [id \in Ids |-> modifications'[id]]
           /\ closes' = [id \in Ids |-> closes'[id]]
<1> DEFINE after == [id \in Ids |->
              IF positions[id] # Untracked /\ positions[id].symbol = sym
              THEN AfterTick(positions[id], gain[id], atr, id \in late)
              ELSE Work(positions[id])]
<1>1. /\ positions' = [id \in Ids |-> positions'[id]]
      /\ modifications' = [id \in Ids |-> modifications'[id]]
      /\ closes' = [id \in Ids |-> closes'[id]]
  BY DEF OnTick
<1>2. \A id \in Ids : /\ closes'[id] = after[id].closes
                      /\ modifications'[id] = modifications[id] \o after[id].mods
                      /\ positions'[id] = IF Config.autoRemove /\ Whole(after[id])
                                          THEN Untracked ELSE after[id].pos
  BY DEF OnTick, Whole
<1>3. ASSUME NEW id \in Ids
      PROVE  \/ /\ positions[id] \in Positions \ {Untracked} /\ after[id] \in Works
                /\ Told(after[id], positions[id].stop) /\ Accounted(after[id], positions[id])
             \/ after[id] = Work(positions[id])
  <2>1. CASE positions[id] # Untracked /\ positions[id].symbol = sym
    <3>1. positions[id] \in Positions
      BY <2>1
    <3>2. gain[id] \in Int
      BY ConfigOK
    <3> DEFINE w == AfterTick(positions[id], gain[id], atr, id \in late)
    <3>3. TickOK(w, positions[id]) /\ Accounted(w, positions[id])
      BY <3>1, <3>2, AfterTickOK, AfterTickAccounted
    <3>4. after[id] = w
      BY <2>1
    <3> HIDE DEF w, after
    <3> QED
      BY <2>1, <3>1, <3>3, <3>4 DEF TickOK
  <2>2. CASE ~(positions[id] # Untracked /\ positions[id].symbol = sym)
    BY <2>2
  <2> QED
    BY <2>1, <2>2
<1> HIDE DEF after
<1>4. \A id \in Ids : Ticked(id, after[id])
  BY <1>2, <1>3 DEF Ticked
<1> QED
  BY <1>1, <1>4

\* The tracker drops a position it has closed, as in paper mode (main.go) and in every
\* backtest (cmd/backtest/main.go).
RemovesClosed == Config.autoRemove

RestOf(p) == IF p = Untracked THEN 0 ELSE p.remaining

\* Who settles the close events of a position p (or of one that is gone) holds these
\* lots of it: what the events close and the rest.
Booked(events, p, held) ==
    \/ events = <<>> /\ held = RestOf(p)
    \/ /\ p # Untracked
       /\ \E e : PartEvent(e) /\ events = <<e>> /\ held = e.lots + RestOf(p)
    \/ /\ p = Untracked
       /\ \/ \E e : WholeEvent(e) /\ events = <<e>> /\ held = e.lots
          \/ \E d, e : /\ PartEvent(d) /\ WholeEvent(e)
                       /\ events = <<d, e>> /\ held = d.lots + e.lots

\* There is something left to hold.
Live(events, p) == p # Untracked \/ events # <<>>

LEMMA EventLots ==
    ASSUME NEW e, PartEvent(e) \/ WholeEvent(e)
    PROVE  e \in CloseEvents /\ e.lots \in Nat
BY DEF PartEvent, WholeEvent, CloseEvents

LEMMA WholeLast ==
    /\ \A w : w.closes = <<>> => ~Whole(w)
    /\ \A w, e : w.closes = <<e>> /\ PartEvent(e) => ~Whole(w)
    /\ \A w, e : w.closes = <<e>> /\ WholeEvent(e) => Whole(w)
    /\ \A w, d, e : w.closes = <<d, e>> /\ WholeEvent(e) => Whole(w)
<1>1. \A d, e : Len(<<>>) = 0 /\ Len(<<d>>) = 1 /\ <<d>>[1] = d
                /\ Len(<<d, e>>) = 2 /\ <<d, e>>[2] = e
  OBVIOUS
<1>2. 1 \in 1..1 /\ 2 \in 1..2 /\ 1..0 = {} /\ 1..1 = {1}
  OBVIOUS
<1>3. ASSUME NEW w, w.closes = <<>>
      PROVE  ~Whole(w)
  BY <1>1, <1>2, <1>3 DEF Whole
<1>4. ASSUME NEW w, NEW e, w.closes = <<e>>, PartEvent(e)
      PROVE  ~Whole(w)
  BY <1>1, <1>2, <1>4 DEF Whole, PartEvent
<1>5. ASSUME NEW w, NEW e, w.closes = <<e>>, WholeEvent(e)
      PROVE  Whole(w)
  <2>1. 1 \in 1..Len(w.closes) /\ w.closes[1] = e
    BY <1>1, <1>2, <1>5
  <2> QED
    BY <1>5, <2>1 DEF Whole, WholeEvent
<1>6. ASSUME NEW w, NEW d, NEW e, w.closes = <<d, e>>, WholeEvent(e)
      PROVE  Whole(w)
  <2>1. 2 \in 1..Len(w.closes) /\ w.closes[2] = e
    BY <1>1, <1>2, <1>6
  <2> QED
    BY <1>6, <2>1 DEF Whole, WholeEvent
<1> QED
  BY <1>3, <1>4, <1>5, <1>6

LEMMA TailOne == \A d : Head(<<d>>) = d /\ Tail(<<d>>) = <<>>
OBVIOUS

LEMMA TailTwo ==
    ASSUME NEW S, NEW d \in S, NEW e \in S
    PROVE  Head(<<d, e>>) = d /\ Tail(<<d, e>>) = <<e>>
<1> DEFINE s == Tail(<<d, e>>)
           t == <<e>>
<1>1. s \in Seq(S) /\ t \in Seq(S) /\ Len(s) = 1 /\ Len(t) = 1 /\ s[1] = e /\ t[1] = e
  OBVIOUS
<1> HIDE DEF s, t
<1>2. s = t
  BY <1>1, SeqEqual
<1> QED
  BY <1>2 DEF s, t


LEMMA RestOfOK ==
    ASSUME NEW p \in Positions \cup {Untracked}
    PROVE  RestOf(p) \in Nat
BY DEF RestOf, Positions

LEMMA BookedTick ==
    ASSUME RemovesClosed, NEW p \in Positions \cup {Untracked}, NEW w, NEW held,
           Booked(<<>>, p, held),
           \/ p \in Positions \ {Untracked} /\ w \in Works /\ Accounted(w, p)
           \/ w = Work(p)
    PROVE  /\ Booked(w.closes, IF Config.autoRemove /\ Whole(w) THEN Untracked ELSE w.pos, held)
           /\ Live(w.closes, IF Config.autoRemove /\ Whole(w) THEN Untracked ELSE w.pos)
                <=> p # Untracked
<1> DEFINE q == IF Config.autoRemove /\ Whole(w) THEN Untracked ELSE w.pos
<1>1. held = RestOf(p)
  <2>1. \A d, e : <<d>> # <<>> /\ <<d, e>> # <<>>
    OBVIOUS
  <2> QED
    BY <2>1 DEF Booked
<1>2. CASE p \in Positions \ {Untracked} /\ w \in Works /\ Accounted(w, p)
  <2>1. RestOf(p) = p.remaining /\ w.pos \in Positions /\ w.pos # Untracked
    BY <1>2, TrackerAssumption DEF TrackerAssumption, RestOf, Works
  <2>2. /\ Whole(w) => q = Untracked
        /\ ~Whole(w) => q # Untracked /\ RestOf(q) = w.pos.remaining
    BY <2>1 DEF RemovesClosed, RestOf
  <2>3. ASSUME w.closes = <<>>, w.pos.remaining = p.remaining
        PROVE  Booked(w.closes, q, held) /\ (Live(w.closes, q) <=> p # Untracked)
    <3>1. ~Whole(w)
      BY <2>3, WholeLast
    <3> HIDE DEF q
    <3> QED
      BY <1>1, <1>2, <2>1, <2>2, <2>3, <3>1 DEF Booked, Live
  <2>4. ASSUME NEW e, PartEvent(e), w.closes = <<e>>, p.remaining = e.lots + w.pos.remaining
        PROVE  Booked(w.closes, q, held) /\ (Live(w.closes, q) <=> p # Untracked)
    <3>1. ~Whole(w)
      BY <2>4, WholeLast
    <3> HIDE DEF q
    <3> QED
      BY <1>1, <1>2, <2>1, <2>2, <2>4, <3>1 DEF Booked, Live
  <2>5. ASSUME NEW e, WholeEvent(e), w.closes = <<e>>, p.remaining = e.lots
        PROVE  Booked(w.closes, q, held) /\ (Live(w.closes, q) <=> p # Untracked)
    <3>1. Whole(w) /\ w.closes # <<>>
      BY <2>5, WholeLast
    <3> HIDE DEF q
    <3> QED
      BY <1>1, <1>2, <2>1, <2>2, <2>5, <3>1 DEF Booked, Live
  <2>6. ASSUME NEW d, NEW e, PartEvent(d), WholeEvent(e), w.closes = <<d, e>>,
               p.remaining = d.lots + e.lots
        PROVE  Booked(w.closes, q, held) /\ (Live(w.closes, q) <=> p # Untracked)
    <3>1. Whole(w) /\ w.closes # <<>>
      BY <2>6, WholeLast
    <3> HIDE DEF q
    <3> QED
      BY <1>1, <1>2, <2>1, <2>2, <2>6, <3>1 DEF Booked, Live
  <2> QED
    BY <1>2, <2>3, <2>4, <2>5, <2>6 DEF Accounted, Kept
<1>3. CASE w = Work(p)
  <2>1. w.closes = <<>> /\ w.pos = p /\ ~Whole(w)
    BY <1>3, WholeLast DEF Work
  <2> QED
    BY <1>1, <2>1 DEF Booked, Live
<1> QED
  BY <1>2, <1>3

LEMMA BookedSettle ==
    ASSUME NEW p \in Positions \cup {Untracked}, NEW events, NEW held,
           Booked(events, p, held), events # <<>>
    PROVE  /\ Head(events) \in CloseEvents
           /\ Head(events).reason = "PARTIAL_TP1_HIT" =>
                 /\ held - Head(events).lots \in Nat
                 /\ Booked(Tail(events), p, held - Head(events).lots)
                 /\ Live(Tail(events), p)
           /\ Head(events).reason # "PARTIAL_TP1_HIT" =>
                 Booked(Tail(events), p, 0) /\ ~Live(Tail(events), p)
<1> DEFINE first == Head(events)
           rest == Tail(events)
           Goal == /\ first \in CloseEvents
                   /\ first.reason = "PARTIAL_TP1_HIT" =>
                         /\ held - first.lots \in Nat
                         /\ Booked(rest, p, held - first.lots) /\ Live(rest, p)
                   /\ first.reason # "PARTIAL_TP1_HIT" => Booked(rest, p, 0) /\ ~Live(rest, p)
<1>1. RestOf(p) \in Nat
  BY RestOfOK
<1>2. ASSUME NEW e, PartEvent(e), events = <<e>>, held = e.lots + RestOf(p), p # Untracked
      PROVE  Goal
  <2>1. first = e /\ rest = <<>> /\ e.lots \in Nat /\ e \in CloseEvents
    BY <1>2, TailOne, EventLots
  <2>2. held - e.lots = RestOf(p)
    BY <1>1, <1>2, <2>1
  <2> HIDE DEF first, rest
  <2> QED
    BY <1>1, <1>2, <2>1, <2>2 DEF Booked, Live, PartEvent
<1>3. ASSUME NEW e, WholeEvent(e), events = <<e>>, p = Untracked
      PROVE  Goal
  <2>1. first = e /\ rest = <<>>
    BY <1>3, TailOne
  <2> HIDE DEF first, rest
  <2> QED
    BY <1>3, <2>1 DEF Booked, Live, RestOf, WholeEvent
<1>4. ASSUME NEW d, NEW e, PartEvent(d), WholeEvent(e), events = <<d, e>>, p = Untracked,
             held = d.lots + e.lots
      PROVE  Goal
  <2>1. d \in CloseEvents /\ e \in CloseEvents /\ d.lots \in Nat /\ e.lots \in Nat
    BY <1>4, EventLots
  <2>2. first = d /\ rest = <<e>> /\ rest # <<>>
    BY <1>4, <2>1, TailTwo
  <2>3. held - d.lots = e.lots
    BY <1>4, <2>1
  <2> HIDE DEF first, rest
  <2> QED
    BY <1>4, <2>1, <2>2, <2>3 DEF Booked, Live, PartEvent
<1>5. Goal
  <2> HIDE DEF Goal
  <2> QED
    BY <1>2, <1>3, <1>4 DEF Booked
<1> QED
  BY <1>5

LEMMA BookedLots ==
    ASSUME NEW p \in Positions \cup {Untracked}, NEW events, NEW held, Booked(events, p, held)
    PROVE  held \in Nat /\ held = LotsOf(events) + RestOf(p)
<1>1. RestOf(p) \in Nat
  BY RestOfOK
<1>2. CASE events = <<>> /\ held = RestOf(p)
  BY <1>1, <1>2, LotsNone
<1>3. ASSUME NEW e, PartEvent(e), events = <<e>>, held = e.lots + RestOf(p)
      PROVE  held \in Nat /\ held = LotsOf(events) + RestOf(p)
  BY <1>1, <1>3, EventLots, LotsOne
<1>4. ASSUME NEW e, WholeEvent(e), events = <<e>>, held = e.lots, p = Untracked
      PROVE  held \in Nat /\ held = LotsOf(events) + RestOf(p)
  <2>1. RestOf(p) = 0 /\ e.lots \in Nat /\ LotsOf(events) = e.lots
    BY <1>4, EventLots, LotsOne DEF RestOf
  <2> QED
    BY <1>4, <2>1
<1>5. ASSUME NEW d, NEW e, PartEvent(d), WholeEvent(e), events = <<d, e>>, p = Untracked,
             held = d.lots + e.lots
      PROVE  held \in Nat /\ held = LotsOf(events) + RestOf(p)
  <2>1. RestOf(p) = 0 /\ d.lots \in Nat /\ e.lots \in Nat /\ LotsOf(events) = d.lots + e.lots
    BY <1>5, EventLots, LotsTwo DEF RestOf
  <2> QED
    BY <1>5, <2>1
<1> QED
  BY <1>2, <1>3, <1>4, <1>5 DEF Booked
=============================================================================
