-------------------------- MODULE SignalPathProofs --------------------------
(***************************************************************************)
(* For every series of prices, every calendar, all periods of the candles  *)
(* and all sizes of the rings and queues: the stops and targets of the     *)
(* consumer's orders, that the rings hold the newest of what was pushed,   *)
(* and that the candles sum up the ticks they should.                      *)
(***************************************************************************)
EXTENDS SignalPath, SequenceTheorems, WellFoundedInduction, TLAPS

TickRecs == [time : Int, mid : Nat]
CandleRecs == [open : Nat, high : Nat, low : Nat, close : Nat,
               ticks : Int, buy : Int, sell : Int, start : Int]
BarRecs == [period : Nat \ {0}, candle : CandleRecs, hasData : BOOLEAN, end : Int,
            mid : Nat, direction : {-1, 0, 1}]
Signals == [type : {"Buy", "Sell"}, range : BOOLEAN, sl : Int, tp : Int]
Rings(size, entries) == [size : {size}, slots : [0..size - 1 -> entries],
                         head : 0..size - 1, count : 0..size]

LEMMA ConstantsOK ==
    /\ Prices \subseteq Nat /\ HalfSpread \in Nat /\ ATRs \subseteq Nat /\ Discounts \subseteq Nat
    /\ Arrivals \subseteq Nat \X Nat
    /\ BufferSize \in Nat \ {0} /\ RingSize \in Nat \ {0}
    /\ Periods \in [Frames -> Nat \ {0}]
BY SignalPathAssumption DEF SignalPathAssumption
-----------------------------------------------------------------------------
(* Prices of an order.                                                       *)

LEMMA DistanceOK ==
    ASSUME NEW a \in Int, NEW b \in Int
    PROVE  /\ Distance(a, b) \in Int
           /\ a - b >= 0 => Distance(a, b) = a - b
           /\ b - a >= 0 => Distance(a, b) = b - a
BY DEF Distance

LEMMA LimitsOK ==
    ASSUME NEW mode \in Modes
    PROVE  /\ StopLimits(mode) = Floor(mode)..Cap(mode)
           /\ Floor(mode) \in {3500, 4200} /\ Cap(mode) \in {5000, 6500, 7800}
<1>1. CASE mode = "SANTAI"
  <2>1. Floor(mode) = 4200 /\ Cap(mode) = 7800
    BY <1>1 DEF Floor, Cap
  <2>2. StopLimits(mode) = 4200..7800
    BY <1>1 DEF StopLimits
  <2> QED
    BY <2>1, <2>2
<1>2. CASE mode = "BALANCED"
  <2>1. Floor(mode) = 3500 /\ Cap(mode) = 6500
    BY <1>2 DEF Floor, Cap
  <2>2. StopLimits(mode) = 3500..6500
    BY <1>2 DEF StopLimits
  <2> QED
    BY <2>1, <2>2
<1>3. CASE mode = "AGRESIF"
  <2>1. Floor(mode) = 3500 /\ Cap(mode) = 5000
    BY <1>3 DEF Floor, Cap
  <2>2. StopLimits(mode) = 3500..5000
    BY <1>3 DEF StopLimits
  <2> QED
    BY <2>1, <2>2
<1> QED
  BY <1>1, <1>2, <1>3 DEF Modes

\* The stop lies within the limits of the mode, and at the structural distance if it may.
LEMMA StopRange ==
    ASSUME NEW exec \in Int, NEW sig \in Signals, NEW mode \in Modes
    PROVE  /\ StopDistance(exec, sig, mode) \in Int
           /\ 3500 <= StopDistance(exec, sig, mode) /\ StopDistance(exec, sig, mode) <= 7800
           /\ StopDistance(exec, sig, mode) \in StopLimits(mode)
           /\ Distance(exec, sig.sl) \in StopLimits(mode) =>
                 StopDistance(exec, sig, mode) = Distance(exec, sig.sl)
<1> DEFINE d == Distance(exec, sig.sl)
           f == Floor(mode)
           c == Cap(mode)
           stop == StopDistance(exec, sig, mode)
<1>1. stop = IF d < f THEN f ELSE IF d > c THEN c ELSE d
  BY DEF StopDistance
<1>2. d \in Int
  BY DistanceOK DEF Signals
<1>3. StopLimits(mode) = f..c /\ f \in {3500, 4200} /\ c \in {5000, 6500, 7800}
  BY LimitsOK
<1> HIDE DEF d, f, c, stop
<1>4. /\ stop \in Int /\ 3500 <= stop /\ stop <= 7800
      /\ stop \in f..c /\ (d \in f..c => stop = d)
  BY <1>1, <1>2, <1>3
<1>5. stop \in StopLimits(mode) /\ (d \in StopLimits(mode) => stop = d)
  BY <1>3, <1>4
<1> QED
  BY <1>4, <1>5 DEF d, stop

\* The target is at least one and a half times as far, within its cap.
LEMMA TargetRange ==
    ASSUME NEW exec \in Int, NEW sig \in Signals, NEW mode \in Modes
    PROVE  LET target == TargetDistance(exec, sig, mode) IN
           /\ target \in Int /\ target >= 5000 /\ target <= 12000
           /\ 2 * target + 1 >= 3 * StopDistance(exec, sig, mode)
<1> DEFINE stop == StopDistance(exec, sig, mode)
           d == Distance(sig.tp, exec)
           half == (3 * stop) \div 2
           least == Larger(half, 5000)
           target == TargetDistance(exec, sig, mode)
<1>1. stop \in Int /\ 3500 <= stop /\ stop <= 7800
  BY StopRange
<1>2. d \in Int
  BY DEF Distance, Signals
<1>3. target = Smaller(Larger(d, least), 12000)
  BY DEF TargetDistance
<1> HIDE DEF stop, d, target
<1>4. half \in Int /\ half <= 11700 /\ 2 * half + 1 >= 3 * stop
  BY <1>1
<1> HIDE DEF half
<1>5. least \in Int /\ half <= least /\ 5000 <= least /\ least <= 11700
  BY <1>4 DEF Larger
<1> HIDE DEF least
<1>6. target \in Int /\ half <= target /\ 5000 <= target /\ target <= 12000
  BY <1>2, <1>3, <1>4, <1>5 DEF Larger, Smaller
<1>7. 2 * target + 1 >= 3 * stop
  BY <1>1, <1>4, <1>6
<1> QED
  BY <1>6, <1>7 DEF target, stop

\* OrdersSound of an order, given the sign of its side and the price it was made at.
SoundAt(sign, exec) ==
    /\ sign * (exec - order.sl) \in StopLimits(order.mode)
    /\ sign * (exec - order.swing) \in StopLimits(order.mode) => order.sl = order.swing
    /\ sign * (order.tp - exec) >= 5000
    /\ 2 * (sign * (order.tp - exec)) + 1 >= 3 * (sign * (exec - order.sl))
    /\ sign * (order.tp - exec) <= 12000

LEMMA PricedSound ==
    ASSUME NEW sig \in Signals, NEW tick \in TickRecs, NEW mode \in Modes,
           order = Priced(sig, tick, mode)
    PROVE  OrdersSound
<1> DEFINE exec == Exec(tick, sig.type)
           sign == IF sig.type = "Buy" THEN 1 ELSE -1
           stop == StopDistance(exec, sig, mode)
           target == TargetDistance(exec, sig, mode)
           limits == StopLimits(mode)
           sl == order.sl
           tp == order.tp
           swing == order.swing
<1>1. exec \in Int /\ sig.sl \in Int /\ sign \in {1, -1}
  BY ConstantsOK DEF Exec, Ask, Bid, TickRecs, Signals
<1>2. /\ order.type = sig.type /\ order.tick = tick /\ order.mode = mode
      /\ sl = exec - sign * stop /\ tp = exec + sign * target
      /\ swing = sig.sl
  BY DEF Priced
<1> HIDE DEF exec
<1>3. /\ stop \in Int /\ stop \in limits
      /\ (Distance(exec, sig.sl) \in limits => stop = Distance(exec, sig.sl))
  BY <1>1, StopRange
<1>4. /\ target \in Int /\ target >= 5000 /\ target <= 12000
      /\ 2 * target + 1 >= 3 * stop
  BY <1>1, TargetRange
<1>5. \A x \in limits : x \in Int /\ x >= 0
  <2>1. limits = Floor(mode)..Cap(mode) /\ Floor(mode) \in {3500, 4200}
        /\ Cap(mode) \in {5000, 6500, 7800}
    BY LimitsOK
  <2> HIDE DEF limits
  <2> QED
    BY <2>1
<1>6. Exec(order.tick, order.type) = exec /\ (IF order.type = "Buy" THEN 1 ELSE -1) = sign
      /\ StopLimits(order.mode) = limits
  BY <1>2 DEF exec
<1> HIDE DEF stop, target, limits, sign, sl, tp, swing
<1>7. sign * (exec - sl) = stop /\ sign * (tp - exec) = target
  <2>1. CASE sign = 1
    BY <1>1, <1>2, <1>3, <1>4, <2>1
  <2>2. CASE sign = -1
    BY <1>1, <1>2, <1>3, <1>4, <2>2
  <2> QED
    BY <1>1, <2>1, <2>2
<1>8. ASSUME sign * (exec - swing) \in limits
      PROVE  sl = swing
  <2> DEFINE gap == sign * (exec - swing)
  <2>1. swing \in Int /\ gap \in limits /\ gap >= 0
    BY <1>1, <1>2, <1>5, <1>8
  <2>2. gap = Distance(exec, swing) /\ exec - sign * gap = swing
    <3>1. CASE sign = 1
      <4>1. gap = exec - swing
        BY <1>1, <2>1, <3>1
      <4> HIDE DEF gap
      <4> QED
        BY <1>1, <2>1, <3>1, <4>1, DistanceOK
    <3>2. CASE sign = -1
      <4>1. gap = swing - exec
        BY <1>1, <2>1, <3>2
      <4> HIDE DEF gap
      <4> QED
        BY <1>1, <2>1, <3>2, <4>1, DistanceOK
    <3> QED
      BY <1>1, <3>1, <3>2
  <2> HIDE DEF gap
  <2>3. stop = gap
    BY <1>2, <1>3, <2>1, <2>2
  <2> QED
    BY <1>2, <2>2, <2>3
<1>9. SoundAt(sign, exec)
  BY <1>3, <1>4, <1>6, <1>7, <1>8 DEF SoundAt, sl, tp, swing
<1>10. SoundAt(IF order.type = "Buy" THEN 1 ELSE -1, Exec(order.tick, order.type))
  BY <1>6, <1>9
<1> QED
  BY <1>10 DEF SoundAt, OrdersSound
-----------------------------------------------------------------------------
(* Rings and extremes.                                                       *)

LEMMA ModRange ==
    ASSUME NEW n \in Nat \ {0}, NEW a \in Int
    PROVE  a % n \in 0..n - 1
OBVIOUS

LEMMA ModSmall ==
    ASSUME NEW n \in Nat \ {0}, NEW r \in 0..n - 1
    PROVE  r % n = r /\ (r + n) % n = r
<1>1. r % n = r
  OBVIOUS
<1>2. (r + n) % n = r
  OBVIOUS
<1> QED
  BY <1>1, <1>2

\* The entry before the head, wherever the head is.
LEMMA Previous ==
    ASSUME NEW n \in Nat \ {0}, NEW h \in 0..n - 1
    PROVE  (((h + 1) % n) - 1 + n) % n = h
<1>1. CASE h + 1 < n
  <2>1. h + 1 \in 0..n - 1
    BY <1>1
  <2>2. (h + 1) % n = h + 1
    BY <2>1, ModSmall
  <2>3. ((h + 1) % n) - 1 + n = h + n
    BY <2>2
  <2> QED
    BY <2>3, ModSmall
<1>2. CASE h + 1 = n
  <2>1. 0 \in 0..n - 1 /\ (0 + n) % n = 0
    BY ModSmall
  <2>2. (h + 1) % n = 0
    BY <1>2, <2>1
  <2>3. ((h + 1) % n) - 1 + n = h
    BY <1>2, <2>2
  <2> QED
    BY <2>3, ModSmall
<1> QED
  BY <1>1, <1>2

LEMMA NewRingOK ==
    ASSUME NEW n \in Nat \ {0}, NEW S, NEW zero \in S
    PROVE  NewRing(n, zero) \in Rings(n, S)
<1>1. 0 \in 0..n - 1 /\ 0 \in 0..n
  OBVIOUS
<1> QED
  BY <1>1 DEF NewRing, Rings

LEMMA PushOK ==
    ASSUME NEW n \in Nat \ {0}, NEW S, NEW ring \in Rings(n, S), NEW x \in S
    PROVE  Push(ring, x) \in Rings(n, S) /\ Back(Push(ring, x), 1) = x
<1> DEFINE h == ring.head
           r == Push(ring, x)
<1>1. /\ ring.size = n /\ h \in 0..n - 1 /\ ring.slots \in [0..n - 1 -> S] /\ ring.count \in 0..n
  BY DEF Rings
<1>2. /\ r.size = n /\ r.slots = [ring.slots EXCEPT ![h] = x]
      /\ r.head = (h + 1) % n /\ r.count = IF ring.count < n THEN ring.count + 1 ELSE ring.count
      /\ DOMAIN r = {"size", "slots", "head", "count"}
  <2>1. r = [ring EXCEPT !.slots[ring.head] = x, !.head = (ring.head + 1) % ring.size,
                         !.count = IF @ < ring.size THEN @ + 1 ELSE @]
    BY DEF Push
  <2>2. ring = [size |-> ring.size, slots |-> ring.slots, head |-> ring.head, count |-> ring.count]
    BY DEF Rings
  <2> HIDE DEF r
  <2>3. DOMAIN ring = {"size", "slots", "head", "count"}
    BY <2>2
  <2> QED
    BY <1>1, <2>1, <2>3
<1>8. r = [size |-> r.size, slots |-> r.slots, head |-> r.head, count |-> r.count]
  <2>1. r = [k \in {"size", "slots", "head", "count"} |-> r[k]]
    BY <1>2 DEF Push
  <2> HIDE DEF r
  <2> QED
    BY <2>1
<1> HIDE DEF r, h
<1>3. r.slots \in [0..n - 1 -> S] /\ r.slots[h] = x
  BY <1>1, <1>2
<1>4. r.head \in 0..n - 1 /\ r.count \in 0..n
  <2>1. (h + 1) % n \in 0..n - 1
    <3>1. h + 1 \in Int
      BY <1>1
    <3> QED
      BY <3>1, ModRange
  <2> QED
    BY <1>1, <1>2, <2>1
<1>5. r \in Rings(n, S)
  BY <1>2, <1>3, <1>4, <1>8 DEF Rings
<1>6. (r.head - 1 + r.size) % r.size = h
  BY <1>1, <1>2, Previous
<1>7. Back(r, 1) = x
  BY <1>3, <1>6 DEF Back
<1> QED
  BY <1>5, <1>7 DEF r

LEMMA BackOK ==
    ASSUME NEW n \in Nat \ {0}, NEW S, NEW ring \in Rings(n, S), NEW k \in Nat
    PROVE  Back(ring, k) \in S
<1>1. ring.size = n /\ ring.head \in 0..n - 1 /\ ring.slots \in [0..n - 1 -> S]
  BY DEF Rings
<1>2. ring.head - k + n \in Int
  BY <1>1
<1>3. (ring.head - k + n) % n \in 0..n - 1
  BY <1>2, ModRange
<1>4. Back(ring, k) = ring.slots[(ring.head - k + n) % n]
  BY <1>1 DEF Back
<1> DEFINE i == (ring.head - k + n) % n
<1>5. i \in 0..n - 1 /\ Back(ring, k) = ring.slots[i]
  BY <1>3, <1>4
<1> HIDE DEF i
<1> QED
  BY <1>1, <1>5

LEMMA SmallestOf ==
    ASSUME NEW S \in SUBSET Nat, S # {}
    PROVE  \E n \in S : \A m \in S : n <= m
<1>1. PICK n \in S : \A m \in S : ~(<<m, n>> \in OpToRel(<, Nat))
  BY NatLessThanWellFounded, WFMin
<1>2. \A m \in S : ~(m < n)
  BY <1>1 DEF OpToRel
<1> QED
  BY <1>2

LEMMA MinOK ==
    ASSUME NEW S \in SUBSET Nat, S # {}
    PROVE  Min(S) \in S
BY SmallestOf DEF Min

\* Of the values of a function on 1..n one is the largest.
LEMMA MaxOK ==
    ASSUME NEW n \in Nat \ {0}, NEW f \in [1..n -> Nat]
    PROVE  Max({f[k] : k \in 1..n}) \in Nat
<1> DEFINE Top(m) == \E k \in 1..m : \A j \in 1..m : f[j] <= f[k]
           Bad == {m \in 1..n : ~Top(m)}
<1>1. Bad = {}
  <2> SUFFICES ASSUME Bad # {}
               PROVE  FALSE
    OBVIOUS
  <2>1. Bad \in SUBSET Nat
    OBVIOUS
  <2>2. PICK m \in Bad : \A i \in Bad : m <= i
    BY <2>1, SmallestOf
  <2>3. m \in 1..n /\ ~Top(m)
    BY <2>2
  <2>4. CASE m = 1
    <3>1. 1 \in 1..m /\ \A j \in 1..m : j = 1
      BY <2>4
    <3>2. \A j \in 1..m : f[j] <= f[1]
      <4>1. f[1] \in Nat
        <5>1. 1 \in 1..n
          OBVIOUS
        <5> QED
          BY <5>1
      <4>2. f[1] <= f[1]
        BY <4>1
      <4> QED
        BY <3>1, <4>2
    <3>3. Top(m)
      BY <3>1, <3>2
    <3> QED
      BY <2>3, <3>3
  <2>5. CASE m # 1
    <3>1. m - 1 \in 1..n /\ m - 1 \notin Bad
      <4> HIDE DEF Bad
      <4>1. m - 1 \in 1..n /\ ~(m <= m - 1)
        BY <2>3, <2>5
      <4> QED
        BY <2>2, <4>1
    <3>2. Top(m - 1)
      BY <3>1
    <3>3. PICK k \in 1..m - 1 : \A j \in 1..m - 1 : f[j] <= f[k]
      BY <3>2
    <3>4. f[k] \in Nat /\ f[m] \in Nat /\ \A j \in 1..m - 1 : f[j] \in Nat
      BY <2>3, <3>3
    <3>5. \A j \in 1..m : j \in 1..m - 1 \/ j = m
      BY <2>3
    <3>6. CASE f[k] <= f[m]
      <4>1. ASSUME NEW j \in 1..m
            PROVE  f[j] <= f[m]
        <5>1. CASE j = m
          BY <3>4, <5>1
        <5>2. CASE j \in 1..m - 1
          <6>1. f[j] \in Nat /\ f[j] <= f[k]
            BY <3>3, <3>4, <5>2
          <6>2. f[k] \in Nat /\ f[m] \in Nat /\ f[k] <= f[m]
            BY <3>4, <3>6
          <6> HIDE DEF Bad, Top
          <6> QED
            BY <6>1, <6>2
        <5> QED
          BY <3>5, <5>1, <5>2
      <4>2. m \in 1..m
        BY <2>3
      <4>3. Top(m)
        BY <4>1, <4>2
      <4> QED
        BY <2>3, <4>3
    <3>7. CASE ~(f[k] <= f[m])
      <4>1. ASSUME NEW j \in 1..m
            PROVE  f[j] <= f[k]
        <5>1. CASE j = m
          <6>1. f[k] \in Nat /\ f[m] \in Nat /\ ~(f[k] <= f[m])
            BY <3>4, <3>7
          <6> HIDE DEF Bad, Top
          <6> QED
            BY <5>1, <6>1
        <5>2. CASE j \in 1..m - 1
          BY <3>3, <5>2
        <5> QED
          BY <3>5, <5>1, <5>2
      <4>2. k \in 1..m
        BY <2>3, <3>3
      <4>3. Top(m)
        BY <4>1, <4>2
      <4> QED
        BY <2>3, <4>3
    <3> QED
      BY <3>6, <3>7
  <2> QED
    BY <2>4, <2>5
<1>2. Top(n)
  <2>1. n \in 1..n
    OBVIOUS
  <2> QED
    BY <1>1, <2>1
<1> DEFINE S == {f[k] : k \in 1..n}
<1>3. \E x \in S : \A y \in S : x >= y
  <2>1. PICK k \in 1..n : \A j \in 1..n : f[j] <= f[k]
    BY <1>2
  <2>2. f[k] \in S /\ \A y \in S : f[k] >= y
    BY <2>1
  <2> QED
    BY <2>2
<1>4. S \subseteq Nat
  OBVIOUS
<1> HIDE DEF S
<1>5. Max(S) \in S
  BY <1>3 DEF Max
<1> QED
  BY <1>4, <1>5 DEF S

LEMMA LargerOK ==
    ASSUME NEW a \in Int, NEW b \in Int
    PROVE  /\ Larger(a, b) \in {a, b} /\ a <= Larger(a, b) /\ b <= Larger(a, b)
           /\ Smaller(a, b) \in {a, b} /\ Smaller(a, b) <= a /\ Smaller(a, b) <= b
BY DEF Larger, Smaller

\* Max and Min of two prices.
LEMMA PairOK ==
    ASSUME NEW a \in Nat, NEW b \in Nat
    PROVE  Max({a, b}) \in Nat /\ Min({a, b}) \in Nat
<1>1. Min({a, b}) \in {a, b}
  BY MinOK
<1>2. \E x \in {a, b} : \A y \in {a, b} : x >= y
  OBVIOUS
<1>3. Max({a, b}) \in {a, b}
  BY <1>2 DEF Max
<1> QED
  BY <1>1, <1>3

LEMMA SwingsOK ==
    ASSUME NEW n \in Nat \ {0}, NEW ring \in Rings(n, CandleRecs)
    PROVE  SwingHigh(ring, 5) \in Nat /\ SwingLow(ring, 5) \in Nat
<1> DEFINE m == Min({5, ring.count})
<1>1. m \in Nat
  <2>1. ring.count \in Nat
    BY DEF Rings
  <2> QED
    BY <2>1, PairOK
<1>2. SwingHigh(ring, 5) = IF m = 0 THEN 0 ELSE Max({Back(ring, k).high : k \in 1..m})
  BY DEF SwingHigh
<1>3. SwingLow(ring, 5) = IF m = 0 THEN 0 ELSE Min({Back(ring, k).low : k \in 1..m})
  BY DEF SwingLow
<1> HIDE DEF m
<1>4. \A k \in 1..m : Back(ring, k).high \in Nat /\ Back(ring, k).low \in Nat
  <2> SUFFICES ASSUME NEW k \in 1..m
               PROVE  Back(ring, k).high \in Nat /\ Back(ring, k).low \in Nat
    OBVIOUS
  <2>1. k \in Nat
    BY <1>1
  <2>2. Back(ring, k) \in CandleRecs
    BY <2>1, BackOK
  <2> QED
    BY <2>2 DEF CandleRecs
<1>5. CASE m = 0
  BY <1>2, <1>3, <1>5
<1>6. CASE m # 0
  <2> DEFINE f == [k \in 1..m |-> Back(ring, k).high]
             L == {Back(ring, k).low : k \in 1..m}
  <2>1. f \in [1..m -> Nat] /\ m \in Nat \ {0}
    BY <1>1, <1>4, <1>6
  <2>2. {f[k] : k \in 1..m} = {Back(ring, k).high : k \in 1..m}
    OBVIOUS
  <2>3. Max({Back(ring, k).high : k \in 1..m}) \in Nat
    <3> HIDE DEF f
    <3>1. Max({f[k] : k \in 1..m}) \in Nat
      BY <2>1, MaxOK
    <3> QED
      BY <2>2, <3>1
  <2>4. L \in SUBSET Nat /\ L # {}
    <3>1. 1 \in 1..m
      BY <2>1
    <3> QED
      BY <1>4, <3>1
  <2>5. Min(L) \in Nat
    BY <2>4, MinOK
  <2> QED
    BY <1>2, <1>3, <1>6, <2>3, <2>5
<1> QED
  BY <1>5, <1>6
-----------------------------------------------------------------------------
(* Candles and signals.                                                      *)

LEMMA StartOK ==
    ASSUME NEW time \in Int, NEW period \in Nat \ {0}
    PROVE  (time \div period) * period \in Int
<1>1. time \div period \in Int
  OBVIOUS
<1> QED
  BY <1>1

LEMMA NewCandleOK ==
    ASSUME NEW tick \in TickRecs, NEW period \in Nat \ {0}
    PROVE  NewCandle(tick, period) \in CandleRecs
<1>1. tick.time \in Int /\ tick.mid \in Nat
  BY DEF TickRecs
<1>2. (tick.time \div period) * period \in Int
  BY <1>1, StartOK
<1> QED
  BY <1>1, <1>2 DEF NewCandle, CandleRecs

LEMMA StretchOK ==
    ASSUME NEW c \in CandleRecs, NEW mid \in Nat
    PROVE  Stretch(c, mid) \in CandleRecs
<1>1. c.high \in Nat /\ c.low \in Nat
  BY DEF CandleRecs
<1>2. Max({c.high, mid}) \in Nat /\ Min({c.low, mid}) \in Nat
  BY <1>1, PairOK
<1> QED
  BY <1>2 DEF Stretch, CandleRecs

LEMMA AggregateOK ==
    ASSUME NEW a \in BarRecs, NEW tick \in TickRecs
    PROVE  Aggregate(a, tick) \in BarRecs /\ Completed(a) \in CandleRecs
<1>0. /\ a.period \in Nat \ {0} /\ a.candle \in CandleRecs /\ a.direction \in {-1, 0, 1}
      /\ tick.mid \in Nat
  BY DEF BarRecs, TickRecs
<1>1. Completed(a) \in CandleRecs
  BY <1>0 DEF Completed, CandleRecs
<1>2. StartNewCandle(a, tick) \in BarRecs
  <2> DEFINE c == NewCandle(tick, a.period)
  <2>1. c \in CandleRecs
    BY <1>0, NewCandleOK
  <2>2. StartNewCandle(a, tick) =
          [a EXCEPT !.candle = c, !.end = c.start + a.period, !.hasData = TRUE, !.mid = tick.mid]
    BY DEF StartNewCandle
  <2> HIDE DEF c
  <2>3. c.start + a.period \in Int
    BY <1>0, <2>1 DEF CandleRecs
  <2> QED
    BY <1>0, <2>1, <2>2, <2>3 DEF BarRecs
<1>3. Extend(a, tick) \in BarRecs
  <2> DEFINE d == Direction(a, tick)
             s == Stretch(a.candle, tick.mid)
             c == [s EXCEPT !.ticks = @ + 1, !.buy = @ + 1 + d, !.sell = @ + 1 - d]
  <2>1. d \in {-1, 0, 1}
    BY <1>0 DEF Direction
  <2>2. s \in CandleRecs
    BY <1>0, StretchOK
  <2>3. Extend(a, tick) = [a EXCEPT !.mid = tick.mid, !.direction = d, !.candle = c]
    BY DEF Extend
  <2> HIDE DEF d, s
  <2>4. c \in CandleRecs
    <3>1. s.ticks + 1 \in Int /\ s.buy + 1 + d \in Int /\ s.sell + 1 - d \in Int
      BY <2>1, <2>2 DEF CandleRecs
    <3> QED
      BY <2>2, <3>1 DEF CandleRecs
  <2> HIDE DEF c
  <2> QED
    BY <1>0, <2>1, <2>3, <2>4 DEF BarRecs
<1> QED
  BY <1>1, <1>2, <1>3 DEF Aggregate

LEMMA StructureOK ==
    ASSUME NEW entry \in Int, NEW atr \in Nat, NEW swing \in Nat, NEW type \in {"Buy", "Sell"}
    PROVE  Structure(entry, atr, swing, type) \in Signals
<1> DEFINE sign == IF type = "Buy" THEN 1 ELSE -1
           floor == Larger((12 * atr) \div 10, 3500)
           cap == Larger(2 * atr, 6500)
           beyond == sign * (entry - swing)
           raw == IF swing > 0 /\ beyond > 0 THEN beyond + 500 ELSE floor
           risk == IF raw < floor THEN floor ELSE IF raw > cap THEN cap ELSE raw
           far == Larger((22 * risk) \div 10, 8000)
<1>1. Structure(entry, atr, swing, type) =
        [type |-> type, range |-> FALSE, sl |-> entry - sign * risk, tp |-> entry + sign * far]
  BY DEF Structure
<1>2. sign \in {1, -1}
  OBVIOUS
<1> HIDE DEF sign
<1>3. floor \in Int /\ cap \in Int
  BY LargerOK
<1> HIDE DEF floor, cap
<1>4. beyond \in Int
  BY <1>2
<1> HIDE DEF beyond
<1>5. risk \in Int
  BY <1>3, <1>4
<1> HIDE DEF risk
<1>6. far \in Int
  <2>1. (22 * risk) \div 10 \in Int
    BY <1>5
  <2> QED
    BY <2>1, LargerOK
<1> HIDE DEF far
<1>7. entry - sign * risk \in Int /\ entry + sign * far \in Int
  BY <1>2, <1>5, <1>6
<1> QED
  BY <1>1, <1>7 DEF Signals

LEMMA MomentumOK ==
    ASSUME NEW candle \in CandleRecs, NEW n \in Nat \ {0}, NEW ring \in Rings(n, CandleRecs)
    PROVE  Momentum(candle, ring) \subseteq Signals
<1>1. SwingHigh(ring, 5) \in Nat /\ SwingLow(ring, 5) \in Nat
  BY SwingsOK
<1>2. \A d \in Discounts, atr \in ATRs :
         /\ atr \in Nat /\ candle.close - d \in Int /\ candle.close + d \in Int
  BY ConstantsOK DEF CandleRecs
<1>3. \A d \in Discounts, atr \in ATRs :
         /\ Structure(candle.close - d, atr, SwingLow(ring, 5), "Buy") \in Signals
         /\ Structure(candle.close + d, atr, SwingHigh(ring, 5), "Sell") \in Signals
  <2> SUFFICES ASSUME NEW d \in Discounts, NEW atr \in ATRs
               PROVE  /\ Structure(candle.close - d, atr, SwingLow(ring, 5), "Buy") \in Signals
                      /\ Structure(candle.close + d, atr, SwingHigh(ring, 5), "Sell") \in Signals
    OBVIOUS
  <2>1. /\ atr \in Nat /\ candle.close - d \in Int /\ candle.close + d \in Int
    BY <1>2
  <2> QED
    BY <1>1, <2>1, StructureOK
<1> QED
  BY <1>3 DEF Momentum

LEMMA RangeOK ==
    ASSUME NEW candle \in CandleRecs
    PROVE  RangeScalp(candle) \subseteq Signals
<1> DEFINE least(atr) == Larger((8 * atr) \div 10, 1500)
           sl(atr) == Larger((8 * atr) \div 10, least(atr) \div 2)
           tp(atr) == Smaller(Larger((18 * sl(atr)) \div 10, least(atr)), Larger(3 * atr, 8000))
<1>1. RangeScalp(candle) =
        {[type |-> "Buy", range |-> TRUE, sl |-> candle.close - sl(atr), tp |-> candle.close + tp(atr)] : atr \in ATRs} \cup
        {[type |-> "Sell", range |-> TRUE, sl |-> candle.close + sl(atr), tp |-> candle.close - tp(atr)] : atr \in ATRs}
  BY DEF RangeScalp
<1>2. ASSUME NEW atr \in ATRs
      PROVE  sl(atr) \in Int /\ tp(atr) \in Int
  <2>1. (8 * atr) \div 10 \in Int /\ 3 * atr \in Int
    BY ConstantsOK
  <2>2. least(atr) \in Int
    BY <2>1, LargerOK
  <2>3. sl(atr) \in Int
    <3> HIDE DEF least
    <3>1. least(atr) \div 2 \in Int
      BY <2>2
    <3> QED
      BY <2>1, <3>1, LargerOK
  <2> HIDE DEF least, sl
  <2>4. (18 * sl(atr)) \div 10 \in Int
    BY <2>3
  <2>5. Larger((18 * sl(atr)) \div 10, least(atr)) \in Int /\ Larger(3 * atr, 8000) \in Int
    BY <2>1, <2>2, <2>4, LargerOK
  <2>6. tp(atr) \in Int
    BY <2>5, LargerOK
  <2> QED
    BY <2>3, <2>6
<1> HIDE DEF sl, tp
<1>3. candle.close \in Nat
  BY DEF CandleRecs
<1>4. ASSUME NEW atr \in ATRs
      PROVE  /\ [type |-> "Buy", range |-> TRUE, sl |-> candle.close - sl(atr), tp |-> candle.close + tp(atr)] \in Signals
             /\ [type |-> "Sell", range |-> TRUE, sl |-> candle.close + sl(atr), tp |-> candle.close - tp(atr)] \in Signals
  <2>1. sl(atr) \in Int /\ tp(atr) \in Int
    BY <1>2
  <2>2. /\ candle.close - sl(atr) \in Int /\ candle.close + tp(atr) \in Int
        /\ candle.close + sl(atr) \in Int /\ candle.close - tp(atr) \in Int
    BY <1>3, <2>1
  <2> QED
    BY <2>2 DEF Signals
<1> QED
  BY <1>1, <1>4
-----------------------------------------------------------------------------
(* The invariant: what the ticks leave in the rings, the candles and the     *)
(* queue is well formed, and a signal is only taken after a tick.            *)

TakenOK(c) ==
    /\ DOMAIN c = {"at", "sig", "tick", "macro"}
    /\ c.at # "idle" => c.sig \in Signals /\ c.tick \in TickRecs

OrderOK ==
    order # None =>
        \E sig \in Signals, tick \in TickRecs, mode \in Modes : order = Priced(sig, tick, mode)

PathInv ==
    /\ clock \in Nat /\ pending \in {None} \cup TickRecs
    /\ buffer \in Rings(BufferSize, {None} \cup TickRecs)
    /\ bars \in [Frames -> BarRecs] /\ swings \in Rings(RingSize, CandleRecs)
    /\ queue \in Seq(Signals)
    /\ pending # None \/ queue # <<>> => Back(buffer, 1) \in TickRecs
    /\ TakenOK(consumer) /\ OrderOK

LEMMA WaitingOK == TakenOK(Waiting)
BY DEF TakenOK, Waiting

LEMMA NoCandleOK == NoCandle \in CandleRecs
BY DEF NoCandle, CandleRecs

LEMMA PathInit == Init => PathInv
<1> SUFFICES ASSUME Init
             PROVE  PathInv
  OBVIOUS
<1>1. clock \in Nat /\ pending = None /\ queue = <<>>
  BY DEF Init
<1>2. buffer \in Rings(BufferSize, {None} \cup TickRecs)
  <2>1. None \in {None} \cup TickRecs
    OBVIOUS
  <2> QED
    BY <2>1, ConstantsOK, NewRingOK DEF Init
<1>3. swings \in Rings(RingSize, CandleRecs)
  BY ConstantsOK, NoCandleOK, NewRingOK DEF Init
<1>4. bars \in [Frames -> BarRecs]
  <2>1. \A f \in Frames : NewAggregator(Periods[f]) \in BarRecs
    BY ConstantsOK, NoCandleOK DEF NewAggregator, BarRecs
  <2> QED
    BY <2>1 DEF Init
<1>5. TakenOK(consumer) /\ OrderOK
  BY WaitingOK DEF Init, OrderOK
<1>6. queue \in Seq(Signals)
  BY <1>1
<1> QED
  BY <1>1, <1>2, <1>3, <1>4, <1>5, <1>6 DEF PathInv

LEMMA ReceiveKept ==
    ASSUME PathInv, NEW a \in Arrivals, NEW mid \in Prices, Receive(a[1], a[2], mid)
    PROVE  PathInv'
<1> DEFINE now == clock + a[1]
           tick == [time |-> now - a[2], mid |-> mid]
<1>1. /\ clock' = now /\ pending' = tick /\ buffer' = Push(buffer, tick)
      /\ UNCHANGED <<built, desk>>
  BY DEF Receive
<1>2. a[1] \in Nat /\ a[2] \in Nat /\ mid \in Nat
  BY ConstantsOK
<1>3. now \in Nat /\ now - a[2] \in Int
  BY <1>2 DEF PathInv
<1>4. tick \in TickRecs
  BY <1>2, <1>3 DEF TickRecs
<1> HIDE DEF now, tick
<1>5. /\ Push(buffer, tick) \in Rings(BufferSize, {None} \cup TickRecs)
      /\ Back(Push(buffer, tick), 1) = tick
  <2>1. tick \in {None} \cup TickRecs
    BY <1>4
  <2> QED
    BY <2>1, ConstantsOK, PushOK DEF PathInv
<1>6. /\ buffer' \in Rings(BufferSize, {None} \cup TickRecs)
      /\ Back(buffer', 1) \in TickRecs
  BY <1>1, <1>4, <1>5
<1>7. UNCHANGED <<bars, swings, queue, consumer, order>>
  BY <1>1 DEF built, desk
<1>8. Back(buffer, 1)' \in TickRecs
  BY <1>6 DEF Back
<1>9. OrderOK' /\ TakenOK(consumer)'
  BY <1>7 DEF PathInv, OrderOK, TakenOK
<1> QED
  BY <1>1, <1>3, <1>4, <1>6, <1>7, <1>8, <1>9 DEF PathInv

LEMMA SendOK ==
    ASSUME NEW q \in Seq(Signals), NEW sig \in {None} \cup Signals
    PROVE  Send(q, sig) \in Seq(Signals)
<1>1. CASE sig = None \/ Len(q) >= QueueSize
  BY <1>1 DEF Send
<1>2. CASE ~(sig = None \/ Len(q) >= QueueSize)
  <2>1. sig \in Signals /\ Send(q, sig) = Append(q, sig)
    BY <1>2 DEF Send
  <2> QED
    BY <2>1
<1> QED
  BY <1>1, <1>2

LEMMA ProcessKept ==
    ASSUME PathInv, Process
    PROVE  PathInv'
<1> DEFINE candle == Completed(bars["Base"])
           warm == Len(candles) + 1 >= WarmUp
<1>1. /\ pending # None /\ pending' = None
      /\ bars' = [f \in Frames |-> Aggregate(bars[f], pending)]
      /\ UNCHANGED <<received, desk>>
  BY DEF Process
<1>2. \/ UNCHANGED <<swings, queue>>
      \/ /\ swings' = FeedRings(candle)
         /\ \E momentum \in {None} \cup IF warm THEN Momentum(candle, swings') ELSE {},
               range \in {None} \cup IF warm THEN RangeScalp(candle) ELSE {} :
               queue' = Send(Send(queue, momentum), range)
  <2> DEFINE Fed == /\ swings' = FeedRings(candle)
                    /\ \E momentum \in {None} \cup IF warm THEN Momentum(candle, swings') ELSE {},
                          range \in {None} \cup IF warm THEN RangeScalp(candle) ELSE {} :
                          queue' = Send(Send(queue, momentum), range)
  <2>1. IF Closes(bars["Base"], pending)
        THEN candles' = AddRecentCandle(candle) /\ Fed
        ELSE UNCHANGED <<candles, swings, queue>>
    BY DEF Process
  <2> HIDE DEF Fed
  <2>2. UNCHANGED <<swings, queue>> \/ Fed
    BY <2>1
  <2> QED
    BY <2>2 DEF Fed
<1> HIDE DEF warm
<1>3. pending \in TickRecs /\ bars["Base"] \in BarRecs /\ \A f \in Frames : bars[f] \in BarRecs
  BY <1>1 DEF PathInv, Frames
<1>4. candle \in CandleRecs /\ \A f \in Frames : Aggregate(bars[f], pending) \in BarRecs
  BY <1>3, AggregateOK
<1> HIDE DEF candle
<1>5. bars' \in [Frames -> BarRecs]
  BY <1>1, <1>4
<1>6. FeedRings(candle) \in Rings(RingSize, CandleRecs)
  BY <1>4, ConstantsOK, PushOK DEF FeedRings, PathInv
<1>7. swings' \in Rings(RingSize, CandleRecs) /\ queue' \in Seq(Signals)
  <2>1. CASE UNCHANGED <<swings, queue>>
    BY <2>1 DEF PathInv
  <2>2. CASE /\ swings' = FeedRings(candle)
             /\ \E momentum \in {None} \cup IF warm THEN Momentum(candle, swings') ELSE {},
                   range \in {None} \cup IF warm THEN RangeScalp(candle) ELSE {} :
                   queue' = Send(Send(queue, momentum), range)
    <3>1. swings' \in Rings(RingSize, CandleRecs)
      BY <1>6, <2>2
    <3>2. Momentum(candle, swings') \subseteq Signals /\ RangeScalp(candle) \subseteq Signals
      BY <1>4, <3>1, ConstantsOK, MomentumOK, RangeOK
    <3>3. PICK momentum \in {None} \cup Signals, range \in {None} \cup Signals :
             queue' = Send(Send(queue, momentum), range)
      BY <2>2, <3>2
    <3>4. queue \in Seq(Signals)
      BY DEF PathInv
    <3>5. Send(queue, momentum) \in Seq(Signals)
      BY <3>3, <3>4, SendOK
    <3> QED
      BY <3>1, <3>3, <3>5, SendOK
  <2> QED
    BY <1>2, <2>1, <2>2
<1>8. UNCHANGED <<clock, buffer, consumer, order>>
  BY <1>1 DEF received, desk
<1>9. Back(buffer, 1)' \in TickRecs
  BY <1>1, <1>8 DEF PathInv, Back
<1>10. OrderOK' /\ TakenOK(consumer)'
  BY <1>8 DEF PathInv, OrderOK, TakenOK
<1> QED
  BY <1>1, <1>5, <1>7, <1>8, <1>9, <1>10 DEF PathInv

\* A step of the consumer that goes on to another gate, or ends the signal.
LEMMA GateKept ==
    ASSUME PathInv, UNCHANGED <<clock, pending, buffer, bars, swings, queue, order>>,
           \/ consumer' = Waiting
           \/ DOMAIN consumer' = DOMAIN consumer /\ consumer.at # "idle"
                 /\ consumer'.sig = consumer.sig /\ consumer'.tick = consumer.tick
    PROVE  PathInv'
<1>1. TakenOK(consumer')
  BY WaitingOK DEF PathInv, TakenOK
<1>2. OrderOK'
  BY DEF PathInv, OrderOK
<1>3. (pending # None \/ queue # <<>> => Back(buffer, 1) \in TickRecs)'
  BY DEF PathInv, Back
<1>4. TakenOK(consumer)'
  BY <1>1 DEF TakenOK
<1> QED
  BY <1>2, <1>3, <1>4 DEF PathInv

LEMMA AdvanceOK ==
    ASSUME PathInv, consumer.at # "idle", NEW at
    PROVE  Advance(at) => /\ DOMAIN consumer' = DOMAIN consumer
                          /\ consumer'.sig = consumer.sig /\ consumer'.tick = consumer.tick
BY DEF Advance, PathInv, TakenOK

LEMMA TakeKept ==
    ASSUME PathInv, Take
    PROVE  PathInv'
<1>1. /\ queue # <<>> /\ queue' = Tail(queue) /\ order' = None
      /\ consumer' = [Waiting EXCEPT !.at = "trend", !.sig = Head(queue), !.tick = Back(buffer, 1)]
      /\ UNCHANGED <<clock, pending, buffer, bars, swings>>
  BY DEF Take, received
<1>2. queue \in Seq(Signals) /\ Back(buffer, 1) \in TickRecs
  BY <1>1 DEF PathInv
<1>3. Head(queue) \in Signals /\ Tail(queue) \in Seq(Signals)
  BY <1>1, <1>2
<1>4. /\ DOMAIN consumer' = {"at", "sig", "tick", "macro"}
      /\ consumer'.sig = Head(queue) /\ consumer'.tick = Back(buffer, 1)
  BY <1>1 DEF Waiting
<1>5. TakenOK(consumer)' /\ OrderOK'
  BY <1>1, <1>2, <1>3, <1>4 DEF TakenOK, OrderOK
<1>6. Back(buffer, 1)' \in TickRecs
  BY <1>1, <1>2 DEF Back
<1> QED
  BY <1>1, <1>3, <1>5, <1>6 DEF PathInv

LEMMA SubmitKept ==
    ASSUME PathInv, NEW mode \in Modes, Submit(mode)
    PROVE  PathInv'
<1>1. /\ consumer.at = "desk" /\ consumer' = Waiting
      /\ order' = Priced(consumer.sig, consumer.tick, mode)
      /\ UNCHANGED <<clock, pending, buffer, bars, swings, queue>>
  BY DEF Submit, Done, received, built
<1>2. consumer.sig \in Signals /\ consumer.tick \in TickRecs
  BY <1>1 DEF PathInv, TakenOK
<1>3. \E sig \in Signals, tick \in TickRecs, m \in Modes : order' = Priced(sig, tick, m)
  BY <1>1, <1>2
<1>4. OrderOK'
  BY <1>3 DEF OrderOK
<1>5. TakenOK(consumer)'
  BY <1>1, WaitingOK DEF TakenOK
<1>6. (pending # None \/ queue # <<>> => Back(buffer, 1) \in TickRecs)'
  BY <1>1 DEF PathInv, Back
<1> QED
  BY <1>1, <1>4, <1>5, <1>6 DEF PathInv

LEMMA PathKept ==
    ASSUME PathInv, [Next]_vars
    PROVE  PathInv'
<1>1. CASE \E a \in Arrivals, mid \in Prices : Receive(a[1], a[2], mid)
  BY <1>1, ReceiveKept
<1>2. CASE Process
  BY <1>2, ProcessKept
<1>3. CASE Take
  BY <1>3, TakeKept
<1>4. CASE Avoid \/ Drop
  <2>1. consumer' = Waiting /\ UNCHANGED <<clock, pending, buffer, bars, swings, queue, order>>
    BY <1>4 DEF Avoid, Drop, received, built
  <2> QED
    BY <2>1, GateKept
<1>5. CASE TrendGate
  <2>1. /\ consumer.at = "trend" /\ UNCHANGED <<clock, pending, buffer, bars, swings, queue, order>>
        /\ \/ consumer' = Waiting
           \/ \E macro : consumer' = [consumer EXCEPT !.at = "levels", !.macro = macro]
    BY <1>5 DEF TrendGate, Done, received, built
  <2>2. CASE consumer' = Waiting
    BY <2>1, <2>2, GateKept
  <2>3. CASE \E macro : consumer' = [consumer EXCEPT !.at = "levels", !.macro = macro]
    <3>1. /\ DOMAIN consumer' = DOMAIN consumer
          /\ consumer'.sig = consumer.sig /\ consumer'.tick = consumer.tick
      BY <2>3 DEF PathInv, TakenOK
    <3> QED
      BY <2>1, <3>1, GateKept
  <2> QED
    BY <2>1, <2>2, <2>3
<1>6. CASE \/ ConfluenceGate \/ ScoreOff
           \/ \E atr \in ATRs, extremeRSI \in BOOLEAN : LevelGate(atr, extremeRSI)
           \/ \E regime \in {"Noise", "Bull", "Bear"}, confidence \in Percents, trigger \in Percents,
                 set \in {FileSettings} \cup {Settings(m) : m \in Modes} :
                 ScoreGate(regime, confidence, trigger, set)
  <2>1. /\ consumer.at # "idle" /\ UNCHANGED <<clock, pending, buffer, bars, swings, queue, order>>
        /\ consumer' = Waiting \/ \E at : Advance(at)
    <3>1. CASE ConfluenceGate
      BY <3>1 DEF ConfluenceGate, Done, received, built
    <3>2. CASE ScoreOff
      BY <3>2 DEF ScoreOff, received, built
    <3>3. ASSUME NEW atr, NEW extremeRSI, LevelGate(atr, extremeRSI)
          PROVE  /\ consumer.at # "idle"
                 /\ UNCHANGED <<clock, pending, buffer, bars, swings, queue, order>>
                 /\ consumer' = Waiting \/ \E at : Advance(at)
      BY <3>3 DEF LevelGate, Done, received, built
    <3>4. ASSUME NEW regime, NEW confidence, NEW trigger, NEW set,
                 ScoreGate(regime, confidence, trigger, set)
          PROVE  /\ consumer.at # "idle"
                 /\ UNCHANGED <<clock, pending, buffer, bars, swings, queue, order>>
                 /\ consumer' = Waiting \/ \E at : Advance(at)
      BY <3>4 DEF ScoreGate, Done, received, built
    <3> QED
      BY <1>6, <3>1, <3>2, <3>3, <3>4
  <2>2. CASE consumer' = Waiting
    BY <2>1, <2>2, GateKept
  <2>3. CASE \E at : Advance(at)
    <3>1. /\ DOMAIN consumer' = DOMAIN consumer
          /\ consumer'.sig = consumer.sig /\ consumer'.tick = consumer.tick
      BY <2>1, <2>3, AdvanceOK
    <3> QED
      BY <2>1, <3>1, GateKept
  <2> QED
    BY <2>1, <2>2, <2>3
<1>7. CASE \E mode \in Modes : Submit(mode)
  BY <1>7, SubmitKept
<1>8. CASE UNCHANGED vars
  <2>1. UNCHANGED <<clock, pending, buffer, bars, swings, queue, consumer, order>>
    BY <1>8 DEF vars, received, built, desk
  <2>2. TakenOK(consumer)' /\ OrderOK'
    BY <2>1 DEF PathInv, TakenOK, OrderOK
  <2>3. (pending # None \/ queue # <<>> => Back(buffer, 1) \in TickRecs)'
    BY <2>1 DEF PathInv, Back
  <2> QED
    BY <2>1, <2>2, <2>3 DEF PathInv
<1> QED
  BY <1>1, <1>2, <1>3, <1>4, <1>5, <1>6, <1>7, <1>8 DEF Next
-----------------------------------------------------------------------------
(* Whatever the market did between the signal and the order, and whichever   *)
(* mode the user chose in between, every order has its stop on the losing    *)
(* side within the limits of its mode, at the signal's swing where that lies *)
(* within them, and its target far enough on the winning side.               *)

THEOREM OrdersAlwaysSound == Spec => []OrdersSound
<1>1. PathInv => OrdersSound
  <2> SUFFICES ASSUME PathInv
               PROVE  OrdersSound
    OBVIOUS
  <2>1. CASE order = None
    BY <2>1, Zenon DEF OrdersSound
  <2>2. CASE order # None
    <3>1. PICK sig \in Signals, tick \in TickRecs, mode \in Modes : order = Priced(sig, tick, mode)
      BY <2>2 DEF PathInv, OrderOK
    <3> QED
      BY <3>1, PricedSound
  <2> QED
    BY <2>1, <2>2
<1>2. PathInv /\ [Next]_vars => PathInv'
  BY PathKept
<1> QED
  BY <1>1, <1>2, PathInit, PTL DEF Spec
-----------------------------------------------------------------------------
(* The rings against the history.                                            *)

LEMMA SizesOK ==
    /\ VelocitySize \in Nat /\ VelocitySize >= 2 /\ Window \in Nat /\ WarmUp \in Nat
    /\ MaxHistory \in Nat /\ RingSize <= MaxHistory
BY SignalPathAssumption DEF SignalPathAssumption

\* The ring's entries are the end of s.
EndOf(ring, s) ==
    /\ ring.count <= Len(s)
    /\ \A k \in 1..ring.count : Back(ring, k) = s[Len(s) - k + 1]

\* And it holds as many of them as it can.
Holding(ring, n, s) ==
    /\ EndOf(ring, s)
    /\ ring.count = IF Len(s) < n THEN Len(s) ELSE n

LEMMA ModTwice ==
    ASSUME NEW n \in Nat \ {0}, NEW a \in Int, 0 <= a, a < n + n
    PROVE  a % n = IF a < n THEN a ELSE a - n
<1>1. CASE a < n
  <2>1. a \in 0..n - 1
    BY <1>1
  <2> QED
    BY <1>1, <2>1, ModSmall
<1>2. CASE ~(a < n)
  <2>1. a - n \in 0..n - 1 /\ (a - n) + n = a
    BY <1>2
  <2>2. ((a - n) + n) % n = a - n
    BY <2>1, ModSmall
  <2> QED
    BY <1>2, <2>1, <2>2
<1> QED
  BY <1>1, <1>2

\* Where the k-th newest entry lies.
LEMMA Place ==
    ASSUME NEW n \in Nat \ {0}, NEW h \in 0..n - 1, NEW k \in 1..n
    PROVE  (h - k + n) % n = IF k <= h THEN h - k ELSE h - k + n
<1>1. h - k + n \in Int /\ 0 <= h - k + n /\ h - k + n < n + n
  OBVIOUS
<1>2. (h - k + n) % n = IF h - k + n < n THEN h - k + n ELSE (h - k + n) - n
  BY <1>1, ModTwice
<1>3. h - k + n # n => (h - k + n < n <=> ~(k <= h))
  OBVIOUS
<1> DEFINE m == (h - k + n) % n
<1> HIDE DEF m
<1>4. m = IF h - k + n < n THEN h - k + n ELSE (h - k + n) - n
  BY <1>2 DEF m
<1>5. m = IF k <= h THEN h - k ELSE h - k + n
  BY <1>4
<1> QED
  BY <1>5 DEF m

LEMMA PushFields ==
    ASSUME NEW n \in Nat \ {0}, NEW S, NEW ring \in Rings(n, S), NEW x \in S
    PROVE  /\ Push(ring, x).size = n
           /\ Push(ring, x).slots = [ring.slots EXCEPT ![ring.head] = x]
           /\ Push(ring, x).head = (ring.head + 1) % n
<1>1. ring.size = n /\ DOMAIN ring = {"size", "slots", "head", "count"}
  <2>1. ring = [size |-> ring.size, slots |-> ring.slots, head |-> ring.head, count |-> ring.count]
    BY DEF Rings
  <2> QED
    BY <2>1 DEF Rings
<1> DEFINE r == Push(ring, x)
<1>2. r = [ring EXCEPT !.slots[ring.head] = x, !.head = (ring.head + 1) % ring.size,
                       !.count = IF @ < ring.size THEN @ + 1 ELSE @]
  BY DEF Push
<1> HIDE DEF r
<1> QED
  BY <1>1, <1>2 DEF r

LEMMA PushCount ==
    ASSUME NEW n \in Nat \ {0}, NEW S, NEW ring \in Rings(n, S), NEW x
    PROVE  /\ ring.count \in 0..n
           /\ ring.count < n => Push(ring, x).count = ring.count + 1
           /\ ring.count = n => Push(ring, x).count = n
<1>1. /\ ring.size = n /\ DOMAIN ring = {"size", "slots", "head", "count"}
      /\ ring.count \in 0..n
  <2>1. ring = [size |-> ring.size, slots |-> ring.slots, head |-> ring.head, count |-> ring.count]
    BY DEF Rings
  <2> QED
    BY <2>1 DEF Rings
<1> DEFINE c == Push(ring, x).count
<1>2. c = IF ring.count < n THEN ring.count + 1 ELSE ring.count
  BY <1>1 DEF Push
<1> HIDE DEF c
<1> QED
  BY <1>1, <1>2 DEF c

\* A push moves every entry one place back, and writes over none of those it keeps.
LEMMA PushBack ==
    ASSUME NEW n \in Nat \ {0}, NEW S, NEW ring \in Rings(n, S), NEW x \in S, NEW k \in 2..n
    PROVE  Back(Push(ring, x), k) = Back(ring, k - 1)
<1> DEFINE h == ring.head
           r == Push(ring, x)
           g == (h + 1) % n
<1>1. /\ ring.size = n /\ h \in 0..n - 1 /\ ring.slots \in [0..n - 1 -> S]
      /\ r.size = n /\ r.head = g /\ r.slots = [ring.slots EXCEPT ![h] = x]
  <2>1. ring.size = n /\ h \in 0..n - 1 /\ ring.slots \in [0..n - 1 -> S]
    BY DEF Rings
  <2>2. r.size = n /\ r.head = g /\ r.slots = [ring.slots EXCEPT ![h] = x]
    <3> HIDE DEF r
    <3>1. r.size = n /\ r.head = (ring.head + 1) % n /\ r.slots = [ring.slots EXCEPT ![ring.head] = x]
      BY PushFields DEF r
    <3> QED
      BY <3>1
  <2> QED
    BY <2>1, <2>2
<1> HIDE DEF h, r
<1>2. g = IF h + 1 < n THEN h + 1 ELSE 0
  <2>1. CASE h + 1 < n
    <3>1. h + 1 \in 0..n - 1
      BY <1>1, <2>1
    <3> QED
      BY <2>1, <3>1, ModSmall
  <2>2. CASE h + 1 = n
    <3>1. 0 \in 0..n - 1
      BY <1>1
    <3>2. (0 + n) % n = 0 /\ 0 + n = n
      BY <3>1, ModSmall
    <3> QED
      BY <2>2, <3>2
  <2>3. h + 1 < n \/ h + 1 = n
    BY <1>1
  <2> QED
    BY <2>1, <2>2, <2>3
<1> HIDE DEF g
<1>3. g \in 0..n - 1 /\ k \in 1..n /\ k - 1 \in 1..n
  BY <1>1, <1>2
<1> DEFINE p == (g - k + n) % n
           q == (h - (k - 1) + n) % n
<1>4. p = IF k <= g THEN g - k ELSE g - k + n
  BY <1>3, Place
<1>5. q = IF k - 1 <= h THEN h - (k - 1) ELSE h - (k - 1) + n
  BY <1>1, <1>3, Place
<1>6. Back(r, k) = r.slots[p] /\ Back(ring, k - 1) = ring.slots[q]
  BY <1>1 DEF Back, h
<1> HIDE DEF p, q
<1>7. p = q /\ p # h /\ p \in 0..n - 1
  BY <1>1, <1>2, <1>3, <1>4, <1>5
<1>8. r.slots[p] = ring.slots[p]
  BY <1>1, <1>7
<1> QED
  BY <1>6, <1>7, <1>8 DEF r

\* A push appends.
LEMMA PushEnd ==
    ASSUME NEW n \in Nat \ {0}, NEW S, NEW ring \in Rings(n, S), NEW x \in S,
           NEW T, NEW s \in Seq(T), x \in T, EndOf(ring, s)
    PROVE  EndOf(Push(ring, x), Append(s, x))
<1> DEFINE r == Push(ring, x)
           t == Append(s, x)
<1>1. /\ ring.count \in 0..n /\ Back(r, 1) = x
      /\ r.count = IF ring.count < n THEN ring.count + 1 ELSE ring.count
  <2>1. ring.count \in 0..n
    BY PushCount
  <2>2. r.count = IF ring.count < n THEN ring.count + 1 ELSE ring.count
    <3>1. (ring.count < n => r.count = ring.count + 1) /\ (ring.count = n => r.count = n)
      BY PushCount
    <3> HIDE DEF r
    <3> QED
      BY <2>1, <3>1
  <2>3. Back(r, 1) = x
    BY PushOK
  <2> QED
    BY <2>1, <2>2, <2>3
<1>2. Len(t) = Len(s) + 1 /\ t[Len(s) + 1] = x /\ \A i \in 1..Len(s) : t[i] = s[i]
  BY AppendProperties
<1>3. Len(s) \in Nat /\ ring.count <= Len(s)
  BY DEF EndOf
<1>4. \A k \in 2..n : Back(r, k) = Back(ring, k - 1)
  BY PushBack
<1> HIDE DEF r, t
<1>5. r.count \in 0..n /\ r.count <= Len(t)
  BY <1>1, <1>2, <1>3
<1>6. ASSUME NEW k \in 1..r.count
      PROVE  Back(r, k) = t[Len(t) - k + 1]
  <2>1. CASE k = 1
    <3>1. Len(t) - k + 1 = Len(s) + 1
      BY <1>2, <1>3, <2>1
    <3> QED
      BY <1>1, <1>2, <2>1, <3>1
  <2>2. CASE k # 1
    <3>1. k \in 2..n /\ k - 1 \in 1..ring.count
      BY <1>1, <1>5, <2>2
    <3>2. Back(r, k) = Back(ring, k - 1)
      BY <1>4, <3>1
    <3>3. Back(ring, k - 1) = s[Len(s) - (k - 1) + 1]
      BY <3>1 DEF EndOf
    <3>4. /\ Len(s) - (k - 1) + 1 \in 1..Len(s)
          /\ Len(t) - k + 1 = Len(s) - (k - 1) + 1
      BY <1>1, <1>2, <1>3, <3>1
    <3> QED
      BY <1>2, <3>2, <3>3, <3>4
  <2> QED
    BY <2>1, <2>2
<1> QED
  BY <1>5, <1>6 DEF EndOf, r, t

LEMMA PushHolding ==
    ASSUME NEW n \in Nat \ {0}, NEW S, NEW ring \in Rings(n, S), NEW x \in S,
           NEW T, NEW s \in Seq(T), x \in T, Holding(ring, n, s)
    PROVE  Holding(Push(ring, x), n, Append(s, x))
<1>1. EndOf(Push(ring, x), Append(s, x))
  BY PushEnd DEF Holding
<1>2. /\ ring.count = IF Len(s) < n THEN Len(s) ELSE n
      /\ ring.count < n => Push(ring, x).count = ring.count + 1
      /\ ring.count = n => Push(ring, x).count = n
  <2>1. ring.count = IF Len(s) < n THEN Len(s) ELSE n
    BY DEF Holding
  <2> QED
    BY <2>1, PushCount
<1>3. Len(Append(s, x)) = Len(s) + 1 /\ Len(s) \in Nat
  BY AppendProperties
<1> DEFINE c == Push(ring, x).count
           l == Len(Append(s, x))
<1> HIDE DEF c, l
<1>4. c = IF l < n THEN l ELSE n
  BY <1>2, <1>3 DEF c, l
<1> QED
  BY <1>1, <1>4 DEF Holding, c, l

LEMMA EmptyHolding ==
    ASSUME NEW n \in Nat \ {0}, NEW zero
    PROVE  Holding(NewRing(n, zero), n, <<>>)
<1>1. NewRing(n, zero).count = 0 /\ Len(<<>>) = 0
  BY DEF NewRing
<1> QED
  BY <1>1 DEF Holding, EndOf

\* The last k of s.
Newest(s, k) == SubSeq(s, IF Len(s) > k THEN Len(s) - k + 1 ELSE 1, Len(s))

LEMMA NewestOK ==
    ASSUME NEW T, NEW s \in Seq(T), NEW k \in Nat
    PROVE  /\ Newest(s, k) \in Seq(T)
           /\ Len(Newest(s, k)) = IF Len(s) > k THEN k ELSE Len(s)
           /\ \A i \in 1..Len(Newest(s, k)) :
                 Newest(s, k)[i] = s[Len(s) - Len(Newest(s, k)) + i]
<1> DEFINE m == IF Len(s) > k THEN Len(s) - k + 1 ELSE 1
           t == SubSeq(s, m, Len(s))
<1>1. Len(s) \in Nat /\ m \in 1..Len(s) + 1
  OBVIOUS
<1>2. /\ t \in Seq(T) /\ Len(t) = IF m <= Len(s) THEN Len(s) - m + 1 ELSE 0
      /\ \A i \in 1..Len(s) - m + 1 : t[i] = s[m + i - 1]
  <2>1. m \in 1..Len(s) + 1 /\ Len(s) \in m - 1..Len(s)
    BY <1>1
  <2> HIDE DEF m
  <2>2. \A i \in m..Len(s) : s[i] \in T
    BY <1>1
  <2>3. m \in Int /\ Len(s) \in Int
    BY <1>1
  <2> QED
    BY <1>1, <2>2, <2>3, SubSeqProperties
<1>3. Newest(s, k) = t
  BY DEF Newest
<1>4. Len(t) = IF Len(s) > k THEN k ELSE Len(s)
  <2>1. m = IF Len(s) > k THEN Len(s) - k + 1 ELSE 1
    OBVIOUS
  <2>2. Len(t) = IF m <= Len(s) THEN Len(s) - m + 1 ELSE 0
    BY <1>2
  <2> DEFINE l == Len(s)
  <2>3. l \in Nat
    BY <1>1
  <2> HIDE DEF t, m, l
  <2>4. CASE l > k
    <3>1. m = l - k + 1
      BY <2>1, <2>4 DEF l
    <3>2. m <= l <=> 1 <= k
      BY <2>3, <3>1
    <3> QED
      BY <2>2, <2>3, <2>4, <3>1, <3>2 DEF l
  <2>5. CASE ~(l > k)
    BY <2>1, <2>2, <2>3, <2>5 DEF l
  <2> QED
    BY <2>4, <2>5
<1>5. ASSUME NEW i \in 1..Len(t)
      PROVE  t[i] = s[Len(s) - Len(t) + i]
  <2> HIDE DEF t
  <2>1. i \in 1..Len(s) - m + 1 /\ m + i - 1 = Len(s) - Len(t) + i
    BY <1>1, <1>4
  <2> HIDE DEF m
  <2> QED
    BY <1>2, <2>1
<1> HIDE DEF t
<1> QED
  BY <1>2, <1>3, <1>4, <1>5

\* Cutting a history to its last k entries does not touch a ring of at most k.
LEMMA CutEnd ==
    ASSUME NEW T, NEW s \in Seq(T), NEW k \in Nat, NEW ring,
           ring.count \in 0..k, EndOf(ring, s)
    PROVE  EndOf(ring, Newest(s, k))
<1> DEFINE t == Newest(s, k)
<1>1. /\ t \in Seq(T) /\ Len(t) = IF Len(s) > k THEN k ELSE Len(s)
      /\ \A i \in 1..Len(t) : t[i] = s[Len(s) - Len(t) + i]
  BY NewestOK
<1> HIDE DEF t
<1>2. Len(s) \in Nat /\ Len(t) \in Nat /\ ring.count \in Nat /\ ring.count <= Len(s)
  BY <1>1 DEF EndOf
<1>3. ring.count <= Len(t)
  BY <1>1, <1>2
<1>4. ASSUME NEW j \in 1..ring.count
      PROVE  Back(ring, j) = t[Len(t) - j + 1]
  <2>1. Len(t) - j + 1 \in 1..Len(t)
    BY <1>2, <1>3
  <2>2. t[Len(t) - j + 1] = s[Len(s) - Len(t) + (Len(t) - j + 1)]
    BY <1>1, <2>1
  <2>3. Len(s) - Len(t) + (Len(t) - j + 1) = Len(s) - j + 1
    BY <1>2
  <2>4. Back(ring, j) = s[Len(s) - j + 1]
    BY DEF EndOf
  <2> QED
    BY <2>2, <2>3, <2>4
<1> QED
  BY <1>3, <1>4 DEF EndOf, t

\* Latest reads the ring forwards from the m-th newest entry.
LEMMA LatestPlace ==
    ASSUME NEW n \in Nat \ {0}, NEW h \in 0..n - 1, NEW m \in 1..n, NEW i \in 1..m
    PROVE  (((h - m + n) % n) + i - 1) % n = (h - (m - i + 1) + n) % n
<1> DEFINE p == (h - m + n) % n
           q == (h - (m - i + 1) + n) % n
<1>1. p = IF m <= h THEN h - m ELSE h - m + n
  BY Place
<1>2. m - i + 1 \in 1..n
  OBVIOUS
<1>3. q = IF m - i + 1 <= h THEN h - (m - i + 1) ELSE h - (m - i + 1) + n
  BY <1>2, Place
<1> HIDE DEF p, q
<1>4. q \in 0..n - 1 /\ (p + i - 1 = q \/ p + i - 1 = q + n)
  BY <1>1, <1>3
<1>5. (p + i - 1) % n = q
  BY <1>4, ModSmall
<1> QED
  BY <1>5 DEF p, q

LEMMA LatestIsEnd ==
    ASSUME NEW n \in Nat \ {0}, NEW S, NEW ring \in Rings(n, S),
           NEW T, NEW s \in Seq(T), Holding(ring, n, s), NEW k \in Nat
    PROVE  Latest(ring, k) = Newest(s, IF k < n THEN k ELSE n)
<1> DEFINE m == IF k > ring.count THEN ring.count ELSE k
           l == IF k < n THEN k ELSE n
           t == Newest(s, l)
           start == (ring.head - m + n) % n
<1>1. /\ ring.size = n /\ ring.head \in 0..n - 1 /\ ring.count \in 0..n
      /\ Len(s) \in Nat /\ ring.count = (IF Len(s) < n THEN Len(s) ELSE n)
  BY DEF Rings, Holding
<1>2. l \in Nat /\ m \in 0..n
  BY <1>1
<1>3. /\ t \in Seq(T) /\ Len(t) = IF Len(s) > l THEN l ELSE Len(s)
      /\ \A i \in 1..Len(t) : t[i] = s[Len(s) - Len(t) + i]
  BY <1>2, NewestOK
<1>4. Len(t) = m
  <2> HIDE DEF t
  <2> QED
    BY <1>1, <1>3
<1>5. Latest(ring, k) = [i \in 1..m |-> ring.slots[(start + i - 1) % n]]
  BY <1>1 DEF Latest
<1>6. m <= ring.count /\ m <= Len(s)
  BY <1>1
<1> HIDE DEF m, l, t
<1>7. ASSUME NEW i \in 1..m
      PROVE  ring.slots[(start + i - 1) % n] = t[i]
  <2>1. m \in 1..n /\ m - i + 1 \in 1..ring.count
    BY <1>1, <1>2, <1>6
  <2>2. (start + i - 1) % n = (ring.head - (m - i + 1) + n) % n
    BY <1>1, <2>1, LatestPlace
  <2> HIDE DEF start
  <2>3. ring.slots[(start + i - 1) % n] = Back(ring, m - i + 1)
    BY <1>1, <2>2 DEF Back
  <2>4. Back(ring, m - i + 1) = s[Len(s) - (m - i + 1) + 1]
    BY <2>1 DEF Holding, EndOf
  <2>5. Len(s) - (m - i + 1) + 1 = Len(s) - m + i
    BY <1>1, <1>2
  <2> QED
    BY <1>3, <1>4, <2>3, <2>4, <2>5
<1> HIDE DEF start
<1>8. t = [i \in 1..m |-> t[i]]
  BY <1>3, <1>4
<1> QED
  BY <1>5, <1>7, <1>8 DEF l, t

LEMMA MaxIs ==
    ASSUME NEW S \in SUBSET Int, NEW x \in S, \A y \in S : x >= y
    PROVE  Max(S) = x
<1>1. Max(S) \in S /\ \A y \in S : Max(S) >= y
  BY DEF Max
<1>2. Max(S) >= x /\ x >= Max(S) /\ Max(S) \in Int /\ x \in Int
  BY <1>1
<1> QED
  BY <1>2

LEMMA LargestOf ==
    ASSUME NEW c \in Nat, NEW S \in SUBSET (0..c), S # {}
    PROVE  \E x \in S : \A y \in S : x >= y
<1> DEFINE D == {c - y : y \in S}
<1>1. D \in SUBSET Nat /\ D # {}
  <2>1. PICK z \in S : TRUE
    OBVIOUS
  <2>2. c - z \in D
    OBVIOUS
  <2>3. \A y \in S : c - y \in Nat
    OBVIOUS
  <2> QED
    BY <2>2, <2>3
<1>2. PICK d \in D : \A e \in D : d <= e
  <2> HIDE DEF D
  <2> QED
    BY <1>1, SmallestOf
<1>3. PICK x \in S : d = c - x
  BY <1>2
<1>4. ASSUME NEW y \in S
      PROVE  x >= y
  <2>1. c - y \in D
    OBVIOUS
  <2>2. x \in Int /\ y \in Int
    OBVIOUS
  <2> HIDE DEF D
  <2>3. c - x <= c - y
    BY <1>2, <1>3, <2>1
  <2> QED
    BY <2>2, <2>3
<1> QED
  BY <1>4

TimesOf(s) == [i \in 1..Len(s) |-> s[i].time]

\* The walk back through the stamps ends behind the newest one that is before the window.
LEMMA WindowOK ==
    ASSUME NEW n \in Nat \ {0}, NEW ring \in Rings(n, Int), NEW s \in Seq(TickRecs),
           n >= 2, Len(s) >= 2, Holding(ring, n, TimesOf(s)), NEW cutoff \in Int
    PROVE  LET stamps == Newest(s, n) IN
           InWindow(ring, cutoff) =
               Len(stamps) - Max({0} \cup {i \in DOMAIN stamps : stamps[i].time < cutoff})
<1> DEFINE c == ring.count
           t == Newest(s, n)
           A == {m \in 0..c : \A k \in 1..m : Back(ring, k) >= cutoff}
           B == {0} \cup {i \in DOMAIN t : t[i].time < cutoff}
<1>1. Len(s) \in Nat /\ Len(TimesOf(s)) = Len(s) /\ \A i \in 1..Len(s) : TimesOf(s)[i] = s[i].time
  BY DEF TimesOf
<1>2. /\ t \in Seq(TickRecs) /\ Len(t) = IF Len(s) > n THEN n ELSE Len(s)
      /\ \A i \in 1..Len(t) : t[i] = s[Len(s) - Len(t) + i]
  BY NewestOK
<1> HIDE DEF t
<1>3. c = IF Len(s) < n THEN Len(s) ELSE n
  BY <1>1 DEF Holding
<1> HIDE DEF c
<1>4. c \in Nat /\ c >= 2 /\ Len(t) = c /\ c <= Len(s) /\ DOMAIN t = 1..c
  BY <1>1, <1>2, <1>3
<1>5. ASSUME NEW i \in 1..c
      PROVE  Back(ring, c - i + 1) = t[i].time /\ t[i].time \in Int
  <2>1. /\ c - i + 1 \in 1..c /\ Len(s) - c + i \in 1..Len(s)
        /\ Len(s) - (c - i + 1) + 1 = Len(s) - c + i
    BY <1>1, <1>4
  <2>2. Back(ring, c - i + 1) = TimesOf(s)[Len(s) - (c - i + 1) + 1]
    BY <1>1, <2>1 DEF Holding, EndOf, c
  <2>3. t[i] = s[Len(s) - c + i] /\ t[i] \in TickRecs
    BY <1>2, <1>4
  <2> QED
    BY <1>1, <2>1, <2>2, <2>3 DEF TickRecs
<1>6. B \in SUBSET (0..c) /\ 0 \in B
  BY <1>4
<1>7. PICK b \in B : \A y \in B : b >= y
  <2> HIDE DEF B
  <2> QED
    BY <1>4, <1>6, LargestOf
<1>8. Max(B) = b
  <2>1. B \in SUBSET Int
    BY <1>6
  <2> HIDE DEF B
  <2> QED
    BY <1>7, <2>1, MaxIs
<1>9. b \in 0..c
  BY <1>6, <1>7
<1>10. c - b \in A
  <2>1. ASSUME NEW k \in 1..c - b
        PROVE  Back(ring, k) >= cutoff
    <3>1. c - k + 1 \in 1..c /\ c - k + 1 > b /\ c - (c - k + 1) + 1 = k
      BY <1>4, <1>9
    <3>2. c - k + 1 \notin B
      <4> HIDE DEF B
      <4> QED
        BY <1>7, <1>9, <3>1
    <3>3. ~(t[c - k + 1].time < cutoff)
      BY <1>4, <3>1, <3>2
    <3>4. Back(ring, k) = t[c - k + 1].time /\ t[c - k + 1].time \in Int
      BY <1>5, <3>1
    <3> QED
      BY <3>3, <3>4
  <2>2. c - b \in 0..c
    BY <1>4, <1>9
  <2> QED
    BY <2>1, <2>2
<1>11. ASSUME NEW m \in A
       PROVE  c - b >= m
  <2>1. m \in 0..c
    OBVIOUS
  <2>2. CASE b = 0
    BY <1>4, <2>1, <2>2
  <2>3. CASE b # 0
    <3>1. b \in 1..c /\ t[b].time < cutoff
      BY <1>4, <1>7, <1>9, <2>3
    <3>2. Back(ring, c - b + 1) = t[b].time /\ t[b].time \in Int
      BY <1>5, <3>1
    <3>3. ~(Back(ring, c - b + 1) >= cutoff)
      BY <3>1, <3>2
    <3>4. c - b + 1 \notin 1..m
      BY <3>3
    <3> QED
      BY <1>4, <2>1, <3>1, <3>4
  <2> QED
    BY <2>2, <2>3
<1>12. Max(A) = c - b
  <2>1. A \in SUBSET Int
    BY <1>4
  <2> HIDE DEF A
  <2> QED
    BY <1>10, <1>11, <2>1, MaxIs
<1>13. InWindow(ring, cutoff) = Max(A)
  BY <1>4 DEF InWindow, c
<1> QED
  BY <1>4, <1>8, <1>12, <1>13 DEF t

\* The extremes of the ring's last k candles are those of the chart's.
LEMMA SwingsAreEnd ==
    ASSUME NEW n \in Nat \ {0}, NEW ring \in Rings(n, CandleRecs), NEW s \in Seq(CandleRecs),
           EndOf(ring, s), NEW k \in 1..ring.count
    PROVE  LET last == Newest(s, k) IN
           /\ SwingHigh(ring, k) = Max({last[i].high : i \in DOMAIN last})
           /\ SwingLow(ring, k) = Min({last[i].low : i \in DOMAIN last})
<1> DEFINE t == Newest(s, k)
<1>1. Len(s) \in Nat /\ ring.count \in Nat /\ ring.count <= Len(s)
  BY DEF EndOf, Rings
<1>2. k \in Nat /\ k # 0 /\ k <= ring.count
  BY <1>1
<1>3. /\ t \in Seq(CandleRecs) /\ Len(t) = IF Len(s) > k THEN k ELSE Len(s)
      /\ \A i \in 1..Len(t) : t[i] = s[Len(s) - Len(t) + i]
  BY <1>2, NewestOK
<1> HIDE DEF t
<1>4. Len(t) = k /\ DOMAIN t = 1..k
  BY <1>1, <1>2, <1>3
<1>5. ASSUME NEW i \in 1..k
      PROVE  t[i] = Back(ring, k - i + 1)
  <2>1. k - i + 1 \in 1..ring.count /\ Len(s) - (k - i + 1) + 1 = Len(s) - k + i
    BY <1>1, <1>2
  <2>2. Back(ring, k - i + 1) = s[Len(s) - (k - i + 1) + 1]
    BY <2>1 DEF EndOf
  <2> QED
    BY <1>3, <1>4, <2>1, <2>2
<1>6. ASSUME NEW j \in 1..k
      PROVE  k - j + 1 \in 1..k /\ t[k - j + 1] = Back(ring, j)
  <2>1. k - j + 1 \in 1..k /\ k - (k - j + 1) + 1 = j
    BY <1>2
  <2> QED
    BY <1>5, <2>1
<1>7. /\ {Back(ring, j).high : j \in 1..k} = {t[i].high : i \in DOMAIN t}
      /\ {Back(ring, j).low : j \in 1..k} = {t[i].low : i \in DOMAIN t}
  <2>1. \A i \in 1..k : k - i + 1 \in 1..k
    BY <1>6
  <2> QED
    BY <1>4, <1>5, <1>6, <2>1
<1>8. Min({k, ring.count}) = k
  <2>1. {k, ring.count} \in SUBSET Nat
    BY <1>1, <1>2
  <2>2. Min({k, ring.count}) \in {k, ring.count} /\ \A y \in {k, ring.count} : Min({k, ring.count}) <= y
    BY <2>1, SmallestOf DEF Min
  <2> QED
    BY <1>1, <1>2, <2>2
<1>9. /\ SwingHigh(ring, k) = Max({Back(ring, j).high : j \in 1..k})
      /\ SwingLow(ring, k) = Min({Back(ring, j).low : j \in 1..k})
  BY <1>2, <1>8 DEF SwingHigh, SwingLow
<1> QED
  BY <1>7, <1>9 DEF t

\* The buffer holds the last ticks, the velocity filter their stamps, and the strategies'
\* rings the last candles of the chart, from the one on that made them warm.
HistoryInv ==
    /\ ticks \in Seq(TickRecs) /\ Holding(buffer, BufferSize, ticks)
    /\ velocity \in Rings(VelocitySize, Int)
    /\ Holding(velocity, VelocitySize, TimesOf(ticks))
    /\ candles \in Seq(CandleRecs) /\ Len(candles) <= MaxHistory /\ EndOf(swings, candles)
    /\ swings.count > 0 => Len(candles) + 1 >= WarmUp

LEMMA HistoryInit == Init => HistoryInv
<1> SUFFICES ASSUME Init
             PROVE  HistoryInv
  OBVIOUS
<1>1. ticks = <<>> /\ candles = <<>> /\ TimesOf(ticks) = <<>>
  BY DEF Init, TimesOf
<1>2. Holding(buffer, BufferSize, ticks)
  BY <1>1, ConstantsOK, EmptyHolding DEF Init
<1>3. velocity \in Rings(VelocitySize, Int) /\ Holding(velocity, VelocitySize, TimesOf(ticks))
  <2>1. VelocitySize \in Nat \ {0} /\ 0 \in Int
    BY SizesOK
  <2> QED
    BY <1>1, <2>1, EmptyHolding, NewRingOK DEF Init
<1>4. EndOf(swings, candles) /\ swings.count = 0
  <2>1. Holding(swings, RingSize, candles)
    BY <1>1, ConstantsOK, EmptyHolding DEF Init
  <2> QED
    BY <2>1 DEF Holding, Init, NewRing
<1> QED
  BY <1>1, <1>2, <1>3, <1>4, SizesOK DEF HistoryInv

LEMMA HistoryReceive ==
    ASSUME PathInv, HistoryInv, NEW a \in Arrivals, NEW mid \in Prices, Receive(a[1], a[2], mid)
    PROVE  HistoryInv'
<1> DEFINE now == clock + a[1]
           tick == [time |-> now - a[2], mid |-> mid]
<1>1. /\ ticks' = Append(ticks, tick) /\ buffer' = Push(buffer, tick)
      /\ velocity' = Push(velocity, tick.time) /\ UNCHANGED <<candles, swings>>
  BY DEF Receive, Stamp, built
<1>2. tick \in TickRecs /\ tick.time \in Int
  <2>1. a[1] \in Nat /\ a[2] \in Nat /\ mid \in Nat /\ clock \in Nat
    BY ConstantsOK DEF PathInv
  <2>2. now - a[2] \in Int
    BY <2>1
  <2> QED
    BY <2>1, <2>2 DEF TickRecs
<1> HIDE DEF now, tick
<1>3. ticks' \in Seq(TickRecs) /\ Len(ticks') = Len(ticks) + 1 /\ Len(ticks) \in Nat
      /\ ticks'[Len(ticks) + 1] = tick /\ \A i \in 1..Len(ticks) : ticks'[i] = ticks[i]
  BY <1>1, <1>2, AppendProperties DEF HistoryInv
<1>4. Holding(buffer', BufferSize, ticks')
  <2>1. buffer \in Rings(BufferSize, {None} \cup TickRecs) /\ tick \in {None} \cup TickRecs
    BY <1>2 DEF PathInv
  <2>2. ticks \in Seq(TickRecs) /\ Holding(buffer, BufferSize, ticks)
    BY DEF HistoryInv
  <2>3. Holding(Push(buffer, tick), BufferSize, Append(ticks, tick))
    BY <1>2, <2>1, <2>2, ConstantsOK, PushHolding
  <2> QED
    BY <1>1, <2>3
<1>5. /\ velocity' \in Rings(VelocitySize, Int)
      /\ Holding(velocity', VelocitySize, TimesOf(ticks'))
  <2>1. VelocitySize \in Nat \ {0} /\ velocity \in Rings(VelocitySize, Int)
        /\ Holding(velocity, VelocitySize, TimesOf(ticks)) /\ ticks \in Seq(TickRecs)
    BY SizesOK DEF HistoryInv
  <2>2. TimesOf(ticks) \in Seq(Int)
    <3>1. \A i \in 1..Len(ticks) : ticks[i].time \in Int
      <4>1. \A i \in 1..Len(ticks) : ticks[i] \in TickRecs
        BY <2>1
      <4> QED
        BY <4>1 DEF TickRecs
    <3> QED
      BY <1>3, <3>1 DEF TimesOf
  <2>3. TimesOf(ticks') = Append(TimesOf(ticks), tick.time)
    <3> DEFINE u == TimesOf(ticks)
               w == TimesOf(ticks')
    <3>1. /\ Len(u) = Len(ticks) /\ \A i \in 1..Len(ticks) : u[i] = ticks[i].time
          /\ w = [i \in 1..Len(ticks) + 1 |-> ticks'[i].time]
      BY <1>3 DEF TimesOf
    <3> HIDE DEF u, w
    <3>2. u \in Seq(Int)
      BY <2>2 DEF u
    <3>3. \A i \in 1..Len(ticks) + 1 :
             w[i] = IF i = Len(ticks) + 1 THEN tick.time ELSE u[i]
      BY <1>3, <3>1
    <3>4. /\ Append(u, tick.time) \in Seq(Int) /\ Len(Append(u, tick.time)) = Len(ticks) + 1
          /\ \A i \in 1..Len(ticks) : Append(u, tick.time)[i] = u[i]
          /\ Append(u, tick.time)[Len(ticks) + 1] = tick.time
      BY <1>2, <3>1, <3>2, AppendProperties
    <3> DEFINE v == Append(u, tick.time)
    <3>5. v = [i \in 1..Len(ticks) + 1 |-> v[i]]
      BY <3>4
    <3> HIDE DEF v
    <3>6. \A i \in 1..Len(ticks) + 1 : w[i] = v[i]
      BY <1>3, <3>3, <3>4 DEF v
    <3>7. w = v
      BY <3>1, <3>5, <3>6
    <3> QED
      BY <3>7 DEF u, v, w
  <2>4. Holding(Push(velocity, tick.time), VelocitySize, Append(TimesOf(ticks), tick.time))
    BY <1>2, <2>1, <2>2, PushHolding
  <2>5. Push(velocity, tick.time) \in Rings(VelocitySize, Int)
    BY <1>2, <2>1, PushOK
  <2> QED
    BY <1>1, <2>3, <2>4, <2>5
<1>6. (Holding(buffer, BufferSize, ticks))' /\ (Holding(velocity, VelocitySize, TimesOf(ticks)))'
  BY <1>4, <1>5 DEF Holding, EndOf, Back, TimesOf
<1>7. EndOf(swings, candles)' /\ (swings.count > 0 => Len(candles) + 1 >= WarmUp)'
  BY <1>1 DEF HistoryInv, EndOf, Back
<1> QED
  BY <1>1, <1>3, <1>5, <1>6, <1>7 DEF HistoryInv

LEMMA HistoryStays ==
    ASSUME HistoryInv, UNCHANGED <<ticks, buffer, velocity, candles, swings>>
    PROVE  HistoryInv'
BY DEF HistoryInv, Holding, EndOf, Back, TimesOf

LEMMA HistoryProcess ==
    ASSUME PathInv, HistoryInv, Process
    PROVE  HistoryInv'
<1> DEFINE candle == Completed(bars["Base"])
           all == Append(candles, candle)
<1>1. /\ pending # None /\ UNCHANGED <<ticks, buffer, velocity>>
      /\ \/ UNCHANGED <<candles, swings>>
         \/ candles' = AddRecentCandle(candle) /\ swings' = FeedRings(candle)
  BY DEF Process, received
<1>2. candle \in CandleRecs
  BY <1>1, AggregateOK DEF PathInv, Frames
<1> HIDE DEF candle
<1>3. AddRecentCandle(candle) = Newest(all, MaxHistory)
  BY DEF AddRecentCandle, Newest
<1>4. /\ candles \in Seq(CandleRecs) /\ EndOf(swings, candles)
      /\ swings.count > 0 => Len(candles) + 1 >= WarmUp
      /\ swings \in Rings(RingSize, CandleRecs)
  BY DEF HistoryInv, PathInv
<1>5. all \in Seq(CandleRecs) /\ Len(all) = Len(candles) + 1 /\ Len(candles) \in Nat
  BY <1>2, <1>4, AppendProperties
<1>6. CASE UNCHANGED <<candles, swings>>
  BY <1>1, <1>6, HistoryStays
<1>7. CASE candles' = AddRecentCandle(candle) /\ swings' = FeedRings(candle)
  <2>1. candles' = Newest(all, MaxHistory)
    BY <1>3, <1>7
  <2>2. /\ candles' \in Seq(CandleRecs)
        /\ Len(candles') = IF Len(all) > MaxHistory THEN MaxHistory ELSE Len(all)
    BY <1>5, <2>1, NewestOK, SizesOK
  <2>3. ASSUME Len(candles) + 1 >= WarmUp
        PROVE  EndOf(swings', candles') /\ (swings'.count > 0 => Len(candles') + 1 >= WarmUp)
    <3>1. swings' = Push(swings, candle)
      BY <1>7, <2>3 DEF FeedRings
    <3>2. EndOf(Push(swings, candle), all)
      BY <1>2, <1>4, ConstantsOK, PushEnd
    <3>3. Push(swings, candle) \in Rings(RingSize, CandleRecs)
      BY <1>2, <1>4, ConstantsOK, PushOK
    <3>4. Push(swings, candle).count \in 0..MaxHistory
      BY <3>3, ConstantsOK, SizesOK DEF Rings
    <3>5. EndOf(Push(swings, candle), Newest(all, MaxHistory))
      BY <1>5, <3>2, <3>4, CutEnd, SizesOK
    <3>6. EndOf(swings', candles')
      BY <2>1, <3>1, <3>5
    <3>7. Len(candles') + 1 >= WarmUp
      <4>1. Len(candles) <= MaxHistory
        BY DEF HistoryInv
      <4> QED
        BY <1>5, <2>2, <2>3, <4>1, SizesOK
    <3> QED
      BY <3>6, <3>7
  <2>4. ASSUME ~(Len(candles) + 1 >= WarmUp)
        PROVE  EndOf(swings', candles') /\ (swings'.count > 0 => Len(candles') + 1 >= WarmUp)
    <3>1. swings' = swings /\ swings.count \in Nat /\ ~(swings.count > 0)
      BY <1>4, <1>7, <2>4 DEF FeedRings, Rings
    <3>2. swings'.count = 0 /\ 1..swings'.count = {} /\ Len(candles') \in Nat
      BY <2>2, <3>1
    <3> QED
      BY <3>2 DEF EndOf
  <2>5. EndOf(swings', candles') /\ (swings'.count > 0 => Len(candles') + 1 >= WarmUp)
    BY <2>3, <2>4
  <2>6. EndOf(swings, candles)'
    BY <2>5 DEF EndOf, Back
  <2>7. Len(candles') <= MaxHistory
    BY <1>5, <2>2, SizesOK
  <2>8. /\ Holding(buffer, BufferSize, ticks)' /\ velocity' \in Rings(VelocitySize, Int)
        /\ Holding(velocity, VelocitySize, TimesOf(ticks))' /\ ticks' \in Seq(TickRecs)
    BY <1>1 DEF HistoryInv, Holding, EndOf, Back, TimesOf
  <2> QED
    BY <2>2, <2>5, <2>6, <2>7, <2>8 DEF HistoryInv
<1> QED
  BY <1>1, <1>6, <1>7

LEMMA HistoryKept ==
    ASSUME PathInv, HistoryInv, [Next]_vars
    PROVE  HistoryInv'
<1>1. CASE \E a \in Arrivals, mid \in Prices : Receive(a[1], a[2], mid)
  BY <1>1, HistoryReceive
<1>2. CASE Process
  BY <1>2, HistoryProcess
<1>3. CASE Take \/ Avoid \/ Drop \/ TrendGate \/ ConfluenceGate \/ ScoreOff
           \/ (\E atr \in ATRs, extremeRSI \in BOOLEAN : LevelGate(atr, extremeRSI))
           \/ (\E regime \in {"Noise", "Bull", "Bear"}, confidence \in Percents, trigger \in Percents,
                  set \in {FileSettings} \cup {Settings(m) : m \in Modes} :
                  ScoreGate(regime, confidence, trigger, set))
           \/ (\E mode \in Modes : Submit(mode))
           \/ UNCHANGED vars
  <2>1. UNCHANGED <<ticks, buffer, velocity, candles, swings>>
    BY <1>3 DEF Take, Avoid, Drop, TrendGate, ConfluenceGate, ScoreOff, LevelGate, ScoreGate,
                Submit, vars, received, built
  <2> QED
    BY <2>1, HistoryStays
<1> QED
  BY <1>1, <1>2, <1>3 DEF Next

LEMMA PathInvariant == Spec => [](PathInv /\ HistoryInv)
<1>1. PathInv /\ HistoryInv /\ [Next]_vars => (PathInv /\ HistoryInv)'
  BY PathKept, HistoryKept
<1> QED
  BY <1>1, PathInit, HistoryInit, PTL DEF Spec

\* However often the rings have wrapped around, for every size, window and series of
\* ticks: Latest gives the last ticks in order, the velocity filter counts those behind the
\* newest stamp before the window, and the swings are those of the last candles.
THEOREM RingsHoldTheNewest == Spec => []RecentTicks
<1>1. PathInv /\ HistoryInv => RecentTicks
  <2> SUFFICES ASSUME PathInv, HistoryInv
               PROVE  RecentTicks
    OBVIOUS
  <2> DEFINE Buffered(k) == Latest(buffer, k) = Newest(ticks, Smaller(k, BufferSize))
             Cutoffs == {ticks[i].time - d : i \in DOMAIN ticks, d \in {0, Window}}
             Counted(cutoff) ==
                 LET stamps == Newest(ticks, VelocitySize) IN
                 InWindow(velocity, cutoff) =
                     Len(stamps) - Max({0} \cup {i \in DOMAIN stamps : stamps[i].time < cutoff})
             Swung(k) ==
                 LET last == Newest(candles, k) IN
                 /\ SwingHigh(swings, k) = Max({last[i].high : i \in DOMAIN last})
                 /\ SwingLow(swings, k) = Min({last[i].low : i \in DOMAIN last})
             All == /\ \A k \in 1..(BufferSize + 1) : Buffered(k)
                    /\ Len(ticks) >= 2 => \A cutoff \in Cutoffs : Counted(cutoff)
                    /\ swings.count > 0 => \A k \in 1..swings.count : Swung(k)
  <2>1. ASSUME NEW k \in 1..(BufferSize + 1)
        PROVE  Buffered(k)
    <3>1. k \in Nat /\ Smaller(k, BufferSize) = IF k < BufferSize THEN k ELSE BufferSize
      BY ConstantsOK DEF Smaller
    <3> QED
      BY <3>1, ConstantsOK, LatestIsEnd DEF PathInv, HistoryInv
  <2>2. ASSUME Len(ticks) >= 2, NEW cutoff \in Cutoffs
        PROVE  Counted(cutoff)
    <3>1. cutoff \in Int
      <4>1. PICK i \in DOMAIN ticks, d \in {0, Window} : cutoff = ticks[i].time - d
        BY <2>2
      <4>2. ticks[i] \in TickRecs /\ d \in Int
        BY SizesOK DEF HistoryInv
      <4>3. ticks[i].time \in Int
        BY <4>2 DEF TickRecs
      <4> QED
        BY <4>1, <4>2, <4>3
    <3> QED
      BY <2>2, <3>1, SizesOK, WindowOK DEF HistoryInv
  <2>3. ASSUME NEW k \in 1..swings.count
        PROVE  Swung(k)
    BY ConstantsOK, SwingsAreEnd DEF PathInv, HistoryInv
  <2>4. RecentTicks <=> All
    BY SMT DEF RecentTicks, Newest
  <2> HIDE DEF Buffered, Counted, Swung, Cutoffs
  <2> QED
    BY <2>1, <2>2, <2>3, <2>4
<1> QED
  BY <1>1, PathInvariant, PTL
-----------------------------------------------------------------------------
(* The candles against the history.                                          *)

\* The multiple of p below t, and those around it.
LEMMA FloorOK ==
    ASSUME NEW t \in Int, NEW p \in Nat \ {0}
    PROVE  /\ (t \div p) * p \in Int
           /\ (t \div p) * p <= t /\ t < (t \div p) * p + p
<1>1. t = p * (t \div p) + (t % p) /\ t % p \in 0..p - 1
  OBVIOUS
<1>2. t \div p \in Int /\ p * (t \div p) = (t \div p) * p /\ (t \div p) * p \in Int
  OBVIOUS
<1> QED
  BY <1>1, <1>2

LEMMA GridOK ==
    ASSUME NEW p \in Nat \ {0}, NEW j \in Int, NEW k \in Int, j * p < k * p + p
    PROVE  j * p <= k * p
<1>1. j <= k
  <2> SUFFICES ASSUME j >= k + 1
               PROVE  FALSE
    OBVIOUS
  <2>1. j * p = (k + 1) * p + (j - k - 1) * p /\ (j - k - 1) * p >= 0
    OBVIOUS
  <2> QED
    BY <2>1
<1>2. k * p = j * p + (k - j) * p /\ (k - j) * p >= 0
  BY <1>1
<1> QED
  BY <1>2

\* No multiple of p lies strictly between a time's candle's start and its end.
LEMMA BoundaryOK ==
    ASSUME NEW t \in Int, NEW p \in Nat \ {0}, NEW m \in Int
    PROVE  /\ m * p <= t => m * p <= (t \div p) * p
           /\ t < m * p => (t \div p) * p + p <= m * p
<1> DEFINE k == t \div p
<1>1. k \in Int /\ k * p \in Int /\ m * p \in Int /\ k * p <= t /\ t < k * p + p
  BY FloorOK
<1> HIDE DEF k
<1>2. ASSUME m * p <= t
      PROVE  m * p <= k * p
  <2>1. m * p < k * p + p
    BY <1>1, <1>2
  <2> QED
    BY <1>1, <2>1, GridOK
<1>3. ASSUME t < m * p
      PROVE  k * p + p <= m * p
  <2>1. (k + 1) * p = k * p + p
    BY <1>1
  <2>2. k * p < m * p
    BY <1>1, <1>3
  <2>3. (k + 1) * p < m * p + p /\ k + 1 \in Int
    BY <1>1, <2>1, <2>2
  <2>4. (k + 1) * p <= m * p
    BY <2>3, GridOK
  <2> QED
    BY <2>1, <2>4
<1> QED
  BY <1>2, <1>3 DEF k

\* A period that another one divides is a multiple of it.
LEMMA DividesOK ==
    ASSUME NEW p \in Nat \ {0}, NEW r \in Nat \ {0}, r % p = 0
    PROVE  r \div p \in Int /\ r = (r \div p) * p
<1>1. r = p * (r \div p) + (r % p) /\ r \div p \in Int /\ p * (r \div p) = (r \div p) * p
  OBVIOUS
<1> QED
  BY <1>1

LEMMA PairIs ==
    ASSUME NEW a \in Nat, NEW b \in Nat
    PROVE  /\ Max({a, b}) = (IF a >= b THEN a ELSE b)
           /\ Min({a, b}) = (IF a <= b THEN a ELSE b)
<1>1. \E x \in {a, b} : \A y \in {a, b} : x >= y
  OBVIOUS
<1>2. \E x \in {a, b} : \A y \in {a, b} : x <= y
  OBVIOUS
<1>3. Max({a, b}) \in {a, b} /\ \A y \in {a, b} : Max({a, b}) >= y
  BY <1>1 DEF Max
<1>4. Min({a, b}) \in {a, b} /\ \A y \in {a, b} : Min({a, b}) <= y
  BY <1>2 DEF Min
<1> QED
  BY <1>3, <1>4

\* A candle sums up the ticks from the o-th to the n-th.
SumsUp(c, s, o, n) ==
    /\ c.open = s[o].mid /\ c.close = s[n].mid
    /\ (\A i \in o..n : s[i].mid <= c.high) /\ (\E i \in o..n : s[i].mid = c.high)
    /\ (\A i \in o..n : c.low <= s[i].mid) /\ (\E i \in o..n : s[i].mid = c.low)
    /\ c.ticks = n - o + 1 /\ c.buy + c.sell = 2 * (n - o)

\* A builder whose candle was opened by the o-th tick and has seen n.
FrameOK(a, s, o, n) ==
    /\ o \in 1..n /\ a.hasData /\ SumsUp(a.candle, s, o, n)
    /\ a.candle.start = (s[o].time \div a.period) * a.period
    /\ a.end = a.candle.start + a.period
    /\ \A i \in o..n : s[i].time < a.end

LEMMA TickOK ==
    ASSUME NEW s \in Seq(TickRecs), NEW i \in 1..Len(s)
    PROVE  s[i] \in TickRecs /\ s[i].time \in Int /\ s[i].mid \in Nat
<1>1. s[i] \in TickRecs
  OBVIOUS
<1> QED
  BY <1>1 DEF TickRecs

LEMMA FreshFrame ==
    ASSUME NEW a \in BarRecs, NEW s \in Seq(TickRecs), NEW m \in 1..Len(s)
    PROVE  /\ FrameOK(StartNewCandle(a, s[m]), s, m, m)
           /\ StartNewCandle(a, s[m]).period = a.period
<1> DEFINE c == NewCandle(s[m], a.period)
           b == StartNewCandle(a, s[m])
<1>1. /\ a.period \in Nat \ {0} /\ s[m].time \in Int /\ s[m].mid \in Nat /\ m \in Nat /\ m >= 1
      /\ DOMAIN a = {"period", "candle", "hasData", "end", "mid", "direction"}
  BY TickOK DEF BarRecs
<1>2. /\ c.open = s[m].mid /\ c.high = s[m].mid /\ c.low = s[m].mid /\ c.close = s[m].mid
      /\ c.ticks = 1 /\ c.buy = 0 /\ c.sell = 0
      /\ c.start = (s[m].time \div a.period) * a.period
  BY DEF NewCandle
<1>3. b = [a EXCEPT !.candle = c, !.end = c.start + a.period, !.hasData = TRUE, !.mid = s[m].mid]
  BY DEF StartNewCandle
<1> HIDE DEF c, b
<1>4. /\ b.candle = c /\ b.end = c.start + a.period /\ b.hasData = TRUE /\ b.period = a.period
  BY <1>1, <1>3
<1>5. SumsUp(b.candle, s, m, m)
  <2>1. m..m = {m} /\ m - m + 1 = 1 /\ 2 * (m - m) = 0
    BY <1>1
  <2> QED
    BY <1>1, <1>2, <1>4, <2>1 DEF SumsUp
<1>6. \A i \in m..m : s[i].time < b.end
  <2>1. s[m].time < (s[m].time \div a.period) * a.period + a.period
    BY <1>1, FloorOK
  <2> QED
    BY <1>1, <1>2, <1>4, <2>1
<1>7. m \in 1..m
  BY <1>1
<1> QED
  BY <1>2, <1>4, <1>5, <1>6, <1>7 DEF FrameOK, b

LEMMA ExtendedFrame ==
    ASSUME NEW a \in BarRecs, NEW s \in Seq(TickRecs), NEW m \in 1..Len(s), NEW o \in Nat,
           FrameOK(a, s, o, m - 1), s[m].time < a.end
    PROVE  /\ FrameOK(Extend(a, s[m]), s, o, m)
           /\ Extend(a, s[m]).period = a.period
<1> DEFINE d == Direction(a, s[m])
           t == Stretch(a.candle, s[m].mid)
           c == [t EXCEPT !.ticks = @ + 1, !.buy = @ + 1 + d, !.sell = @ + 1 - d]
           b == Extend(a, s[m])
           x == s[m].mid
           h == a.candle.high
           l == a.candle.low
<1>1. /\ s[m].time \in Int /\ x \in Nat /\ m \in Nat /\ m >= 1 /\ a.period \in Nat \ {0}
      /\ DOMAIN a = {"period", "candle", "hasData", "end", "mid", "direction"}
      /\ a.candle \in CandleRecs /\ h \in Nat /\ l \in Nat
  BY TickOK DEF BarRecs, CandleRecs
<1>2. d \in {-1, 0, 1}
  BY DEF Direction, BarRecs
<1>3. /\ t.open = a.candle.open /\ t.close = x /\ t.ticks = a.candle.ticks
      /\ t.buy = a.candle.buy /\ t.sell = a.candle.sell /\ t.start = a.candle.start
      /\ t.high = Max({h, x}) /\ t.low = Min({l, x}) /\ t \in CandleRecs
      /\ t.ticks \in Int /\ t.buy \in Int /\ t.sell \in Int
  <2>1. t \in CandleRecs
    BY <1>1, StretchOK
  <2>2. t.ticks \in Int /\ t.buy \in Int /\ t.sell \in Int
    BY <2>1 DEF CandleRecs
  <2> QED
    BY <1>1, <2>1, <2>2 DEF Stretch, CandleRecs
<1>4. b = [a EXCEPT !.mid = x, !.direction = d, !.candle = c]
  BY DEF Extend
<1>5. b.candle = c /\ b.end = a.end /\ b.hasData = a.hasData /\ b.period = a.period
  <2> HIDE DEF b, c, d, x
  <2> QED
    BY <1>1, <1>4
<1> HIDE DEF d, t
<1>6. /\ c.open = a.candle.open /\ c.close = x /\ c.start = a.candle.start
      /\ c.high = Max({h, x}) /\ c.low = Min({l, x})
      /\ c.ticks = a.candle.ticks + 1
      /\ c.buy = a.candle.buy + 1 + d /\ c.sell = a.candle.sell + 1 - d
  BY <1>3 DEF CandleRecs
<1>7. /\ o \in 1..m - 1 /\ a.hasData /\ SumsUp(a.candle, s, o, m - 1)
      /\ a.candle.start = (s[o].time \div a.period) * a.period
      /\ a.end = a.candle.start + a.period
      /\ \A i \in o..m - 1 : s[i].time < a.end
  BY DEF FrameOK
<1>8. \A i \in o..m : i \in o..m - 1 \/ i = m
  BY <1>1, <1>7
<1>9. o..m - 1 \subseteq o..m /\ m \in o..m /\ o \in 1..m
  BY <1>1, <1>7
<1>10. \A i \in o..m : s[i].mid \in Nat
  <2>1. \A i \in o..m : i \in 1..Len(s)
    BY <1>1, <1>7
  <2> QED
    BY <2>1, TickOK
<1>11. a.candle.buy \in Int /\ a.candle.sell \in Int
  BY <1>1 DEF CandleRecs
<1> HIDE DEF c
<1>12. SumsUp(c, s, o, m)
  <2>1. /\ c.high = (IF h >= x THEN h ELSE x) /\ c.low = (IF l <= x THEN l ELSE x)
    BY <1>1, <1>6, PairIs
  <2>2. (\A i \in o..m : s[i].mid <= c.high) /\ (\A i \in o..m : c.low <= s[i].mid)
    <3>1. \A i \in o..m - 1 : s[i].mid <= h /\ l <= s[i].mid
      BY <1>7 DEF SumsUp
    <3> SUFFICES ASSUME NEW i \in o..m
                 PROVE  s[i].mid <= c.high /\ c.low <= s[i].mid
      OBVIOUS
    <3>2. s[i].mid \in Nat
      BY <1>10
    <3>3. CASE i \in o..m - 1
      BY <1>1, <2>1, <3>1, <3>2, <3>3
    <3>4. CASE i = m
      BY <1>1, <2>1, <3>2, <3>4
    <3> QED
      BY <1>8, <3>3, <3>4
  <2>3. \E i \in o..m : s[i].mid = c.high
    <3>1. PICK i \in o..m - 1 : s[i].mid = h
      BY <1>7 DEF SumsUp
    <3> QED
      BY <1>9, <2>1, <3>1
  <2>4. \E i \in o..m : s[i].mid = c.low
    <3>1. PICK i \in o..m - 1 : s[i].mid = l
      BY <1>7 DEF SumsUp
    <3> QED
      BY <1>9, <2>1, <3>1
  <2>5. c.ticks = m - o + 1 /\ c.buy + c.sell = 2 * (m - o)
    <3>1. a.candle.ticks = m - 1 - o + 1 /\ a.candle.buy + a.candle.sell = 2 * (m - 1 - o)
      BY <1>7 DEF SumsUp
    <3>2. d \in Int /\ o \in Int /\ m \in Int
      BY <1>1, <1>2, <1>7
    <3> DEFINE buy == a.candle.buy
               sell == a.candle.sell
    <3>3. buy \in Int /\ sell \in Int /\ buy + sell = 2 * (m - 1 - o)
      BY <1>11, <3>1
    <3>4. c.buy = buy + 1 + d /\ c.sell = sell + 1 - d
      BY <1>6
    <3> HIDE DEF buy, sell
    <3>5. c.buy + c.sell = (buy + sell) + 2
      BY <3>2, <3>3, <3>4
    <3>6. c.buy + c.sell = 2 * (m - o)
      BY <3>2, <3>3, <3>5
    <3>7. c.ticks = m - o + 1
      BY <1>6, <3>1, <3>2
    <3> QED
      BY <3>6, <3>7
  <2>6. c.open = s[o].mid /\ c.close = s[m].mid
    BY <1>6, <1>7 DEF SumsUp
  <2> QED
    BY <2>2, <2>3, <2>4, <2>5, <2>6 DEF SumsUp
<1>13. \A i \in o..m : s[i].time < b.end
  BY <1>5, <1>7, <1>8
<1> QED
  BY <1>5, <1>6, <1>7, <1>9, <1>12, <1>13 DEF FrameOK, b

\* Whichever of the two the builder does, it has then seen the tick.
LEMMA AggregatedFrame ==
    ASSUME NEW a \in BarRecs, NEW s \in Seq(TickRecs), NEW m \in 1..Len(s), NEW o \in Nat,
           \/ m = 1 /\ o = 1 /\ ~a.hasData
           \/ FrameOK(a, s, o, m - 1)
    PROVE  /\ FrameOK(Aggregate(a, s[m]), s, IF Closes(a, s[m]) THEN m ELSE o, m)
           /\ Aggregate(a, s[m]).period = a.period
<1>1. CASE ~a.hasData
  <2>1. m = 1 /\ o = 1
    BY <1>1 DEF FrameOK
  <2>2. Aggregate(a, s[m]) = StartNewCandle(a, s[m]) /\ ~Closes(a, s[m])
    BY <1>1 DEF Aggregate, Closes
  <2>3. (IF Closes(a, s[m]) THEN m ELSE o) = m
    BY <2>1, <2>2
  <2> QED
    BY <2>2, <2>3, FreshFrame
<1>2. CASE Closes(a, s[m])
  BY <1>2, FreshFrame DEF Aggregate
<1>3. CASE a.hasData /\ ~Closes(a, s[m])
  <2>1. Aggregate(a, s[m]) = Extend(a, s[m])
    BY <1>3 DEF Aggregate
  <2>2. s[m].time < a.end
    <3>1. s[m].time \in Int /\ a.end \in Int
      BY TickOK DEF BarRecs
    <3> QED
      BY <1>3, <3>1 DEF Closes
  <2>3. FrameOK(a, s, o, m - 1)
    BY <1>3
  <2> QED
    BY <1>3, <2>1, <2>2, <2>3, ExtendedFrame
<1> QED
  BY <1>1, <1>2, <1>3

\* Later ticks leave what a builder has seen alone.
LEMMA FrameKept ==
    ASSUME NEW a, NEW s, NEW t, NEW o, NEW n \in Nat, FrameOK(a, s, o, n),
           \A i \in 1..n : t[i] = s[i]
    PROVE  FrameOK(a, t, o, n)
<1>1. o \in 1..n /\ n \in 1..n /\ \A i \in o..n : i \in 1..n
  BY DEF FrameOK
<1>2. t[o] = s[o] /\ t[n] = s[n] /\ \A i \in o..n : t[i] = s[i]
  BY <1>1
<1>3. SumsUp(a.candle, t, o, n)
  BY <1>2 DEF FrameOK, SumsUp
<1> QED
  BY <1>2, <1>3 DEF FrameOK

\* The frames' builders have seen every tick but one that is still pending.
Seen == Len(ticks) - (IF pending = None THEN 0 ELSE 1)

FramesInv ==
    /\ \A f \in Frames : bars[f].period = Periods[f] /\ opened[f] \in Nat
    /\ opened \in [Frames -> Nat]
    /\ pending # None => Len(ticks) > 0 /\ pending = ticks[Len(ticks)]
    /\ Seen = 0 => \A f \in Frames : ~bars[f].hasData /\ opened[f] = 1
    /\ Seen > 0 => \A f \in Frames : FrameOK(bars[f], ticks, opened[f], Seen)

\* Where the candle of a frame lies within that of a frame with a multiple of its period.
Within(a, o, b, p) ==
    p <= o /\ b.candle.start <= a.candle.start /\ a.end <= b.end

NestInv ==
    Seen > 0 => \A f, g \in Frames : Periods[g] % Periods[f] = 0 =>
        Within(bars[f], opened[f], bars[g], opened[g])

LEMMA NoTick == \A t \in TickRecs : t # None
<1>1. \A t \in TickRecs : t \in [time : Int, mid : Int]
  BY DEF TickRecs
<1> QED
  BY <1>1, SignalPathAssumption DEF SignalPathAssumption

LEMMA FramesInit == Init => FramesInv /\ NestInv
<1> SUFFICES ASSUME Init
             PROVE  FramesInv /\ NestInv
  OBVIOUS
<1>1. ticks = <<>> /\ pending = None /\ opened = [f \in Frames |-> 1]
      /\ bars = [f \in Frames |-> NewAggregator(Periods[f])]
  BY DEF Init
<1>2. Seen = 0
  BY <1>1 DEF Seen
<1>3. \A f \in Frames : /\ bars[f].period = Periods[f] /\ opened[f] = 1
                        /\ ~bars[f].hasData
  BY <1>1 DEF NewAggregator
<1>4. opened \in [Frames -> Nat]
  BY <1>1
<1> QED
  BY <1>1, <1>2, <1>3, <1>4 DEF FramesInv, NestInv

\* A new tick: what the builders have seen stays.
LEMMA FramesReceive ==
    ASSUME PathInv, HistoryInv, FramesInv, NestInv,
           NEW a \in Arrivals, NEW mid \in Prices, Receive(a[1], a[2], mid)
    PROVE  FramesInv' /\ NestInv'
<1> DEFINE now == clock + a[1]
           tick == [time |-> now - a[2], mid |-> mid]
           n == Len(ticks)
<1>1. /\ pending = None /\ ticks' = Append(ticks, tick) /\ pending' = tick
      /\ UNCHANGED <<bars, opened>>
  BY DEF Receive, built
<1>2. tick \in TickRecs
  <2>1. a[1] \in Nat /\ a[2] \in Nat /\ mid \in Nat /\ clock \in Nat
    BY ConstantsOK DEF PathInv
  <2>2. now - a[2] \in Int
    BY <2>1
  <2> QED
    BY <2>1, <2>2 DEF TickRecs
<1> HIDE DEF now, tick
<1>3. /\ ticks \in Seq(TickRecs) /\ n \in Nat /\ Len(ticks') = n + 1
      /\ ticks'[n + 1] = tick /\ \A i \in 1..n : ticks'[i] = ticks[i]
  BY <1>1, <1>2, AppendProperties DEF HistoryInv
<1>4. pending' # None
  BY <1>1, <1>2, NoTick
<1>5. Seen = n /\ Seen' = n
  <2>1. Seen = n
    BY <1>1, <1>3 DEF Seen
  <2>2. Seen' = (n + 1) - 1
    BY <1>3, <1>4 DEF Seen
  <2> QED
    BY <1>3, <2>1, <2>2
<1>6. (Seen > 0 => \A f \in Frames : FrameOK(bars[f], ticks, opened[f], Seen))'
  <2> SUFFICES ASSUME n > 0, NEW f \in Frames
               PROVE  FrameOK(bars'[f], ticks', opened'[f], n)
    BY <1>5
  <2>1. FrameOK(bars[f], ticks, opened[f], n)
    BY <1>5 DEF FramesInv
  <2> QED
    BY <1>1, <1>3, <2>1, FrameKept
<1>7. (pending # None => Len(ticks) > 0 /\ pending = ticks[Len(ticks)])'
  BY <1>1, <1>3
<1>8. (Seen = 0 => \A f \in Frames : ~bars[f].hasData /\ opened[f] = 1)'
  BY <1>1, <1>5 DEF FramesInv
<1>9. (/\ \A f \in Frames : bars[f].period = Periods[f] /\ opened[f] \in Nat
       /\ opened \in [Frames -> Nat])'
  BY <1>1 DEF FramesInv
<1>10. NestInv'
  BY <1>1, <1>5 DEF NestInv, Within
<1> QED
  BY <1>6, <1>7, <1>8, <1>9, <1>10 DEF FramesInv

\* Two builders that nest and both see a tick still nest; p and q are the starts of theirs.
LEMMA NestedStep ==
    ASSUME NEW a \in BarRecs, NEW b \in BarRecs, b.period % a.period = 0,
           NEW s \in Seq(TickRecs), NEW m \in 1..Len(s), NEW o \in Nat, NEW p \in Nat,
           \/ m = 1 /\ o = 1 /\ p = 1 /\ ~a.hasData /\ ~b.hasData
           \/ /\ FrameOK(a, s, o, m - 1) /\ FrameOK(b, s, p, m - 1)
              /\ Within(a, o, b, p)
    PROVE  Within(Aggregate(a, s[m]), IF Closes(a, s[m]) THEN m ELSE o,
                  Aggregate(b, s[m]), IF Closes(b, s[m]) THEN m ELSE p)
<1> DEFINE t == s[m].time
           k == b.period \div a.period
           j == t \div b.period
           x == a.period
           y == b.period
           i == s[p].time \div y
           From(c) == (t \div c.period) * c.period
<1>1. /\ x \in Nat \ {0} /\ y \in Nat \ {0} /\ t \in Int /\ m \in Nat /\ m >= 1
      /\ a.end \in Int /\ b.end \in Int
      /\ a.candle.start \in Int /\ b.candle.start \in Int
  <2>1. /\ a.candle \in CandleRecs /\ b.candle \in CandleRecs /\ a.end \in Int /\ b.end \in Int
        /\ a.period \in Nat \ {0} /\ b.period \in Nat \ {0}
    BY DEF BarRecs
  <2>2. a.candle.start \in Int /\ b.candle.start \in Int
    BY <2>1 DEF CandleRecs
  <2>3. s[m].time \in Int
    BY TickOK
  <2>4. m \in Nat /\ m >= 1
    OBVIOUS
  <2> QED
    BY <2>1, <2>2, <2>3, <2>4
<1>2. k \in Int /\ y = k * x
  BY <1>1, DividesOK
<1>3. /\ From(a) \in Int /\ From(a) <= t /\ t < From(a) + x
      /\ From(b) \in Int /\ From(b) <= t /\ t < From(b) + y
  BY <1>1, FloorOK
<1>4. \A c \in {a, b} : /\ StartNewCandle(c, s[m]).candle.start = From(c)
                        /\ StartNewCandle(c, s[m]).end = From(c) + c.period
  <2> SUFFICES ASSUME NEW c \in {a, b}
               PROVE  /\ StartNewCandle(c, s[m]).candle.start = From(c)
                      /\ StartNewCandle(c, s[m]).end = From(c) + c.period
    OBVIOUS
  <2>1. FrameOK(StartNewCandle(c, s[m]), s, m, m) /\ StartNewCandle(c, s[m]).period = c.period
    BY FreshFrame
  <2> QED
    BY <2>1 DEF FrameOK
<1>5. j \in Int /\ j * k \in Int /\ (j * k) * x = From(b) /\ (j * k + k) * x = From(b) + y
  <2>1. j \in Int
    BY <1>1
  <2>2. From(b) = j * y
    OBVIOUS
  <2> HIDE DEF j, k, x, y, From
  <2>3. (j * k) * x = j * (k * x) /\ (j * k + k) * x = j * (k * x) + k * x
    BY <1>1, <1>2, <2>1
  <2> QED
    BY <1>1, <1>2, <2>1, <2>2, <2>3
<1>6. From(b) <= From(a) /\ From(a) + x <= From(b) + y
  <2>1. j * k \in Int /\ j * k + k \in Int
    BY <1>2, <1>5
  <2>2. (j * k) * x <= t => (j * k) * x <= (t \div x) * x
    BY <1>1, <2>1, BoundaryOK
  <2>3. t < (j * k + k) * x => (t \div x) * x + x <= (j * k + k) * x
    BY <1>1, <2>1, BoundaryOK
  <2>4. From(a) = (t \div x) * x
    OBVIOUS
  <2> QED
    BY <1>3, <1>5, <2>2, <2>3, <2>4
<1>7. CASE m = 1 /\ o = 1 /\ p = 1 /\ ~a.hasData /\ ~b.hasData
  <2>1. /\ ~Closes(a, s[m]) /\ ~Closes(b, s[m])
        /\ Aggregate(a, s[m]) = StartNewCandle(a, s[m])
        /\ Aggregate(b, s[m]) = StartNewCandle(b, s[m])
    BY <1>7 DEF Closes, Aggregate
  <2> QED
    BY <1>4, <1>6, <1>7, <2>1 DEF Within
<1>8. CASE FrameOK(a, s, o, m - 1) /\ FrameOK(b, s, p, m - 1) /\ Within(a, o, b, p)
  <2>1. /\ a.hasData /\ b.hasData /\ o \in 1..m - 1 /\ p \in 1..m - 1
        /\ b.candle.start = i * y /\ b.end = i * y + y /\ a.end = a.candle.start + x
        /\ p <= o /\ b.candle.start <= a.candle.start /\ a.end <= b.end
    BY <1>8 DEF FrameOK, Within
  <2>2. /\ Closes(a, s[m]) <=> t >= a.end
        /\ Closes(b, s[m]) <=> t >= b.end
    BY <2>1 DEF Closes
  <2>3. CASE Closes(b, s[m])
    <3>1. Closes(a, s[m])
      BY <1>1, <2>1, <2>2, <2>3
    <3>2. /\ Aggregate(a, s[m]) = StartNewCandle(a, s[m])
          /\ Aggregate(b, s[m]) = StartNewCandle(b, s[m])
      BY <2>3, <3>1 DEF Aggregate
    <3> QED
      BY <1>1, <1>4, <1>6, <2>3, <3>1, <3>2 DEF Within
  <2>4. ASSUME ~Closes(b, s[m])
        PROVE  /\ Aggregate(b, s[m]).candle.start = b.candle.start
               /\ Aggregate(b, s[m]).end = b.end
    <3>1. Aggregate(b, s[m]) = Extend(b, s[m])
      BY <2>1, <2>4 DEF Aggregate
    <3>2. t < b.end
      BY <1>1, <2>2, <2>4
    <3>3. FrameOK(Extend(b, s[m]), s, p, m) /\ Extend(b, s[m]).period = y
      BY <1>8, <3>2, ExtendedFrame
    <3> QED
      BY <2>1, <3>1, <3>3 DEF FrameOK
  <2>5. ASSUME ~Closes(a, s[m])
        PROVE  /\ Aggregate(a, s[m]).candle.start = a.candle.start
               /\ Aggregate(a, s[m]).end = a.end
    <3>1. Aggregate(a, s[m]) = Extend(a, s[m])
      BY <2>1, <2>5 DEF Aggregate
    <3>2. t < a.end
      BY <1>1, <2>2, <2>5
    <3>3. FrameOK(Extend(a, s[m]), s, o, m) /\ Extend(a, s[m]).period = x
      BY <1>8, <3>2, ExtendedFrame
    <3>4. FrameOK(a, s, o, m - 1)
      BY <1>8
    <3> QED
      BY <3>1, <3>3, <3>4 DEF FrameOK
  <2>6. CASE ~Closes(b, s[m]) /\ ~Closes(a, s[m])
    BY <2>1, <2>4, <2>5, <2>6 DEF Within
  <2>7. CASE ~Closes(b, s[m]) /\ Closes(a, s[m])
    <3>1. /\ Aggregate(a, s[m]).candle.start = From(a)
          /\ Aggregate(a, s[m]).end = From(a) + x
      BY <1>4, <2>7 DEF Aggregate
    <3>2. a.end <= t /\ t < b.end /\ b.candle.start <= t
      <4>1. t >= a.end /\ ~(t >= b.end)
        BY <2>2, <2>7
      <4>2. a.end = a.candle.start + x /\ b.candle.start <= a.candle.start
        BY <2>1
      <4> HIDE DEF t, x
      <4> QED
        BY <1>1, <4>1, <4>2
    <3>3. i \in Int /\ i * k \in Int /\ (i * k) * x = i * y /\ (i * k + k) * x = i * y + y
      <4>1. i \in Int
        <5>1. p \in 1..Len(s)
          BY <1>1, <2>1
        <5>2. s[p].time \in Int
          BY <5>1, TickOK
        <5> QED
          BY <1>1, <5>2
      <4> HIDE DEF i, k, x, y
      <4>2. (i * k) * x = i * (k * x) /\ (i * k + k) * x = i * (k * x) + k * x
        BY <1>1, <1>2, <4>1
      <4> QED
        BY <1>1, <1>2, <4>1, <4>2
    <3>4. b.candle.start <= From(a) /\ From(a) + x <= b.end
      <4>1. i * k \in Int /\ i * k + k \in Int
        BY <1>2, <3>3
      <4>2. (i * k) * x <= t => (i * k) * x <= (t \div x) * x
        BY <1>1, <4>1, BoundaryOK
      <4>3. t < (i * k + k) * x => (t \div x) * x + x <= (i * k + k) * x
        BY <1>1, <4>1, BoundaryOK
      <4>4. From(a) = (t \div x) * x
        OBVIOUS
      <4> QED
        BY <2>1, <3>2, <3>3, <4>2, <4>3, <4>4
    <3>5. p <= m
      BY <1>1, <2>1
    <3> QED
      BY <2>4, <2>7, <3>1, <3>4, <3>5 DEF Within
  <2> QED
    BY <2>3, <2>6, <2>7
<1> QED
  BY <1>7, <1>8

\* The pending tick is the one every builder sees next.
LEMMA PendingIsNext ==
    ASSUME PathInv, HistoryInv, FramesInv, pending # None
    PROVE  /\ Len(ticks) \in Nat /\ Len(ticks) > 0 /\ Len(ticks) \in 1..Len(ticks)
           /\ pending = ticks[Len(ticks)] /\ pending \in TickRecs /\ Seen = Len(ticks) - 1
           /\ \A f \in Frames :
                 \/ Len(ticks) = 1 /\ opened[f] = 1 /\ ~bars[f].hasData
                 \/ FrameOK(bars[f], ticks, opened[f], Len(ticks) - 1)
<1> DEFINE m == Len(ticks)
<1>1. /\ m \in Nat /\ m > 0 /\ pending = ticks[m] /\ pending \in TickRecs
  BY DEF PathInv, HistoryInv, FramesInv
<1>2. Seen = m - 1
  BY <1>1 DEF Seen
<1> HIDE DEF m
<1>3. CASE m = 1
  <2>1. \A f \in Frames : ~bars[f].hasData /\ opened[f] = 1
    BY <1>2, <1>3 DEF FramesInv
  <2> QED
    BY <1>1, <1>2, <1>3, <2>1 DEF m
<1>4. CASE m # 1
  <2>1. Seen > 0
    BY <1>1, <1>2, <1>4
  <2>2. \A f \in Frames : FrameOK(bars[f], ticks, opened[f], m - 1)
    BY <1>2, <2>1 DEF FramesInv
  <2> QED
    BY <1>1, <1>2, <2>2 DEF m
<1> QED
  BY <1>3, <1>4

LEMMA FramesProcess ==
    ASSUME PathInv, HistoryInv, FramesInv, NestInv, Process
    PROVE  FramesInv' /\ NestInv'
<1> DEFINE m == Len(ticks)
<1>1. /\ pending # None /\ pending' = None /\ UNCHANGED ticks
      /\ bars' = [f \in Frames |-> Aggregate(bars[f], pending)]
      /\ opened' = [f \in Frames |-> IF Closes(bars[f], pending) THEN m ELSE opened[f]]
  BY DEF Process, received
<1>2. /\ m \in Nat /\ m > 0 /\ m \in 1..Len(ticks) /\ pending = ticks[m] /\ Seen = m - 1
      /\ \A f \in Frames :
            \/ m = 1 /\ opened[f] = 1 /\ ~bars[f].hasData
            \/ FrameOK(bars[f], ticks, opened[f], m - 1)
  BY <1>1, PendingIsNext
<1>3. Seen' = m /\ ticks \in Seq(TickRecs)
  BY <1>1, <1>2 DEF Seen, HistoryInv
<1> HIDE DEF m
<1>4. \A f \in Frames : bars[f] \in BarRecs /\ opened[f] \in Nat /\ bars[f].period = Periods[f]
  BY DEF PathInv, FramesInv
<1>5. \A f \in Frames : /\ bars'[f] = Aggregate(bars[f], ticks[m])
                        /\ opened'[f] = IF Closes(bars[f], ticks[m]) THEN m ELSE opened[f]
  BY <1>1, <1>2
<1>6. \A f \in Frames : /\ FrameOK(bars'[f], ticks, opened'[f], m)
                        /\ bars'[f].period = Periods[f]
  <2> SUFFICES ASSUME NEW f \in Frames
               PROVE  FrameOK(bars'[f], ticks, opened'[f], m) /\ bars'[f].period = Periods[f]
    OBVIOUS
  <2>1. /\ FrameOK(Aggregate(bars[f], ticks[m]), ticks,
                   IF Closes(bars[f], ticks[m]) THEN m ELSE opened[f], m)
        /\ Aggregate(bars[f], ticks[m]).period = bars[f].period
    BY <1>2, <1>3, <1>4, AggregatedFrame
  <2> QED
    BY <1>4, <1>5, <2>1
<1>7. \A f \in Frames : opened'[f] \in Nat
  BY <1>2, <1>4, <1>5
<1>8. opened' \in [Frames -> Nat]
  BY <1>1, <1>7
<1>9. \A f, g \in Frames : Periods[g] % Periods[f] = 0 =>
         Within(bars'[f], opened'[f], bars'[g], opened'[g])
  <2> SUFFICES ASSUME NEW f \in Frames, NEW g \in Frames, Periods[g] % Periods[f] = 0
               PROVE  Within(bars'[f], opened'[f], bars'[g], opened'[g])
    OBVIOUS
  <2>1. bars[g].period % bars[f].period = 0
    BY <1>4
  <2>2. \/ m = 1 /\ opened[f] = 1 /\ opened[g] = 1 /\ ~bars[f].hasData /\ ~bars[g].hasData
        \/ /\ FrameOK(bars[f], ticks, opened[f], m - 1) /\ FrameOK(bars[g], ticks, opened[g], m - 1)
           /\ Within(bars[f], opened[f], bars[g], opened[g])
    <3>1. CASE m = 1
      <4>1. \A h \in Frames : ~FrameOK(bars[h], ticks, opened[h], m - 1)
        <5>1. 1..m - 1 = {}
          BY <3>1
        <5> QED
          BY <5>1 DEF FrameOK
      <4> QED
        BY <1>2, <4>1
    <3>2. CASE m # 1
      <4>1. Seen > 0
        BY <1>2, <3>2
      <4>2. Within(bars[f], opened[f], bars[g], opened[g])
        BY <4>1 DEF NestInv
      <4> QED
        BY <1>2, <3>2, <4>2
    <3> QED
      BY <3>1, <3>2
  <2>3. bars[f] \in BarRecs /\ bars[g] \in BarRecs /\ opened[f] \in Nat /\ opened[g] \in Nat
    BY <1>4
  <2>4. Within(Aggregate(bars[f], ticks[m]), IF Closes(bars[f], ticks[m]) THEN m ELSE opened[f],
               Aggregate(bars[g], ticks[m]), IF Closes(bars[g], ticks[m]) THEN m ELSE opened[g])
    BY <1>2, <1>3, <2>1, <2>2, <2>3, NestedStep
  <2> QED
    BY <1>5, <2>4
<1>10. FramesInv'
  <2>1. (\A f \in Frames : bars[f].period = Periods[f] /\ opened[f] \in Nat)'
    BY <1>6, <1>7
  <2>2. (Seen = 0 => \A f \in Frames : ~bars[f].hasData /\ opened[f] = 1)'
    BY <1>2, <1>3
  <2>3. (Seen > 0 => \A f \in Frames : FrameOK(bars[f], ticks, opened[f], Seen))'
    BY <1>1, <1>3, <1>6
  <2> QED
    BY <1>1, <1>8, <2>1, <2>2, <2>3 DEF FramesInv
<1>11. NestInv'
  BY <1>9 DEF NestInv, Within
<1> QED
  BY <1>10, <1>11

LEMMA FramesStay ==
    ASSUME FramesInv, NestInv, UNCHANGED <<ticks, pending, bars, opened>>
    PROVE  FramesInv' /\ NestInv'
<1>1. Seen' = Seen
  BY DEF Seen
<1> QED
  BY <1>1 DEF FramesInv, NestInv, Within
-----------------------------------------------------------------------------
(* The two builders of M5 and H1.                                            *)

Tracked == {"M5", "H1"}
FrameRecs == [period : Nat \ {0}, current : CandleRecs, history : Seq(CandleRecs)]

\* No tick came late.
Rising == \A i \in 2..Len(ticks) : ticks[i - 1].time <= ticks[i].time

\* The candle of the pipeline's builder once it has seen every tick.
Built(f) == IF pending = None THEN bars[f].candle ELSE Aggregate(bars[f], pending).candle

TrackInv ==
    /\ tracker \in [Tracked -> FrameRecs]
    /\ \A f \in Tracked :
          /\ tracker[f].period = Periods[f]
          /\ Len(ticks) = 0 => tracker[f].current = NoCandle
          /\ Len(ticks) > 0 => tracker[f].current.ticks = 1
    /\ Rising /\ Len(ticks) > 0 => \A f \in Tracked : SameCandle(tracker[f].current, Built(f))

LEMMA TrackInit == Init => TrackInv
<1> SUFFICES ASSUME Init
             PROVE  TrackInv
  OBVIOUS
<1>1. ticks = <<>> /\ tracker = [f \in Tracked |-> NewFrame(Periods[f])]
  BY DEF Init, Tracked
<1>2. \A f \in Tracked : f \in Frames
  BY DEF Tracked, Frames
<1>3. \A f \in Tracked : NewFrame(Periods[f]) \in FrameRecs
  BY <1>2, ConstantsOK, NoCandleOK DEF NewFrame, FrameRecs
<1>4. \A f \in Tracked : tracker[f].period = Periods[f] /\ tracker[f].current = NoCandle
  BY <1>1 DEF NewFrame
<1>5. tracker \in [Tracked -> FrameRecs]
  BY <1>1, <1>3
<1> QED
  BY <1>1, <1>4, <1>5 DEF TrackInv

\* What one tick does to a frame of the manager.
LEMMA ProcessedCandle ==
    ASSUME NEW f \in FrameRecs, NEW tick \in TickRecs
    PROVE  LET g == ProcessCandle(f, tick, MaxHistory)
               start == (tick.time \div f.period) * f.period IN
           /\ g \in FrameRecs /\ g.period = f.period
           /\ f.current = NoCandle => g.current = NewCandle(tick, f.period)
           /\ f.current # NoCandle /\ f.current.start # start =>
                 g.current = NewCandle(tick, f.period)
           /\ f.current # NoCandle /\ f.current.start = start =>
                 g.current = Stretch(f.current, tick.mid)
<1> DEFINE g == ProcessCandle(f, tick, MaxHistory)
           start == (tick.time \div f.period) * f.period
           closed == Append(f.history, f.current)
           n == Len(closed)
           kept == SubSeq(closed, IF n > MaxHistory THEN n - MaxHistory + 1 ELSE 1, n)
           fresh == NewCandle(tick, f.period)
           wide == Stretch(f.current, tick.mid)
<1>1. /\ f.period \in Nat \ {0} /\ f.current \in CandleRecs /\ f.history \in Seq(CandleRecs)
      /\ tick.mid \in Nat
  BY DEF FrameRecs, TickRecs
<1>2. fresh \in CandleRecs /\ wide \in CandleRecs
  BY <1>1, NewCandleOK, StretchOK
<1>3. kept \in Seq(CandleRecs)
  <2>1. closed \in Seq(CandleRecs)
    BY <1>1, AppendProperties
  <2>2. Newest(closed, MaxHistory) \in Seq(CandleRecs)
    BY <2>1, SizesOK, NewestOK
  <2> QED
    BY <2>2 DEF Newest
<1>4. EndsCandle(f, tick) <=> f.current # NoCandle /\ f.current.start # start
  BY DEF EndsCandle
<1>5. CASE f.current = NoCandle
  <2>1. g = [f EXCEPT !.current = fresh]
    BY <1>4, <1>5 DEF ProcessCandle
  <2> HIDE DEF g, fresh
  <2>2. g \in FrameRecs /\ g.period = f.period /\ g.current = fresh
    BY <1>1, <1>2, <2>1 DEF FrameRecs
  <2> QED
    BY <1>5, <2>2 DEF g, fresh
<1>6. CASE f.current # NoCandle /\ f.current.start # start
  <2>1. g = [f EXCEPT !.current = fresh, !.history = kept]
    BY <1>4, <1>6 DEF ProcessCandle
  <2> HIDE DEF g, fresh, kept
  <2>2. g \in FrameRecs /\ g.period = f.period /\ g.current = fresh
    BY <1>1, <1>2, <1>3, <2>1 DEF FrameRecs
  <2> QED
    BY <1>6, <2>2 DEF g, fresh
<1>7. CASE f.current # NoCandle /\ f.current.start = start
  <2>1. g = [f EXCEPT !.current = wide]
    BY <1>4, <1>7 DEF ProcessCandle
  <2> HIDE DEF g, wide
  <2>2. g \in FrameRecs /\ g.period = f.period /\ g.current = wide
    BY <1>1, <1>2, <2>1 DEF FrameRecs
  <2> QED
    BY <1>7, <2>2 DEF g, wide
<1> QED
  BY <1>5, <1>6, <1>7

\* Both builders end a candle with the same tick, unless it came late.
LEMMA SameStep ==
    ASSUME NEW f \in FrameRecs, NEW a \in BarRecs, f.period = a.period,
           NEW s \in Seq(TickRecs), NEW m \in 1..Len(s), NEW o \in Nat,
           \/ m = 1 /\ ~a.hasData /\ f.current = NoCandle
           \/ /\ FrameOK(a, s, o, m - 1) /\ f.current.ticks = 1
              /\ SameCandle(f.current, a.candle) /\ s[o].time <= s[m].time
    PROVE  SameCandle(ProcessCandle(f, s[m], MaxHistory).current, Aggregate(a, s[m]).candle)
<1> DEFINE tick == s[m]
           p == a.period
           start == (tick.time \div p) * p
           g == ProcessCandle(f, tick, MaxHistory)
           b == Aggregate(a, tick)
<1>1. /\ tick \in TickRecs /\ tick.time \in Int /\ tick.mid \in Nat /\ p \in Nat \ {0}
      /\ a.candle \in CandleRecs /\ f.current \in CandleRecs /\ a.end \in Int
      /\ DOMAIN a = {"period", "candle", "hasData", "end", "mid", "direction"}
  BY TickOK DEF BarRecs, FrameRecs
<1>2. /\ f.current = NoCandle => g.current = NewCandle(tick, p)
      /\ f.current # NoCandle /\ f.current.start # start => g.current = NewCandle(tick, p)
      /\ f.current # NoCandle /\ f.current.start = start => g.current = Stretch(f.current, tick.mid)
  BY <1>1, ProcessedCandle
<1>3. StartNewCandle(a, tick).candle = NewCandle(tick, p)
  BY <1>1 DEF StartNewCandle
<1>4. \A c : SameCandle(c, c)
  BY DEF SameCandle
<1>5. CASE m = 1 /\ ~a.hasData /\ f.current = NoCandle
  <2>1. b = StartNewCandle(a, tick)
    BY <1>5 DEF Aggregate
  <2> QED
    BY <1>2, <1>3, <1>4, <1>5, <2>1
<1>6. CASE /\ FrameOK(a, s, o, m - 1) /\ f.current.ticks = 1
           /\ SameCandle(f.current, a.candle) /\ s[o].time <= s[m].time
  <2>1. f.current # NoCandle
    BY <1>6 DEF NoCandle
  <2>2. /\ o \in 1..m - 1 /\ a.hasData /\ a.candle.start = (s[o].time \div p) * p
        /\ a.end = a.candle.start + p
    BY <1>6 DEF FrameOK
  <2>3. f.current.start = a.candle.start
    BY <1>6 DEF SameCandle
  <2>4. f.current.start = start <=> tick.time < a.end
    <3> DEFINE k == s[o].time \div p
    <3>1. s[o].time \in Int
      <4>1. o \in 1..Len(s)
        BY <2>2
      <4> QED
        BY <4>1, TickOK
    <3>2. k \in Int /\ k * p \in Int /\ k * p <= s[o].time /\ s[o].time < k * p + p
      <4>1. k \in Int
        BY <1>1, <3>1
      <4> HIDE DEF p
      <4>2. k * p \in Int /\ k * p <= s[o].time /\ s[o].time < k * p + p
        BY <1>1, <3>1, FloorOK
      <4> QED
        BY <4>1, <4>2
    <3>3. start \in Int /\ start <= tick.time /\ tick.time < start + p
      BY <1>1, FloorOK
    <3>4. k * p <= tick.time => k * p <= start
      BY <1>1, <3>2, BoundaryOK
    <3>5. tick.time < (k + 1) * p => start + p <= (k + 1) * p
      <4>1. k + 1 \in Int
        BY <3>2
      <4> HIDE DEF k
      <4> QED
        BY <1>1, <4>1, BoundaryOK
    <3>6. (k + 1) * p = k * p + p
      <4> HIDE DEF k, p
      <4> QED
        BY <1>1, <3>2
    <3>7. a.candle.start = k * p /\ a.end = k * p + p
      BY <2>2
    <3>8. s[o].time <= tick.time
      BY <1>6
    <3> HIDE DEF k, p, start, tick
    <3> QED
      BY <1>1, <2>3, <3>1, <3>2, <3>3, <3>4, <3>5, <3>6, <3>7, <3>8
  <2>5. CASE tick.time < a.end
    <3>1. b = Extend(a, tick)
      BY <1>1, <2>2, <2>5 DEF Aggregate, Closes
    <3>2. g.current = Stretch(f.current, tick.mid)
      BY <1>2, <2>1, <2>4, <2>5
    <3>3. /\ b.candle.open = a.candle.open /\ b.candle.close = tick.mid
          /\ b.candle.high = Max({a.candle.high, tick.mid})
          /\ b.candle.low = Min({a.candle.low, tick.mid}) /\ b.candle.start = a.candle.start
      <4> DEFINE d == Direction(a, tick)
                 t == Stretch(a.candle, tick.mid)
                 c == [t EXCEPT !.ticks = @ + 1, !.buy = @ + 1 + d, !.sell = @ + 1 - d]
      <4>1. Extend(a, tick) = [a EXCEPT !.mid = tick.mid, !.direction = d, !.candle = c]
        BY DEF Extend
      <4>2. t \in CandleRecs
        BY <1>1, StretchOK
      <4>3. /\ t.open = a.candle.open /\ t.close = tick.mid /\ t.start = a.candle.start
            /\ t.high = Max({a.candle.high, tick.mid}) /\ t.low = Min({a.candle.low, tick.mid})
        BY <1>1 DEF Stretch, CandleRecs
      <4> HIDE DEF t, d
      <4>4. /\ c.open = t.open /\ c.close = t.close /\ c.start = t.start
            /\ c.high = t.high /\ c.low = t.low
        BY <4>2 DEF CandleRecs
      <4> HIDE DEF c
      <4>5. Extend(a, tick).candle = c
        BY <1>1, <4>1
      <4> QED
        BY <3>1, <4>3, <4>4, <4>5
    <3>4. LET c == Stretch(f.current, tick.mid) IN
          /\ c.open = f.current.open /\ c.close = tick.mid
          /\ c.high = Max({f.current.high, tick.mid})
          /\ c.low = Min({f.current.low, tick.mid}) /\ c.start = f.current.start
      BY <1>1 DEF Stretch, CandleRecs
    <3>5. SameCandle(f.current, a.candle)
      BY <1>6
    <3> QED
      BY <3>2, <3>3, <3>4, <3>5 DEF SameCandle
  <2>6. CASE ~(tick.time < a.end)
    <3>1. Closes(a, tick)
      BY <1>1, <2>2, <2>6 DEF Closes
    <3>2. b = StartNewCandle(a, tick)
      BY <3>1 DEF Aggregate
    <3>3. g.current = NewCandle(tick, p)
      BY <1>2, <2>1, <2>4, <2>6
    <3> QED
      BY <1>3, <1>4, <3>2, <3>3
  <2> QED
    BY <2>5, <2>6
<1> QED
  BY <1>5, <1>6

\* In a series in which no tick is before the one it follows, none is before any earlier one.
LEMMA RisingOrders ==
    ASSUME NEW s \in Seq(TickRecs), \A i \in 2..Len(s) : s[i - 1].time <= s[i].time,
           NEW m \in 1..Len(s), NEW o \in 1..m
    PROVE  s[o].time <= s[m].time
<1> DEFINE Bad == {k \in Nat : k \in o..m /\ ~(s[o].time <= s[k].time)}
<1>1. Bad = {}
  <2> SUFFICES ASSUME Bad # {}
               PROVE  FALSE
    OBVIOUS
  <2>1. PICK k \in Bad : \A j \in Bad : k <= j
    <3>1. Bad \in SUBSET Nat
      OBVIOUS
    <3> HIDE DEF Bad
    <3> QED
      BY <3>1, SmallestOf
  <2>2. k \in o..m /\ k \in Nat /\ ~(s[o].time <= s[k].time)
    BY <2>1
  <2>3. \A i \in o..m : i \in 1..Len(s)
    OBVIOUS
  <2>4. \A i \in o..m : s[i].time \in Int
    BY <2>3, TickOK
  <2>5. o \in o..m /\ k # o
    <3>1. o \in o..m
      OBVIOUS
    <3>2. s[o].time <= s[o].time
      BY <2>4, <3>1
    <3> QED
      BY <2>2, <3>1, <3>2
  <2>6. k - 1 \in o..m /\ k - 1 \in Nat /\ k \in 2..Len(s)
    BY <2>2, <2>5
  <2>7. ~(k <= k - 1)
    BY <2>2
  <2>8. k - 1 \notin Bad
    BY <2>1, <2>7
  <2>9. s[o].time <= s[k - 1].time
    BY <2>6, <2>8
  <2>10. s[k - 1].time <= s[k].time
    BY <2>6
  <2>11. s[o].time \in Int /\ s[k - 1].time \in Int /\ s[k].time \in Int
    BY <2>2, <2>4, <2>5, <2>6
  <2> HIDE DEF Bad
  <2> QED
    BY <2>2, <2>9, <2>10, <2>11
<1>2. m \in o..m /\ m \in Nat
  OBVIOUS
<1> QED
  BY <1>1, <1>2

LEMMA TrackReceive ==
    ASSUME PathInv, HistoryInv, FramesInv, TrackInv,
           NEW a \in Arrivals, NEW mid \in Prices, Receive(a[1], a[2], mid)
    PROVE  TrackInv'
<1> DEFINE now == clock + a[1]
           tick == [time |-> now - a[2], mid |-> mid]
           n == Len(ticks)
<1>1. /\ pending = None /\ ticks' = Append(ticks, tick) /\ pending' = tick
      /\ UNCHANGED bars
      /\ tracker' = [f \in {"M5", "H1"} |-> ProcessCandle(tracker[f], tick, MaxHistory)]
  BY DEF Receive, built, TrackFrames
<1>2. tick \in TickRecs /\ tick.mid = mid
  <2>1. a[1] \in Nat /\ a[2] \in Nat /\ mid \in Nat /\ clock \in Nat
    BY ConstantsOK DEF PathInv
  <2>2. now - a[2] \in Int
    BY <2>1
  <2> QED
    BY <2>1, <2>2 DEF TickRecs
<1> HIDE DEF now, tick
<1>3. /\ ticks \in Seq(TickRecs) /\ n \in Nat /\ Len(ticks') = n + 1 /\ ticks' \in Seq(TickRecs)
      /\ ticks'[n + 1] = tick /\ \A i \in 1..n : ticks'[i] = ticks[i]
  BY <1>1, <1>2, AppendProperties DEF HistoryInv
<1>4. pending' # None
  BY <1>1, <1>2, NoTick
<1>5. \A f \in Tracked : /\ tracker[f] \in FrameRecs /\ tracker[f].period = Periods[f]
                         /\ bars[f] \in BarRecs /\ bars[f].period = Periods[f] /\ opened[f] \in Nat
                         /\ tracker'[f] = ProcessCandle(tracker[f], tick, MaxHistory)
  <2>1. \A f \in Tracked : f \in Frames /\ f \in {"M5", "H1"}
    BY DEF Tracked, Frames
  <2> QED
    BY <1>1, <2>1 DEF TrackInv, PathInv, FramesInv
<1>6. \A f \in Tracked : tracker'[f] \in FrameRecs /\ tracker'[f].period = Periods[f]
  BY <1>2, <1>5, ProcessedCandle
<1>7. \A f \in Tracked : tracker'[f].current.ticks = 1
  <2> SUFFICES ASSUME NEW f \in Tracked
               PROVE  tracker'[f].current.ticks = 1
    OBVIOUS
  <2> DEFINE t == tracker[f]
             g == ProcessCandle(t, tick, MaxHistory)
  <2>1. t \in FrameRecs /\ t.current \in CandleRecs /\ tick.mid \in Nat
    BY <1>2, <1>5 DEF FrameRecs, TickRecs
  <2>2. \/ g.current = NewCandle(tick, t.period)
        \/ t.current # NoCandle /\ g.current = Stretch(t.current, tick.mid)
    BY <1>2, <2>1, ProcessedCandle
  <2>3. NewCandle(tick, t.period).ticks = 1
    BY DEF NewCandle
  <2>4. Stretch(t.current, tick.mid).ticks = t.current.ticks
    BY <2>1 DEF Stretch, CandleRecs
  <2>5. t.current # NoCandle => t.current.ticks = 1
    <3>1. n = 0 \/ n > 0
      BY <1>3
    <3> QED
      BY <3>1 DEF TrackInv
  <2>6. g.current.ticks = 1
    <3> HIDE DEF g, t
    <3> QED
      BY <2>2, <2>3, <2>4, <2>5
  <2> QED
    BY <1>5, <2>6
<1>8. tracker' \in [Tracked -> FrameRecs]
  <2>1. tracker' = [f \in Tracked |-> ProcessCandle(tracker[f], tick, MaxHistory)]
    BY <1>1 DEF Tracked
  <2> QED
    BY <1>5, <1>6, <2>1
<1>9. Seen = n
  BY <1>1, <1>3 DEF Seen
<1>10. ASSUME Rising'
       PROVE  \A f \in Tracked : SameCandle(tracker'[f].current, Aggregate(bars[f], tick).candle)
  <2>1. \A i \in 2..n + 1 : ticks'[i - 1].time <= ticks'[i].time
    BY <1>3, <1>10 DEF Rising
  <2>2. Rising
    <3> SUFFICES ASSUME NEW i \in 2..n
                 PROVE  ticks[i - 1].time <= ticks[i].time
      BY DEF Rising
    <3>1. i \in 1..n /\ i - 1 \in 1..n /\ i \in 2..n + 1
      BY <1>3
    <3>2. ticks'[i - 1].time <= ticks'[i].time
      BY <2>1, <3>1
    <3> QED
      BY <1>3, <3>1, <3>2
  <2> SUFFICES ASSUME NEW f \in Tracked
               PROVE  SameCandle(tracker'[f].current, Aggregate(bars[f], tick).candle)
    OBVIOUS
  <2>3. f \in Frames
    BY DEF Tracked, Frames
  <2>4. n + 1 \in 1..Len(ticks')
    BY <1>3
  <2>5. CASE n = 0
    <3>1. ~bars[f].hasData /\ tracker[f].current = NoCandle
      BY <1>9, <2>3, <2>5 DEF FramesInv, TrackInv
    <3>2. n + 1 = 1 /\ 0 \in Nat
      BY <2>5
    <3>3. SameCandle(ProcessCandle(tracker[f], ticks'[n + 1], MaxHistory).current,
                     Aggregate(bars[f], ticks'[n + 1]).candle)
      BY <1>3, <1>5, <2>4, <3>1, <3>2, SameStep
    <3> QED
      BY <1>3, <1>5, <3>3
  <2>6. CASE n > 0
    <3>1. FrameOK(bars[f], ticks, opened[f], n)
      BY <1>9, <2>3, <2>6 DEF FramesInv
    <3>2. FrameOK(bars[f], ticks', opened[f], n)
      BY <1>3, <3>1, FrameKept
    <3>3. SameCandle(tracker[f].current, bars[f].candle) /\ tracker[f].current.ticks = 1
      BY <1>1, <2>2, <2>6 DEF TrackInv, Built
    <3>4. ticks'[opened[f]].time <= ticks'[n + 1].time
      <4>1. opened[f] \in 1..n
        BY <3>1 DEF FrameOK
      <4>2. opened[f] \in 1..n + 1 /\ n + 1 \in Nat
        BY <1>3, <4>1
      <4>3. \A i \in 2..Len(ticks') : ticks'[i - 1].time <= ticks'[i].time
        BY <1>10 DEF Rising
      <4> QED
        BY <1>3, <2>4, <4>2, <4>3, RisingOrders
    <3>5. (n + 1) - 1 = n
      BY <1>3
    <3>6. FrameOK(bars[f], ticks', opened[f], (n + 1) - 1)
      BY <3>2, <3>5
    <3>7. SameCandle(ProcessCandle(tracker[f], ticks'[n + 1], MaxHistory).current,
                     Aggregate(bars[f], ticks'[n + 1]).candle)
      BY <1>3, <1>5, <2>4, <3>3, <3>4, <3>6, SameStep
    <3> QED
      BY <1>3, <1>5, <3>7
  <2> QED
    BY <1>3, <2>5, <2>6
<1>11. (Rising /\ Len(ticks) > 0 => \A f \in Tracked : SameCandle(tracker[f].current, Built(f)))'
  <2>1. \A f \in Tracked : Built(f)' = Aggregate(bars[f], tick).candle
    BY <1>1, <1>4 DEF Built
  <2> QED
    BY <1>10, <2>1 DEF SameCandle
<1>12. Len(ticks') > 0 /\ Len(ticks') # 0
  BY <1>3
<1> QED
  BY <1>6, <1>7, <1>8, <1>11, <1>12 DEF TrackInv

LEMMA TrackProcess ==
    ASSUME TrackInv, Process
    PROVE  TrackInv'
<1>1. /\ pending # None /\ pending' = None /\ UNCHANGED <<ticks, tracker>>
      /\ bars' = [f \in Frames |-> Aggregate(bars[f], pending)]
  BY DEF Process, received
<1>2. \A f \in Tracked : Built(f)' = Built(f)
  <2>1. \A f \in Tracked : f \in Frames
    BY DEF Tracked, Frames
  <2> QED
    BY <1>1, <2>1 DEF Built
<1> QED
  BY <1>1, <1>2 DEF TrackInv, Rising, SameCandle

LEMMA TrackStays ==
    ASSUME TrackInv, UNCHANGED <<ticks, pending, bars, tracker>>
    PROVE  TrackInv'
BY DEF TrackInv, Rising, SameCandle, Built

CandleInv == FramesInv /\ NestInv /\ TrackInv

LEMMA CandlesKept ==
    ASSUME PathInv, HistoryInv, CandleInv, [Next]_vars
    PROVE  CandleInv'
<1>1. CASE \E a \in Arrivals, mid \in Prices : Receive(a[1], a[2], mid)
  BY <1>1, FramesReceive, TrackReceive DEF CandleInv
<1>2. CASE Process
  BY <1>2, FramesProcess, TrackProcess DEF CandleInv
<1>3. CASE Take \/ Avoid \/ Drop \/ TrendGate \/ ConfluenceGate \/ ScoreOff
           \/ (\E atr \in ATRs, extremeRSI \in BOOLEAN : LevelGate(atr, extremeRSI))
           \/ (\E regime \in {"Noise", "Bull", "Bear"}, confidence \in Percents, trigger \in Percents,
                  set \in {FileSettings} \cup {Settings(m) : m \in Modes} :
                  ScoreGate(regime, confidence, trigger, set))
           \/ (\E mode \in Modes : Submit(mode))
           \/ UNCHANGED vars
  <2>1. UNCHANGED <<ticks, pending, bars, opened, tracker>>
    BY <1>3 DEF Take, Avoid, Drop, TrendGate, ConfluenceGate, ScoreOff, LevelGate, ScoreGate,
                Submit, vars, received, built
  <2> QED
    BY <2>1, FramesStay, TrackStays DEF CandleInv
<1> QED
  BY <1>1, <1>2, <1>3 DEF Next

LEMMA CandleInvariant == Spec => [](PathInv /\ HistoryInv /\ CandleInv)
<1>1. Init => CandleInv
  BY FramesInit, TrackInit DEF CandleInv
<1>2. PathInv /\ HistoryInv /\ CandleInv /\ [Next]_vars => (PathInv /\ HistoryInv /\ CandleInv)'
  BY PathKept, HistoryKept, CandlesKept
<1> QED
  BY <1>1, <1>2, PathInit, HistoryInit, PTL DEF Spec

\* The sum by places, as the invariant has it, is the one over the part of the history.
LEMMA SummaryOK ==
    ASSUME NEW a \in BarRecs, NEW s \in Seq(TickRecs), NEW o \in Nat, NEW n \in 0..Len(s),
           FrameOK(a, s, o, n)
    PROVE  LET part == SubSeq(s, o, n) IN
           /\ Summarises(a.candle, part) /\ a.candle.start <= part[1].time
           /\ \A i \in DOMAIN part : part[i].time < a.end
<1> DEFINE part == SubSeq(s, o, n)
           l == n - o + 1
           mids == {part[i].mid : i \in DOMAIN part}
           c == a.candle
<1>1. /\ o \in 1..n /\ n \in Nat /\ o \in Int /\ l \in Nat /\ l >= 1 /\ n \in 1..n /\ o >= 1
      /\ \A i \in o..n : i \in 1..Len(s) /\ s[i] \in TickRecs /\ s[i].mid \in Nat
                         /\ s[i].time \in Int
  <2>1. o \in 1..n /\ n \in Nat
    BY DEF FrameOK
  <2>2. \A i \in o..n : i \in 1..Len(s)
    BY <2>1
  <2>3. \A i \in o..n : s[i] \in TickRecs /\ s[i].mid \in Nat /\ s[i].time \in Int
    BY <2>2, TickOK
  <2>4. o \in Int /\ l \in Nat /\ l >= 1 /\ n \in 1..n /\ o >= 1
    BY <2>1
  <2> QED
    BY <2>1, <2>2, <2>3, <2>4
<1>2. /\ part \in Seq(TickRecs) /\ Len(part) = l /\ DOMAIN part = 1..l
      /\ \A i \in 1..l : part[i] = s[o + i - 1] /\ o + i - 1 \in o..n
  <2>1. /\ SubSeq(s, o, n) \in Seq(TickRecs)
        /\ Len(SubSeq(s, o, n)) = (IF o <= n THEN n - o + 1 ELSE 0)
        /\ \A i \in 1..(n - o + 1) : SubSeq(s, o, n)[i] = s[o + i - 1]
    BY <1>1, SubSeqProperties
  <2>2. \A i \in 1..l : o + i - 1 \in o..n
    BY <1>1
  <2>3. Len(part) = l
    BY <1>1, <2>1
  <2>4. DOMAIN part = 1..l
    BY <2>1, <2>3
  <2> QED
    BY <2>1, <2>2, <2>3, <2>4
<1> HIDE DEF part
<1>3. \A j \in o..n : \E i \in 1..l : j = o + i - 1
  <2> SUFFICES ASSUME NEW j \in o..n
               PROVE  \E i \in 1..l : j = o + i - 1
    OBVIOUS
  <2>1. j - o + 1 \in 1..l /\ j = o + (j - o + 1) - 1
    BY <1>1
  <2> QED
    BY <2>1
<1>4. 1 \in 1..l /\ l \in 1..l /\ o + 1 - 1 = o /\ o + l - 1 = n
  BY <1>1
<1>5. part[1] = s[o] /\ part[l] = s[n]
  BY <1>2, <1>4
<1>6. mids = {s[j].mid : j \in o..n}
  <2>1. \A i \in 1..l : part[i].mid \in {s[j].mid : j \in o..n}
    BY <1>2
  <2>2. \A j \in o..n : s[j].mid \in mids
    <3> SUFFICES ASSUME NEW j \in o..n
                 PROVE  s[j].mid \in mids
      OBVIOUS
    <3>1. PICK i \in 1..l : j = o + i - 1
      BY <1>3
    <3>2. part[i] = s[j] /\ i \in DOMAIN part
      BY <1>2, <3>1
    <3> QED
      BY <3>2
  <2>3. mids \subseteq {s[j].mid : j \in o..n}
    BY <1>2, <2>1
  <2>4. {s[j].mid : j \in o..n} \subseteq mids
    <3> HIDE DEF mids
    <3> QED
      BY <2>2
  <2> QED
    BY <2>3, <2>4
<1> HIDE DEF mids
<1>7. SumsUp(c, s, o, n)
  BY DEF FrameOK
<1>8. c.high \in mids /\ (\A x \in mids : c.high >= x) /\ c.low \in mids /\ (\A x \in mids : c.low <= x)
      /\ mids \in SUBSET Int
  <2>1. mids \in SUBSET Int
    BY <1>1, <1>6
  <2>2. c.high \in mids /\ c.low \in mids
    BY <1>6, <1>7 DEF SumsUp
  <2>3. \A x \in mids : c.high >= x /\ c.low <= x
    <3> SUFFICES ASSUME NEW x \in mids
                 PROVE  c.high >= x /\ c.low <= x
      OBVIOUS
    <3>1. PICK j \in o..n : x = s[j].mid
      BY <1>6
    <3>2. s[j].mid <= c.high /\ c.low <= s[j].mid
      BY <1>7 DEF SumsUp
    <3>3. x \in Int /\ c.high \in Int /\ c.low \in Int
      BY <2>1, <2>2
    <3> QED
      BY <3>1, <3>2, <3>3
  <2> QED
    BY <2>1, <2>2, <2>3
<1>9. c.high = Max(mids) /\ c.low = Min(mids)
  <2>1. Max(mids) = c.high
    BY <1>8, MaxIs
  <2>2. Min(mids) = c.low
    <3>1. Min(mids) \in mids /\ \A y \in mids : Min(mids) <= y
      BY <1>8 DEF Min
    <3>2. Min(mids) \in Int /\ c.low \in Int /\ Min(mids) <= c.low /\ c.low <= Min(mids)
      BY <1>8, <3>1
    <3> QED
      BY <3>2
  <2> QED
    BY <2>1, <2>2
<1>10. Summarises(c, part)
  <2>1. c.open = part[1].mid /\ c.close = part[Len(part)].mid
    BY <1>2, <1>5, <1>7 DEF SumsUp
  <2>2. c.ticks = Len(part) /\ c.buy + c.sell = 2 * (Len(part) - 1)
    <3>1. c.ticks = n - o + 1 /\ c.buy + c.sell = 2 * (n - o) /\ Len(part) - 1 = n - o
      BY <1>1, <1>2, <1>7 DEF SumsUp
    <3> QED
      BY <1>2, <3>1
  <2>3. Summarises(c, part) <=>
           /\ c.open = part[1].mid /\ c.close = part[Len(part)].mid
           /\ c.high = Max(mids) /\ c.low = Min(mids)
           /\ c.ticks = Len(part) /\ c.buy + c.sell = 2 * (Len(part) - 1)
    BY SMT DEF Summarises, mids
  <2> QED
    BY <1>9, <2>1, <2>2, <2>3
<1>11. c.start <= part[1].time
  <2>1. s[o].time \in Int /\ a.period \in Nat \ {0} /\ o \in o..n
    BY <1>1 DEF BarRecs
  <2>2. c.start = (s[o].time \div a.period) * a.period
    BY DEF FrameOK
  <2> QED
    BY <1>5, <2>1, <2>2, FloorOK
<1>12. \A i \in DOMAIN part : part[i].time < a.end
  BY <1>2 DEF FrameOK
<1> QED
  BY <1>10, <1>11, <1>12 DEF part

\* For all periods, prices and series of ticks, late ones included: every frame's candle is
\* the summary of the ticks since it was opened, frames with dividing periods nest, and
\* while no tick came late both builders of M5 and H1 hold the same candle.
THEOREM CandlesSumUp == Spec => []CandlesAgree
<1>1. PathInv /\ HistoryInv /\ CandleInv => CandlesAgree
  <2> SUFFICES ASSUME PathInv, HistoryInv, CandleInv
               PROVE  CandlesAgree
    OBVIOUS
  <2> DEFINE n == Len(ticks) - (IF pending = None THEN 0 ELSE 1)
             Sums(f) == LET part == SubSeq(ticks, opened[f], n) IN
                        /\ Summarises(bars[f].candle, part)
                        /\ bars[f].candle.start <= part[1].time
                        /\ \A i \in DOMAIN part : part[i].time < bars[f].end
             Nest(f, g) == /\ opened[g] <= opened[f]
                           /\ bars[g].candle.start <= bars[f].candle.start
                           /\ bars[f].end <= bars[g].end
             Same(f) == SameCandle(tracker[f].current, bars[f].candle)
  <2>1. n = Seen
    BY DEF Seen
  <2>2. n \in 0..Len(ticks)
    <3>1. Len(ticks) \in Nat /\ (pending # None => Len(ticks) > 0)
      BY DEF HistoryInv, CandleInv, FramesInv
    <3> QED
      BY <3>1
  <2>3. CandlesAgree <=>
           (n > 0 =>
              /\ \A f \in Frames : Sums(f)
              /\ \A f, g \in Frames : Periods[g] % Periods[f] = 0 => Nest(f, g)
              /\ (pending = None /\ \A i \in 2..n : ticks[i - 1].time <= ticks[i].time) =>
                    \A f \in {"M5", "H1"} : Same(f))
    BY SMT DEF CandlesAgree
  <2>4. ASSUME n > 0, NEW f \in Frames
        PROVE  Sums(f)
    <3>1. FrameOK(bars[f], ticks, opened[f], n)
      <4> HIDE DEF n
      <4> QED
        BY <2>1, <2>4 DEF CandleInv, FramesInv
    <3>2. bars[f] \in BarRecs /\ ticks \in Seq(TickRecs) /\ opened[f] \in Nat
      BY DEF PathInv, HistoryInv, CandleInv, FramesInv
    <3> HIDE DEF n
    <3> QED
      BY <2>2, <3>1, <3>2, SummaryOK
  <2>5. ASSUME n > 0, NEW f \in Frames, NEW g \in Frames, Periods[g] % Periods[f] = 0
        PROVE  Nest(f, g)
    BY <2>1, <2>5 DEF CandleInv, NestInv, Within
  <2>6. ASSUME n > 0, pending = None, \A i \in 2..n : ticks[i - 1].time <= ticks[i].time,
               NEW f \in {"M5", "H1"}
        PROVE  Same(f)
    <3>1. n = Len(ticks)
      BY <2>2, <2>6
    <3>2. Rising /\ Len(ticks) > 0
      BY <2>6, <3>1 DEF Rising
    <3>3. SameCandle(tracker[f].current, Built(f))
      BY <3>2 DEF CandleInv, TrackInv, Tracked
    <3> QED
      BY <2>6, <3>3 DEF Built
  <2> HIDE DEF Sums, Nest, Same, n
  <2> QED
    BY <2>3, <2>4, <2>5, <2>6
<1> QED
  BY <1>1, CandleInvariant, PTL
=============================================================================
