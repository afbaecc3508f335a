--------------------------- MODULE BacktestProofs ---------------------------
(***************************************************************************)
(* The backtest engine's promises for every signal, price, day and         *)
(* setting: the engine, the tracker and the risk manager agree on what is  *)
(* open, the ledgers tell one result, and the drawdown reported is the     *)
(* worst of the sampled curve.  A fold over the trades or the curve is     *)
(* unfolded by one element, as the engine appends to them.                 *)
(***************************************************************************)
EXTENDS Backtest, TrackerProofs, FiniteSetTheorems, WellFoundedInduction

LEMMA SmallestNat ==
    ASSUME NEW S \in SUBSET Nat, S # {}
    PROVE  \E n \in S : \A m \in S : n <= m
<1>1. PICK n \in S : \A m \in S : ~(<<m, n>> \in OpToRel(<, Nat))
  BY NatLessThanWellFounded, WFMin
<1>2. \A m \in S : ~(m < n)
  BY <1>1 DEF OpToRel
<1> QED
  BY <1>2

\* f is the fold of c from a by step.
FoldOf(f, a, step, c, n) ==
    f[0] = a /\ \A i \in 1..n : f[i] = step[<<f[i - 1], c[i]>>]

LEMMA FoldExists ==
    ASSUME NEW S, NEW a \in S, NEW X, NEW step \in [S \X X -> S], NEW n \in Nat,
           NEW c \in [1..n -> X]
    PROVE  \E f \in [0..n -> S] : FoldOf(f, a, step, c, n)
<1> DEFINE D == {k \in 0..n : ~\E f \in [0..k -> S] : FoldOf(f, a, step, c, k)}
<1> SUFFICES ASSUME D # {}
             PROVE  FALSE
  OBVIOUS
<1>0. D \in SUBSET Nat
  OBVIOUS
<1>1. PICK k \in D : \A j \in D : k <= j
  BY <1>0, SmallestNat
<1>2. k # 0
  <2>1. [i \in 0..0 |-> a] \in [0..0 -> S] /\ FoldOf([i \in 0..0 |-> a], a, step, c, 0)
    BY DEF FoldOf
  <2> QED
    BY <1>1, <2>1
<1>3. k \in 1..n /\ k - 1 \in 0..n /\ k - 1 \notin D
  BY <1>1, <1>2
<1>4. PICK g \in [0..k - 1 -> S] : FoldOf(g, a, step, c, k - 1)
  BY <1>3
<1> DEFINE x == step[<<g[k - 1], c[k]>>]
           f == [i \in 0..k |-> IF i = k THEN x ELSE g[i]]
<1>5. x \in S
  BY <1>3
<1> HIDE DEF x
<1>6. f \in [0..k -> S] /\ f[0] = a
  BY <1>3, <1>4, <1>5 DEF FoldOf
<1>7. ASSUME NEW i \in 1..k
      PROVE  f[i] = step[<<f[i - 1], c[i]>>]
  <2>1. f[i - 1] = g[i - 1]
    BY <1>3
  <2>2. CASE i = k
    <3>1. f[i] = x
      BY <2>2
    <3> HIDE DEF f
    <3> QED
      BY <2>1, <2>2, <3>1 DEF x
  <2>3. CASE i # k
    <3>1. i \in 1..k - 1 /\ f[i] = g[i]
      BY <1>3, <2>3
    <3> HIDE DEF f
    <3> QED
      BY <1>4, <2>1, <3>1 DEF FoldOf
  <2> QED
    BY <2>2, <2>3
<1> HIDE DEF f
<1> QED
  BY <1>1, <1>6, <1>7 DEF FoldOf

\* Two functions that start together and step together stay together.
InStep(f, g, n) == f[0] = g[0] /\ \A i \in 1..n : f[i - 1] = g[i - 1] => f[i] = g[i]

LEMMA SameByStep ==
    ASSUME NEW n \in Nat, NEW f, NEW g, InStep(f, g, n)
    PROVE  \A i \in 0..n : f[i] = g[i]
<1> DEFINE D == {i \in 0..n : f[i] # g[i]}
<1> SUFFICES ASSUME D # {}
             PROVE  FALSE
  OBVIOUS
<1>0. D \in SUBSET Nat
  OBVIOUS
<1>1. PICK k \in D : \A j \in D : k <= j
  BY <1>0, SmallestNat
<1>2. k \in 1..n /\ k - 1 \in 0..n /\ k - 1 \notin D
  BY <1>1 DEF InStep
<1> QED
  BY <1>1, <1>2 DEF InStep

-----------------------------------------------------------------------------
LEMMA TotalUnfold ==
    ASSUME NEW s \in Seq(Int)
    PROVE  \E f \in [0..Len(s) -> Int] :
              /\ Total(s) = f[Len(s)]
              /\ f[0] = 0 /\ \A i \in 1..Len(s) : f[i] = f[i - 1] + s[i]
<1> DEFINE n == Len(s)
           step == [p \in Int \X Int |-> p[1] + p[2]]
           Sums(f) == f = [i \in 0..n |-> IF i = 0 THEN 0 ELSE f[i - 1] + s[i]]
           h == CHOOSE f : Sums(f)
<1>1. n \in Nat /\ s \in [1..n -> Int]
  OBVIOUS
<1>2. step \in [Int \X Int -> Int] /\ \A x, y \in Int : step[<<x, y>>] = x + y
  OBVIOUS
<1>3. Total(s) = h[n]
  BY DEF Total
<1> HIDE DEF n, step
<1>4. PICK g \in [0..n -> Int] : FoldOf(g, 0, step, s, n)
  <2>1. 0 \in Int
    OBVIOUS
  <2> QED
    BY <1>1, <1>2, <2>1, FoldExists, Zenon
<1>5. g[0] = 0 /\ \A i \in 1..n : g[i] = g[i - 1] + s[i]
  <2>1. \A i \in 1..n : g[i - 1] \in Int /\ s[i] \in Int
    BY <1>1
  <2> QED
    BY <1>2, <1>4, <2>1 DEF FoldOf
<1>6. Sums(g)
  <2>1. \A i \in 0..n : g[i] = IF i = 0 THEN 0 ELSE g[i - 1] + s[i]
    BY <1>1, <1>5
  <2> QED
    BY <2>1
<1>7. Sums(h)
  BY <1>6
<1> HIDE DEF h
<1>8. h[0] = 0 /\ \A i \in 1..n : h[i] = h[i - 1] + s[i]
  BY <1>1, <1>7
<1>9. \A i \in 0..n : h[i] = g[i]
  <2>1. InStep(h, g, n)
    BY <1>5, <1>8 DEF InStep
  <2> QED
    BY <1>1, <2>1, SameByStep
<1>10. Total(s) = g[n]
  BY <1>1, <1>3, <1>9
<1> QED
  BY <1>5, <1>10 DEF n

\* One more element adds itself to the total.
LEMMA TotalGrows ==
    ASSUME NEW s \in Seq(Int), NEW t \in Seq(Int), Len(t) = Len(s) + 1,
           \A i \in 1..Len(s) : t[i] = s[i]
    PROVE  /\ Total(s) \in Int /\ Total(t) = Total(s) + t[Len(t)]
<1> DEFINE n == Len(s)
<1>1. PICK f \in [0..n -> Int] :
         /\ Total(s) = f[n] /\ f[0] = 0 /\ \A i \in 1..n : f[i] = f[i - 1] + s[i]
  BY TotalUnfold
<1>2. PICK g \in [0..Len(t) -> Int] :
         /\ Total(t) = g[Len(t)]
         /\ g[0] = 0 /\ \A i \in 1..Len(t) : g[i] = g[i - 1] + t[i]
  BY TotalUnfold
<1>3. n \in Nat /\ n + 1 \in 1..n + 1 /\ (n + 1) - 1 = n /\ n \in 0..n
  OBVIOUS
<1>4. \A i \in 1..n : g[i] = g[i - 1] + s[i]
  BY <1>2, <1>3
<1>5. \A i \in 0..n : g[i] = f[i]
  <2>1. InStep(g, f, n)
    BY <1>1, <1>2, <1>4 DEF InStep
  <2> QED
    BY <1>3, <2>1, SameByStep
<1> HIDE DEF n
<1>6. Len(t) = n + 1
  BY DEF n
<1>7. Total(t) = g[n] + t[n + 1]
  BY <1>2, <1>3, <1>6
<1> QED
  BY <1>1, <1>3, <1>5, <1>6, <1>7

LEMMA TotalNone == Total(<<>>) = 0
<1>1. <<>> \in Seq(Int) /\ Len(<<>>) = 0
  OBVIOUS
<1> QED
  BY <1>1, TotalUnfold

-----------------------------------------------------------------------------
(* The drawdown of a curve: the fold, and what it stands for.               *)

Dips == [peak : Int, worst : Int]

NoDip == [peak |-> InitialEquity, worst |-> 0]

\* The fold of MaxDrawdown, over any curve.
Dip(c) ==
    LET dd[i \in 0..Len(c)] == IF i = 0 THEN NoDip ELSE Drawdown(dd[i - 1], c[i])
    IN dd[Len(c)]

LEMMA DrawdownOK ==
    ASSUME NEW d \in Dips, NEW x \in Int
    PROVE  /\ Drawdown(d, x) \in Dips
           /\ Drawdown(d, x).peak = Higher(d.peak, x)
           /\ Drawdown(d, x).worst = Higher(d.worst, Higher(d.peak, x) - x)
<1>1. d.peak \in Int /\ d.worst \in Int
  BY DEF Dips
<1>2. Higher(d.peak, x) \in Int
  BY <1>1, HigherOK
<1>3. Higher(d.worst, Higher(d.peak, x) - x) \in Int
  <2>1. Higher(d.peak, x) - x \in Int
    BY <1>2
  <2> QED
    BY <1>1, <2>1, HigherOK
<1> QED
  BY <1>2, <1>3 DEF Drawdown, Dips

LEMMA DipUnfold ==
    ASSUME NEW c \in Seq(Int)
    PROVE  \E f \in [0..Len(c) -> Dips] :
              /\ Dip(c) = f[Len(c)]
              /\ f[0] = NoDip /\ \A i \in 1..Len(c) : f[i] = Drawdown(f[i - 1], c[i])
<1> DEFINE n == Len(c)
           step == [p \in Dips \X Int |-> Drawdown(p[1], p[2])]
           Falling(f) == f = [i \in 0..n |-> IF i = 0 THEN NoDip ELSE Drawdown(f[i - 1], c[i])]
           h == CHOOSE f : Falling(f)
<1>1. n \in Nat /\ c \in [1..n -> Int]
  OBVIOUS
<1>2. step \in [Dips \X Int -> Dips] /\ \A d \in Dips, x \in Int : step[<<d, x>>] = Drawdown(d, x)
  <2>1. \A d \in Dips, x \in Int : Drawdown(d, x) \in Dips
    BY DrawdownOK
  <2> QED
    BY <2>1
<1>3. Dip(c) = h[n]
  BY DEF Dip
<1> HIDE DEF n, step
<1>4. PICK g \in [0..n -> Dips] : FoldOf(g, NoDip, step, c, n)
  <2>1. NoDip \in Dips
    BY BacktestAssumption DEF BacktestAssumption, NoDip, Dips
  <2> QED
    BY <1>1, <1>2, <2>1, FoldExists, Zenon
<1>5. g[0] = NoDip /\ \A i \in 1..n : g[i] = Drawdown(g[i - 1], c[i])
  <2>1. \A i \in 1..n : g[i - 1] \in Dips /\ c[i] \in Int
    BY <1>1
  <2> QED
    BY <1>2, <1>4, <2>1 DEF FoldOf
<1>6. Falling(g)
  <2>1. \A i \in 0..n : g[i] = IF i = 0 THEN NoDip ELSE Drawdown(g[i - 1], c[i])
    BY <1>1, <1>5
  <2> QED
    BY <2>1
<1>7. Falling(h)
  BY <1>6
<1> HIDE DEF h
<1>8. h[0] = NoDip /\ \A i \in 1..n : h[i] = Drawdown(h[i - 1], c[i])
  BY <1>1, <1>7
<1>9. \A i \in 0..n : h[i] = g[i]
  <2>1. InStep(h, g, n)
    BY <1>5, <1>8 DEF InStep
  <2> QED
    BY <1>1, <2>1, SameByStep
<1>10. Dip(c) = g[n]
  BY <1>1, <1>3, <1>9
<1> QED
  BY <1>5, <1>10 DEF n

LEMMA DipGrows ==
    ASSUME NEW c \in Seq(Int), NEW x \in Int
    PROVE  Dip(c) \in Dips /\ Dip(Append(c, x)) = Drawdown(Dip(c), x)
<1> DEFINE n == Len(c)
           t == Append(c, x)
<1>0. t \in Seq(Int) /\ Len(t) = n + 1 /\ t[n + 1] = x /\ \A i \in 1..n : t[i] = c[i]
  OBVIOUS
<1> HIDE DEF t
<1>1. PICK f \in [0..n -> Dips] :
         /\ Dip(c) = f[n] /\ f[0] = NoDip /\ \A i \in 1..n : f[i] = Drawdown(f[i - 1], c[i])
  BY DipUnfold
<1>2. PICK g \in [0..Len(t) -> Dips] :
         /\ Dip(t) = g[Len(t)]
         /\ g[0] = NoDip /\ \A i \in 1..Len(t) : g[i] = Drawdown(g[i - 1], t[i])
  BY <1>0, DipUnfold
<1>3. n \in Nat /\ n + 1 \in 1..n + 1 /\ (n + 1) - 1 = n /\ n \in 0..n
  OBVIOUS
<1>4. \A i \in 1..n : g[i] = Drawdown(g[i - 1], c[i])
  BY <1>0, <1>2, <1>3
<1>5. \A i \in 0..n : g[i] = f[i]
  <2>1. InStep(g, f, n)
    BY <1>1, <1>2, <1>4 DEF InStep
  <2> QED
    BY <1>3, <2>1, SameByStep
<1> HIDE DEF n
<1>6. Dip(t) = Drawdown(g[n], x)
  BY <1>0, <1>2, <1>3
<1> QED
  BY <1>1, <1>3, <1>5, <1>6 DEF t

\* d says of the curve c what its fields promise: the highest point, the deepest fall.
Tells(d, c) ==
    /\ \A i \in 1..Len(c) : c[i] <= d.peak
    /\ \E i \in 1..Len(c) : c[i] = d.peak
    /\ \A i, j \in 1..Len(c) : i <= j => c[i] - c[j] <= d.worst
    /\ \E i, j \in 1..Len(c) : i <= j /\ c[i] - c[j] = d.worst

LEMMA TellsFirst ==
    ASSUME NEW c, c = <<InitialEquity>>
    PROVE  Tells(Dip(c), c)
<1>1. InitialEquity \in Int
  BY BacktestAssumption DEF BacktestAssumption
<1>2. c \in Seq(Int) /\ Len(c) = 1 /\ c[1] = InitialEquity
  BY <1>1
<1>3. \E f \in [0..1 -> Dips] : Dip(c) = f[1] /\ f[0] = NoDip /\ f[1] = Drawdown(f[0], c[1])
  <2>1. 1 \in 1..1 /\ 1 - 1 = 0
    OBVIOUS
  <2>2. PICK f \in [0..Len(c) -> Dips] :
           /\ Dip(c) = f[Len(c)]
           /\ f[0] = NoDip /\ \A i \in 1..Len(c) : f[i] = Drawdown(f[i - 1], c[i])
    BY <1>2, DipUnfold
  <2>3. f \in [0..1 -> Dips] /\ f[1] = Drawdown(f[1 - 1], c[1])
    BY <1>2, <2>1, <2>2
  <2> QED
    BY <1>2, <2>1, <2>2, <2>3
<1>4. Dip(c).peak = InitialEquity /\ Dip(c).worst = 0
  <2>1. NoDip \in Dips /\ NoDip.peak = InitialEquity /\ NoDip.worst = 0
    BY <1>1 DEF NoDip, Dips
  <2>2. /\ Dip(c).peak = Higher(InitialEquity, InitialEquity)
        /\ Dip(c).worst = Higher(0, Higher(InitialEquity, InitialEquity) - InitialEquity)
    BY <1>1, <1>2, <1>3, <2>1, DrawdownOK
  <2> QED
    BY <1>1, <2>2 DEF Higher
<1> QED
  BY <1>1, <1>2, <1>4 DEF Tells

LEMMA TellsNext ==
    ASSUME NEW c \in Seq(Int), NEW x \in Int, Tells(Dip(c), c)
    PROVE  Tells(Dip(Append(c, x)), Append(c, x))
<1> DEFINE n == Len(c)
           t == Append(c, x)
           d == Dip(c)
           e == Dip(t)
<1>0. /\ t \in Seq(Int) /\ Len(t) = n + 1 /\ t[n + 1] = x /\ \A i \in 1..n : t[i] = c[i]
      /\ n \in Nat /\ \A i \in 1..n : c[i] \in Int
  OBVIOUS
<1>1. /\ d.peak \in Int /\ d.worst \in Int
      /\ e.peak = Higher(d.peak, x) /\ e.worst = Higher(d.worst, Higher(d.peak, x) - x)
  <2>1. d \in Dips /\ e = Drawdown(d, x)
    BY DipGrows
  <2> QED
    BY <2>1, DrawdownOK DEF Dips
<1>2. /\ \A i \in 1..n : c[i] <= d.peak
      /\ \E i \in 1..n : c[i] = d.peak
      /\ \A i, j \in 1..n : i <= j => c[i] - c[j] <= d.worst
      /\ \E i, j \in 1..n : i <= j /\ c[i] - c[j] = d.worst
  BY DEF Tells
<1> HIDE DEF n, t, d, e
<1>3. \A i \in 1..n + 1 : i \in 1..n \/ i = n + 1
  BY <1>0
<1>4. \A i \in 1..n : i \in 1..n + 1 /\ i <= n
  BY <1>0
<1>5. n + 1 \in 1..n + 1
  BY <1>0
<1> DEFINE h == Higher(d.peak, x)
<1>6. h \in Int /\ h >= d.peak /\ h >= x /\ (h = d.peak \/ h = x)
  BY <1>1, HigherOK
<1>7. e.peak = h /\ e.worst = Higher(d.worst, h - x)
  BY <1>1
<1> HIDE DEF h
<1>8. e.worst \in Int /\ e.worst >= d.worst /\ e.worst >= h - x
      /\ (e.worst = d.worst \/ e.worst = h - x)
  <2> DEFINE y == h - x
  <2>1. y \in Int
    BY <1>6
  <2>2. e.worst = Higher(d.worst, y)
    BY <1>7
  <2> HIDE DEF y
  <2>3. /\ e.worst \in Int /\ e.worst >= d.worst /\ e.worst >= y
        /\ (e.worst = d.worst \/ e.worst = y)
    BY <1>1, <2>1, <2>2, HigherOK
  <2> QED
    BY <2>3 DEF y
<1>9. ASSUME NEW i \in 1..n + 1
      PROVE  t[i] \in Int /\ t[i] <= e.peak
  <2>1. CASE i \in 1..n
    <3>1. c[i] \in Int /\ t[i] = c[i] /\ c[i] <= d.peak
      BY <1>0, <1>2, <2>1
    <3> QED
      BY <1>1, <1>6, <1>7, <3>1
  <2>2. CASE i = n + 1
    <3>1. t[i] = x
      BY <1>0, <2>2
    <3> QED
      BY <1>6, <1>7, <3>1
  <2> QED
    BY <1>3, <2>1, <2>2
<1>10. \E i \in 1..n + 1 : t[i] = e.peak
  BY <1>0, <1>2, <1>4, <1>5, <1>6, <1>7
<1>11. ASSUME NEW i \in 1..n + 1, NEW j \in 1..n + 1, i <= j
       PROVE  t[i] - t[j] <= e.worst
  <2>1. CASE j = n + 1
    <3>1. t[i] \in Int /\ t[i] <= h /\ t[j] = x
      BY <1>0, <1>3, <1>7, <1>9, <2>1
    <3> QED
      BY <1>6, <1>8, <3>1
  <2>2. CASE j \in 1..n
    <3>1. i \in 1..n
      BY <1>0, <1>11, <2>2
    <3>2. t[i] = c[i] /\ t[j] = c[j] /\ c[i] \in Int /\ c[j] \in Int
      BY <1>0, <2>2, <3>1
    <3>3. c[i] - c[j] <= d.worst
      BY <1>2, <1>11, <2>2, <3>1
    <3> QED
      BY <1>1, <1>8, <3>2, <3>3
  <2> QED
    BY <1>3, <2>1, <2>2
<1>12. \E i, j \in 1..n + 1 : i <= j /\ t[i] - t[j] = e.worst
  <2>1. CASE e.worst = d.worst
    BY <1>0, <1>2, <1>4, <2>1
  <2>2. CASE e.worst = h - x
    <3>1. PICK i \in 1..n + 1 : t[i] = h
      BY <1>7, <1>10
    <3>2. i <= n + 1 /\ t[i] - t[n + 1] = e.worst
      BY <1>0, <2>2, <3>1
    <3> QED
      BY <1>5, <3>2
  <2> QED
    BY <1>8, <2>1, <2>2
<1>13. Tells(e, t)
  BY <1>0, <1>9, <1>10, <1>11, <1>12 DEF Tells
<1> QED
  BY <1>13 DEF e, t

\* The deepest fall of the curve is what WorstFall searches for.
LEMMA TellsWorst ==
    ASSUME NEW c \in Seq(Int), NEW d \in Dips, Tells(d, c)
    PROVE  d.worst = Max({c[p[1]] - c[p[2]] :
                             p \in {q \in (1..Len(c)) \X (1..Len(c)) : q[1] <= q[2]}})
<1> DEFINE pairs == {q \in (1..Len(c)) \X (1..Len(c)) : q[1] <= q[2]}
           falls == {c[p[1]] - c[p[2]] : p \in pairs}
<1>1. \A i \in 1..Len(c) : c[i] \in Int
  OBVIOUS
<1>2. d.worst \in falls
  <2>1. PICK i \in 1..Len(c), j \in 1..Len(c) : i <= j /\ c[i] - c[j] = d.worst
    BY DEF Tells
  <2>2. <<i, j>> \in pairs /\ c[<<i, j>>[1]] - c[<<i, j>>[2]] = d.worst
    BY <2>1
  <2> QED
    BY <2>2
<1>3. ASSUME NEW x \in falls
      PROVE  x \in Int /\ x <= d.worst
  <2>1. PICK p \in pairs : x = c[p[1]] - c[p[2]]
    OBVIOUS
  <2>2. p[1] \in 1..Len(c) /\ p[2] \in 1..Len(c) /\ p[1] <= p[2]
    OBVIOUS
  <2>3. c[p[1]] \in Int /\ c[p[2]] \in Int /\ c[p[1]] - c[p[2]] <= d.worst
    BY <1>1, <2>2 DEF Tells
  <2> QED
    BY <2>1, <2>3
<1>4. d.worst \in Int
  BY DEF Dips
<1> HIDE DEF falls
<1>5. \A x \in falls : (\A y \in falls : x >= y) => x = d.worst
  BY <1>2, <1>3, <1>4
<1>6. \A y \in falls : d.worst >= y
  BY <1>3, <1>4
<1>7. d.worst = Max(falls)
  BY <1>2, <1>5, <1>6 DEF Max
<1> QED
  BY <1>7 DEF falls

-----------------------------------------------------------------------------
Orders == [symbol : {Symbol}, lots : Nat, sized : BOOLEAN]
Ideas  == [side : {"BUY", "SELL"}, sl : Nat, tp : Nat]

\* The limits are those of the start; positions, events and orders are well typed.
TypeInv ==
    /\ positions \in [Ids -> Positions \cup {Untracked}]
    /\ closes \in [Ids -> Seq(CloseEvents)]
    /\ floating \in [Ids -> Int]
    /\ signal \in Ideas
    /\ order = NoOrder \/ order \in Orders
    /\ fixedLots = 0 /\ cfg.maxPerSymbol = 1 /\ cfg.minLot \in Nat /\ cfg.maxLot \in Nat

LEMMA TypeInit == Init => TypeInv
<1> SUFFICES ASSUME Init PROVE TypeInv
  OBVIOUS
<1>1. <<>> \in Seq(CloseEvents)
  OBVIOUS
<1>2. positions \in [Ids -> Positions \cup {Untracked}] /\ closes \in [Ids -> Seq(CloseEvents)]
  BY <1>1 DEF Init, TrackerInit
<1>3. /\ order = NoOrder /\ fixedLots = 0 /\ cfg.maxPerSymbol = 1
      /\ cfg.minLot = InitialMinLot /\ cfg.maxLot = InitialMaxLot
  BY DEF Init, Risk!RiskInit
<1>4. floating \in [Ids -> Int] /\ signal \in Ideas
  BY DEF Init, NoSignal, Ideas
<1> QED
  BY <1>2, <1>3, <1>4, BacktestAssumption DEF TypeInv, BacktestAssumption

LEMMA ClampOK ==
    ASSUME NEW x \in Nat, NEW a \in Nat, NEW b \in Nat
    PROVE  Risk!Smaller(Risk!Larger(x, a), b) \in Nat
BY DEF Risk!Smaller, Risk!Larger

\* What Evaluate may do: an order is approved only while the symbol's slot is free.
LEMMA EvaluateOK ==
    ASSUME TypeInv, NEW spread, NEW raw \in Nat,
           Risk!Evaluate(Symbol, day, TRUE, spread, TRUE, raw)
    PROVE  /\ UNCHANGED <<symbolPositions, fixedLots, cfg, equity>>
           /\ order' = NoOrder \/ order' \in Orders
           /\ order' # NoOrder => symbolPositions[Symbol] < cfg.maxPerSymbol
<1>1. UNCHANGED <<symbolPositions, fixedLots, cfg>>
  BY DEF Risk!Evaluate, Risk!countVars, Risk!confVars
<1>2. order = NoOrder
  BY DEF Risk!Evaluate
<1>3. CASE Risk!FilterRejects
  BY <1>1, <1>2, <1>3 DEF Risk!FilterRejects
<1>4. CASE Risk!GuardRejects(Symbol, day, TRUE, spread, TRUE)
  BY <1>1, <1>2, <1>4 DEF Risk!GuardRejects, Risk!Roll
<1>5. CASE Risk!HaltRejects(day)
  BY <1>1, <1>2, <1>5 DEF Risk!HaltRejects, Risk!Roll
<1>6. CASE Risk!Approves(Symbol, day, spread, TRUE, raw)
  <2>1. Risk!LotSize(raw) \in Nat
    BY ClampOK DEF Risk!LotSize, TypeInv
  <2>2. /\ order' = [symbol |-> Symbol, lots |-> Risk!LotSize(raw), sized |-> FALSE]
        /\ symbolPositions[Symbol] < cfg.maxPerSymbol /\ equity' = equity
    BY <1>6 DEF Risk!Approves, Risk!WithinLimits, Risk!Roll
  <2>3. order' \in Orders
    BY <2>1, <2>2 DEF Orders
  <2> QED
    BY <1>1, <2>2, <2>3
<1> QED
  BY <1>3, <1>4, <1>5, <1>6 DEF Risk!Evaluate

LEMMA ScaleOK ==
    ASSUME TypeInv, NEW bet \in Nat, Risk!ScaleByConfidence(TRUE, bet)
    PROVE  UNCHANGED <<symbolPositions, fixedLots, cfg, equity>> /\ order' \in Orders
<1>1. UNCHANGED <<symbolPositions, fixedLots, cfg, equity>>
  BY DEF Risk!ScaleByConfidence, Risk!bookVars, Risk!countVars, Risk!confVars
<1>2. order \in Orders
  BY DEF Risk!ScaleByConfidence, TypeInv
<1> DEFINE lots == IF fixedLots > 0 THEN fixedLots
                   ELSE IF TRUE /\ cfg.maxLot > cfg.minLot
                        THEN Risk!Smaller(Risk!Larger(bet, cfg.minLot), cfg.maxLot)
                        ELSE order.lots
<1>3. lots \in Nat
  BY <1>2, ClampOK DEF TypeInv, Orders
<1>4. order' = [order EXCEPT !.sized = TRUE, !.lots = lots]
  BY DEF Risk!ScaleByConfidence
<1> HIDE DEF lots
<1>5. order' \in Orders
  BY <1>2, <1>3, <1>4 DEF Orders
<1> QED
  BY <1>1, <1>5

\* Booking a result leaves the settings and the order alone.
LEMMA BookOK ==
    ASSUME NEW id \in DOMAIN active, NEW event, Book(id, event)
    PROVE  /\ UNCHANGED <<fixedLots, cfg, order>>
           /\ equity' = equity + NetPnL(event)
           /\ event.reason = "PARTIAL_TP1_HIT" =>
                 /\ symbolPositions' = symbolPositions
                 /\ active' = [active EXCEPT ![id] = active[id] - event.lots]
           /\ event.reason # "PARTIAL_TP1_HIT" =>
                 /\ symbolPositions' =
                       [symbolPositions EXCEPT ![Symbol] = Risk!Larger(symbolPositions[Symbol] - 1, 0)]
                 /\ active' = [i \in DOMAIN active \ {id} |-> active[i]]
BY DEF Book, Risk!RecordClose, Risk!RecordCloseForSymbol, Risk!Book, Risk!confVars

LEMMA StopsOK ==
    ASSUME NEW s \in Ideas
    PROVE  StopOf(s) \in Int /\ TargetOf(s) \in Int
<1>1. s.sl \in Nat /\ s.tp \in Nat
  BY DEF Ideas
<1>2. StopDistance(s) \in Nat
  BY <1>1 DEF StopDistance, Within
<1>3. (StopDistance(s) * 15) \div 10 \in Nat
  BY <1>2
<1>4. TargetDistance(s) \in Nat
  <2> DEFINE a == (StopDistance(s) * 15) \div 10
  <2>1. a \in Nat
    BY <1>3
  <2>2. TargetDistance(s) = Within(s.tp, Higher(a, 500), 1200)
    BY DEF TargetDistance
  <2> HIDE DEF a
  <2> QED
    BY <1>1, <2>1, <2>2 DEF Within, Higher
<1>5. -StopDistance(s) \in Int /\ -s.sl \in Int
  BY <1>1, <1>2
<1> QED
  BY <1>1, <1>4, <1>5 DEF StopOf, TargetOf, NoStop, NoTarget

LEMMA EnteredOK ==
    ASSUME TypeInv, Enter
    PROVE  /\ order \in Orders /\ order' = NoOrder
           /\ UNCHANGED <<symbolPositions, fixedLots, cfg, equity>>
           /\ Opened(Symbol, signal.side, order.lots, StopOf(signal), TargetOf(signal))
                 \in Positions
<1>1. order \in Orders /\ order' = NoOrder /\ UNCHANGED <<symbolPositions, fixedLots, cfg, equity>>
  BY DEF Enter, Risk!TakeOrder, Risk!bookVars, Risk!countVars, Risk!confVars, TypeInv
<1>2. signal \in Ideas /\ signal.side \in {"BUY", "SELL"} /\ order.lots \in Nat
  BY <1>1 DEF TypeInv, Ideas, Orders
<1>3. StopOf(signal) \in Int /\ TargetOf(signal) \in Int
  BY <1>2, StopsOK
<1>4. Symbol \in Symbols
  BY BacktestAssumption DEF BacktestAssumption
<1> QED
  BY <1>1, <1>2, <1>3, <1>4 DEF Opened, Positions

LEMMA TrackTypes ==
    ASSUME TypeInv, NEW gain \in [Ids -> Gains], NEW atr \in ATRs, NEW overdue,
           Track(gain, atr, overdue)
    PROVE  TypeInv'
<1>1. /\ OnTick(Symbol, gain, atr, overdue)
      /\ UNCHANGED <<signal, order, fixedLots, cfg>>
      /\ floating' = [id \in Ids |->
             IF id \in Tracked THEN gain[id] * positions[id].remaining ELSE 0]
  BY DEF Track, riskVars, entryVars
<1>2. /\ \A id \in Ids : \E w : Ticked(id, w)
      /\ positions' = [id \in Ids |-> positions'[id]]
      /\ closes' = [id \in Ids |-> closes'[id]]
  BY <1>1, OnTickEffect, BacktestAssumption DEF TypeInv, BacktestAssumption
<1>3. ASSUME NEW id \in Ids
      PROVE  /\ positions'[id] \in Positions \cup {Untracked}
             /\ closes'[id] \in Seq(CloseEvents)
  <2>1. PICK w : Ticked(id, w)
    BY <1>2
  <2>2. w.pos \in Positions \cup {Untracked} /\ w.closes \in Seq(CloseEvents)
    <3>1. <<>> \in Seq(CloseEvents)
      OBVIOUS
    <3>2. CASE w \in Works
      BY <3>2 DEF Works
    <3>3. CASE w = Work(positions[id])
      BY <3>1, <3>3 DEF Work, TypeInv
    <3> QED
      BY <2>1, <3>2, <3>3 DEF Ticked
  <2> QED
    BY <2>1, <2>2 DEF Ticked
<1>4. floating' \in [Ids -> Int]
  <2>1. ASSUME NEW id \in Ids, positions[id] # Untracked
        PROVE  gain[id] * positions[id].remaining \in Int
    <3>1. gain[id] \in Int /\ positions[id].remaining \in Nat
      BY <2>1, ConfigOK DEF TypeInv, Positions
    <3> QED
      BY <3>1
  <2> QED
    BY <1>1, <2>1 DEF Tracked
<1>5. positions' \in [Ids -> Positions \cup {Untracked}] /\ closes' \in [Ids -> Seq(CloseEvents)]
  BY <1>2, <1>3
<1> QED
  BY <1>1, <1>4, <1>5 DEF TypeInv

\* The steps that neither trade nor track.
Passes ==
    \/ Settled \/ NoEntry \/ Veto \/ RecordFill
    \/ Sample \/ SkipSample \/ NextDay \/ UNCHANGED vars

LEMMA PassOK ==
    ASSUME Passes
    PROVE  /\ UNCHANGED <<positions, closes, floating, signal, order, fixedLots, cfg, active,
                          equity, balance, trades, nextId>>
           /\ pc # "fill" => symbolPositions' = symbolPositions
           /\ pc' # "closes" \/ pc' = pc
           /\ pc' \notin {"size", "enter", "fill"} \/ pc' = pc
           /\ pc = "closes" /\ pc' # "closes" => \A id \in Ids : closes[id] = <<>>
BY DEF Passes, Settled, NoEntry, Veto, RecordFill, Sample, SkipSample, NextDay, vars,
   GoTo, NextTick, trackerVars, riskVars, ledgerVars, entryVars,
   Risk!RecordFillForSymbol, Risk!bookVars, Risk!confVars

LEMMA SettleTypes ==
    ASSUME TypeInv, NEW id \in Ids, SettleClose(id)
    PROVE  TypeInv'
<1>1. /\ closes[id] # <<>> /\ closes' = [closes EXCEPT ![id] = Tail(closes[id])]
      /\ UNCHANGED <<positions, floating, signal>>
  BY DEF SettleClose, HandleClose, entryVars
<1>2. closes' \in [Ids -> Seq(CloseEvents)]
  <2>1. closes[id] \in Seq(CloseEvents)
    BY DEF TypeInv
  <2>2. Tail(closes[id]) \in Seq(CloseEvents)
    BY <1>1, <2>1
  <2> QED
    BY <1>1, <2>2 DEF TypeInv
<1>3. UNCHANGED <<order, fixedLots, cfg>>
  <2>1. CASE id \notin DOMAIN active
    BY <2>1 DEF SettleClose, riskVars
  <2>2. CASE id \in DOMAIN active
    BY <2>2, BookOK DEF SettleClose
  <2> QED
    BY <2>1, <2>2
<1> QED
  BY <1>1, <1>2, <1>3 DEF TypeInv

LEMMA TypeNext ==
    ASSUME TypeInv, [Next]_vars
    PROVE  TypeInv'
<1>1. ASSUME Passes PROVE TypeInv'
  BY <1>1, PassOK DEF TypeInv
<1>2. ASSUME NEW s \in Signals, NEW spread \in Spreads, NEW raw \in RawLots,
             Consider(s, spread, raw)
      PROVE  TypeInv'
  <2>1. s \in Ideas /\ raw \in Nat
    BY BacktestAssumption DEF BacktestAssumption, Ideas
  <2>2. UNCHANGED <<positions, closes, floating>> /\ signal' = s
    BY <1>2 DEF Consider, trackerVars
  <2>3. UNCHANGED <<fixedLots, cfg>> /\ (order' = NoOrder \/ order' \in Orders)
    BY <1>2, <2>1, EvaluateOK DEF Consider
  <2> QED
    BY <2>1, <2>2, <2>3 DEF TypeInv
<1>3. ASSUME NEW bet \in RawLots, Size(bet)
      PROVE  TypeInv'
  <2>1. bet \in Nat
    BY BacktestAssumption DEF BacktestAssumption
  <2>2. UNCHANGED <<positions, closes, floating, signal>>
    BY <1>3 DEF Size, trackerVars, entryVars
  <2>3. UNCHANGED <<fixedLots, cfg>> /\ order' \in Orders
    BY <1>3, <2>1, ScaleOK DEF Size
  <2> QED
    BY <2>2, <2>3 DEF TypeInv
<1>4. ASSUME Enter
      PROVE  TypeInv'
  <2> DEFINE new == Opened(Symbol, signal.side, order.lots, StopOf(signal), TargetOf(signal))
  <2>1. new \in Positions /\ order' = NoOrder /\ UNCHANGED <<fixedLots, cfg>>
    BY <1>4, EnteredOK
  <2>2. /\ positions' = [positions EXCEPT ![nextId] = new]
        /\ UNCHANGED <<closes, floating>> /\ signal' = NoSignal
    BY <1>4 DEF Enter, Add
  <2>3. NoSignal \in Ideas
    BY DEF NoSignal, Ideas
  <2> HIDE DEF new
  <2> QED
    BY <2>1, <2>2, <2>3 DEF TypeInv
<1> QED
  BY <1>1, <1>2, <1>3, <1>4, TrackTypes, SettleTypes DEF Next, Passes

LEMMA TypeInvariant == Spec => []TypeInv
BY TypeInit, TypeNext, PTL DEF Spec

-----------------------------------------------------------------------------
(* The ledgers and the report.                                               *)

Results == [id : Ids, lots : Nat, pnl : Int]

LedgerInv ==
    /\ trades \in Seq(Results) /\ curve \in Seq(Int)
    /\ balance \in Int /\ LedgersAgree
    /\ Tells(Dip(curve), curve)

LEMMA LedgerInit == Init => LedgerInv
<1> SUFFICES ASSUME Init PROVE LedgerInv
  OBVIOUS
<1>1. InitialEquity \in Int
  BY BacktestAssumption DEF BacktestAssumption
<1>2. /\ trades = <<>> /\ curve = <<InitialEquity>> /\ balance = InitialEquity
      /\ equity = InitialEquity
  BY DEF Init, Risk!RiskInit
<1>3. NetProfit = 0 /\ GrossProfit = 0 /\ GrossLoss = 0
  <2>1. /\ [i \in DOMAIN trades |-> trades[i].pnl] = <<>>
        /\ [i \in DOMAIN trades |-> Higher(trades[i].pnl, 0)] = <<>>
        /\ [i \in DOMAIN trades |-> Higher(-trades[i].pnl, 0)] = <<>>
    BY <1>2
  <2> QED
    BY <2>1, TotalNone DEF NetProfit, GrossProfit, GrossLoss
<1>4. trades \in Seq(Results) /\ curve \in Seq(Int)
  BY <1>1, <1>2
<1>5. Tells(Dip(curve), curve)
  BY <1>2, TellsFirst
<1> QED
  BY <1>1, <1>2, <1>3, <1>4, <1>5 DEF LedgerInv, LedgersAgree

\* A trade adds its result to the sums of the report.
LEMMA TradeSums ==
    ASSUME NEW s \in Seq(Results), NEW r \in Results, NEW t, t = Append(s, r)
    PROVE  /\ Total([i \in DOMAIN s |-> s[i].pnl]) \in Int
           /\ Total([i \in DOMAIN t |-> t[i].pnl])
                 = Total([i \in DOMAIN s |-> s[i].pnl]) + r.pnl
           /\ Total([i \in DOMAIN s |-> Higher(s[i].pnl, 0)]) \in Int
           /\ Total([i \in DOMAIN t |-> Higher(t[i].pnl, 0)])
                 = Total([i \in DOMAIN s |-> Higher(s[i].pnl, 0)]) + Higher(r.pnl, 0)
           /\ Total([i \in DOMAIN s |-> Higher(-s[i].pnl, 0)]) \in Int
           /\ Total([i \in DOMAIN t |-> Higher(-t[i].pnl, 0)])
                 = Total([i \in DOMAIN s |-> Higher(-s[i].pnl, 0)]) + Higher(-r.pnl, 0)
<1> DEFINE n == Len(s)
<1>1. /\ n \in Nat /\ DOMAIN s = 1..n /\ t \in Seq(Results)
      /\ Len(t) = n + 1 /\ DOMAIN t = 1..n + 1 /\ t[n + 1] = r /\ \A i \in 1..n : t[i] = s[i]
  OBVIOUS
<1> HIDE DEF n
<1>2. \A i \in 1..n + 1 : t[i].pnl \in Int
  <2>1. \A i \in 1..n + 1 : t[i] \in Results
    BY <1>1
  <2> QED
    BY <2>1 DEF Results
<1>3. ASSUME NEW u, NEW v, NEW x,
             u \in [1..n -> Int], v \in [1..n + 1 -> Int], v[n + 1] = x,
             \A i \in 1..n : v[i] = u[i]
      PROVE  Total(u) \in Int /\ Total(v) = Total(u) + x
  <2>1. /\ u \in Seq(Int) /\ Len(u) = n /\ v \in Seq(Int) /\ Len(v) = n + 1
    BY <1>1, <1>3
  <2> QED
    BY <1>3, <2>1, TotalGrows
<1>4. \A i \in 1..n : i \in 1..n + 1
  BY <1>1
<1>5. n + 1 \in 1..n + 1
  BY <1>1
<1>6. \A x \in Int : Higher(x, 0) \in Int /\ Higher(-x, 0) \in Int
  BY DEF Higher
<1> QED
  <2>1. /\ Total([i \in 1..n |-> s[i].pnl]) \in Int
        /\ Total([i \in 1..n + 1 |-> t[i].pnl]) = Total([i \in 1..n |-> s[i].pnl]) + r.pnl
    <3> DEFINE u == [i \in 1..n |-> s[i].pnl]
               v == [i \in 1..n + 1 |-> t[i].pnl]
    <3>1. /\ u \in [1..n -> Int] /\ v \in [1..n + 1 -> Int] /\ v[n + 1] = r.pnl
          /\ \A i \in 1..n : v[i] = u[i]
      BY <1>1, <1>2, <1>4, <1>5
    <3> HIDE DEF u, v
    <3>2. Total(u) \in Int /\ Total(v) = Total(u) + r.pnl
      BY <1>3, <3>1
    <3> QED
      BY <3>2 DEF u, v
  <2>2. /\ Total([i \in 1..n |-> Higher(s[i].pnl, 0)]) \in Int
        /\ Total([i \in 1..n + 1 |-> Higher(t[i].pnl, 0)])
              = Total([i \in 1..n |-> Higher(s[i].pnl, 0)]) + Higher(r.pnl, 0)
    <3> DEFINE u == [i \in 1..n |-> Higher(s[i].pnl, 0)]
               v == [i \in 1..n + 1 |-> Higher(t[i].pnl, 0)]
    <3>1. /\ u \in [1..n -> Int] /\ v \in [1..n + 1 -> Int] /\ v[n + 1] = Higher(r.pnl, 0)
          /\ \A i \in 1..n : v[i] = u[i]
      BY <1>1, <1>2, <1>4, <1>5, <1>6
    <3> HIDE DEF u, v
    <3>2. Total(u) \in Int /\ Total(v) = Total(u) + Higher(r.pnl, 0)
      BY <1>3, <3>1
    <3> QED
      BY <3>2 DEF u, v
  <2>3. /\ Total([i \in 1..n |-> Higher(-s[i].pnl, 0)]) \in Int
        /\ Total([i \in 1..n + 1 |-> Higher(-t[i].pnl, 0)])
              = Total([i \in 1..n |-> Higher(-s[i].pnl, 0)]) + Higher(-r.pnl, 0)
    <3> DEFINE u == [i \in 1..n |-> Higher(-s[i].pnl, 0)]
               v == [i \in 1..n + 1 |-> Higher(-t[i].pnl, 0)]
    <3>1. /\ u \in [1..n -> Int] /\ v \in [1..n + 1 -> Int] /\ v[n + 1] = Higher(-r.pnl, 0)
          /\ \A i \in 1..n : v[i] = u[i]
      BY <1>1, <1>2, <1>4, <1>5, <1>6
    <3> HIDE DEF u, v
    <3>2. Total(u) \in Int /\ Total(v) = Total(u) + Higher(-r.pnl, 0)
      BY <1>3, <3>1
    <3> QED
      BY <3>2 DEF u, v
  <2> QED
    BY <1>1, <2>1, <2>2, <2>3

LEMMA FloatingOK ==
    ASSUME floating \in [Ids -> Int]
    PROVE  Floating \in Int
<1> DEFINE s == [id \in Ids |-> IF id \in Tracked THEN floating[id] ELSE 0]
           n == Cardinality(Ids)
<1>1. n \in Nat /\ Ids = 1..n
  BY BacktestAssumption, FS_CardinalityType DEF BacktestAssumption
<1>2. s \in [1..n -> Int]
  BY <1>1
<1> HIDE DEF s, n
<1>3. s \in Seq(Int)
  BY <1>1, <1>2
<1>4. Total(s) \in Int
  <2>1. PICK f \in [0..Len(s) -> Int] : Total(s) = f[Len(s)]
    BY <1>3, TotalUnfold
  <2> QED
    BY <1>3, <2>1
<1> QED
  BY <1>4 DEF s, Floating

LEMMA LedgerSettle ==
    ASSUME TypeInv, LedgerInv, NEW id \in Ids, SettleClose(id)
    PROVE  LedgerInv'
<1> DEFINE event == Head(closes[id])
           pnl == NetPnL(event)
           r == [id |-> id, lots |-> event.lots, pnl |-> pnl]
<1>1. CASE id \notin DOMAIN active
  <2>1. UNCHANGED <<balance, equity, trades, curve>>
    BY <1>1 DEF SettleClose, riskVars
  <2> QED
    BY <2>1 DEF LedgerInv, LedgersAgree, NetProfit, GrossProfit, GrossLoss
<1>2. CASE id \in DOMAIN active
  <2>1. event \in CloseEvents
    <3>1. closes[id] # <<>> /\ closes[id] \in Seq(CloseEvents)
      BY DEF SettleClose, HandleClose, TypeInv
    <3> QED
      BY <3>1
  <2>2. pnl \in Int
    <3>1. event.lots \in Int /\ event.pips - Slippage - Commission \in Int
      BY <2>1, BacktestAssumption DEF CloseEvents, BacktestAssumption
    <3> HIDE DEF event
    <3> QED
      BY <3>1 DEF NetPnL
  <2>3. r \in Results /\ r.pnl = pnl
    BY <2>1, <2>2 DEF Results, CloseEvents
  <2>4. /\ equity' = equity + pnl /\ balance' = balance + pnl
        /\ trades' = Append(trades, r) /\ curve' = curve
    BY <1>2, BookOK DEF SettleClose
  <2> HIDE DEF event, pnl, r
  <2> DEFINE up == Higher(pnl, 0)
             down == Higher(-pnl, 0)
  <2>5. trades' \in Seq(Results)
    BY <2>3, <2>4 DEF LedgerInv
  <2>6. /\ NetProfit \in Int /\ NetProfit' = NetProfit + pnl
        /\ GrossProfit \in Int /\ GrossProfit' = GrossProfit + up
        /\ GrossLoss \in Int /\ GrossLoss' = GrossLoss + down
    BY <2>3, <2>4, TradeSums DEF LedgerInv, NetProfit, GrossProfit, GrossLoss
  <2>7. pnl = up - down /\ up \in Int /\ down \in Int
    BY <2>2 DEF Higher
  <2> HIDE DEF up, down
  <2>8. LedgersAgree'
    <3>1. InitialEquity \in Int /\ balance \in Int /\ LedgersAgree
      BY BacktestAssumption DEF BacktestAssumption, LedgerInv
    <3>2. balance' = equity'
      BY <2>4, <3>1 DEF LedgersAgree
    <3>3. balance' = InitialEquity + NetProfit'
      BY <2>2, <2>4, <2>6, <3>1 DEF LedgersAgree
    <3>4. NetProfit' = GrossProfit' - GrossLoss'
      BY <2>2, <2>6, <2>7, <3>1 DEF LedgersAgree
    <3> QED
      BY <3>2, <3>3, <3>4 DEF LedgersAgree
  <2> QED
    BY <2>2, <2>4, <2>5, <2>8 DEF LedgerInv
<1> QED
  BY <1>1, <1>2

LEMMA LedgerSample ==
    ASSUME TypeInv, LedgerInv, Sample
    PROVE  LedgerInv'
<1> DEFINE x == balance + Floating
<1>1. UNCHANGED <<balance, equity, trades>> /\ curve' = Append(curve, x)
  BY DEF Sample, riskVars
<1>2. x \in Int
  BY FloatingOK DEF TypeInv, LedgerInv
<1> HIDE DEF x
<1>3. curve' \in Seq(Int) /\ Tells(Dip(curve'), curve')
  BY <1>1, <1>2, TellsNext DEF LedgerInv
<1>4. LedgersAgree'
  BY <1>1 DEF LedgerInv, LedgersAgree, NetProfit, GrossProfit, GrossLoss
<1> QED
  BY <1>1, <1>3, <1>4 DEF LedgerInv

LEMMA LedgerNext ==
    ASSUME TypeInv, LedgerInv, [Next]_vars
    PROVE  LedgerInv'
<1>1. ASSUME UNCHANGED <<balance, equity, trades, curve>>
      PROVE  LedgerInv'
  BY <1>1 DEF LedgerInv, LedgersAgree, NetProfit, GrossProfit, GrossLoss
<1>2. ASSUME NEW gain, NEW atr, NEW overdue, Track(gain, atr, overdue)
      PROVE  LedgerInv'
  BY <1>1, <1>2 DEF Track, riskVars, ledgerVars
<1>3. ASSUME Passes, ~Sample
      PROVE  LedgerInv'
  BY <1>1, <1>3 DEF Passes, Settled, NoEntry, Veto, RecordFill, SkipSample, NextDay, vars,
     riskVars, ledgerVars, Risk!RecordFillForSymbol, Risk!bookVars
<1>4. ASSUME NEW s \in Signals, NEW spread \in Spreads, NEW raw \in RawLots,
             Consider(s, spread, raw)
      PROVE  LedgerInv'
  <2>1. raw \in Nat
    BY BacktestAssumption DEF BacktestAssumption
  <2>2. equity' = equity
    BY <1>4, <2>1, EvaluateOK DEF Consider
  <2> QED
    BY <1>1, <1>4, <2>2 DEF Consider, ledgerVars
<1>5. ASSUME NEW bet \in RawLots, Size(bet)
      PROVE  LedgerInv'
  <2>1. bet \in Nat
    BY BacktestAssumption DEF BacktestAssumption
  <2>2. equity' = equity
    BY <1>5, <2>1, ScaleOK DEF Size
  <2> QED
    BY <1>1, <1>5, <2>2 DEF Size, ledgerVars
<1>6. ASSUME Enter
      PROVE  LedgerInv'
  BY <1>1, <1>6, EnteredOK DEF Enter, ledgerVars
<1> QED
  BY <1>2, <1>3, <1>4, <1>5, <1>6, LedgerSettle, LedgerSample DEF Next, Passes

LEMMA LedgerInvariant == Spec => []LedgerInv
<1>1. Init => LedgerInv
  BY LedgerInit
<1>2. TypeInv /\ LedgerInv /\ [Next]_vars => LedgerInv'
  BY LedgerNext
<1> QED
  BY <1>1, <1>2, TypeInvariant, PTL DEF Spec

\* For all signals, prices, days, costs and lots: the engine's balance, the manager's
\* equity and the sums of the report tell one result, costs and parts included.
THEOREM LedgersTellOneResult == Spec => []LedgersAgree
<1>1. LedgerInv => LedgersAgree
  BY DEF LedgerInv
<1> QED
  BY <1>1, LedgerInvariant, PTL

\* Of a run with a trade, the running drawdown of metrics.go is the deepest fall between
\* any two samples of the curve, for every curve the engine can sample; of a run without
\* one CalculateMetrics reports none, and the theorem says nothing.
THEOREM ReportedDrawdownIsWorst == Spec => []DrawdownIsWorst
<1>1. LedgerInv => DrawdownIsWorst
  <2> SUFFICES ASSUME LedgerInv, trades # <<>> PROVE MaxDrawdown = WorstFall
    BY DEF DrawdownIsWorst
  <2>1. curve \in Seq(Int) /\ Dip(curve) \in Dips /\ Tells(Dip(curve), curve)
    BY DipGrows DEF LedgerInv
  <2>2. MaxDrawdown = Dip(curve).worst
    BY DEF MaxDrawdown, Dip, NoDip
  <2> QED
    BY <2>1, <2>2, TellsWorst DEF WorstFall
<1> QED
  BY <1>1, LedgerInvariant, PTL

-----------------------------------------------------------------------------
(* The engine's, the tracker's and the manager's books.                      *)

Held(id) == IF id \in DOMAIN active THEN active[id] ELSE 0

\* The engine holds what is tracked or waits in a close event, one position at most;
\* the slot of the symbol is taken from its fill to its last close.
EngineInv ==
    /\ pc # "closes" => \A id \in Ids : closes[id] = <<>>
    /\ DOMAIN active \subseteq Ids
    /\ \A i, j \in DOMAIN active : i = j
    /\ \A id \in Ids : /\ id \in DOMAIN active <=> Live(closes[id], positions[id])
                       /\ Booked(closes[id], positions[id], Held(id))
    /\ pc \in {"size", "enter"} => nextId \in Ids /\ DOMAIN active = {}
    /\ pc = "fill" => DOMAIN active # {}
    /\ symbolPositions \in [Symbols -> Int]
    /\ symbolPositions[Symbol] = IF DOMAIN active = {} \/ pc = "fill" THEN 0 ELSE 1

LEMMA EngineInit == Init => EngineInv
<1> SUFFICES ASSUME Init PROVE EngineInv
  OBVIOUS
<1>1. DOMAIN active = {}
  BY DEF Init
<1>2. /\ positions = [id \in Ids |-> Untracked] /\ closes = [id \in Ids |-> <<>>]
      /\ pc = "track" /\ symbolPositions = [s \in Symbols |-> 0]
  BY DEF Init, TrackerInit, Risk!RiskInit, Risk!NoPositions
<1>3. Symbol \in Symbols
  BY BacktestAssumption DEF BacktestAssumption
<1> QED
  BY <1>1, <1>2, <1>3 DEF EngineInv, Held, Live, Booked, RestOf

LEMMA EngineTrack ==
    ASSUME RemovesClosed, TypeInv, EngineInv,
           NEW gain \in [Ids -> Gains], NEW atr \in ATRs, NEW overdue,
           Track(gain, atr, overdue)
    PROVE  EngineInv'
<1>1. /\ OnTick(Symbol, gain, atr, overdue) /\ pc = "track" /\ pc' = "closes"
      /\ UNCHANGED <<active, symbolPositions>>
  BY DEF Track, GoTo, riskVars
<1>2. \A id \in Ids : \E w : Ticked(id, w)
  BY <1>1, OnTickEffect, BacktestAssumption DEF TypeInv, BacktestAssumption
<1>3. ASSUME NEW id \in Ids
      PROVE  /\ Booked(closes'[id], positions'[id], Held(id))
             /\ id \in DOMAIN active <=> Live(closes'[id], positions'[id])
  <2>1. PICK w : Ticked(id, w)
    BY <1>2
  <2>2. closes[id] = <<>>
    BY <1>1 DEF EngineInv
  <2>3. /\ positions[id] \in Positions \cup {Untracked}
        /\ Booked(<<>>, positions[id], Held(id))
        /\ id \in DOMAIN active <=> positions[id] # Untracked
    BY <2>2 DEF TypeInv, EngineInv, Live
  <2> DEFINE q == IF Config.autoRemove /\ Whole(w) THEN Untracked ELSE w.pos
  <2>4. closes'[id] = w.closes /\ positions'[id] = q
    BY <2>1 DEF Ticked
  <2>5. \/ positions[id] \in Positions \ {Untracked} /\ w \in Works /\ Accounted(w, positions[id])
        \/ w = Work(positions[id])
    BY <2>1 DEF Ticked
  <2>6. Booked(w.closes, q, Held(id)) /\ (Live(w.closes, q) <=> positions[id] # Untracked)
    BY <2>3, <2>5, BookedTick
  <2> HIDE DEF q
  <2> QED
    BY <2>3, <2>4, <2>6
<1>4. \A id \in Ids : Held(id)' = Held(id)
  BY <1>1 DEF Held
<1> QED
  BY <1>1, <1>3, <1>4 DEF EngineInv

LEMMA EngineSettle ==
    ASSUME TypeInv, EngineInv, NEW id \in Ids, SettleClose(id)
    PROVE  EngineInv'
<1> DEFINE event == Head(closes[id])
<1>1. /\ pc = "closes" /\ pc' = pc /\ closes[id] # <<>> /\ positions' = positions
      /\ closes' = [closes EXCEPT ![id] = Tail(closes[id])]
  BY DEF SettleClose, HandleClose
<1>2. /\ id \in DOMAIN active /\ DOMAIN active = {id} /\ Held(id) = active[id]
      /\ Booked(closes[id], positions[id], Held(id)) /\ symbolPositions[Symbol] = 1
      /\ Symbol \in DOMAIN symbolPositions
  BY <1>1, BacktestAssumption DEF EngineInv, Live, Held, BacktestAssumption
<1>3. /\ event.reason = "PARTIAL_TP1_HIT" =>
            /\ Booked(Tail(closes[id]), positions[id], Held(id) - event.lots)
            /\ Live(Tail(closes[id]), positions[id])
      /\ event.reason # "PARTIAL_TP1_HIT" =>
            Booked(Tail(closes[id]), positions[id], 0) /\ ~Live(Tail(closes[id]), positions[id])
  BY <1>1, <1>2, BookedSettle DEF TypeInv
<1>4. /\ event.reason = "PARTIAL_TP1_HIT" =>
            /\ symbolPositions' = symbolPositions
            /\ active' = [active EXCEPT ![id] = active[id] - event.lots]
      /\ event.reason # "PARTIAL_TP1_HIT" =>
            /\ symbolPositions' =
                  [symbolPositions EXCEPT ![Symbol] = Risk!Larger(symbolPositions[Symbol] - 1, 0)]
            /\ active' = [i \in DOMAIN active \ {id} |-> active[i]]
  BY <1>2, BookOK DEF SettleClose
<1> HIDE DEF event
<1>5. ASSUME NEW i \in Ids, i # id
      PROVE  /\ closes'[i] = closes[i] /\ i \notin DOMAIN active
             /\ ~Live(closes[i], positions[i]) /\ Booked(closes[i], positions[i], 0)
  BY <1>1, <1>2, <1>5 DEF TypeInv, EngineInv, Held
<1>6. closes'[id] = Tail(closes[id])
  BY <1>1 DEF TypeInv
<1>7. CASE event.reason = "PARTIAL_TP1_HIT"
  <2>1. /\ DOMAIN active' = {id} /\ active'[id] = active[id] - event.lots
        /\ symbolPositions' = symbolPositions
    BY <1>2, <1>4, <1>7
  <2>2. \A i \in Ids : Held(i)' = IF i = id THEN Held(id) - event.lots ELSE 0
    BY <1>2, <2>1 DEF Held
  <2>3. \A i \in Ids : /\ i \in DOMAIN active' <=> Live(closes'[i], positions'[i])
                       /\ Booked(closes'[i], positions'[i], Held(i)')
    BY <1>1, <1>3, <1>5, <1>6, <1>7, <2>1, <2>2
  <2> QED
    BY <1>1, <1>2, <2>1, <2>3 DEF EngineInv
<1>8. CASE event.reason # "PARTIAL_TP1_HIT"
  <2>1. DOMAIN active' = {} /\ symbolPositions'[Symbol] = 0 /\ symbolPositions' \in [Symbols -> Int]
    <3>1. Risk!Larger(1 - 1, 0) = 0
      BY DEF Risk!Larger
    <3>2. symbolPositions' = [symbolPositions EXCEPT ![Symbol] = 0]
      BY <1>2, <1>4, <1>8, <3>1
    <3>3. DOMAIN active' = DOMAIN active \ {id}
      BY <1>4, <1>8
    <3> QED
      BY <1>2, <3>2, <3>3 DEF EngineInv
  <2>2. \A i \in Ids : Held(i)' = 0
    BY <2>1 DEF Held
  <2>3. \A i \in Ids : /\ i \in DOMAIN active' <=> Live(closes'[i], positions'[i])
                       /\ Booked(closes'[i], positions'[i], Held(i)')
    BY <1>1, <1>3, <1>5, <1>6, <1>8, <2>1, <2>2
  <2> QED
    BY <1>1, <2>1, <2>3 DEF EngineInv
<1> QED
  BY <1>7, <1>8

LEMMA EngineEnter ==
    ASSUME TypeInv, EngineInv, Enter
    PROVE  EngineInv'
<1> DEFINE new == Opened(Symbol, signal.side, order.lots, StopOf(signal), TargetOf(signal))
<1>1. new \in Positions /\ new # Untracked /\ new.remaining = order.lots
  BY EnteredOK, TrackerAssumption DEF Opened, TrackerAssumption
<1>2. /\ pc = "enter" /\ pc' = "fill" /\ nextId \in Ids /\ DOMAIN active = {}
      /\ positions' = [positions EXCEPT ![nextId] = new] /\ closes' = closes
      /\ active' = [i \in DOMAIN active \cup {nextId} |->
                       IF i = nextId THEN order.lots ELSE active[i]]
      /\ symbolPositions' = symbolPositions
  BY EnteredOK DEF Enter, GoTo, Add, EngineInv
<1> HIDE DEF new
<1>3. DOMAIN active' = {nextId} /\ active'[nextId] = order.lots
  BY <1>2
<1>4. \A i \in Ids : Held(i)' = IF i = nextId THEN order.lots ELSE 0
  BY <1>3 DEF Held
<1>5. ASSUME NEW i \in Ids
      PROVE  /\ i \in DOMAIN active' <=> Live(closes'[i], positions'[i])
             /\ Booked(closes'[i], positions'[i], Held(i)')
  <2>1. closes'[i] = <<>>
    BY <1>2 DEF EngineInv
  <2>2. CASE i = nextId
    <3>1. positions'[i] = new
      BY <1>2, <2>2 DEF TypeInv
    <3> QED
      BY <1>1, <1>3, <1>4, <2>1, <2>2, <3>1 DEF Live, Booked, RestOf
  <2>3. CASE i # nextId
    <3>1. positions'[i] = positions[i] /\ i \notin DOMAIN active
      BY <1>2, <2>3 DEF TypeInv
    <3>2. positions'[i] = Untracked
      BY <3>1 DEF EngineInv, Live
    <3> QED
      BY <1>3, <1>4, <2>1, <2>3, <3>2 DEF Live, Booked, RestOf
  <2> QED
    BY <2>2, <2>3
<1> QED
  BY <1>2, <1>3, <1>5 DEF EngineInv

LEMMA EngineFill ==
    ASSUME EngineInv, RecordFill
    PROVE  EngineInv'
<1>1. /\ pc = "fill" /\ pc' = "sample" /\ UNCHANGED <<positions, closes, active>>
      /\ symbolPositions' = [symbolPositions EXCEPT ![Symbol] = @ + 1]
  BY DEF RecordFill, GoTo, Risk!RecordFillForSymbol, trackerVars
<1>2. Symbol \in Symbols
  BY BacktestAssumption DEF BacktestAssumption
<1>3. symbolPositions'[Symbol] = 1 /\ symbolPositions' \in [Symbols -> Int]
  BY <1>1, <1>2 DEF EngineInv
<1>4. \A id \in Ids : Held(id)' = Held(id)
  BY <1>1 DEF Held
<1> QED
  BY <1>1, <1>3, <1>4 DEF EngineInv

\* Steps that change neither the positions nor the slots.
LEMMA EngineSame ==
    ASSUME EngineInv,
           UNCHANGED <<positions, closes, active, symbolPositions>>,
           pc' # "closes" => \A id \in Ids : closes[id] = <<>>,
           pc' \in {"size", "enter"} => nextId' \in Ids /\ DOMAIN active = {},
           pc' = "fill" <=> pc = "fill"
    PROVE  EngineInv'
<1>1. \A id \in Ids : Held(id)' = Held(id)
  BY DEF Held
<1> QED
  BY <1>1 DEF EngineInv

LEMMA EngineNext ==
    ASSUME RemovesClosed, TypeInv, EngineInv, [Next]_vars
    PROVE  EngineInv'
<1>1. ASSUME Passes, ~RecordFill
      PROVE  EngineInv'
  <2>1. pc = "fill" => UNCHANGED vars
    BY <1>1 DEF Passes, Settled, NoEntry, Veto, Sample, SkipSample, NextDay, GoTo, NextTick
  <2>2. symbolPositions' = symbolPositions
    BY <1>1, <2>1, PassOK DEF vars, riskVars
  <2>3. pc' = "fill" <=> pc = "fill"
    BY <1>1, <2>1, PassOK DEF vars
  <2>4. pc' # "closes" => \A id \in Ids : closes[id] = <<>>
    BY <1>1, PassOK DEF EngineInv
  <2>5. pc' \in {"size", "enter"} => nextId' \in Ids /\ DOMAIN active = {}
    BY <1>1, PassOK DEF EngineInv
  <2> QED
    BY <1>1, <2>2, <2>3, <2>4, <2>5, PassOK, EngineSame
<1>2. ASSUME NEW s \in Signals, NEW spread \in Spreads, NEW raw \in RawLots,
             Consider(s, spread, raw)
      PROVE  EngineInv'
  <2>1. raw \in Nat
    BY BacktestAssumption DEF BacktestAssumption
  <2>2. /\ pc = "signal" /\ nextId \in Ids /\ nextId' = nextId
        /\ UNCHANGED <<positions, closes, active>>
        /\ pc' \in IF order' = NoOrder THEN {"track", "done"} ELSE {"size"}
    BY <1>2 DEF Consider, trackerVars
  <2>3. /\ symbolPositions' = symbolPositions
        /\ order' # NoOrder => symbolPositions[Symbol] < 1
    BY <1>2, <2>1, EvaluateOK DEF Consider, TypeInv
  <2>4. pc' = "size" => DOMAIN active = {}
    BY <2>2, <2>3 DEF EngineInv
  <2>5. pc' \in {"track", "done", "size"} /\ \A id \in Ids : closes[id] = <<>>
    BY <2>2 DEF EngineInv
  <2> QED
    BY <2>2, <2>3, <2>4, <2>5, EngineSame
<1>3. ASSUME NEW bet \in RawLots, Size(bet)
      PROVE  EngineInv'
  <2>1. bet \in Nat
    BY BacktestAssumption DEF BacktestAssumption
  <2>2. /\ pc = "size" /\ pc' = "enter" /\ nextId' = nextId
        /\ UNCHANGED <<positions, closes, active>>
    BY <1>3 DEF Size, GoTo, trackerVars, entryVars
  <2>3. symbolPositions' = symbolPositions
    BY <1>3, <2>1, ScaleOK DEF Size
  <2>4. nextId \in Ids /\ DOMAIN active = {} /\ \A id \in Ids : closes[id] = <<>>
    BY <2>2 DEF EngineInv
  <2> QED
    BY <2>2, <2>3, <2>4, EngineSame
<1> QED
  BY <1>1, <1>2, <1>3, EngineTrack, EngineSettle, EngineEnter, EngineFill DEF Next, Passes

\* For all signals, prices, days and lots, with the tracker that removes what it closes:
\* the engine holds what the tracker keeps and its close events owe, and the manager's
\* slot of the symbol, tested by Evaluate, lets no second position in.
THEOREM EngineBooksAgree == ASSUME RemovesClosed PROVE Spec => []BooksAgree
<1>1. TypeInv /\ EngineInv /\ [Next]_vars => EngineInv'
  BY EngineNext
<1>2. TypeInv /\ EngineInv => LotsAgree
  <2> SUFFICES ASSUME TypeInv, EngineInv, NEW id \in Ids
               PROVE  Held(id) = LotsOf(closes[id]) + RestOf(positions[id])
    BY DEF LotsAgree, Held, Tracked, RestOf
  <2>1. /\ positions[id] \in Positions \cup {Untracked}
        /\ Booked(closes[id], positions[id], Held(id))
    BY DEF TypeInv, EngineInv
  <2> QED
    BY <2>1, BookedLots
<1>3. TypeInv /\ EngineInv => SlotAgrees
  <2> SUFFICES ASSUME TypeInv, EngineInv
               PROVE  SlotAgrees
    OBVIOUS
  <2>1. CASE DOMAIN active = {}
    <3>1. Cardinality(DOMAIN active) = 0
      BY <2>1, FS_EmptySet
    <3> QED
      BY <2>1, <3>1 DEF SlotAgrees, TypeInv, EngineInv
  <2>2. CASE DOMAIN active # {}
    <3>1. PICK id \in DOMAIN active : \A i \in DOMAIN active : i = id
      BY <2>2 DEF EngineInv
    <3>2. Cardinality(DOMAIN active) = 1
      <4>1. DOMAIN active = {id}
        BY <3>1
      <4> QED
        BY <4>1, FS_Singleton
    <3> QED
      BY <2>2, <3>2 DEF SlotAgrees, TypeInv, EngineInv
  <2> QED
    BY <2>1, <2>2
<1> QED
  BY <1>1, <1>2, <1>3, EngineInit, TypeInvariant, PTL DEF Spec, BooksAgree
=============================================================================
