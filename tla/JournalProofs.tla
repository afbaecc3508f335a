---------------------------- MODULE JournalProofs ----------------------------
(***************************************************************************)
(* What the two files keep, for every number of tickets, lots and crashes, *)
(* every cap and retention: the user's lots survive the saves that name    *)
(* none, and the trades file holds every recent trade of the last Cap      *)
(* saved, none of them twice.  At the end: memory and files stay well      *)
(* typed, whatever the merges do to the history.                           *)
(***************************************************************************)
EXTENDS Journal, SequenceTheorems, WellFoundedInduction, TLAPS

\* The types the proofs need; the history in memory takes no part in them.
Kinds ==
    /\ clock \in 0..MaxClock /\ halted \in BOOLEAN
    /\ rec \in [at : {"idle", "append", "trade", "figures", "state"},
                trade : Trades \cup {NoTrade}, halted : BOOLEAN, day : Days]
    /\ rec.at \in {"append", "trade"} => rec.trade \in Trades
    /\ setter \in [at : {"idle", "figures", "state"}, lot : Lots \cup {NoLot},
                   halted : BOOLEAN, day : Days]
    /\ setter.at # "idle" => setter.lot \in Lots
    /\ state \in {Torn, NoFile} \cup States
    /\ trades \in Seq(Trades) \cup {Torn} /\ saved \in Seq(Trades)

\* The lots in the file are those saved last; a file that does not parse has none.
LotOf == IF state \in States THEN state.lot ELSE NoLot
LotInv == LotOf = savedLot

LEMMA BoundsOK ==
    /\ MaxClock \in Nat /\ DayLength \in Nat \ {0} /\ Cap \in Nat \ {0} /\ Retention \in Nat
    /\ Torn \notin States /\ NoFile \notin States /\ NoLot \notin Lots
    /\ Torn \notin Seq(Trades)
BY JournalAssumption DEF JournalAssumption

LEMMA DivMonotone ==
    ASSUME NEW a \in Nat, NEW b \in Nat, NEW d \in Nat \ {0}, a <= b
    PROVE  a \div d \in 0..(b \div d)
<1> DEFINE p == a \div d
           q == b \div d
<1>1. /\ p \in Nat /\ q \in Nat
      /\ d * p <= a /\ b < d * q + d
  OBVIOUS
<1> HIDE DEF p, q
<1>2. p <= q
  <2> SUFFICES ASSUME p >= q + 1
               PROVE  FALSE
    BY <1>1
  <2>1. d * p >= d * (q + 1)
    BY <1>1
  <2>2. d * (q + 1) = d * q + d
    BY <1>1
  <2>3. d * p \in Nat /\ d * q \in Nat
    BY <1>1
  <2> QED
    BY <1>1, <2>1, <2>2, <2>3
<1>3. p \in 0..q
  BY <1>1, <1>2
<1> QED
  BY <1>3 DEF p, q

LEMMA DayOK ==
    ASSUME NEW time \in 0..MaxClock
    PROVE  Day(time) \in Days
BY BoundsOK, DivMonotone DEF Day, Days
-----------------------------------------------------------------------------
(* Sequences: ends, the last n, and the recent ones of a sorted sequence.    *)

\* t is the end of s.
Ends(t, s) ==
    /\ Len(t) <= Len(s)
    /\ \A i \in 1..Len(t) : t[i] = s[Len(s) - Len(t) + i]

Sorted(s) == \A i, j \in DOMAIN s : i < j => s[i].time <= s[j].time

LEMMA SmallestNat ==
    ASSUME NEW S \in SUBSET Nat, S # {}
    PROVE  \E n \in S : \A m \in S : n <= m
<1>1. PICK n \in S : \A m \in S : ~(<<m, n>> \in OpToRel(<, Nat))
  BY NatLessThanWellFounded, WFMin
<1>2. \A m \in S : ~(m < n)
  BY <1>1 DEF OpToRel
<1> QED
  BY <1>2

LEMMA EndsSelf ==
    ASSUME NEW s \in Seq(Trades)
    PROVE  Ends(s, s)
BY DEF Ends

LEMMA EndsTrans ==
    ASSUME NEW s \in Seq(Trades), NEW t \in Seq(Trades), NEW u \in Seq(Trades),
           Ends(t, s), Ends(u, t)
    PROVE  Ends(u, s)
<1>1. Len(u) \in Nat /\ Len(t) \in Nat /\ Len(s) \in Nat
  OBVIOUS
<1> QED
  BY <1>1 DEF Ends

LEMMA EndsAppend ==
    ASSUME NEW s \in Seq(Trades), NEW t \in Seq(Trades), NEW x \in Trades, Ends(t, s)
    PROVE  Ends(Append(t, x), Append(s, x))
<1>1. /\ Len(t) \in Nat /\ Len(s) \in Nat
      /\ Len(Append(t, x)) = Len(t) + 1 /\ Len(Append(s, x)) = Len(s) + 1
      /\ \A i \in 1..Len(t) : Append(t, x)[i] = t[i]
      /\ \A i \in 1..Len(s) : Append(s, x)[i] = s[i]
      /\ Append(t, x)[Len(t) + 1] = x /\ Append(s, x)[Len(s) + 1] = x
  OBVIOUS
<1> QED
  BY <1>1 DEF Ends

LEMMA LastOK ==
    ASSUME NEW s \in Seq(Trades), NEW n \in Nat \ {0}
    PROVE  /\ Last_n(s, n) \in Seq(Trades)
           /\ Len(Last_n(s, n)) = IF Len(s) > n THEN n ELSE Len(s)
           /\ Ends(Last_n(s, n), s)
<1> DEFINE a == IF Len(s) > n THEN Len(s) - n + 1 ELSE 1
           t == SubSeq(s, a, Len(s))
<1>1. /\ Len(s) \in Nat /\ \A i \in 1..Len(s) : s[i] \in Trades
      /\ a \in Int /\ a >= 1
      /\ a = IF Len(s) > n THEN Len(s) - n + 1 ELSE 1
  OBVIOUS
<1>2. \A i \in a..Len(s) : s[i] \in Trades
  BY <1>1
<1> HIDE DEF a
<1>3. /\ t \in Seq(Trades)
      /\ Len(t) = IF a <= Len(s) THEN Len(s) - a + 1 ELSE 0
      /\ \A i \in 1..Len(s) - a + 1 : t[i] = s[a + i - 1]
  <2>1. Len(s) \in Int
    BY <1>1
  <2> QED
    BY <1>1, <1>2, <2>1, SubSeqProperties
<1>4. Last_n(s, n) = t
  BY DEF Last_n, a
<1> HIDE DEF t
<1>5. Len(t) = IF Len(s) > n THEN n ELSE Len(s)
  <2>1. Len(t) = IF a <= Len(s) THEN Len(s) - a + 1 ELSE 0
    BY <1>3
  <2>2. Len(s) \in Nat /\ a = IF Len(s) > n THEN Len(s) - n + 1 ELSE 1
    BY <1>1
  <2>3. CASE Len(s) > n
    BY <2>1, <2>2, <2>3
  <2>4. CASE ~(Len(s) > n)
    BY <2>1, <2>2, <2>4
  <2> QED
    BY <2>3, <2>4
<1>6. Ends(t, s)
  <2>1. Len(t) = Len(s) - a + 1 /\ Len(t) <= Len(s)
    BY <1>1, <1>5
  <2>2. ASSUME NEW i \in 1..Len(t)
        PROVE  t[i] = s[Len(s) - Len(t) + i]
    <3>1. i \in 1..Len(s) - a + 1 /\ a + i - 1 = Len(s) - Len(t) + i
      BY <1>1, <2>1
    <3> QED
      BY <1>3, <3>1
  <2> QED
    BY <2>1, <2>2 DEF Ends
<1> QED
  BY <1>3, <1>4, <1>5, <1>6

LEMMA EndsLast ==
    ASSUME NEW s \in Seq(Trades), NEW t \in Seq(Trades), NEW n \in Nat \ {0}, Ends(t, s)
    PROVE  Ends(Last_n(t, n), Last_n(s, n))
<1> DEFINE u == Last_n(t, n)
           v == Last_n(s, n)
<1>1. /\ u \in Seq(Trades) /\ Len(u) = (IF Len(t) > n THEN n ELSE Len(t)) /\ Ends(u, t)
      /\ v \in Seq(Trades) /\ Len(v) = (IF Len(s) > n THEN n ELSE Len(s)) /\ Ends(v, s)
      /\ Len(u) \in Nat /\ Len(v) \in Nat
  BY LastOK
<1>2. Len(s) \in Nat /\ Len(t) \in Nat
  OBVIOUS
<1> HIDE DEF u, v
<1>3. Ends(u, s)
  BY <1>1, EndsTrans
<1>4. Len(u) <= Len(v)
  BY <1>1, <1>2 DEF Ends
<1>5. Len(v) <= Len(s)
  BY <1>1 DEF Ends
<1>6. ASSUME NEW i \in 1..Len(u)
      PROVE  u[i] = v[Len(v) - Len(u) + i]
  <2>1. u[i] = s[Len(s) - Len(u) + i]
    BY <1>3 DEF Ends
  <2> DEFINE j == Len(v) - Len(u) + i
  <2>2. j \in 1..Len(v) /\ Len(s) - Len(v) + j = Len(s) - Len(u) + i
    <3>1. Len(u) \in Nat /\ Len(v) \in Nat
      BY <1>1
    <3> QED
      BY <3>1, <1>2, <1>4, <1>5
  <2> HIDE DEF j
  <2>3. v[j] = s[Len(s) - Len(v) + j]
    BY <1>1, <2>2 DEF Ends
  <2> QED
    BY <2>1, <2>2, <2>3 DEF j
<1>7. Ends(u, v)
  BY <1>4, <1>6 DEF Ends
<1> QED
  BY <1>7 DEF u, v

\* The unfolding of Entries, which has one solution.
Unfolds(f, s, I, n) ==
    f = [i \in 0..n |-> IF i = 0 THEN <<>>
                        ELSE IF i \in I THEN Append(f[i - 1], s[i]) ELSE f[i - 1]]

LEMMA UnfoldsExists ==
    ASSUME NEW s \in Seq(Trades), NEW I, NEW n \in Nat
    PROVE  \E f : Unfolds(f, s, I, n)
<1> DEFINE D == {k \in Nat : ~\E f : Unfolds(f, s, I, k)}
<1> SUFFICES ASSUME D # {}
             PROVE  FALSE
  OBVIOUS
<1>1. PICK k \in D : \A j \in D : k <= j
  BY SmallestNat
<1>2. k # 0
  <2>1. Unfolds([i \in 0..0 |-> <<>>], s, I, 0)
    BY DEF Unfolds
  <2> QED
    BY <1>1, <2>1
<1>3. k \in Nat /\ k - 1 \in Nat /\ k - 1 \notin D
  BY <1>1, <1>2
<1>4. PICK g : Unfolds(g, s, I, k - 1)
  BY <1>3
<1> DEFINE x == IF k \in I THEN Append(g[k - 1], s[k]) ELSE g[k - 1]
           f == [i \in 0..k |-> IF i = k THEN x ELSE g[i]]
<1>5. \A i \in 0..k - 1 : g[i] = IF i = 0 THEN <<>>
                                 ELSE IF i \in I THEN Append(g[i - 1], s[i]) ELSE g[i - 1]
  BY <1>4 DEF Unfolds
<1>6. ASSUME NEW i \in 0..k
      PROVE  f[i] = IF i = 0 THEN <<>>
                    ELSE IF i \in I THEN Append(f[i - 1], s[i]) ELSE f[i - 1]
  <2>1. i # 0 => i - 1 \in 0..k /\ i - 1 # k /\ f[i - 1] = g[i - 1]
    BY <1>3
  <2>2. CASE i = k
    <3>1. f[i] = x
      BY <2>2
    <3> QED
      BY <1>2, <2>1, <2>2, <3>1
  <2>3. CASE i # k
    <3>1. i \in 0..k - 1 /\ f[i] = g[i]
      BY <1>3, <2>3
    <3> HIDE DEF f
    <3> QED
      BY <1>5, <2>1, <3>1
  <2> QED
    BY <2>2, <2>3
<1>7. Unfolds(f, s, I, k)
  <2>1. f = [i \in 0..k |-> f[i]]
    OBVIOUS
  <2> HIDE DEF f
  <2> QED
    BY <1>6, <2>1 DEF Unfolds
<1> QED
  BY <1>1, <1>7

LEMMA EntriesUnfold ==
    ASSUME NEW s \in Seq(Trades), NEW I
    PROVE  \E f : /\ Entries(s, I) = f[Len(s)]
                  /\ \A i \in 0..Len(s) :
                        f[i] = IF i = 0 THEN <<>>
                               ELSE IF i \in I THEN Append(f[i - 1], s[i]) ELSE f[i - 1]
<1> DEFINE f == CHOOSE f : Unfolds(f, s, I, Len(s))
<1>1. Entries(s, I) = f[Len(s)]
  BY DEF Entries, Unfolds
<1>2. Unfolds(f, s, I, Len(s))
  BY UnfoldsExists
<1> HIDE DEF f
<1>3. \A i \in 0..Len(s) :
         f[i] = IF i = 0 THEN <<>>
                ELSE IF i \in I THEN Append(f[i - 1], s[i]) ELSE f[i - 1]
  BY <1>2 DEF Unfolds
<1> QED
  BY <1>1, <1>3

LEMMA EntriesOK ==
    ASSUME NEW s \in Seq(Trades), NEW I
    PROVE  Entries(s, I) \in Seq(Trades)
<1>1. PICK f : /\ Entries(s, I) = f[Len(s)]
               /\ \A i \in 0..Len(s) :
                     f[i] = IF i = 0 THEN <<>>
                            ELSE IF i \in I THEN Append(f[i - 1], s[i]) ELSE f[i - 1]
  BY EntriesUnfold
<1> DEFINE D == {i \in 0..Len(s) : f[i] \notin Seq(Trades)}
<1>2. Len(s) \in Nat /\ \A i \in 1..Len(s) : s[i] \in Trades
  OBVIOUS
<1>3. ASSUME D # {}
      PROVE  FALSE
  <2>0. D \in SUBSET Nat
    BY <1>2
  <2>1. PICK k \in D : \A j \in D : k <= j
    BY <1>3, <2>0, SmallestNat
  <2>2. k \in 0..Len(s) /\ f[k] \notin Seq(Trades)
    BY <2>1
  <2>3. k # 0
    <3>1. <<>> \in Seq(Trades)
      OBVIOUS
    <3> QED
      BY <1>1, <2>2, <3>1
  <2>4. k - 1 \in 0..Len(s) /\ k - 1 \notin D
    BY <1>2, <2>1, <2>2, <2>3
  <2>5. f[k - 1] \in Seq(Trades) /\ s[k] \in Trades
    BY <1>2, <2>2, <2>3, <2>4
  <2>6. Append(f[k - 1], s[k]) \in Seq(Trades)
    BY <2>5
  <2> QED
    BY <1>1, <2>2, <2>3, <2>5, <2>6
<1> QED
  BY <1>1, <1>2, <1>3
LEMMA RecentOfOK ==
    ASSUME NEW s \in Seq(Trades), Sorted(s), clock \in 0..MaxClock
    PROVE  /\ RecentOf(s) \in Seq(Trades) /\ Ends(RecentOf(s), s)
           /\ \A i \in 1..Len(s) - Len(RecentOf(s)) : ~Recent(s[i])
<1> DEFINE n == Len(s)
           K == {i \in 1..n + 1 : i = n + 1 \/ Recent(s[i])}
<1>1. n \in Nat /\ DOMAIN s = 1..n /\ \A i \in 1..n : s[i] \in Trades /\ s[i].time \in Int
  <2>1. n \in Nat /\ DOMAIN s = 1..n /\ \A i \in 1..n : s[i] \in Trades
    OBVIOUS
  <2>2. \A x \in Trades : x.time \in Int
    BY BoundsOK DEF Trades
  <2> QED
    BY <2>1, <2>2
<1>2. PICK k \in K : \A i \in K : k <= i
  <2>1. K \in SUBSET Nat /\ n + 1 \in K
    BY <1>1
  <2> QED
    BY <2>1, SmallestNat
<1>3. k \in 1..n + 1 /\ \A i \in 1..n : Recent(s[i]) <=> i >= k
  <2> SUFFICES ASSUME NEW i \in 1..n
               PROVE  Recent(s[i]) <=> i >= k
    BY <1>2
  <2>1. Recent(s[i]) => i >= k
    BY <1>2
  <2>2. i >= k => k \in 1..n /\ Recent(s[k])
    BY <1>1, <1>2
  <2>3. i >= k => s[k].time <= s[i].time
    BY <1>1, <2>2 DEF Sorted
  <2>4. clock - Retention \in Int
    BY BoundsOK
  <2>5. i >= k => Recent(s[i])
    BY <1>1, <2>2, <2>3, <2>4 DEF Recent
  <2> QED
    BY <2>1, <2>5
<1> HIDE DEF K
<1> DEFINE I == {i \in DOMAIN s : Recent(s[i])}
<1>4. PICK f : /\ RecentOf(s) = f[n]
               /\ \A i \in 0..n :
                     f[i] = IF i = 0 THEN <<>>
                            ELSE IF i \in I THEN Append(f[i - 1], s[i]) ELSE f[i - 1]
  <2>1. RecentOf(s) = Entries(s, I)
    BY DEF RecentOf
  <2> HIDE DEF I
  <2> QED
    BY <2>1, EntriesUnfold
<1>5. \A i \in 0..n : i < k => SubSeq(s, k, i) = <<>>
  BY <1>1, <1>3, SubSeqEmpty
<1>6. \A i \in 1..n : i >= k => SubSeq(s, k, i) = Append(SubSeq(s, k, i - 1), s[i])
  <2> SUFFICES ASSUME NEW i \in 1..n, i >= k
               PROVE  SubSeq(s, k, i) = Append(SubSeq(s, k, i - 1), s[i])
    OBVIOUS
  <2>1. k \in 1..n /\ i \in k..n
    BY <1>1, <1>3
  <2>2. SubSeq(s, k, i) = SubSeq(s, k, i - 1) \o <<s[i]>>
    BY <2>1, SubSeqRecursiveSecond
  <2>3. SubSeq(s, k, i - 1) \in Seq(Trades)
    <3>1. i - 1 \in Int /\ \A j \in k..i - 1 : s[j] \in Trades
      BY <1>1, <2>1
    <3> QED
      BY <1>1, <2>1, <3>1, SubSeqProperties
  <2>4. s[i] \in Trades
    BY <1>1
  <2> QED
    BY <2>2, <2>3, <2>4, AppendIsConcat
<1>7. \A i \in 1..n : i \in I <=> i >= k
  BY <1>1, <1>3
<1> HIDE DEF I
<1> DEFINE D == {i \in 0..n : f[i] # SubSeq(s, k, i)}
<1>8. ASSUME D # {}
      PROVE  FALSE
  <2>1. D \in SUBSET Nat
    BY <1>1
  <2>2. PICK i \in D : \A j \in D : i <= j
    BY <1>8, <2>1, SmallestNat
  <2>3. i \in 0..n /\ k \in Int /\ f[i] # SubSeq(s, k, i)
    BY <1>1, <1>3, <2>2
  <2>4. i # 0
    <3>1. 0 \in 0..n /\ 0 < k
      BY <1>1, <1>3
    <3>2. f[0] = <<>>
      BY <1>4, <3>1
    <3>3. SubSeq(s, k, 0) = <<>>
      BY <1>5, <3>1
    <3> QED
      BY <2>3, <3>2, <3>3
  <2>5. i \in 1..n /\ i - 1 \in 0..n /\ i - 1 \notin D
    BY <1>1, <2>2, <2>3, <2>4
  <2>6. f[i - 1] = SubSeq(s, k, i - 1)
    BY <2>5
  <2>7. f[i] = IF i \in I THEN Append(f[i - 1], s[i]) ELSE f[i - 1]
    BY <1>4, <2>3, <2>4
  <2>8. CASE i >= k
    BY <1>6, <1>7, <2>3, <2>5, <2>6, <2>7, <2>8
  <2>9. CASE i < k
    <3>1. SubSeq(s, k, i) = <<>> /\ SubSeq(s, k, i - 1) = <<>>
      BY <1>1, <1>5, <2>3, <2>5, <2>9
    <3>2. i \notin I
      BY <1>7, <2>3, <2>5, <2>9
    <3> QED
      BY <2>3, <2>6, <2>7, <3>1, <3>2
  <2> QED
    BY <2>3, <2>8, <2>9
<1>12. RecentOf(s) = SubSeq(s, k, n)
  BY <1>1, <1>4, <1>8
<1>13. /\ SubSeq(s, k, n) \in Seq(Trades)
       /\ Len(SubSeq(s, k, n)) = IF k <= n THEN n - k + 1 ELSE 0
       /\ \A i \in 1..n - k + 1 : SubSeq(s, k, n)[i] = s[k + i - 1]
  <2>1. \A i \in k..n : s[i] \in Trades
    BY <1>1, <1>3
  <2> QED
    BY <1>1, <1>3, <2>1, SubSeqProperties
<1> DEFINE r == RecentOf(s)
<1>14. /\ r \in Seq(Trades) /\ Len(r) = n - k + 1
       /\ \A i \in 1..Len(r) : r[i] = s[n - Len(r) + i]
  <2>1. Len(r) = n - k + 1
    BY <1>1, <1>3, <1>12, <1>13
  <2>2. ASSUME NEW i \in 1..Len(r)
        PROVE  r[i] = s[n - Len(r) + i]
    <3>1. i \in 1..n - k + 1 /\ k + i - 1 = n - Len(r) + i
      BY <1>1, <1>3, <2>1
    <3>2. SubSeq(s, k, n)[i] = s[k + i - 1]
      BY <1>13, <3>1
    <3> QED
      BY <1>12, <3>1, <3>2
  <2> QED
    BY <1>12, <1>13, <2>1, <2>2
<1> HIDE DEF r
<1>15. Ends(r, s) /\ \A i \in 1..n - Len(r) : ~Recent(s[i])
  BY <1>1, <1>3, <1>14 DEF Ends
<1> QED
  BY <1>14, <1>15 DEF r
-----------------------------------------------------------------------------
(* The kinds are kept.                                                       *)

Recs == [at : {"idle", "append", "trade", "figures", "state"},
         trade : Trades \cup {NoTrade}, halted : BOOLEAN, day : Days]
Setters == [at : {"idle", "figures", "state"}, lot : Lots \cup {NoLot},
            halted : BOOLEAN, day : Days]
RecOK(r) == r \in Recs /\ (r.at \in {"append", "trade"} => r.trade \in Trades)
SetterOK(h) == h \in Setters /\ (h.at # "idle" => h.lot \in Lots)

LEMMA KindsSplit ==
    Kinds <=> /\ clock \in 0..MaxClock /\ halted \in BOOLEAN
              /\ RecOK(rec) /\ SetterOK(setter)
              /\ state \in {Torn, NoFile} \cup States
              /\ trades \in Seq(Trades) \cup {Torn} /\ saved \in Seq(Trades)
BY DEF Kinds, Recs, Setters, RecOK, SetterOK

LEMMA IdleOK == RecOK(Idle) /\ SetterOK(NotSetting)
<1>1. 0 \in 0..MaxClock /\ 0 \div DayLength = 0
  BY BoundsOK
<1>2. 0 \in Days
  BY <1>1, DayOK DEF Day
<1>3. Idle \in Recs /\ Idle.at = "idle"
  BY <1>2 DEF Idle, Recs
<1>4. NotSetting \in Setters /\ NotSetting.at = "idle"
  BY <1>2 DEF NotSetting, Setters
<1> QED
  BY <1>3, <1>4 DEF RecOK, SetterOK

LEMMA InitKinds == Init => Kinds
<1> SUFFICES ASSUME Init
             PROVE  Kinds
  OBVIOUS
<1>1. /\ clock \in 0..MaxClock /\ halted \in BOOLEAN
      /\ state \in {Torn, NoFile} \cup States
      /\ trades \in Seq(Trades) \cup {Torn} /\ saved \in Seq(Trades)
  <2>1. 0 \in 0..MaxClock
    BY BoundsOK
  <2>2. <<>> \in Seq(Trades)
    OBVIOUS
  <2> QED
    BY <2>1, <2>2 DEF Init
<1>2. RecOK(rec) /\ SetterOK(setter)
  BY IdleOK DEF Init
<1> QED
  BY <1>1, <1>2, KindsSplit

LEMMA NewRec ==
    ASSUME NEW t \in Tickets, clock \in 0..MaxClock
    PROVE  RecOK([Idle EXCEPT !.at = "append", !.trade = [ticket |-> t, time |-> clock]])
<1>1. [ticket |-> t, time |-> clock] \in Trades
  BY DEF Trades
<1> DEFINE r == [Idle EXCEPT !.at = "append", !.trade = [ticket |-> t, time |-> clock]]
<1>2. Idle \in Recs
  BY IdleOK DEF RecOK
<1>3. r \in Recs
  BY <1>1, <1>2 DEF Recs
<1>4. r.trade = [ticket |-> t, time |-> clock]
  BY <1>2 DEF Recs
<1> QED
  BY <1>1, <1>3, <1>4 DEF RecOK

LEMMA RecMoves ==
    ASSUME RecOK(rec), clock \in 0..MaxClock, halted \in BOOLEAN
    PROVE  /\ rec.at = "append" => RecOK([rec EXCEPT !.at = "trade"])
           /\ RecOK([rec EXCEPT !.at = "figures"])
           /\ RecOK([rec EXCEPT !.at = "state", !.halted = halted, !.day = Day(clock)])
<1>1. Day(clock) \in Days
  BY DayOK
<1>2. rec \in Recs /\ (rec.at = "append" => rec.trade \in Trades)
  BY DEF RecOK
<1>3. rec.at = "append" => RecOK([rec EXCEPT !.at = "trade"])
  BY <1>2 DEF RecOK, Recs
<1>4. RecOK([rec EXCEPT !.at = "figures"])
  BY <1>2 DEF RecOK, Recs
<1>5. RecOK([rec EXCEPT !.at = "state", !.halted = halted, !.day = Day(clock)])
  BY <1>1, <1>2 DEF RecOK, Recs
<1> QED
  BY <1>3, <1>4, <1>5

LEMMA SetterMoves ==
    ASSUME clock \in 0..MaxClock, halted \in BOOLEAN
    PROVE  /\ \A l \in Lots : SetterOK([NotSetting EXCEPT !.at = "figures", !.lot = l])
           /\ SetterOK(setter) /\ setter.at = "figures" =>
                SetterOK([setter EXCEPT !.at = "state", !.halted = halted, !.day = Day(clock)])
<1>1. Day(clock) \in Days /\ NotSetting \in Setters
  BY DayOK, IdleOK DEF SetterOK
<1>2. ASSUME NEW l \in Lots
      PROVE  SetterOK([NotSetting EXCEPT !.at = "figures", !.lot = l])
  BY <1>1 DEF SetterOK, Setters
<1>3. ASSUME SetterOK(setter), setter.at = "figures"
      PROVE  SetterOK([setter EXCEPT !.at = "state", !.halted = halted, !.day = Day(clock)])
  <2>1. setter \in Setters /\ setter.lot \in Lots
    BY <1>3 DEF SetterOK
  <2> QED
    BY <1>1, <2>1 DEF SetterOK, Setters
<1> QED
  BY <1>2, <1>3

\* What a save of the day's figures writes: the lots it names or those of the file.
LEMMA SavedState ==
    ASSUME Kinds, NEW given \in Lots \cup {NoLot}, NEW r, r.day \in Days, r.halted \in BOOLEAN
    PROVE  /\ [date |-> r.day, halted |-> r.halted, lot |-> WithLot(given)] \in States
           /\ WithLot(given) = IF given = NoLot THEN LotOf ELSE given
<1>1. state \in {Torn, NoFile} \cup States
  BY DEF Kinds
<1>2. state \in States <=> state \notin {Torn, NoFile}
  BY <1>1, BoundsOK
<1>3. WithLot(given) = IF given = NoLot THEN LotOf ELSE given
  BY <1>2 DEF WithLot, LotOf
<1>4. LotOf \in Lots \cup {NoLot}
  BY DEF LotOf, States
<1> QED
  BY <1>3, <1>4 DEF States

\* What SaveTrade writes, and the history of what it stored.
LEMMA SaveTradeKinds ==
    ASSUME Kinds, Sorted(Stored), SaveTrade
    PROVE  trades' \in Seq(Trades) \cup {Torn} /\ saved' \in Seq(Trades)
<1>1. rec.trade \in Trades /\ Stored \in Seq(Trades) /\ clock \in 0..MaxClock
  BY DEF SaveTrade, Kinds, Stored
<1>2. RecentOf(Stored) \in Seq(Trades)
  BY <1>1, RecentOfOK
<1>3. /\ Append(RecentOf(Stored), rec.trade) \in Seq(Trades)
      /\ saved \in Seq(Trades) /\ Append(saved, rec.trade) \in Seq(Trades)
      /\ <<rec.trade>> \in Seq(Trades)
  BY <1>1, <1>2 DEF Kinds
<1>4. /\ Last_n(Append(RecentOf(Stored), rec.trade), Cap) \in Seq(Trades)
      /\ Last_n(Append(saved, rec.trade), Cap) \in Seq(Trades)
  BY <1>3, BoundsOK, LastOK
<1> QED
  BY <1>3, <1>4 DEF SaveTrade, Kinds

LEMMA KindsKept ==
    ASSUME Kinds, Sorted(Stored), [Next]_vars
    PROVE  Kinds'
<1> USE DEF memory, files, world, process
<1>0. /\ clock \in 0..MaxClock /\ halted \in BOOLEAN
      /\ RecOK(rec) /\ SetterOK(setter)
      /\ state \in {Torn, NoFile} \cup States
      /\ trades \in Seq(Trades) \cup {Torn} /\ saved \in Seq(Trades)
  BY KindsSplit
<1> SUFFICES /\ clock' \in 0..MaxClock /\ halted' \in BOOLEAN
             /\ RecOK(rec') /\ SetterOK(setter')
             /\ state' \in {Torn, NoFile} \cup States
             /\ trades' \in Seq(Trades) \cup {Torn} /\ saved' \in Seq(Trades)
  BY DEF Kinds, Recs, Setters, RecOK, SetterOK
<1>1. ASSUME NEW t \in Tickets, TrackerCloses(t)
      PROVE  /\ clock' = clock /\ halted' \in BOOLEAN /\ RecOK(rec')
             /\ UNCHANGED <<setter, state, trades, saved>>
  BY <1>0, <1>1, NewRec DEF TrackerCloses
<1>2. ASSUME NEW t \in Tickets, FindsGone(t)
      PROVE  RecOK(rec') /\ UNCHANGED <<clock, halted, setter, state, trades, saved>>
  BY <1>0, <1>2, NewRec DEF FindsGone
<1>3. ASSUME SkipDuplicate
      PROVE  RecOK(rec') /\ UNCHANGED <<clock, halted, setter, state, trades, saved>>
  BY <1>3, IdleOK DEF SkipDuplicate
<1>4. ASSUME AppendTrade
      PROVE  RecOK(rec') /\ UNCHANGED <<clock, halted, setter, state, trades, saved>>
  BY <1>0, <1>4, RecMoves DEF AppendTrade
<1>5. ASSUME ReadFigures
      PROVE  RecOK(rec') /\ UNCHANGED <<clock, halted, setter, state, trades, saved>>
  BY <1>0, <1>5, RecMoves DEF ReadFigures
<1>6. ASSUME SaveTrade
      PROVE  /\ RecOK(rec') /\ UNCHANGED <<clock, halted, setter, state>>
             /\ trades' \in Seq(Trades) \cup {Torn} /\ saved' \in Seq(Trades)
  BY <1>0, <1>6, RecMoves, SaveTradeKinds DEF SaveTrade
<1>7. ASSUME SaveFigures
      PROVE  /\ RecOK(rec') /\ state' \in States
             /\ UNCHANGED <<clock, halted, setter, trades, saved>>
  <2>1. rec.day \in Days /\ rec.halted \in BOOLEAN
    BY <1>0 DEF RecOK, Recs
  <2> QED
    BY <1>7, <2>1, IdleOK, SavedState DEF SaveFigures
<1>8. ASSUME NEW l \in Lots, SetLot(l)
      PROVE  SetterOK(setter') /\ UNCHANGED <<clock, halted, rec, state, trades, saved>>
  BY <1>0, <1>8, SetterMoves DEF SetLot
<1>9. ASSUME ReadForLot
      PROVE  SetterOK(setter') /\ UNCHANGED <<clock, halted, rec, state, trades, saved>>
  BY <1>0, <1>9, SetterMoves DEF ReadForLot
<1>10. ASSUME SaveLot
       PROVE  /\ SetterOK(setter') /\ state' \in States
              /\ UNCHANGED <<clock, halted, rec, trades, saved>>
  <2>1. setter.day \in Days /\ setter.halted \in BOOLEAN /\ setter.lot \in Lots \cup {NoLot}
    BY <1>0 DEF SetterOK, Setters
  <2> QED
    BY <1>10, <2>1, IdleOK, SavedState DEF SaveLot
<1>11. ASSUME Crash
       PROVE  /\ halted' \in BOOLEAN /\ RecOK(rec') /\ SetterOK(setter') /\ clock' = clock
              /\ state' \in {state, Torn} /\ trades' \in {trades, Torn}
              /\ saved' \in {<<>>, saved}
  BY <1>11, IdleOK DEF Crash
<1>12. ASSUME Restart
       PROVE  halted' \in BOOLEAN /\ UNCHANGED <<clock, rec, setter, state, trades, saved>>
  BY <1>0, <1>12 DEF Restart, LoadDailyState, States
<1>13. ASSUME Pass
       PROVE  /\ clock' \in 0..MaxClock
              /\ UNCHANGED <<halted, rec, setter, state, trades, saved>>
  BY <1>0, <1>13, BoundsOK DEF Pass
<1>14. ASSUME MergeHistory \/ (\E t \in Tickets : TerminalCloses(t)) \/ UNCHANGED vars
       PROVE  UNCHANGED <<clock, halted, rec, setter, state, trades, saved>>
  BY <1>14 DEF MergeHistory, TerminalCloses, vars
<1>15. ASSUME DailyReset
       PROVE  halted' \in BOOLEAN /\ UNCHANGED <<clock, rec, setter, state, trades, saved>>
  BY <1>15 DEF DailyReset
<1>16. CASE \E t \in Tickets : TrackerCloses(t) \/ FindsGone(t)
  BY <1>0, <1>1, <1>2, <1>16
<1>17. CASE Record
  BY <1>0, <1>3, <1>4, <1>5, <1>6, <1>7, <1>17 DEF Record
<1>18. CASE (\E l \in Lots : SetLot(l)) \/ ReadForLot \/ SaveLot
  BY <1>0, <1>8, <1>9, <1>10, <1>18
<1>19. CASE Crash
  <2>1. state' \in {Torn, NoFile} \cup States /\ trades' \in Seq(Trades) \cup {Torn}
    BY <1>0, <1>11, <1>19
  <2>2. saved' \in Seq(Trades)
    <3>1. <<>> \in Seq(Trades)
      OBVIOUS
    <3> QED
      BY <1>0, <1>11, <1>19, <3>1
  <2> QED
    BY <1>0, <1>11, <1>19, <2>1, <2>2
<1>20. CASE Restart \/ Pass \/ DailyReset
  BY <1>0, <1>12, <1>13, <1>15, <1>20
<1>21. CASE MergeHistory \/ (\E t \in Tickets : TerminalCloses(t)) \/ UNCHANGED vars
  BY <1>0, <1>14, <1>21
<1> QED
  BY <1>16, <1>17, <1>18, <1>19, <1>20, <1>21 DEF Next
-----------------------------------------------------------------------------
(* The lots.                                                                 *)

LEMMA LotsKept ==
    ASSUME Kinds, LotInv, [Next]_vars
    PROVE  LotInv'
<1> USE DEF memory, files, world, process
<1>0. RecOK(rec) /\ SetterOK(setter) /\ LotOf = savedLot
  BY KindsSplit DEF LotInv
<1>1. CASE UNCHANGED <<state, savedLot>>
  BY <1>0, <1>1 DEF LotInv, LotOf
<1>2. CASE SaveFigures
  <2>1. rec.day \in Days /\ rec.halted \in BOOLEAN
    BY <1>0 DEF RecOK, Recs
  <2>2. state' \in States /\ state'.lot = LotOf
    BY <1>2, <2>1, SavedState DEF SaveFigures
  <2>3. savedLot' = savedLot
    BY <1>2 DEF SaveFigures
  <2> QED
    BY <1>0, <2>2, <2>3 DEF LotInv, LotOf
<1>3. CASE SaveLot
  <2>1. setter.day \in Days /\ setter.halted \in BOOLEAN /\ setter.lot \in Lots
    BY <1>0, <1>3 DEF SetterOK, Setters, SaveLot
  <2>2. setter.lot # NoLot
    BY <2>1, BoundsOK
  <2>3. state' \in States /\ state'.lot = setter.lot /\ savedLot' = setter.lot
    BY <1>3, <2>1, <2>2, SavedState DEF SaveLot
  <2> QED
    BY <2>3 DEF LotInv, LotOf
<1>4. CASE Crash
  <2>1. /\ state' \in {state, Torn}
        /\ savedLot' = IF state' = Torn THEN NoLot ELSE savedLot
    BY <1>4 DEF Crash
  <2>2. Torn \notin States
    BY BoundsOK
  <2> QED
    BY <1>0, <2>1, <2>2 DEF LotInv, LotOf
<1>5. CASE Record
  <2>1. CASE SkipDuplicate \/ AppendTrade \/ SaveTrade \/ ReadFigures
    <3>1. UNCHANGED <<state, savedLot>>
      BY <2>1 DEF SkipDuplicate, AppendTrade, SaveTrade, ReadFigures
    <3> QED
      BY <1>1, <3>1
  <2> QED
    BY <1>2, <1>5, <2>1 DEF Record
<1>6. CASE MergeHistory \/ \E t \in Tickets : TrackerCloses(t) \/ FindsGone(t) \/ TerminalCloses(t)
  <2>1. UNCHANGED <<state, savedLot>>
    BY <1>6 DEF MergeHistory, TrackerCloses, FindsGone, TerminalCloses
  <2> QED
    BY <1>1, <2>1
<1>7. CASE (\E l \in Lots : SetLot(l)) \/ ReadForLot \/ DailyReset \/ Restart \/ Pass
  <2>1. UNCHANGED <<state, savedLot>>
    BY <1>7 DEF SetLot, ReadForLot, DailyReset, Restart, Pass
  <2> QED
    BY <1>1, <2>1
<1>8. CASE UNCHANGED vars
  BY <1>1, <1>8 DEF vars
<1> QED
  BY <1>3, <1>4, <1>5, <1>6, <1>7, <1>8 DEF Next
-----------------------------------------------------------------------------
(* The trades: the file holds an end of what was saved, the rest is old.     *)

Distinct(t) == \A i, j \in DOMAIN t : t[i].ticket = t[j].ticket => i = j

\* t is an end of s, without two trades of one ticket, and what is before it is old.
Holds(t, s) ==
    /\ Ends(t, s) /\ Distinct(t)
    /\ \A i \in 1..Len(s) - Len(t) : ~Recent(s[i])

LEMMA EndsIndex ==
    ASSUME NEW s \in Seq(Trades), NEW t \in Seq(Trades), Ends(t, s), NEW i \in 1..Len(t)
    PROVE  Len(s) - Len(t) + i \in 1..Len(s) /\ t[i] = s[Len(s) - Len(t) + i]
<1>1. Len(t) \in Nat /\ Len(s) \in Nat /\ Len(t) <= Len(s)
  BY DEF Ends
<1>2. t[i] = s[Len(s) - Len(t) + i]
  BY DEF Ends
<1>3. Len(s) - Len(t) + i \in 1..Len(s)
  BY <1>1
<1> QED
  BY <1>2, <1>3

LEMMA SortedEnds ==
    ASSUME NEW s \in Seq(Trades), NEW t \in Seq(Trades), Ends(t, s), Sorted(s)
    PROVE  Sorted(t)
<1> SUFFICES ASSUME NEW i \in 1..Len(t), NEW j \in 1..Len(t), i < j
             PROVE  t[i].time <= t[j].time
  BY DEF Sorted
<1> DEFINE a == Len(s) - Len(t) + i
           b == Len(s) - Len(t) + j
<1>1. a \in 1..Len(s) /\ b \in 1..Len(s) /\ t[i] = s[a] /\ t[j] = s[b]
  BY EndsIndex
<1>2. a < b
  <2>1. Len(t) \in Nat /\ Len(s) \in Nat
    OBVIOUS
  <2> QED
    BY <2>1
<1> HIDE DEF a, b
<1>3. s[a].time <= s[b].time
  BY <1>1, <1>2 DEF Sorted
<1> QED
  BY <1>1, <1>3

LEMMA DistinctEnds ==
    ASSUME NEW s \in Seq(Trades), NEW t \in Seq(Trades), Ends(t, s), Distinct(s)
    PROVE  Distinct(t)
<1> SUFFICES ASSUME NEW i \in 1..Len(t), NEW j \in 1..Len(t), t[i].ticket = t[j].ticket
             PROVE  i = j
  BY DEF Distinct
<1> DEFINE a == Len(s) - Len(t) + i
           b == Len(s) - Len(t) + j
<1>1. a \in 1..Len(s) /\ b \in 1..Len(s) /\ t[i] = s[a] /\ t[j] = s[b]
  BY EndsIndex
<1>2. Len(t) \in Nat /\ Len(s) \in Nat
  OBVIOUS
<1>3. a = b
  <2> HIDE DEF a, b
  <2> QED
    BY <1>1 DEF Distinct
<1> QED
  BY <1>2, <1>3

LEMMA HoldsTrans ==
    ASSUME NEW s \in Seq(Trades), NEW t \in Seq(Trades), NEW r \in Seq(Trades),
           Holds(t, s), Ends(r, t), \A i \in 1..Len(t) - Len(r) : ~Recent(t[i])
    PROVE  Holds(r, s)
<1>1. Ends(t, s) /\ Ends(r, s) /\ Distinct(r)
  BY EndsTrans, DistinctEnds DEF Holds
<1>2. /\ Len(s) \in Nat /\ Len(t) \in Nat /\ Len(r) \in Nat
      /\ Len(t) <= Len(s) /\ Len(r) <= Len(t)
  BY <1>1 DEF Ends
<1>3. ASSUME NEW i \in 1..Len(s) - Len(r)
      PROVE  ~Recent(s[i])
  <2>1. CASE i <= Len(s) - Len(t)
    <3>1. i \in 1..Len(s) - Len(t)
      BY <1>2, <2>1
    <3> QED
      BY <3>1 DEF Holds
  <2>2. CASE i > Len(s) - Len(t)
    <3> DEFINE j == i - (Len(s) - Len(t))
    <3>1. /\ j \in 1..Len(t) /\ j \in 1..Len(t) - Len(r)
          /\ Len(s) - Len(t) + j = i
      BY <1>2, <2>2
    <3> HIDE DEF j
    <3>2. t[j] = s[i]
      BY <1>1, <3>1, EndsIndex
    <3> QED
      BY <3>1, <3>2
  <2> QED
    BY <1>2, <2>1, <2>2
<1> QED
  BY <1>1, <1>3 DEF Holds

LEMMA HoldsAppend ==
    ASSUME NEW s \in Seq(Trades), NEW r \in Seq(Trades), NEW x \in Trades,
           Holds(r, s), ~Has(r, x.ticket)
    PROVE  Holds(Append(r, x), Append(s, x))
<1> DEFINE a == Append(r, x)
           b == Append(s, x)
<1>1. /\ Len(r) \in Nat /\ Len(s) \in Nat /\ Len(r) <= Len(s)
      /\ DOMAIN r = 1..Len(r) /\ DOMAIN a = 1..Len(r) + 1
      /\ Len(a) = Len(r) + 1 /\ Len(b) = Len(s) + 1
      /\ \A i \in 1..Len(r) : a[i] = r[i]
      /\ \A i \in 1..Len(s) : b[i] = s[i]
      /\ a[Len(r) + 1] = x
  BY DEF Holds, Ends
<1>2. Ends(a, b)
  BY EndsAppend DEF Holds
<1> HIDE DEF a, b
<1>3. Distinct(a)
  <2> SUFFICES ASSUME NEW i \in 1..Len(r) + 1, NEW j \in 1..Len(r) + 1,
                      a[i].ticket = a[j].ticket, i # j
               PROVE  FALSE
    BY <1>1 DEF Distinct
  <2>1. ASSUME NEW k \in 1..Len(r)
        PROVE  a[k].ticket # x.ticket
    BY <1>1 DEF Has
  <2>2. CASE i = Len(r) + 1
    <3>1. j \in 1..Len(r)
      BY <1>1, <2>2
    <3> QED
      BY <1>1, <2>1, <2>2, <3>1
  <2>3. CASE j = Len(r) + 1
    <3>1. i \in 1..Len(r)
      BY <1>1, <2>3
    <3> QED
      BY <1>1, <2>1, <2>3, <3>1
  <2>4. CASE i # Len(r) + 1 /\ j # Len(r) + 1
    <3>1. i \in 1..Len(r) /\ j \in 1..Len(r)
      BY <1>1, <2>4
    <3>2. r[i].ticket = r[j].ticket
      BY <1>1, <3>1
    <3> QED
      BY <1>1, <3>1, <3>2 DEF Holds, Distinct
  <2> QED
    BY <2>2, <2>3, <2>4
<1>4. ASSUME NEW i \in 1..Len(b) - Len(a)
      PROVE  ~Recent(b[i])
  <2>1. i \in 1..Len(s) - Len(r) /\ i \in 1..Len(s)
    BY <1>1
  <2>2. b[i] = s[i]
    BY <1>1, <2>1
  <2> QED
    BY <2>1, <2>2 DEF Holds
<1> QED
  BY <1>2, <1>3, <1>4 DEF Holds, a, b

LEMMA HoldsLast ==
    ASSUME NEW a \in Seq(Trades), NEW b \in Seq(Trades), NEW n \in Nat \ {0}, Holds(a, b)
    PROVE  Holds(Last_n(a, n), Last_n(b, n))
<1> DEFINE u == Last_n(a, n)
           v == Last_n(b, n)
<1>1. /\ u \in Seq(Trades) /\ Len(u) = (IF Len(a) > n THEN n ELSE Len(a)) /\ Ends(u, a)
      /\ v \in Seq(Trades) /\ Len(v) = (IF Len(b) > n THEN n ELSE Len(b)) /\ Ends(v, b)
  BY LastOK
<1>2. Ends(u, v) /\ Distinct(u)
  BY <1>1, EndsLast, DistinctEnds DEF Holds
<1>3. Len(a) \in Nat /\ Len(b) \in Nat /\ Len(a) <= Len(b)
  BY DEF Holds, Ends
<1> HIDE DEF u, v
<1>4. ASSUME NEW i \in 1..Len(v) - Len(u)
      PROVE  ~Recent(v[i])
  <2> DEFINE j == Len(b) - Len(v) + i
  <2>1. Len(u) \in Nat /\ Len(v) \in Nat /\ Len(v) <= Len(b)
    BY <1>1, <1>3
  <2>2. i \in 1..Len(v)
    BY <2>1
  <2>3. j \in 1..Len(b) - Len(a)
    <3>1. ~(Len(a) > n)
      BY <1>1, <1>3, <2>1
    <3>2. Len(u) = Len(a)
      BY <1>1, <3>1
    <3> QED
      BY <1>3, <2>1, <3>2
  <2>4. v[i] = b[j]
    BY <1>1, <2>2, EndsIndex
  <2> HIDE DEF j
  <2> QED
    BY <2>3, <2>4 DEF Holds
<1>5. Holds(u, v)
  BY <1>2, <1>4 DEF Holds
<1> QED
  BY <1>5 DEF u, v

\* s is in the order of its times, all up to time.
Until(s, time) == Sorted(s) /\ \A i \in DOMAIN s : s[i].time <= time

LEMMA UntilAppend ==
    ASSUME NEW s \in Seq(Trades), NEW x \in Trades, Until(s, x.time)
    PROVE  Until(Append(s, x), x.time)
<1> DEFINE b == Append(s, x)
<1>1. /\ Len(s) \in Nat /\ DOMAIN s = 1..Len(s) /\ DOMAIN b = 1..Len(s) + 1
      /\ \A i \in 1..Len(s) : b[i] = s[i]
      /\ b[Len(s) + 1] = x
  OBVIOUS
<1> HIDE DEF b
<1>2. ASSUME NEW i \in 1..Len(s) + 1
      PROVE  b[i].time <= x.time
  <2>1. CASE i = Len(s) + 1
    <3>1. x.time \in Int
      BY BoundsOK DEF Trades
    <3> QED
      BY <1>1, <2>1, <3>1
  <2>2. CASE i # Len(s) + 1
    <3>1. i \in 1..Len(s)
      BY <1>1, <2>2
    <3> QED
      BY <1>1, <3>1 DEF Until
  <2> QED
    BY <2>1, <2>2
<1>3. ASSUME NEW i \in 1..Len(s) + 1, NEW j \in 1..Len(s) + 1, i < j
      PROVE  b[i].time <= b[j].time
  <2>1. CASE j = Len(s) + 1
    BY <1>1, <1>2, <2>1
  <2>2. CASE j # Len(s) + 1
    <3>1. i \in 1..Len(s) /\ j \in 1..Len(s)
      BY <1>1, <1>3, <2>2
    <3> QED
      BY <1>1, <1>3, <3>1 DEF Until, Sorted
  <2> QED
    BY <2>1, <2>2
<1> QED
  BY <1>1, <1>2, <1>3 DEF Until, Sorted, b

LEMMA UntilEnds ==
    ASSUME NEW s \in Seq(Trades), NEW t \in Seq(Trades), NEW time, Ends(t, s), Until(s, time)
    PROVE  Until(t, time)
<1>1. Sorted(t)
  BY SortedEnds DEF Until
<1>2. ASSUME NEW i \in 1..Len(t)
      PROVE  t[i].time <= time
  <2> DEFINE a == Len(s) - Len(t) + i
  <2>1. a \in 1..Len(s) /\ t[i] = s[a]
    BY EndsIndex
  <2> HIDE DEF a
  <2> QED
    BY <2>1 DEF Until
<1> QED
  BY <1>1, <1>2 DEF Until

\* One save: the file still holds what it must.
LEMMA StoreOK ==
    ASSUME NEW s \in Seq(Trades), NEW t \in Seq(Trades), NEW x \in Trades,
           clock \in 0..MaxClock, Until(s, x.time), Holds(t, s), ~Has(t, x.ticket)
    PROVE  /\ Holds(Last_n(Append(RecentOf(t), x), Cap), Last_n(Append(s, x), Cap))
           /\ Until(Last_n(Append(s, x), Cap), x.time)
<1> DEFINE r == RecentOf(t)
<1>1. Sorted(t)
  BY SortedEnds DEF Holds, Until
<1>2. /\ r \in Seq(Trades) /\ Ends(r, t)
      /\ \A i \in 1..Len(t) - Len(r) : ~Recent(t[i])
  BY <1>1, RecentOfOK
<1> HIDE DEF r
<1>3. Holds(r, s)
  BY <1>2, HoldsTrans
<1>4. ~Has(r, x.ticket)
  <2> SUFFICES ASSUME NEW i \in 1..Len(r), r[i].ticket = x.ticket
               PROVE  FALSE
    BY <1>2 DEF Has
  <2> DEFINE a == Len(t) - Len(r) + i
  <2>1. a \in 1..Len(t) /\ r[i] = t[a]
    BY <1>2, EndsIndex
  <2> HIDE DEF a
  <2> QED
    BY <2>1 DEF Has
<1>5. /\ Append(r, x) \in Seq(Trades) /\ Append(s, x) \in Seq(Trades)
      /\ Cap \in Nat \ {0}
  BY <1>2, BoundsOK
<1>6. Holds(Append(r, x), Append(s, x))
  BY <1>2, <1>3, <1>4, HoldsAppend
<1>7. Holds(Last_n(Append(r, x), Cap), Last_n(Append(s, x), Cap))
  BY <1>5, <1>6, HoldsLast
<1>8. Until(Append(s, x), x.time)
  BY UntilAppend
<1>9. Last_n(Append(s, x), Cap) \in Seq(Trades) /\ Ends(Last_n(Append(s, x), Cap), Append(s, x))
  BY <1>5, LastOK
<1>10. Until(Last_n(Append(s, x), Cap), x.time)
  BY <1>5, <1>8, <1>9, UntilEnds
<1> QED
  BY <1>7, <1>10 DEF r

LEMMA LastOfOne ==
    ASSUME NEW x \in Trades
    PROVE  Last_n(Append(<<>>, x), Cap) = <<x>>
<1> DEFINE s == Append(<<>>, x)
           t == Last_n(s, Cap)
<1>1. s = <<x>> /\ s \in Seq(Trades) /\ Len(s) = 1 /\ Cap \in Nat \ {0}
  BY BoundsOK
<1>2. t \in Seq(Trades) /\ Len(t) = (IF Len(s) > Cap THEN Cap ELSE Len(s)) /\ Ends(t, s)
  BY <1>1, LastOK
<1> HIDE DEF s, t
<1>3. Len(t) = 1
  BY <1>1, <1>2
<1>4. t[1] = s[1]
  BY <1>1, <1>2, <1>3 DEF Ends
<1>5. t = s
  BY <1>1, <1>2, <1>3, <1>4, SeqEqual
<1> QED
  BY <1>1, <1>5 DEF t, s

LEMMA HoldsNone == Holds(<<>>, <<>>) /\ \A time : Until(<<>>, time)
BY DEF Holds, Ends, Distinct, Until, Sorted
-----------------------------------------------------------------------------
(* What was saved is in the order of its times, up to now and up to the      *)
(* trade being recorded; the file holds all of it that is not old.           *)

TradesInv ==
    /\ Until(saved, clock)
    /\ rec.at \in {"append", "trade"} =>
          rec.trade.time <= clock /\ Until(saved, rec.trade.time)
    /\ trades = Torn => saved = <<>>
    /\ Holds(Stored, saved)

\* Trades as long ago as the retention stay so as the clock goes on.
LEMMA HoldsLater ==
    ASSUME NEW s \in Seq(Trades), NEW t \in Seq(Trades), Holds(t, s),
           clock \in 0..MaxClock, NEW later \in 0..MaxClock, clock <= later
    PROVE  \A i \in 1..Len(s) - Len(t) : ~(s[i].time > later - Retention)
<1>1. ASSUME NEW i \in 1..Len(s) - Len(t)
      PROVE  ~(s[i].time > later - Retention)
  <2>1. ~(s[i].time > clock - Retention)
    BY DEF Holds, Recent
  <2>2. Len(s) \in Nat /\ Len(t) \in Nat
    OBVIOUS
  <2>3. s[i] \in Trades
    BY <2>2
  <2>4. s[i].time \in Int /\ clock \in Int /\ later \in Int /\ Retention \in Int
    BY <2>3, BoundsOK DEF Trades
  <2> QED
    BY <2>1, <2>4
<1> QED
  BY <1>1

LEMMA UntilLater ==
    ASSUME NEW s \in Seq(Trades), NEW now \in 0..MaxClock, NEW later \in 0..MaxClock,
           now <= later, Until(s, now)
    PROVE  Until(s, later)
<1>1. ASSUME NEW i \in DOMAIN s
      PROVE  s[i].time <= later
  <2>1. s[i] \in Trades /\ s[i].time <= now
    BY DEF Until
  <2>2. s[i].time \in Int /\ now \in Int /\ later \in Int
    BY <2>1, BoundsOK DEF Trades
  <2> QED
    BY <2>1, <2>2
<1> QED
  BY <1>1 DEF Until

LEMMA StoredOK ==
    ASSUME Kinds, TradesInv
    PROVE  Stored \in Seq(Trades) /\ Sorted(Stored)
<1>1. Stored \in Seq(Trades) /\ saved \in Seq(Trades)
  BY DEF Stored, Kinds
<1> QED
  BY <1>1, SortedEnds DEF TradesInv, Until, Holds

LEMMA TradesKept ==
    ASSUME Kinds, Kinds', TradesInv, [Next]_vars
    PROVE  TradesInv'
<1> USE DEF memory, files, world, process
<1>0. /\ clock \in 0..MaxClock /\ clock' \in 0..MaxClock
      /\ saved \in Seq(Trades) /\ Stored \in Seq(Trades)
  BY StoredOK DEF Kinds
<1>1. ASSUME UNCHANGED <<clock, trades, saved>>,
             rec'.at \in {"append", "trade"} =>
                rec'.trade.time <= clock /\ Until(saved, rec'.trade.time)
      PROVE  TradesInv'
  <2>1. Stored' = Stored
    BY <1>1 DEF Stored
  <2>2. Holds(Stored, saved)'
    BY <1>1, <2>1 DEF TradesInv, Holds, Ends, Distinct, Recent
  <2> QED
    BY <1>1, <2>2 DEF TradesInv, Until, Sorted
<1>2. ASSUME UNCHANGED <<clock, trades, saved>>, rec' = Idle \/ rec' = rec
      PROVE  TradesInv'
  <2>1. Idle.at = "idle"
    BY DEF Idle
  <2> QED
    BY <1>1, <1>2, <2>1 DEF TradesInv
<1>3. CASE \E t \in Tickets : TrackerCloses(t) \/ FindsGone(t)
  <2>1. PICK t \in Tickets : TrackerCloses(t) \/ FindsGone(t)
    BY <1>3
  <2>2. /\ UNCHANGED <<clock, trades, saved>>
        /\ rec' = [Idle EXCEPT !.at = "append", !.trade = [ticket |-> t, time |-> clock]]
    BY <2>1 DEF TrackerCloses, FindsGone
  <2>3. rec'.trade = [ticket |-> t, time |-> clock]
    BY <2>2 DEF Idle
  <2>4. rec'.trade.time = clock
    BY <2>3
  <2>5. clock <= clock
    BY <1>0
  <2> QED
    BY <1>1, <2>2, <2>4, <2>5 DEF TradesInv
<1>4. CASE SkipDuplicate \/ SaveFigures
  BY <1>2, <1>4 DEF SkipDuplicate, SaveFigures
<1>5. CASE AppendTrade
  <2>1. /\ UNCHANGED <<clock, trades, saved>> /\ rec.at = "append"
        /\ rec' = [rec EXCEPT !.at = "trade"]
    BY <1>5 DEF AppendTrade
  <2>2. rec'.trade = rec.trade
    BY <2>1 DEF Kinds
  <2> QED
    BY <1>1, <2>1, <2>2 DEF TradesInv
<1>6. CASE ReadFigures
  <2>1. /\ UNCHANGED <<clock, trades, saved>>
        /\ rec' = [rec EXCEPT !.at = "state", !.halted = halted, !.day = Day(clock)]
    BY <1>6 DEF ReadFigures
  <2>2. rec'.at = "state"
    BY <2>1 DEF Kinds
  <2> QED
    BY <1>1, <2>1, <2>2
<1>7. CASE SaveTrade
  <2> DEFINE x == rec.trade
  <2>1. /\ rec.at = "trade" /\ x \in Trades /\ x.time <= clock /\ Until(saved, x.time)
        /\ clock' = clock /\ rec' = [rec EXCEPT !.at = "figures"]
    BY <1>7 DEF SaveTrade, Kinds, TradesInv
  <2>2. rec'.at = "figures"
    BY <2>1 DEF Kinds
  <2>3. CASE Has(Stored, x.ticket)
    <3>1. UNCHANGED <<trades, saved>>
      BY <1>7, <2>3 DEF SaveTrade
    <3> QED
      BY <1>1, <2>1, <2>2, <3>1
  <2>4. CASE ~Has(Stored, x.ticket)
    <3>1. /\ trades' = Last_n(Append(RecentOf(Stored), x), Cap)
          /\ saved' = IF trades = Torn THEN <<x>> ELSE Last_n(Append(saved, x), Cap)
      BY <1>7, <2>4 DEF SaveTrade
    <3>2. saved' = Last_n(Append(saved, x), Cap)
      <4>1. trades = Torn => saved = <<>>
        BY DEF TradesInv
      <4> QED
        BY <2>1, <3>1, <4>1, LastOfOne
    <3>3. Holds(trades', saved') /\ Until(saved', x.time)
      <4>1. Holds(Stored, saved)
        BY DEF TradesInv
      <4> HIDE DEF x
      <4> QED
        BY <1>0, <2>1, <2>4, <3>1, <3>2, <4>1, StoreOK
    <3>4. trades' # Torn
      <4>1. /\ Append(RecentOf(Stored), x) \in Seq(Trades) /\ Cap \in Nat \ {0}
        BY <1>0, <2>1, StoredOK, RecentOfOK, BoundsOK
      <4>2. trades' \in Seq(Trades)
        BY <3>1, <4>1, LastOK
      <4> QED
        BY <4>2, BoundsOK
    <3>5. Stored' = trades'
      BY <3>4 DEF Stored
    <3>6. Holds(Stored, saved)'
      BY <2>1, <3>3, <3>5 DEF Holds, Ends, Distinct, Recent
    <3>7. Until(saved, clock)'
      <4>1. saved' \in Seq(Trades)
        BY DEF Kinds
      <4>2. ASSUME NEW i \in DOMAIN saved'
            PROVE  saved'[i].time <= clock
        <5>1. saved'[i].time <= x.time /\ x.time <= clock
          BY <2>1, <3>3 DEF Until
        <5>2. saved'[i] \in Trades
          BY <4>1
        <5>3. saved'[i].time \in Int /\ x.time \in Int /\ clock \in Int
          BY <1>0, <2>1, <5>2, BoundsOK DEF Trades
        <5> HIDE DEF x
        <5> QED
          BY <5>1, <5>3
      <4> QED
        BY <2>1, <3>3, <4>2 DEF Until, Sorted
    <3> QED
      BY <2>2, <3>4, <3>6, <3>7 DEF TradesInv
  <2> QED
    BY <2>3, <2>4
<1>8. CASE Record
  BY <1>4, <1>5, <1>6, <1>7, <1>8 DEF Record
<1>9. CASE \/ MergeHistory \/ \E t \in Tickets : TerminalCloses(t)
           \/ (\E l \in Lots : SetLot(l)) \/ ReadForLot \/ SaveLot \/ DailyReset \/ Restart
           \/ UNCHANGED vars
  <2>1. UNCHANGED <<clock, trades, saved, rec>>
    BY <1>9 DEF MergeHistory, TerminalCloses, SetLot, ReadForLot, SaveLot, DailyReset,
                Restart, vars
  <2> QED
    BY <1>2, <2>1
<1>10. CASE Crash
  <2>1. /\ UNCHANGED clock /\ rec' = Idle /\ trades' \in {trades, Torn}
        /\ saved' = IF trades' = Torn THEN <<>> ELSE saved
    BY <1>10 DEF Crash
  <2>2. CASE trades' = Torn
    <3>1. Stored' = <<>> /\ saved' = <<>> /\ Idle.at = "idle"
      BY <2>1, <2>2 DEF Stored, Idle
    <3>2. Holds(Stored, saved)'
      BY <3>1 DEF Holds, Ends, Distinct
    <3>3. Until(saved, clock)'
      BY <3>1 DEF Until, Sorted
    <3> QED
      BY <2>1, <3>1, <3>2, <3>3 DEF TradesInv
  <2>3. CASE trades' # Torn
    BY <1>2, <2>1, <2>3
  <2> QED
    BY <2>2, <2>3
<1>11. CASE Pass
  <2>1. clock' = clock + 1 /\ UNCHANGED <<trades, saved, rec>>
    BY <1>11 DEF Pass
  <2>2. clock \in Int /\ clock <= clock'
    BY <1>0, <2>1
  <2>3. Stored' = Stored
    BY <2>1 DEF Stored
  <2>4. Holds(Stored, saved)'
    <3>1. Holds(Stored, saved)
      BY DEF TradesInv
    <3>2. \A i \in 1..Len(saved) - Len(Stored) : ~(saved[i].time > clock' - Retention)
      BY <1>0, <2>2, <3>1, HoldsLater
    <3> QED
      BY <2>1, <2>3, <3>1, <3>2 DEF Holds, Ends, Distinct, Recent
  <2>5. Until(saved, clock)'
    <3>1. Until(saved, clock')
      BY <1>0, <2>2, UntilLater DEF TradesInv
    <3> QED
      BY <2>1, <3>1 DEF Until, Sorted
  <2>6. ASSUME rec.at \in {"append", "trade"}
        PROVE  rec.trade.time <= clock' /\ Until(saved, rec.trade.time)
    <3>1. rec.trade \in Trades /\ rec.trade.time <= clock /\ Until(saved, rec.trade.time)
      BY <2>6 DEF Kinds, TradesInv
    <3>2. rec.trade.time \in Int /\ clock' \in Int
      BY <1>0, <3>1, BoundsOK DEF Trades
    <3> QED
      BY <2>2, <3>1, <3>2
  <2>7. (rec.at \in {"append", "trade"} =>
            rec.trade.time <= clock /\ Until(saved, rec.trade.time))'
    BY <2>1, <2>6 DEF Until, Sorted
  <2> QED
    BY <2>1, <2>4, <2>5, <2>7 DEF TradesInv
<1> QED
  BY <1>3, <1>8, <1>9, <1>10, <1>11 DEF Next

LEMMA InitTrades == Init => TradesInv
<1> SUFFICES ASSUME Init
             PROVE  TradesInv
  OBVIOUS
<1>1. saved = <<>> /\ Stored = <<>> /\ rec.at = "idle"
  BY DEF Init, Stored, Idle
<1> QED
  BY <1>1, HoldsNone DEF TradesInv

LEMMA InitLots == Init => LotInv
BY BoundsOK DEF Init, LotInv, LotOf

LEMMA JournalInvariant == Spec => [](Kinds /\ TradesInv /\ LotInv)
<1>1. Init => Kinds /\ TradesInv /\ LotInv
  BY InitKinds, InitTrades, InitLots
<1>2. Kinds /\ TradesInv /\ LotInv /\ [Next]_vars => (Kinds /\ TradesInv /\ LotInv)'
  <2> SUFFICES ASSUME Kinds, TradesInv, LotInv, [Next]_vars
               PROVE  (Kinds /\ TradesInv /\ LotInv)'
    OBVIOUS
  <2>1. Kinds'
    BY StoredOK, KindsKept
  <2>2. TradesInv'
    BY <2>1, TradesKept
  <2>3. LotInv'
    BY LotsKept
  <2> QED
    BY <2>1, <2>2, <2>3
<1> QED
  BY <1>1, <1>2, PTL DEF Spec

\* The lots a user set stay in the file: whatever else saves the state names no lots
\* and takes over those it finds.
THEOREM LotsSurvive == Spec => []LotKept
<1>1. Kinds /\ LotInv => LotKept
  BY DEF Kinds, LotInv, LotKept, LotOf
<1> QED
  BY <1>1, JournalInvariant, PTL

\* The trades file loses no recent trade but to the cap and to a write cut short, and
\* holds none twice.
THEOREM TradesSurvive == Spec => []Durable
<1>1. Kinds /\ TradesInv => Durable
  <2> SUFFICES ASSUME Kinds, TradesInv, trades # Torn
               PROVE  /\ \A i \in DOMAIN saved : Recent(saved[i]) => Has(trades, saved[i].ticket)
                      /\ Distinct(trades)
    BY DEF Durable, Distinct
  <2>1. Stored = trades /\ trades \in Seq(Trades) /\ saved \in Seq(Trades)
    BY DEF Stored, Kinds
  <2>2. Holds(trades, saved)
    BY <2>1 DEF TradesInv
  <2>3. ASSUME NEW i \in DOMAIN saved, Recent(saved[i])
        PROVE  Has(trades, saved[i].ticket)
    <3> DEFINE j == i - (Len(saved) - Len(trades))
    <3>1. /\ Len(saved) \in Nat /\ Len(trades) \in Nat /\ Len(trades) <= Len(saved)
          /\ i \in 1..Len(saved)
      BY <2>1, <2>2 DEF Holds, Ends
    <3>2. ~(i <= Len(saved) - Len(trades))
      BY <2>2, <2>3, <3>1 DEF Holds
    <3>3. j \in 1..Len(trades) /\ Len(saved) - Len(trades) + j = i
      BY <3>1, <3>2
    <3> HIDE DEF j
    <3>4. trades[j] = saved[i]
      BY <2>1, <2>2, <3>3, EndsIndex DEF Holds
    <3> QED
      BY <2>1, <3>3, <3>4 DEF Has
  <2> QED
    BY <2>2, <2>3 DEF Holds
<1> QED
  BY <1>1, JournalInvariant, PTL
-----------------------------------------------------------------------------
(* The type invariant: with the kinds, what they leave out.                  *)

Rest ==
    /\ live \in BOOLEAN /\ running \in BOOLEAN
    /\ history \in Seq(Trades) /\ resetDay \in Days /\ lot \in Lots \cup {NoLot}
    /\ trades # Torn => Len(trades) <= Cap
    /\ tracked \subseteq Tickets /\ deals \in Seq(Trades)
    /\ crashes \in 0..MaxCrashes /\ sets \in 0..MaxSets

LEMMA CountersOK == MaxCrashes \in Nat /\ MaxSets \in Nat
BY JournalAssumption DEF JournalAssumption

LEMMA RecentKept ==
    ASSUME NEW s \in Seq(Trades)
    PROVE  RecentOf(s) \in Seq(Trades)
BY EntriesOK DEF RecentOf

\* A rearrangement has the trades it is made of.
LEMMA ArrangedOK ==
    ASSUME NEW s \in Seq(Trades), NEW t \in Arrangements(s)
    PROVE  t \in Seq(Trades)
<1>1. PICK p \in Bijection(DOMAIN s, DOMAIN s) : t = [i \in DOMAIN s |-> s[p[i]]]
  BY DEF Arrangements
<1>2. DOMAIN s = 1..Len(s) /\ Len(s) \in Nat /\ \A i \in 1..Len(s) : s[i] \in Trades
  OBVIOUS
<1>3. p \in [1..Len(s) -> 1..Len(s)]
  BY <1>1, <1>2 DEF Bijection, Injection
<1>4. t \in [1..Len(s) -> Trades]
  BY <1>1, <1>2, <1>3
<1> QED
  BY <1>2, <1>4

\* A ticket that has a deal has a last one.
LEMMA LastDeal ==
    ASSUME NEW s \in Seq(Trades), NEW ticket, Has(s, ticket)
    PROVE  LastOf(s, ticket) \in Trades
<1> DEFINE n == Len(s)
           IsLast(i) == s[i].ticket = ticket /\ \A j \in DOMAIN s : s[j].ticket = ticket => j <= i
           K == {k \in 0..n : n - k \in DOMAIN s /\ s[n - k].ticket = ticket}
<1>1. n \in Nat /\ DOMAIN s = 1..n /\ \A i \in 1..n : s[i] \in Trades
  OBVIOUS
<1>2. K \in SUBSET Nat /\ K # {}
  <2>1. PICK i \in 1..n : s[i].ticket = ticket
    BY <1>1 DEF Has
  <2>2. n - i \in 0..n /\ n - (n - i) = i
    BY <1>1
  <2>3. n - i \in K
    BY <1>1, <2>1, <2>2
  <2>4. K \in SUBSET Nat
    BY <1>1
  <2> QED
    BY <2>3, <2>4
<1>3. PICK k \in K : \A m \in K : k <= m
  BY <1>2, SmallestNat
<1>4. k \in 0..n /\ n - k \in 1..n /\ s[n - k].ticket = ticket
  BY <1>1, <1>3
<1>5. ASSUME NEW j \in 1..n, s[j].ticket = ticket
      PROVE  j <= n - k
  <2>1. n - j \in 0..n /\ n - (n - j) = j
    BY <1>1
  <2>2. n - j \in K
    BY <1>1, <1>5, <2>1
  <2>3. k <= n - j
    BY <1>3, <2>2
  <2> QED
    BY <1>1, <1>4, <2>3
<1>6. \E i \in DOMAIN s : IsLast(i)
  BY <1>1, <1>4, <1>5
<1>7. LastOf(s, ticket) = s[CHOOSE i \in DOMAIN s : IsLast(i)]
  BY DEF LastOf
<1> QED
  BY <1>1, <1>6, <1>7

LEMMA MergedOK ==
    ASSUME history \in Seq(Trades), deals \in Seq(Trades), MergeHistory
    PROVE  history' \in Seq(Trades)
<1> DEFINE new == RecentOf(deals)
           IsLast(i) == \A j \in DOMAIN history : history[j].ticket = history[i].ticket => j <= i
           merged == [i \in DOMAIN history |->
               IF IsLast(i) /\ Has(new, history[i].ticket) THEN LastOf(new, history[i].ticket)
               ELSE history[i]]
           unknown == {i \in DOMAIN new : ~Has(history, new[i].ticket)}
<1>1. history' \in Arrangements(merged \o Entries(new, unknown))
  BY DEF MergeHistory
<1>2. new \in Seq(Trades)
  BY RecentKept
<1> HIDE DEF new
<1>3. Entries(new, unknown) \in Seq(Trades)
  BY <1>2, EntriesOK
<1>4. merged \in Seq(Trades)
  <2>1. /\ DOMAIN history = 1..Len(history) /\ Len(history) \in Nat
        /\ \A i \in 1..Len(history) : history[i] \in Trades
    OBVIOUS
  <2>2. \A ticket : Has(new, ticket) => LastOf(new, ticket) \in Trades
    BY <1>2, LastDeal
  <2>3. merged \in [1..Len(history) -> Trades]
    BY <2>1, <2>2
  <2> QED
    BY <2>1, <2>3
<1> HIDE DEF merged, unknown
<1>5. merged \o Entries(new, unknown) \in Seq(Trades)
  BY <1>3, <1>4
<1> QED
  BY <1>1, <1>5, ArrangedOK

LEMMA RestKept ==
    ASSUME Kinds, Rest, [Next]_vars
    PROVE  Rest'
<1> USE DEF memory, files, world, process
<1>0. /\ clock \in 0..MaxClock
      /\ rec.at \in {"append", "trade"} => rec.trade \in Trades
      /\ Stored \in Seq(Trades) /\ state \in {Torn, NoFile} \cup States
  BY DEF Kinds, Stored
<1>1. CASE \E t \in Tickets : TrackerCloses(t) \/ FindsGone(t)
  BY <1>1 DEF TrackerCloses, FindsGone, Rest
<1>2. CASE SkipDuplicate \/ ReadFigures \/ SaveFigures \/ ReadForLot \/ SaveLot \/ Pass
           \/ UNCHANGED vars
  BY <1>2 DEF SkipDuplicate, ReadFigures, SaveFigures, ReadForLot, SaveLot, Pass, Rest, vars
<1>3. CASE AppendTrade
  <2>1. Append(history, rec.trade) \in Seq(Trades) /\ Cap \in Nat \ {0}
    BY <1>0, <1>3, BoundsOK DEF AppendTrade, Rest
  <2>2. history' \in Seq(Trades)
    BY <1>3, <2>1, LastOK DEF AppendTrade
  <2> QED
    BY <1>3, <2>2 DEF AppendTrade, Rest
<1>4. CASE SaveTrade
  <2>1. /\ Append(RecentOf(Stored), rec.trade) \in Seq(Trades) /\ Cap \in Nat \ {0}
    BY <1>0, <1>4, RecentKept, BoundsOK DEF SaveTrade
  <2>2. Len(Last_n(Append(RecentOf(Stored), rec.trade), Cap)) <= Cap
    <3> DEFINE all == Append(RecentOf(Stored), rec.trade)
    <3>1. all \in Seq(Trades) /\ Cap \in Nat \ {0}
      BY <2>1
    <3> HIDE DEF all
    <3>2. Len(all) \in Nat /\ Len(Last_n(all, Cap)) = IF Len(all) > Cap THEN Cap ELSE Len(all)
      BY <3>1, LastOK
    <3> QED
      BY <3>1, <3>2 DEF all
  <2>3. trades' # Torn => Len(trades') <= Cap
    BY <1>4, <2>2 DEF SaveTrade, Rest
  <2> QED
    BY <1>4, <2>3 DEF SaveTrade, Rest
<1>5. CASE MergeHistory
  <2>1. history' \in Seq(Trades)
    BY <1>5, MergedOK DEF Rest
  <2> QED
    BY <1>5, <2>1 DEF MergeHistory, Rest
<1>6. CASE \E l \in Lots : SetLot(l)
  <2>1. sets' \in 0..MaxSets
    BY <1>6, CountersOK DEF SetLot, Rest
  <2> QED
    BY <1>6, <2>1 DEF SetLot, Rest
<1>7. CASE DailyReset
  BY <1>0, <1>7, DayOK DEF DailyReset, Rest
<1>8. CASE Crash
  <2>1. <<>> \in Seq(Trades) /\ 0 \in Days
    <3>1. 0 \in 0..MaxClock /\ 0 \div DayLength = 0
      BY BoundsOK
    <3> QED
      BY <3>1, DayOK DEF Day
  <2>2. crashes' \in 0..MaxCrashes
    BY <1>8, CountersOK DEF Crash, Rest
  <2>3. trades' # Torn => Len(trades') <= Cap
    BY <1>8 DEF Crash, Rest
  <2> QED
    BY <1>8, <2>1, <2>2, <2>3 DEF Crash, Rest
<1>9. CASE Restart
  <2>1. history' \in Seq(Trades)
    BY <1>0, <1>9, RecentKept DEF Restart, LoadTrades
  <2>2. lot' \in Lots \cup {NoLot}
    BY <1>0, <1>9 DEF Restart, LoadDailyState, States
  <2>3. resetDay' \in Days /\ tracked' \subseteq Tickets
    BY <1>0, <1>9, DayOK DEF Restart, Rest
  <2> QED
    BY <1>9, <2>1, <2>2, <2>3 DEF Restart, Rest
<1>10. CASE \E t \in Tickets : TerminalCloses(t)
  <2>1. PICK t \in Tickets : TerminalCloses(t)
    BY <1>10
  <2> DEFINE deal == [ticket |-> t, time |-> clock]
  <2>2. deal \in Trades
    BY <1>0 DEF Trades
  <2> HIDE DEF deal
  <2>3. /\ deals \in Seq(Trades)
        /\ Append(deals, deal) \in Seq(Trades) /\ deals \o <<deal, deal>> \in Seq(Trades)
    BY <2>2 DEF Rest
  <2>4. deals' \in {Append(deals, deal), deals \o <<deal, deal>>}
    BY <2>1 DEF TerminalCloses, deal
  <2> QED
    BY <2>1, <2>3, <2>4 DEF TerminalCloses, Rest
<1>11. CASE Record
  BY <1>2, <1>3, <1>4, <1>11 DEF Record
<1> QED
  BY <1>1, <1>2, <1>5, <1>6, <1>7, <1>8, <1>9, <1>10, <1>11 DEF Next

LEMMA InitRest == Init => Rest
<1> SUFFICES ASSUME Init
             PROVE  Rest
  OBVIOUS
<1>1. 0 \in 0..MaxClock /\ 0 \div DayLength = 0 /\ 0 \in 0..MaxCrashes /\ 0 \in 0..MaxSets
  BY BoundsOK, CountersOK
<1>2. 0 \in Days
  BY <1>1, DayOK DEF Day
<1>3. <<>> \in Seq(Trades) /\ Len(<<>>) = 0 /\ Cap \in Nat
  BY BoundsOK
<1> QED
  BY <1>1, <1>2, <1>3 DEF Init, Rest

\* The type invariant: however the merges rearrange, double and replace the trades in
\* memory, it holds well-formed trades, and the file never holds more than Cap.
THEOREM TypesKept == Spec => []TypeOK
<1>1. Kinds /\ Rest /\ [Next]_vars => Rest'
  BY RestKept
<1>2. Kinds /\ Rest => TypeOK
  BY DEF Kinds, Rest, TypeOK
<1> QED
  BY <1>1, <1>2, InitRest, JournalInvariant, PTL DEF Spec

=============================================================================
