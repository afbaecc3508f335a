-------------------------- MODULE DispatcherProofs --------------------------
(***************************************************************************)
(* For every set of orders, symbols and workers, every queue and window:   *)
(* the dispatcher's types, its in-flight entries, its guard, and that it   *)
(* implements OrderDesk.                                                   *)
(***************************************************************************)
EXTENDS Dispatcher, TLAPS

USE DispatcherAssumption DEF DispatcherAssumption

-----------------------------------------------------------------------------
(* Types.                                                                   *)

\* Whoever holds no order is idle or done, and the reverse.
HandsMatch ==
    /\ submitter.pc = "idle" <=> submitter.order = None
    /\ \A w \in Workers : worker[w].pc \in {"idle", "done"} <=> worker[w].order = None

TypeInv == TypeOK /\ HandsMatch

LEMMA TypeInvInit == Init => TypeInv
<1> SUFFICES ASSUME Init PROVE TypeInv
  OBVIOUS
<1> USE DEF Init
<1>0. orderCh \in Seq(Orders) /\ Len(orderCh) <= QueueSize
  OBVIOUS
<1>3. inFlightSymbols \in [Symbols -> Nat \cup {Absent}]
  OBVIOUS
<1>4. submitter \in [order : Orders \cup {None}, pc : {"idle", "send", "undo"}]
  BY DEF Idle
<1>5. worker \in [Workers -> [order : Orders \cup {None}, pc : Steps]]
  BY DEF Idle, Steps
<1>6. /\ stamp \in [Orders -> Nat] /\ executed \in [Orders -> Nat] /\ notified \in [Orders -> Nat]
  OBVIOUS
<1>1. TypeOK
  BY <1>0,  <1>3, <1>4, <1>5, <1>6 DEF TypeOK
<1>2. HandsMatch
  BY DEF HandsMatch, Idle
<1> QED BY <1>1, <1>2 DEF TypeInv

LEMMA SubmitTypes == TypeInv /\ Submit => TypeInv'
<1> SUFFICES ASSUME TypeInv, Submit PROVE TypeInv'
  OBVIOUS
<1> USE DEF TypeInv
<1>1. ASSUME NEW o \in Orders, SubmitGuard(o) PROVE TypeInv'
  <2>1. inFlightSymbols' \in [Symbols -> Nat \cup {Absent}]
    BY <1>1 DEF SubmitGuard, Admit, TypeOK, Absent
  <2>2. submitter' \in [order : Orders \cup {None}, pc : {"idle", "send", "undo"}]
    BY <1>1 DEF SubmitGuard, Admit, TypeOK
  <2>3. submitted' \in SUBSET Orders /\ stamp' \in [Orders -> Nat]
    <3>1. submitted \in SUBSET Orders /\ stamp \in [Orders -> Nat] /\ clock \in Nat
      BY DEF TypeOK
    <3> QED BY <1>1, <3>1 DEF SubmitGuard, Admit
  <2>4. TypeOK'
    BY <1>1, <2>1, <2>2, <2>3 DEF SubmitGuard, TypeOK, Steps, Absent, channel, history
  <2>5. HandsMatch'
    BY <1>1 DEF SubmitGuard, Admit, HandsMatch
  <2> QED BY <2>4, <2>5
<1>2. CASE SubmitSend
  <2>1. submitter.order \in Orders
    BY <1>2 DEF SubmitSend, TypeOK, HandsMatch
  <2>2. orderCh' \in Seq(Orders) /\ Len(orderCh') <= QueueSize
    <3>1. /\ Append(orderCh, submitter.order) \in Seq(Orders)
          /\ Len(Append(orderCh, submitter.order)) = Len(orderCh) + 1
      BY <2>1 DEF TypeOK
    <3>2. \/ orderCh' = orderCh
          \/ Len(orderCh) < QueueSize /\ orderCh' = Append(orderCh, submitter.order)
      BY <1>2 DEF SubmitSend
    <3>3. orderCh \in Seq(Orders) /\ Len(orderCh) <= QueueSize
      BY DEF TypeOK
    <3> QED BY <3>1, <3>2, <3>3
  <2>3. submitter' \in [order : Orders \cup {None}, pc : {"idle", "send", "undo"}]
    <3>1. [submitter EXCEPT !.pc = "undo"] \in [order : Orders \cup {None}, pc : {"idle", "send", "undo"}]
      BY DEF TypeOK
    <3>2. submitter' \in {submitter, Idle, [submitter EXCEPT !.pc = "undo"]}
      BY <1>2 DEF SubmitSend
    <3>3. submitter \in [order : Orders \cup {None}, pc : {"idle", "send", "undo"}]
      BY DEF TypeOK
    <3> QED BY <3>1, <3>2, <3>3 DEF Idle
  <2>4. TypeOK'
    BY <1>2, <2>2, <2>3 DEF SubmitSend, TypeOK, Steps, Absent, history
  <2>5. HandsMatch'
    BY <1>2, <2>1 DEF SubmitSend, HandsMatch, TypeOK, Idle
  <2> QED BY <2>4, <2>5
<1>3. CASE SubmitUndo
  <2>1. inFlightSymbols' \in [Symbols -> Nat \cup {Absent}]
    BY <1>3 DEF SubmitUndo, TypeOK, Absent
  <2>2. submitter' \in [order : Orders \cup {None}, pc : {"idle", "send", "undo"}]
    BY <1>3 DEF SubmitUndo, TypeOK, Idle
  <2>3. TypeOK'
    BY <1>3, <2>1, <2>2 DEF SubmitUndo, TypeOK, Steps, channel, history
  <2>4. HandsMatch'
    BY <1>3 DEF SubmitUndo, HandsMatch, Idle
  <2> QED BY <2>3, <2>4
<1> QED BY <1>1, <1>2, <1>3 DEF Submit

LEMMA WorkTypes == ASSUME TypeInv, NEW w \in Workers, Work(w) PROVE TypeInv'
<1> USE DEF TypeInv
<1>1. CASE Receive(w)
  <2>1. Head(orderCh) \in Orders /\ Tail(orderCh) \in Seq(Orders) /\ Len(Tail(orderCh)) <= QueueSize
    BY <1>1 DEF Receive, TypeOK
  <2>2. TypeOK'
    BY <1>1, <2>1 DEF Receive, TypeOK, Steps, history, Absent
  <2>3. HandsMatch'
    BY <1>1, <2>1 DEF Receive, TypeOK, HandsMatch
  <2> QED BY <2>2, <2>3
<1>2. CASE Execute(w)
  <2>1. worker[w].order \in Orders
    BY <1>2 DEF Execute, GoTo, TypeOK, HandsMatch
  <2>2. executed' \in [Orders -> Nat]
    BY <1>2, <2>1 DEF Execute, TypeOK
  <2>3. worker' \in [Workers -> [order : Orders \cup {None}, pc : Steps]]
    BY <1>2 DEF Execute, GoTo, TypeOK, Steps
  <2>4. TypeOK'
    BY <1>2, <2>2, <2>3 DEF Execute, TypeOK, Steps, Absent, channel
  <2>5. HandsMatch'
    BY <1>2 DEF Execute, GoTo, TypeOK, HandsMatch
  <2> QED BY <2>4, <2>5
<1>3. CASE Notify(w)
  <2>1. worker[w].order \in Orders
    BY <1>3 DEF Notify, GoTo, TypeOK, HandsMatch
  <2>2. notified' \in [Orders -> Nat]
    BY <1>3, <2>1 DEF Notify, TypeOK
  <2>3. worker' \in [Workers -> [order : Orders \cup {None}, pc : Steps]]
    BY <1>3 DEF Notify, GoTo, TypeOK, Steps
  <2>4. TypeOK'
    BY <1>3, <2>2, <2>3 DEF Notify, TypeOK, Steps, Absent, channel
  <2>5. HandsMatch'
    BY <1>3 DEF Notify, GoTo, TypeOK, HandsMatch
  <2> QED BY <2>4, <2>5
<1>4. CASE Release(w)
  <2>1. inFlightSymbols' \in [Symbols -> Nat \cup {Absent}]
    BY <1>4 DEF Release, TypeOK, Absent
  <2>2. worker' \in [Workers -> [order : Orders \cup {None}, pc : Steps]]
    BY <1>4 DEF Release, TypeOK, Idle, Steps
  <2>3. TypeOK'
    BY <1>4, <2>1, <2>2 DEF Release, TypeOK, Steps, channel, history
  <2>4. HandsMatch'
    BY <1>4 DEF Release, TypeOK, HandsMatch, Idle
  <2> QED BY <2>3, <2>4
<1>5. CASE WorkerExit(w)
  <2>1. TypeOK'
    BY <1>5 DEF WorkerExit, GoTo, TypeOK, Steps, Absent, channel, history
  <2>2. HandsMatch'
    BY <1>5 DEF WorkerExit, GoTo, TypeOK, HandsMatch
  <2> QED BY <2>1, <2>2
<1> QED BY <1>1, <1>2, <1>3, <1>4, <1>5 DEF Work

LEMMA MainTypes == TypeInv /\ (Cancel \/ Stop \/ Exit \/ Tick \/ UNCHANGED vars) => TypeInv'
<1> USE DEF TypeInv, TypeOK, HandsMatch, channel, history, Steps, Absent
<1>1. TypeInv /\ (Cancel \/ UNCHANGED vars) => TypeInv'
  BY DEF Cancel, vars
<1>2. TypeInv /\ (Stop \/ Exit) => TypeInv'
  BY DEF Stop, Exit
<1>3. TypeInv /\ Tick => TypeInv'
  BY DEF Tick
<1> QED BY <1>1, <1>2, <1>3

LEMMA NextTypes == TypeInv /\ [Next]_vars => TypeInv'
BY SubmitTypes, WorkTypes, MainTypes DEF Next

LEMMA TypeInvariant == Spec => []TypeInv
BY TypeInvInit, NextTypes, PTL DEF Spec

\* The queue never outgrows its capacity, and every entry, count and step keeps its type.
THEOREM TypesKept == Spec => []TypeOK
<1>1. TypeInv => TypeOK
  BY DEF TypeInv
<1> QED BY <1>1, TypeInvariant, PTL

-----------------------------------------------------------------------------
(* The queue as a set.                                                      *)

LEMMA QueuedAppend ==
    ASSUME orderCh \in Seq(Orders), NEW o \in Orders, orderCh' = Append(orderCh, o)
    PROVE  Queued' = Queued \cup {o}
<1>1. /\ Len(orderCh') = Len(orderCh) + 1 /\ orderCh'[Len(orderCh) + 1] = o
      /\ \A i \in 1..Len(orderCh) : orderCh'[i] = orderCh[i]
  OBVIOUS
<1> QED BY <1>1 DEF Queued

LEMMA QueuedTail ==
    ASSUME orderCh \in Seq(Orders), orderCh # <<>>, orderCh' = Tail(orderCh)
    PROVE  Queued = Queued' \cup {Head(orderCh)}
<1>1. /\ Len(orderCh) \in Nat /\ Len(orderCh) >= 1
      /\ Len(orderCh') = Len(orderCh) - 1 /\ Head(orderCh) = orderCh[1]
      /\ \A i \in 1..Len(orderCh') : orderCh'[i] = orderCh[i + 1]
  OBVIOUS
<1>2. \A i \in 2..Len(orderCh) : i - 1 \in 1..Len(orderCh') /\ orderCh[i] = orderCh'[i - 1]
  BY <1>1
<1>3. ASSUME NEW o PROVE o \in Queued <=> o \in Queued' \cup {Head(orderCh)}
  <2>1. CASE o = Head(orderCh)
    BY <2>1, <1>1 DEF Queued
  <2>2. ASSUME o \in Queued', o # Head(orderCh) PROVE o \in Queued
    BY <2>2, <1>1 DEF Queued
  <2>3. ASSUME o \in Queued, o # Head(orderCh) PROVE o \in Queued'
    <3>1. PICK i \in 1..Len(orderCh) : o = orderCh[i]
      BY <2>3 DEF Queued
    <3>2. i \in 2..Len(orderCh)
      BY <3>1, <2>3, <1>1
    <3> QED BY <3>1, <3>2, <1>2 DEF Queued
  <2> QED BY <2>1, <2>2, <2>3
<1> QED BY <1>3

-----------------------------------------------------------------------------
(* Every order is in one place.                                             *)

\* No order is twice in the queue, with two workers, or in two of queue, workers and
\* Submit; and whatever is in flight was submitted.
OnePlace ==
    /\ \A i, j \in 1..Len(orderCh) : orderCh[i] = orderCh[j] => i = j
    /\ \A v, w \in Workers :
          worker[v].order = worker[w].order => v = w \/ worker[v].order = None
    /\ Queued \cap Held = {}
    /\ submitter.order \notin Queued \cup Held
    /\ InFlight \subseteq submitted

\* The order a step takes out of Submit, queue or workers leaves the others where they
\* were; this is all the invariants below need of a step.
LEMMA QueuedAreOrders == TypeInv => Queued \subseteq Orders /\ Held \subseteq Orders
<1> SUFFICES ASSUME TypeInv PROVE Queued \subseteq Orders /\ Held \subseteq Orders
  OBVIOUS
<1>1. orderCh \in Seq(Orders) /\ worker \in [Workers -> [order : Orders \cup {None}, pc : Steps]]
  BY DEF TypeInv, TypeOK
<1>2. Queued \subseteq Orders
  BY <1>1 DEF Queued
<1>3. Held \subseteq Orders
  BY <1>1 DEF Held
<1> QED BY <1>2, <1>3

LEMMA OnePlaceInit == Init => OnePlace
<1> SUFFICES ASSUME Init PROVE OnePlace
  OBVIOUS
<1>1. Queued = {} /\ Held = {} /\ submitter.order = None
  BY DEF Init, Queued, Held, Idle
<1>2. Len(orderCh) = 0 /\ \A w \in Workers : worker[w].order = None
  BY DEF Init, Idle
<1> QED BY <1>1, <1>2 DEF OnePlace, InFlight

LEMMA SubmitKeepsPlace == TypeInv /\ OnePlace /\ Submit => OnePlace'
<1> SUFFICES ASSUME TypeInv, OnePlace, Submit PROVE OnePlace'
  OBVIOUS
<1>1. ASSUME NEW o \in Orders, SubmitGuard(o) PROVE OnePlace'
  <2>1. Queued' = Queued /\ Held' = Held
    BY <1>1 DEF SubmitGuard, Queued, Held, channel
  <2>2. submitter.order = None /\ submitter'.order \in {None, o}
    BY <1>1 DEF SubmitGuard, Admit, Idle
  <2>3. o \notin InFlight /\ submitted' = submitted \cup {o}
    BY <1>1 DEF SubmitGuard, OnePlace
  <2>4. None \notin Queued \cup Held
    BY QueuedAreOrders
  <2>5. orderCh' = orderCh /\ worker' = worker
    BY <1>1 DEF SubmitGuard, channel
  <2> QED BY <2>1, <2>2, <2>3, <2>4, <2>5 DEF OnePlace, InFlight
<1>2. CASE SubmitSend
  <2>1. submitter.order \in Orders /\ submitter.order # None
    BY <1>2 DEF SubmitSend, TypeInv, TypeOK, HandsMatch
  <2>2. worker' = worker /\ Held' = Held /\ submitted' = submitted
    BY <1>2 DEF SubmitSend, Held
  <2>3. CASE orderCh' = orderCh /\ submitter'.order = submitter.order
    <3>1. Queued' = Queued
      BY <2>3 DEF Queued
    <3> QED BY <2>2, <2>3, <3>1 DEF OnePlace, InFlight
  <2>4. CASE orderCh' = Append(orderCh, submitter.order) /\ submitter' = Idle
    <3>1. orderCh \in Seq(Orders)
      BY DEF TypeInv, TypeOK
    <3>2. Queued' = Queued \cup {submitter.order}
      BY <2>1, <2>4, <3>1, QueuedAppend
    <3>3. /\ Len(orderCh') = Len(orderCh) + 1 /\ orderCh'[Len(orderCh) + 1] = submitter.order
          /\ \A i \in 1..Len(orderCh) : orderCh'[i] = orderCh[i]
      BY <2>1, <2>4, <3>1
    <3>4. \A i, j \in 1..Len(orderCh') : orderCh'[i] = orderCh'[j] => i = j
      BY <3>1, <3>3 DEF OnePlace, Queued
    <3>5. None \notin Queued' \cup Held
      BY <2>1, <3>2, QueuedAreOrders
    <3> QED BY <2>1, <2>2, <2>4, <3>2, <3>4, <3>5 DEF OnePlace, InFlight, Idle
  <2> QED BY <1>2, <2>3, <2>4 DEF SubmitSend, TypeInv, TypeOK
<1>3. CASE SubmitUndo
  <2>1. Queued' = Queued /\ Held' = Held /\ orderCh' = orderCh /\ worker' = worker
    BY <1>3 DEF SubmitUndo, Queued, Held, channel
  <2>2. submitter'.order = None /\ submitted' = submitted /\ None \notin Queued \cup Held
    BY <1>3, QueuedAreOrders DEF SubmitUndo, Idle
  <2> QED BY <2>1, <2>2 DEF OnePlace, InFlight
<1> QED BY <1>1, <1>2, <1>3 DEF Submit

\* A step of a worker that keeps its order.
LEMMA SameHandsKeepPlace ==
    ASSUME TypeInv, OnePlace, UNCHANGED <<orderCh, submitter, submitted>>,
           \A w \in Workers : worker'[w].order = worker[w].order
    PROVE  OnePlace' /\ Queued' = Queued /\ Held' = Held
<1>1. Queued' = Queued /\ Held' = Held
  BY DEF Queued, Held
<1> QED BY <1>1 DEF OnePlace, InFlight

LEMMA WorkKeepsPlace == ASSUME TypeInv, OnePlace, NEW w \in Workers, Work(w) PROVE OnePlace'
<1>0. UNCHANGED <<submitter, submitted>>
  BY DEF Work, Receive, Execute, Notify, Release, WorkerExit
<1>1. CASE Receive(w)
  <2>1. orderCh \in Seq(Orders) /\ orderCh # <<>> /\ orderCh' = Tail(orderCh)
    BY <1>1 DEF Receive, TypeInv, TypeOK
  <2>2. /\ Head(orderCh) \in Orders /\ Head(orderCh) = orderCh[1]
        /\ Len(orderCh) \in Nat /\ Len(orderCh) >= 1 /\ Len(orderCh') = Len(orderCh) - 1
        /\ \A i \in 1..Len(orderCh') : orderCh'[i] = orderCh[i + 1]
    BY <2>1
  <2>3. Queued = Queued' \cup {Head(orderCh)}
    BY <2>1, QueuedTail
  <2>4. Head(orderCh) \notin Queued'
    BY <2>2 DEF OnePlace, Queued
  <2>5. \A i, j \in 1..Len(orderCh') : orderCh'[i] = orderCh'[j] => i = j
    BY <2>2 DEF OnePlace
  <2>6. /\ worker[w].order = None /\ worker'[w].order = Head(orderCh)
        /\ \A v \in Workers \ {w} : worker'[v] = worker[v]
    BY <1>1 DEF Receive, TypeInv, TypeOK, HandsMatch
  <2>7. Held' = Held \cup {Head(orderCh)}
    <3>1. Head(orderCh) # None
      BY <2>2
    <3> QED BY <2>6, <3>1 DEF Held
  <2>8. \A u, v \in Workers :
           worker'[u].order = worker'[v].order => u = v \/ worker'[u].order = None
    <3>1. Head(orderCh) \notin Held /\ Head(orderCh) # None
      BY <2>2, <2>3 DEF OnePlace
    <3>2. \A v \in Workers \ {w} : worker'[v].order # Head(orderCh)
      BY <2>6, <3>1 DEF Held
    <3> QED BY <2>6, <3>2 DEF OnePlace
  <2> QED BY <1>0, <2>3, <2>4, <2>5, <2>7, <2>8 DEF OnePlace, InFlight
<1>2. CASE Release(w)
  <2>1. worker'[w].order = None /\ \A v \in Workers \ {w} : worker'[v] = worker[v]
    BY <1>2 DEF Release, Idle, TypeInv, TypeOK, HandsMatch
  <2>2. Held' \subseteq Held
    BY <2>1 DEF Held
  <2>3. orderCh' = orderCh /\ Queued' = Queued
    BY <1>2 DEF Release, Queued, channel
  <2> QED BY <1>0, <2>1, <2>2, <2>3 DEF OnePlace, InFlight
<1>3. CASE Execute(w) \/ Notify(w) \/ WorkerExit(w)
  <2>1. orderCh' = orderCh /\ \A v \in Workers : worker'[v].order = worker[v].order
    <3>1. worker \in [Workers -> [order : Orders \cup {None}, pc : Steps]]
      BY DEF TypeInv, TypeOK
    <3> QED BY <1>3, <3>1 DEF Execute, Notify, WorkerExit, GoTo, channel
  <2> QED BY <1>0, <2>1, SameHandsKeepPlace
<1> QED BY <1>1, <1>2, <1>3 DEF Work

LEMMA NextKeepsPlace == TypeInv /\ OnePlace /\ [Next]_vars => OnePlace'
<1>1. TypeInv /\ OnePlace /\ (Cancel \/ Stop \/ Exit \/ Tick \/ UNCHANGED vars) => OnePlace'
  BY SameHandsKeepPlace DEF Cancel, Stop, Exit, Tick, vars, channel
<1> QED BY <1>1, SubmitKeepsPlace, WorkKeepsPlace DEF Next

LEMMA PlaceInvariant == Spec => [](TypeInv /\ OnePlace)
BY TypeInvariant, OnePlaceInit, NextKeepsPlace, PTL DEF Spec

-----------------------------------------------------------------------------
(* What a step does to the orders in flight.                                *)

LEMMA GuardAdds ==
    ASSUME TypeInv, OnePlace, NEW o \in Orders, SubmitGuard(o)
    PROVE  /\ o \notin InFlight
           /\ \/ UNCHANGED <<InFlight, inFlightSymbols, stamp>>
              \/ ~Blocked(SymbolOf[o]) /\ Admit(o) /\ InFlight' = InFlight \cup {o}
<1>1. o \notin InFlight
  BY DEF OnePlace, SubmitGuard
<1>2. Queued' = Queued /\ Held' = Held
  BY DEF SubmitGuard, Queued, Held, channel
<1>3. CASE Blocked(SymbolOf[o]) /\ UNCHANGED <<submitter, inFlightSymbols, stamp>>
  BY <1>1, <1>2, <1>3 DEF InFlight
<1>4. CASE ~Blocked(SymbolOf[o]) /\ Admit(o)
  BY <1>1, <1>2, <1>4 DEF InFlight, Admit, SubmitGuard, Idle
<1> QED BY <1>1, <1>3, <1>4 DEF SubmitGuard

LEMMA SendKeeps == ASSUME TypeInv, SubmitSend PROVE InFlight' = InFlight
<1>1. submitter.order \in Orders /\ orderCh \in Seq(Orders) /\ Held' = Held
  BY DEF SubmitSend, TypeInv, TypeOK, HandsMatch, Held
<1>2. CASE orderCh' = orderCh /\ submitter'.order = submitter.order
  BY <1>1, <1>2 DEF InFlight, Queued
<1>3. CASE orderCh' = Append(orderCh, submitter.order) /\ submitter' = Idle
  <2>1. Queued' = Queued \cup {submitter.order}
    BY <1>1, <1>3, QueuedAppend
  <2>2. submitter.order # None /\ submitter'.order = None
    BY <1>1, <1>3 DEF Idle
  <2> QED BY <1>1, <2>1, <2>2 DEF InFlight
<1> QED BY <1>2, <1>3 DEF SubmitSend, TypeInv, TypeOK

LEMMA UndoTakesOut ==
    ASSUME TypeInv, OnePlace, SubmitUndo
    PROVE  submitter.order \in Orders /\ InFlight' = InFlight \ {submitter.order}
<1>1. submitter.order \in Orders
  BY DEF SubmitUndo, TypeInv, TypeOK, HandsMatch
<1>2. Queued' = Queued /\ Held' = Held /\ submitter'.order = None
  BY DEF SubmitUndo, Queued, Held, channel, Idle
<1> QED BY <1>1, <1>2 DEF OnePlace, InFlight

LEMMA ReceiveKeeps == ASSUME TypeInv, NEW w \in Workers, Receive(w) PROVE InFlight' = InFlight
<1>1. orderCh \in Seq(Orders) /\ orderCh # <<>> /\ orderCh' = Tail(orderCh)
  BY DEF Receive, TypeInv, TypeOK
<1>2. Queued = Queued' \cup {Head(orderCh)} /\ Head(orderCh) # None
  BY <1>1, QueuedTail
<1>3. /\ worker[w].order = None /\ worker'[w].order = Head(orderCh)
      /\ \A v \in Workers \ {w} : worker'[v] = worker[v]
  BY DEF Receive, TypeInv, TypeOK, HandsMatch
<1>4. Held' = Held \cup {Head(orderCh)}
  BY <1>2, <1>3 DEF Held
<1> QED BY <1>2, <1>4 DEF InFlight, Receive

LEMMA ReleaseTakesOut ==
    ASSUME TypeInv, OnePlace, NEW w \in Workers, Release(w)
    PROVE  worker[w].order \in Orders /\ InFlight' = InFlight \ {worker[w].order}
<1>1. worker[w].order \in Orders
  BY DEF Release, TypeInv, TypeOK, HandsMatch
<1>2. worker'[w].order = None /\ \A v \in Workers \ {w} : worker'[v] = worker[v]
  BY DEF Release, Idle, TypeInv, TypeOK, HandsMatch
<1>3. \A v \in Workers \ {w} : worker[v].order # worker[w].order
  BY <1>1 DEF OnePlace
<1>4. Held' = Held \ {worker[w].order}
  BY <1>2, <1>3 DEF Held
<1>5. Queued' = Queued /\ submitter' = submitter /\ worker[w].order \in Held
  BY <1>1 DEF Release, Queued, Held, channel
<1> QED BY <1>1, <1>4, <1>5 DEF OnePlace, InFlight

LEMMA OthersKeep ==
    ASSUME TypeInv, OnePlace,
           \/ \E w \in Workers : Execute(w) \/ Notify(w) \/ WorkerExit(w)
           \/ Cancel \/ Stop \/ Exit \/ Tick \/ UNCHANGED vars
    PROVE  UNCHANGED <<InFlight, Queued, Held, inFlightSymbols, stamp, submitter, submitted>>
<1>1. worker \in [Workers -> [order : Orders \cup {None}, pc : Steps]]
  BY DEF TypeInv, TypeOK
<1>2. UNCHANGED <<orderCh, inFlightSymbols, stamp, submitter, submitted>>
  BY DEF Execute, Notify, WorkerExit, GoTo, Cancel, Stop, Exit, Tick, vars, channel
<1>3. \A v \in Workers : worker'[v].order = worker[v].order
  <2>1. CASE \E w \in Workers : Execute(w) \/ Notify(w) \/ WorkerExit(w)
    BY <1>1, <2>1 DEF Execute, Notify, WorkerExit, GoTo
  <2>2. CASE Cancel \/ Stop \/ Exit \/ Tick \/ UNCHANGED vars
    BY <2>2 DEF Cancel, Stop, Exit, Tick, vars
  <2> QED BY <2>1, <2>2
<1>4. Queued' = Queued /\ Held' = Held
  BY <1>2, <1>3, SameHandsKeepPlace
<1> QED BY <1>2, <1>4 DEF InFlight

-----------------------------------------------------------------------------
(* In-flight entries.                                                       *)

LEMMA NextKeepsKeys == TypeInv /\ OnePlace /\ NoPhantomKey /\ [Next]_vars => NoPhantomKey'
<1> SUFFICES ASSUME TypeInv, OnePlace, NoPhantomKey, [Next]_vars PROVE NoPhantomKey'
  OBVIOUS
<1>0. inFlightSymbols \in [Symbols -> Nat \cup {Absent}]
  BY DEF TypeInv, TypeOK
<1>1. ASSUME NEW o \in Orders, SubmitGuard(o) PROVE NoPhantomKey'
  BY <1>0, <1>1, GuardAdds DEF NoPhantomKey, Admit, Absent
<1>2. CASE SubmitSend
  BY <1>2, SendKeeps DEF NoPhantomKey, SubmitSend, Absent
<1>3. CASE SubmitUndo
  BY <1>0, <1>3, UndoTakesOut DEF NoPhantomKey, SubmitUndo, Absent
<1>4. ASSUME NEW w \in Workers, Receive(w) PROVE NoPhantomKey'
  BY <1>4, ReceiveKeeps DEF NoPhantomKey, Receive, Absent
<1>5. ASSUME NEW w \in Workers, Release(w) PROVE NoPhantomKey'
  BY <1>0, <1>5, ReleaseTakesOut DEF NoPhantomKey, Release, Absent
<1>6. CASE \/ \E w \in Workers : Execute(w) \/ Notify(w) \/ WorkerExit(w)
           \/ Cancel \/ Stop \/ Exit \/ Tick \/ UNCHANGED vars
  BY <1>6, OthersKeep DEF NoPhantomKey, Absent
<1> QED BY <1>1, <1>2, <1>3, <1>4, <1>5, <1>6 DEF Next, Submit, Work

\* No path through Submit or executeOrder (dispatcher.go:74-97, :138-161) leaves a symbol
\* blocked with no order of it in flight.
THEOREM NoSymbolStaysBlocked == Spec => []NoPhantomKey
<1>1. Init => NoPhantomKey
  BY DEF Init, NoPhantomKey, Absent
<1> QED BY <1>1, PlaceInvariant, NextKeepsKeys, PTL DEF Spec

\* While no order is late, each one in flight has the entry it made, and that entry
\* has not expired.
EntriesFresh ==
    ~late => \A o \in InFlight :
                /\ inFlightSymbols[SymbolOf[o]] = stamp[o]
                /\ clock - stamp[o] < Window

PromptInv == EntriesFresh /\ GuardHoldsWhilePrompt

LEMMA FlightAreOrders == TypeInv => InFlight \subseteq Orders
<1>1. TypeInv => submitter.order \in Orders \cup {None}
  BY DEF TypeInv, TypeOK
<1> QED BY <1>1, QueuedAreOrders DEF InFlight

LEMMA NextKeepsPrompt == TypeInv /\ OnePlace /\ PromptInv /\ [Next]_vars => PromptInv'
<1> SUFFICES ASSUME TypeInv, OnePlace, PromptInv, [Next]_vars PROVE PromptInv'
  OBVIOUS
<1>0. /\ inFlightSymbols \in [Symbols -> Nat \cup {Absent}] /\ stamp \in [Orders -> Nat]
      /\ clock \in Nat /\ late \in BOOLEAN /\ InFlight \subseteq Orders
  BY FlightAreOrders DEF TypeInv, TypeOK
<1> USE DEF PromptInv, EntriesFresh, GuardHoldsWhilePrompt
<1>1. ASSUME NEW o \in Orders, SubmitGuard(o) PROVE PromptInv'
  <2>1. clock' = clock /\ late' = late
    BY <1>1 DEF SubmitGuard
  <2>2. CASE UNCHANGED <<InFlight, inFlightSymbols, stamp>>
    BY <2>1, <2>2
  <2>3. CASE ~Blocked(SymbolOf[o]) /\ Admit(o) /\ InFlight' = InFlight \cup {o}
    <3>1. ~late => \A p \in InFlight : SymbolOf[p] # SymbolOf[o]
      BY <1>0, <2>3 DEF Blocked, Absent
    <3>2. /\ inFlightSymbols'[SymbolOf[o]] = clock /\ stamp'[o] = clock
          /\ \A s \in Symbols \ {SymbolOf[o]} : inFlightSymbols'[s] = inFlightSymbols[s]
          /\ \A p \in Orders \ {o} : stamp'[p] = stamp[p]
      BY <1>0, <2>3 DEF Admit
    <3>3. o \notin InFlight
      BY <1>1, GuardAdds
    <3>4. EntriesFresh'
      BY <1>0, <2>1, <2>3, <3>1, <3>2, <3>3
    <3>5. GuardHoldsWhilePrompt'
      BY <2>1, <2>3, <3>1
    <3> QED BY <3>4, <3>5
  <2> QED BY <1>1, <2>2, <2>3, GuardAdds
<1>2. CASE SubmitSend
  BY <1>2, SendKeeps DEF SubmitSend
<1>3. CASE SubmitUndo
  <2>1. InFlight' = InFlight \ {submitter.order} /\ submitter.order \in Orders
    BY <1>3, UndoTakesOut
  <2>2. UNCHANGED <<stamp, clock, late>>
    BY <1>3 DEF SubmitUndo
  <2>3. ~late => \A p \in InFlight' : inFlightSymbols'[SymbolOf[p]] = inFlightSymbols[SymbolOf[p]]
    BY <1>0, <1>3, <2>1 DEF SubmitUndo, InFlight
  <2> QED BY <2>1, <2>2, <2>3
<1>4. ASSUME NEW w \in Workers, Receive(w) PROVE PromptInv'
  BY <1>4, ReceiveKeeps DEF Receive
<1>5. ASSUME NEW w \in Workers, Release(w) PROVE PromptInv'
  <2>1. InFlight' = InFlight \ {worker[w].order} /\ worker[w].order \in Orders
    BY <1>5, ReleaseTakesOut
  <2>2. UNCHANGED <<stamp, clock, late>>
    BY <1>5 DEF Release
  <2>3. worker[w].order \in InFlight
    BY <2>1 DEF InFlight, Held
  <2>4. ~late => \A p \in InFlight' : inFlightSymbols'[SymbolOf[p]] = inFlightSymbols[SymbolOf[p]]
    BY <1>0, <1>5, <2>1, <2>3 DEF Release
  <2> QED BY <2>1, <2>2, <2>4
<1>6. CASE \/ \E w \in Workers : Execute(w) \/ Notify(w) \/ WorkerExit(w)
           \/ Cancel \/ Stop \/ Exit \/ UNCHANGED vars
  <2>1. UNCHANGED <<InFlight, inFlightSymbols, stamp>>
    BY <1>6, OthersKeep
  <2>2. UNCHANGED <<clock, late>>
    BY <1>6 DEF Execute, Notify, WorkerExit, Cancel, Stop, Exit, vars
  <2> QED BY <2>1, <2>2
<1>7. CASE Tick
  <2>1. UNCHANGED <<InFlight, inFlightSymbols, stamp>>
    BY <1>7, OthersKeep
  <2>2. clock' = clock + 1 /\ late' = (late \/ \E o \in InFlight : clock + 1 - stamp[o] >= Window)
    BY <1>7 DEF Tick
  <2>3. ASSUME ~late', NEW o \in InFlight PROVE ~late /\ clock' - stamp[o] < Window
    <3>1. stamp[o] \in Nat /\ Window \in Nat
      BY <1>0
    <3>2. ~late /\ ~(clock + 1 - stamp[o] >= Window)
      BY <2>2, <2>3
    <3> QED BY <1>0, <2>2, <3>1, <3>2
  <2>4. EntriesFresh'
    BY <2>1, <2>3
  <2>5. GuardHoldsWhilePrompt'
    BY <2>1, <2>2
  <2> QED BY <2>4, <2>5
<1> QED BY <1>1, <1>2, <1>3, <1>4, <1>5, <1>6, <1>7 DEF Next, Submit, Work

\* Submit's in-flight guard (dispatcher.go:79): as long as no order stays in flight for
\* five seconds, no two orders of a symbol are in flight together.
THEOREM GuardKept == Spec => []GuardHoldsWhilePrompt
<1>1. Init => PromptInv
  <2> SUFFICES ASSUME Init PROVE InFlight = {}
    BY DEF PromptInv, EntriesFresh, GuardHoldsWhilePrompt
  <2> QED BY DEF Init, InFlight, Queued, Held, Idle
<1>2. PromptInv => GuardHoldsWhilePrompt
  BY DEF PromptInv
<1> QED BY <1>1, <1>2, PlaceInvariant, NextKeepsPrompt, PTL DEF Spec

-----------------------------------------------------------------------------
(* The refinement of OrderDesk.                                             *)

\* How far an order got is where it is: nothing was done for an order that is new,
\* queued or with Submit, and a worker's next step says what it has done for its order.
Progress ==
    /\ \A o \in Orders : (o \notin submitted \/ o \in Queued \/ o = submitter.order)
          => executed[o] = 0 /\ notified[o] = 0
    /\ \A w \in Workers :
          /\ worker[w].pc = "execute" => executed[worker[w].order] = 0
          /\ worker[w].pc \in {"execute", "notify"} => notified[worker[w].order] = 0
          /\ worker[w].pc \in {"notify", "release"} => executed[worker[w].order] = 1
          /\ worker[w].pc = "release" => notified[worker[w].order] = 1

Accepted == Queued \cup Held \cup {o \in Orders : notified[o] > 0}

DeskInv == TypeInv /\ OnePlace /\ Progress

LEMMA SubmitRefines == DeskInv /\ Submit => Progress' /\ (Desk!DeskNext \/ UNCHANGED Desk!deskVars)
<1> SUFFICES ASSUME DeskInv, Submit
             PROVE  Progress' /\ (Desk!DeskNext \/ UNCHANGED Desk!deskVars)
  OBVIOUS
<1> USE DEF DeskInv
<1>0. UNCHANGED <<worker, executed, notified>> /\ Held' = Held
  BY DEF Submit, SubmitGuard, SubmitSend, SubmitUndo, history, Held
<1>1. ASSUME NEW o \in Orders, SubmitGuard(o)
      PROVE  Progress' /\ UNCHANGED Desk!deskVars
  <2>1. Queued' = Queued /\ submitted' = submitted \cup {o} /\ o \notin submitted
    BY <1>1 DEF SubmitGuard, Queued, channel
  <2>2. submitter'.order \in {submitter.order, o}
    BY <1>1 DEF SubmitGuard, Admit
  <2>3. Progress'
    BY <1>0, <2>1, <2>2 DEF Progress
  <2> QED BY <1>0, <2>1, <2>3 DEF Desk!deskVars
<1>2. CASE SubmitSend
  <2>1. submitter.order \in Orders /\ orderCh \in Seq(Orders) /\ submitted' = submitted
    BY <1>2 DEF SubmitSend, TypeInv, TypeOK, HandsMatch
  <2>2. CASE orderCh' = orderCh /\ submitter'.order = submitter.order
    <3>1. Queued' = Queued
      BY <2>2 DEF Queued
    <3> QED BY <1>0, <2>1, <2>2, <3>1 DEF Progress, Desk!deskVars
  <2>3. CASE orderCh' = Append(orderCh, submitter.order) /\ submitter' = Idle
    <3>1. Queued' = Queued \cup {submitter.order}
      BY <2>1, <2>3, QueuedAppend
    <3>2. submitter'.order = None
      BY <2>3 DEF Idle
    <3>3. Progress'
      BY <1>0, <2>1, <3>1, <3>2 DEF Progress
    <3>4. submitter.order \notin Accepted
      BY <2>1 DEF Accepted, OnePlace, Progress
    <3>5. Desk!Accept(submitter.order)
      BY <1>0, <3>1, <3>4 DEF Desk!Accept, Accepted
    <3>6. Desk!DeskNext
      BY <2>1, <3>5 DEF Desk!DeskNext, Desk!Accept
    <3> QED BY <3>3, <3>6
  <2> QED BY <1>2, <2>2, <2>3 DEF SubmitSend, TypeInv, TypeOK
<1>3. CASE SubmitUndo
  <2>1. Queued' = Queued /\ submitted' = submitted /\ submitter'.order = None
    BY <1>3 DEF SubmitUndo, Queued, channel, Idle
  <2> QED BY <1>0, <2>1 DEF Progress, Desk!deskVars
<1> QED BY <1>1, <1>2, <1>3 DEF Submit

LEMMA WorkRefines ==
    ASSUME DeskInv, NEW w \in Workers, Work(w)
    PROVE  Progress' /\ (Desk!DeskNext \/ UNCHANGED Desk!deskVars)
<1> USE DEF DeskInv
<1> DEFINE o == worker[w].order
<1>0. /\ UNCHANGED <<submitter, submitted>>
      /\ executed \in [Orders -> Nat] /\ notified \in [Orders -> Nat]
      /\ worker \in [Workers -> [order : Orders \cup {None}, pc : Steps]]
  BY DEF Work, Receive, Execute, Notify, Release, WorkerExit, TypeInv, TypeOK
<1>1. CASE Receive(w)
  <2>1. orderCh \in Seq(Orders) /\ orderCh # <<>> /\ orderCh' = Tail(orderCh)
    BY <1>1 DEF Receive, TypeInv, TypeOK
  <2>2. Queued = Queued' \cup {Head(orderCh)} /\ Head(orderCh) \in Orders
    BY <2>1, QueuedTail
  <2>3. /\ o = None /\ worker'[w] = [order |-> Head(orderCh), pc |-> "execute"]
        /\ \A v \in Workers \ {w} : worker'[v] = worker[v]
        /\ UNCHANGED <<executed, notified>>
    BY <1>1 DEF Receive, TypeInv, TypeOK, HandsMatch, history
  <2>4. Held' = Held \cup {Head(orderCh)}
    BY <2>2, <2>3 DEF Held
  <2>5. Progress'
    BY <1>0, <2>2, <2>3 DEF Progress
  <2> QED BY <2>2, <2>3, <2>4, <2>5 DEF Desk!deskVars
<1>2. CASE Release(w)
  <2>1. /\ worker'[w] = Idle /\ \A v \in Workers \ {w} : worker'[v] = worker[v]
        /\ UNCHANGED <<executed, notified>> /\ Queued' = Queued
    BY <1>0, <1>2 DEF Release, Queued, channel, history
  <2>2. o \in Orders /\ notified[o] = 1
    BY <1>2 DEF Release, TypeInv, TypeOK, HandsMatch, Progress
  <2>3. Held = Held' \cup {o}
    <3>1. worker'[w].order = None /\ o \in Held /\ o # None
      BY <2>1, <2>2 DEF Idle, Held
    <3>2. \A v \in Workers \ {w} : worker[v].order # o
      BY <2>2 DEF OnePlace
    <3>3. Held' = Held \ {o}
      BY <2>1, <3>1, <3>2 DEF Held
    <3> QED BY <3>1, <3>3
  <2>4. Progress'
    BY <1>0, <2>1 DEF Progress, Idle
  <2>5. Queued' \cup Held' \cup {p \in Orders : notified'[p] > 0}
          = Queued \cup Held \cup {p \in Orders : notified[p] > 0}
    BY <2>1, <2>2, <2>3
  <2> QED BY <2>1, <2>4, <2>5 DEF Desk!deskVars
<1>3. CASE Execute(w) \/ Notify(w) \/ WorkerExit(w)
  <2>1. Queued' = Queued /\ Held' = Held
    BY <1>3, OthersKeep
  <2>2. \A v \in Workers \ {w} : worker'[v] = worker[v]
    BY <1>0, <1>3 DEF Execute, Notify, WorkerExit, GoTo
  <2>3. worker'[w].order = o
    BY <1>0, <1>3 DEF Execute, Notify, WorkerExit, GoTo
  <2>4. CASE WorkerExit(w)
    <3>1. UNCHANGED <<executed, notified>> /\ worker'[w].pc = "done"
      BY <1>0, <2>4 DEF WorkerExit, GoTo, history
    <3> QED BY <1>0, <2>1, <2>2, <2>3, <3>1 DEF Progress, Desk!deskVars
  <2>5. ASSUME Execute(w) \/ Notify(w)
        PROVE  /\ o \in Orders /\ o \in Held /\ o \in submitted
               /\ o \notin Queued /\ o # submitter.order
               /\ \A v \in Workers \ {w} : worker[v].order # o
               /\ \A v \in Workers : worker[v].pc \in {"execute", "notify", "release"}
                                      => worker[v].order \in Orders
    <3>1. o \in Orders
      BY <2>5 DEF Execute, Notify, GoTo, TypeInv, TypeOK, HandsMatch
    <3>2. o \in Held
      BY <3>1 DEF Held
    <3>3. \A v \in Workers : worker[v].pc \in {"execute", "notify", "release"}
                              => worker[v].order \in Orders
      BY DEF TypeInv, TypeOK, HandsMatch
    <3> QED BY <3>1, <3>2, <3>3 DEF OnePlace, InFlight
  <2>6. CASE Execute(w)
    <3>1. /\ executed' = [executed EXCEPT ![o] = @ + 1] /\ notified' = notified
          /\ worker[w].pc = "execute" /\ worker'[w].pc = "notify"
      BY <1>0, <2>6 DEF Execute, GoTo
    <3>2. executed[o] = 0 /\ notified[o] = 0
      BY <3>1 DEF Progress
    <3>3. executed' = [executed EXCEPT ![o] = 1]
      BY <1>0, <2>5, <2>6, <3>1, <3>2
    <3>4. Progress'
      BY <1>0, <2>1, <2>2, <2>3, <2>5, <2>6, <3>1, <3>2, <3>3 DEF Progress
    <3>5. Desk!ExecuteOnce(o)
      BY <2>1, <2>5, <2>6, <3>1, <3>2, <3>3 DEF Desk!ExecuteOnce
    <3> QED BY <2>5, <2>6, <3>4, <3>5 DEF Desk!DeskNext
  <2>7. CASE Notify(w)
    <3>1. /\ notified' = [notified EXCEPT ![o] = @ + 1] /\ executed' = executed
          /\ worker[w].pc = "notify" /\ worker'[w].pc = "release"
      BY <1>0, <2>7 DEF Notify, GoTo
    <3>2. executed[o] = 1 /\ notified[o] = 0
      BY <3>1 DEF Progress
    <3>3. notified' = [notified EXCEPT ![o] = 1]
      BY <1>0, <2>5, <2>7, <3>1, <3>2
    <3>4. Progress'
      <4>1. notified'[o] = 1 /\ \A p \in Orders \ {o} : notified'[p] = notified[p]
        BY <1>0, <2>5, <2>7, <3>3
      <4>2. \A p \in Orders : (p \notin submitted' \/ p \in Queued' \/ p = submitter'.order)
              => executed'[p] = 0 /\ notified'[p] = 0
        BY <1>0, <2>1, <2>5, <2>7, <3>1, <4>1 DEF Progress
      <4>3. \A v \in Workers \ {w} :
              worker[v].pc \in {"execute", "notify", "release"}
                => notified'[worker[v].order] = notified[worker[v].order]
        BY <2>5, <2>7, <4>1
      <4> QED BY <2>2, <2>3, <3>1, <3>2, <4>1, <4>2, <4>3 DEF Progress
    <3>5. Queued' \cup Held' \cup {p \in Orders : notified'[p] > 0}
            = Queued \cup Held \cup {p \in Orders : notified[p] > 0}
      BY <1>0, <2>1, <2>5, <2>7, <3>3
    <3>6. Desk!NotifyOnce(o)
      BY <3>1, <3>2, <3>3, <3>5 DEF Desk!NotifyOnce
    <3> QED BY <2>5, <2>7, <3>4, <3>6 DEF Desk!DeskNext
  <2> QED BY <1>3, <2>4, <2>6, <2>7
<1> QED BY <1>1, <1>2, <1>3 DEF Work

LEMMA NextRefines == DeskInv /\ [Next]_vars => Progress' /\ [Desk!DeskNext]_Desk!deskVars
<1> SUFFICES ASSUME DeskInv, Cancel \/ Stop \/ Exit \/ Tick \/ UNCHANGED vars
             PROVE  Progress' /\ UNCHANGED Desk!deskVars
  BY SubmitRefines, WorkRefines DEF Next
<1>1. Queued' = Queued /\ Held' = Held /\ submitter' = submitter /\ submitted' = submitted
  BY OthersKeep DEF DeskInv
<1>2. UNCHANGED <<worker, executed, notified>>
  BY DEF Cancel, Stop, Exit, Tick, vars, history
<1> QED BY <1>1, <1>2 DEF DeskInv, Progress, Desk!deskVars

\* The dispatcher implements OrderDesk: whatever the queue, the workers and a panic do,
\* an order reaches the broker at most once and only if Submit took it in, and its
\* callback (dispatcher.go:138-161) runs at most once and after the broker call.
THEOREM DispatcherImplementsDesk == Spec => ImplementsDesk
<1>1. Init => Progress /\ Desk!DeskInit
  <2> SUFFICES ASSUME Init PROVE Progress /\ Desk!DeskInit
    OBVIOUS
  <2>1. Queued = {} /\ Held = {} /\ \A o \in Orders : executed[o] = 0 /\ notified[o] = 0
    BY DEF Init, Queued, Held, Idle
  <2>2. Progress
    BY <2>1 DEF Init, Progress, Idle
  <2>3. Desk!DeskInit
    BY <2>1 DEF Init, Desk!DeskInit
  <2> QED BY <2>2, <2>3
<1>2. Spec => []DeskInv
  BY <1>1, PlaceInvariant, NextRefines, PTL DEF Spec, DeskInv
<1> QED BY <1>1, <1>2, NextRefines, PTL DEF Spec, ImplementsDesk, Desk!DeskSpec
=============================================================================
