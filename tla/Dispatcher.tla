----------------------------- MODULE Dispatcher -----------------------------
(***************************************************************************)
(* internal/executor/dispatcher.go with the goroutines that use it: the    *)
(* signal consumer (the only caller of Submit), the workers, and main,     *)
(* which cancels the context and calls Stop.                               *)
(*                                                                         *)
(* Each critical section of inFlightMu, each channel operation and each    *)
(* call out (broker, callback) is a step of its own.  The clock counts in  *)
(* units of which Window make the five seconds of Submit; MaxClock bounds  *)
(* it.  An order has an identity, and is submitted once.                   *)
(***************************************************************************)
EXTENDS Integers, Sequences, FiniteSets

CONSTANTS
    Orders, Symbols, SymbolOf, Workers,
    QueueSize,   \* capacity of orderCh
    Window,      \* age below which an in-flight entry blocks its symbol
    MaxClock,
    None

ASSUME DispatcherAssumption ==
    /\ SymbolOf \in [Orders -> Symbols]
    /\ QueueSize \in Nat \ {0} /\ Window \in Nat \ {0} /\ MaxClock \in Nat
    /\ None \notin Orders

VARIABLES
    orderCh, closed,    \* the channel: its buffer, and whether Stop closed it
    inFlightSymbols,    \* symbol -> time of submission, Absent if no entry
    submitter,          \* the order Submit is working on, and its next step
    worker,             \* per worker: the order it holds, and its next step
    cancelled,          \* the context is done
    phase,              \* of the process
    clock,
    submitted, stamp,   \* history: orders ever submitted, time each was admitted
    executed, notified, \* calls of broker.Execute and of the callbacks, per order
    late                \* history: an order was in flight for Window or longer

channel == <<orderCh, closed>>
history == <<executed, notified>>
vars == <<channel, inFlightSymbols, submitter, worker, cancelled, phase, clock,
          submitted, stamp, history, late>>

Absent == -1
Idle == [order |-> None, pc |-> "idle"]

Held == {worker[w].order : w \in Workers} \ {None}
Queued == {orderCh[i] : i \in 1..Len(orderCh)}
\* Orders past the guard and not yet done with.
InFlight == Queued \cup Held \cup ({submitter.order} \ {None})

Alive == phase \in {"running", "stopping"}

Init ==
    /\ orderCh = <<>> /\ closed = FALSE
    /\ inFlightSymbols = [s \in Symbols |-> Absent]
    /\ submitter = Idle
    /\ worker = [w \in Workers |-> Idle]
    /\ cancelled = FALSE /\ phase = "running" /\ clock = 0
    /\ submitted = {} /\ stamp = [o \in Orders |-> 0]
    /\ executed = [o \in Orders |-> 0] /\ notified = [o \in Orders |-> 0]
    /\ late = FALSE

-----------------------------------------------------------------------------
(* Submit: the guard, the non-blocking send, and the undo when it is full.   *)

\* Fault: an expired entry is kept, so the order admitted after it is not recorded.
Admit_NoStamp(o) ==
    /\ submitter' = [order |-> o, pc |-> "send"]
    /\ stamp' = [stamp EXCEPT ![o] = clock]
    /\ UNCHANGED inFlightSymbols

Admit(o) ==
    /\ submitter' = [order |-> o, pc |-> "send"]
    /\ stamp' = [stamp EXCEPT ![o] = clock]
    /\ inFlightSymbols' = [inFlightSymbols EXCEPT ![SymbolOf[o]] = clock]

Blocked(sym) == inFlightSymbols[sym] # Absent /\ clock - inFlightSymbols[sym] < Window

SubmitGuard(o) ==
    /\ Alive /\ submitter = Idle /\ o \notin submitted
    /\ submitted' = submitted \cup {o}
    /\ \/ Blocked(SymbolOf[o]) /\ UNCHANGED <<submitter, inFlightSymbols, stamp>>
       \/ ~Blocked(SymbolOf[o]) /\ Admit(o)
    /\ UNCHANGED <<channel, worker, cancelled, phase, clock, history, late>>

\* Fault: the send does not test for room.
SubmitSend_NoCap ==
    /\ Alive /\ submitter.pc = "send"
    /\ \/ /\ closed
          /\ phase' = "crashed"
          /\ UNCHANGED <<orderCh, submitter>>
       \/ /\ ~closed
          /\ orderCh' = Append(orderCh, submitter.order)
          /\ submitter' = Idle
          /\ UNCHANGED phase
    /\ UNCHANGED <<closed, inFlightSymbols, worker, cancelled, clock, submitted, stamp,
                   history, late>>

\* A send on the closed channel panics, and the panic ends the process.
SubmitSend ==
    /\ Alive /\ submitter.pc = "send"
    /\ \/ /\ closed
          /\ phase' = "crashed"
          /\ UNCHANGED <<orderCh, submitter>>
       \/ /\ ~closed /\ Len(orderCh) < QueueSize
          /\ orderCh' = Append(orderCh, submitter.order)
          /\ submitter' = Idle
          /\ UNCHANGED phase
       \/ /\ ~closed /\ Len(orderCh) >= QueueSize
          /\ submitter' = [submitter EXCEPT !.pc = "undo"]
          /\ UNCHANGED <<orderCh, phase>>
    /\ UNCHANGED <<closed, inFlightSymbols, worker, cancelled, clock, submitted, stamp,
                   history, late>>

\* Fault: the full channel leaves the symbol's entry behind.
SubmitUndo_KeepKey ==
    /\ Alive /\ submitter.pc = "undo"
    /\ submitter' = Idle
    /\ UNCHANGED <<channel, inFlightSymbols, worker, cancelled, phase, clock, submitted,
                   stamp, history, late>>

SubmitUndo ==
    /\ Alive /\ submitter.pc = "undo"
    /\ inFlightSymbols' = [inFlightSymbols EXCEPT ![SymbolOf[submitter.order]] = Absent]
    /\ submitter' = Idle
    /\ UNCHANGED <<channel, worker, cancelled, phase, clock, submitted, stamp, history, late>>

-----------------------------------------------------------------------------
(* A worker.  Its two loops, before and after it saw the context done, both  *)
(* receive until the channel is closed and empty, so they are one here.      *)

GoTo(w, from, to) ==
    /\ Alive /\ worker[w].pc = from
    /\ worker' = [worker EXCEPT ![w].pc = to]

\* Fault: the order is read without being taken off the queue.
Receive_Peek(w) ==
    /\ Alive /\ worker[w].pc = "idle" /\ orderCh # <<>>
    /\ worker' = [worker EXCEPT ![w] = [order |-> Head(orderCh), pc |-> "execute"]]
    /\ UNCHANGED <<channel, inFlightSymbols, submitter, cancelled, phase, clock, submitted,
                   stamp, history, late>>

Receive(w) ==
    /\ Alive /\ worker[w].pc = "idle" /\ orderCh # <<>>
    /\ worker' = [worker EXCEPT ![w] = [order |-> Head(orderCh), pc |-> "execute"]]
    /\ orderCh' = Tail(orderCh)
    /\ UNCHANGED <<closed, inFlightSymbols, submitter, cancelled, phase, clock, submitted,
                   stamp, history, late>>

\* Fault: a worker leaves when the context is done instead of draining the queue.
WorkerExit_NoDrain(w) ==
    /\ cancelled
    /\ GoTo(w, "idle", "done")
    /\ UNCHANGED <<channel, inFlightSymbols, submitter, cancelled, phase, clock, submitted,
                   stamp, history, late>>

WorkerExit(w) ==
    /\ closed /\ orderCh = <<>>
    /\ GoTo(w, "idle", "done")
    /\ UNCHANGED <<channel, inFlightSymbols, submitter, cancelled, phase, clock, submitted,
                   stamp, history, late>>

\* executeOrder: the broker call, the fill or reject callback, the deferred delete.
Execute(w) ==
    /\ GoTo(w, "execute", "notify")
    /\ executed' = [executed EXCEPT ![worker[w].order] = @ + 1]
    /\ UNCHANGED <<channel, inFlightSymbols, submitter, cancelled, phase, clock, submitted,
                   stamp, notified, late>>

Notify(w) ==
    /\ GoTo(w, "notify", "release")
    /\ notified' = [notified EXCEPT ![worker[w].order] = @ + 1]
    /\ UNCHANGED <<channel, inFlightSymbols, submitter, cancelled, phase, clock, submitted,
                   stamp, executed, late>>

Release(w) ==
    /\ Alive /\ worker[w].pc = "release"
    /\ inFlightSymbols' = [inFlightSymbols EXCEPT ![SymbolOf[worker[w].order]] = Absent]
    /\ worker' = [worker EXCEPT ![w] = Idle]
    /\ UNCHANGED <<channel, submitter, cancelled, phase, clock, submitted, stamp, history, late>>

-----------------------------------------------------------------------------
(* main: the signal or the kill switch cancels the context, the main loop   *)
(* sees it and calls Stop, which closes the channel and waits.               *)

Cancel ==
    /\ Alive /\ ~cancelled /\ cancelled' = TRUE
    /\ UNCHANGED <<channel, inFlightSymbols, submitter, worker, phase, clock, submitted,
                   stamp, history, late>>

\* Fault: the channel stays open, and the workers wait on it.
Stop_NoClose ==
    /\ phase = "running" /\ cancelled
    /\ phase' = "stopping"
    /\ UNCHANGED <<channel, inFlightSymbols, submitter, worker, cancelled, clock, submitted,
                   stamp, history, late>>

Stop ==
    /\ phase = "running" /\ cancelled
    /\ phase' = "stopping" /\ closed' = TRUE
    /\ UNCHANGED <<orderCh, inFlightSymbols, submitter, worker, cancelled, clock, submitted,
                   stamp, history, late>>

\* wg.Wait returns, main returns, and the process is gone.
Exit ==
    /\ phase = "stopping" /\ \A w \in Workers : worker[w].pc = "done"
    /\ phase' = "exited"
    /\ UNCHANGED <<channel, inFlightSymbols, submitter, worker, cancelled, clock, submitted,
                   stamp, history, late>>

Tick ==
    /\ Alive /\ clock < MaxClock
    /\ clock' = clock + 1
    /\ late' = (late \/ \E o \in InFlight : clock + 1 - stamp[o] >= Window)
    /\ UNCHANGED <<channel, inFlightSymbols, submitter, worker, cancelled, phase, submitted,
                   stamp, history>>

Submit == (\E o \in Orders : SubmitGuard(o)) \/ SubmitSend \/ SubmitUndo

Work(w) == Receive(w) \/ Execute(w) \/ Notify(w) \/ Release(w) \/ WorkerExit(w)

Next ==
    \/ Submit
    \/ \E w \in Workers : Work(w)
    \/ Cancel
    \/ Stop
    \/ Exit
    \/ Tick

Spec == Init /\ [][Next]_vars

\* Go schedules every runnable goroutine; main leaves its select once the context is
\* done; a broker call returns.  Nothing makes a user cancel or a signal arrive.
Fairness ==
    /\ WF_vars(SubmitSend) /\ WF_vars(SubmitUndo)
    /\ \A w \in Workers : WF_vars(Work(w))
    /\ WF_vars(Stop) /\ WF_vars(Exit)

FairSpec == Spec /\ Fairness
-----------------------------------------------------------------------------
Steps == {"idle", "execute", "notify", "release", "done"}

\* Type invariant: in particular the queue never outgrows its capacity.
TypeOK ==
    /\ orderCh \in Seq(Orders) /\ Len(orderCh) <= QueueSize
    /\ closed \in BOOLEAN /\ cancelled \in BOOLEAN /\ late \in BOOLEAN
    /\ inFlightSymbols \in [Symbols -> Nat \cup {Absent}]
    /\ submitter \in [order : Orders \cup {None}, pc : {"idle", "send", "undo"}]
    /\ worker \in [Workers -> [order : Orders \cup {None}, pc : Steps]]
    /\ phase \in {"running", "stopping", "exited", "crashed"}
    /\ clock \in Nat
    /\ submitted \in SUBSET Orders /\ stamp \in [Orders -> Nat]
    /\ executed \in [Orders -> Nat] /\ notified \in [Orders -> Nat]

\* An entry of inFlightSymbols always has an order of its symbol behind it: no path
\* of Submit or executeOrder leaves a symbol blocked with nothing in flight.
NoPhantomKey ==
    \A s \in Symbols : inFlightSymbols[s] # Absent =>
        \E o \in InFlight : SymbolOf[o] = s

\* While no order stays in flight for the window, Submit keeps its word: no two
\* orders of one symbol are in flight together.
GuardHoldsWhilePrompt ==
    late \/ \A o1, o2 \in InFlight : SymbolOf[o1] = SymbolOf[o2] => o1 = o2

\* The dispatcher is an OrderDesk: the orders taken in are those past the send.
Desk == INSTANCE OrderDesk WITH
    accepted <- Queued \cup Held \cup {o \in Orders : notified[o] > 0}

ImplementsDesk == Desk!DeskSpec

\* An order put on the channel is answered by a callback, unless the process dies.
EveryOrderAnswered ==
    \A o \in Orders : (o \in Queued) ~> (notified[o] > 0 \/ phase = "crashed")

\* A cancelled context ends the process: no worker and no queue keeps main waiting.
ShutdownCompletes == cancelled ~> ~Alive
=============================================================================
