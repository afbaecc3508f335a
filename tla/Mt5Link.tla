------------------------------ MODULE Mt5Link ------------------------------
(***************************************************************************)
(* The command channel between the bot and the MetaTrader terminal:        *)
(* internal/broker/mt5/server.go (accept loop, one heartbeat goroutine per *)
(* connection, SendCommand, Close), the adapter's calls through it, and    *)
(* the part of the expert adviser (bridge/MT5_Bridge.mq5) that connects,   *)
(* executes and answers.  One step is one critical section of cmdMu, one   *)
(* channel or socket operation.  SendCommand holds cmdMu from its test of  *)
(* isCmdReady to its return, so `call' is both the call under way and the  *)
(* mutex; the short critical sections are single steps taken while it is   *)
(* free.  A command and its answer are lines that arrive whole.            *)
(***************************************************************************)
EXTENDS Naturals, Sequences

CONSTANTS
    Callers,    \* goroutines that use the adapter: workers, ticks, reconcile loop
    NoConn, NoCall,
    MaxConns, MaxReqs, MaxLinkFaults   \* bounds of the model

Conns == 1..MaxConns
Ping == 0                   \* the RequestID of every heartbeat
Orders == 1..MaxReqs

Calls == [by : Callers \cup Conns, req : Orders \cup {Ping}, conn : Conns]

ASSUME LinkAssumption ==
    /\ NoConn \notin Nat /\ NoCall \notin Callers \cup Nat \cup Calls
    /\ MaxConns \in Nat /\ MaxReqs \in Nat /\ MaxLinkFaults \in Nat

VARIABLES
    \* the server
    cmdConn, ready, closed, listening,
    closer,     \* where Close stands, and the connection it has read
    acceptor,   \* where the accept loop stands, and the connection it has in hand
    beat,       \* connection -> where its heartbeat goroutine stands
    call,       \* the SendCommand under way
    open,       \* connection -> the server's end of it is open
    \* the network and the terminal
    ea,         \* the connection the adviser holds
    backlog,    \* connections made and not accepted yet
    up,         \* connection -> not cut
    toEA, toServer,   \* connection -> lines under way
    conns, linkFaults,
    \* the callers
    want,       \* caller -> the command it is in, or NoCall
    issued,
    result,     \* command -> what the adapter returned for it
    executed    \* history: commands the terminal carried out

closeVars == <<closed, listening, closer>>
serverVars == <<cmdConn, ready, closeVars, acceptor, beat, call, open>>
eaVars == <<ea, backlog, up, toEA, toServer, conns, linkFaults>>
callerVars == <<want, issued, result, executed>>
linkVars == <<serverVars, eaVars, callerVars>>

Answer(req, kind) == [of |-> req, kind |-> kind]
Pending == Answer(Ping, "pending")
Failed == Answer(Ping, "error")

LinkInit ==
    /\ cmdConn = NoConn /\ ready = FALSE /\ closed = FALSE /\ listening = TRUE
    /\ closer = [at |-> "no", conn |-> NoConn]
    /\ acceptor = [at |-> "accept", conn |-> NoConn]
    /\ beat = [c \in Conns |-> "none"] /\ call = NoCall
    /\ open = [c \in Conns |-> FALSE]
    /\ ea = NoConn /\ backlog = <<>> /\ up = [c \in Conns |-> FALSE]
    /\ toEA = [c \in Conns |-> <<>>] /\ toServer = [c \in Conns |-> <<>>]
    /\ conns = 0 /\ linkFaults = 0
    /\ want = [p \in Callers |-> NoCall] /\ issued = 0
    /\ result = [r \in Orders |-> Pending] /\ executed = {}

Unlocked == call = NoCall
-----------------------------------------------------------------------------
(* The accept loop.                                                         *)

AcceptConn ==
    /\ acceptor.at = "accept" /\ listening /\ backlog # <<>>
    /\ acceptor' = [at |-> "install", conn |-> Head(backlog)]
    /\ backlog' = Tail(backlog)
    /\ open' = [open EXCEPT ![Head(backlog)] = TRUE]
    /\ UNCHANGED <<cmdConn, ready, closeVars, beat, call,
                   ea, up, toEA, toServer, conns, linkFaults, callerVars>>

\* Fault: the connection that is replaced is not closed.
Install_KeepsOld ==
    /\ acceptor.at = "install" /\ Unlocked
    /\ cmdConn' = acceptor.conn /\ ready' = TRUE
    /\ acceptor' = [acceptor EXCEPT !.at = "spawn"]
    /\ UNCHANGED <<open, closeVars, beat, call, eaVars, callerVars>>

\* The new connection replaces the current one, which is closed.
Install ==
    /\ acceptor.at = "install" /\ Unlocked
    /\ open' = [c \in Conns |-> open[c] /\ c # cmdConn]
    /\ cmdConn' = acceptor.conn /\ ready' = TRUE
    /\ acceptor' = [acceptor EXCEPT !.at = "spawn"]
    /\ UNCHANGED <<closeVars, beat, call, eaVars, callerVars>>

SpawnHeartbeat ==
    /\ acceptor.at = "spawn"
    /\ beat' = [beat EXCEPT ![acceptor.conn] = "wait"]
    /\ acceptor' = [at |-> "accept", conn |-> NoConn]
    /\ UNCHANGED <<cmdConn, ready, closeVars, call, open, eaVars, callerVars>>

AcceptFails ==
    /\ acceptor.at = "accept" /\ ~listening /\ closed
    /\ acceptor' = [at |-> "exit", conn |-> NoConn]
    /\ UNCHANGED <<cmdConn, ready, closeVars, beat, call, open, eaVars, callerVars>>

-----------------------------------------------------------------------------
(* SendCommand.  `by' is a caller or the connection whose heartbeat calls.  *)

\* What the caller makes of the outcome: the adapter's error or result, or the
\* heartbeat's decision to go on or to close.
Return(by, req, answer) ==
    IF by \in Callers
    THEN /\ result' = [result EXCEPT ![req] = answer]
         /\ want' = [want EXCEPT ![by] = NoCall]
         /\ UNCHANGED <<beat, issued, executed>>
    ELSE /\ beat' = [beat EXCEPT ![by] = IF answer.kind = "error" THEN "failed" ELSE "wait"]
         /\ UNCHANGED callerVars

\* isCmdReady and cmdConn are tested, the line is written and flushed; a write
\* to a connection the server has closed fails.
SendCommand(by, req) ==
    /\ Unlocked
    /\ \/ /\ ~ready \/ cmdConn = NoConn
          /\ Return(by, req, Failed)
          /\ UNCHANGED <<ready, call, toEA>>
       \/ /\ ready /\ cmdConn # NoConn /\ ~open[cmdConn]
          /\ ready' = FALSE
          /\ Return(by, req, Failed)
          /\ UNCHANGED <<call, toEA>>
       \/ /\ ready /\ cmdConn # NoConn /\ open[cmdConn]
          /\ call' = [by |-> by, req |-> req, conn |-> cmdConn]
          /\ toEA' = [toEA EXCEPT ![cmdConn] = IF up[cmdConn] THEN Append(@, req) ELSE @]
          /\ UNCHANGED <<ready, beat, callerVars>>
    /\ UNCHANGED <<cmdConn, closeVars, acceptor, open,
                   ea, backlog, up, toServer, conns, linkFaults>>

\* The next line is read; one that does not parse is an error, but leaves the
\* connection in use.
ReadAnswer ==
    /\ call # NoCall /\ open[call.conn] /\ toServer[call.conn] # <<>>
    /\ LET answer == Head(toServer[call.conn]) IN
          Return(call.by, call.req, IF answer.kind = "garbled" THEN Failed ELSE answer)
    /\ toServer' = [toServer EXCEPT ![call.conn] = Tail(@)]
    /\ call' = NoCall
    /\ UNCHANGED <<cmdConn, ready, closeVars, acceptor, open,
                   ea, backlog, up, toEA, conns, linkFaults>>

\* Fault: no deadline is set, so only a broken connection ends the read.
NothingComes_NoDeadline == ~up[call.conn] \/ ~open[call.conn]

\* Nothing will come: the connection is cut or closed, or the answer got lost.
NothingComes ==
    \/ ~up[call.conn] \/ ~open[call.conn]
    \/ toEA[call.conn] = <<>> /\ toServer[call.conn] = <<>>

\* Fault: a read that failed leaves the connection in use.
ReadFails_StaysReady ==
    /\ call # NoCall
    /\ NothingComes \/ linkFaults < MaxLinkFaults
    /\ linkFaults' = IF NothingComes THEN linkFaults ELSE linkFaults + 1
    /\ Return(call.by, call.req, Failed)
    /\ call' = NoCall
    /\ UNCHANGED <<ready, cmdConn, closeVars, acceptor, open,
                   ea, backlog, up, toEA, toServer, conns>>

\* The read ends with an error or at its deadline: the connection is not used
\* again.  A deadline that passes while the terminal is only slow is a fault.
ReadFails ==
    /\ call # NoCall
    /\ NothingComes \/ linkFaults < MaxLinkFaults
    /\ linkFaults' = IF NothingComes THEN linkFaults ELSE linkFaults + 1
    /\ ready' = FALSE
    /\ Return(call.by, call.req, Failed)
    /\ call' = NoCall
    /\ UNCHANGED <<cmdConn, closeVars, acceptor, open,
                   ea, backlog, up, toEA, toServer, conns>>

\* An adapter method begins: a command with the next RequestID.
Request(p) ==
    /\ want[p] = NoCall /\ issued < MaxReqs
    /\ issued' = issued + 1 /\ want' = [want EXCEPT ![p] = issued + 1]
    /\ UNCHANGED <<serverVars, eaVars, result, executed>>

Call(p) ==
    /\ want[p] # NoCall
    /\ SendCommand(p, want[p])

-----------------------------------------------------------------------------
(* The heartbeat of connection c, and Close.                                *)

HeartbeatTick(c) ==
    /\ beat[c] = "wait" /\ (closed \/ Unlocked)
    /\ beat' = [beat EXCEPT ![c] = IF closed \/ cmdConn # c THEN "gone" ELSE "ping"]
    /\ UNCHANGED <<cmdConn, ready, closeVars, acceptor, call, open, eaVars, callerVars>>

HeartbeatPing(c) ==
    /\ beat[c] = "ping"
    /\ SendCommand(c, Ping)

\* Fault: the connection whose ping failed is left open.
HeartbeatCloses_KeepsOpen(c) ==
    /\ beat[c] = "failed" /\ Unlocked
    /\ beat' = [beat EXCEPT ![c] = "gone"]
    /\ IF cmdConn = c THEN cmdConn' = NoConn /\ ready' = FALSE
                      ELSE UNCHANGED <<cmdConn, ready>>
    /\ UNCHANGED <<closeVars, acceptor, call, open, eaVars, callerVars>>

HeartbeatCloses(c) ==
    /\ beat[c] = "failed" /\ Unlocked
    /\ beat' = [beat EXCEPT ![c] = "gone"]
    /\ IF cmdConn = c
       THEN /\ open' = [open EXCEPT ![c] = FALSE]
            /\ cmdConn' = NoConn /\ ready' = FALSE
       ELSE UNCHANGED <<open, cmdConn, ready>>
    /\ UNCHANGED <<closeVars, acceptor, call, eaVars, callerVars>>

\* Close wins the CompareAndSwap, and takes the bridge out of use.
CloseBegins ==
    /\ closer.at = "no"
    /\ closed' = TRUE /\ closer' = [closer EXCEPT !.at = "unready"]
    /\ UNCHANGED <<listening, cmdConn, ready, acceptor, beat, call, open, eaVars, callerVars>>

CloseUnready ==
    /\ closer.at = "unready"
    /\ ready' = FALSE /\ closer' = [closer EXCEPT !.at = "test"]
    /\ UNCHANGED <<closed, listening, cmdConn, acceptor, beat, call, open, eaVars, callerVars>>

\* Close takes no lock: the connection it finds may be replaced or dropped meanwhile.
CloseTests ==
    /\ closer.at = "test"
    /\ closer' = [at |-> IF cmdConn = NoConn THEN "listener" ELSE "conn", conn |-> cmdConn]
    /\ UNCHANGED <<closed, listening, cmdConn, ready, acceptor, beat, call, open,
                   eaVars, callerVars>>

\* The field is read a second time or not, as it was compiled; one that has become
\* nil in between panics or makes the call fail.
CloseConn ==
    /\ closer.at = "conn"
    /\ \E c \in {closer.conn, cmdConn} :
          /\ open' = [d \in Conns |-> open[d] /\ d # c]
          /\ \E at \in {"listener"} \cup (IF c = NoConn THEN {"crashed"} ELSE {}) :
                closer' = [at |-> at, conn |-> NoConn]
    /\ UNCHANGED <<closed, listening, cmdConn, ready, acceptor, beat, call, eaVars, callerVars>>

CloseListener ==
    /\ closer.at = "listener"
    /\ listening' = FALSE /\ closer' = [closer EXCEPT !.at = "done"]
    /\ UNCHANGED <<closed, cmdConn, ready, acceptor, beat, call, open, eaVars, callerVars>>

-----------------------------------------------------------------------------
(* The expert adviser's timer, and the network.                             *)

\* Connections the adviser sees as connected: not cut, and not closed by the server.
Connected == {c \in Conns : up[c] /\ (open[c] \/ \E i \in DOMAIN backlog : backlog[i] = c)}

\* EnsureConnections: without a live socket, drop the old one and connect anew.
EnsureConnections ==
    /\ ea \notin Connected
    /\ IF listening /\ conns < MaxConns
       THEN /\ conns' = conns + 1 /\ ea' = conns + 1
            /\ backlog' = Append(backlog, conns + 1)
            /\ up' = [c \in Conns |-> c = conns + 1 \/ (up[c] /\ c # ea)]
       ELSE /\ ea # NoConn /\ ea' = NoConn
            /\ up' = [c \in Conns |-> up[c] /\ c # ea]
            /\ UNCHANGED <<conns, backlog>>
    /\ UNCHANGED <<toEA, toServer, linkFaults, serverVars, callerVars>>

\* OnTimer: one command line is carried out and answered; an answer may be
\* garbled or lost on the way.
ServeCommand ==
    /\ ea # NoConn /\ up[ea] /\ toEA[ea] # <<>>
    /\ LET req == Head(toEA[ea])
           Sent(answers) == toServer' = [toServer EXCEPT ![ea] = @ \o answers] IN
          /\ executed' = IF req \in Orders THEN executed \cup {req} ELSE executed
          /\ \/ Sent(<<Answer(req, "done")>>) /\ UNCHANGED linkFaults
             \/ /\ linkFaults < MaxLinkFaults /\ linkFaults' = linkFaults + 1
                /\ Sent(<<Answer(req, "garbled")>>) \/ Sent(<<>>)
    /\ toEA' = [toEA EXCEPT ![ea] = Tail(@)]
    /\ UNCHANGED <<serverVars, ea, backlog, up, conns, want, issued, result>>

\* The connection breaks, or the terminal goes down and comes back.
Cut ==
    /\ ea # NoConn /\ up[ea] /\ linkFaults < MaxLinkFaults
    /\ linkFaults' = linkFaults + 1
    /\ up' = [up EXCEPT ![ea] = FALSE]
    /\ toEA' = [toEA EXCEPT ![ea] = <<>>]
    /\ UNCHANGED <<serverVars, ea, backlog, toServer, conns, callerVars>>

-----------------------------------------------------------------------------
Accept == AcceptConn \/ Install \/ SpawnHeartbeat \/ AcceptFails
Heartbeat(c) == HeartbeatTick(c) \/ HeartbeatPing(c) \/ HeartbeatCloses(c)

Close == CloseBegins \/ CloseUnready \/ CloseTests \/ CloseConn \/ CloseListener

\* A panic in Close ends the process, and the model.
Alive == closer.at # "crashed"

LinkNext ==
    /\ Alive
    /\ \/ Accept
       \/ \E c \in Conns : Heartbeat(c)
       \/ \E p \in Callers : Request(p) \/ Call(p)
       \/ ReadAnswer \/ ReadFails
       \/ Close
       \/ EnsureConnections \/ ServeCommand \/ Cut

LinkSpec == LinkInit /\ [][LinkNext]_linkVars

\* Goroutines run, the adviser's timer fires, a read ends by its deadline; a
\* goroutine that waits for cmdMu gets it (sync.Mutex starves nobody).  Nothing is
\* asked of Close, which may stand still between any two of its steps.
LinkFairness ==
    /\ WF_linkVars(Alive /\ AcceptConn) /\ SF_linkVars(Alive /\ Install)
    /\ WF_linkVars(Alive /\ SpawnHeartbeat)
    /\ \A c \in Conns : SF_linkVars(Alive /\ Heartbeat(c))
    /\ \A p \in Callers : SF_linkVars(Alive /\ Call(p))
    /\ WF_linkVars(Alive /\ ReadAnswer)
    /\ WF_linkVars(Alive /\ ReadFails /\ linkFaults' = linkFaults)
    /\ WF_linkVars(Alive /\ EnsureConnections) /\ WF_linkVars(Alive /\ ServeCommand)

FairLinkSpec == LinkSpec /\ LinkFairness
-----------------------------------------------------------------------------
Answers == [of : Orders \cup {Ping}, kind : {"done", "garbled", "error", "pending"}]

CloseStages == {"no", "unready", "test", "conn", "listener", "done", "crashed"}

\* Type invariant: with it, that a connection never carries two lines at once
\* although callers and heartbeats share it.
LinkTypeOK ==
    /\ cmdConn \in Conns \cup {NoConn} /\ {ready, closed, listening} \subseteq BOOLEAN
    /\ closer \in [at : CloseStages, conn : Conns \cup {NoConn}]
    /\ acceptor \in [at : {"accept", "install", "spawn", "exit"}, conn : Conns \cup {NoConn}]
    /\ beat \in [Conns -> {"none", "wait", "ping", "failed", "gone"}]
    /\ call \in Calls \cup {NoCall}
    /\ open \in [Conns -> BOOLEAN] /\ up \in [Conns -> BOOLEAN]
    /\ ea \in Conns \cup {NoConn} /\ conns \in 0..MaxConns /\ linkFaults \in 0..MaxLinkFaults
    /\ want \in [Callers -> Orders \cup {NoCall}] /\ issued \in 0..MaxReqs
    /\ executed \subseteq Orders
    /\ \A c \in Conns :
          /\ toEA[c] \in Seq(Orders \cup {Ping}) /\ toServer[c] \in Seq(Answers)
          /\ Len(toEA[c]) + Len(toServer[c]) <= 1

\* The answer the adapter returns for a command is that command's own and the
\* terminal did carry it out, whatever timed out, broke or came late before it;
\* RequestID is never compared, the connection's retirement alone ensures it.
AnswersMatch ==
    \A r \in Orders :
       result[r].kind = "done" => result[r].of = r /\ r \in executed

\* A connection that has been in use and is not the current one is closed: no
\* heartbeat, replacement or Close leaves one behind.
OnlyCurrentOpen ==
    \A c \in Conns : open[c] => c = cmdConn \/ (c = acceptor.conn /\ acceptor.at = "install")

\* However a connection broke, went silent or lost an answer, the bridge is in
\* use again, unless the server is closed: the heartbeat closes the connection
\* SendCommand has given up, and the adviser connects anew.
Recovers == []<>(ready \/ closed)

\* No caller waits for ever for cmdMu or for an answer, unless a panic in Close ends
\* the process.
CallsReturn == \A p \in Callers : want[p] # NoCall ~> want[p] = NoCall \/ ~Alive
=============================================================================
