------------------------------ MODULE Journal ------------------------------
(***************************************************************************)
(* What the bot keeps across restarts: the completed trades in memory and  *)
(* in trade_history.json, the day's figures and the user's lots in         *)
(* daily_state.json.  internal/storage/store.go, recordCompletedTrade, the *)
(* history merge, the lot handlers and the start-up of cmd/bot/main.go.    *)
(*                                                                         *)
(* The recorder is the goroutine that calls recordCompletedTrade: the tick *)
(* goroutine in paper mode, the reconcile loop in live mode.  os.WriteFile *)
(* truncates before it writes, so a crash at a write may leave a file that *)
(* does not parse.  The day's figures are reduced to the breaker.          *)
(***************************************************************************)
EXTENDS Integers, Sequences, FiniteSets, SequencesExt

CONSTANTS
    Tickets,
    Lots,          \* lots a user may set
    NoLot, NoTrade, Torn, NoFile,
    DayLength,     \* units of the clock in a day
    Retention,     \* seven days, in units of the clock
    Cap,           \* 500 trades
    MaxClock, MaxCrashes, MaxSets, MaxDeals   \* bounds of the model

Day(time) == time \div DayLength
Trades == [ticket : Tickets, time : 0..MaxClock]
Days == 0..Day(MaxClock)
States == [date : Days, halted : BOOLEAN, lot : Lots \cup {NoLot}]

ASSUME JournalAssumption ==
    /\ NoLot \notin Lots /\ Torn \notin States \cup Seq(Trades) /\ NoFile \notin States
    /\ DayLength \in Nat \ {0} /\ Retention \in Nat /\ Cap \in Nat \ {0}
    /\ {MaxClock, MaxCrashes, MaxSets, MaxDeals} \subseteq Nat

VARIABLES
    live,       \* the MT5 adapter is in use
    clock,
    running,
    \* memory
    history,    \* completedTrades
    halted,     \* circuitOpen
    resetDay,   \* the manager's lastResetDay
    lot,        \* activeUserLot
    rec,        \* the recorder: where it stands, its trade, the figures it has read
    setter,     \* a lot handler: where it stands, its lot, the figures it has read
    \* files
    trades,     \* trade_history.json: Seq of trades, or Torn
    state,      \* daily_state.json, or Torn, or NoFile
    \* the positions and the terminal
    tracked,    \* positions not closed yet, as far as the tracker knows
    deals,      \* the terminal's closing deals, in order
    crashes, sets,   \* counters of the bounds
    saved,      \* history: the last Cap trades SaveTrade has stored since the file was torn
    savedLot    \* history: the lot a handler stored last, NoLot once the file is torn

memory == <<history, halted, resetDay, lot, rec, setter>>
files == <<trades, state, saved, savedLot>>
world == <<live, tracked, deals>>
process == <<clock, running, crashes, sets>>
vars == <<memory, files, world, process>>

Recent(trade) == trade.time > clock - Retention

\* The entries of s at the indices I, in order.
Entries(s, I) ==
    LET kept[i \in 0..Len(s)] ==
            IF i = 0 THEN <<>> ELSE IF i \in I THEN Append(kept[i - 1], s[i]) ELSE kept[i - 1]
    IN kept[Len(s)]

\* The trades not older than the retention.
RecentOf(s) == Entries(s, {i \in DOMAIN s : Recent(s[i])})

Last_n(s, n) == SubSeq(s, IF Len(s) > n THEN Len(s) - n + 1 ELSE 1, Len(s))
Idle == [at |-> "idle", trade |-> NoTrade, halted |-> FALSE, day |-> 0]
NotSetting == [at |-> "idle", lot |-> NoLot, halted |-> FALSE, day |-> 0]
Has(s, ticket) == \E i \in DOMAIN s : s[i].ticket = ticket

Init ==
    /\ live \in BOOLEAN /\ clock = 0 /\ running = TRUE
    /\ history = <<>> /\ halted = FALSE /\ resetDay = 0 /\ lot = NoLot
    /\ rec = Idle /\ setter = NotSetting
    /\ trades = <<>> /\ state = NoFile
    /\ tracked = Tickets /\ deals = <<>> /\ crashes = 0 /\ sets = 0
    /\ saved = <<>> /\ savedLot = NoLot

-----------------------------------------------------------------------------
(* The recorder.                                                            *)

\* Paper: a close event is settled; its loss may open the breaker.
TrackerCloses(t) ==
    /\ running /\ ~live /\ rec = Idle /\ t \in tracked
    /\ tracked' = tracked \ {t}
    /\ halted' \in {halted, TRUE}
    /\ rec' = [Idle EXCEPT !.at = "append", !.trade = [ticket |-> t, time |-> clock]]
    /\ UNCHANGED <<live, deals, history, resetDay, lot, setter, files, process>>

\* Live: the reconcile loop misses a tracked position in the terminal's list.
FindsGone(t) ==
    /\ running /\ live /\ rec = Idle /\ t \in tracked /\ Has(deals, t)
    /\ tracked' = tracked \ {t}
    /\ rec' = [Idle EXCEPT !.at = "append", !.trade = [ticket |-> t, time |-> clock]]
    /\ UNCHANGED <<live, deals, history, halted, resetDay, lot, setter, files, process>>

\* recordCompletedTrade takes the trade for a duplicate: its ticket is known, or a
\* trade closed within three seconds made nearly the same profit.
SkipDuplicate ==
    /\ rec.at = "append"
    /\ \E i \in DOMAIN history :
          history[i].ticket = rec.trade.ticket \/ history[i].time = rec.trade.time
    /\ rec' = Idle
    /\ UNCHANGED <<history, halted, resetDay, lot, setter, files, world, process>>

AppendTrade ==
    /\ rec.at = "append" /\ ~Has(history, rec.trade.ticket)
    /\ history' = Last_n(Append(history, rec.trade), Cap)
    /\ rec' = [rec EXCEPT !.at = "trade"]
    /\ UNCHANGED <<halted, resetDay, lot, setter, files, world, process>>

Stored == IF trades = Torn THEN <<>> ELSE trades

\* Fault: the cap is forgotten.
SaveTrade_NoCap ==
    /\ rec.at = "trade"
    /\ trades' = Append(RecentOf(Stored), rec.trade)
    /\ saved' = IF trades = Torn THEN <<rec.trade>> ELSE Last_n(Append(saved, rec.trade), Cap)
    /\ rec' = [rec EXCEPT !.at = "figures"]
    /\ UNCHANGED <<history, halted, resetDay, lot, setter, state, savedLot, world, process>>

\* Fault: the cap keeps the oldest trades.
SaveTrade_KeepsOldest ==
    /\ rec.at = "trade"
    /\ LET all == Append(RecentOf(Stored), rec.trade) IN
          trades' = SubSeq(all, 1, IF Len(all) > Cap THEN Cap ELSE Len(all))
    /\ saved' = IF trades = Torn THEN <<rec.trade>> ELSE Last_n(Append(saved, rec.trade), Cap)
    /\ rec' = [rec EXCEPT !.at = "figures"]
    /\ UNCHANGED <<history, halted, resetDay, lot, setter, state, savedLot, world, process>>

\* SaveTrade: a ticket the file has is left alone; else the recent trades and the new
\* one, the last Cap of them.
SaveTrade ==
    /\ rec.at = "trade"
    /\ IF Has(Stored, rec.trade.ticket) THEN UNCHANGED <<trades, saved>>
       ELSE /\ trades' = Last_n(Append(RecentOf(Stored), rec.trade), Cap)
            /\ saved' = IF trades = Torn THEN <<rec.trade>> ELSE Last_n(Append(saved, rec.trade), Cap)
    /\ rec' = [rec EXCEPT !.at = "figures"]
    /\ UNCHANGED <<history, halted, resetDay, lot, setter, state, savedLot, world, process>>

ReadFigures ==
    /\ rec.at = "figures"
    /\ rec' = [rec EXCEPT !.at = "state", !.halted = halted, !.day = Day(clock)]
    /\ UNCHANGED <<history, halted, resetDay, lot, setter, files, world, process>>

\* Fault: a save that names no lot leaves none.
WithLot_Dropped(given) == given

\* SaveDailyState: a lot not supplied is taken over from the file.
WithLot(given) ==
    IF given = NoLot /\ state \notin {Torn, NoFile} THEN state.lot ELSE given

SaveFigures ==
    /\ rec.at = "state"
    /\ state' = [date |-> rec.day, halted |-> rec.halted, lot |-> WithLot(NoLot)]
    /\ rec' = Idle
    /\ UNCHANGED <<history, halted, resetDay, lot, setter, trades, saved, savedLot, world, process>>

\* s put in the order of its times; sort.Slice leaves the order of equal times open.
Arrangements(s) ==
    {t \in {[i \in DOMAIN s |-> s[p[i]]] : p \in Bijection(DOMAIN s, DOMAIN s)} :
        \A i, j \in DOMAIN s : i < j => t[i].time <= t[j].time}

\* The last deal of a ticket.
LastOf(s, ticket) ==
    s[CHOOSE i \in DOMAIN s :
        s[i].ticket = ticket /\ \A j \in DOMAIN s : s[j].ticket = ticket => j <= i]

\* The terminal's recent deals are merged into memory: a known ticket's last entry is
\* replaced by the ticket's last deal, the others are added; then all are sorted.
MergeHistory ==
    /\ running /\ live /\ rec = Idle /\ deals # <<>>
    /\ LET new == RecentOf(deals)
           IsLast(i) == \A j \in DOMAIN history : history[j].ticket = history[i].ticket => j <= i
           merged == [i \in DOMAIN history |->
               IF IsLast(i) /\ Has(new, history[i].ticket) THEN LastOf(new, history[i].ticket)
               ELSE history[i]]
           unknown == {i \in DOMAIN new : ~Has(history, new[i].ticket)} IN
       history' \in Arrangements(merged \o Entries(new, unknown))
    /\ history' # history
    /\ UNCHANGED <<halted, resetDay, lot, rec, setter, files, world, process>>

-----------------------------------------------------------------------------
(* The lot handlers (web, Telegram) and the consumer's daily reset.         *)

SetLot(l) ==
    /\ running /\ setter = NotSetting /\ sets < MaxSets
    /\ sets' = sets + 1
    /\ lot' = l
    /\ setter' = [NotSetting EXCEPT !.at = "figures", !.lot = l]
    /\ UNCHANGED <<history, halted, resetDay, rec, files, world, clock, running, crashes>>

ReadForLot ==
    /\ setter.at = "figures"
    /\ setter' = [setter EXCEPT !.at = "state", !.halted = halted, !.day = Day(clock)]
    /\ UNCHANGED <<history, halted, resetDay, lot, rec, files, world, process>>

SaveLot ==
    /\ setter.at = "state"
    /\ state' = [date |-> setter.day, halted |-> setter.halted, lot |-> WithLot(setter.lot)]
    /\ savedLot' = setter.lot
    /\ setter' = NotSetting
    /\ UNCHANGED <<history, halted, resetDay, lot, rec, trades, saved, world, process>>

DailyReset ==
    /\ running /\ resetDay # Day(clock)
    /\ resetDay' = Day(clock) /\ halted' = FALSE
    /\ UNCHANGED <<history, lot, rec, setter, files, world, process>>

-----------------------------------------------------------------------------
(* Crash and start-up.                                                      *)

\* The process ends anywhere; a file being written may be left truncated.
Crash ==
    /\ running /\ crashes < MaxCrashes
    /\ running' = FALSE /\ crashes' = crashes + 1
    /\ trades' \in {trades} \cup (IF rec.at = "trade" THEN {Torn} ELSE {})
    /\ state' \in {state} \cup (IF "state" \in {rec.at, setter.at} THEN {Torn} ELSE {})
    /\ saved' = IF trades' = Torn THEN <<>> ELSE saved
    /\ savedLot' = IF state' = Torn THEN NoLot ELSE savedLot
    /\ history' = <<>> /\ halted' = FALSE /\ resetDay' = 0 /\ lot' = NoLot
    /\ rec' = Idle /\ setter' = NotSetting
    /\ UNCHANGED <<world, clock, sets>>

\* A file that is missing or does not parse counts as empty.
LoadTrades == RecentOf(Stored)

\* Another day's state counts as none, its lots too.
LoadDailyState ==
    IF state \notin {Torn, NoFile} /\ state.date = Day(clock) THEN state
    ELSE [date |-> Day(clock), halted |-> FALSE, lot |-> NoLot]

\* In live mode the tracker learns of the positions the terminal still lists.
Restart ==
    /\ ~running /\ running' = TRUE
    /\ history' = LoadTrades
    /\ halted' = LoadDailyState.halted /\ lot' = LoadDailyState.lot
    /\ resetDay' = Day(clock)
    /\ tracked' = IF live THEN {t \in Tickets : ~Has(deals, t)} ELSE tracked
    /\ UNCHANGED <<rec, setter, files, live, deals, clock, crashes, sets>>

\* A position closes at the terminal, in one deal or in two.
TerminalCloses(t) ==
    /\ live /\ ~Has(deals, t)
    /\ LET deal == [ticket |-> t, time |-> clock] IN
          deals' \in {Append(deals, deal), deals \o <<deal, deal>>}
    /\ Len(deals') <= MaxDeals
    /\ UNCHANGED <<live, tracked, memory, files, process>>

Pass ==
    /\ clock < MaxClock /\ clock' = clock + 1
    /\ UNCHANGED <<memory, files, world, running, crashes, sets>>

Record == SkipDuplicate \/ AppendTrade \/ SaveTrade \/ ReadFigures \/ SaveFigures

Next ==
    \/ \E t \in Tickets : TrackerCloses(t) \/ FindsGone(t) \/ TerminalCloses(t)
    \/ Record
    \/ MergeHistory
    \/ \E l \in Lots : SetLot(l)
    \/ ReadForLot \/ SaveLot
    \/ DailyReset
    \/ Crash \/ Restart \/ Pass

Spec == Init /\ [][Next]_vars
-----------------------------------------------------------------------------
\* Type invariant; with it, that the file never holds more than Cap trades.
TypeOK ==
    /\ live \in BOOLEAN /\ clock \in 0..MaxClock /\ running \in BOOLEAN
    /\ history \in Seq(Trades) /\ halted \in BOOLEAN /\ resetDay \in Days
    /\ lot \in Lots \cup {NoLot}
    /\ rec \in [at : {"idle", "append", "trade", "figures", "state"},
                trade : Trades \cup {NoTrade}, halted : BOOLEAN, day : Days]
    /\ setter \in [at : {"idle", "figures", "state"}, lot : Lots \cup {NoLot},
                   halted : BOOLEAN, day : Days]
    /\ trades = Torn \/ (trades \in Seq(Trades) /\ Len(trades) <= Cap)
    /\ state \in {Torn, NoFile} \cup States
    /\ tracked \subseteq Tickets /\ deals \in Seq(Trades) /\ crashes \in 0..MaxCrashes
    /\ sets \in 0..MaxSets

\* A trade once saved stays in the file, whatever is recorded, merged, restarted or
\* left half done afterwards, until it is older than the retention, Cap newer ones are
\* saved or a write is cut short; and no ticket is in the file twice, although the
\* history in memory loses, doubles and reorders trades.
Durable ==
    trades # Torn =>
        /\ \A i \in DOMAIN saved : Recent(saved[i]) => Has(trades, saved[i].ticket)
        /\ \A i, j \in DOMAIN trades : trades[i].ticket = trades[j].ticket => i = j

\* The lots a user set and a handler saved stay in the file: the saves of every closed
\* trade, which name no lots, never wipe them, on any day and after any restart.
LotKept == state \notin {Torn, NoFile} => state.lot = savedLot
=============================================================================
