--------------------------- MODULE PaperPipeline ---------------------------
(***************************************************************************)
(* cmd/bot/main.go in paper mode: how the signal consumer, the dispatcher's *)
(* workers, their fill callback and the tick goroutine share the risk      *)
(* manager.  The dispatcher is reduced to the orders it has in flight (an  *)
(* OrderDesk, which Dispatcher implements) and the tracker to the number   *)
(* of its positions of each symbol; both are modelled in full elsewhere.   *)
(* Spreads, ATR and lots are within their limits here.                      *)
(***************************************************************************)
EXTENDS RiskManager, FiniteSets

CONSTANTS
    Results,     \* results of a position
    Prompt,      \* an order is dealt with before its in-flight entry (5 s) and the
                 \* spacing of its symbol (90 s) run out
    MaxOrders, MaxResult, LastDay   \* bounds of the model

ASSUME PipelineAssumption ==
    /\ Results \subseteq Int /\ Prompt \in BOOLEAN
    /\ MaxOrders \in Nat /\ MaxResult \in Nat /\ LastDay \in Nat

VARIABLES
    spaced,    \* symbols with an entry in lastOrderTime younger than 90 s
    flight,    \* symbol -> orders accepted by the dispatcher and not filled yet
    adding,    \* symbol -> fills counted by the risk manager, not tracked yet
    open,      \* symbol -> positions in the tracker
    closing,   \* symbol -> close events the tick goroutine has not settled yet
    accepted,  \* history: orders the dispatcher accepted
    late       \* history: those it accepted since the breaker opened

deskVars == <<spaced, flight, adding, open, closing, accepted, late>>
vars == <<riskVars, deskVars>>

PipelineInit ==
    /\ RiskInit
    /\ spaced = {} /\ accepted = 0 /\ late = 0
    /\ flight = NoPositions /\ adding = NoPositions
    /\ open = NoPositions /\ closing = NoPositions

Plus(counts, sym, n) == [counts EXCEPT ![sym] = @ + n]

\* The breaker's closing (the next day) ends the count of late orders.
CountLate(n) == late' = IF circuitOpen' THEN late + n ELSE 0

-----------------------------------------------------------------------------
\* Fault: the order spacing is not tested.
Consider_NoSpacing(sym) ==
    /\ Evaluate(sym, utcDay, TRUE, 0, TRUE, cfg.minLot)
    /\ CountLate(0)
    /\ UNCHANGED <<spaced, flight, adding, open, closing, accepted>>

\* The consumer takes a signal: the order spacing, then the risk manager.
Consider(sym) ==
    /\ sym \notin spaced
    /\ Evaluate(sym, utcDay, TRUE, 0, TRUE, cfg.minLot)
    /\ CountLate(0)
    /\ UNCHANGED <<spaced, flight, adding, open, closing, accepted>>

Scale == ScaleByConfidence(FALSE, 0) /\ UNCHANGED deskVars

\* A later gate (margin) or the dispatcher (symbol in flight, queue full) refuses.
Drop == TakeOrder /\ UNCHANGED deskVars

Submit ==
    /\ TakeOrder /\ accepted < MaxOrders
    /\ Prompt => flight[order.symbol] + adding[order.symbol] = 0
    /\ flight' = Plus(flight, order.symbol, 1)
    /\ spaced' = spaced \cup {order.symbol}
    /\ accepted' = accepted + 1
    /\ CountLate(1)
    /\ UNCHANGED <<adding, open, closing>>

\* The broker rejects the order, or fills it: the fill callback counts it and then
\* gives it to the tracker.
Reject(sym) ==
    /\ flight[sym] > 0
    /\ flight' = Plus(flight, sym, -1)
    /\ UNCHANGED <<riskVars, spaced, adding, open, closing, accepted, late>>

Fill(sym) ==
    /\ flight[sym] > 0
    /\ RecordFillForSymbol(sym)
    /\ flight' = Plus(flight, sym, -1) /\ adding' = Plus(adding, sym, 1)
    /\ UNCHANGED <<spaced, open, closing, accepted, late>>

Track(sym) ==
    /\ adding[sym] > 0
    /\ adding' = Plus(adding, sym, -1) /\ open' = Plus(open, sym, 1)
    /\ UNCHANGED <<riskVars, spaced, flight, closing, accepted, late>>

\* A tick closes n positions of its symbol; the tick goroutine then settles them.
TickCloses(sym) ==
    /\ closing = NoPositions
    /\ \E n \in 1..open[sym] :
          open' = Plus(open, sym, -n) /\ closing' = Plus(closing, sym, n)
    /\ UNCHANGED <<riskVars, spaced, flight, adding, accepted, late>>

SettleClose(sym, pnl) ==
    /\ closing[sym] > 0 /\ dailyPnL + pnl \in -MaxResult..MaxResult
    /\ RecordClose(pnl)
    /\ closing' = Plus(closing, sym, -1)
    /\ CountLate(0)
    /\ UNCHANGED <<spaced, flight, adding, open, accepted>>

\* Environment: 90 seconds have passed since the last order of sym.
SpacingOver(sym) ==
    /\ sym \in spaced
    /\ Prompt => flight[sym] + adding[sym] = 0
    /\ spaced' = spaced \ {sym}
    /\ UNCHANGED <<riskVars, flight, adding, open, closing, accepted, late>>

NextDay == utcDay < LastDay /\ Midnight /\ UNCHANGED deskVars

PipelineNext ==
    \/ \E sym \in Symbols :
          \/ Consider(sym)
          \/ Fill(sym) \/ Reject(sym) \/ Track(sym)
          \/ TickCloses(sym)
          \/ \E pnl \in Results : SettleClose(sym, pnl)
          \/ SpacingOver(sym)
    \/ Scale
    \/ Drop
    \/ Submit
    \/ NextDay

PipelineSpec == PipelineInit /\ [][PipelineNext]_vars
-----------------------------------------------------------------------------
\* The positions of sym the risk manager ought to count.
Held(sym) == adding[sym] + open[sym] + closing[sym]

\* All of them, each as its symbol and its number among that symbol's.
Positions == UNION {{sym} \X (1..Held(sym)) : sym \in Symbols}

\* The risk manager's total is the number of positions filled and not settled, in
\* every interleaving of fill callbacks, ticks and settlements.
TotalAgrees == openPositions = Cardinality(Positions)

\* "Strict Anti-Stacking": a symbol never has more positions, orders under way
\* included, than MaxPositionsPerSymbol, although the risk manager is asked before
\* the fill is counted; the order spacing closes that window.
NoStacking == \A sym \in Symbols : flight[sym] + Held(sym) <= cfg.maxPerSymbol

\* Once the breaker is open the dispatcher accepts one more order at the most, the
\* one the consumer had had approved when the loss was booked.
AtMostOneLateOrder == late <= 1

\* symbolPositions: "Position count per clean symbol".
SlotsAgree == \A sym \in Symbols : symbolPositions[sym] = Held(sym)
=============================================================================
