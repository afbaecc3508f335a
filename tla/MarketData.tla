----------------------------- MODULE MarketData -----------------------------
(***************************************************************************)
(* The data structures every tick goes through: ring buffers, the candle   *)
(* builder of the aggregators and the one of the multi-timeframe manager.  *)
(* internal/marketdata, internal/risk/velocity_filter.go and the candle    *)
(* rings of internal/strategy/momentum.go.                                 *)
(*                                                                         *)
(* A tick is [time, mid].  Volumes count half ticks, since a tick without  *)
(* a direction counts half for the buyers and half for the sellers.        *)
(***************************************************************************)
EXTENDS Integers, Sequences, SequencesExt, FiniteSetsExt

\* ---- Ring buffers.

NewRing(size, zero) == [size |-> size, slots |-> [i \in 0..(size - 1) |-> zero], head |-> 0, count |-> 0]

\* Fault: a full ring restarts its count.
Push_Restarts(ring, x) ==
    [ring EXCEPT !.slots[ring.head] = x, !.head = (ring.head + 1) % ring.size,
                 !.count = IF @ < ring.size THEN @ + 1 ELSE 1]

Push(ring, x) ==
    [ring EXCEPT !.slots[ring.head] = x, !.head = (ring.head + 1) % ring.size,
                 !.count = IF @ < ring.size THEN @ + 1 ELSE @]

\* The k-th newest entry.
Back(ring, k) == ring.slots[(ring.head - k + ring.size) % ring.size]

\* Latest: the last n entries, oldest first.
Latest(ring, n) ==
    LET m == IF n > ring.count THEN ring.count ELSE n
        start == (ring.head - m + ring.size) % ring.size IN
    [i \in 1..m |-> ring.slots[(start + i - 1) % ring.size]]

\* TickVelocityFilter.OnTick.
Stamp(ring, tick) == Push(ring, tick.time)

\* CurrentTPS: the walk back through the timestamps stops at the first one before cutoff.
InWindow(ring, cutoff) ==
    IF ring.count < 2 THEN 0
    ELSE Max({n \in 0..ring.count : \A k \in 1..n : Back(ring, k) >= cutoff})

\* The extremes of the last candles of the strategy's rings, 0 for none.
SwingHigh(ring, lookback) ==
    LET n == Min({lookback, ring.count}) IN
    IF n = 0 THEN 0 ELSE Max({Back(ring, k).high : k \in 1..n})

SwingLow(ring, lookback) ==
    LET n == Min({lookback, ring.count}) IN
    IF n = 0 THEN 0 ELSE Min({Back(ring, k).low : k \in 1..n})

\* ---- OHLCVAggregator.

NoCandle == [open |-> 0, high |-> 0, low |-> 0, close |-> 0, ticks |-> 0, buy |-> 0, sell |-> 0, start |-> 0]

NewAggregator(period) ==
    [period |-> period, candle |-> NoCandle, hasData |-> FALSE, end |-> 0, mid |-> 0, direction |-> 0]

NewCandle(tick, period) ==
    [open |-> tick.mid, high |-> tick.mid, low |-> tick.mid, close |-> tick.mid,
     ticks |-> 1, buy |-> 0, sell |-> 0, start |-> (tick.time \div period) * period]

StartNewCandle(a, tick) ==
    LET c == NewCandle(tick, a.period) IN
    [a EXCEPT !.candle = c, !.end = c.start + a.period, !.hasData = TRUE, !.mid = tick.mid]

Stretch(c, mid) ==
    [c EXCEPT !.close = mid, !.high = Max({@, mid}), !.low = Min({@, mid})]

\* The tick rule: up is bought, down is sold, flat follows the last direction.
Direction(a, tick) ==
    IF tick.mid > a.mid THEN 1 ELSE IF tick.mid < a.mid THEN -1 ELSE a.direction

\* Fault: a tick before the current candle is left out of it.
Extend_DropsLate(a, tick) ==
    LET d == Direction(a, tick) IN
    IF tick.time < a.candle.start THEN a
    ELSE [a EXCEPT !.mid = tick.mid, !.direction = d,
              !.candle = [Stretch(@, tick.mid) EXCEPT !.ticks = @ + 1, !.buy = @ + 1 + d, !.sell = @ + 1 - d]]

Extend(a, tick) ==
    LET d == Direction(a, tick)
        c == Stretch(a.candle, tick.mid) IN
    [a EXCEPT !.mid = tick.mid, !.direction = d,
              !.candle = [c EXCEPT !.ticks = @ + 1, !.buy = @ + 1 + d, !.sell = @ + 1 - d]]

Closes(a, tick) == a.hasData /\ tick.time >= a.end

\* OHLCVAggregator.OnTick; the candle it emits when the tick closes one is Completed(a).
Aggregate(a, tick) ==
    IF ~a.hasData \/ Closes(a, tick) THEN StartNewCandle(a, tick) ELSE Extend(a, tick)

Completed(a) ==
    IF a.candle.buy + a.candle.sell = 0
    THEN [a.candle EXCEPT !.buy = a.candle.ticks, !.sell = a.candle.ticks]
    ELSE a.candle

\* ---- SymbolTimeframes: a candle ends with the first tick of any other period.

NewFrame(period) == [period |-> period, current |-> NoCandle, history |-> <<>>]

EndsCandle(f, tick) ==
    f.current # NoCandle /\ f.current.start # (tick.time \div f.period) * f.period

ProcessCandle(f, tick, maxHistory) ==
    LET closed == Append(f.history, f.current)
        n == Len(closed) IN
    CASE f.current = NoCandle -> [f EXCEPT !.current = NewCandle(tick, f.period)]
      [] EndsCandle(f, tick) ->
            [f EXCEPT !.current = NewCandle(tick, f.period),
                      !.history = SubSeq(closed, IF n > maxHistory THEN n - maxHistory + 1 ELSE 1, n)]
      [] OTHER -> [f EXCEPT !.current = Stretch(@, tick.mid)]

\* ---- Averages and trends.

NewEMA(period) == [period |-> period, count |-> 0, sum |-> 0, value |-> 0]

Smooth(old, x, period) == old + (2 * (x - old)) \div (period + 1)

\* EMA.Update: the mean of the first values, then smoothed.
UpdateEMA(e, x) ==
    IF e.count < e.period
    THEN [e EXCEPT !.count = @ + 1, !.sum = @ + x,
                   !.value = IF e.count + 1 = e.period THEN (e.sum + x) \div e.period ELSE 0]
    ELSE [e EXCEPT !.value = Smooth(@, x, e.period)]

\* A trend needs a margin of the slow average over perMargin.
TrendOf(fast, slow, perMargin) ==
    CASE fast > slow + slow \div perMargin -> "BULLISH"
      [] fast < slow - slow \div perMargin -> "BEARISH"
      [] OTHER -> "NEUTRAL"

\* recalculateM5Indicators: started from the whole history, then smoothed with each close.
M5Average(old, history, period) ==
    IF old = 0
    THEN FoldLeft(LAMBDA e, c : Smooth(e, c.close, period), Head(history).close, Tail(history))
    ELSE Smooth(old, history[Len(history)].close, period)

\* recalculateH1Indicators: the last close against the previous candle's range, once
\* there are enough candles (at least two).
H1Trend(f, old, enough) ==
    LET n == Len(f.history) IN
    CASE n < enough -> old
      [] f.history[n].close > f.history[n - 1].high -> "BULLISH"
      [] f.history[n].close < f.history[n - 1].low -> "BEARISH"
      [] OTHER -> "NEUTRAL"

\* EvaluateConfluence: only a signal against both trends is refused.
Confluent(m5, m5Trend, h1Trend, type, enough) ==
    \/ Len(m5.history) < enough
    \/ type = "Buy" /\ ~(m5Trend = "BEARISH" /\ h1Trend = "BEARISH")
    \/ type = "Sell" /\ ~(m5Trend = "BULLISH" /\ h1Trend = "BULLISH")
=============================================================================
