----------------------------- MODULE SignalPath -----------------------------
(***************************************************************************)
(* From a tick to an order: the tick goroutine's market data and signals,  *)
(* the signal channel, and the consumer's gates and stop/target engine     *)
(* (cmd/bot/main.go), for one gold symbol.                                 *)
(*                                                                         *)
(* Prices are integers, thousandths of a dollar.  RSI, ATR, HMM and scores *)
(* are abstracted to whatever they may say; candles, rings, averages,      *)
(* trends, stops and targets are computed as the code does.  The consumer  *)
(* reads tick, trends, levels and confluence one after the other, under    *)
(* separate locks, while ticks go on.                                      *)
(***************************************************************************)
EXTENDS MarketData

CONSTANTS
    Prices, HalfSpread,
    ATRs,             \* values the strategy's ATR may take
    Discounts,        \* how far below the close a limit-pullback entry may lie
    Arrivals,         \* <<how far the clock moves before a tick, how late it is stamped>>
    WarmUp,           \* candles the strategies' indicators need before the first signal
    Periods,          \* of the candles: [Base |-> the configured one, M5, M15, H1]
    BufferSize, VelocitySize, Window, RingSize,
    MaxHistory,       \* 100 candles
    EnoughM5, WarmM5, EnoughH1,   \* 5, 3 and 3 candles
    FastEMA, SlowEMA,             \* 20 and 50; 10 and 25 in the manager
    SnapshotGap, MaxSnapshots, Rederive,  \* 30 s, 2880, 10
    QueueSize,        \* 64 signals
    Spacing,          \* 90 s
    Events, BlackoutBefore, BlackoutAfter,   \* the calendar's high-impact <<currency, time>>
    LeastInWindow, MostInWindow,   \* limits of the velocity filter, in ticks
    FileSettings,     \* of the AI filter, from the configuration file
    Percents,         \* what the HMM's confidence and the trigger's score may be
    None,             \* no signal, no tick, no order
    MaxTicks          \* bound of the model

Frames == {"Base", "M5", "M15", "H1"}
Modes == {"SANTAI", "BALANCED", "AGRESIF"}

ASSUME SignalPathAssumption ==
    /\ Prices \subseteq Nat /\ HalfSpread \in Nat
    /\ ATRs \subseteq Nat /\ Discounts \subseteq Nat
    /\ Arrivals \subseteq Nat \X Nat
    /\ Percents \subseteq 0..100
    /\ {BufferSize, VelocitySize, RingSize} \subseteq Nat \ {0}
    /\ {Window, WarmUp, MaxHistory} \subseteq Nat
    /\ VelocitySize >= 2 /\ RingSize <= MaxHistory   \* 256; 10 and 100
    /\ Periods \in [Frames -> Nat \ {0}]
    /\ None \notin [time : Int, mid : Int]

VARIABLES
    clock,      \* the wall clock
    ticks,      \* history: the ticks so far
    pending,    \* the tick the goroutine is working on
    buffer,     \* p.Buffer
    velocity,   \* the velocity filter's timestamps
    bars,       \* p.Aggregator (Base) and p.MTFAggregator
    opened,     \* history: where in ticks each frame's current candle begins
    tracker,    \* the multi-timeframe manager's M5 and H1
    averages,   \* the fast and slow averages of M15 and H1; m5FastEMA, m5SlowEMA
    trend,      \* p.M15Trend, p.H1Trend; the manager's trendM5, trendH1
    levels,     \* p.High24h, p.Low24h, p.Snapshots
    candles,    \* p.RecentCandles
    swings,     \* the strategy's rings of highs and lows
    queue,      \* signalCh
    consumer,   \* where the consumer stands, its signal and what it has read
    lastOrder,  \* lastOrderTime, -1 for none
    order       \* the order just submitted, and the tick it was priced on

received == <<clock, ticks, buffer, velocity, tracker, levels>>
built == <<bars, opened, candles, swings, queue>>
desk == <<consumer, lastOrder, order>>
signs == <<averages, trend>>
vars == <<received, pending, signs, built, desk>>

Waiting == [at |-> "idle", sig |-> None, tick |-> None, macro |-> "NEUTRAL"]

Init ==
    /\ clock = 0 /\ ticks = <<>> /\ pending = None
    /\ buffer = NewRing(BufferSize, None) /\ velocity = NewRing(VelocitySize, 0)
    /\ bars = [f \in Frames |-> NewAggregator(Periods[f])]
    /\ opened = [f \in Frames |-> 1]
    /\ tracker = [f \in {"M5", "H1"} |-> NewFrame(Periods[f])]
    /\ averages = [M15 |-> <<NewEMA(FastEMA), NewEMA(SlowEMA)>>, H1 |-> <<NewEMA(FastEMA), NewEMA(SlowEMA)>>,
                   managerM5 |-> <<0, 0>>]
    /\ trend = [f \in {"M15", "H1", "trendM5", "trendH1"} |-> "NEUTRAL"]
    /\ levels = [high |-> 0, low |-> 0, snapshots |-> <<>>]
    /\ candles = <<>> /\ swings = NewRing(RingSize, NoCandle)
    /\ queue = <<>> /\ consumer = Waiting /\ lastOrder = -1 /\ order = None

-----------------------------------------------------------------------------
(* The tick goroutine.                                                      *)

Larger(a, b) == IF a > b THEN a ELSE b
Smaller(a, b) == IF a < b THEN a ELSE b
Bid(tick) == tick.mid - HalfSpread
Ask(tick) == tick.mid + HalfSpread

\* The 24-hour extremes; every Rederive-th snapshot they are taken anew from the snapshots.
LevelsAfter(tick, now) ==
    LET bid == Bid(tick)
        high == IF levels.high = 0 THEN bid ELSE Larger(levels.high, bid)
        low == IF levels.low = 0 THEN bid ELSE Smaller(levels.low, bid)
        old == levels.snapshots
        due == old = <<>> \/ now - old[Len(old)].time >= SnapshotGap
        all == Append(old, [time |-> now, price |-> bid])
        kept == SubSeq(all, IF Len(all) > MaxSnapshots THEN Len(all) - MaxSnapshots + 1 ELSE 1, Len(all))
        seen == {kept[i].price : i \in DOMAIN kept} IN
    CASE ~due -> [levels EXCEPT !.high = high, !.low = low]
      [] due /\ Len(kept) % Rederive # 0 -> [high |-> high, low |-> low, snapshots |-> kept]
      [] OTHER -> [high |-> Max(seen), low |-> Min(seen), snapshots |-> kept]

\* computeStructureSLTP: beyond the swing extreme, within a floor and a cap on the risk.
Structure(entry, atr, swing, type) ==
    LET sign == IF type = "Buy" THEN 1 ELSE -1
        floor == Larger((12 * atr) \div 10, 3500)
        cap == Larger(2 * atr, 6500)
        beyond == sign * (entry - swing)
        raw == IF swing > 0 /\ beyond > 0 THEN beyond + 500 ELSE floor
        risk == IF raw < floor THEN floor ELSE IF raw > cap THEN cap ELSE raw IN
    [type |-> type, range |-> FALSE,
     sl |-> entry - sign * risk, tp |-> entry + sign * Larger((22 * risk) \div 10, 8000)]

\* MomentumScalper.OnCandle: until the indicators are warm a candle leaves no trace in the
\* rings; the averages themselves are abstracted.
FeedRings(candle) == IF Len(candles) + 1 >= WarmUp THEN Push(swings, candle) ELSE swings

\* The signals of a warm strategy, the crossover and pullback tests abstracted.
Momentum(candle, ring) ==
    {Structure(candle.close - d, atr, SwingLow(ring, 5), "Buy") : d \in Discounts, atr \in ATRs} \cup
    {Structure(candle.close + d, atr, SwingHigh(ring, 5), "Sell") : d \in Discounts, atr \in ATRs}

\* RangeScalper.OnCandle, the band and RSI tests abstracted.
RangeScalp(candle) ==
    LET least(atr) == Larger((8 * atr) \div 10, 1500)
        sl(atr) == Larger((8 * atr) \div 10, least(atr) \div 2)
        tp(atr) == Smaller(Larger((18 * sl(atr)) \div 10, least(atr)), Larger(3 * atr, 8000)) IN
    {[type |-> "Buy", range |-> TRUE, sl |-> candle.close - sl(atr), tp |-> candle.close + tp(atr)] : atr \in ATRs} \cup
    {[type |-> "Sell", range |-> TRUE, sl |-> candle.close + sl(atr), tp |-> candle.close - tp(atr)] : atr \in ATRs}

\* A signal is sent if the channel has room.
Send(q, sig) == IF sig = None \/ Len(q) >= QueueSize THEN q ELSE Append(q, sig)

\* SymbolTimeframes.OnTick: a closed M5 candle moves the manager's averages and the M5
\* trend, a closed H1 candle the H1 trend, which compares the last two candles.
TrackFrames(tick) ==
    LET after == [f \in {"M5", "H1"} |-> ProcessCandle(tracker[f], tick, MaxHistory)]
        m5Ready == EndsCandle(tracker["M5"], tick) /\ Len(after["M5"].history) >= EnoughM5
        m5 == [i \in 1..2 |-> IF m5Ready
                  THEN M5Average(averages.managerM5[i], after["M5"].history, <<FastEMA, SlowEMA>>[i])
                  ELSE averages.managerM5[i]] IN
    /\ tracker' = after
    /\ averages' = [averages EXCEPT !.managerM5 = m5]
    /\ trend' = [trend EXCEPT
          !["trendM5"] = IF m5Ready THEN TrendOf(m5[1], m5[2], 5000) ELSE @,
          !["trendH1"] = IF EndsCandle(tracker["H1"], tick) THEN H1Trend(after["H1"], @, EnoughH1) ELSE @]

\* Levels, buffer, multi-timeframe manager and velocity filter.  A tick of the wrong
\* symbol never gets here.
Receive(dt, late, mid) ==
    LET now == clock + dt
        tick == [time |-> now - late, mid |-> mid] IN
    /\ pending = None /\ Len(ticks) < MaxTicks /\ late <= now
    /\ clock' = now /\ ticks' = Append(ticks, tick) /\ pending' = tick
    /\ levels' = LevelsAfter(tick, now)
    /\ buffer' = Push(buffer, tick)
    /\ velocity' = Stamp(velocity, tick)
    /\ TrackFrames(tick)
    /\ UNCHANGED <<built, desk>>

\* The candles kept for the chart.
AddRecentCandle(candle) ==
    LET all == Append(candles, candle) IN
    SubSeq(all, IF Len(all) > MaxHistory THEN Len(all) - MaxHistory + 1 ELSE 1, Len(all))

\* Aggregators and the pipeline's trends; a closed Base candle goes to the strategies.
Process ==
    LET closes(f) == Closes(bars[f], pending)
        ema(f) == IF closes(f)
                  THEN [i \in 1..2 |-> UpdateEMA(averages[f][i], bars[f].candle.close)]
                  ELSE averages[f]
        TrendAfter(f) == IF closes(f) /\ ema(f)[2].count >= SlowEMA
                         THEN TrendOf(ema(f)[1].value, ema(f)[2].value, 10000) ELSE trend[f]
        candle == Completed(bars["Base"])
        warm == Len(candles) + 1 >= WarmUp IN
    /\ pending # None
    /\ bars' = [f \in Frames |-> Aggregate(bars[f], pending)]
    /\ opened' = [f \in Frames |-> IF closes(f) THEN Len(ticks) ELSE opened[f]]
    /\ averages' = [averages EXCEPT !.M15 = ema("M15"), !.H1 = ema("H1")]
    /\ trend' = [trend EXCEPT !["M15"] = TrendAfter("M15"), !["H1"] = TrendAfter("H1")]
    /\ IF closes("Base")
       THEN /\ candles' = AddRecentCandle(candle)
            /\ swings' = FeedRings(candle)
            /\ \E momentum \in {None} \cup IF warm THEN Momentum(candle, swings') ELSE {},
                  range \in {None} \cup IF warm THEN RangeScalp(candle) ELSE {} :
                  queue' = Send(Send(queue, momentum), range)
       ELSE UNCHANGED <<candles, swings, queue>>
    /\ pending' = None
    /\ UNCHANGED <<received, desk>>
-----------------------------------------------------------------------------
(* The consumer.                                                            *)

Take ==
    /\ consumer.at = "idle" /\ queue # <<>>
    /\ queue' = Tail(queue)
    /\ consumer' = [Waiting EXCEPT !.at = "trend", !.sig = Head(queue), !.tick = Back(buffer, 1)]
    /\ order' = None
    /\ UNCHANGED <<received, pending, signs, bars, opened, candles, swings, lastOrder>>

\* Gates whose test is abstracted end the signal: first the trap hour and a spread spike.
Avoid ==
    /\ consumer.at = "trend"
    /\ consumer' = Waiting
    /\ UNCHANGED <<received, pending, signs, built, lastOrder, order>>

\* Later the kill switch, the cooldown after a loss, cluster, correlation, risk and margin;
\* or Submit fails.
Drop ==
    /\ consumer.at \in {"score", "desk"}
    /\ consumer' = Waiting
    /\ UNCHANGED <<received, pending, signs, built, lastOrder, order>>

Against(direction, type) ==
    \/ direction = "BEARISH" /\ type = "Buy"
    \/ direction = "BULLISH" /\ type = "Sell"

Advance(at) == consumer' = [consumer EXCEPT !.at = at]
Done == consumer' = Waiting

\* Gate 1: H1 decides, M15 when H1 is neutral.
TrendGate ==
    /\ consumer.at = "trend"
    /\ LET macro == IF trend["H1"] # "NEUTRAL" THEN trend["H1"] ELSE trend["M15"] IN
          IF Against(macro, consumer.sig.type) THEN Done
          ELSE consumer' = [consumer EXCEPT !.at = "levels", !.macro = macro]
    /\ UNCHANGED <<received, pending, signs, built, lastOrder, order>>

\* Gate 1.5: no entry near a 24-hour extreme unless the trend confirms it and the RSI
\* is not extreme.
AtLevel(atr, extremeRSI) ==
    LET near == (35 * atr) \div 100 IN
    /\ levels.high > 0 /\ levels.low > 0 /\ levels.high > levels.low
    /\ \/ /\ consumer.sig.type = "Buy" /\ (consumer.macro # "BULLISH" \/ extremeRSI)
          /\ levels.high - Ask(consumer.tick) < near
       \/ /\ consumer.sig.type = "Sell" /\ (consumer.macro # "BEARISH" \/ extremeRSI)
          /\ Bid(consumer.tick) - levels.low < near

LevelGate(atr, extremeRSI) ==
    /\ consumer.at = "levels"
    /\ IF AtLevel(atr, extremeRSI) THEN Done ELSE Advance("confluence")
    /\ UNCHANGED <<received, pending, signs, built, lastOrder, order>>

\* The gold symbol's tracker exists since its first tick.
CheckConfluence(type) == Confluent(tracker["M5"], trend["trendM5"], trend["trendH1"], type, WarmM5)

ConfluenceGate ==
    /\ consumer.at = "confluence"
    /\ IF CheckConfluence(consumer.sig.type) THEN Advance("score") ELSE Done
    /\ UNCHANGED <<received, pending, signs, built, lastOrder, order>>

\* applyTradingMode: a mode's settings of the AI filter, in percent.  It reaches the
\* pipelines there are; one created later keeps the configuration file's.
Settings(mode) ==
    CASE mode = "SANTAI" -> [ml |-> TRUE, least |-> 65, leastRange |-> 55, chop |-> TRUE, dual |-> FALSE]
      [] mode = "BALANCED" -> [ml |-> TRUE, least |-> 55, leastRange |-> 50, chop |-> TRUE, dual |-> FALSE]
      [] mode = "AGRESIF" -> [ml |-> TRUE, least |-> 45, leastRange |-> 40, chop |-> FALSE, dual |-> FALSE]

\* What the HMM's state says for the signal.
RegimeScore(sig, regime, confidence, chop) ==
    LET with == (regime = "Bull") = (sig.type = "Buy") IN
    CASE sig.range /\ regime = "Noise" -> 50 + (35 * confidence) \div 100
      [] sig.range /\ regime # "Noise" -> IF with THEN 40 ELSE 20
      [] ~sig.range /\ regime = "Noise" -> IF chop THEN 40 ELSE 50
      [] OTHER -> IF with THEN 50 + confidence \div 2 ELSE 50 - confidence \div 2

\* EvaluateSignal: half the HMM, half the trigger's score, against the settings' least.
EvaluateSignal(sig, regime, confidence, trigger, set) ==
    /\ sig.range => set.dual
    /\ set.ml => RegimeScore(sig, regime, confidence, set.chop) + trigger
                    >= 2 * (IF sig.range THEN set.leastRange ELSE set.least)

\* The AI filter, unless a user has switched it off.
ScoreGate(regime, confidence, trigger, set) ==
    /\ consumer.at = "score"
    /\ IF EvaluateSignal(consumer.sig, regime, confidence, trigger, set) THEN Advance("desk") ELSE Done
    /\ UNCHANGED <<received, pending, signs, built, lastOrder, order>>

ScoreOff ==
    /\ consumer.at = "score"
    /\ Advance("desk")
    /\ UNCHANGED <<received, pending, signs, built, lastOrder, order>>

\* The filters of the risk manager that are computed here.
HasUpcomingHighImpact(currency, now) ==
    \E e \in Events : e[1] = currency /\ e[2] \in (now - BlackoutAfter)..(now + BlackoutBefore)

\* Gold's currencies are XAU and USD.
InBlackout(tick) == \E c \in {"XAU", "USD"} : HasUpcomingHighImpact(c, tick.time)

VelocityAllows(tick) ==
    LET n == InWindow(velocity, tick.time - Window) IN
    (LeastInWindow > 0 => n >= LeastInWindow) /\ (MostInWindow > 0 => n <= MostInWindow)

Distance(a, b) == IF a > b THEN a - b ELSE b - a

Floor(mode) == IF mode = "SANTAI" THEN 4200 ELSE 3500
Cap(mode) == CASE mode = "SANTAI" -> 7800 [] mode = "AGRESIF" -> 5000 [] OTHER -> 6500

Exec(tick, type) == IF type = "Buy" THEN Ask(tick) ELSE Bid(tick)

\* Fault: the distance is the one from the last close, not from the execution price.
StopDistance_AtClose(exec, sig, mode) ==
    LET structural == Distance(candles[Len(candles)].close, sig.sl) IN
    IF structural < Floor(mode) THEN Floor(mode)
    ELSE IF structural > Cap(mode) THEN Cap(mode) ELSE structural

\* The distance of the stop from the execution price, clamped to the mode's limits.  A price
\* that has run through the signal's stop leaves a distance too.
StopDistance(exec, sig, mode) ==
    LET structural == Distance(exec, sig.sl) IN
    IF structural < Floor(mode) THEN Floor(mode)
    ELSE IF structural > Cap(mode) THEN Cap(mode) ELSE structural

TargetDistance(exec, sig, mode) ==
    LET least == Larger((3 * StopDistance(exec, sig, mode)) \div 2, 5000) IN
    Smaller(Larger(Distance(sig.tp, exec), least), 12000)

Priced(sig, tick, mode) ==
    LET exec == Exec(tick, sig.type)
        sign == IF sig.type = "Buy" THEN 1 ELSE -1 IN
    [type |-> sig.type, tick |-> tick,
     sl |-> exec - sign * StopDistance(exec, sig, mode),
     tp |-> exec + sign * TargetDistance(exec, sig, mode),
     swing |-> sig.sl, mode |-> mode]    \* history: what it was made from

Submit(mode) ==
    /\ consumer.at = "desk"
    /\ lastOrder = -1 \/ clock - lastOrder >= Spacing
    /\ ~InBlackout(consumer.tick) /\ VelocityAllows(consumer.tick)
    /\ order' = Priced(consumer.sig, consumer.tick, mode)
    /\ lastOrder' = clock
    /\ Done
    /\ UNCHANGED <<received, pending, signs, built>>

Next ==
    \/ \E a \in Arrivals, mid \in Prices : Receive(a[1], a[2], mid)
    \/ Process
    \/ Take \/ Avoid \/ TrendGate \/ ConfluenceGate \/ Drop
    \/ \E atr \in ATRs, extremeRSI \in BOOLEAN : LevelGate(atr, extremeRSI)
    \/ ScoreOff
    \/ \E regime \in {"Noise", "Bull", "Bear"}, confidence \in Percents, trigger \in Percents,
          set \in {FileSettings} \cup {Settings(m) : m \in Modes} :
          ScoreGate(regime, confidence, trigger, set)
    \/ \E mode \in Modes : Submit(mode)

Spec == Init /\ [][Next]_vars
-----------------------------------------------------------------------------
\* The rings hold the newest ticks, stamps and candles in order, however often they have
\* wrapped around: Latest(k) is the end of the history, the velocity filter counts back
\* to the first stamp before the window, and the swings of the strategy's rings are those
\* of the candles kept for the chart.
RecentTicks ==
    LET Newest(s, k) == SubSeq(s, IF Len(s) > k THEN Len(s) - k + 1 ELSE 1, Len(s))
        stamps == Newest(ticks, VelocitySize) IN
    /\ \A k \in 1..(BufferSize + 1) : Latest(buffer, k) = Newest(ticks, Smaller(k, BufferSize))
    /\ Len(ticks) >= 2 =>
          \A cutoff \in {ticks[i].time - d : i \in DOMAIN ticks, d \in {0, Window}} :
              InWindow(velocity, cutoff) =
                  Len(stamps) - Max({0} \cup {i \in DOMAIN stamps : stamps[i].time < cutoff})
    /\ swings.count > 0 => \A k \in 1..swings.count :
          LET last == Newest(candles, k) IN
          /\ SwingHigh(swings, k) = Max({last[i].high : i \in DOMAIN last})
          /\ SwingLow(swings, k) = Min({last[i].low : i \in DOMAIN last})

\* A candle is the summary of its ticks.
Summarises(c, part) ==
    LET mids == {part[i].mid : i \in DOMAIN part} IN
    /\ c.open = part[1].mid /\ c.close = part[Len(part)].mid
    /\ c.high = Max(mids) /\ c.low = Min(mids)
    /\ c.ticks = Len(part) /\ c.buy + c.sell = 2 * (Len(part) - 1)

SameCandle(c, d) ==
    c.open = d.open /\ c.high = d.high /\ c.low = d.low /\ c.close = d.close /\ c.start = d.start

\* Every frame's candle sums up exactly the ticks since it was opened, late ones too, none
\* of them beyond its end; frames of which one's period divides the other's nest, so that a
\* large candle never ends inside a small one; and as long as no tick came late, the two
\* builders of M5 and H1, the one the trends come from and the one the confluence comes
\* from, hold the same candle.
CandlesAgree ==
    LET n == Len(ticks) - (IF pending = None THEN 0 ELSE 1) IN
    n > 0 =>
        /\ \A f \in Frames :
              LET part == SubSeq(ticks, opened[f], n) IN
              /\ Summarises(bars[f].candle, part)
              /\ bars[f].candle.start <= part[1].time
              /\ \A i \in DOMAIN part : part[i].time < bars[f].end
        /\ \A f, g \in Frames : Periods[g] % Periods[f] = 0 =>
              /\ opened[g] <= opened[f]
              /\ bars[g].candle.start <= bars[f].candle.start /\ bars[f].end <= bars[g].end
        /\ (pending = None /\ \A i \in 2..n : ticks[i - 1].time <= ticks[i].time) =>
              \A f \in {"M5", "H1"} : SameCandle(tracker[f].current, bars[f].candle)

\* "Volatility floors ($3.50 min) and risk caps ($6.50 max)" (main.go:2605), as the code
\* scales them: SANTAI's go up by a fifth, to $7.80, and AGRESIF's cap is $5.00.
StopLimits(mode) ==
    CASE mode = "SANTAI" -> 4200..7800 [] mode = "BALANCED" -> 3500..6500 [] mode = "AGRESIF" -> 3500..5000

\* However old the signal is when the consumer gets to it, wherever the price has gone since
\* and whichever mode the user has changed to: the order's stop lies on the losing side,
\* within the limits of the mode it is sent in; where the swing the signal was given still
\* lies there, the stop is that swing ("Preserves structure-based swing invalidation");
\* and the target is at least $5 and one and a half times as far on the winning side
\* ("Guarantee Reward-to-Risk ratio >= 1.5x"), $12 at the most.  It is the code's promise,
\* weaker than README.md:122-123: $6.50 in every mode, and a target 2.2 times as far.
OrdersSound ==
    order # None =>
        LET sign == IF order.type = "Buy" THEN 1 ELSE -1
            exec == Exec(order.tick, order.type)
            risk == sign * (exec - order.sl)
            reward == sign * (order.tp - exec) IN
        /\ risk \in StopLimits(order.mode)
        /\ sign * (exec - order.swing) \in StopLimits(order.mode) => order.sl = order.swing
        /\ reward >= 5000 /\ 2 * reward + 1 >= 3 * risk /\ reward <= 12000
=============================================================================
