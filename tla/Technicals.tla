------------------------------ MODULE Technicals ------------------------------
(***************************************************************************)
(* Technical indicators of one stock: daily prices are stored and          *)
(* corrected by date, the indicators of all days are calculated and stored *)
(* in their place, and a request with parameters of its own calculates     *)
(* them again from the prices up to a date.  Prices are whole numbers of a *)
(* small unit, indicators whole parts of theirs rounded down, where the    *)
(* code has 28 digits; percentages are in 1/100.                           *)
(***************************************************************************)
EXTENDS Integers, Sequences, FiniteSets, FiniteSetsExt, Functions

CONSTANTS Days,            \* 1 .. n: trading days
          DaysOfWeek,      \* trading days of a week
          Bars,            \* [open, high, low, close, volume] a day may have
          Parameters,      \* the periods, as in TechnicalParameters
          MaxCorrections   \* bound: stored days that are corrected

VARIABLES prices,          \* [Days -> a bar, NoTrade, or NoDay while not stored]
          technicals,      \* [Days -> the stored indicators, or NoDay]
          calculated,      \* history: the prices they were calculated from
          corrections

(* Days are counted; periods are positive, as validate demands.            *)
ASSUME ChartAssumption ==
    /\ IsFiniteSet(Days) /\ Days # {} /\ Days = 1 .. Cardinality(Days)
    /\ DaysOfWeek \in Nat \ {0}
    /\ {Parameters.ma, Parameters.ema, Parameters.rsi, Parameters.fast, Parameters.slow,
        Parameters.signal, Parameters.kd, Parameters.k, Parameters.d, Parameters.bollinger,
        Parameters.atr, Parameters.williams} \subseteq Nat \ {0}

chart == <<prices, technicals, calculated, corrections>>

NoFigure == -1000000
NoBar(why) == [open |-> NoFigure, high |-> NoFigure, low |-> NoFigure, close |-> NoFigure, volume |-> why]
NoDay == NoBar(0)
NoTrade == NoBar(1)
P == Parameters

Sum(v, a, b) == SumFunction([i \in a .. b |-> v[i]])
Mean(v, a, b) == Sum(v, a, b) \div (b - a + 1)
Larger(a, b) == IF a > b THEN a ELSE b
Abs(a) == Larger(a, -a)

Closes(cs) == [i \in DOMAIN cs |-> cs[i].close]
Sma(v, p) == [i \in DOMAIN v |-> IF i < p THEN NoFigure ELSE Mean(v, i - p + 1, i)]

(* Variant: the average is seeded with all values there are.               *)
Seed_All(v, from, p) == Mean(v, from, Len(v))

Seed(v, from, p) == Mean(v, from, from + p - 1)

(* An average of the values from an index on, that follows them            *)
(* exponentially or as Wilder's does.                                      *)
Follow(way, p, e, x) ==
    IF way = "exponential" THEN (2 * (x - e)) \div (p + 1) + e ELSE (e * (p - 1) + x) \div p
Smoothed(v, from, p, way) ==
    LET e[i \in DOMAIN v] ==
            IF i < from + p - 1 THEN NoFigure
            ELSE IF i = from + p - 1 THEN Seed(v, from, p) ELSE Follow(way, p, e[i - 1], v[i])
    IN  e
Exponential(v, from, p) == Smoothed(v, from, p, "exponential")
Wilder(v, p) == Smoothed(v, 1, p, "Wilder")

Ema(v, p) == Exponential(v, 1, p)

Rsi(v, p) ==
    LET changes == [i \in {i \in DOMAIN v : i + 1 \in DOMAIN v} |-> v[i + 1] - v[i]]
        gain == Wilder([i \in DOMAIN changes |-> 100 * Larger(changes[i], 0)], p)
        loss == Wilder([i \in DOMAIN changes |-> 100 * Larger(-changes[i], 0)], p)
    IN  [i \in DOMAIN v |->
            IF i <= p THEN NoFigure
            ELSE IF loss[i - 1] = 0 THEN 10000
            ELSE (10000 * gain[i - 1]) \div (gain[i - 1] + loss[i - 1])]

Minus(a, b) == [i \in DOMAIN a |-> IF NoFigure \in {a[i], b[i]} THEN NoFigure ELSE a[i] - b[i]]
MacdLine(v) == Minus(Ema(v, P.fast), Ema(v, P.slow))
MacdSignal(v) == Exponential(MacdLine(v), P.slow, P.signal)

Highest(cs, i, p) == Max({cs[j].high : j \in i - p + 1 .. i})
Lowest(cs, i, p) == Min({cs[j].low : j \in i - p + 1 .. i})

(* K and D start at 50; a window without a range leaves them as they are.  *)
KdAfter(cs, i, before) ==
    LET high == Highest(cs, i, P.kd)
        low == Lowest(cs, i, P.kd)
        rsv == (10000 * (cs[i].close - low)) \div (high - low)
        k == (before.k * (P.k - 1) + rsv) \div P.k
    IN  IF high = low THEN [before EXCEPT !.known = FALSE]
        ELSE [k |-> k, d |-> (before.d * (P.d - 1) + k) \div P.d, known |-> TRUE]
Stochastic(cs) ==
    LET kd[i \in DOMAIN cs \cup {0}] ==
            IF i < P.kd THEN [k |-> 5000, d |-> 5000, known |-> FALSE]
            ELSE KdAfter(cs, i, kd[i - 1])
    IN  kd

TrueRanges(cs) == [i \in DOMAIN cs |->
    IF i = 1 THEN cs[1].high - cs[1].low
    ELSE Max({cs[i].high - cs[i].low, Abs(cs[i].high - cs[i - 1].close),
              Abs(cs[i].low - cs[i - 1].close)})]
Atr(cs) == Wilder(TrueRanges(cs), P.atr)

(* A day without a volume has none, and the sum goes on after it.          *)
Obv(cs) ==
    LET Flow(i) == IF i = 1 \/ cs[i].volume = NoFigure THEN 0
                   ELSE IF cs[i].close > cs[i - 1].close THEN cs[i].volume
                   ELSE IF cs[i].close < cs[i - 1].close THEN -cs[i].volume ELSE 0
    IN  [i \in DOMAIN cs |-> IF i > 1 /\ cs[i].volume = NoFigure THEN NoFigure
                             ELSE SumFunction([j \in 1 .. i |-> Flow(j)])]

Root(n) == CHOOSE r \in 0 .. n : r * r <= n /\ (r + 1) * (r + 1) > n
Deviation(v, i, p) ==
    LET mean == Mean(v, i - p + 1, i)
    IN  Root(Mean([j \in DOMAIN v |-> (v[j] - mean) * (v[j] - mean)], i - p + 1, i))

WilliamsR(cs) == [i \in DOMAIN cs |->
    IF i < P.williams \/ Highest(cs, i, P.williams) = Lowest(cs, i, P.williams) THEN NoFigure
    ELSE (-10000 * (Highest(cs, i, P.williams) - cs[i].close))
            \div (Highest(cs, i, P.williams) - Lowest(cs, i, P.williams))]

(* TechnicalIndicatorService.calculate: the indicators of each candle.     *)
Indicators(cs) ==
    LET v == Closes(cs)
        kd == Stochastic(cs)
        ma == Sma(v, P.ma)              ema == Ema(v, P.ema)
        rsi == Rsi(v, P.rsi)            line == MacdLine(v)
        signal == MacdSignal(v)         atr == Atr(cs)
        obv == Obv(cs)                  middle == Sma(v, P.bollinger)
        williams == WilliamsR(cs)
        Width(i) == IF i < P.bollinger THEN 0
                    ELSE P.stddev * Deviation(v, i, P.bollinger)
    IN  [i \in DOMAIN cs |->
            [ma |-> ma[i], ema |-> ema[i], rsi |-> rsi[i], macd |-> line[i],
             signal |-> signal[i], histogram |-> Minus(line, signal)[i],
             kd |-> IF kd[i].known THEN <<kd[i].k, kd[i].d>> ELSE <<NoFigure, NoFigure>>,
             atr |-> atr[i], obv |-> obv[i], middle |-> middle[i], width |-> Width(i),
             williams |-> williams[i]]]

(* price_candle, aggregate: the days up to a date that have a price...     *)
Traded(to) == {d \in Days : d <= to /\ prices[d].close # NoFigure}
Candles(to) ==
    [k \in 1 .. Cardinality(Traded(to)) |->
        prices[CHOOSE d \in Traded(to) : Cardinality(Traded(d)) = k]]

(* ... and the weeks, as their first open and last close, their extremes   *)
(* and the volume, if all days have one.                                   *)
WeekOf(d) == (d - 1) \div DaysOfWeek
Merge(ds) ==
    LET Volume(d) == prices[d].volume
    IN  [open |-> prices[Min(ds)].open, close |-> prices[Max(ds)].close,
         high |-> Max({prices[d].high : d \in ds}), low |-> Min({prices[d].low : d \in ds}),
         volume |-> IF \E d \in ds : prices[d].volume = NoFigure THEN NoFigure
                    ELSE MapThenSumSet(Volume, ds)]
Weeks(to) == [w \in {WeekOf(d) : d \in Traded(to)} |->
                 Merge({d \in Traded(to) : WeekOf(d) = w})]

(* get_technicals with parameters: the rows up to a date.                  *)
Requested(to) ==
    LET rows == Indicators(Candles(to))
    IN  [d \in Traded(to) |-> rows[Cardinality(Traded(d))]]

NotCalculated == [d \in {} |-> NoDay]

TInit ==
    /\ prices = [d \in Days |-> NoDay]
    /\ technicals = NotCalculated
    /\ calculated = prices /\ corrections = 0

(* Daily prices arrive, in the order of the days or as a correction.       *)
StorePrice(d, bar) ==
    /\ \A e \in Days : e < d => prices[e] # NoDay
    /\ prices[d] # bar
    /\ IF prices[d] = NoDay THEN UNCHANGED corrections
       ELSE corrections < MaxCorrections /\ corrections' = corrections + 1
    /\ prices' = [prices EXCEPT ![d] = bar]
    /\ UNCHANGED <<technicals, calculated>>

(* recalculate: the rows of all days are replaced.                         *)
Recalculate ==
    /\ calculated # prices
    /\ technicals' = Requested(Max(Days))
    /\ calculated' = prices
    /\ UNCHANGED <<prices, corrections>>

ChartNext ==
    \/ \E d \in Days, bar \in Bars \cup {NoTrade} : StorePrice(d, bar)
    \/ Recalculate

(* No indicator looks ahead: for every day up to which the stored prices   *)
(* are those the stored indicators were calculated from, a request up to   *)
(* any date gives the indicators that are stored, whatever came later; and *)
(* a week that is over looks the same from every later date.               *)
SeriesNeverLookAhead ==
    \A to \in Days :
        LET rows == Requested(to)
        IN  /\ \A d \in DOMAIN rows :
                  (\A e \in Days : e <= d => prices[e] = calculated[e]) =>
                      /\ d \in DOMAIN technicals
                      /\ rows[d] = technicals[d]
            /\ \A w \in DOMAIN Weeks(to) :
                  WeekOf(to + 1) > w => Weeks(to)[w] = Weeks(Max(Days))[w]
===============================================================================
