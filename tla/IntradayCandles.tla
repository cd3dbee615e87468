------------------------- MODULE IntradayCandles -------------------------
(***************************************************************************)
(* What IntradayCandleAggregator makes of the quotes of one security, as   *)
(* functions on the Redis keys it keeps: the history and the current       *)
(* candle of each interval and the volume baseline.  Each function yields  *)
(* the sequence of stores its Redis commands go through, so that a failure *)
(* can stop it after any of them.                                          *)
(***************************************************************************)
EXTENDS Integers, Sequences, FiniteSetsExt, SequencesExt

CONSTANTS MinuteLen,      \* clock units of a 1m bucket
          FiveLen,        \* clock units of a 5m bucket, a multiple of it
          None            \* an absent key

ASSUME CandleAssumption ==
    /\ MinuteLen \in Nat \ {0}
    /\ FiveLen \in {n * MinuteLen : n \in 1..5}

Intervals == {"1m", "5m"}
Bucket(ts, len) == ts - (ts % len)

EmptyStore ==
    [cache |-> None, base |-> None,
     hist |-> [i \in Intervals |-> {}], cur |-> [i \in Intervals |-> None]]

-----------------------------------------------------------------------------

\* save_candle: the member of the same bucket is taken out, the candle put in,
\* and the current key set, or deleted by a final candle
SaveCandle(s, i, c) ==
    LET gone == [s EXCEPT !.hist[i] = {x \in @ : x.start # c.start}]
        added == [gone EXCEPT !.hist[i] = @ \cup {c}]
    IN  <<gone, added, [added EXCEPT !.cur[i] = IF c.final THEN None ELSE c]>>

\* The volume a quote adds: what the day's total grew by since the baseline,
\* nothing without a baseline or after a reset
VolumeDelta(s, q) ==
    IF s.base # None /\ q.vol >= s.base THEN q.vol - s.base ELSE 0

\* Variant: a quote with the number of the last one passes
OutOfOrder_Repeated(s, q) ==
    LET c == s.cur["1m"] IN c # None /\ (q.seq < c.last \/ q.ts < c.at)
\* The check of _update_one_minute: the quote is a repetition or comes late
OutOfOrder(s, q) ==
    LET c == s.cur["1m"] IN c # None /\ (q.seq <= c.last \/ q.ts < c.at)

\* What a quote makes of the open candle (None: it opens the bucket)
Extended(c, q, delta) ==
    IF c = None
    THEN [start |-> Bucket(q.ts, MinuteLen), open |-> q.price, high |-> q.price,
          low |-> q.price, close |-> q.price, vol |-> delta, last |-> q.seq,
          count |-> 1, final |-> FALSE, at |-> q.ts]
    ELSE [c EXCEPT !.high = Max({@, q.price}), !.low = Min({@, q.price}),
                   !.close = q.price, !.vol = @ + delta, !.last = q.seq,
                   !.count = @ + 1, !.at = q.ts]

\* _update_one_minute: a candle of an earlier bucket is finalised first
Minute(s, q, delta) ==
    LET c == s.cur["1m"]
        closes == c # None /\ c.start # Bucket(q.ts, MinuteLen)
        closing == IF closes
                   THEN SaveCandle(s, "1m", [c EXCEPT !.final = TRUE, !.at = q.ts])
                   ELSE <<>>
    IN  closing \o SaveCandle(Last(<<s>> \o closing), "1m",
                              Extended(IF closes THEN None ELSE c, q, delta))

\* The minutes get_candles reads: the range includes its end, and of what it
\* holds the latest five (as many as a 5m bucket has) are kept
MinutesOf(s, start) ==
    LET range == {x \in s.hist["1m"] : x.start \in start .. start + FiveLen}
    IN  {x \in range : Cardinality({y \in range : y.start > x.start}) < FiveLen \div MinuteLen}

\* The 5m candle of the minutes ms of its bucket
Summed(ms, start) ==
    LET first == CHOOSE x \in ms : \A y \in ms : x.start <= y.start
        final == CHOOSE x \in ms : \A y \in ms : x.start >= y.start
    IN  [start |-> start, open |-> first.open, high |-> Max({x.high : x \in ms}),
         low |-> Min({x.low : x \in ms}), close |-> final.close,
         vol |-> MapThenSumSet(LAMBDA x : x.vol, ms), last |-> final.last,
         count |-> MapThenSumSet(LAMBDA x : x.count, ms), final |-> FALSE,
         at |-> final.at]

\* _derive_five_minute from the current minute: a candle of an earlier 5m
\* bucket is finalised first, as it was saved last
Five(s) ==
    LET one == s.cur["1m"]
        start == Bucket(one.start, FiveLen)
        old == s.cur["5m"]
        closing == IF old # None /\ old.start # start
                   THEN SaveCandle(s, "5m", [old EXCEPT !.final = TRUE, !.at = one.at])
                   ELSE <<>>
    IN  closing \o SaveCandle(Last(<<s>> \o closing), "5m",
                              Summed(MinutesOf(s, start), start))

=============================================================================
