---------------------------- MODULE QuoteFeed ----------------------------
(***************************************************************************)
(* The way of a quote of one security: the broker's callback thread puts   *)
(* it in the provider's queue; the manager's ingestion loop takes it, has  *)
(* it saved to Redis and published if it is newer than the cached one, and *)
(* then folded into the candles; the hub hears what was published, keeps   *)
(* the latest quote per session, and sends it at its next round.  A Redis  *)
(* command that fails ends the handling of the quote where it is; a crash  *)
(* of the process keeps only Redis.                                        *)
(***************************************************************************)
EXTENDS IntradayCandles

CONSTANTS Prices,         \* prices of a trade
          DayLen,         \* clock units of a trading day
          CacheLife,      \* clock units a cached quote lives, at least
          MaxClock,       \* bound: last time
          MaxTrades,      \* bound: trades
          MaxQueue,       \* bound: quotes waiting, when a trade or a bid comes
          MaxFaults       \* bound: failures, crashes, link losses

VARIABLES now,            \* the exchange's clock
          total,          \* the exchange's total volume of the day
          trades,         \* trades so far
          provider,       \* _sequence, _latest, _connected of the provider
          queue,          \* _queue: quotes the ingestion has not taken
          store,          \* Redis
          wire,           \* numbers of the quotes published, not yet heard by the hub
          client,         \* a web socket session of the hub and what it was sent
          tape,           \* history: the quotes the cache took
          faults,         \* faults so far
          torn            \* history: a quote was given up half handled

vars == <<now, total, trades, provider, queue, store, wire, client, tape, faults, torn>>
market == <<now, total, trades>>

\* A session: is it routed to, was it sent its snapshot, the number of the
\* quote pending for it (0: none), and of the one it was shown last
Closed == [state |-> "closed", pending |-> 0, shown |-> 0]
Started == [seq |-> 0, latest |-> None, connected |-> TRUE]

Init ==
    /\ now = 0
    /\ total = 0
    /\ trades = 0
    /\ provider = Started
    /\ queue = <<>>
    /\ store = EmptyStore
    /\ wire = <<>>
    /\ client = Closed
    /\ tape = <<>>
    /\ faults = 0
    /\ torn = FALSE

-----------------------------------------------------------------------------
(* The exchange and the provider's callbacks                               *)

\* Time passes; the total volume starts anew with the trading day
Clock ==
    /\ now < MaxClock
    /\ now' = now + 1
    /\ total' = IF now' % DayLen = 0 THEN 0 ELSE total
    /\ UNCHANGED <<trades, provider, queue, store, wire, client, tape, faults, torn>>

\* A trade; with the link up, map_tick numbers it, keeps it and queues it
Trade(p) ==
    LET q == [seq |-> provider.seq + 1, ts |-> now, price |-> p, vol |-> total + 1]
    IN  /\ trades < MaxTrades
        /\ Len(queue) < MaxQueue
        /\ trades' = trades + 1
        /\ total' = total + 1
        /\ IF provider.connected
           THEN /\ provider' = [provider EXCEPT !.seq = q.seq, !.latest = q]
                /\ queue' = Append(queue, q)
           ELSE UNCHANGED <<provider, queue>>
        /\ UNCHANGED <<now, store, wire, client, tape, faults, torn>>

\* Bids and asks: the latest quote again, with a new timestamp and its old number
BidAsk ==
    LET q == [provider.latest EXCEPT !.ts = now]
    IN  /\ provider.connected
        /\ provider.latest # None
        /\ provider.latest.ts < now
        /\ Len(queue) < MaxQueue
        /\ provider' = [provider EXCEPT !.latest = q]
        /\ queue' = Append(queue, q)
        /\ UNCHANGED <<market, store, wire, client, tape, faults, torn>>

\* _on_event: the link is lost, the latest quote is queued once more (as STALE)
LinkDown ==
    /\ faults < MaxFaults
    /\ provider.connected
    /\ provider' = [provider EXCEPT !.connected = FALSE]
    /\ queue' = IF provider.latest = None THEN queue ELSE Append(queue, provider.latest)
    /\ faults' = faults + 1
    /\ UNCHANGED <<market, store, wire, client, tape, torn>>

\* stream_quotes logs in again before it waits on the queue
Reconnect ==
    /\ ~provider.connected
    /\ provider' = [provider EXCEPT !.connected = TRUE]
    /\ UNCHANGED <<market, queue, store, wire, client, tape, faults, torn>>

-----------------------------------------------------------------------------
(* The ingestion loop.  Only this loop writes what it reads of Redis, so   *)
(* that the handling of a quote is one step, or a part of one if it fails. *)

\* save_and_publish_quote takes a quote the cached one does not outnumber
Newer(q) == store.cache = None \/ q.seq > store.cache.seq

\* accept: the volume baseline is read and overwritten, the minute updated
\* unless the quote is out of order, and the five minutes derived from it
Accept(s, q) ==
    LET based == [s EXCEPT !.base = q.vol]
        minute == Minute(based, q, VolumeDelta(s, q))
    IN  IF OutOfOrder(s, q) THEN <<based>>
        ELSE <<based>> \o minute \o Five(Last(minute))

\* The stores the Redis commands of _ingestion_loop go through
Writes(q) ==
    LET saved == [store EXCEPT !.cache = q]
    IN  IF Newer(q) THEN <<saved>> \o Accept(saved, q) ELSE <<>>

Ingest ==
    /\ provider.connected
    /\ queue # <<>>
    /\ LET q == Head(queue)
       IN  /\ store' = Last(<<store>> \o Writes(q))
           /\ wire' = IF Newer(q) THEN Append(wire, q.seq) ELSE wire
           /\ tape' = IF Newer(q) THEN Append(tape, q) ELSE tape
    /\ queue' = Tail(queue)
    /\ UNCHANGED <<market, provider, client, faults, torn>>

\* The first k commands are done, then one fails: the quote is handled no
\* further.  It may be saved and not yet published.
Stopped(q, k) ==
    /\ k < Len(Writes(q))
    /\ store' = (<<store>> \o Writes(q))[k + 1]
    /\ \E sent \in IF k = 1 THEN BOOLEAN ELSE {k > 1} :
          wire' = IF sent THEN Append(wire, q.seq) ELSE wire
    /\ tape' = IF k > 0 THEN Append(tape, q) ELSE tape
    /\ torn' = TRUE

\* A Redis command raises: the loop logs it, waits and streams on
RedisFails ==
    /\ faults < MaxFaults
    /\ provider.connected
    /\ queue # <<>>
    /\ \E k \in 0..Len(Writes(Head(queue))) : Stopped(Head(queue), k)
    /\ queue' = Tail(queue)
    /\ faults' = faults + 1
    /\ UNCHANGED <<market, provider, client>>

\* The process dies, maybe while it handles a quote, and starts again: the
\* provider numbers from the beginning, nobody is connected
Crash ==
    /\ faults < MaxFaults
    /\ \/ UNCHANGED <<store, tape, torn>>
       \/ /\ provider.connected
          /\ queue # <<>>
          /\ \E k \in 0..Len(Writes(Head(queue))) :
                /\ k < Len(Writes(Head(queue)))
                /\ store' = (<<store>> \o Writes(Head(queue)))[k + 1]
                /\ tape' = IF k > 0 THEN Append(tape, Head(queue)) ELSE tape
                /\ torn' = TRUE
    /\ provider' = Started
    /\ queue' = <<>>
    /\ wire' = <<>>
    /\ client' = Closed
    /\ faults' = faults + 1
    /\ UNCHANGED market

\* Redis drops a quote that lived its time
Expire ==
    /\ store.cache # None
    /\ now >= store.cache.ts + CacheLife
    /\ store' = [store EXCEPT !.cache = None]
    /\ UNCHANGED <<market, provider, queue, wire, client, tape, faults, torn>>

-----------------------------------------------------------------------------
(* The hub                                                                 *)

\* handle_subscribe routes the session first and sends it a snapshot after
Subscribe ==
    /\ client.state = "closed"
    /\ client' = [Closed EXCEPT !.state = "subscribed"]
    /\ UNCHANGED <<market, provider, queue, store, wire, tape, faults, torn>>

Snapshot ==
    /\ client.state = "subscribed"
    /\ client' = [client EXCEPT !.state = "served",
                                !.shown = IF store.cache = None THEN @ ELSE store.cache.seq]
    /\ UNCHANGED <<market, provider, queue, store, wire, tape, faults, torn>>

\* Variant: what is pending stays until it is sent
Pending_First(new) == IF client.pending = 0 THEN new ELSE client.pending
\* What is pending once another quote was heard
Pending(new) == new

\* _listen_redis_pubsub, _route_quote: a later quote replaces a pending one
Hear ==
    /\ wire # <<>>
    /\ wire' = Tail(wire)
    /\ client' = IF client.state \in {"subscribed", "served"}
                 THEN [client EXCEPT !.pending = Pending(Head(wire))] ELSE client
    /\ UNCHANGED <<market, provider, queue, store, tape, faults, torn>>

\* _coalesced_dispatch_loop: what is pending is sent
Dispatch ==
    /\ client.state \in {"subscribed", "served"}
    /\ client.pending # 0
    /\ client' = [client EXCEPT !.pending = 0, !.shown = client.pending]
    /\ UNCHANGED <<market, provider, queue, store, wire, tape, faults, torn>>

\* The send fails: what was pending is dropped and the session sent no more
SendFails ==
    /\ faults < MaxFaults
    /\ client.state \in {"subscribed", "served"}
    /\ client.pending # 0
    /\ client' = [client EXCEPT !.state = "dead", !.pending = 0]
    /\ faults' = faults + 1
    /\ UNCHANGED <<market, provider, queue, store, wire, tape, torn>>

Hub == Subscribe \/ Snapshot \/ Hear \/ Dispatch \/ SendFails

Next ==
    \/ Clock \/ (\E p \in Prices : Trade(p)) \/ BidAsk \/ LinkDown \/ Reconnect
    \/ Ingest \/ RedisFails \/ Crash \/ Expire
    \/ Hub

Spec == Init /\ [][Next]_vars

-----------------------------------------------------------------------------
(* Properties                                                              *)

Quotes == [seq: 1..MaxTrades, ts: 0..MaxClock, price: Prices, vol: 1..MaxTrades]
Candles == [start: 0..MaxClock, open: Prices, high: Prices, low: Prices,
            close: Prices, vol: 0..MaxTrades, last: 1..MaxTrades, count: Nat,
            final: BOOLEAN, at: 0..MaxClock]

\* Every variable keeps its type: in particular no candle has a negative
\* volume and an interval has one candle per bucket (zrem before zadd).
TypeOK ==
    /\ now \in 0..MaxClock
    /\ {total, trades} \subseteq 0..MaxTrades
    /\ provider.seq \in 0..MaxTrades
    /\ provider.latest \in Quotes \cup {None}
    /\ queue \in Seq(Quotes) /\ wire \in Seq(1..MaxTrades) /\ tape \in Seq(Quotes)
    /\ store.cache \in Quotes \cup {None}
    /\ store.base \in 1..MaxTrades \cup {None}
    /\ \A i \in Intervals :
          /\ store.hist[i] \subseteq Candles
          /\ store.cur[i] \in Candles \cup {None}
          /\ \A c, d \in store.hist[i] : c.start = d.start => c = d
    /\ client.state \in {"closed", "subscribed", "served", "dead"}
    /\ {client.pending, client.shown} \subseteq 0..MaxTrades
    /\ faults \in 0..MaxFaults
    /\ torn \in BOOLEAN

\* The reference: the trades of a bucket are those of the tape with a new
\* number, and each adds what the total grew by since the quote before it
News == {i \in DOMAIN tape : \A j \in 1 .. i - 1 : tape[j].seq < tape[i].seq}
Growth(i) == IF i > 1 /\ tape[i].vol >= tape[i - 1].vol
             THEN tape[i].vol - tape[i - 1].vol ELSE 0
Length(interval) == IF interval = "1m" THEN MinuteLen ELSE FiveLen
InBucket(start, len) == {i \in News : Bucket(tape[i].ts, len) = start}

OfTrades(start, len) ==
    LET b == InBucket(start, len)
    IN  [start |-> start, open |-> tape[Min(b)].price, close |-> tape[Max(b)].price,
         high |-> Max({tape[i].price : i \in b}), low |-> Min({tape[i].price : i \in b}),
         vol |-> MapThenSumSet(Growth, b), count |-> Cardinality(b),
         final |-> Max(b) # Max(News)]

Shape(c) == [start |-> c.start, open |-> c.open, close |-> c.close, high |-> c.high,
             low |-> c.low, vol |-> c.vol, count |-> c.count,
             final |-> c.final]

NothingInvented ==
    /\ \A i \in Intervals : \A c \in store.hist[i] :
          {c.open, c.high, c.low, c.close} \subseteq
             {tape[n].price : n \in {m \in DOMAIN tape :
                                        Bucket(tape[m].ts, Length(i)) = c.start}}
    /\ \A i \in Intervals :
          MapThenSumSet(LAMBDA c : c.vol, store.hist[i]) <= trades

\* As long as none was given up half handled, the 1m
\* and the 5m history are exactly what the trades of each bucket make them,
\* and all candles but the last are final: whatever order the finalising, the
\* baseline, the current key and the derivation from the minutes run in, over
\* link losses, repeated quotes and restarts.  And whatever fails between two
\* Redis commands, the history never shows a price that was not traded in its
\* bucket, and the day's candles never add up to more volume than was traded.
CandlesAreTrades ==
    /\ ~torn =>
          \A i \in Intervals :
             LET len == Length(i)
             IN  {Shape(c) : c \in store.hist[i]}
                   = {OfTrades(s, len) : s \in {Bucket(tape[n].ts, len) : n \in News}}
    /\ NothingInvented

\* A session with nothing pending has been shown the cached quote, whichever
\* way its snapshot, the coalescing and the dispatch rounds interleave with new
\* quotes: none is skipped for good.  A save whose publication failed is the
\* exception.
UpToDate ==
    client.state = "served" /\ wire = <<>> /\ client.pending = 0 /\ ~torn =>
        store.cache = None \/ client.shown = store.cache.seq

=============================================================================
