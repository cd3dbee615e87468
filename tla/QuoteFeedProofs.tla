-------------------------- MODULE QuoteFeedProofs --------------------------
(***************************************************************************)
(* That a session of the hub is shown the quote Redis has, for any prices, *)
(* times and bounds.  What is shown, what is pending and what is still on  *)
(* the way follow each other: the invariant says that the last of them is  *)
(* the number of the cached quote.                                         *)
(***************************************************************************)
EXTENDS QuoteFeed, TLAPS

Numbers == Nat \ {0}
Quote == [seq : Numbers, ts : Nat, price : Prices, vol : Nat]

\* What the quotes on the way are
Providers == [seq : Nat, latest : Quote \cup {None}, connected : BOOLEAN]
Clients == [state : {"closed", "subscribed", "served", "dead"}, pending : Nat, shown : Nat]
FeedTypeOK ==
    /\ now \in Nat /\ total \in Nat
    /\ provider \in Providers
    /\ queue \in Seq(Quote)
    /\ wire \in Seq(Numbers)
    /\ client \in Clients
    /\ "cache" \in DOMAIN store
    /\ store.cache # None => store.cache.seq \in Numbers

\* The session hears last of the quote that is cached.
Told ==
    /\ client.state \in {"closed", "dead"} => client.pending = 0
    /\ store.cache # None =>
          /\ wire # <<>> => Last(wire) = store.cache.seq
          /\ wire = <<>> /\ client.pending # 0 => client.pending = store.cache.seq
          /\ wire = <<>> /\ client.pending = 0 /\ client.state = "served" =>
                client.shown = store.cache.seq

FeedInv == torn \/ (FeedTypeOK /\ Told)

-----------------------------------------------------------------------------
(* The stores a quote goes through, once it is cached, all have it cached. *)
Has(stores, q) ==
    \E S : stores \in Seq(S) /\ \A s \in S : "cache" \in DOMAIN s /\ s.cache = q

(* So do the stores of two series of commands, one after the other.        *)
LEMMA HasBoth ==
    ASSUME NEW a, NEW b, NEW q, Has(a, q), Has(b, q)
    PROVE  Has(a \o b, q)
<1>1. PICK S : a \in Seq(S) /\ \A s \in S : "cache" \in DOMAIN s /\ s.cache = q
  BY DEF Has
<1>2. PICK T : b \in Seq(T) /\ \A s \in T : "cache" \in DOMAIN s /\ s.cache = q
  BY DEF Has
<1>3. a \in Seq(S \cup T) /\ b \in Seq(S \cup T)
  BY <1>1, <1>2
<1>4. a \o b \in Seq(S \cup T)
  BY <1>3
<1> QED
  BY <1>1, <1>2, <1>4 DEF Has

LEMMA HasOne ==
    ASSUME NEW s, "cache" \in DOMAIN s
    PROVE  Has(<<s>>, s.cache) /\ Has(<<>>, s.cache)
<1> DEFINE only == {s}
<1>1. <<s>> \in Seq(only) /\ <<>> \in Seq(only)
  OBVIOUS
<1>2. \A t \in only : "cache" \in DOMAIN t /\ t.cache = s.cache
  OBVIOUS
<1> HIDE DEF only
<1> QED
  BY <1>1, <1>2 DEF Has

(* The last of the stores, after another one.                              *)
LEMMA LastHas ==
    ASSUME NEW s, NEW a, NEW q, Has(a, q)
    PROVE  /\ a # <<>> => /\ "cache" \in DOMAIN Last(<<s>> \o a)
                          /\ Last(<<s>> \o a).cache = q
           /\ a = <<>> => Last(<<s>> \o a) = s
<1>1. PICK S : a \in Seq(S) /\ \A t \in S : "cache" \in DOMAIN t /\ t.cache = q
  BY DEF Has
<1>2. /\ a \in Seq(S \cup {s}) /\ <<s>> \in Seq(S \cup {s})
      /\ Len(a) \in Nat /\ Len(<<s>>) = 1
  BY <1>1
<1>3. Len(<<s>> \o a) = 1 + Len(a)
  BY <1>2
<1>4. CASE a # <<>>
  <2>1. Len(a) > 0
    BY <1>1, <1>4
  <2>2. (<<s>> \o a)[1 + Len(a)] = a[Len(a)] /\ a[Len(a)] \in S
    BY <1>1, <1>2, <2>1
  <2> QED
    BY <1>1, <1>3, <1>4, <2>2 DEF Last
<1>5. CASE a = <<>>
  BY <1>5 DEF Last
<1> QED
  BY <1>4, <1>5

(* save_candle, _update_one_minute and _derive_five_minute leave the       *)
(* cached quote alone.                                                     *)
LEMMA SavesKeep ==
    ASSUME NEW s, "cache" \in DOMAIN s, NEW i, NEW c
    PROVE  Has(SaveCandle(s, i, c), s.cache) /\ SaveCandle(s, i, c) # <<>>
<1> DEFINE gone == [s EXCEPT !.hist[i] = {x \in @ : x.start # c.start}]
           added == [gone EXCEPT !.hist[i] = @ \cup {c}]
           done == [added EXCEPT !.cur[i] = IF c.final THEN None ELSE c]
<1>1. "cache" \in DOMAIN gone /\ gone.cache = s.cache
  OBVIOUS
<1>2. "cache" \in DOMAIN added /\ added.cache = gone.cache
  BY <1>1
<1>3. "cache" \in DOMAIN done /\ done.cache = added.cache
  BY <1>2
<1>4. SaveCandle(s, i, c) = <<gone, added, done>>
  BY DEF SaveCandle
<1> HIDE DEF gone, added, done
<1> DEFINE three == {gone, added, done}
<1>5. <<gone, added, done>> \in Seq(three) /\ <<gone, added, done>> # <<>>
  OBVIOUS
<1>6. \A t \in three : "cache" \in DOMAIN t /\ t.cache = s.cache
  BY <1>1, <1>2, <1>3
<1> HIDE DEF three
<1> QED
  BY <1>4, <1>5, <1>6 DEF Has

(* A candle is saved after one that is closed, or at once.                 *)
LEMMA ClosedFirst ==
    ASSUME NEW s, "cache" \in DOMAIN s, NEW closing, Has(closing, s.cache), NEW i, NEW c
    PROVE  LET all == closing \o SaveCandle(Last(<<s>> \o closing), i, c)
           IN  Has(all, s.cache) /\ all # <<>>
<1> DEFINE t == Last(<<s>> \o closing)
<1>1. "cache" \in DOMAIN t /\ t.cache = s.cache
  BY LastHas
<1> HIDE DEF t
<1>2. Has(SaveCandle(t, i, c), s.cache) /\ SaveCandle(t, i, c) # <<>>
  BY <1>1, SavesKeep
<1> DEFINE saves == SaveCandle(t, i, c)
<1>3. Has(closing \o saves, s.cache)
  BY <1>2, HasBoth
<1>4. closing \o saves # <<>>
  <2>1. PICK S : closing \in Seq(S)
    BY DEF Has
  <2>2. PICK T : saves \in Seq(T)
    BY <1>2 DEF Has
  <2>3. closing \in Seq(S \cup T) /\ saves \in Seq(S \cup T) /\ saves # <<>>
    BY <1>2, <2>1, <2>2
  <2> HIDE DEF saves
  <2>4. Len(closing \o saves) = Len(closing) + Len(saves) /\ Len(saves) > 0 /\ Len(closing) \in Nat
    BY <2>3
  <2> QED
    BY <2>4
<1> QED
  BY <1>3, <1>4 DEF t

LEMMA MinuteKeeps ==
    ASSUME NEW s, "cache" \in DOMAIN s, NEW q, NEW delta
    PROVE  Has(Minute(s, q, delta), s.cache) /\ Minute(s, q, delta) # <<>>
<1> DEFINE c == s.cur["1m"]
           closes == c # None /\ c.start # Bucket(q.ts, MinuteLen)
           closing == IF closes
                      THEN SaveCandle(s, "1m", [c EXCEPT !.final = TRUE, !.at = q.ts])
                      ELSE <<>>
<1>1. Has(closing, s.cache)
  BY SavesKeep, HasOne
<1>2. Minute(s, q, delta)
        = closing \o SaveCandle(Last(<<s>> \o closing), "1m",
                                Extended(IF closes THEN None ELSE c, q, delta))
  BY DEF Minute
<1> HIDE DEF closing, closes, c
<1> QED
  BY <1>1, <1>2, ClosedFirst

LEMMA FiveKeeps ==
    ASSUME NEW s, "cache" \in DOMAIN s
    PROVE  Has(Five(s), s.cache) /\ Five(s) # <<>>
<1> DEFINE one == s.cur["1m"]
           start == Bucket(one.start, FiveLen)
           old == s.cur["5m"]
           closing == IF old # None /\ old.start # start
                      THEN SaveCandle(s, "5m", [old EXCEPT !.final = TRUE, !.at = one.at])
                      ELSE <<>>
<1>1. Has(closing, s.cache)
  BY SavesKeep, HasOne
<1>2. Five(s) = closing \o SaveCandle(Last(<<s>> \o closing), "5m",
                                      Summed(MinutesOf(s, start), start))
  BY DEF Five
<1> HIDE DEF closing, old, start, one
<1> QED
  BY <1>1, <1>2, ClosedFirst

(* The last of a series that is not empty is one of it.                    *)
LEMMA LastOf ==
    ASSUME NEW a, NEW q, Has(a, q), a # <<>>
    PROVE  "cache" \in DOMAIN Last(a) /\ Last(a).cache = q
<1>1. PICK S : a \in Seq(S) /\ \A t \in S : "cache" \in DOMAIN t /\ t.cache = q
  BY DEF Has
<1>2. Len(a) \in 1 .. Len(a)
  BY <1>1
<1>3. a[Len(a)] \in S
  BY <1>1, <1>2
<1> QED
  BY <1>1, <1>3 DEF Last

(* What _ingestion_loop writes of a quote: it is cached first and stays.   *)
LEMMA WritesCache ==
    ASSUME "cache" \in DOMAIN store, NEW q
    PROVE  IF Newer(q) THEN Has(Writes(q), q) /\ Writes(q) # <<>> ELSE Writes(q) = <<>>
<1> DEFINE saved == [store EXCEPT !.cache = q]
           based == [saved EXCEPT !.base = q.vol]
           minute == Minute(based, q, VolumeDelta(saved, q))
<1>1. "cache" \in DOMAIN saved /\ saved.cache = q
  OBVIOUS
<1>2. "cache" \in DOMAIN based /\ based.cache = q
  BY <1>1
<1>3. Has(minute, q) /\ minute # <<>>
  <2> HIDE DEF based, saved
  <2> QED
    BY <1>2, MinuteKeeps
<1>4. "cache" \in DOMAIN Last(minute) /\ Last(minute).cache = q
  <2> HIDE DEF minute
  <2> QED
    BY <1>3, LastOf
<1>5. Has(Five(Last(minute)), q)
  BY <1>4, FiveKeeps
<1>6. Has(<<based>>, q) /\ Has(<<saved>>, q)
  <2> HIDE DEF based, saved
  <2> QED
    BY <1>1, <1>2, HasOne
<1>7. Accept(saved, q) = IF OutOfOrder(saved, q) THEN <<based>>
                         ELSE <<based>> \o minute \o Five(Last(minute))
  BY DEF Accept
<1>8. Has(Accept(saved, q), q)
  <2> HIDE DEF minute, based, saved
  <2>1. Has(<<based>> \o minute, q)
    BY <1>3, <1>6, HasBoth
  <2>2. Has((<<based>> \o minute) \o Five(Last(minute)), q)
    BY <1>5, <2>1, HasBoth
  <2> QED
    BY <1>6, <1>7, <2>2
<1>9. Writes(q) = IF Newer(q) THEN <<saved>> \o Accept(saved, q) ELSE <<>>
  BY DEF Writes
<1>10. Has(<<saved>> \o Accept(saved, q), q)
  <2> HIDE DEF saved
  <2> QED
    BY <1>6, <1>8, HasBoth
<1>11. <<saved>> \o Accept(saved, q) # <<>>
  <2> HIDE DEF saved
  <2>1. PICK S : Accept(saved, q) \in Seq(S)
    BY <1>8 DEF Has
  <2>2. Accept(saved, q) \in Seq(S \cup {saved}) /\ <<saved>> \in Seq(S \cup {saved})
    BY <2>1
  <2>3. Len(<<saved>> \o Accept(saved, q)) = 1 + Len(Accept(saved, q)) /\ Len(Accept(saved, q)) \in Nat
    BY <2>2
  <2> QED
    BY <2>3
<1> QED
  BY <1>9, <1>10, <1>11

-----------------------------------------------------------------------------
LEMMA FeedInvInitially == Init => FeedInv
BY DEF Init, FeedInv, FeedTypeOK, Told, Started, Closed, EmptyStore, Providers, Clients

(* The provider's callbacks and the clock do not touch what the hub hears. *)
LEMMA ProviderStep ==
    ASSUME FeedTypeOK, Told,
           \/ Clock \/ (\E p \in Prices : Trade(p)) \/ BidAsk \/ LinkDown \/ Reconnect
    PROVE  FeedTypeOK' /\ Told'
<1>1. UNCHANGED <<store, wire, client>>
  BY DEF Clock, Trade, BidAsk, LinkDown, Reconnect
<1>2. now' \in Nat /\ total' \in Nat
  <2>1. now \in Nat /\ total \in Nat
    BY DEF FeedTypeOK
  <2>2. Clock => now' = now + 1 /\ total' \in {0, total}
    BY DEF Clock
  <2>3. \A p \in Prices : Trade(p) => now' = now /\ total' = total + 1
    BY DEF Trade
  <2>4. BidAsk \/ LinkDown \/ Reconnect => now' = now /\ total' = total
    BY DEF BidAsk, LinkDown, Reconnect, market
  <2> QED
    BY <2>1, <2>2, <2>3, <2>4
<1>3. /\ provider' \in Providers
      /\ queue' \in Seq(Quote)
  <2>1. CASE Clock \/ Reconnect
    BY <2>1 DEF Clock, Reconnect, FeedTypeOK, Providers
  <2>2. ASSUME NEW p \in Prices, Trade(p)
        PROVE  /\ provider' \in Providers
               /\ queue' \in Seq(Quote)
    <3> DEFINE q == [seq |-> provider.seq + 1, ts |-> now, price |-> p, vol |-> total + 1]
    <3>1. q \in Quote /\ q.seq \in Nat
      BY DEF Quote, Numbers, FeedTypeOK, Providers
    <3>2. \/ provider' = [provider EXCEPT !.seq = q.seq, !.latest = q] /\ queue' = Append(queue, q)
          \/ UNCHANGED <<provider, queue>>
      BY <2>2 DEF Trade
    <3> HIDE DEF q
    <3>3. provider \in Providers /\ queue \in Seq(Quote)
      BY DEF FeedTypeOK
    <3>4. [provider EXCEPT !.seq = q.seq, !.latest = q] \in Providers
      BY <3>1, <3>3 DEF Providers
    <3> QED
      BY <3>1, <3>2, <3>3, <3>4
  <2>3. CASE BidAsk
    <3> DEFINE q == [provider.latest EXCEPT !.ts = now]
    <3>1. q \in Quote
      BY <2>3 DEF BidAsk, Quote, FeedTypeOK, Providers
    <3>2. provider' = [provider EXCEPT !.latest = q] /\ queue' = Append(queue, q)
      BY <2>3 DEF BidAsk
    <3> HIDE DEF q
    <3>3. provider \in Providers /\ queue \in Seq(Quote)
      BY DEF FeedTypeOK
    <3>4. [provider EXCEPT !.latest = q] \in Providers
      BY <3>1, <3>3 DEF Providers
    <3> QED
      BY <3>1, <3>2, <3>3, <3>4
  <2>4. CASE LinkDown
    <3>1. provider' = [provider EXCEPT !.connected = FALSE]
          /\ queue' = IF provider.latest = None THEN queue ELSE Append(queue, provider.latest)
      BY <2>4 DEF LinkDown
    <3>2. provider \in Providers /\ queue \in Seq(Quote)
      BY DEF FeedTypeOK
    <3>3. [provider EXCEPT !.connected = FALSE] \in Providers
      BY <3>2 DEF Providers
    <3>4. provider.latest # None => provider.latest \in Quote
      BY <3>2 DEF Providers
    <3> QED
      BY <3>1, <3>2, <3>3, <3>4
  <2> QED
    BY <2>1, <2>2, <2>3, <2>4
<1> QED
  BY <1>1, <1>2, <1>3 DEF FeedTypeOK, Told

(* _ingestion_loop publishes the quote it has cached.                      *)
LEMMA IngestStep ==
    ASSUME FeedTypeOK, Told, Ingest
    PROVE  FeedTypeOK' /\ Told'
<1> DEFINE q == Head(queue)
<1>1. /\ queue \in Seq(Quote) /\ queue # <<>> /\ queue' = Tail(queue)
      /\ store' = Last(<<store>> \o Writes(q))
      /\ wire' = IF Newer(q) THEN Append(wire, q.seq) ELSE wire
      /\ UNCHANGED <<now, total, provider, client>>
  BY DEF Ingest, FeedTypeOK, market
<1>2. q \in Quote /\ queue' \in Seq(Quote)
  BY <1>1
<1>3. q.seq \in Numbers
  BY <1>2 DEF Quote
<1> HIDE DEF q
<1>4. CASE Newer(q)
  <2>1. "cache" \in DOMAIN store' /\ store'.cache = q
    BY <1>1, <1>4, WritesCache, LastHas DEF FeedTypeOK
  <2>2. wire' = Append(wire, q.seq) /\ wire \in Seq(Numbers)
    BY <1>1, <1>4 DEF FeedTypeOK
  <2>3. wire' \in Seq(Numbers) /\ wire' # <<>> /\ Last(wire') = q.seq
    BY <1>3, <2>2 DEF Last
  <2>4. FeedTypeOK'
    BY <1>1, <1>2, <1>3, <2>1, <2>3 DEF FeedTypeOK
  <2>5. Told'
    BY <1>1, <2>1, <2>3 DEF Told
  <2> QED
    BY <2>4, <2>5
<1>5. CASE ~Newer(q)
  <2>1. store' = store
    <3>1. Writes(q) = <<>>
      BY <1>5, WritesCache DEF FeedTypeOK
    <3> QED
      BY <1>1, <3>1, HasOne, LastHas DEF FeedTypeOK
  <2> QED
    BY <1>1, <1>2, <1>5, <2>1 DEF FeedTypeOK, Told
<1> QED
  BY <1>4, <1>5

(* Redis, the process and the hub.                                         *)
LEMMA HubStep ==
    ASSUME FeedTypeOK, Told, Crash \/ Expire \/ Hub
    PROVE  torn' \/ (FeedTypeOK' /\ Told')
<1>1. CASE Crash
  <2>1. UNCHANGED store \/ torn'
    BY <1>1 DEF Crash
  <2>2. provider' = Started /\ queue' = <<>> /\ wire' = <<>> /\ client' = Closed /\ UNCHANGED market
    BY <1>1 DEF Crash
  <2>3. Started \in Providers
        /\ <<>> \in Seq(Quote) /\ <<>> \in Seq(Numbers)
        /\ Closed \in Clients
    BY DEF Started, Closed, Providers, Clients
  <2>4. UNCHANGED store => FeedTypeOK'
    BY <2>2, <2>3 DEF FeedTypeOK, market
  <2>5. UNCHANGED store => Told'
    BY <2>2 DEF Told, Closed
  <2> QED
    BY <2>1, <2>4, <2>5
<1>2. CASE Expire
  <2>1. store' = [store EXCEPT !.cache = None] /\ UNCHANGED <<now, total, provider, queue, wire, client>>
    BY <1>2 DEF Expire, market
  <2>2. "cache" \in DOMAIN store' /\ store'.cache = None
    BY <2>1 DEF FeedTypeOK
  <2> QED
    BY <2>1, <2>2 DEF FeedTypeOK, Told
<1>3. CASE Hub
  <2>1. UNCHANGED <<now, total, provider, queue, store>>
    BY <1>3 DEF Hub, Subscribe, Snapshot, Hear, Dispatch, SendFails, market
  <2>2. wire \in Seq(Numbers) /\ "cache" \in DOMAIN store
        /\ client \in Clients
    BY DEF FeedTypeOK
  <2>3. CASE Subscribe
    <3>1. client' = [state |-> "subscribed", pending |-> 0, shown |-> 0] /\ wire' = wire
          /\ client.state = "closed"
      BY <2>3 DEF Subscribe, Closed
    <3>2. client' \in Clients
      BY <3>1 DEF Clients
    <3>3. Told'
      BY <2>1, <3>1 DEF Told
    <3> QED
      BY <2>1, <3>1, <3>2, <3>3 DEF FeedTypeOK
  <2>4. CASE Snapshot
    <3> DEFINE shown == IF store.cache = None THEN client.shown ELSE store.cache.seq
    <3>1. client' = [client EXCEPT !.state = "served", !.shown = shown] /\ wire' = wire
          /\ client.state = "subscribed"
      BY <2>4 DEF Snapshot
    <3>2. shown \in Nat /\ (store.cache # None => shown = store.cache.seq)
      BY <2>2 DEF FeedTypeOK, Numbers, Clients
    <3> HIDE DEF shown
    <3>3. client' \in Clients /\ client'.state = "served" /\ client'.shown = shown
          /\ client'.pending = client.pending
      BY <2>2, <3>1, <3>2 DEF Clients
    <3>4. FeedTypeOK'
      BY <2>1, <3>1, <3>3 DEF FeedTypeOK
    <3>5. Told'
      BY <2>1, <3>1, <3>2, <3>3 DEF Told
    <3> QED
      BY <3>4, <3>5
  <2>5. CASE Hear
    <3>1. wire # <<>> /\ wire' = Tail(wire) /\ Head(wire) \in Numbers
          /\ client' = IF client.state \in {"subscribed", "served"}
                       THEN [client EXCEPT !.pending = Head(wire)] ELSE client
      BY <2>2, <2>5 DEF Hear, Pending
    <3>2. wire' \in Seq(Numbers)
      BY <2>2, <3>1
    <3>3. wire' # <<>> => Last(wire') = Last(wire)
      BY <2>2, <3>1 DEF Last
    <3>4. wire' = <<>> => Last(wire) = Head(wire)
      <4>1. Len(wire') = Len(wire) - 1 /\ Len(wire) \in Nat /\ Head(wire) = wire[1]
        BY <2>2, <3>1
      <4>2. wire' = <<>> => Len(wire') = 0
        OBVIOUS
      <4>3. wire' = <<>> => Len(wire) = 1
        BY <4>1, <4>2
      <4> QED
        BY <4>1, <4>3 DEF Last
    <3>5. /\ client' \in Clients /\ client'.state = client.state
          /\ IF client.state \in {"subscribed", "served"}
             THEN client'.pending = Head(wire) ELSE client' = client
      BY <2>2, <3>1 DEF Clients, Numbers
    <3>6. FeedTypeOK'
      BY <2>1, <3>2, <3>5 DEF FeedTypeOK
    <3>7. Told'
      BY <2>1, <2>2, <3>1, <3>3, <3>4, <3>5 DEF Told, Numbers, Clients
    <3> QED
      BY <3>6, <3>7
  <2>6. CASE Dispatch
    <3>1. client' = [client EXCEPT !.pending = 0, !.shown = client.pending] /\ wire' = wire
          /\ client.pending # 0
      BY <2>6 DEF Dispatch
    <3>2. /\ client' \in Clients /\ client'.state = client.state
          /\ client'.pending = 0 /\ client'.shown = client.pending
      BY <2>2, <3>1 DEF Clients
    <3>3. Told'
      BY <2>1, <3>1, <3>2 DEF Told
    <3> QED
      BY <2>1, <3>1, <3>2, <3>3 DEF FeedTypeOK
  <2>7. CASE SendFails
    <3>1. client' = [client EXCEPT !.state = "dead", !.pending = 0] /\ wire' = wire
      BY <2>7 DEF SendFails
    <3>2. client' \in Clients /\ client'.state = "dead" /\ client'.pending = 0
      BY <2>2, <3>1 DEF Clients
    <3>3. Told'
      BY <2>1, <3>1, <3>2 DEF Told
    <3> QED
      BY <2>1, <3>1, <3>2, <3>3 DEF FeedTypeOK
  <2> QED
    BY <1>3, <2>3, <2>4, <2>5, <2>6, <2>7 DEF Hub
<1> QED
  BY <1>1, <1>2, <1>3

LEMMA FeedStep == FeedInv /\ [Next]_vars => FeedInv'
<1> SUFFICES ASSUME FeedInv, [Next]_vars PROVE FeedInv'
  OBVIOUS
<1>1. CASE torn
  BY <1>1 DEF FeedInv, Next, Clock, Trade, BidAsk, LinkDown, Reconnect, Ingest, RedisFails,
         Stopped, Crash, Expire, Hub, Subscribe, Snapshot, Hear, Dispatch, SendFails, vars
<1>2. CASE FeedTypeOK /\ Told
  <2>1. CASE RedisFails
    BY <2>1 DEF RedisFails, Stopped, FeedInv
  <2>2. CASE UNCHANGED vars
    BY <1>2, <2>2 DEF vars, FeedInv, FeedTypeOK, Told
  <2> QED
    BY <1>2, <2>1, <2>2, ProviderStep, IngestStep, HubStep DEF Next, FeedInv
<1> QED
  BY <1>1, <1>2 DEF FeedInv

(* While nothing was given up half handled, what a session was shown, has  *)
(* pending or is yet to hear ends with the number of the cached quote      *)
(* (realtime_hub.py _route_quote, _coalesced_dispatch_loop).               *)
THEOREM FeedInvariant == Spec => []FeedInv
BY FeedInvInitially, FeedStep, PTL DEF Spec

(* A session that was sent its snapshot and has nothing pending shows the  *)
(* cached quote, however its snapshot, the coalescing and the rounds of    *)
(* the dispatch interleave with new quotes, link losses and restarts.      *)
THEOREM SessionsAreUpToDate == Spec => []UpToDate
<1>1. FeedInv => UpToDate
  BY DEF FeedInv, Told, UpToDate
<1> QED
  BY <1>1, FeedInvariant, PTL
=============================================================================
