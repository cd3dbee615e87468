--------------------------- MODULE RealtimeStrength ---------------------------
(***************************************************************************)
(* The live ranking of sectors (industries and themes): every quote the    *)
(* cache took changes the snapshot of its market and those of the sectors  *)
(* of its stock, after which all sectors of their type are scored again.   *)
(* The snapshots go to Redis at once, the ranking at most every quarter of *)
(* a second.  A Redis command that fails ends the handling of the quote    *)
(* where it is, and what the process had changed in memory remains.        *)
(***************************************************************************)
EXTENDS Figures, Sequences

CONSTANTS ActiveStocks,            \* stocks with is_active, all of one market
          Sectors,           \* naturals, in the order of their ids
          TypeOf,            \* [Sectors -> types]
          Mappings,          \* rows <<stock, sector>> of the membership tables
          Quotes,            \* records [last, previous, status]; previous may be NoValue
          MaxQuotes,         \* bound: quotes that are taken
          MaxBroken          \* bound: Redis commands that fail

VARIABLE live                \* the aggregator's memory and what Redis has of it

(* Prices are whole numbers, the last close may be missing or 0.           *)
ASSUME LiveAssumption ==
    /\ IsFiniteSet(ActiveStocks) /\ IsFiniteSet(Sectors) /\ Sectors \subseteq Nat
    /\ \A q \in Quotes : q.last \in Nat /\ q.previous \in Nat \cup {NoValue}

Unseen == [status |-> "none"]
Types == {TypeOf[i] : i \in Sectors}

(* load_realtime_memberships: mappings of stocks that are not active are   *)
(* passed over; a process loads them once.                                 *)
MembersOf == [i \in Sectors |-> {s \in ActiveStocks : <<s, i>> \in Mappings}]

(* Variant: a stock is kept with one sector of each type.                  *)
SectorsOf_OneOfType ==
    [s \in ActiveStocks |-> {i \in Sectors : s \in MembersOf[i]
        /\ ~\E j \in Sectors : j > i /\ TypeOf[j] = TypeOf[i] /\ s \in MembersOf[j]}]

SectorsOf == [s \in ActiveStocks |-> {i \in Sectors : s \in MembersOf[i]}]

TypesOf(s) == {TypeOf[i] : i \in SectorsOf[s]}

-----------------------------------------------------------------------------
(* What quotes say of stocks                                               *)

Move(q) == (10000 * q.last) \div q.previous - 10000
Quoted(quotes, S) == {s \in S : quotes[s] # Unseen}
Usable(quotes, S) == {s \in Quoted(quotes, S) : quotes[s].previous \notin {NoValue, 0}}
Covered(part, S) == 10 * Cardinality(part) >= 6 * Cardinality(S)

(* RealtimeMarketAggregator.accept: a previous close of 0 counts here.     *)
MarketSnapshot(quotes, q) ==
    LET quoted == Quoted(quotes, ActiveStocks)
        valid == {s \in quoted : quotes[s].previous # NoValue}
        rise == {s \in valid : quotes[s].last > quotes[s].previous}
        fall == {s \in valid : quotes[s].last < quotes[s].previous}
    IN  [quoted |-> Cardinality(quoted), valid |-> Cardinality(valid),
         advancers |-> Cardinality(rise), decliners |-> Cardinality(fall),
         unchanged |-> Cardinality(valid) - Cardinality(rise) - Cardinality(fall),
         stale |-> Cardinality({s \in quoted : quotes[s].status # "LIVE"}),
         status |-> IF Covered(valid, ActiveStocks) THEN q.status ELSE "STALE"]

(* _aggregate: the mean of the returns and the share of the advancers of   *)
(* the members that can be used.  Technical participation and the share of *)
(* the turnover are never filled in.                                       *)
Aggregate(quotes, i, q) ==
    LET usable == Usable(quotes, MembersOf[i])
        MoveOf(s) == Move(quotes[s])
        rise == {s \in usable : MoveOf(s) > 0}
        seen == usable # {}
    IN  [momentum |-> IF seen THEN HalfUp(Total(MoveOf, usable), Cardinality(usable))
                      ELSE NoValue,
         breadth |-> IF seen THEN Ratio(rise, usable) ELSE NoValue,
         technical |-> NoValue, turnover |-> NoValue,
         valid |-> Cardinality(usable), quoted |-> Cardinality(Quoted(quotes, MembersOf[i])),
         status |-> IF Covered(usable, MembersOf[i]) THEN q.status ELSE "STALE",
         score |-> NoValue, rank |-> NoValue]

-----------------------------------------------------------------------------
(* RealtimeIndustryStrengthScoringService, over a table of snapshots       *)

LiveComponents == {"momentum", "breadth", "technical", "turnover"}
LiveWeight == [momentum |-> 35, breadth |-> 30, technical |-> 25, turnover |-> 10]

(* percentiles: equal values share the mean of their places.               *)
LivePercentile(table, c, i) ==
    LET having == {j \in DOMAIN table : table[j][c] # NoValue}
        below == {j \in having : table[j][c] < table[i][c]}
        tied == {j \in having : table[j][c] = table[i][c]}
    IN  IF i \notin having THEN NoValue
        ELSE IF having = {i} THEN 5000
        ELSE HalfUp(10000 * (2 * Cardinality(below) + Cardinality(tied) - 1),
                    2 * (Cardinality(having) - 1))

LiveScore(table, i) ==
    LET Of(c) == LivePercentile(table, c, i)
        percentile == Table(Of, LiveComponents)
        available == {c \in LiveComponents : percentile[c] # NoValue}
        WeightOf(c) == LiveWeight[c]
        Weighted(c) == LiveWeight[c] * percentile[c]
        weight == Total(WeightOf, available)
    IN  IF weight >= 60 THEN HalfUp(Total(Weighted, available), weight) ELSE NoValue

OrZero(n) == IF n = NoValue THEN 0 ELSE n

(* The order of the ranking: scored first, then scores, returns and ids.   *)
Leading(table, scores, i, j) ==
    LET moved(k) == OrZero(table[k].momentum)
    IN  \/ scores[i] # NoValue /\ scores[j] = NoValue
        \/ scores[j] # NoValue /\ scores[i] > scores[j]
        \/ scores[i] = scores[j] /\ moved(i) > moved(j)
        \/ scores[i] = scores[j] /\ moved(i) = moved(j) /\ i < j

(* score: the snapshots in their order, each with its score and rank; one  *)
(* without a score is stale.                                               *)
Scored(table) ==
    LET ids == DOMAIN table
        ScoreOf(i) == LiveScore(table, i)
        scores == Table(ScoreOf, ids)
        PlaceOf(i) == 1 + Cardinality({j \in ids : Leading(table, scores, j, i)})
        place == Table(PlaceOf, ids)
        Row(i) == IF scores[i] = NoValue
                  THEN [table[i] EXCEPT !.score = NoValue, !.rank = NoValue, !.status = "STALE"]
                  ELSE [table[i] EXCEPT !.score = scores[i], !.rank = place[i]]
        Entry(n) == LET i == CHOOSE k \in ids : place[k] = n IN [id |-> i, row |-> Row(i)]
    IN  Table(Entry, 1 .. Cardinality(ids))

-----------------------------------------------------------------------------
(* accept                                                                  *)

LInit ==
    live = [quotes |-> [s \in ActiveStocks |-> Unseen],   \* market.quotes
            snapshots |-> <<>>,                     \* snapshots, by sector
            market |-> Unseen,                      \* Redis: the market's snapshot
            kept |-> <<>>,                          \* Redis: the sectors' snapshots
            ranking |-> [t \in Types |-> <<>>],     \* Redis: the rankings
            rested |-> Types,                       \* types not published for 250 ms
            behind |-> {},     \* history: sectors not aggregated after their last quote
            torn |-> {},       \* history: types whose last scoring was cut short
            taken |-> 0, broken |-> 0]

RowsOf(entries) == [i \in {e.id : e \in entries} |-> (CHOOSE e \in entries : e.id = i).row]
Overlaid(rows, table) ==
    [i \in DOMAIN rows \cup DOMAIN table |-> IF i \in DOMAIN rows THEN rows[i] ELSE table[i]]

(* The snapshots with those of the stock's sectors aggregated again, the   *)
(* rankings of types, and the entries of them that were reached.           *)
Aggregated(quotes, s, q) ==
    LET Fresh(i) == Aggregate(quotes, i, q)
    IN  Overlaid(Table(Fresh, SectorsOf[s]), live.snapshots)

Rankings(table, types) ==
    LET At(i) == table[i]
        RankedOf(t) == Scored(Table(At, {j \in DOMAIN table : TypeOf[j] = t}))
    IN  Table(RankedOf, types)

Reached(scored, done, cut, n) ==
    (UNION {Range(scored[t]) : t \in done}) \cup {scored[t][k] : t \in cut, k \in 1 .. n}

(* A quote comes: the market's snapshot is saved, the sectors of the stock *)
(* are aggregated, and the types of these in some order scored.  Those in  *)
(* done are; the failure, if any, fell into the one in cut, at its nth     *)
(* snapshot, which has changed in memory and perhaps in Redis; the ranking *)
(* of a type that is cut short is not published.                           *)
Accept(s, q, done, cut, n, unsaved) ==
    LET quotes == [live.quotes EXCEPT ![s] = q]
        types == TypesOf(s)
        aggregated == Aggregated(quotes, s, q)
        scored == Rankings(aggregated, types)
    IN  /\ live.taken < MaxQuotes
        /\ cut # {} => live.broken < MaxBroken
        /\ \A t \in cut : n \in DOMAIN scored[t]
        /\ live' = [live EXCEPT
              !.quotes = quotes,
              !.market = MarketSnapshot(quotes, q),
              !.snapshots = Overlaid(RowsOf(Reached(scored, done, cut, n)), aggregated),
              !.kept = Overlaid(RowsOf(Reached(scored, done, cut, n - unsaved)), @),
              !.ranking = [t \in Types |->
                   IF t \in done \cap live.rested THEN scored[t] ELSE @[t]],
              !.rested = @ \ done,
              !.behind = @ \ SectorsOf[s],
              !.torn = (@ \cup types) \ done,
              !.taken = @ + 1,
              !.broken = @ + Cardinality(cut)]

(* The market's snapshot cannot be saved: no sector hears of the quote.    *)
MarketUnsaved(s, q) ==
    /\ live.taken < MaxQuotes
    /\ live.broken < MaxBroken
    /\ live' = [live EXCEPT !.quotes = [@ EXCEPT ![s] = q], !.behind = @ \cup SectorsOf[s],
                            !.taken = @ + 1, !.broken = @ + 1]

(* A quarter of a second passes.                                           *)
Rest ==
    /\ live.rested # Types
    /\ live' = [live EXCEPT !.rested = Types]

(* Two minutes pass without a quote: Redis forgets what it was given.      *)
Forget ==
    /\ live.kept # <<>>
    /\ live' = [live EXCEPT !.rested = Types, !.kept = <<>>, !.market = Unseen,
                            !.ranking = [t \in Types |-> <<>>]]

LiveNext ==
    \/ \E s \in ActiveStocks, q \in Quotes :
          \/ Accept(s, q, TypesOf(s), {}, 0, 0)
          \/ \E t \in TypesOf(s) : \E done \in SUBSET (TypesOf(s) \ {t}),
                n \in 1 .. Cardinality(Sectors), unsaved \in {0, 1} :
                    Accept(s, q, done, {t}, n, unsaved)
          \/ MarketUnsaved(s, q)
    \/ Rest
    \/ Forget

(* _ranking_response: the ranking in Redis sorted by a figure of its rows, *)
(* then by id.                                                             *)
RankingResponse(t, figure) ==
    LET entries == live.ranking[t]
        key(k) == IF entries[k].row[figure] = NoValue THEN <<1, 0>>
                  ELSE <<0, -entries[k].row[figure]>>
        Before(j, k) == \/ key(j)[1] < key(k)[1]
                        \/ key(j)[1] = key(k)[1] /\ key(j)[2] < key(k)[2]
                        \/ key(j) = key(k) /\ entries[j].id < entries[k].id
        place == [k \in DOMAIN entries |->
                     1 + Cardinality({j \in DOMAIN entries : Before(j, k)})]
    IN  [m \in DOMAIN entries |-> entries[CHOOSE k \in DOMAIN entries : place[k] = m]]

(* The snapshots, changed sector by sector as quotes come, are what the    *)
(* quotes of all members give; a type's ranks are 1, 2, 3 ... over the     *)
(* sectors that have a score, and one that leads another in return and in  *)
(* breadth is ranked before it; Redis has nothing else, and calls nothing  *)
(* live whose members are not covered.  Exempt is only what a failed Redis *)
(* command left behind, until the next quote.  A ranking asked for by      *)
(* strength is in the order of its ranks where scores differ.              *)
LiveRanksAreOfTheQuotes ==
    LET snapshots == live.snapshots
        Agrees(i) ==
            LET now == Aggregate(live.quotes, i, [status |-> "LIVE"])
            IN  IF i \in DOMAIN snapshots
                THEN \A f \in {"momentum", "breadth", "valid", "quoted"} :
                        snapshots[i][f] = now[f]
                ELSE now.quoted = 0
        Ranks(table) ==
            LET scored == {i \in DOMAIN table : table[i].score # NoValue}
            IN  /\ {table[i].rank : i \in scored} = 1 .. Cardinality(scored)
                /\ \A i \in DOMAIN table :
                      /\ table[i].status = "LIVE" =>
                            i \in scored /\ 10 * table[i].valid >= 6 * Cardinality(MembersOf[i])
                      /\ (table[i].valid = 0) = (i \notin scored)
                /\ \A i, j \in scored :
                      table[i].momentum > table[j].momentum /\ table[i].breadth > table[j].breadth
                          => table[i].rank < table[j].rank
        OfType(table, t) == [i \in {j \in DOMAIN table : TypeOf[j] = t} |-> table[i]]
    IN  /\ \A i \in Sectors \ live.behind : Agrees(i)
        /\ \A t \in Types \ live.torn :
              /\ Ranks(OfType(snapshots, t))
              /\ \A i \in DOMAIN OfType(live.kept, t) : live.kept[i] = snapshots[i]
        /\ \A t \in Types :
              /\ Ranks(RowsOf(Range(live.ranking[t])))
              /\ LET asked == RankingResponse(t, "score")
                 IN  \A m, n \in DOMAIN asked :
                        asked[m].row.score > asked[n].row.score /\ asked[n].row.score # NoValue
                            => m < n /\ asked[m].row.rank < asked[n].row.rank
===============================================================================
