--------------------------- MODULE IndustryStrength ---------------------------
(***************************************************************************)
(* The strength ranking of themes (and, the same way, of industries) for a *)
(* date and a window: the daily rows of the members are aggregated, each   *)
(* component becomes a percentile among the themes, the weighted           *)
(* percentiles a score, the scores a rank, and the rows are stored over    *)
(* those of an earlier calculation.  Ratios are whole numbers of 1/10000,  *)
(* percentiles and scores of 1/100, rounded half up as in the code.        *)
(***************************************************************************)
EXTENDS Figures

CONSTANTS Listed,          \* stocks
          Themes,          \* naturals, in the order of code and id
          DayRows,         \* what a stock's rows of the date may be
          FirstMembers,    \* [Themes -> the stocks it has at first]
          MaxMoves,        \* bound: stocks that join or leave a theme
          MaxRankings      \* bound: calculations

VARIABLES day,             \* [Listed -> its rows of the date]
          members,         \* [Themes -> the stocks it has]
          strength,        \* [Themes -> the stored row, or NoRow]
          ranked,          \* history: the themes of the last calculation
          moves, rankings

(* Prices are positive, and so are averages of them; net flows are counted *)
(* in a unit that keeps those of a theme above what stands for no value.   *)
ASSUME StrengthAssumption ==
    /\ IsFiniteSet(Listed) /\ IsFiniteSet(Themes) /\ Themes \subseteq Nat
    /\ FirstMembers \in [Themes -> SUBSET Listed]
    /\ \A row \in DayRows :
          /\ {row.close, row.base, row.ma} \subseteq (Nat \ {0}) \cup {NoValue}
          /\ row.net \in Int /\ row.net * Cardinality(Listed) > NoValue
          /\ row.traded \in BOOLEAN

ranking == <<day, members, strength, ranked, moves, rankings>>

(* Members with a price now and at the start of the window have a return;  *)
(* without any, the theme's return and breadth are 0.                      *)
Priced(S) == {m \in S : day[m].close # NoValue /\ day[m].base # NoValue}
Return(m) == (10000 * day[m].close) \div day[m].base - 10000
EqualWeightReturn(S) ==
    IF Priced(S) = {} THEN 0 ELSE HalfUp(Total(Return, Priced(S)), Cardinality(Priced(S)))
AdvanceRatio(S) == Ratio({m \in Priced(S) : Return(m) > 0}, Priced(S))

(* Members at or above a moving average, of those that have both.          *)
AboveMaPct(S) ==
    LET valid == {m \in S : day[m].close # NoValue /\ day[m].ma # NoValue}
    IN  Ratio({m \in valid : day[m].close >= day[m].ma}, valid)

Net(m) == day[m].net
HasTurnover(S) == \E m \in S : day[m].close # NoValue /\ day[m].traded

(* _aggregate_taxonomy_metrics: only the turnover momentum may be missing, *)
(* and it is the same for all that have one.                               *)
Metrics(i) ==
    LET S == members[i]
    IN  [momentum |-> EqualWeightReturn(S),
         breadth |-> AdvanceRatio(S),
         technical |-> AboveMaPct(S),
         institutional |-> Total(Net, S),
         turnover |-> IF HasTurnover(S) THEN 1 ELSE NoValue,
         priced |-> Cardinality(Priced(S))]

Components == {"momentum", "breadth", "technical", "institutional", "turnover"}
Weight == [momentum |-> 30, breadth |-> 25, technical |-> 20, institutional |-> 15,
           turnover |-> 10]

(* Variant: the percentiles of a component run the other way.              *)
Below_Reversed(metrics, c, i, j) ==
    metrics[j][c] > metrics[i][c] \/ (metrics[j][c] = metrics[i][c] /\ j < i)

(* Equal values are ordered by id.                                         *)
Below(metrics, c, i, j) ==
    metrics[j][c] < metrics[i][c] \/ (metrics[j][c] = metrics[i][c] /\ j < i)

(* calculate_percentile_scores.                                            *)
Percentile(metrics, c, i) ==
    LET having == {j \in DOMAIN metrics : metrics[j][c] # NoValue}
    IN  IF i \notin having THEN NoValue
        ELSE IF having = {i} THEN 5000
        ELSE HalfUp(10000 * Cardinality({j \in having : Below(metrics, c, i, j)}),
                    Cardinality(having) - 1)

(* score_group: the percentiles there are, weighted, if their weights      *)
(* cover 60 percent.                                                       *)
Score(metrics, i) ==
    LET available == {c \in Components : Percentile(metrics, c, i) # NoValue}
        Of(c) == Weight[c]
        Weighted(c) == Weight[c] * Percentile(metrics, c, i)
        weight == Total(Of, available)
    IN  IF weight >= 60 THEN HalfUp(Total(Weighted, available), weight) ELSE NoValue

(* The order of the ranks: scores, then returns, then codes.               *)
Ahead(metrics, scores, i, j) ==
    \/ scores[i] > scores[j]
    \/ /\ scores[i] = scores[j]
       /\ \/ metrics[i].momentum > metrics[j].momentum
          \/ (metrics[i].momentum = metrics[j].momentum /\ i < j)

Rank(metrics, scores, i) ==
    IF scores[i] = NoValue THEN NoValue
    ELSE 1 + Cardinality({j \in DOMAIN scores : Ahead(metrics, scores, j, i)})

NoRow == [score |-> NoValue, rank |-> NoValue, metrics |-> [priced |-> NoValue]]

NoRows == [close |-> NoValue, base |-> NoValue, ma |-> NoValue, net |-> 0, traded |-> FALSE]

RInit ==
    /\ day = [m \in Listed |-> NoRows]
    /\ members = FirstMembers
    /\ strength = [i \in Themes |-> NoRow]
    /\ ranked = {} /\ moves = 0 /\ rankings = 0

(* The rows of the date are stored.                                        *)
StoreRows(rows) ==
    /\ day = [m \in Listed |-> NoRows] /\ rankings = 0
    /\ day' = rows
    /\ UNCHANGED <<members, strength, ranked, moves, rankings>>

(* A stock joins or leaves a theme; the security list that moves one to    *)
(* another industry does both in one transaction.                          *)
AddMember(m, i) ==
    /\ moves < MaxMoves /\ m \notin members[i]
    /\ members' = [members EXCEPT ![i] = @ \cup {m}]
    /\ moves' = moves + 1
    /\ UNCHANGED <<day, strength, ranked, rankings>>

RemoveMember(m, i) ==
    /\ moves < MaxMoves /\ m \in members[i]
    /\ members' = [members EXCEPT ![i] = @ \ {m}]
    /\ moves' = moves + 1
    /\ UNCHANGED <<day, strength, ranked, rankings>>

(* calculate_for_date: themes without members are passed over, and     *)
(* keep the row of an earlier calculation.                                 *)
Calculate ==
    /\ rankings < MaxRankings
    /\ LET full == {i \in Themes : members[i] # {}}
           metrics == Table(Metrics, full)
           ScoreOf(i) == Score(metrics, i)
           scores == Table(ScoreOf, full)
       IN  /\ strength' = [i \in Themes |->
                IF i \in full
                THEN [score |-> scores[i], rank |-> Rank(metrics, scores, i),
                      metrics |-> metrics[i]]
                ELSE strength[i]]
           /\ ranked' = full
    /\ rankings' = rankings + 1
    /\ UNCHANGED <<day, members, moves>>

RankNext ==
    \/ Calculate
    \/ \E rows \in [Listed -> DayRows] : StoreRows(rows)
    \/ \E m \in Listed, i \in Themes : AddMember(m, i) \/ RemoveMember(m, i)

(* The list of a theme ranking asked for by strength, as the place of  *)
(* a stored row in it.                                                     *)
Place(i) ==
    1 + Cardinality({j \in Themes : strength[j].rank # NoValue /\
            (\/ strength[j].score > strength[i].score
             \/ (strength[j].score = strength[i].score /\ j < i))})

(* What a calculation ranks: its ranks are 1 to the number of themes       *)
(* that have members, every theme has one, a theme that leads another in   *)
(* return, breadth, technical participation and flow is ranked before it   *)
(* if turnover, the same for all that have any and then ordered by id, is  *)
(* not against it; and where no two scores are equal the list of the       *)
(* themes is in this order, the ones left from earlier calculations aside. *)
StrengthRanks ==
    LET row(i) == strength[i]
        Leads(i, j) ==
            /\ \A c \in Components \ {"turnover"} :
                  row(i).metrics[c] > row(j).metrics[c]
            /\ row(i).metrics.turnover = row(j).metrics.turnover
            /\ row(i).metrics.turnover = NoValue \/ j < i
    IN  /\ {row(i).rank : i \in ranked} = 1 .. Cardinality(ranked)
        /\ \A i, j \in ranked :
              /\ Leads(i, j) => row(i).rank < row(j).rank
              /\ row(i).score > row(j).score =>
                    Place(i) < Place(j) /\ row(i).rank < row(j).rank
===============================================================================
