---------------------------- MODULE MCUserRequests ----------------------------
(* Two users, three possible trades of one stock, a file of two and one of *)
(* one; two groups and a file with one group; one rule on two stocks.      *)
EXTENDS UserRequests

MCUsers == {"u1", "u2"}

Trade(side, executed) ==
    [side |-> side, security |-> "s", executed |-> executed, quantity |-> 1,
     price |-> executed, fee |-> 1]
MCTrades == {Trade("BUY", 1), Trade("BUY", 2), Trade("SELL", 2)}

With(trade, id, error) ==
    [side |-> trade.side, security |-> trade.security, executed |-> trade.executed,
     quantity |-> trade.quantity, price |-> trade.price, fee |-> trade.fee,
     id |-> id, error |-> error]
MCFiles == {<<With(Trade("BUY", 1), 2, "none"), With(Trade("SELL", 2), 3, "none")>>,
            <<With(Trade("SELL", 3), 4, "none")>>,
            <<With(Trade("BUY", 1), 2, "none"), With(Trade("BUY", 1), 3, "INVALID_LOT_TYPE")>>}

MCListFiles == {<<[name |-> "n1", id |-> 1, stocks |-> {"x"}]>>,
                <<[name |-> "n1", id |-> 2, stocks |-> {"x", "y"}]>>}

MCMembers == [a |-> {1, 2}]

(* Conditions of four fields with every operator, groups of three of them  *)
(* and groups of groups; what the screener may know of a stock; rows of a  *)
(* stock with and without a price; and expressions that are not checked.   *)
MCMaps ==
    {[Features([credit |-> Absent, industry |-> i, themes |-> t])
        EXCEPT !.close = c, !.foreign_5d_net = n] :
       i \in {Absent, Text(11)}, t \in {List({}), List({11}), List({11, 12})},
       c \in {Absent, Number(1), Number(2)}, n \in {Number(0)}}
MCConditions ==
    {c \in {Condition(f, op, v, v2) :
               f \in {"close", "foreign_5d_net", "industry_name", "theme_name"},
               op \in Operators, v \in {Absent, Number(1), Text(11), List({11})},
               v2 \in {Absent, Number(1)}} :
       /\ c.operator \in {"IN", "NOT_IN"} => c.value.as = "list"
       /\ c.operator # "BETWEEN" => c.value2 = Absent}
MCSimple == {Condition("close", "GT", Number(1), Absent),
             Condition("industry_name", "NOT_IN", List({11}), Absent),
             Condition("theme_name", "IN", List({11}), Absent)}
MCGroups == {Joined(t, <<a, b>>) : t \in {"AND", "OR"}, a \in MCSimple, b \in MCSimple}
MCNested == {Joined(t, <<a, g>>) : t \in {"AND", "OR"}, a \in MCSimple, g \in MCGroups}
MCJudged == MCConditions \cup MCGroups \cup MCNested
MCRows == {[daily |-> d, credit |-> Absent, industry |-> Absent, themes |-> List({11})] :
              d \in {{}, {"price"}}}
MCExpressions == {Joined("OR", <<>>), Joined("XOR", <<>>),
                  Condition("close", "IS_UNAVAILABLE", Absent, Absent),
                  Condition("close", "none", Absent, Absent),
                  Condition("theme_name", "NOT_IN", List({12}), Absent)}

(* Two stocks, each alone in a theme and both together in a third.         *)
MCDayRows == [close : {NoValue, 1, 3}, base : {2}, ma : {NoValue, 2}, net : {-1, 1},
              traded : {TRUE}]
MCFirstMembers == <<{"p"}, {"q"}, {"p", "q"}>>

(* Days that rise, that do not move and that have no volume; averages of   *)
(* two days, so that four days take each of them past its seed.            *)
Bar(o, h, l, c, v) == [open |-> o, high |-> h, low |-> l, close |-> c, volume |-> v]
MCBars == {Bar(10, 12, 9, 12, 5), Bar(12, 12, 12, 12, 7), Bar(14, 20, 10, 11, NoFigure)}
MCParameters == [ma |-> 2, ema |-> 2, rsi |-> 2, fast |-> 1, slow |-> 2, signal |-> 2,
                 kd |-> 2, k |-> 3, d |-> 3, bollinger |-> 2, stddev |-> 2, atr |-> 2,
                 williams |-> 2]

(* Two stocks with two themes and an industry, and a mapping of a third    *)
(* stock that is not active; a fall, a late rise and a quote without the   *)
(* close of the day before.                                                *)
MCTypeOf == <<"theme", "theme", "industry">>
MCMappings == {<<"p", 1>>, <<"p", 2>>, <<"q", 2>>, <<"x", 1>>, <<"q", 3>>}
MCQuotes == {[last |-> l, previous |-> 10, status |-> IF l < 10 THEN "LIVE" ELSE "STALE"] :
                l \in {9, 12}} \cup {[last |-> 10, previous |-> NoValue, status |-> "LIVE"]}

(* Questions about the market, a stock, one user's portfolio, an industry  *)
(* that is not known, a comparison and a screen; and one without a target. *)
Ask(type, target) == [type |-> type, target |-> target]
MCAsked == {Ask("MARKET", "none"), Ask("SECURITY", "stock"), Ask("PORTFOLIO", "pu"),
            Ask("INDUSTRY", "other"), Ask("COMPARISON", {"stock"}), Ask("SCREENER", "e"),
            Ask("SECURITY", "none")}
MCPortfolioOf == [u |-> "pu", v |-> "pv"]
===============================================================================
