-------------------------- MODULE MCDailyOperations --------------------------
(* Two stocks of one market, one of the other and listed today; a pipeline *)
(* and a second job of either kind.                                        *)
EXTENDS DailyOperations

CONSTANTS s1, s2, j1, j2

MCSymmetry == Permutations({j1, j2})

MCRevisions == "TWSE" :> 2 @@ "TPEX" :> 1
MCMarketOf == s1 :> "TWSE" @@ s2 :> "TPEX"

Scope(dataset, market, code) == [dataset |-> dataset, market |-> market, code |-> code]
MCScopes == {Scope("DAILY_PRICES", None, None), Scope("DAILY_PRICES", "TWSE", s1),
             Scope("TECHNICALS", None, None)}
=============================================================================
