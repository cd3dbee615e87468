------------------------------- MODULE Figures -------------------------------
(***************************************************************************)
(* Whole numbers in the place of the decimals of the rankings: shares are  *)
(* numbers of 1/10000, percentiles and scores of 1/100.                    *)
(***************************************************************************)
EXTENDS Integers, FiniteSets, FiniteSetsExt, Functions, TLC

NoValue == -100000

(* quantize with ROUND_HALF_UP.                                            *)
HalfUp(num, den) ==
    IF num < 0 THEN -((den - 2 * num) \div (2 * den)) ELSE (2 * num + den) \div (2 * den)

Total(f(_), S) == SumFunction([x \in S |-> f(x)])

(* The values of f for S, each worked out once.                            *)
Table(f(_), S) ==
    LET rows == {<<i, f(i)>> : i \in S}
    IN  [i \in S |-> (CHOOSE row \in rows : row[1] = i)[2]]

Ratio(A, B) == IF B = {} THEN 0 ELSE HalfUp(10000 * Cardinality(A), Cardinality(B))
===============================================================================
