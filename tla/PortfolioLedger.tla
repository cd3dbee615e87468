--------------------------- MODULE PortfolioLedger ---------------------------
(***************************************************************************)
(* The moving-average accounting of a portfolio: the transactions are the  *)
(* only source of truth, and positions, holdings and the summary are       *)
(* replayed from them on every request.                                    *)
(***************************************************************************)
EXTENDS Integers, Sequences, FiniteSets, SequencesExt, FiniteSetsExt

(* Money is counted in parts of 1 / CostScale, so that the average cost of *)
(* the positions an instance reaches is a whole number.                    *)
CostScale == 3600

NoClose == 0             \* no row of the security has a close; closes are positive

(* What a security without transactions starts from.                       *)
NoPosition == [quantity |-> 0, basis |-> 0, realized |-> 0]

Bought(pos, t) ==
    [pos EXCEPT !.quantity = @ + t.quantity,
                !.basis = @ + CostScale * (t.price * t.quantity + t.fee)]

(* Selling takes the average cost of what is sold out of the basis; the    *)
(* last share leaves no remainder.                                         *)
SoldBasis(pos, t) == (pos.basis * t.quantity) \div pos.quantity

Sold(pos, t) ==
    LET left == pos.quantity - t.quantity
    IN  [quantity |-> left,
         basis    |-> IF left = 0 THEN 0 ELSE pos.basis - SoldBasis(pos, t),
         realized |-> pos.realized + CostScale * (t.price * t.quantity - t.fee)
                        - SoldBasis(pos, t)]

(* By execution, then by when the row was written, then by its id.         *)
Before(t, u) ==
    \/ t.executed < u.executed
    \/ t.executed = u.executed /\ t.created < u.created
    \/ t.executed = u.executed /\ t.created = u.created /\ t.id < u.id

InOrder(txs) ==
    [i \in 1 .. Cardinality(txs) |->
       CHOOSE t \in txs : Cardinality({u \in txs : Before(u, t)}) = i - 1]

Securities(txs) == {t.security : t \in txs}

(* A sale of more than is held is refused: PORTFOLIO_INSUFFICIENT_POSITION.*)
Posted(acc, t) ==
    LET pos == acc.positions[t.security] IN
    IF acc.oversold \/ (t.side = "SELL" /\ t.quantity > pos.quantity)
    THEN [acc EXCEPT !.oversold = TRUE]
    ELSE [acc EXCEPT !.positions[t.security] =
            IF t.side = "BUY" THEN Bought(pos, t) ELSE Sold(pos, t)]

(* The positions after a ledger, or oversold at the first such sale.       *)
Replay(txs) ==
    LET order == InOrder(txs)
        after[n \in 0 .. Cardinality(txs)] ==
           IF n = 0
           THEN [oversold |-> FALSE, positions |-> [s \in Securities(txs) |-> NoPosition]]
           ELSE Posted(after[n - 1], order[n])
    IN  after[Cardinality(txs)]

(* Variant: only the final position is looked at.                          *)
Replays_NetOnly(txs) ==
    \A s \in Securities(txs) :
       MapThenSumSet(LAMBDA t : IF t.side = "BUY" THEN t.quantity ELSE -t.quantity,
                     {t \in txs : t.security = s}) >= 0

Replays(txs) == ~Replay(txs).oversold

(* The securities still held, each with the last row that has a close.     *)
Holdings(positions, latest) ==
    [s \in {x \in DOMAIN positions : positions[x].quantity > 0} |->
       LET pos == positions[s]
           row == latest[s]
       IN  IF row.close = NoClose
           THEN [basis |-> pos.basis, value |-> NoClose, asOf |-> NoClose,
                 status |-> "UNAVAILABLE"]
           ELSE [basis |-> pos.basis, value |-> CostScale * row.close * pos.quantity,
                 asOf |-> row.asOf, status |-> row.status]]

(* The answer of GET /summary: totals, valued only when every holding is.  *)
Summary(positions, holdings) ==
    LET held     == DOMAIN holdings
        complete == \A s \in held : holdings[s].value # NoClose
        cost     == SumFunction([s \in held |-> holdings[s].basis])
        value    == SumFunction([s \in held |-> holdings[s].value])
        dates    == {holdings[s].asOf : s \in held} \ {NoClose}
        statuses == {holdings[s].status : s \in held}
    IN  [complete   |-> complete,
         cost       |-> cost,
         realized   |-> SumFunction([s \in DOMAIN positions |-> positions[s].realized]),
         value      |-> IF complete THEN value ELSE NoClose,
         unrealized |-> IF complete THEN value - cost ELSE NoClose,
         status     |-> CASE "STALE" \in statuses -> "STALE"
                          [] "STALE" \notin statuses
                               /\ (~complete \/ Cardinality(dates) > 1
                                     \/ Cardinality(statuses) > 1) -> "PARTIAL"
                          [] OTHER -> "FINAL"]
=============================================================================
