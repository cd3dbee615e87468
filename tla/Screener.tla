------------------------------- MODULE Screener -------------------------------
(***************************************************************************)
(* The stock screener: expressions are checked against a registry of       *)
(* fields, evaluated on what is known of a stock, and saved.  The screener *)
(* API checks what it saves; a device that pushes a screener to its        *)
(* account stores any expression.  A value has a kind and, so that all     *)
(* kinds compare, a set of numbers: names are numbers too.                 *)
(***************************************************************************)
EXTENDS Integers, Sequences, FiniteSets

CONSTANTS Screens,         \* ids of saved screeners
          Expressions,     \* expressions clients send, malformed ones too
          Judged,          \* expressions that are evaluated for themselves
          Maps,            \* what may be known of a stock: [Fields -> values]
          Rows,            \* what may be stored of a stock
          MaxScreened      \* bound: requests of a behaviour

VARIABLES saved,           \* [Screens -> expression, or NotSaved]
          screened,        \* what the last request answered
          asked

screens == <<saved, screened, asked>>

Absent == [as |-> "none", of |-> {}]
Number(n) == [as |-> "number", of |-> {n}]
Text(n) == [as |-> "text", of |-> {n}]
List(ns) == [as |-> "list", of |-> ns]
The(value) == CHOOSE n \in value.of : TRUE

Ordering == {"GT", "GTE", "LT", "LTE"}
Naming == {"EQ", "NE", "IN", "NOT_IN"}
Operators == Ordering \cup Naming \cup {"BETWEEN", "IS_AVAILABLE", "IS_UNAVAILABLE"}

(* The fields of the registry that have an operator in common.             *)
PriceFields == {"close"}
RangeFields == {"return_1d", "return_5d", "rsi14", "industry_strength_score"}
FlowFields == {"close_vs_ma20", "close_vs_ma60", "close_vs_ma240",
               "foreign_5d_net", "trust_5d_net", "margin_balance_change"}
NameFields == {"industry_name", "theme_name"}
Fields == PriceFields \cup RangeFields \cup FlowFields \cup NameFields

AllowedOperators(f) ==
    IF f \in PriceFields THEN Ordering \cup {"BETWEEN", "IS_AVAILABLE"}
    ELSE IF f \in RangeFields THEN Ordering \cup {"BETWEEN"}
    ELSE IF f \in FlowFields THEN Ordering ELSE Naming

Condition(f, op, v, v2) ==
    [type |-> "CONDITION", field |-> f, operator |-> op, value |-> v, value2 |-> v2]
Joined(type, children) == [type |-> type, children |-> children]

(* Variant: every operator there is may be used on every field.            *)
ValidCondition_AnyOperator(c) ==
    /\ c.field \in Fields
    /\ c.operator \in Operators

ValidCondition(c) ==
    /\ c.field \in Fields
    /\ c.operator \in AllowedOperators(c.field)
    /\ \/ c.operator \in {"IS_AVAILABLE", "IS_UNAVAILABLE"}
       \/ c.operator = "BETWEEN" /\ c.value # Absent /\ c.value2 # Absent
       \/ c.operator \in {"IN", "NOT_IN"} /\ c.value.as = "list"
       \/ c.operator \in Ordering \cup {"EQ", "NE"} /\ c.value # Absent

(* validate_expression.                                                    *)
RECURSIVE Valid(_)
Valid(e) ==
    IF e.type = "CONDITION" THEN ValidCondition(e)
    ELSE /\ e.children # <<>>
         /\ \A i \in DOMAIN e.children : Valid(e.children[i])

(* dict_to_expression: what the parser makes an expression of.             *)
RECURSIVE Parses(_)
Parses(e) ==
    IF e.type = "CONDITION" THEN e.operator \in Operators \cup {"none"}
    ELSE e.type \in {"AND", "OR"} /\ \A i \in DOMAIN e.children : Parses(e.children[i])

Compares(op, actual, target) ==
    /\ actual.as = "number" /\ target.as = "number"
    /\ LET a == The(actual) t == The(target)
       IN  CASE op = "GT" -> a > t [] op = "GTE" -> a >= t [] op = "LT" -> a < t
             [] op = "LTE" -> a <= t [] op = "EQ" -> a = t [] op = "NE" -> a # t

(* _evaluate_condition: what is missing passes only when it is asked for,  *)
(* and a comparison that raises does not pass: EQ and NE turn a name into  *)
(* a number and never do.                                                  *)
Passes(c, actual) ==
    \/ c.operator = "IS_AVAILABLE" /\ actual # Absent
    \/ c.operator = "IS_UNAVAILABLE" /\ actual = Absent
    \/ /\ actual # Absent
       /\ \/ /\ c.operator \in Ordering \cup {"EQ", "NE"}
             /\ Compares(c.operator, actual, c.value)
          \/ /\ c.operator = "BETWEEN"
             /\ Compares("LTE", c.value, actual) /\ Compares("LTE", actual, c.value2)
          \/ c.operator = "IN" /\ actual.of \cap c.value.of # {}
          \/ c.operator = "NOT_IN" /\ actual.of \cap c.value.of = {}

Known(known, f) == IF f \in Fields THEN known[f] ELSE Absent

(* _evaluate_ast: whether the expression matches and the conditions it     *)
(* names for it: all of an AND, those of the first child of an OR.         *)
NoMatch == [match |-> FALSE, conditions |-> <<>>]

RECURSIVE EvaluateAst(_, _), JoinAll(_, _, _)

JoinAll(e, known, i) ==
    IF i > Len(e.children) THEN [match |-> TRUE, conditions |-> <<>>]
    ELSE LET child == EvaluateAst(e.children[i], known)
             rest == JoinAll(e, known, i + 1)
         IN  IF ~child.match \/ ~rest.match THEN NoMatch
             ELSE [match |-> TRUE, conditions |-> child.conditions \o rest.conditions]

FirstOf(e, known) ==
    LET passing == {i \in DOMAIN e.children : EvaluateAst(e.children[i], known).match}
    IN  IF passing = {} THEN NoMatch
        ELSE EvaluateAst(e.children[CHOOSE i \in passing : \A j \in passing : i <= j], known)

EvaluateAst(e, known) ==
    IF e.type = "CONDITION"
    THEN IF Passes(e, Known(known, e.field)) THEN [match |-> TRUE, conditions |-> <<e>>] ELSE NoMatch
    ELSE IF e.type = "AND" THEN JoinAll(e, known, 1) ELSE FirstOf(e, known)

(* What execute_screener makes of the rows of an active stock that have    *)
(* neither price nor indicators nor trades of institutions: sums of no     *)
(* rows are 0, the themes are a list, the rest is missing or as stored.    *)
Features(row) ==
    [f \in Fields |->
        CASE f \in {"foreign_5d_net", "trust_5d_net"} -> Number(0)
          [] f = "margin_balance_change" -> row.credit
          [] f = "industry_name" -> row.industry
          [] f = "theme_name" -> row.themes
          [] OTHER -> Absent]

(* execute_screener reads columns the tables do not have, of every price,  *)
(* indicator, institution and strength row of the date, and the market of  *)
(* every stock that matches: it answers nothing or fails.                  *)
Execute(e, row) ==
    IF row.daily # {} \/ EvaluateAst(e, Features(row)).match
    THEN [kind |-> "failed"] ELSE [kind |-> "nothing found"]

NotSaved == [type |-> "not saved"]
NotAsked == [kind |-> "not asked"]

ScInit == saved = [id \in Screens |-> NotSaved] /\ screened = NotAsked /\ asked = 0

Request == asked < MaxScreened /\ asked' = asked + 1

(* What the screener API saves it has parsed and checked.                  *)
SaveScreener(id, e) ==
    /\ Request
    /\ IF Parses(e) /\ Valid(e)
       THEN saved' = [saved EXCEPT ![id] = e] /\ screened' = [kind |-> "saved"]
       ELSE saved' = saved /\ screened' = [kind |-> "refused"]

DeleteScreener(id) ==
    /\ Request /\ saved[id] # NotSaved
    /\ saved' = [saved EXCEPT ![id] = NotSaved]
    /\ screened' = [kind |-> "deleted"]

(* A device pushes a screener to its account: any expression is stored.    *)
PushScreener(id, e) ==
    /\ Request
    /\ saved' = [saved EXCEPT ![id] = e]
    /\ screened' = [kind |-> "applied"]

(* The list parses all rows: one that does not parse fails it.             *)
ListScreeners ==
    /\ Request
    /\ screened' = IF \A id \in Screens : saved[id] = NotSaved \/ Parses(saved[id])
                   THEN [kind |-> "listed"] ELSE [kind |-> "failed"]
    /\ UNCHANGED saved

RunScreener(e, row) ==
    /\ Request
    /\ screened' = IF Parses(e) /\ Valid(e) THEN Execute(e, row) ELSE [kind |-> "refused"]
    /\ UNCHANGED saved

(* A saved screener is parsed but not checked again.                       *)
RunSaved(id, row) ==
    /\ Request
    /\ screened' = IF saved[id] = NotSaved THEN [kind |-> "not found"]
                   ELSE IF Parses(saved[id]) THEN Execute(saved[id], row)
                   ELSE [kind |-> "failed"]
    /\ UNCHANGED saved

(* An expression is evaluated on what is known of a stock; that is all of  *)
(* such a behaviour.                                                       *)
Judge(e, known) ==
    /\ asked = 0 /\ asked' = MaxScreened
    /\ screened' = [kind |-> "judged", of |-> e, known |-> known,
                    answer |-> EvaluateAst(e, known)]
    /\ UNCHANGED saved

ScreenNext ==
    \/ \E id \in Screens, e \in Expressions : SaveScreener(id, e) \/ PushScreener(id, e)
    \/ \E id \in Screens : DeleteScreener(id) \/ \E row \in Rows : RunSaved(id, row)
    \/ ListScreeners
    \/ \E e \in Expressions, row \in Rows : RunScreener(e, row)
    \/ \E e \in Judged, known \in Maps : Judge(e, known)

(* A stock is found for what is known of it: when an expression that has   *)
(* been checked matches, it names at least one condition, and each of them *)
(* is about a value that is not missing and passes alone; and no value     *)
(* that is missing makes match what does not match when it is known.       *)
ScreensKnownOnly ==
    screened.kind = "judged" /\ Valid(screened.of) =>
        LET known == screened.known  answer == screened.answer
        IN  /\ answer.match => answer.conditions # <<>>
            /\ \A i \in DOMAIN answer.conditions :
                  LET c == answer.conditions[i]
                  IN  known[c.field] # Absent /\ EvaluateAst(c, known).match
            /\ ~answer.match => \A f \in {f \in Fields : known[f] # Absent} :
                  ~EvaluateAst(screened.of, [known EXCEPT ![f] = Absent]).match
===============================================================================
