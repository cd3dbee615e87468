-------------------------- MODULE PortfolioRequests --------------------------
(***************************************************************************)
(* One portfolio as its two kinds of request change it: the portfolio API, *)
(* which checks a transaction against the ledger and then stores it in a   *)
(* later statement, and the import of a file, checked when it is previewed *)
(* and stored when the preview is applied.  The preview store is the one   *)
(* the service is written for: what is put in it can be read back.         *)
(***************************************************************************)
EXTENDS PortfolioLedger, PersonalData

CONSTANTS Trades,          \* [side, security, executed, quantity, price, fee] clients may enter
          ApiIds,          \* ids the API draws for what it stores
          Files,           \* sequences of trades with the id each row carries and,
                           \* of a row that does not parse, what is wrong with it
          Tokens           \* preview tokens

VARIABLES ledger,          \* rows of portfolio_transactions
          clock,           \* commits so far: created_at of the next row
          previews,        \* [Tokens -> the stored preview or Idle]
          causes           \* history: "overlap", "import"

ASSUME PortfolioAssumption ==
    /\ \A file \in Files : Len(file) \in Nat /\ DOMAIN file = 1 .. Len(file)
    /\ ApiIds \subseteq Nat
    /\ \A t \in Trades :
         /\ t.side \in {"BUY", "SELL"} /\ t.executed \in Nat
         /\ t.quantity \in Nat \ {0} /\ t.price \in Nat \ {0} /\ t.fee \in Nat

Gone == [op |-> "gone"]    \* a preview that has been applied: tokens are not reused

book == <<ledger, clock, previews, causes>>

PInit ==
    /\ ledger = {} /\ clock = 1 /\ causes = {}
    /\ previews = [k \in Tokens |-> Idle]

Row(trade, id, user, created) ==
    [id |-> id, user |-> user, created |-> created, side |-> trade.side,
     security |-> trade.security, executed |-> trade.executed,
     quantity |-> trade.quantity, price |-> trade.price, fee |-> trade.fee]

(* The ledger is about to change: a request checked against it is late, and *)
(* so is a preview.                                                        *)
Late(what) == IF what.op \in {"create", "delete", "preview"} THEN [what EXCEPT !.late = TRUE] ELSE what
Written(r) ==
    /\ request' = [x \in Requests |-> IF x = r THEN Idle ELSE Late(request[x])]
    /\ clock' = clock + 1

(* POST /transactions: the candidate is replayed as if it were written     *)
(* after every row there is.                                               *)
Candidate(t) == Row(t, 0, NoOne, clock)

CreateBegin(r) == \E t \in Trades :
    /\ Replays(ledger \cup {Candidate(t)})
    /\ Begin(r, [op |-> "create", trade |-> t, late |-> FALSE])
    /\ UNCHANGED <<ledger, clock, previews, causes, log>>

Overlapping(what) == IF what.late THEN {"overlap"} ELSE {}

CreateCommit(r) == \E id \in ApiIds \ {t.id : t \in ledger} :
    /\ request[r].op = "create"
    /\ ledger' = ledger \cup {Row(request[r].trade, id, NoOne, clock)}
    /\ causes' = causes \cup Overlapping(request[r])
    /\ previews' = [k \in Tokens |-> Late(previews[k])]
    /\ Written(r)
    /\ UNCHANGED <<made, log>>

(* Variant: only the shares that remain in the end are looked at.          *)
DeleteBegin_NetOnly(r) == \E t \in ledger :
    /\ Replays_NetOnly(ledger \ {t})
    /\ Begin(r, [op |-> "delete", id |-> t.id, late |-> FALSE])
    /\ UNCHANGED <<ledger, clock, previews, causes, log>>

(* DELETE /transactions/{id}: what remains must replay.  No change is      *)
(* logged.                                                                 *)
DeleteBegin(r) == \E t \in ledger :
    /\ Replays(ledger \ {t})
    /\ Begin(r, [op |-> "delete", id |-> t.id, late |-> FALSE])
    /\ UNCHANGED <<ledger, clock, previews, causes, log>>

DeleteCommit(r) ==
    /\ request[r].op = "delete"
    /\ ledger' = {t \in ledger : t.id # request[r].id}
    /\ causes' = causes \cup Overlapping(request[r])
    /\ previews' = [k \in Tokens |-> Late(previews[k])]
    /\ Written(r)
    /\ UNCHANGED <<made, log>>

(* The rows of a file as the preview replays them, read at one time or one *)
(* after the other.                                                        *)
Candidates(file, user, atOnce) ==
    {Row(file[i], file[i].id, user, clock + IF atOnce THEN 0 ELSE i) : i \in DOMAIN file}

(* Why a row is not taken: what is checked of it, in the order of the code.*)
RowErrors == {"INVALID_SIDE", "INVALID_DATETIME", "INVALID_SHARES", "INVALID_PRICE",
              "INVALID_FEE", "INVALID_LOT_TYPE", "AMBIGUOUS_SECURITY",
              "SECURITY_NOT_FOUND", "PARSE_ERROR"}
Invalid(file) == {i \in DOMAIN file : file[i].error \in RowErrors}

(* A row that repeats another of the file is only warned of.               *)
Repeated(file) ==
    {i \in DOMAIN file : \E j \in 1 .. i - 1 :
        [file[j] EXCEPT !.id = file[i].id] = file[i]}

(* The dry run: unless a row is invalid, the file is replayed with the     *)
(* live rows of the owner in the portfolio named, if any.  A row the       *)
(* ledger has already is counted twice.  A preview by another user cannot  *)
(* be applied by the owner and is not kept here.                           *)
Preview(k) == \E file \in Files, named, atOnce \in BOOLEAN :
    LET seen     == IF named THEN {t \in ledger : t.user = Owner} ELSE {}
        rejected == Invalid(file) # {} \/ ~Replays(seen \cup Candidates(file, Owner, atOnce))
    IN  /\ previews[k] = Idle /\ made < MaxRequests
        /\ previews' = [previews EXCEPT ![k] =
              [op |-> "preview", file |-> file, rejected |-> rejected,
               warned |-> Repeated(file), late |-> seen # ledger]]
        /\ made' = made + 1
        /\ UNCHANGED <<ledger, clock, request, causes, log>>

(* POST /imports/portfolio/apply by the owner: the cursor is read, the     *)
(* file is not replayed again.                                             *)
Apply(k, from) == [op |-> "apply", token |-> k, file |-> previews[k].file, from |-> from]
(* Variant: the numbers are drawn from the identity sequence beforehand.   *)
ApplyBegin_Draws(r) == \E k \in Tokens :
    /\ previews[k].op = "preview" /\ ~previews[k].rejected
    /\ Begin(r, Apply(k, identity - 1))
    /\ identity' = identity + Len(previews[k].file)
    /\ UNCHANGED <<ledger, clock, previews, causes, changes, pushing, pushes, lost>>

ApplyBegin(r) == \E k \in Tokens :
    /\ previews[k].op = "preview" /\ ~previews[k].rejected
    /\ Begin(r, Apply(k, Greatest(Owner)))
    /\ UNCHANGED <<ledger, clock, previews, causes, log>>

(* The rows of a file whose id the user does not have yet, and how many of *)
(* them there are up to one of them.                                       *)
Unknown(file, user) ==
    {i \in DOMAIN file : \A t \in ledger : ~(t.id = file[i].id /\ t.user = user)}
UpTo(rows, i) == Cardinality({j \in rows : j <= i})

Collides(file, rows) == \E i \in rows, t \in ledger : t.id = file[i].id

(* Variant: the preview is taken out of the store before it is applied.    *)
AfterFailure_Taken(k) == [previews EXCEPT ![k] = Gone]

(* What a failing request leaves of the previews: the one it was to apply  *)
(* stays.                                                                  *)
AfterFailure(k) == previews

(* All the rows, their changes and the removal of the preview, or nothing. *)
ApplyCommit(r) ==
    LET a    == request[r]
        rows == Unknown(a.file, Owner)
    IN  /\ a.op = "apply"
        /\ \/ /\ Free(a.from, Cardinality(rows)) /\ ~Collides(a.file, rows)
              /\ ledger' = ledger \cup
                   {Row(a.file[i], a.file[i].id, Owner, clock) : i \in rows}
              /\ changes' = changes \cup
                   {Change(Owner, a.from + UpTo(rows, i), a.file[i].id, "UPSERT") : i \in rows}
              /\ previews' = [k \in Tokens |->
                                IF k = a.token THEN Gone ELSE Late(previews[k])]
              /\ causes' = causes \cup {"import"} \cup
                   (IF previews[a.token] = Gone THEN {"overlap"} ELSE Overlapping(previews[a.token]))
              /\ Written(r)
           \/ /\ ~Free(a.from, Cardinality(rows)) \/ Collides(a.file, rows)
              /\ request' = [request EXCEPT ![r] = Idle]
              /\ previews' = AfterFailure(a.token)
              /\ UNCHANGED <<ledger, changes, causes, clock>>
        /\ UNCHANGED <<made, identity, pushing, pushes, lost>>

ApiNext == \E r \in Requests :
    CreateBegin(r) \/ CreateCommit(r) \/ DeleteBegin(r) \/ DeleteCommit(r)

ImportNext ==
    \/ \E k \in Tokens : Preview(k)
    \/ \E r \in Requests : ApplyBegin(r) \/ ApplyCommit(r)

(* What the transactions have paid out less what they have paid in.        *)
Paid(t) == IF t.side = "BUY" THEN -(t.price * t.quantity + t.fee)
                             ELSE t.price * t.quantity - t.fee
Cash == CostScale * SumFunction([t \in ledger |-> Paid(t)])

(* The gains of the summary, realized and not, are what the shares held    *)
(* are worth and the cash they have brought; none is given when a share    *)
(* held has no price.                                                      *)
SummaryAddsUp ==
    \A close \in {NoClose, 2} :
       LET positions == Replay(ledger).positions
           latest    == [s \in Securities(ledger) |->
                           [close |-> close, asOf |-> 1, status |-> "FINAL"]]
           answer    == Summary(positions, Holdings(positions, latest))
       IN  IF answer.complete
           THEN /\ answer.realized + answer.unrealized = answer.value + Cash
                /\ answer.status = "FINAL"
           ELSE close = NoClose /\ answer.status = "PARTIAL"

(* While the portfolio API is used alone and no two of its requests        *)
(* overlap, its ledger can be replayed, whatever was entered out of order  *)
(* or deleted: positions, holdings and summary answer, and the summary     *)
(* adds up.                                                                *)
GuardedLedgerReplays == causes = {} => Replays(ledger) /\ SummaryAddsUp

(* An import is all or nothing (docs/24): when the preview is gone, each   *)
(* of its rows is in the ledger under its id and the change log tells the  *)
(* devices of the owner about it.                                          *)
AppliedIsStored ==
    [][\A k \in Tokens : previews[k] # Gone /\ previews'[k] = Gone =>
          \A x \in ToSet(previews[k].file) :
             /\ \E t \in ledger' : t.id = x.id /\ t.user = Owner
             /\ \E c \in changes' : c.entity = x.id /\ c.user = Owner]_<<book, request, log>>
=============================================================================
