---------------------------- MODULE PushOutbox ----------------------------
(***************************************************************************)
(* The push notification outbox: events wait in push_events, are           *)
(* materialized into one push_deliveries row per active token of their     *)
(* user, and the rows are claimed, sent and settled by drain_outbox.       *)
(*                                                                         *)
(* A worker is one call of drain_outbox at a time: the dispatcher of an    *)
(* API process, or the dispatch_push command.  Each has a database session *)
(* of its own, which does not expire what it has loaded at a commit, so a  *)
(* delivery keeps the status it was claimed with when it is locked again.  *)
(*                                                                         *)
(* A token stands for its push_tokens row: registering a device again      *)
(* writes a new token string to the same row.  Rows are never deleted, so  *)
(* MISSING_EVENT_OR_TOKEN cannot happen and is no action.  Time is left    *)
(* out: a SENDING row may become stale once no worker is sending it.       *)
(***************************************************************************)
EXTENDS Integers, Sequences, FiniteSets

CONSTANTS Events,      \* push_events ids
          Tokens,      \* push_tokens rows
          UserOf,      \* the user of an event or a token
          Workers,     \* who may be draining at the same time
          NoDelivery,  \* no delivery in hand
          Batch,       \* batch_size
          MaxRetries,  \* max_retries
          MaxCrashes   \* bound: workers that die

Deliveries == Events \X Tokens

ASSUME PushOutboxAssumption ==
  /\ Events # {} /\ Events \cap Tokens = {}
  /\ IsFiniteSet(Events) /\ IsFiniteSet(Tokens)
  /\ DOMAIN UserOf = Events \cup Tokens
  /\ NoDelivery \notin Deliveries
  /\ Batch \in Nat \ {0}
  /\ MaxRetries \in 0..5
  /\ MaxCrashes \in Nat

Statuses == {"NONE", "PENDING", "SENDING", "SENT", "INVALID_TOKEN", "FAILED", "DISABLED"}

\* What the provider says of one attempt.
Answers == {"success", "invalid", "transient", "permanent"}

VARIABLES
  \* the tables
  outbox,   \* push_events in order of created_at
  active,   \* push_tokens.active
  status,   \* push_deliveries.status; "NONE" when there is no row
  stale,    \* rows whose last_attempt_at is older than the cutoff
  \* each worker
  pc,       \* where it is
  todo,     \* events it selected and has not materialized yet
  queue,    \* deliveries it claimed and has not begun
  current,  \* the delivery in hand
  mem,      \* the status its session remembers of what it claimed
  live,     \* the active column its session remembers of the token in hand
  try,      \* failed attempts at the delivery in hand
  answer,   \* the answer it is about to record
  locked,   \* events and deliveries whose rows it holds FOR UPDATE
  \* witnesses
  crashes,  \* workers that have died
  got,      \* how often the device got the notification
  unsure    \* deliveries the device got though the worker was not told so

tables    == <<outbox, active, status, stale>>
worker    == <<pc, todo, queue, current, mem, live, try, answer, locked>>
witnesses == <<crashes, got, unsure>>
vars      == <<tables, worker, witnesses>>

Created == {outbox[i] : i \in DOMAIN outbox}

DeliveriesOf(e) == {d \in Deliveries : d[1] = e /\ status[d] # "NONE"}

\* Variant: nobody skips a locked row or waits for it.
LockedByOthers_None(w) == {}

LockedByOthers(w) == UNION {locked[v] : v \in Workers \ {w}}

Init ==
  /\ outbox = <<>>
  /\ active = [t \in Tokens |-> FALSE]
  /\ status = [d \in Deliveries |-> "NONE"]
  /\ stale = {}
  /\ pc = [w \in Workers |-> "idle"]
  /\ todo = [w \in Workers |-> {}]
  /\ queue = [w \in Workers |-> {}]
  /\ current = [w \in Workers |-> NoDelivery]
  /\ mem = [w \in Workers |-> [d \in Deliveries |-> "NONE"]]
  /\ live = [w \in Workers |-> FALSE]
  /\ try = [w \in Workers |-> 0]
  /\ answer = [w \in Workers |-> "success"]
  /\ locked = [w \in Workers |-> {}]
  /\ crashes = 0
  /\ got = [d \in Deliveries |-> 0]
  /\ unsure = {}

-----------------------------------------------------------------------------
(***************************************************************************)
(* What goes on around the workers.                                        *)
(***************************************************************************)
\* An alert or a monitoring run stores an event, in its own transaction.
AddEvent(e) ==
  /\ e \notin Created
  /\ outbox' = Append(outbox, e)
  /\ UNCHANGED <<active, status, stale, worker, witnesses>>

Register(t) ==
  /\ ~active[t]
  /\ active' = [active EXCEPT ![t] = TRUE]
  /\ UNCHANGED <<outbox, status, stale, worker, witnesses>>

Unregister(t) ==
  /\ active[t]
  /\ active' = [active EXCEPT ![t] = FALSE]
  /\ UNCHANGED <<outbox, status, stale, worker, witnesses>>

\* A worker is between the commit of SENDING and that of the outcome.
BeingSent(d) == \E w \in Workers : current[w] = d /\ pc[w] \in {"send", "record"}

\* stale_seconds go by.  An attempt takes less than that.
Age(d) ==
  /\ status[d] = "SENDING" /\ d \notin stale
  /\ ~BeingSent(d)
  /\ stale' = stale \cup {d}
  /\ UNCHANGED <<outbox, active, status, worker, witnesses>>

-----------------------------------------------------------------------------
(***************************************************************************)
(* drain_outbox.                                                           *)
(***************************************************************************)
\* Variant: every event that was ever stored is looked at.
Unmaterialized_All(w) == Created \ LockedByOthers(w)

\* Events of a user without any delivery that nobody else has locked.
Unmaterialized(w) ==
  {e \in Created \ LockedByOthers(w) : DeliveriesOf(e) = {}}

\* The oldest of them.
Selected(w) ==
  {outbox[i] : i \in {j \in DOMAIN outbox :
     /\ outbox[j] \in Unmaterialized(w)
     /\ Cardinality({k \in 1..(j - 1) : outbox[k] \in Unmaterialized(w)}) < Batch}}

\* One SELECT ... FOR UPDATE SKIP LOCKED.
DrainBegin(w) ==
  /\ pc[w] = "idle"
  /\ pc' = [pc EXCEPT ![w] = "materialize"]
  /\ todo' = [todo EXCEPT ![w] = Selected(w)]
  /\ locked' = [locked EXCEPT ![w] = Selected(w)]
  /\ UNCHANGED <<tables, queue, current, mem, live, try, answer, witnesses>>

\* The active tokens of the event's user that have no delivery yet.
Missing(e) ==
  {d \in {e} \X Tokens :
     UserOf[d[2]] = UserOf[e] /\ active[d[2]] /\ status[d] = "NONE"}

\* materialize_event_deliveries locks the event, waiting if it must, adds
\* the missing rows and commits, which gives up the locks on all events.
Materialize(w) ==
  /\ pc[w] = "materialize"
  /\ \E e \in todo[w] \ LockedByOthers(w) :
       /\ status' = [d \in Deliveries |-> IF d \in Missing(e) THEN "PENDING" ELSE status[d]]
       /\ todo' = [todo EXCEPT ![w] = @ \ {e}]
  /\ locked' = [locked EXCEPT ![w] = {}]
  /\ UNCHANGED <<outbox, active, stale, pc, queue, current, mem, live, try, answer, witnesses>>

\* Variant: what was begun is not claimed again.
Eligible_PendingOnly(w) ==
  {d \in Deliveries \ LockedByOthers(w) : status[d] = "PENDING"}

\* PENDING rows and stale SENDING rows that nobody else has locked.
Eligible(w) ==
  {d \in Deliveries \ LockedByOthers(w) :
     status[d] = "PENDING" \/ (status[d] = "SENDING" /\ d \in stale)}

\* One SELECT ... FOR UPDATE SKIP LOCKED: up to Batch rows, in the order of
\* their ids, which are random.
Claim(w) ==
  /\ pc[w] = "materialize" /\ todo[w] = {}
  /\ \E S \in SUBSET Eligible(w) :
       /\ Cardinality(S) <= Batch
       /\ Cardinality(S) < Batch => S = Eligible(w)
       /\ queue' = [queue EXCEPT ![w] = S]
       /\ locked' = [locked EXCEPT ![w] = S]
       /\ mem' = [mem EXCEPT ![w] = [d \in Deliveries |-> IF d \in S THEN status[d] ELSE "NONE"]]
       /\ pc' = [pc EXCEPT ![w] = IF S = {} THEN "idle" ELSE "deliver"]
  /\ UNCHANGED <<tables, todo, current, live, try, answer, witnesses>>

-----------------------------------------------------------------------------
(***************************************************************************)
(* deliver_single_delivery.                                                *)
(***************************************************************************)
\* A column is written only when it differs from what is remembered.
Written(w, d, new) == IF mem[w][d] = new THEN status[d] ELSE new

\* Locking a claimed row waits for others, but what the session remembers of
\* it stays as it was claimed.
Lockable(w) == queue[w] \ LockedByOthers(w)

\* SENDING and the time of the attempt are committed, and with them every
\* lock on the batch is given up.
CommitSending(w, d) ==
  /\ status' = [status EXCEPT ![d] = Written(w, d, "SENDING")]
  /\ stale' = stale \ {d}
  /\ mem' = [mem EXCEPT ![w][d] = "SENDING"]
  /\ locked' = [locked EXCEPT ![w] = {}]
  /\ pc' = [pc EXCEPT ![w] = "send"]

\* The first attempt: the row is locked, the token read, SENDING committed.
Attempt(w) ==
  /\ pc[w] = "deliver"
  /\ \E d \in Lockable(w) :
       /\ CommitSending(w, d)
       /\ current' = [current EXCEPT ![w] = d]
       /\ queue' = [queue EXCEPT ![w] = @ \ {d}]
       /\ live' = [live EXCEPT ![w] = active[d[2]]]
  /\ UNCHANGED <<outbox, active, todo, try, answer, witnesses>>

\* After the back-off.
Retry(w) ==
  /\ pc[w] = "retry"
  /\ current[w] \notin LockedByOthers(w)
  /\ CommitSending(w, current[w])
  /\ UNCHANGED <<outbox, active, todo, queue, current, live, try, answer, witnesses>>

\* The credentials file is gone: the next delivery is given up.
Disable(w) ==
  /\ pc[w] = "deliver"
  /\ \E d \in Lockable(w) :
       /\ status' = [status EXCEPT ![d] = "DISABLED"]
       /\ stale' = stale \ {d}
       /\ mem' = [mem EXCEPT ![w][d] = "NONE"]
       /\ queue' = [queue EXCEPT ![w] = @ \ {d}]
       /\ pc' = [pc EXCEPT ![w] = IF queue[w] = {d} THEN "idle" ELSE "deliver"]
  /\ locked' = [locked EXCEPT ![w] = {}]
  /\ UNCHANGED <<outbox, active, todo, current, live, try, answer, witnesses>>

\* The provider answers.  A failure may be reported of a notification that
\* was delivered: the deadline passed, or the reply was lost.
Send(w) ==
  /\ pc[w] = "send"
  /\ \E a \in Answers, received \in BOOLEAN :
       /\ a = "success" => received
       /\ a = "invalid" => ~received
       /\ answer' = [answer EXCEPT ![w] = a]
       /\ got' = IF received THEN [got EXCEPT ![current[w]] = @ + 1] ELSE got
       /\ unsure' = IF received /\ a # "success" THEN unsure \cup {current[w]} ELSE unsure
  /\ pc' = [pc EXCEPT ![w] = "record"]
  /\ UNCHANGED <<tables, todo, queue, current, mem, live, try, locked, crashes>>

\* Another attempt follows.
Retries(w) == answer[w] = "transient" /\ try[w] < MaxRetries

Outcome(w) ==
  CASE answer[w] = "success" -> "SENT"
    [] answer[w] = "invalid" -> "INVALID_TOKEN"
    [] OTHER -> "FAILED"

\* The outcome is committed; an invalid token is deactivated, if it was
\* active when the delivery began.
Record(w) ==
  /\ pc[w] = "record"
  /\ current[w] \notin LockedByOthers(w)
  /\ status' = [status EXCEPT ![current[w]] = Written(w, current[w], Outcome(w))]
  /\ stale' = stale \ {current[w]}
  /\ active' = IF answer[w] = "invalid" /\ live[w]
               THEN [active EXCEPT ![current[w][2]] = FALSE] ELSE active
  /\ answer' = [answer EXCEPT ![w] = "success"]
  /\ IF Retries(w)
     THEN /\ pc' = [pc EXCEPT ![w] = "retry"]
          /\ mem' = [mem EXCEPT ![w][current[w]] = Outcome(w)]
          /\ try' = [try EXCEPT ![w] = @ + 1]
          /\ UNCHANGED <<current, live>>
     ELSE /\ pc' = [pc EXCEPT ![w] = IF queue[w] = {} THEN "idle" ELSE "deliver"]
          /\ mem' = [mem EXCEPT ![w][current[w]] = "NONE"]
          /\ current' = [current EXCEPT ![w] = NoDelivery]
          /\ live' = [live EXCEPT ![w] = FALSE]
          /\ try' = [try EXCEPT ![w] = 0]
  /\ UNCHANGED <<outbox, todo, queue, locked, witnesses>>

\* The process dies, the dispatcher is cancelled, or its database session
\* fails: nothing uncommitted stays, and locks are given up.
Crash(w) ==
  /\ pc[w] # "idle"
  /\ crashes < MaxCrashes
  /\ crashes' = crashes + 1
  /\ pc' = [pc EXCEPT ![w] = "idle"]
  /\ todo' = [todo EXCEPT ![w] = {}]
  /\ queue' = [queue EXCEPT ![w] = {}]
  /\ current' = [current EXCEPT ![w] = NoDelivery]
  /\ mem' = [mem EXCEPT ![w] = [d \in Deliveries |-> "NONE"]]
  /\ live' = [live EXCEPT ![w] = FALSE]
  /\ try' = [try EXCEPT ![w] = 0]
  /\ answer' = [answer EXCEPT ![w] = "success"]
  /\ locked' = [locked EXCEPT ![w] = {}]
  /\ unsure' = IF pc[w] = "record" /\ answer[w] = "success"
               THEN unsure \cup {current[w]} ELSE unsure
  /\ UNCHANGED <<tables, got>>

-----------------------------------------------------------------------------
Drain(w) ==
  \/ DrainBegin(w) \/ Materialize(w) \/ Claim(w) \/ Attempt(w)
  \/ Retry(w) \/ Disable(w) \/ Send(w) \/ Record(w)

Around ==
  \/ \E e \in Events : AddEvent(e)
  \/ \E t \in Tokens : Register(t) \/ Unregister(t)
  \/ \E d \in Deliveries : Age(d)

Next == Around \/ \E w \in Workers : Drain(w) \/ Crash(w)

Spec == Init /\ [][Next]_vars

\* The dispatcher goes on draining, row locks are granted in turn, and time
\* goes by.
Fairness ==
  /\ \A w \in Workers : WF_vars(Drain(w))
  /\ \A d \in Deliveries : WF_vars(Age(d))

FairSpec == Spec /\ Fairness

-----------------------------------------------------------------------------
(***************************************************************************)
(* The type invariant: a worker has locks and deliveries in hand where     *)
(* drain_outbox can have them.                                             *)
(***************************************************************************)
TypeOK ==
  /\ outbox \in Seq(Events)
  /\ active \in [Tokens -> BOOLEAN]
  /\ status \in [Deliveries -> Statuses]
  /\ stale \subseteq {d \in Deliveries : status[d] = "SENDING"}
  /\ pc \in [Workers -> {"idle", "materialize", "deliver", "send", "record", "retry"}]
  /\ todo \in [Workers -> SUBSET Events]
  /\ queue \in [Workers -> SUBSET Deliveries]
  /\ current \in [Workers -> Deliveries \cup {NoDelivery}]
  /\ \A w \in Workers : (current[w] # NoDelivery) = (pc[w] \in {"send", "record", "retry"})
  /\ mem \in [Workers -> [Deliveries -> Statuses]]
  /\ live \in [Workers -> BOOLEAN]
  /\ try \in [Workers -> 0..MaxRetries]
  /\ answer \in [Workers -> Answers]
  /\ locked \in [Workers -> SUBSET (Events \cup Deliveries)]
  /\ crashes \in 0..MaxCrashes
  /\ got \in [Deliveries -> Nat]
  /\ unsure \subseteq Deliveries

(***************************************************************************)
(* A row is locked by one worker, and a delivery is in the hands of one    *)
(* (claims are locked, and SENDING rows are passed over).                  *)
(***************************************************************************)
OneSender ==
  \A v, w \in Workers : v # w /\ current[v] # NoDelivery => current[v] # current[w]

(***************************************************************************)
(* A device gets a notification twice only when an earlier attempt had an  *)
(* ambiguous outcome (deliver_single_delivery's                            *)
(* AT_LEAST_ONCE_WITH_AMBIGUOUS_DUPLICATE_WINDOW), and a row says SENT     *)
(* only of a notification the device got.                                  *)
(***************************************************************************)
DuplicatesAreAmbiguous ==
  /\ \A d \in Deliveries : got[d] > 1 => d \in unsure
  /\ \A d \in Deliveries : status[d] = "SENT" => got[d] > 0

(***************************************************************************)
(* Every delivery that was stored is settled, whichever worker dies at it  *)
(* (test_multi_device_event_materialization_and_crash_recovery).           *)
(***************************************************************************)
Settled ==
  \A d \in Deliveries :
    status[d] # "NONE" ~> status[d] \in {"SENT", "INVALID_TOKEN", "FAILED", "DISABLED"}

(***************************************************************************)
(* An event of a user with an active token gets a delivery, unless the     *)
(* token is given up first (drain_outbox's Step 1).                        *)
(***************************************************************************)
EventsMaterialize ==
  \A d \in Deliveries :
    UserOf[d[1]] = UserOf[d[2]] /\ d[1] \in Created /\ active[d[2]]
      ~> DeliveriesOf(d[1]) # {} \/ ~active[d[2]]
=============================================================================
