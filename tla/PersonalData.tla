----------------------------- MODULE PersonalData -----------------------------
(***************************************************************************)
(* What the requests about the data of a user have in common: that they    *)
(* check and commit in different statements while others do, and the       *)
(* change log as its two kinds of writer number it.  A push lets the       *)
(* identity sequence of sync_changes give the number, and keeps it used    *)
(* when the transaction fails; an import counts on from the greatest       *)
(* number of its user, and does not move the identity sequence.            *)
(***************************************************************************)
EXTENDS Integers, FiniteSets, FiniteSetsExt

CONSTANTS Users,
          Owner,           \* the user whose portfolio and watch lists are modelled
          Requests,        \* requests that are handled at the same time
          MaxRequests,     \* bound: requests made
          MaxPushes,       \* bound: pushes the devices make
          MaxLost          \* bound: pushes that roll back after taking a number

VARIABLES request,         \* [Requests -> what it is about to commit or Idle]
          made,            \* requests made
          changes,         \* rows of sync_changes
          identity,        \* the next number of the identity sequence
          pushing,         \* the user whose device is pushing a change, or NoUser
          pushes, lost

log == <<changes, identity, pushing, pushes, lost>>

Idle == [op |-> "idle"]
NoOne == "API"             \* user_id NULL: what the REST routes store
NoUser == "nobody"
OtherRow == 0              \* a row the imports do not touch

ASSUME PersonalDataAssumption == Owner \in Users /\ NoUser \notin Users /\ NoOne \notin Users

DInit ==
    /\ request = [r \in Requests |-> Idle] /\ made = 0
    /\ changes = {} /\ identity = 1
    /\ pushing = NoUser /\ pushes = 0 /\ lost = 0

Change(user, number, entity, operation) ==
    [user |-> user, sequence |-> number, entity |-> entity, operation |-> operation]

Taken == {c.sequence : c \in changes}

(* The cursor an import continues from.                                    *)
Greatest(user) == Max({0} \cup {c.sequence : c \in {d \in changes : d.user = user}})

(* A request has checked what it asks and is about to commit it.           *)
Begin(r, what) ==
    /\ request[r] = Idle /\ made < MaxRequests
    /\ made' = made + 1
    /\ request' = [request EXCEPT ![r] = what]

Done(r) == request' = [request EXCEPT ![r] = Idle] /\ made' = made

(* A device has a change to push, and will try until it is taken.          *)
PushBegin(u) ==
    /\ pushing = NoUser /\ pushes < MaxPushes
    /\ pushing' = u /\ pushes' = pushes + 1
    /\ UNCHANGED <<changes, identity, lost>>

(* Variant: a failing push gives its number back.                          *)
PushAttempt_Returns ==
    /\ pushing # NoUser
    /\ IF identity \in Taken
       THEN UNCHANGED <<changes, identity, pushing>>
       ELSE /\ changes' = changes \cup {Change(pushing, identity, OtherRow, "UPSERT")}
            /\ identity' = identity + 1
            /\ pushing' = NoUser
    /\ UNCHANGED <<pushes, lost>>

(* The row of the change collides with a number an import has taken: the   *)
(* push fails, having used up the number.                                  *)
PushAttempt ==
    /\ pushing # NoUser
    /\ identity' = identity + 1
    /\ IF identity \in Taken
       THEN UNCHANGED <<changes, pushing>>
       ELSE /\ changes' = changes \cup {Change(pushing, identity, OtherRow, "UPSERT")}
            /\ pushing' = NoUser
    /\ UNCHANGED <<pushes, lost>>

(* The request dies after its number was taken, before its commit.         *)
PushLost ==
    /\ pushing # NoUser /\ lost < MaxLost /\ identity \notin Taken
    /\ identity' = identity + 1
    /\ lost' = lost + 1
    /\ UNCHANGED <<changes, pushing, pushes>>

PushNext ==
    /\ (\E u \in Users : PushBegin(u)) \/ PushAttempt \/ PushLost
    /\ UNCHANGED <<request, made>>

(* The numbers an import that read the cursor from takes for n changes;    *)
(* it commits only if all of them are still free.                          *)
Numbers(from, n) == (from + 1) .. (from + n)
Free(from, n) == Numbers(from, n) \cap Taken = {}

(* A device that has pulled up to the greatest number of its user misses   *)
(* nothing that is committed later (docs/24: monotonic sequence numbers so *)
(* that peer devices pull changes), as long as no push has rolled back     *)
(* after taking a number.                                                  *)
NothingBelowCursor ==
    [][lost = 0 => \A c \in changes' \ changes : c.sequence > Greatest(c.user)]_log

(* Imports leave the identity sequence behind the numbers they took, and   *)
(* pushes fail until it has caught up; a device that keeps trying gets its *)
(* change in.                                                              *)
PushGetsThrough == pushing # NoUser ~> pushing = NoUser
=============================================================================
