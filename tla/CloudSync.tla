----------------------------- MODULE CloudSync -----------------------------
(***************************************************************************)
(* The server side of cloud synchronisation: CloudSyncService.push of      *)
(* backend/app/services/cloud_sync.py against the PostgreSQL tables of     *)
(* repositories/models.py.                                                 *)
(*                                                                         *)
(* Every POST /sync/push is one database transaction at READ COMMITTED     *)
(* (the default: no isolation level is set anywhere).  The handler awaits  *)
(* the database several times per operation, so two requests interleave    *)
(* between any two statements.  Here one action is what happens between    *)
(* two awaits that another transaction can get in between: reading the     *)
(* prior results, reading the rows an operation needs, writing the row and *)
(* its change record, recording the operation, committing.                 *)
(*                                                                         *)
(* Lists are the objects that have no parent (watch lists, portfolios,     *)
(* screeners, settings); Items are those created under one (watch list     *)
(* items, portfolio transactions, scoped alert rules), and UniqueItems the *)
(* watch list items, whose (parent, security) pair is unique.  A user      *)
(* setting's key is unique too; the rollback that ends a request meeting   *)
(* it is the one of Crash.  A device that is not the user's or was revoked *)
(* is refused before anything is read, and is no action here.              *)
(***************************************************************************)
EXTENDS Integers, Sequences

CONSTANTS Users, Lists, Items, UniqueItems, Securities, Values,
          NoList,      \* the parent of an object that has none
          NoSecurity,  \* the security of an object that has none
          OpIds,       \* the client-generated operation ids
          OpOf,        \* what each id stands for; a client never reuses one
          Requests,    \* the push requests the server can handle at once
          NoRow,       \* an absent table row
          NoResult,    \* an absent sync_operations row
          MaxBatch,    \* bound: operations in a request (the API's is 100)
          MaxSeq       \* bound: no request begins once this sequence is used

Entities == Lists \cup Items

(***************************************************************************)
(* An operation as the client sends it.  "check" is what validation finds: *)
(* the payload is in order; it is refused before anything is touched; or   *)
(* it is refused half way, by a USER_SETTING whose key is set before its   *)
(* missing value is noticed.                                               *)
(***************************************************************************)
Operation ==
  [user : Users, entity : Entities, kind : {"UPSERT", "DELETE"}, base : Nat,
   val : Values, parent : Lists \cup {NoList},
   sec : Securities \cup {NoSecurity}, check : {"ok", "bad", "partial"}]

Row ==
  [user : Users, version : Nat \ {0}, deleted : BOOLEAN, val : Values,
   parent : Lists \cup {NoList}, sec : Securities \cup {NoSecurity}]

\* A sync_changes row.  "op" is not a column: it names the operation that
\* made the change, for the properties only.
Change ==
  [seq : Nat \ {0}, user : Users, entity : Entities,
   kind : {"UPSERT", "DELETE"}, version : Nat \ {0}, payload : Row, op : OpIds]

Statuses == {"ACCEPTED", "CONFLICT", "REJECTED"}

\* The result column of a sync_operations row.
Result == [status : Statuses, version : Nat, cursor : Nat]

ASSUME CloudSyncAssumption ==
  /\ OpOf \in [OpIds -> Operation]
  /\ UniqueItems \subseteq Items
  /\ Lists \cap Items = {}
  /\ NoRow \notin Row
  /\ NoResult \notin Result \cup Statuses
  /\ MaxBatch \in Nat \ {0}
  /\ MaxSeq \in Nat

VARIABLES
  \* committed tables
  rows,        \* the synchronised objects, tombstones included
  changes,     \* sync_changes
  ledger,      \* sync_operations
  nextSeq,     \* the sequence generator; never rolled back
  \* what each request keeps
  pc,          \* "idle", "load", "apply", "record" or "commit"
  batch,       \* the operation ids of the request
  pos,         \* the operation being applied
  priors,      \* ids found recorded when the request began
  seen,        \* the row as this operation read it
  parentOk,    \* the parent was present, owned and not deleted when read
  result,      \* what the operation came to
  \* what its transaction has written and not committed
  dirtyRows, dirtyChanges, dirtyLedger

tables == <<rows, changes, ledger, nextSeq>>
local  == <<batch, pos, priors, seen, parentOk, result>>
dirty  == <<dirtyRows, dirtyChanges, dirtyLedger>>
vars   == <<tables, pc, local, dirty>>

-----------------------------------------------------------------------------
(***************************************************************************)
(* What the database shows a transaction.                                  *)
(***************************************************************************)
NothingDirty == [e \in Entities |-> NoRow]
NothingRecorded == [o \in OpIds |-> NoResult]
Rejected == [status |-> "REJECTED", version |-> 0, cursor |-> 0]

\* The operation request r is at.
Op(r)  == batch[r][pos[r]]
Cur(r) == OpOf[Op(r)]

\* A transaction sees its own writes over the committed rows.
Visible(r, e) == IF dirtyRows[r][e] # NoRow THEN dirtyRows[r][e] ELSE rows[e]

\* Another open transaction has written the row: an UPDATE of it, or an
\* INSERT with its key, waits for that transaction to end.
Locked(r, e) == \E q \in Requests \ {r} : dirtyRows[q][e] # NoRow

\* The unique (watchlist_id, security_id) pair.  Tombstones keep theirs.
SamePair(row, op) ==
  /\ row # NoRow
  /\ row.parent = op.parent
  /\ row.sec = op.sec

PairTaken(r, op) ==
  /\ op.entity \in UniqueItems
  /\ \E e \in UniqueItems : SamePair(Visible(r, e), op)

PairLocked(r, op) ==
  /\ op.entity \in UniqueItems
  /\ \E q \in Requests \ {r}, e \in UniqueItems : SamePair(dirtyRows[q][e], op)

\* Variant: the table has no unique (user_id, operation_id) constraint.
Recorded_NoConstraint(r, o) == FALSE

\* The unique (user_id, operation_id) pair.
Recorded(r, o) == ledger[o] # NoResult \/ dirtyLedger[r][o] # NoResult
RecordLocked(r, o) == \E q \in Requests \ {r} : dirtyLedger[q][o] # NoResult

-----------------------------------------------------------------------------
Init ==
  /\ rows = NothingDirty
  /\ changes = {}
  /\ ledger = NothingRecorded
  /\ nextSeq = 1
  /\ pc = [r \in Requests |-> "idle"]
  /\ batch = [r \in Requests |-> <<>>]
  /\ pos = [r \in Requests |-> 1]
  /\ priors = [r \in Requests |-> {}]
  /\ seen = [r \in Requests |-> NoRow]
  /\ parentOk = [r \in Requests |-> FALSE]
  /\ result = [r \in Requests |-> Rejected]
  /\ dirtyRows = [r \in Requests |-> NothingDirty]
  /\ dirtyChanges = [r \in Requests |-> {}]
  /\ dirtyLedger = [r \in Requests |-> NothingRecorded]

\* The batches one user's device can send: it may repeat an operation and
\* send again, in any order, what it sent before.
Batches(u) ==
  UNION {[1..n -> {o \in OpIds : OpOf[o].user = u}] : n \in 1..MaxBatch}

\* push: the results already recorded are read once, for the whole batch.
Push(r, b) ==
  /\ pc[r] = "idle"
  /\ nextSeq <= MaxSeq
  /\ pc' = [pc EXCEPT ![r] = "load"]
  /\ batch' = [batch EXCEPT ![r] = b]
  /\ pos' = [pos EXCEPT ![r] = 1]
  /\ priors' = [priors EXCEPT ![r] =
                  {o \in OpIds : (\E i \in DOMAIN b : b[i] = o) /\ ledger[o] # NoResult}]
  /\ UNCHANGED <<tables, seen, parentOk, result, dirty>>

\* The loop of push goes on to the next operation, or leaves.
Advance(r) ==
  IF pos[r] < Len(batch[r])
  THEN /\ pos' = [pos EXCEPT ![r] = @ + 1]
       /\ pc' = [pc EXCEPT ![r] = "load"]
  ELSE /\ pc' = [pc EXCEPT ![r] = "commit"]
       /\ UNCHANGED pos

\* _apply, for an operation whose result was recorded before the request.
ApplyDuplicate(r) ==
  /\ pc[r] = "load"
  /\ Op(r) \in priors[r]
  /\ Advance(r)
  /\ UNCHANGED <<tables, batch, priors, seen, parentOk, result, dirty>>

\* _apply reads the row and, when the operation creates an object, its
\* parent.
Load(r) ==
  LET op == Cur(r)
      parent == IF op.parent = NoList THEN NoRow ELSE Visible(r, op.parent)
  IN /\ pc[r] = "load"
     /\ Op(r) \notin priors[r]
     /\ pc' = [pc EXCEPT ![r] = "apply"]
     /\ seen' = [seen EXCEPT ![r] = Visible(r, op.entity)]
     /\ parentOk' = [parentOk EXCEPT ![r] =
                       \/ op.entity \in Lists
                       \/ /\ parent # NoRow
                          /\ parent.user = op.user
                          /\ ~parent.deleted]
     /\ UNCHANGED <<tables, batch, pos, priors, result, dirty>>

-----------------------------------------------------------------------------
(***************************************************************************)
(* The outcomes of _apply, decided on the row as it was read.              *)
(***************************************************************************)
Foreign(r) == seen[r] # NoRow /\ seen[r].user # Cur(r).user

Stale(r) ==
  /\ seen[r] # NoRow
  /\ ~Foreign(r)
  /\ seen[r].version # Cur(r).base

\* _mutate is reached.
Fresh(r) == ~Foreign(r) /\ ~Stale(r)

Tombstoned(r) ==
  /\ Fresh(r)
  /\ seen[r] # NoRow
  /\ seen[r].deleted
  /\ Cur(r).kind = "UPSERT"

Creates(r) ==
  /\ seen[r] = NoRow
  /\ Cur(r).kind = "UPSERT"
  /\ Cur(r).check = "ok"
  /\ parentOk[r]

Updates(r) ==
  /\ Fresh(r)
  /\ seen[r] # NoRow
  /\ ~seen[r].deleted
  /\ Cur(r).kind = "UPSERT"
  /\ Cur(r).check = "ok"

Deletes(r) ==
  /\ Fresh(r)
  /\ seen[r] # NoRow
  /\ Cur(r).kind = "DELETE"

Mutates(r) == Creates(r) \/ Updates(r) \/ Deletes(r)

\* A refused update that had already assigned a column of the loaded row.
HalfDone(r) ==
  /\ Fresh(r)
  /\ seen[r] # NoRow
  /\ ~seen[r].deleted
  /\ Cur(r).kind = "UPSERT"
  /\ Cur(r).check = "partial"
  /\ Cur(r).val # seen[r].val

\* Variant: a created object takes its version from the client's base.
Mutated_FromBase(r) ==
  LET op == Cur(r)
  IN IF seen[r] = NoRow
     THEN [user |-> op.user, version |-> op.base + 1, deleted |-> FALSE,
           val |-> op.val, parent |-> op.parent, sec |-> op.sec]
     ELSE [seen[r] EXCEPT !.val = op.val, !.deleted = (op.kind = "DELETE"),
                          !.version = @ + 1]

\* The row of the session after the mutation.  Its columns come from what
\* was read, not from what the table holds by now.
Mutated(r) ==
  LET op == Cur(r)
  IN IF seen[r] = NoRow
     THEN [user |-> op.user, version |-> 1, deleted |-> FALSE, val |-> op.val,
           parent |-> op.parent, sec |-> op.sec]
     ELSE IF op.kind = "DELETE"
     THEN [seen[r] EXCEPT !.deleted = TRUE, !.version = @ + 1]
     ELSE [seen[r] EXCEPT !.val = op.val, !.version = @ + 1]

\* Variant: the UPDATE writes every column.
Flushed_WholeRow(r) == Mutated(r)

\* The row of the table after the flush.  The UPDATE names the columns that
\* differ from what was read, and leaves the others as they are by now.
Flushed(r) ==
  LET now == Visible(r, Cur(r).entity)
      new == Mutated(r)
  IN IF seen[r] = NoRow THEN new
     ELSE [now EXCEPT
             !.version = new.version,
             !.val     = IF new.val # seen[r].val THEN new.val ELSE @,
             !.deleted = IF new.deleted # seen[r].deleted THEN new.deleted ELSE @]

ChangeOf(r) ==
  [seq |-> nextSeq, user |-> Cur(r).user, entity |-> Cur(r).entity,
   kind |-> Cur(r).kind, version |-> Mutated(r).version,
   payload |-> Mutated(r), op |-> Op(r)]

\* An INSERT meets a committed row with the same key.
KeyTaken(r) ==
  /\ Creates(r)
  /\ Visible(r, Cur(r).entity) # NoRow \/ PairTaken(r, Cur(r))

\* The statement waits for another transaction.
Waits(r) == Locked(r, Cur(r).entity) \/ (Creates(r) /\ PairLocked(r, Cur(r)))

\* _mutate, accepted: the row is flushed, then the change record, whose
\* sequence is drawn at the INSERT.
Mutate(r) ==
  LET e == Cur(r).entity
  IN /\ pc[r] = "apply"
     /\ Mutates(r)
     /\ ~Waits(r)
     /\ ~KeyTaken(r)
     /\ dirtyRows' = [dirtyRows EXCEPT ![r][e] = Flushed(r)]
     /\ dirtyChanges' = [dirtyChanges EXCEPT ![r] = @ \cup {ChangeOf(r)}]
     /\ result' = [result EXCEPT ![r] =
                     [status |-> "ACCEPTED", version |-> Mutated(r).version,
                      cursor |-> nextSeq]]
     /\ nextSeq' = nextSeq + 1
     /\ pc' = [pc EXCEPT ![r] = "record"]
     /\ UNCHANGED <<rows, changes, ledger, batch, pos, priors, seen, parentOk,
                    dirtyLedger>>

\* _apply or _mutate, refused: a foreign or stale row, a tombstone, or a
\* payload, parent or absence that validation turns down.
Refuse(r) ==
  /\ pc[r] = "apply"
  /\ ~Mutates(r)
  /\ ~HalfDone(r)
  /\ result' = [result EXCEPT ![r] =
       IF Stale(r) \/ Tombstoned(r)
       THEN [status |-> "CONFLICT", version |-> seen[r].version, cursor |-> 0]
       ELSE Rejected]
  /\ pc' = [pc EXCEPT ![r] = "record"]
  /\ UNCHANGED <<tables, batch, pos, priors, seen, parentOk, dirty>>

\* The refused update whose assigned column the next flush still writes.
RefuseHalfDone(r) ==
  LET e == Cur(r).entity
  IN /\ pc[r] = "apply"
     /\ HalfDone(r)
     /\ ~Locked(r, e)
     /\ dirtyRows' = [dirtyRows EXCEPT ![r][e] =
                        [Visible(r, e) EXCEPT !.val = Cur(r).val]]
     /\ result' = [result EXCEPT ![r] = Rejected]
     /\ pc' = [pc EXCEPT ![r] = "record"]
     /\ UNCHANGED <<tables, batch, pos, priors, seen, parentOk,
                    dirtyChanges, dirtyLedger>>

\* _apply records what the operation came to, whatever it came to.
RecordOperation(r) ==
  /\ pc[r] = "record"
  /\ ~RecordLocked(r, Op(r))
  /\ ~Recorded(r, Op(r))
  /\ dirtyLedger' = [dirtyLedger EXCEPT ![r][Op(r)] = result[r]]
  /\ Advance(r)
  /\ UNCHANGED <<tables, batch, priors, seen, parentOk, result, dirtyRows,
                 dirtyChanges>>

-----------------------------------------------------------------------------
Reset(r) ==
  /\ pc' = [pc EXCEPT ![r] = "idle"]
  /\ batch' = [batch EXCEPT ![r] = <<>>]
  /\ pos' = [pos EXCEPT ![r] = 1]
  /\ priors' = [priors EXCEPT ![r] = {}]
  /\ seen' = [seen EXCEPT ![r] = NoRow]
  /\ parentOk' = [parentOk EXCEPT ![r] = FALSE]
  /\ result' = [result EXCEPT ![r] = Rejected]
  /\ dirtyRows' = [dirtyRows EXCEPT ![r] = NothingDirty]
  /\ dirtyChanges' = [dirtyChanges EXCEPT ![r] = {}]
  /\ dirtyLedger' = [dirtyLedger EXCEPT ![r] = NothingRecorded]

\* The single commit at the end of push.  The reply may then be lost.
Commit(r) ==
  /\ pc[r] = "commit"
  /\ rows' = [e \in Entities |-> Visible(r, e)]
  /\ changes' = changes \cup dirtyChanges[r]
  /\ ledger' = [o \in OpIds |->
                  IF dirtyLedger[r][o] # NoResult THEN dirtyLedger[r][o] ELSE ledger[o]]
  /\ Reset(r)
  /\ UNCHANGED nextSeq

\* A unique constraint fails: the request ends in an error and everything
\* it wrote is rolled back.
UniqueViolation(r) ==
  /\ \/ pc[r] = "apply" /\ KeyTaken(r) /\ ~Waits(r)
     \/ pc[r] = "record" /\ Recorded(r, Op(r)) /\ ~RecordLocked(r, Op(r))
  /\ Reset(r)
  /\ UNCHANGED tables

\* The process dies, the connection drops, or the database picks the
\* transaction as the victim of a deadlock.
Crash(r) ==
  /\ pc[r] # "idle"
  /\ Reset(r)
  /\ UNCHANGED tables

Step(r) ==
  \/ \E u \in Users : \E b \in Batches(u) : Push(r, b)
  \/ ApplyDuplicate(r)
  \/ Load(r)
  \/ Mutate(r)
  \/ Refuse(r)
  \/ RefuseHalfDone(r)
  \/ RecordOperation(r)
  \/ Commit(r)
  \/ UniqueViolation(r)
  \/ Crash(r)

Next == \E r \in Requests : Step(r)

Spec == Init /\ [][Next]_vars
-----------------------------------------------------------------------------
(***************************************************************************)
(* The type invariant: a busy request is at an operation of its batch, and *)
(* the flush of an update always finds a row to update (_mutate, push).    *)
(***************************************************************************)
TypeOK ==
  /\ rows \in [Entities -> Row \cup {NoRow}]
  /\ changes \subseteq Change
  /\ ledger \in [OpIds -> Result \cup {NoResult}]
  /\ nextSeq \in Nat \ {0}
  /\ pc \in [Requests -> {"idle", "load", "apply", "record", "commit"}]
  /\ batch \in [Requests -> Seq(OpIds)]
  /\ pos \in [Requests -> Nat \ {0}]
  /\ \A r \in Requests : pc[r] # "idle" => pos[r] \in DOMAIN batch[r]
  /\ priors \in [Requests -> SUBSET OpIds]
  /\ seen \in [Requests -> Row \cup {NoRow}]
  /\ parentOk \in [Requests -> BOOLEAN]
  /\ result \in [Requests -> Result]
  /\ dirtyRows \in [Requests -> [Entities -> Row \cup {NoRow}]]
  /\ dirtyChanges \in [Requests -> SUBSET Change]
  /\ dirtyLedger \in [Requests -> [OpIds -> Result \cup {NoResult}]]

(***************************************************************************)
(* Each operation id takes effect at most once, and the recorded result    *)
(* tells the truth: it is ACCEPTED exactly when one committed change was   *)
(* made by that operation, and carries that change's cursor and version.   *)
(* A request repeated after a lost reply, or running twice at once, must   *)
(* not mutate twice (docs/22, Idempotency).                                *)
(***************************************************************************)
ExactlyOnce ==
  \A o \in OpIds :
    /\ \A c, d \in changes : c.op = o /\ d.op = o => c = d
    /\ (\E c \in changes : c.op = o) <=>
         (ledger[o] # NoResult /\ ledger[o].status = "ACCEPTED")
    /\ \A c \in changes : c.op = o =>
         ledger[o].cursor = c.seq /\ ledger[o].version = c.version

(***************************************************************************)
(* The committed history of an object has no hole: it starts with the      *)
(* creation, and version n+1 comes after a committed version n, however    *)
(* requests interleave or fail.  A client that reads the log in order      *)
(* never meets a version whose base it cannot have been told.              *)
(***************************************************************************)
VersionChain ==
  \A c \in changes :
    IF c.version = 1
    THEN c.kind = "UPSERT" /\ \A d \in changes : d.entity = c.entity => c.seq <= d.seq
    ELSE \E d \in changes :
           d.entity = c.entity /\ d.version = c.version - 1 /\ d.seq < c.seq

(***************************************************************************)
(* Optimistic concurrency: a mutation that made version n+1 was sent by a  *)
(* client that had named version n as its base.                            *)
(***************************************************************************)
BaseHonoured ==
  \A c \in changes : c.version > 1 => OpOf[c.op].base = c.version - 1

(***************************************************************************)
(* A committed row is always explained by the log: some committed change   *)
(* of the same user and object brought the version it shows.               *)
(***************************************************************************)
RowExplained ==
  \A e \in Entities : rows[e] # NoRow =>
    \E c \in changes :
      c.entity = e /\ c.version = rows[e].version /\ c.user = rows[e].user

(***************************************************************************)
(* One account never acts on another's object: every published change was  *)
(* asked for by the user who owns the row, and is shown to that user only. *)
(***************************************************************************)
UserIsolation ==
  \A c \in changes :
    /\ c.user = OpOf[c.op].user
    /\ rows[c.entity] # NoRow
    /\ rows[c.entity].user = c.user

(***************************************************************************)
(* A stored tombstone is final, and a stored object never vanishes or      *)
(* moves to another user, parent or security, even when an update decided  *)
(* on the live row is flushed after a delete committed.                    *)
(***************************************************************************)
TombstoneFinal ==
  [][\A e \in Entities : rows[e] # NoRow =>
       /\ rows'[e] # NoRow
       /\ rows[e].deleted => rows'[e].deleted
       /\ rows'[e].user = rows[e].user
       /\ rows'[e].parent = rows[e].parent
       /\ rows'[e].sec = rows[e].sec]_vars

(***************************************************************************)
(* What the protocol document promises, and requests one at a time keep.   *)
(***************************************************************************)

\* A stale base version is a CONFLICT, never a silent overwrite: no two
\* accepted mutations of an object carry the same version (docs/22:25).
NoLostUpdate ==
  \A c, d \in changes :
    c.entity = d.entity /\ c.version = d.version => c = d

\* An accepted mutation increments the object's version: the version of a
\* stored row never goes back (docs/22:25).
VersionGrows ==
  [][\A e \in Entities : rows[e] # NoRow => rows'[e].version >= rows[e].version]_vars

\* The change cursor is monotonic: what becomes visible later is numbered
\* higher, so a client that pulled up to a cursor misses nothing below it
\* (docs/22:25).
CursorMonotonic ==
  [][\A c \in changes' \ changes, d \in changes :
       c.user = d.user => c.seq > d.seq]_vars

\* A delete is the last word: no upsert of the object is published after
\* it, which a client would apply as a resurrection (docs/22:26).
DeleteIsLast ==
  \A c, d \in changes :
    c.entity = d.entity /\ c.kind = "DELETE" /\ d.kind = "UPSERT" => d.seq < c.seq

\* Only an accepted operation touches an object: each stored row carries
\* the value that the log published with its version.
PublishedIsStored ==
  \A e \in Entities : rows[e] # NoRow =>
    \E c \in changes : c.entity = e /\ c.payload = rows[e]

\* No object is created under a parent whose deletion was published before
\* it: a missing scope is refused (docs/23:19).
NoBirthUnderTombstone ==
  \A c, d \in changes :
    /\ c.version = 1
    /\ c.payload.parent # NoList
    /\ d.entity = c.payload.parent
    /\ d.kind = "DELETE"
    => c.seq < d.seq

(***************************************************************************)
(* The push handler implements the abstract ledger, with the committed     *)
(* tables as its state.                                                    *)
(***************************************************************************)
Outcome(o) == IF ledger[o] = NoResult THEN NoResult ELSE ledger[o].status

Abstract == INSTANCE OperationLedger WITH
  OpIds <- OpIds, Unsettled <- NoResult,
  outcome <- [o \in OpIds |-> Outcome(o)],
  applied <- {c.op : c \in changes}

\* Seen from the committed tables every interleaving of pushes settles each
\* operation once, together with its effect.
ImplementsLedger == Abstract!Spec
=============================================================================
