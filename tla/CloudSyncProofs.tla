-------------------------- MODULE CloudSyncProofs --------------------------
(***************************************************************************)
(* Theorems about CloudSync, for any number of users, objects, operations  *)
(* and concurrent requests, and about the devices of an account next to    *)
(* it, whose theorems hold with them: the device that sends edits, and the *)
(* devices that pull.                                                      *)
(***************************************************************************)
EXTENDS CloudSyncInvariant, SyncClient, CloudReplica, FiniteSetTheorems,
        WellFoundedInduction, TLAPS

-----------------------------------------------------------------------------
(***************************************************************************)
(* Types.                                                                  *)
(***************************************************************************)

\* A busy request is at an operation of its batch.
LEMMA OpTyped ==
  ASSUME TypeOK, NEW r \in Requests, pc[r] # "idle"
  PROVE  Op(r) \in OpIds /\ Cur(r) \in Operation
<1>1. batch[r] \in Seq(OpIds) /\ pos[r] \in DOMAIN batch[r]
  BY DEF TypeOK
<1>2. batch[r][pos[r]] \in OpIds
  BY <1>1
<1> QED
  BY <1>2, CloudSyncAssumption DEF Op, Cur, CloudSyncAssumption

\* What a transaction sees of an object is a row or nothing.
LEMMA VisibleTyped ==
  ASSUME TypeOK, NEW r \in Requests, NEW e \in Entities
  PROVE  Visible(r, e) \in Row \cup {NoRow}
BY DEF TypeOK, Visible

\* The row a mutation makes, and the row its flush leaves, are rows.
LEMMA MutatedTyped ==
  ASSUME TypeOK, SeenStands, NEW r \in Requests, pc[r] = "apply", Mutates(r)
  PROVE  Mutated(r) \in Row /\ Flushed(r) \in Row
<1>1. Cur(r) \in Operation
  BY OpTyped
<1>2. Cur(r).entity \in Entities
  BY <1>1 DEF Operation
<1>3. Visible(r, Cur(r).entity) \in Row \cup {NoRow} /\ seen[r] \in Row \cup {NoRow}
  BY <1>2, VisibleTyped DEF TypeOK
<1>4. Mutated(r) \in Row
  <2>1. CASE seen[r] = NoRow
    BY <1>1, <2>1 DEF Mutated, Row, Operation
  <2>2. CASE seen[r] # NoRow
    <3>1. seen[r] \in Row
      BY <1>3, <2>2
    <3>2. seen[r].version + 1 \in Nat \ {0}
      BY <3>1 DEF Row
    <3>3. Cur(r).val \in Values
      BY <1>1 DEF Operation
    <3> QED
      BY <2>2, <3>1, <3>2, <3>3 DEF Mutated, Row
  <2> QED
    BY <2>1, <2>2
<1>5. CASE seen[r] = NoRow
  BY <1>4, <1>5 DEF Flushed
<1>6. CASE seen[r] # NoRow
  <2>1. Visible(r, Cur(r).entity) \in Row
    BY <1>3, <1>6 DEF SeenStands
  <2> QED
    BY <1>4, <1>6, <2>1 DEF Flushed, Row
<1> QED
  BY <1>4, <1>5, <1>6

\* A change record of a mutation is a change.
LEMMA ChangeTyped ==
  ASSUME TypeOK, SeenStands, NEW r \in Requests, pc[r] = "apply", Mutates(r)
  PROVE  ChangeOf(r) \in Change
<1>1. Cur(r) \in Operation /\ Op(r) \in OpIds
  BY OpTyped
<1>2. Mutated(r) \in Row
  BY MutatedTyped
<1>3. nextSeq \in Nat \ {0}
  BY DEF TypeOK
<1> QED
  BY <1>1, <1>2, <1>3 DEF ChangeOf, Change, Operation, Row

LEMMA InitTyped == Init => TypeOK
BY CloudSyncAssumption DEF Init, TypeOK, NothingDirty, NothingRecorded, Rejected, Result, Statuses

\* Going on to the next operation keeps the position inside the batch.
LEMMA AdvanceTyped ==
  ASSUME TypeOK, NEW r \in Requests, pc[r] # "idle", Advance(r), batch' = batch
  PROVE  /\ pc' \in [Requests -> {"idle", "load", "apply", "record", "commit"}]
         /\ pos' \in [Requests -> Nat \ {0}]
         /\ \A q \in Requests : pc'[q] # "idle" => pos'[q] \in DOMAIN batch'[q]
<1>1. batch[r] \in Seq(OpIds) /\ pos[r] \in DOMAIN batch[r] /\ pos[r] \in Nat \ {0}
  BY DEF TypeOK
<1>2. DOMAIN batch[r] = 1..Len(batch[r]) /\ Len(batch[r]) \in Nat
  BY <1>1
<1>3. CASE pos[r] < Len(batch[r])
  <2>1. pos' = [pos EXCEPT ![r] = @ + 1] /\ pc' = [pc EXCEPT ![r] = "load"]
    BY <1>3 DEF Advance
  <2>2. pos[r] + 1 \in DOMAIN batch[r] /\ pos[r] + 1 \in Nat \ {0}
    BY <1>1, <1>2, <1>3
  <2> QED
    BY <2>1, <2>2 DEF TypeOK
<1>4. CASE ~(pos[r] < Len(batch[r]))
  BY <1>1, <1>4 DEF TypeOK, Advance
<1> QED
  BY <1>3, <1>4

\* A request that has ended is back to its initial state.
LEMMA ResetTyped ==
  ASSUME TypeOK, NEW r \in Requests, Reset(r), rows' \in [Entities -> Row \cup {NoRow}],
         changes' \subseteq Change, ledger' \in [OpIds -> Result \cup {NoResult}],
         nextSeq' = nextSeq
  PROVE  TypeOK'
<1>1. Rejected \in Result
  BY DEF Rejected, Result, Statuses
<1>2. NothingDirty \in [Entities -> Row \cup {NoRow}]
  BY DEF NothingDirty
<1>3. NothingRecorded \in [OpIds -> Result \cup {NoResult}]
  BY DEF NothingRecorded
<1>4. <<>> \in Seq(OpIds)
  OBVIOUS
<1> QED
  BY <1>1, <1>2, <1>3, <1>4 DEF TypeOK, Reset

LEMMA TypeStep ==
  ASSUME TypeOK, SeenStands, [Next]_vars
  PROVE  TypeOK'
<1> USE DEF tables, local, dirty
<1>1. ASSUME NEW r \in Requests, NEW u \in Users, NEW b \in Batches(u), Push(r, b)
      PROVE  TypeOK'
  <2>1. b \in Seq(OpIds) /\ 1 \in DOMAIN b
    BY CloudSyncAssumption, <1>1 DEF Batches, CloudSyncAssumption
  <2> QED
    BY <1>1, <2>1 DEF TypeOK, Push
<1>2. ASSUME NEW r \in Requests, ApplyDuplicate(r)
      PROVE  TypeOK'
  BY <1>2, AdvanceTyped DEF TypeOK, ApplyDuplicate
<1>3. ASSUME NEW r \in Requests, Load(r)
      PROVE  TypeOK'
  <2>1. Cur(r).entity \in Entities
    BY <1>3, OpTyped DEF Load, Operation
  <2>2. Visible(r, Cur(r).entity) \in Row \cup {NoRow}
    BY <2>1, VisibleTyped
  <2> QED
    BY <1>3, <2>2 DEF TypeOK, Load
<1>4. ASSUME NEW r \in Requests, Mutate(r)
      PROVE  TypeOK'
  <2>1. Cur(r).entity \in Entities
    BY <1>4, OpTyped DEF Mutate, Operation
  <2>2. Mutated(r) \in Row /\ Flushed(r) \in Row /\ ChangeOf(r) \in Change
    BY <1>4, MutatedTyped, ChangeTyped DEF Mutate
  <2>3. [status |-> "ACCEPTED", version |-> Mutated(r).version, cursor |-> nextSeq] \in Result
    BY <2>2 DEF TypeOK, Row, Result, Statuses
  <2> QED
    BY <1>4, <2>1, <2>2, <2>3 DEF TypeOK, Mutate
<1>5. ASSUME NEW r \in Requests, Refuse(r)
      PROVE  TypeOK'
  <2>1. Stale(r) \/ Tombstoned(r) => seen[r] \in Row
    BY DEF TypeOK, Stale, Tombstoned
  <2>2. result'[r] \in Result
    BY <1>5, <2>1 DEF TypeOK, Refuse, Row, Result, Statuses, Rejected
  <2> QED
    BY <1>5, <2>2 DEF TypeOK, Refuse
<1>6. ASSUME NEW r \in Requests, RefuseHalfDone(r)
      PROVE  TypeOK'
  <2>1. Cur(r).entity \in Entities /\ Cur(r).val \in Values
    BY <1>6, OpTyped DEF RefuseHalfDone, Operation
  <2>2. Visible(r, Cur(r).entity) \in Row
    BY <1>6, <2>1, VisibleTyped DEF RefuseHalfDone, HalfDone, SeenStands
  <2>3. [Visible(r, Cur(r).entity) EXCEPT !.val = Cur(r).val] \in Row
    BY <2>1, <2>2 DEF Row
  <2>4. Rejected \in Result
    BY DEF Rejected, Result, Statuses
  <2> QED
    BY <1>6, <2>1, <2>3, <2>4 DEF TypeOK, RefuseHalfDone
<1>7. ASSUME NEW r \in Requests, RecordOperation(r)
      PROVE  TypeOK'
  <2>1. Op(r) \in OpIds
    BY <1>7, OpTyped DEF RecordOperation
  <2> QED
    BY <1>7, <2>1, AdvanceTyped DEF TypeOK, RecordOperation
<1>8. ASSUME NEW r \in Requests, Commit(r)
      PROVE  TypeOK'
  <2>1. \A e \in Entities : Visible(r, e) \in Row \cup {NoRow}
    BY VisibleTyped
  <2> QED
    BY <1>8, <2>1, ResetTyped, ZenonT(30) DEF TypeOK, Commit
<1>9. ASSUME NEW r \in Requests, UniqueViolation(r) \/ Crash(r)
      PROVE  TypeOK'
  BY <1>9, ResetTyped DEF TypeOK, UniqueViolation, Crash
<1>10. CASE UNCHANGED vars
  BY <1>10 DEF TypeOK, vars
<1> QED
  BY <1>1, <1>2, <1>3, <1>4, <1>5, <1>6, <1>7, <1>8, <1>9, <1>10 DEF Next, Step

-----------------------------------------------------------------------------
(***************************************************************************)
(* Rows.  Every action is one of four for the tables and the open writes:  *)
(* it leaves them alone, writes one row, ends without a commit or commits. *)
(***************************************************************************)

\* Request r writes row into its transaction, over what it sees of e.
Writes(r, e, row) ==
  /\ ~Locked(r, e)
  /\ row \in Row
  /\ Visible(r, e) # NoRow =>
       /\ SameOwner(row, Visible(r, e))
       /\ Visible(r, e).deleted => row.deleted
  /\ dirtyRows' = [dirtyRows EXCEPT ![r][e] = row]
  /\ rows' = rows

\* What Mutate writes keeps the owner, the place and the tombstone.
LEMMA MutateWrites ==
  ASSUME TypeOK, SeenStands, NEW r \in Requests, Mutate(r)
  PROVE  Writes(r, Cur(r).entity, Flushed(r)) /\ Cur(r).entity \in Entities
<1>1. Cur(r).entity \in Entities /\ Cur(r).kind \in {"UPSERT", "DELETE"}
  BY OpTyped DEF Mutate, Operation
<1>2. Flushed(r) \in Row
  BY MutatedTyped DEF Mutate
<1>3. Visible(r, Cur(r).entity) \in Row \cup {NoRow} /\ seen[r] \in Row \cup {NoRow}
  BY <1>1, VisibleTyped DEF TypeOK
<1>4. CASE seen[r] = NoRow
  BY <1>1, <1>2, <1>4 DEF Mutate, Mutates, Creates, Updates, Deletes, KeyTaken, Waits, Writes
<1>5. CASE seen[r] # NoRow
  <2>1. seen[r] \in Row /\ Visible(r, Cur(r).entity) \in Row
    BY <1>3, <1>5 DEF SeenStands, Mutate
  <2>2. SameOwner(Flushed(r), Visible(r, Cur(r).entity))
    BY <1>5, <2>1 DEF Flushed, SameOwner, Row
  <2>3. Mutated(r).deleted # seen[r].deleted => Mutated(r).deleted
    BY <1>5, <2>1 DEF Mutated, Row
  <2>4. Visible(r, Cur(r).entity).deleted => Flushed(r).deleted
    BY <1>5, <2>1, <2>3 DEF Flushed, Row
  <2> QED
    BY <1>1, <1>2, <2>2, <2>4 DEF Mutate, Waits, Writes
<1> QED
  BY <1>4, <1>5

LEMMA HalfDoneWrites ==
  ASSUME TypeOK, SeenStands, NEW r \in Requests, RefuseHalfDone(r)
  PROVE  /\ Writes(r, Cur(r).entity, [Visible(r, Cur(r).entity) EXCEPT !.val = Cur(r).val])
         /\ Cur(r).entity \in Entities
         /\ Visible(r, Cur(r).entity) \in Row
<1>1. Cur(r).entity \in Entities /\ Cur(r).val \in Values
  BY OpTyped DEF RefuseHalfDone, Operation
<1>2. Visible(r, Cur(r).entity) \in Row
  BY <1>1, VisibleTyped DEF RefuseHalfDone, HalfDone, SeenStands
<1> DEFINE row == [Visible(r, Cur(r).entity) EXCEPT !.val = Cur(r).val]
<1>3. /\ row \in Row
      /\ SameOwner(row, Visible(r, Cur(r).entity))
      /\ Visible(r, Cur(r).entity).deleted => row.deleted
  BY <1>1, <1>2 DEF Row, SameOwner
<1>4. /\ ~Locked(r, Cur(r).entity)
      /\ dirtyRows' = [dirtyRows EXCEPT ![r][Cur(r).entity] = row]
      /\ rows' = rows
  BY DEF RefuseHalfDone, tables
<1> HIDE DEF row
<1>5. Writes(r, Cur(r).entity, row)
  BY <1>3, <1>4 DEF Writes
<1> QED
  BY <1>1, <1>2, <1>5 DEF row

\* The four ways a step treats the rows.
RowStep ==
  \/ rows' = rows /\ dirtyRows' = dirtyRows
  \/ \E r \in Requests, e \in Entities, row \in Row :
       Writes(r, e, row) /\ pc'[r] # "apply" /\ \A q \in Requests \ {r} : pc'[q] = pc[q]
  \/ \E r \in Requests : Reset(r) /\ rows' = rows
  \/ \E r \in Requests : Reset(r) /\ rows' = [e \in Entities |-> Visible(r, e)]

LEMMA NextRowStep ==
  ASSUME TypeOK, SeenStands, [Next]_vars
  PROVE  RowStep
<1> USE DEF tables, local, dirty
<1>1. ASSUME NEW r \in Requests, Mutate(r)
      PROVE  RowStep
  <2>1. pc'[r] # "apply" /\ \A q \in Requests \ {r} : pc'[q] = pc[q]
    BY <1>1 DEF Mutate, TypeOK
  <2> QED
    BY <1>1, <2>1, MutateWrites DEF RowStep, Writes
<1>2. ASSUME NEW r \in Requests, RefuseHalfDone(r)
      PROVE  RowStep
  <2>1. pc'[r] # "apply" /\ \A q \in Requests \ {r} : pc'[q] = pc[q]
    BY <1>2 DEF RefuseHalfDone, TypeOK
  <2>2. PICK row : Writes(r, Cur(r).entity, row) /\ Cur(r).entity \in Entities
    BY <1>2, HalfDoneWrites
  <2> QED
    BY <2>1, <2>2 DEF RowStep, Writes
<1>3. ASSUME NEW r \in Requests, Commit(r) \/ UniqueViolation(r) \/ Crash(r)
      PROVE  RowStep
  BY <1>3 DEF RowStep, Commit, UniqueViolation, Crash
<1>4. ASSUME NEW r \in Requests,
             \/ \E u \in Users : \E b \in Batches(u) : Push(r, b)
             \/ ApplyDuplicate(r) \/ Load(r) \/ Refuse(r) \/ RecordOperation(r)
      PROVE  RowStep
  BY <1>4 DEF RowStep, Push, ApplyDuplicate, Load, Refuse, RecordOperation
<1>5. CASE UNCHANGED vars
  BY <1>5 DEF RowStep, vars
<1> QED
  BY <1>1, <1>2, <1>3, <1>4, <1>5 DEF Next, Step

LEMMA RowExclusiveStep ==
  ASSUME TypeOK, RowExclusive, RowStep
  PROVE  RowExclusive'
<1>1. CASE dirtyRows' = dirtyRows
  BY <1>1 DEF RowExclusive
<1>2. ASSUME NEW r \in Requests, NEW e \in Entities, NEW row \in Row, Writes(r, e, row)
      PROVE  RowExclusive'
  BY <1>2 DEF RowExclusive, Writes, Locked, TypeOK
<1>3. ASSUME NEW r \in Requests, Reset(r)
      PROVE  RowExclusive'
  BY <1>3 DEF RowExclusive, Reset, NothingDirty, TypeOK
<1> QED
  BY <1>1, <1>2, <1>3 DEF RowStep

LEMMA DirtyKeepsStep ==
  ASSUME TypeOK, RowExclusive, DirtyKeeps, RowStep
  PROVE  DirtyKeeps'
<1>1. CASE rows' = rows /\ dirtyRows' = dirtyRows
  BY <1>1 DEF DirtyKeeps
<1>2. ASSUME NEW r \in Requests, NEW e \in Entities, NEW row \in Row, Writes(r, e, row)
      PROVE  DirtyKeeps'
  <2>1. rows[e] # NoRow => SameOwner(row, rows[e]) /\ (rows[e].deleted => row.deleted)
    BY <1>2 DEF Writes, Visible, DirtyKeeps, SameOwner
  <2> QED
    BY <1>2, <2>1 DEF DirtyKeeps, Writes, TypeOK
<1>3. ASSUME NEW r \in Requests, Reset(r), rows' = rows
      PROVE  DirtyKeeps'
  BY <1>3 DEF DirtyKeeps, Reset, NothingDirty, TypeOK
<1>4. ASSUME NEW r \in Requests, Reset(r), rows' = [e \in Entities |-> Visible(r, e)]
      PROVE  DirtyKeeps'
  <2> SUFFICES ASSUME NEW q \in Requests, NEW e \in Entities,
                      dirtyRows'[q][e] # NoRow, rows'[e] # NoRow
               PROVE  /\ SameOwner(dirtyRows'[q][e], rows'[e])
                      /\ rows'[e].deleted => dirtyRows'[q][e].deleted
    BY DEF DirtyKeeps
  <2>1. q # r /\ dirtyRows'[q] = dirtyRows[q]
    BY <1>4 DEF Reset, NothingDirty, TypeOK
  <2>2. dirtyRows[r][e] = NoRow
    BY <2>1 DEF RowExclusive
  <2>3. rows'[e] = rows[e]
    BY <1>4, <2>2 DEF Visible
  <2> QED
    BY <2>1, <2>3 DEF DirtyKeeps
<1> QED
  BY <1>1, <1>2, <1>3, <1>4 DEF RowStep

\* What a step does to a request in "apply": it was there before and kept
\* its operation and its reading, or it has just read.
LEMMA ApplyStep ==
  ASSUME TypeOK, [Next]_vars, NEW q \in Requests, pc'[q] = "apply"
  PROVE  /\ Cur(q)' = Cur(q) /\ Op(q)' = Op(q)
         /\ \/ pc[q] = "apply" /\ seen'[q] = seen[q]
            \/ /\ Load(q)
               /\ seen'[q] = Visible(q, Cur(q).entity)
               /\ rows' = rows /\ dirtyRows' = dirtyRows
<1> USE DEF tables, local, dirty, TypeOK, Op, Cur
<1> DEFINE Goal == /\ Cur(q)' = Cur(q) /\ Op(q)' = Op(q)
                   /\ \/ pc[q] = "apply" /\ seen'[q] = seen[q]
                      \/ /\ Load(q)
                         /\ seen'[q] = Visible(q, Cur(q).entity)
                         /\ rows' = rows /\ dirtyRows' = dirtyRows
<1>1. ASSUME NEW r \in Requests, NEW u \in Users, NEW b \in Batches(u), Push(r, b)
      PROVE  Goal
  BY <1>1, SMTT(30) DEF Push
<1>2. ASSUME NEW r \in Requests, Load(r)
      PROVE  Goal
  BY <1>2 DEF Load
<1>3. ASSUME NEW r \in Requests, ApplyDuplicate(r) \/ RecordOperation(r)
      PROVE  Goal
  BY <1>3 DEF ApplyDuplicate, RecordOperation, Advance
<1>4. ASSUME NEW r \in Requests, Mutate(r)
      PROVE  Goal
  BY <1>4 DEF Mutate
<1>5. ASSUME NEW r \in Requests, Refuse(r) \/ RefuseHalfDone(r)
      PROVE  Goal
  BY <1>5 DEF Refuse, RefuseHalfDone
<1>6. ASSUME NEW r \in Requests, Commit(r) \/ UniqueViolation(r) \/ Crash(r)
      PROVE  Goal
  BY <1>6 DEF Commit, UniqueViolation, Crash, Reset
<1>7. CASE UNCHANGED vars
  BY <1>7 DEF vars
<1> QED
  BY <1>1, <1>2, <1>3, <1>4, <1>5, <1>6, <1>7 DEF Next, Step

LEMMA SeenStandsStep ==
  ASSUME TypeOK, SeenStands, DirtyKeeps, RowStep, [Next]_vars
  PROVE  SeenStands'
<1> SUFFICES ASSUME NEW q \in Requests, pc'[q] = "apply", seen'[q] # NoRow
             PROVE  /\ Visible(q, Cur(q).entity)' # NoRow
                    /\ SameOwner(Visible(q, Cur(q).entity)', seen'[q])
  BY DEF SeenStands, SameOwner
<1> DEFINE e == Cur(q).entity
<1>1. e' = e /\ e \in Entities
  <2>1. Cur(q)' = Cur(q) /\ pc[q] # "idle"
    BY ApplyStep DEF Load
  <2> QED
    BY <2>1, OpTyped DEF Operation
<1> HIDE DEF e
<1>2. CASE Load(q) /\ seen'[q] = Visible(q, e) /\ rows' = rows /\ dirtyRows' = dirtyRows
  BY <1>1, <1>2 DEF Visible, SameOwner, e
<1>3. CASE pc[q] = "apply" /\ seen'[q] = seen[q]
  <2>1. Visible(q, e) # NoRow /\ SameOwner(Visible(q, e), seen[q])
    BY <1>3 DEF SeenStands, e
  <2>2. Visible(q, e)' # NoRow /\ SameOwner(Visible(q, e)', Visible(q, e))
    <3>1. CASE rows' = rows /\ dirtyRows' = dirtyRows
      BY <1>1, <2>1, <3>1 DEF Visible, SameOwner
    <3>2. ASSUME NEW r \in Requests, NEW f \in Entities, NEW row \in Row,
                 Writes(r, f, row), pc'[r] # "apply"
          PROVE  Visible(q, e)' = Visible(q, e)
      BY <1>1, <3>2 DEF Visible, Writes, TypeOK
    <3>3. ASSUME NEW r \in Requests, Reset(r)
          PROVE  dirtyRows'[q] = dirtyRows[q]
      BY <3>3 DEF Reset, TypeOK
    <3>4. ASSUME NEW r \in Requests, Reset(r), rows' = [f \in Entities |-> Visible(r, f)]
          PROVE  Visible(q, e)' # NoRow /\ SameOwner(Visible(q, e)', Visible(q, e))
      <4>1. rows'[e] = Visible(r, e) /\ dirtyRows'[q] = dirtyRows[q]
        BY <1>1, <3>3, <3>4
      <4>2. rows[e] # NoRow => rows'[e] # NoRow /\ SameOwner(rows'[e], rows[e])
        BY <1>1, <4>1 DEF Visible, DirtyKeeps, SameOwner
      <4> QED
        BY <1>1, <2>1, <4>1, <4>2 DEF Visible, SameOwner
    <3> QED
      BY <1>1, <2>1, <3>1, <3>2, <3>3, <3>4 DEF RowStep, Visible, SameOwner
  <2> QED
    BY <1>1, <1>3, <2>1, <2>2 DEF SameOwner, e
<1> QED
  BY <1>2, <1>3, ApplyStep DEF e

-----------------------------------------------------------------------------
LEMMA RowInvInit == Init => RowInv
BY InitTyped, CloudSyncAssumption
   DEF Init, RowInv, RowExclusive, SeenStands, DirtyKeeps, NothingDirty

LEMMA RowInvStep == RowInv /\ [Next]_vars => RowInv'
<1> SUFFICES ASSUME RowInv, [Next]_vars
             PROVE  RowInv'
  OBVIOUS
<1>1. TypeOK /\ RowExclusive /\ SeenStands /\ DirtyKeeps
  BY DEF RowInv
<1>2. RowStep
  BY <1>1, NextRowStep
<1> QED
  BY <1>1, <1>2, TypeStep, RowExclusiveStep, SeenStandsStep, DirtyKeepsStep DEF RowInv

LEMMA RowInvHolds == Spec => []RowInv
BY RowInvInit, RowInvStep, PTL DEF Spec

(***************************************************************************)
(* Every variable of the push handler has its type: in particular a flush  *)
(* decided on an earlier reading always finds a row to update.             *)
(***************************************************************************)
THEOREM TypeCorrect == Spec => []TypeOK
<1>1. RowInv => TypeOK
  BY DEF RowInv
<1> QED
  BY <1>1, RowInvHolds, PTL

(***************************************************************************)
(* No interleaving of pushes revives a stored tombstone, removes a stored  *)
(* object or moves it to another user, parent or security.                 *)
(***************************************************************************)
THEOREM TombstonesAreFinal == Spec => TombstoneFinal
<1> DEFINE Kept == \A e \in Entities : rows[e] # NoRow =>
                     /\ rows'[e] # NoRow
                     /\ rows[e].deleted => rows'[e].deleted
                     /\ rows'[e].user = rows[e].user
                     /\ rows'[e].parent = rows[e].parent
                     /\ rows'[e].sec = rows[e].sec
<1>1. RowInv /\ [Next]_vars => [Kept]_vars
  <2> SUFFICES ASSUME RowInv, [Next]_vars
               PROVE  Kept
    OBVIOUS
  <2>1. DirtyKeeps /\ RowStep
    BY NextRowStep DEF RowInv
  <2>2. CASE rows' = rows
    BY <2>2
  <2>3. ASSUME NEW r \in Requests, rows' = [e \in Entities |-> Visible(r, e)]
        PROVE  Kept
    BY <2>1, <2>3 DEF DirtyKeeps, Visible, SameOwner
  <2> QED
    BY <2>1, <2>2, <2>3 DEF RowStep, Writes
<1>2. Spec => [][Kept]_vars
  BY <1>1, RowInvHolds, PTL DEF Spec
<1> QED
  BY <1>2 DEF TombstoneFinal

-----------------------------------------------------------------------------
(***************************************************************************)
(* The change log and the ledger.                                          *)
(***************************************************************************)

\* A request's step leaves everything local to another request alone.
LEMMA Frame ==
  ASSUME TypeOK, NEW r \in Requests, Step(r), NEW q \in Requests \ {r}
  PROVE  /\ pc'[q] = pc[q] /\ result'[q] = result[q] /\ seen'[q] = seen[q]
         /\ Op(q)' = Op(q) /\ Cur(q)' = Cur(q)
         /\ dirtyRows'[q] = dirtyRows[q]
         /\ dirtyChanges'[q] = dirtyChanges[q]
         /\ dirtyLedger'[q] = dirtyLedger[q]
<1> USE DEF tables, local, dirty, TypeOK, Op, Cur
<1>1. CASE \E u \in Users : \E b \in Batches(u) : Push(r, b)
  BY <1>1 DEF Push
<1>2. CASE ApplyDuplicate(r) \/ RecordOperation(r)
  BY <1>2 DEF ApplyDuplicate, RecordOperation, Advance
<1>3. CASE Load(r)
  BY <1>3 DEF Load
<1>4. CASE Mutate(r)
  BY <1>4 DEF Mutate
<1>5. CASE Refuse(r) \/ RefuseHalfDone(r)
  BY <1>5 DEF Refuse, RefuseHalfDone
<1>6. CASE Commit(r) \/ UniqueViolation(r) \/ Crash(r)
  BY <1>6 DEF Commit, UniqueViolation, Crash, Reset
<1> QED
  BY <1>1, <1>2, <1>3, <1>4, <1>5, <1>6 DEF Step

\* Only Mutate makes a change record, and it draws a new sequence number.
LEMMA MadeStep ==
  ASSUME TypeOK, [Next]_vars
  PROVE  \/ Made' \subseteq Made /\ nextSeq' = nextSeq
         \/ \E r \in Requests : /\ Mutate(r)
                                /\ Made' = Made \cup {ChangeOf(r)}
                                /\ nextSeq' = nextSeq + 1
<1> USE DEF tables, local, dirty
<1>1. ASSUME NEW r \in Requests, Mutate(r)
      PROVE  /\ Made' = Made \cup {ChangeOf(r)}
             /\ nextSeq' = nextSeq + 1
  <2>1. /\ changes' = changes
        /\ dirtyChanges' = [dirtyChanges EXCEPT ![r] = @ \cup {ChangeOf(r)}]
        /\ nextSeq' = nextSeq + 1
    BY <1>1 DEF Mutate
  <2> QED
    BY <2>1 DEF Made, TypeOK
<1>2. ASSUME NEW r \in Requests, Commit(r) \/ UniqueViolation(r) \/ Crash(r)
      PROVE  Made' \subseteq Made /\ nextSeq' = nextSeq
  <2>1. /\ changes' \subseteq changes \cup dirtyChanges[r]
        /\ dirtyChanges' = [dirtyChanges EXCEPT ![r] = {}]
        /\ nextSeq' = nextSeq
    BY <1>2 DEF Commit, UniqueViolation, Crash, Reset
  <2>2. \A q \in Requests : dirtyChanges'[q] \subseteq dirtyChanges[q]
    BY <2>1 DEF TypeOK
  <2> QED
    BY <2>1, <2>2 DEF Made
<1>3. ASSUME NEW r \in Requests,
             \/ \E u \in Users : \E b \in Batches(u) : Push(r, b)
             \/ ApplyDuplicate(r) \/ Load(r) \/ Refuse(r) \/ RefuseHalfDone(r)
             \/ RecordOperation(r)
      PROVE  Made' \subseteq Made /\ nextSeq' = nextSeq
  BY <1>3 DEF Made, Push, ApplyDuplicate, Load, Refuse, RefuseHalfDone, RecordOperation
<1>4. CASE UNCHANGED vars
  BY <1>4 DEF vars, Made
<1> QED
  BY <1>1, <1>2, <1>3, <1>4 DEF Next, Step

LEMMA MadeTyped == TypeOK => Made \subseteq Change
BY DEF TypeOK, Made

LEMMA SeqDrawnStep ==
  ASSUME TypeOK, SeqDrawn, [Next]_vars
  PROVE  SeqDrawn'
<1>1. CASE Made' \subseteq Made /\ nextSeq' = nextSeq
  BY <1>1 DEF SeqDrawn
<1>2. ASSUME NEW r \in Requests, Made' = Made \cup {ChangeOf(r)}, nextSeq' = nextSeq + 1
      PROVE  SeqDrawn'
  <2>1. ChangeOf(r).seq = nextSeq
    BY DEF ChangeOf
  <2>2. \A c \in Made : c.seq \in Nat /\ c.seq < nextSeq
    BY MadeTyped DEF SeqDrawn, Change
  <2>3. nextSeq \in Nat
    BY DEF TypeOK
  <2> QED
    BY <1>2, <2>1, <2>2, <2>3 DEF SeqDrawn
<1> QED
  BY <1>1, <1>2, MadeStep

LEMMA RecordExclusiveStep ==
  ASSUME TypeOK, RecordExclusive, [Next]_vars
  PROVE  RecordExclusive'
<1> USE DEF tables, local, dirty
<1>1. ASSUME NEW r \in Requests, RecordOperation(r)
      PROVE  RecordExclusive'
  <2>1. Op(r) \in OpIds
    BY <1>1, OpTyped DEF RecordOperation
  <2> QED
    BY <1>1, <2>1 DEF RecordExclusive, RecordOperation, Recorded, RecordLocked, TypeOK
<1>2. ASSUME NEW r \in Requests, Commit(r) \/ UniqueViolation(r) \/ Crash(r)
      PROVE  RecordExclusive'
  <2>1. dirtyLedger' = [dirtyLedger EXCEPT ![r] = NothingRecorded]
    BY <1>2 DEF Commit, UniqueViolation, Crash, Reset
  <2> SUFFICES ASSUME NEW q \in Requests, NEW o \in OpIds, dirtyLedger'[q][o] # NoResult
               PROVE  /\ ledger'[o] = NoResult
                      /\ \A p \in Requests : dirtyLedger'[p][o] # NoResult => p = q
    BY DEF RecordExclusive
  <2>2. q # r /\ dirtyLedger'[q] = dirtyLedger[q]
    BY <2>1 DEF NothingRecorded, TypeOK
  <2>3. \A p \in Requests : dirtyLedger[p][o] # NoResult => p = q
    BY <2>2 DEF RecordExclusive
  <2>4. dirtyLedger[r][o] = NoResult /\ ledger[o] = NoResult
    BY <2>2, <2>3 DEF RecordExclusive
  <2>5. \A p \in Requests : dirtyLedger'[p][o] # NoResult => dirtyLedger[p][o] # NoResult
    BY <2>1 DEF NothingRecorded, TypeOK
  <2>6. ledger'[o] = NoResult
    BY <1>2, <2>4 DEF Commit, UniqueViolation, Crash
  <2> QED
    BY <2>3, <2>5, <2>6
<1>3. ASSUME NEW r \in Requests,
             \/ \E u \in Users : \E b \in Batches(u) : Push(r, b)
             \/ ApplyDuplicate(r) \/ Load(r) \/ Mutate(r) \/ Refuse(r) \/ RefuseHalfDone(r)
      PROVE  RecordExclusive'
  BY <1>3 DEF RecordExclusive, Push, ApplyDuplicate, Load, Mutate, Refuse, RefuseHalfDone
<1>4. CASE UNCHANGED vars
  BY <1>4 DEF vars, RecordExclusive
<1> QED
  BY <1>1, <1>2, <1>3, <1>4 DEF Next, Step

LEMMA ResultOfTyped ==
  ASSUME TypeOK, NEW c \in Made
  PROVE  /\ c.op \in OpIds
         /\ ResultOf(c) \in Result
         /\ ResultOf(c) # NoResult
         /\ ResultOf(c).status = "ACCEPTED"
<1>1. c \in Change
  BY MadeTyped
<1>2. ResultOf(c) \in Result
  BY <1>1 DEF Change, ResultOf, Result, Statuses
<1> QED
  BY <1>1, <1>2, CloudSyncAssumption DEF Change, ResultOf, CloudSyncAssumption

LEMMA LedgerTrueStep ==
  ASSUME TypeOK, LedgerTrue, DirtyTrue, RecordExclusive, [Next]_vars
  PROVE  LedgerTrue'
<1> USE DEF tables, local, dirty
<1>1. ASSUME NEW r \in Requests, Commit(r)
      PROVE  LedgerTrue'
  <2>1. changes' = changes \cup dirtyChanges[r]
    BY <1>1 DEF Commit
  <2>2. \A o \in OpIds : ledger'[o] = IF dirtyLedger[r][o] # NoResult
                                      THEN dirtyLedger[r][o] ELSE ledger[o]
    BY <1>1 DEF Commit
  <2>3. ASSUME NEW c \in changes
        PROVE  ledger'[c.op] = ResultOf(c)
    <3>1. c.op \in OpIds /\ ledger[c.op] = ResultOf(c) /\ ledger[c.op] # NoResult
      BY ResultOfTyped DEF LedgerTrue, Made
    <3> QED
      BY <2>2, <3>1 DEF RecordExclusive
  <2>4. ASSUME NEW c \in dirtyChanges[r]
        PROVE  ledger'[c.op] = ResultOf(c)
    <3>1. c \in Made
      BY DEF Made
    <3>2. dirtyLedger[r][c.op] = ResultOf(c)
      BY <1>1 DEF DirtyTrue, DirtyTrueOf, Commit
    <3> QED
      BY <2>2, <3>1, <3>2, ResultOfTyped
  <2>5. ASSUME NEW o \in OpIds, ledger'[o] # NoResult, ledger'[o].status = "ACCEPTED"
        PROVE  \E c \in changes' : c.op = o
    BY <2>1, <2>2, <2>5 DEF LedgerTrue, DirtyTrue, DirtyTrueOf
  <2>6. \A c : ResultOf(c)' = ResultOf(c)
    BY DEF ResultOf
  <2> QED
    BY <2>1, <2>3, <2>4, <2>5, <2>6 DEF LedgerTrue
<1>2. ASSUME NEW r \in Requests,
             \/ \E u \in Users : \E b \in Batches(u) : Push(r, b)
             \/ ApplyDuplicate(r) \/ Load(r) \/ Mutate(r) \/ Refuse(r) \/ RefuseHalfDone(r)
             \/ RecordOperation(r) \/ UniqueViolation(r) \/ Crash(r)
      PROVE  changes' = changes /\ ledger' = ledger
  BY <1>2 DEF Push, ApplyDuplicate, Load, Mutate, Refuse, RefuseHalfDone, RecordOperation,
              UniqueViolation, Crash
<1>3. CASE UNCHANGED vars
  BY <1>3 DEF vars, LedgerTrue, ResultOf
<1>4. CASE changes' = changes /\ ledger' = ledger
  BY <1>4 DEF LedgerTrue, ResultOf
<1> QED
  BY <1>1, <1>2, <1>3, <1>4 DEF Next, Step

LEMMA DirtyTrueStep ==
  ASSUME TypeOK, DirtyTrue, [Next]_vars
  PROVE  DirtyTrue'
<1> USE DEF tables, local, dirty
<1>0. ASSUME NEW r \in Requests, Step(r), DirtyTrueOf(r)'
      PROVE  DirtyTrue'
  <2>1. ASSUME NEW q \in Requests \ {r}
        PROVE  DirtyTrueOf(q)'
    BY <1>0, Frame DEF DirtyTrue, DirtyTrueOf, ResultOf
  <2> QED
    BY <1>0, <2>1 DEF DirtyTrue
<1>1. ASSUME NEW r \in Requests, Mutate(r)
      PROVE  DirtyTrueOf(r)'
  <2> DEFINE new == ChangeOf(r)
  <2>1. /\ dirtyLedger' = dirtyLedger
        /\ dirtyChanges'[r] = dirtyChanges[r] \cup {new}
        /\ pc[r] = "apply" /\ pc'[r] = "record"
        /\ Op(r)' = Op(r)
    BY <1>1 DEF Mutate, TypeOK, Op
  <2>2. result'[r] = ResultOf(new) /\ new.op = Op(r)
    BY <1>1 DEF Mutate, TypeOK, ResultOf, ChangeOf
  <2> HIDE DEF new
  <2> QED
    BY <2>1, <2>2 DEF DirtyTrue, DirtyTrueOf, ResultOf
<1>2. ASSUME NEW r \in Requests, Refuse(r) \/ RefuseHalfDone(r)
      PROVE  DirtyTrueOf(r)'
  <2>1. /\ dirtyLedger' = dirtyLedger /\ dirtyChanges' = dirtyChanges
        /\ pc[r] = "apply" /\ pc'[r] = "record"
        /\ result'[r].status # "ACCEPTED"
    BY <1>2 DEF Refuse, RefuseHalfDone, TypeOK, Rejected
  <2> QED
    BY <2>1 DEF DirtyTrue, DirtyTrueOf, ResultOf
<1>3. ASSUME NEW r \in Requests, RecordOperation(r)
      PROVE  DirtyTrueOf(r)'
  <2>1. /\ pc[r] = "record" /\ pc'[r] # "record"
        /\ Op(r) \in OpIds
        /\ dirtyLedger[r][Op(r)] = NoResult
        /\ dirtyLedger'[r] = [dirtyLedger[r] EXCEPT ![Op(r)] = result[r]]
        /\ dirtyChanges' = dirtyChanges
    BY <1>3, OpTyped DEF RecordOperation, Recorded, Advance, TypeOK
  <2>2. dirtyLedger[r] \in [OpIds -> Result \cup {NoResult}]
    BY DEF TypeOK
  <2>3. ASSUME NEW c \in dirtyChanges[r]
        PROVE  dirtyLedger'[r][c.op] = ResultOf(c)
    <3>1. c \in Made
      BY DEF Made
    <3>2. c.op \in OpIds /\ ResultOf(c) # NoResult
      BY <3>1, ResultOfTyped
    <3> QED
      BY <2>1, <2>2, <3>2 DEF DirtyTrue, DirtyTrueOf
  <2>4. ASSUME NEW o \in OpIds, dirtyLedger'[r][o] # NoResult,
               dirtyLedger'[r][o].status = "ACCEPTED"
        PROVE  \E c \in dirtyChanges[r] : c.op = o
    BY <2>1, <2>2, <2>4 DEF DirtyTrue, DirtyTrueOf
  <2> QED
    BY <2>1, <2>3, <2>4 DEF DirtyTrueOf, ResultOf
<1>4. ASSUME NEW r \in Requests, Commit(r) \/ UniqueViolation(r) \/ Crash(r)
      PROVE  DirtyTrueOf(r)'
  <2>1. Reset(r)
    BY <1>4 DEF Commit, UniqueViolation, Crash
  <2> QED
    BY <2>1 DEF DirtyTrueOf, Reset, NothingRecorded, TypeOK
<1>5. ASSUME NEW r \in Requests,
             \/ \E u \in Users : \E b \in Batches(u) : Push(r, b)
             \/ ApplyDuplicate(r) \/ Load(r)
      PROVE  DirtyTrueOf(r)'
  <2>1. /\ dirtyLedger' = dirtyLedger /\ dirtyChanges' = dirtyChanges
        /\ pc[r] # "record" /\ pc'[r] # "record"
    BY <1>5 DEF Push, ApplyDuplicate, Load, Advance, TypeOK
  <2> QED
    BY <2>1 DEF DirtyTrue, DirtyTrueOf, ResultOf
<1>6. CASE UNCHANGED vars
  BY <1>6 DEF vars, DirtyTrue, DirtyTrueOf, ResultOf, Op
<1> QED
  BY <1>0, <1>1, <1>2, <1>3, <1>4, <1>5, <1>6 DEF Next, Step

LEMMA LedgerInvInit == Init => LedgerInv
BY CloudSyncAssumption
   DEF Init, LedgerInv, SeqDrawn, LedgerTrue, DirtyTrue, DirtyTrueOf, RecordExclusive, Made,
       NothingRecorded

LEMMA LedgerInvStep == RowInv /\ LedgerInv /\ [Next]_vars => LedgerInv'
BY SeqDrawnStep, LedgerTrueStep, DirtyTrueStep, RecordExclusiveStep DEF RowInv, LedgerInv

LEMMA LedgerInvHolds == Spec => [](RowInv /\ LedgerInv)
<1>1. Init => RowInv /\ LedgerInv
  BY RowInvInit, LedgerInvInit
<1>2. RowInv /\ LedgerInv /\ [Next]_vars => (RowInv /\ LedgerInv)'
  BY RowInvStep, LedgerInvStep
<1> QED
  BY <1>1, <1>2, PTL DEF Spec

(***************************************************************************)
(* However requests are repeated, overlap or die, an operation takes       *)
(* effect at most once, and what the ledger answers about it is true.      *)
(***************************************************************************)
THEOREM OperationsTakeEffectOnce == Spec => []ExactlyOnce
<1>1. RowInv /\ LedgerInv => ExactlyOnce
  <2> SUFFICES ASSUME RowInv, LedgerInv, NEW o \in OpIds
               PROVE  /\ \A c, d \in changes : c.op = o /\ d.op = o => c = d
                      /\ (\E c \in changes : c.op = o) <=>
                           (ledger[o] # NoResult /\ ledger[o].status = "ACCEPTED")
                      /\ \A c \in changes : c.op = o =>
                           ledger[o].cursor = c.seq /\ ledger[o].version = c.version
    BY DEF ExactlyOnce
  <2>1. TypeOK /\ SeqDrawn /\ LedgerTrue
    BY DEF RowInv, LedgerInv
  <2>2. changes \subseteq Made
    BY DEF Made
  <2>3. \A c \in changes : c.op = o =>
          /\ ledger[o] # NoResult /\ ledger[o].status = "ACCEPTED"
          /\ ledger[o].cursor = c.seq /\ ledger[o].version = c.version
    <3> SUFFICES ASSUME NEW c \in changes, c.op = o
                 PROVE  /\ ledger[o] # NoResult /\ ledger[o].status = "ACCEPTED"
                        /\ ledger[o].cursor = c.seq /\ ledger[o].version = c.version
      OBVIOUS
    <3>1. ledger[o] = ResultOf(c) /\ ResultOf(c) # NoResult
      BY <2>1, <2>2, ResultOfTyped DEF LedgerTrue
    <3> QED
      BY <3>1 DEF ResultOf
  <2>4. \A c, d \in changes : c.op = o /\ d.op = o => c = d
    BY <2>1, <2>2, <2>3 DEF SeqDrawn
  <2> QED
    BY <2>1, <2>3, <2>4 DEF LedgerTrue
<1> QED
  BY <1>1, LedgerInvHolds, PTL

-----------------------------------------------------------------------------
(***************************************************************************)
(* Refinement.                                                             *)
(***************************************************************************)
Settled == [o \in OpIds |-> Outcome(o)]
AppliedOps == {c.op : c \in changes}

\* The operations applied are those whose outcome is ACCEPTED.
LEMMA AppliedAreAccepted ==
  TypeOK /\ LedgerTrue => AppliedOps = {o \in OpIds : Settled[o] = "ACCEPTED"}
<1> SUFFICES ASSUME TypeOK, LedgerTrue
             PROVE  AppliedOps = {o \in OpIds : Settled[o] = "ACCEPTED"}
  OBVIOUS
<1>1. \A c \in changes : c.op \in OpIds /\ Outcome(c.op) = "ACCEPTED"
  <2> SUFFICES ASSUME NEW c \in changes
               PROVE  c.op \in OpIds /\ Outcome(c.op) = "ACCEPTED"
    OBVIOUS
  <2>1. c \in Made
    BY DEF Made
  <2>2. ledger[c.op] = ResultOf(c)
    BY DEF LedgerTrue
  <2> QED
    BY <2>1, <2>2, ResultOfTyped DEF Outcome
<1>2. \A o \in OpIds : Outcome(o) = "ACCEPTED" => \E c \in changes : c.op = o
  <2>1. NoResult # "ACCEPTED"
    BY CloudSyncAssumption DEF CloudSyncAssumption, Statuses
  <2> QED
    BY <2>1 DEF LedgerTrue, Outcome
<1> QED
  BY <1>1, <1>2 DEF AppliedOps, Settled

\* A step settles operations or leaves the committed tables alone.
LEMMA SettleStep ==
  ASSUME TypeOK, TypeOK', LedgerTrue', RecordExclusive, [Next]_vars
  PROVE  [Abstract!Settle]_(Abstract!vars)
<1> USE DEF tables, local, dirty
<1>1. CASE ledger' = ledger /\ changes' = changes
  BY <1>1 DEF Abstract!vars, Outcome
<1>2. ASSUME NEW r \in Requests, Commit(r)
      PROVE  Abstract!Settle
  <2>1. Settled' \in [OpIds -> Abstract!Outcomes \cup {NoResult}]
    BY DEF Settled, Outcome, TypeOK, Result, Statuses, Abstract!Outcomes
  <2>2. \A o \in OpIds : ledger[o] # NoResult => ledger'[o] = ledger[o]
    BY <1>2 DEF Commit, RecordExclusive
  <2>3. \A o \in OpIds : Settled[o] # NoResult => Settled'[o] = Settled[o]
    BY <2>2 DEF Settled, Outcome
  <2>4. (TypeOK /\ LedgerTrue => AppliedOps = {o \in OpIds : Settled[o] = "ACCEPTED"})'
    BY AppliedAreAccepted, PTL
  <2>5. AppliedOps' = {o \in OpIds : Settled'[o] = "ACCEPTED"}
    BY <2>4
  <2> QED
    BY <2>1, <2>3, <2>5 DEF Abstract!Settle, Settled, AppliedOps
<1>3. ASSUME NEW r \in Requests,
             \/ \E u \in Users : \E b \in Batches(u) : Push(r, b)
             \/ ApplyDuplicate(r) \/ Load(r) \/ Mutate(r) \/ Refuse(r) \/ RefuseHalfDone(r)
             \/ RecordOperation(r) \/ UniqueViolation(r) \/ Crash(r)
      PROVE  ledger' = ledger /\ changes' = changes
  BY <1>3 DEF Push, ApplyDuplicate, Load, Mutate, Refuse, RefuseHalfDone, RecordOperation,
              UniqueViolation, Crash
<1>4. CASE UNCHANGED vars
  BY <1>1, <1>4 DEF vars
<1> QED
  BY <1>1, <1>2, <1>3, <1>4 DEF Next, Step

(***************************************************************************)
(* Seen from its committed tables the push handler implements the abstract *)
(* ledger: an operation is settled once, for good, and with its effect.    *)
(***************************************************************************)
THEOREM PushImplementsLedger == Spec => ImplementsLedger
<1>1. Init => Abstract!Init
  BY DEF Init, Abstract!Init, Outcome, NothingRecorded
<1>2. RowInv /\ LedgerInv /\ [Next]_vars /\ (RowInv /\ LedgerInv)' =>
        [Abstract!Settle]_(Abstract!vars)
  BY SettleStep DEF RowInv, LedgerInv
<1> QED
  BY <1>1, <1>2, LedgerInvHolds, PTL DEF Spec, ImplementsLedger, Abstract!Spec

-----------------------------------------------------------------------------
(***************************************************************************)
(* The history of an object.                                               *)
(***************************************************************************)

\* What Mutate publishes, on top of what the transaction can see.
LEMMA NewChange ==
  ASSUME TypeOK, SeenStands, HasRow, DirtyExplained, SeqDrawn, NEW r \in Requests, Mutate(r)
  PROVE  /\ ChangeOf(r).entity = Cur(r).entity
         /\ ChangeOf(r).op = Op(r) /\ Op(r) \in OpIds
         /\ ChangeOf(r).user = OpOf[Op(r)].user
         /\ ChangeOf(r).seq = nextSeq
         /\ Explains(ChangeOf(r), Cur(r).entity, Flushed(r))
         /\ ChangeOf(r).version = 1 =>
              /\ ChangeOf(r).kind = "UPSERT"
              /\ \A d \in Made : d.entity # Cur(r).entity
         /\ ChangeOf(r).version # 1 =>
              /\ OpOf[Op(r)].base = ChangeOf(r).version - 1
              /\ \E d \in Own(r) : Follows(ChangeOf(r), d)
<1> DEFINE e == Cur(r).entity
<1>1. Op(r) \in OpIds /\ Cur(r) \in Operation /\ e \in Entities /\ pc[r] = "apply"
  BY OpTyped DEF Mutate, Operation
<1>2. /\ ChangeOf(r).entity = e /\ ChangeOf(r).op = Op(r)
      /\ ChangeOf(r).user = Cur(r).user /\ ChangeOf(r).seq = nextSeq
      /\ ChangeOf(r).kind = Cur(r).kind /\ ChangeOf(r).version = Mutated(r).version
  BY DEF ChangeOf
<1>3. Cur(r).user = OpOf[Op(r)].user /\ Cur(r).base = OpOf[Op(r)].base
  BY DEF Cur
<1>4. Mutates(r) /\ ~Waits(r) /\ ~KeyTaken(r)
  BY DEF Mutate
<1>5. CASE seen[r] = NoRow
  <2>1. Creates(r)
    BY <1>4, <1>5 DEF Mutates, Updates, Deletes
  <2>2. Mutated(r).version = 1 /\ Mutated(r).user = Cur(r).user /\ Flushed(r) = Mutated(r)
    BY <1>5 DEF Mutated, Flushed
  <2>3. Visible(r, e) = NoRow /\ ~Locked(r, e)
    BY <1>4, <2>1 DEF KeyTaken, Waits
  <2>4. rows[e] = NoRow /\ \A q \in Requests : dirtyRows[q][e] = NoRow
    BY <1>1, <2>3 DEF Visible, Locked
  <2>5. \A d \in Made : d.entity # e
    BY <1>1, <2>4 DEF Made, HasRow
  <2> QED
    BY <1>1, <1>2, <1>3, <2>1, <2>2, <2>5 DEF Explains, Creates
<1>6. CASE seen[r] # NoRow
  <2>1. Fresh(r)
    BY <1>4, <1>6 DEF Mutates, Creates, Updates, Deletes
  <2>2. seen[r] \in Row
    BY <1>6 DEF TypeOK
  <2>3. seen[r].version = Cur(r).base /\ seen[r].user = Cur(r).user
    BY <1>6, <2>1 DEF Fresh, Foreign, Stale
  <2>4. Mutated(r).version = seen[r].version + 1
    BY <1>6, <2>2 DEF Mutated, Row
  <2>5. Visible(r, e) \in Row /\ Visible(r, e).user = seen[r].user
    BY <1>1, <1>6, VisibleTyped DEF SeenStands, SameOwner
  <2>6. Flushed(r).version = Mutated(r).version /\ Flushed(r).user = seen[r].user
    BY <1>6, <2>5 DEF Flushed, Row
  <2>7. PICK d \in Own(r) : Explains(d, e, seen[r])
    BY <1>1, <1>6 DEF DirtyExplained, DirtyExplainedOf
  <2>8. d \in Made
    BY DEF Own, Made
  <2>9. d.seq < nextSeq
    BY <2>8 DEF SeqDrawn
  <2>10. seen[r].version \in Nat \ {0}
    BY <2>2 DEF Row
  <2>11. ChangeOf(r).version = seen[r].version + 1 /\ ChangeOf(r).version # 1
    BY <1>2, <2>4, <2>10
  <2>12. d.version = ChangeOf(r).version - 1 /\ OpOf[Op(r)].base = ChangeOf(r).version - 1
    BY <1>3, <2>3, <2>7, <2>10, <2>11 DEF Explains
  <2>13. Follows(ChangeOf(r), d)
    BY <1>2, <2>7, <2>9, <2>12 DEF Follows, Explains
  <2> QED
    BY <1>1, <1>2, <1>3, <2>3, <2>6, <2>11, <2>12, <2>13 DEF Explains
<1> QED
  BY <1>5, <1>6

LEMMA AskedStep ==
  ASSUME TypeOK, SeenStands, HasRow, DirtyExplained, SeqDrawn, Asked, [Next]_vars
  PROVE  Asked'
<1>1. CASE Made' \subseteq Made
  BY <1>1 DEF Asked
<1>2. ASSUME NEW r \in Requests, Mutate(r), Made' = Made \cup {ChangeOf(r)}
      PROVE  Asked'
  <2>1. ChangeOf(r).version \in Nat \ {0}
    BY <1>2, ChangeTyped DEF Mutate, Change
  <2> QED
    BY <1>2, <2>1, NewChange DEF Asked
<1> QED
  BY <1>1, <1>2, MadeStep

LEMMA CreatedFirstStep ==
  ASSUME TypeOK, SeenStands, HasRow, DirtyExplained, SeqDrawn, CreatedFirst, [Next]_vars
  PROVE  CreatedFirst'
<1>1. CASE Made' \subseteq Made
  BY <1>1 DEF CreatedFirst
<1>2. ASSUME NEW r \in Requests, Mutate(r), Made' = Made \cup {ChangeOf(r)}
      PROVE  CreatedFirst'
  <2> DEFINE new == ChangeOf(r)
  <2>1. /\ new.seq = nextSeq /\ nextSeq \in Nat
        /\ new.version = 1 => /\ new.kind = "UPSERT"
                              /\ \A d \in Made : d.entity # new.entity
    BY <1>2, NewChange DEF TypeOK
  <2>2. \A c \in Made : c.seq \in Nat /\ c.seq < nextSeq
    BY MadeTyped DEF SeqDrawn, Change
  <2> HIDE DEF new
  <2>3. Made' = Made \cup {new}
    BY <1>2 DEF new
  <2> QED
    BY <2>1, <2>2, <2>3 DEF CreatedFirst
<1> QED
  BY <1>1, <1>2, MadeStep

\* Of the committed tables and the change records only Mutate, a commit and
\* a rollback change anything.
LEMMA LogStep ==
  ASSUME TypeOK, NEW r \in Requests, Step(r)
  PROVE  \/ /\ Mutate(r) /\ rows' = rows /\ changes' = changes
            /\ dirtyChanges'[r] = dirtyChanges[r] \cup {ChangeOf(r)}
         \/ /\ rows' = rows /\ changes' = changes
            /\ dirtyChanges'[r] = dirtyChanges[r]
         \/ /\ Commit(r)
            /\ rows' = [e \in Entities |-> Visible(r, e)]
            /\ changes' = changes \cup dirtyChanges[r]
            /\ dirtyChanges'[r] = {}
            /\ dirtyRows'[r] = NothingDirty
         \/ /\ rows' = rows /\ changes' = changes
            /\ dirtyChanges'[r] = {}
            /\ dirtyRows'[r] = NothingDirty
<1> USE DEF tables, local, dirty
<1>1. CASE Mutate(r)
  BY <1>1 DEF Mutate, TypeOK
<1>2. CASE Commit(r)
  BY <1>2 DEF Commit, Reset, TypeOK
<1>3. CASE UniqueViolation(r) \/ Crash(r)
  BY <1>3 DEF UniqueViolation, Crash, Reset, TypeOK
<1>4. CASE \/ \E u \in Users : \E b \in Batches(u) : Push(r, b)
           \/ ApplyDuplicate(r) \/ Load(r) \/ Refuse(r) \/ RefuseHalfDone(r)
           \/ RecordOperation(r)
  BY <1>4 DEF Push, ApplyDuplicate, Load, Refuse, RefuseHalfDone, RecordOperation
<1> QED
  BY <1>1, <1>2, <1>3, <1>4 DEF Step

\* What another request can see only grows.
LEMMA OwnGrows ==
  ASSUME TypeOK, NEW r \in Requests, Step(r)
  PROVE  /\ changes \subseteq changes'
         /\ \A q \in Requests \ {r} : Own(q) \subseteq Own(q)'
<1>1. changes \subseteq changes'
  BY LogStep
<1>2. \A q \in Requests \ {r} : dirtyChanges'[q] = dirtyChanges[q]
  BY Frame
<1> QED
  BY <1>1, <1>2 DEF Own

LEMMA FollowStep ==
  ASSUME TypeOK, SeenStands, HasRow, DirtyExplained, SeqDrawn, Follow, [Next]_vars
  PROVE  Follow'
<1>1. CASE UNCHANGED vars
  BY <1>1 DEF vars, tables, dirty, Follow, Own
<1>2. ASSUME NEW r \in Requests, Step(r)
      PROVE  Follow'
  <2>1. ASSUME NEW c \in changes', c.version # 1
        PROVE  \E d \in changes' : Follows(c, d)
    BY <1>2, <2>1, LogStep DEF Follow, Own
  <2>2. ASSUME NEW q \in Requests \ {r}, NEW c \in dirtyChanges'[q], c.version # 1
        PROVE  \E d \in Own(q)' : Follows(c, d)
    <3>1. c \in dirtyChanges[q] /\ Own(q) \subseteq Own(q)'
      BY <1>2, <2>2, Frame, OwnGrows
    <3> QED
      BY <2>2, <3>1 DEF Follow
  <2>3. ASSUME NEW c \in dirtyChanges'[r], c.version # 1
        PROVE  \E d \in Own(r)' : Follows(c, d)
    <3>1. dirtyChanges'[r] # {} => Own(r) \subseteq Own(r)'
      BY <1>2, LogStep DEF Own
    <3>2. CASE c \in dirtyChanges[r]
      BY <2>3, <3>1, <3>2 DEF Follow
    <3>3. CASE c \notin dirtyChanges[r]
      <4>1. Mutate(r) /\ c = ChangeOf(r)
        BY <1>2, <2>3, <3>3, LogStep
      <4> QED
        BY <2>3, <3>1, <4>1, NewChange
    <3> QED
      BY <3>2, <3>3
  <2> QED
    BY <2>1, <2>2, <2>3 DEF Follow, Follows
<1> QED
  BY <1>1, <1>2 DEF Next

LEMMA RowExplainedStep ==
  ASSUME TypeOK, RowExplained, DirtyExplained, [Next]_vars
  PROVE  RowExplained'
<1>1. CASE UNCHANGED vars
  BY <1>1 DEF vars, tables, RowExplained
<1>2. ASSUME NEW r \in Requests, Step(r)
      PROVE  RowExplained'
  <2>1. CASE rows' = rows /\ changes' = changes
    BY <2>1 DEF RowExplained
  <2>2. CASE rows' = [e \in Entities |-> Visible(r, e)] /\ changes' = changes \cup dirtyChanges[r]
    <3> SUFFICES ASSUME NEW e \in Entities, Visible(r, e) # NoRow
                 PROVE  \E c \in Own(r) : Explains(c, e, Visible(r, e))
      BY <2>2 DEF RowExplained, Explains, Own
    <3>1. CASE dirtyRows[r][e] # NoRow
      BY <3>1 DEF DirtyExplained, DirtyExplainedOf, Visible
    <3>2. CASE dirtyRows[r][e] = NoRow
      BY <3>2 DEF RowExplained, Explains, Own, Visible
    <3> QED
      BY <3>1, <3>2
  <2> QED
    BY <1>2, <2>1, <2>2, LogStep
<1> QED
  BY <1>1, <1>2 DEF Next

LEMMA HasRowStep ==
  ASSUME TypeOK, SeenStands, DirtyKeeps, HasRow, DirtyExplained, SeqDrawn, [Next]_vars
  PROVE  HasRow'
<1> USE DEF tables, local, dirty
<1>1. CASE UNCHANGED vars
  BY <1>1 DEF vars, HasRow
<1>2. ASSUME NEW r \in Requests, Step(r)
      PROVE  HasRow'
  <2>1. ASSUME NEW c \in changes'
        PROVE  rows'[c.entity] # NoRow /\ rows'[c.entity].user = c.user
    <3>1. c.entity \in Entities
      <4>1. c \in Made
        BY <1>2, LogStep DEF Made
      <4> QED
        BY <4>1, MadeTyped DEF Change
    <3>2. CASE rows' = rows /\ changes' = changes
      BY <3>2 DEF HasRow
    <3>3. CASE /\ rows' = [e \in Entities |-> Visible(r, e)]
               /\ changes' = changes \cup dirtyChanges[r]
      BY <3>1, <3>3 DEF HasRow, Visible, DirtyKeeps, SameOwner
    <3> QED
      BY <1>2, <3>2, <3>3, LogStep
  <2>2. ASSUME NEW q \in Requests \ {r}, NEW c \in dirtyChanges'[q]
        PROVE  dirtyRows'[q][c.entity] # NoRow /\ dirtyRows'[q][c.entity].user = c.user
    BY <1>2, Frame DEF HasRow
  <2>3. ASSUME NEW c \in dirtyChanges'[r]
        PROVE  dirtyRows'[r][c.entity] # NoRow /\ dirtyRows'[r][c.entity].user = c.user
    <3>1. ASSUME NEW e \in Entities, NEW row, Writes(r, e, row), c \in dirtyChanges[r]
          PROVE  dirtyRows'[r][c.entity] # NoRow /\ dirtyRows'[r][c.entity].user = c.user
      <4>1. dirtyRows[r][c.entity] # NoRow /\ dirtyRows[r][c.entity].user = c.user
        BY <3>1 DEF HasRow
      <4>2. row # NoRow
        BY <3>1, CloudSyncAssumption DEF Writes, CloudSyncAssumption
      <4>3. c.entity = e => row.user = c.user
        BY <3>1, <4>1 DEF Writes, Visible, SameOwner
      <4> QED
        BY <3>1, <4>1, <4>2, <4>3 DEF Writes, TypeOK
    <3>2. CASE Mutate(r)
      <4>1. Writes(r, Cur(r).entity, Flushed(r)) /\ Cur(r).entity \in Entities
        BY <3>2, MutateWrites
      <4>2. dirtyChanges'[r] = dirtyChanges[r] \cup {ChangeOf(r)}
        BY <3>2 DEF Mutate, TypeOK
      <4>3. Explains(ChangeOf(r), Cur(r).entity, Flushed(r))
        BY <3>2, NewChange
      <4>4. dirtyRows'[r][Cur(r).entity] = Flushed(r) /\ Flushed(r) # NoRow
        BY <4>1, CloudSyncAssumption DEF Writes, TypeOK, CloudSyncAssumption
      <4> QED
        BY <3>1, <4>1, <4>2, <4>3, <4>4 DEF Explains
    <3>3. CASE RefuseHalfDone(r)
      <4>1. dirtyChanges' = dirtyChanges
        BY <3>3 DEF RefuseHalfDone
      <4>2. PICK row : Writes(r, Cur(r).entity, row) /\ Cur(r).entity \in Entities
        BY <3>3, HalfDoneWrites
      <4> QED
        BY <3>1, <4>1, <4>2
    <3>4. CASE Commit(r) \/ UniqueViolation(r) \/ Crash(r)
      BY <3>4 DEF Commit, UniqueViolation, Crash, Reset, TypeOK
    <3>5. CASE \/ \E u \in Users : \E b \in Batches(u) : Push(r, b)
               \/ ApplyDuplicate(r) \/ Load(r) \/ Refuse(r) \/ RecordOperation(r)
      <4>1. dirtyRows' = dirtyRows /\ dirtyChanges' = dirtyChanges
        BY <3>5 DEF Push, ApplyDuplicate, Load, Refuse, RecordOperation
      <4> QED
        BY <4>1 DEF HasRow
    <3> QED
      BY <1>2, <3>2, <3>3, <3>4, <3>5 DEF Step
  <2> QED
    BY <2>1, <2>2, <2>3 DEF HasRow
<1> QED
  BY <1>1, <1>2 DEF Next

LEMMA DirtyExplainedStep ==
  ASSUME TypeOK, SeenStands, HasRow, RowExplained, DirtyExplained, SeqDrawn, [Next]_vars
  PROVE  DirtyExplained'
<1> USE DEF tables, local, dirty
<1>1. CASE UNCHANGED vars
  BY <1>1 DEF vars, DirtyExplained, DirtyExplainedOf, Own, Cur, Op
<1>2. ASSUME NEW r \in Requests, Step(r)
      PROVE  DirtyExplained'
  <2>1. ASSUME NEW q \in Requests \ {r}
        PROVE  DirtyExplainedOf(q)'
    <3>1. /\ Own(q) \subseteq Own(q)' /\ Cur(q)' = Cur(q) /\ pc'[q] = pc[q]
          /\ seen'[q] = seen[q] /\ dirtyRows'[q] = dirtyRows[q]
      BY <1>2, Frame, OwnGrows
    <3> QED
      BY <3>1 DEF DirtyExplained, DirtyExplainedOf, Explains
  <2>2. DirtyExplainedOf(r)'
    <3>1. CASE Mutate(r)
      <4> DEFINE e == Cur(r).entity
                 new == ChangeOf(r)
      <4>1. pc'[r] # "apply" /\ Own(r)' = Own(r) \cup {new}
        BY <3>1 DEF Mutate, Own, TypeOK
      <4>2. /\ \A f \in Entities \ {e} : dirtyRows'[r][f] = dirtyRows[r][f]
            /\ dirtyRows'[r][e] = Flushed(r)
            /\ e \in Entities
        BY <3>1, MutateWrites DEF Writes, TypeOK
      <4>3. Explains(new, e, Flushed(r))
        BY <3>1, NewChange
      <4> HIDE DEF e, new
      <4> QED
        BY <4>1, <4>2, <4>3 DEF DirtyExplained, DirtyExplainedOf, Explains
    <3>2. CASE RefuseHalfDone(r)
      <4> DEFINE e == Cur(r).entity
                 row == [Visible(r, e) EXCEPT !.val = Cur(r).val]
      <4>1. pc'[r] # "apply" /\ Own(r)' = Own(r)
        BY <3>2 DEF RefuseHalfDone, Own, TypeOK
      <4>2. /\ \A f \in Entities \ {e} : dirtyRows'[r][f] = dirtyRows[r][f]
            /\ dirtyRows'[r][e] = row
            /\ e \in Entities
        BY <3>2, HalfDoneWrites DEF Writes, TypeOK
      <4>3. Visible(r, e) \in Row
        BY <3>2, HalfDoneWrites
      <4>4. row.version = Visible(r, e).version /\ row.user = Visible(r, e).user
        BY <4>3 DEF Row
      <4>5. Visible(r, e) # NoRow
        BY <4>3, CloudSyncAssumption DEF CloudSyncAssumption
      <4>6. PICK c \in Own(r) : Explains(c, e, Visible(r, e))
        <5>1. CASE dirtyRows[r][e] # NoRow
          BY <4>2, <5>1 DEF Visible, DirtyExplained, DirtyExplainedOf
        <5>2. CASE dirtyRows[r][e] = NoRow
          BY <4>2, <4>5, <5>2 DEF Visible, RowExplained, Explains, Own
        <5> QED
          BY <5>1, <5>2
      <4>7. Explains(c, e, row)
        BY <4>4, <4>6 DEF Explains
      <4> HIDE DEF e, row
      <4> QED
        BY <4>1, <4>2, <4>6, <4>7 DEF DirtyExplained, DirtyExplainedOf, Explains
    <3>3. CASE Commit(r) \/ UniqueViolation(r) \/ Crash(r)
      <4>1. \A e \in Entities : dirtyRows'[r][e] = NoRow
        BY <3>3 DEF Commit, UniqueViolation, Crash, Reset, NothingDirty, TypeOK
      <4>2. pc'[r] # "apply"
        BY <3>3 DEF Commit, UniqueViolation, Crash, Reset, TypeOK
      <4> QED
        BY <4>1, <4>2 DEF DirtyExplainedOf
    <3>4. CASE Load(r)
      <4> DEFINE e == Cur(r).entity
      <4>1. /\ dirtyRows' = dirtyRows /\ Own(r)' = Own(r) /\ Cur(r)' = Cur(r)
            /\ seen'[r] = Visible(r, e)
        BY <3>4 DEF Load, Own, Cur, Op, TypeOK
      <4>2. e \in Entities
        BY <3>4, OpTyped DEF Load, Operation
      <4>3. Visible(r, e) # NoRow => \E c \in Own(r) : Explains(c, e, Visible(r, e))
        BY <4>2 DEF Visible, DirtyExplained, DirtyExplainedOf, RowExplained, Explains, Own
      <4> QED
        BY <4>1, <4>3 DEF DirtyExplained, DirtyExplainedOf, Explains
    <3>5. CASE \/ \E u \in Users : \E b \in Batches(u) : Push(r, b)
               \/ ApplyDuplicate(r) \/ Refuse(r) \/ RecordOperation(r)
      <4>1. dirtyRows' = dirtyRows /\ Own(r)' = Own(r) /\ pc'[r] # "apply"
        BY <3>5 DEF Push, ApplyDuplicate, Refuse, RecordOperation, Advance, Own, TypeOK
      <4> QED
        BY <4>1 DEF DirtyExplained, DirtyExplainedOf, Explains
    <3> QED
      BY <1>2, <3>1, <3>2, <3>3, <3>4, <3>5 DEF Step
  <2> QED
    BY <2>1, <2>2 DEF DirtyExplained
<1> QED
  BY <1>1, <1>2 DEF Next

-----------------------------------------------------------------------------
LEMMA ChainInvInit == Init => ChainInv
BY DEF Init, ChainInv, Asked, HasRow, RowExplained, DirtyExplained, DirtyExplainedOf,
       CreatedFirst, Follow, Made, NothingDirty

LEMMA ChainInvStep == RowInv /\ LedgerInv /\ ChainInv /\ [Next]_vars => ChainInv'
BY AskedStep, HasRowStep, RowExplainedStep, DirtyExplainedStep, CreatedFirstStep, FollowStep
   DEF RowInv, LedgerInv, ChainInv

(***************************************************************************)
(* The invariant holds of every interleaving of pushes, crashes and        *)
(* unique violations.                                                      *)
(***************************************************************************)
THEOREM IInvHolds == Spec => []IInv
<1>1. Init => IInv
  BY RowInvInit, LedgerInvInit, ChainInvInit DEF IInv
<1>2. IInv /\ [Next]_vars => IInv'
  BY RowInvStep, LedgerInvStep, ChainInvStep DEF IInv
<1> QED
  BY <1>1, <1>2, PTL DEF Spec

(***************************************************************************)
(* The published history of every object starts with its creation and has  *)
(* no hole, whatever requests fail or overlap.                             *)
(***************************************************************************)
THEOREM HistoryHasNoHole == Spec => []VersionChain
<1>1. IInv => VersionChain
  <2> SUFFICES ASSUME IInv
               PROVE  VersionChain
    OBVIOUS
  <2>1. changes \subseteq Made
    BY DEF Made
  <2> QED
    BY <2>1 DEF IInv, ChainInv, CreatedFirst, Follow, Follows, VersionChain
<1> QED
  BY <1>1, IInvHolds, PTL

(***************************************************************************)
(* Optimistic concurrency holds of every change that is published: its     *)
(* sender had named the version below.                                     *)
(***************************************************************************)
THEOREM BasesAreHonoured == Spec => []BaseHonoured
<1>1. IInv => BaseHonoured
  BY DEF IInv, ChainInv, Asked, Made, BaseHonoured
<1> QED
  BY <1>1, IInvHolds, PTL

(***************************************************************************)
(* Every stored row shows a version that the change log announced to its   *)
(* user.                                                                   *)
(***************************************************************************)
THEOREM RowsAreExplained == Spec => []RowExplained
<1>1. IInv => RowExplained
  BY DEF IInv, ChainInv
<1> QED
  BY <1>1, IInvHolds, PTL

(***************************************************************************)
(* One account never changes, nor is shown, the objects of another.        *)
(***************************************************************************)
THEOREM UsersAreIsolated == Spec => []UserIsolation
<1>1. IInv => UserIsolation
  BY DEF IInv, ChainInv, Asked, HasRow, Made, UserIsolation
<1> QED
  BY <1>1, IInvHolds, PTL

-------------------------------------------------------------------------------
(*****************************************************************************)
(* The device that sends (SyncClient), for any number of operations,         *)
(* requests, other devices and failures.                                     *)
(*****************************************************************************)

(***************************************************************************)
(* The device and the server together take the steps of CloudSync, so what *)
(* is proved of its Spec holds next to the device.                         *)
(***************************************************************************)

\* Every step is one of the push handler, or leaves it alone.
LEMMA ClientStepIsStep == [CNext]_clientVars => [Next]_vars
<1> SUFFICES ASSUME [CNext]_clientVars
             PROVE  [Next]_vars
  OBVIOUS
<1>1. CASE \E o \in Mine : Enqueue(o)
  BY <1>1 DEF Enqueue
<1>2. CASE HandleReply \/ GiveUp \/ LoseReply
  BY <1>2 DEF HandleReply, GiveUp, LoseReply
<1>3. ASSUME NEW r \in Requests, SyncPush(r) \/ OthersPush(r)
      PROVE  Next
  <2>1. \E u \in Users : \E b \in Batches(u) : Push(r, b)
    BY <1>3 DEF SyncPush, OthersPush
  <2> QED
    BY <2>1 DEF Next, Step
<1>4. ASSUME NEW r \in Requests, Serve(r) \/ Die(r)
      PROVE  Next
  BY <1>4 DEF Serve, Working, Answer, Fail, DeadlockVictim, Die, Next, Step
<1>5. CASE UNCHANGED clientVars
  BY <1>5 DEF clientVars
<1> QED
  BY <1>1, <1>2, <1>3, <1>4, <1>5 DEF CNext

(***************************************************************************)
(* The device is a client of the push handler as CloudSync specifies it:   *)
(* retries, abandoned requests and late commits are among its behaviours.  *)
(***************************************************************************)
THEOREM ClientIsCloudSync == CSpec => Spec
<1>1. CInit => Init
  BY DEF CInit
<1> QED
  BY <1>1, ClientStepIsStep, PTL DEF CSpec, Spec

(***************************************************************************)
(* However often the device sends an edit again, it takes effect at most   *)
(* once (sync, push).                                                      *)
(***************************************************************************)
THEOREM EditsTakeEffectOnce == CSpec => []ExactlyOnce
BY ClientIsCloudSync, OperationsTakeEffectOnce, PTL

-----------------------------------------------------------------------------
(***************************************************************************)
(* The requests: what a request has passed in its batch is recorded.       *)
(***************************************************************************)
\* The results found when a request began are committed.
PriorsTrue == \A r \in Requests : \A o \in priors[r] : ledger[o] # NoResult

\* An operation that the loop of push has passed was recorded before the
\* request or is recorded by it.
WorkedOf(r) ==
  pc[r] # "idle" =>
    \A i \in DOMAIN batch[r] :
      i < pos[r] \/ pc[r] = "commit" =>
        batch[r][i] \in priors[r] \/ dirtyLedger[r][batch[r][i]] # NoResult

Worked == \A r \in Requests : WorkedOf(r)

RequestInv == PriorsTrue /\ Worked

\* A committed result stays.
LEMMA LedgerKeeps ==
  ASSUME RecordExclusive, [Next]_vars, NEW o \in OpIds, ledger[o] # NoResult
  PROVE  ledger'[o] = ledger[o]
<1> USE DEF tables, local, dirty
<1>1. ASSUME NEW r \in Requests, Commit(r)
      PROVE  ledger'[o] = ledger[o]
  BY <1>1 DEF Commit, RecordExclusive
<1>2. ASSUME NEW r \in Requests,
             \/ \E u \in Users : \E b \in Batches(u) : Push(r, b)
             \/ ApplyDuplicate(r) \/ Load(r) \/ Mutate(r) \/ Refuse(r) \/ RefuseHalfDone(r)
             \/ RecordOperation(r) \/ UniqueViolation(r) \/ Crash(r)
      PROVE  ledger' = ledger
  BY <1>2 DEF Push, ApplyDuplicate, Load, Mutate, Refuse, RefuseHalfDone, RecordOperation,
              UniqueViolation, Crash
<1>3. CASE UNCHANGED vars
  BY <1>3 DEF vars
<1> QED
  BY <1>1, <1>2, <1>3 DEF Next, Step

LEMMA PriorsTrueStep ==
  ASSUME TypeOK, RecordExclusive, PriorsTrue, [Next]_vars
  PROVE  PriorsTrue'
<1> USE DEF tables, local, dirty
<1>1. \A o \in OpIds : ledger[o] # NoResult => ledger'[o] # NoResult
  BY LedgerKeeps
<1>2. \A r \in Requests : \A o \in priors[r] : o \in OpIds /\ ledger[o] # NoResult
  BY DEF TypeOK, PriorsTrue
<1>3. ASSUME NEW r \in Requests, NEW u \in Users, NEW b \in Batches(u), Push(r, b)
      PROVE  PriorsTrue'
  <2>1. /\ priors' = [priors EXCEPT ![r] =
             {o \in OpIds : (\E i \in DOMAIN b : b[i] = o) /\ ledger[o] # NoResult}]
        /\ ledger' = ledger
    BY <1>3 DEF Push
  <2> QED
    BY <1>2, <2>1 DEF PriorsTrue, TypeOK
<1>4. ASSUME NEW r \in Requests,
             \/ ApplyDuplicate(r) \/ Load(r) \/ Mutate(r) \/ Refuse(r) \/ RefuseHalfDone(r)
             \/ RecordOperation(r)
      PROVE  priors' = priors
  BY <1>4 DEF ApplyDuplicate, Load, Mutate, Refuse, RefuseHalfDone, RecordOperation
<1>5. ASSUME NEW r \in Requests, Commit(r) \/ UniqueViolation(r) \/ Crash(r)
      PROVE  priors' = [priors EXCEPT ![r] = {}]
  BY <1>5 DEF Commit, UniqueViolation, Crash, Reset
<1>6. CASE UNCHANGED vars
  BY <1>6 DEF vars, PriorsTrue
<1>7. ASSUME priors' = priors
      PROVE  PriorsTrue'
  BY <1>1, <1>2, <1>7 DEF PriorsTrue
<1>8. ASSUME NEW r \in Requests, priors' = [priors EXCEPT ![r] = {}]
      PROVE  PriorsTrue'
  BY <1>1, <1>2, <1>8 DEF PriorsTrue, TypeOK
<1> QED
  BY <1>3, <1>4, <1>5, <1>6, <1>7, <1>8 DEF Next, Step

\* Going on to the next operation keeps the account of those passed.
LEMMA AdvanceWorked ==
  ASSUME TypeOK, NEW r \in Requests, WorkedOf(r), pc[r] \notin {"idle", "commit"}, Advance(r),
         batch' = batch, priors' = priors,
         \A o \in OpIds : dirtyLedger[r][o] # NoResult => dirtyLedger'[r][o] # NoResult,
         Op(r) \in priors[r] \/ dirtyLedger'[r][Op(r)] # NoResult
  PROVE  WorkedOf(r)'
<1>1. /\ batch[r] \in Seq(OpIds)
      /\ pos[r] \in DOMAIN batch[r]
      /\ pos[r] \in Nat
  BY DEF TypeOK
<1>2. DOMAIN batch[r] = 1..Len(batch[r]) /\ Len(batch[r]) \in Nat
  BY <1>1
<1>3. ASSUME NEW i \in DOMAIN batch[r], i <= pos[r]
      PROVE  batch[r][i] \in priors[r] \/ dirtyLedger'[r][batch[r][i]] # NoResult
  <2>1. CASE i = pos[r]
    BY <2>1 DEF Op
  <2>2. CASE i # pos[r]
    <3>1. i < pos[r]
      BY <1>1, <1>2, <1>3, <2>2
    <3>2. batch[r][i] \in OpIds
      BY <1>1
    <3> QED
      BY <3>1, <3>2 DEF WorkedOf
  <2> QED
    BY <2>1, <2>2
<1>4. CASE pos[r] < Len(batch[r])
  <2>1. pos'[r] = pos[r] + 1 /\ pc'[r] = "load"
    BY <1>4 DEF Advance, TypeOK
  <2> QED
    BY <1>1, <1>2, <1>3, <2>1 DEF WorkedOf
<1>5. CASE ~(pos[r] < Len(batch[r]))
  <2>1. \A i \in DOMAIN batch[r] : i <= pos[r]
    BY <1>1, <1>2, <1>5
  <2> QED
    BY <1>3, <2>1 DEF WorkedOf
<1> QED
  BY <1>4, <1>5

\* A request's step leaves the place of another request alone.
LEMMA RequestFrame ==
  ASSUME TypeOK, NEW r \in Requests, Step(r), NEW q \in Requests \ {r}
  PROVE  batch'[q] = batch[q] /\ pos'[q] = pos[q] /\ priors'[q] = priors[q]
<1> USE DEF tables, local, dirty, TypeOK
<1>1. CASE \E u \in Users : \E b \in Batches(u) : Push(r, b)
  BY <1>1 DEF Push
<1>2. CASE ApplyDuplicate(r) \/ RecordOperation(r)
  BY <1>2 DEF ApplyDuplicate, RecordOperation, Advance
<1>3. CASE Load(r) \/ Mutate(r) \/ Refuse(r) \/ RefuseHalfDone(r)
  <2>1. UNCHANGED <<batch, pos, priors>>
    BY <1>3 DEF Load, Mutate, Refuse, RefuseHalfDone
  <2> QED
    BY <2>1
<1>4. CASE Commit(r) \/ UniqueViolation(r) \/ Crash(r)
  BY <1>4 DEF Commit, UniqueViolation, Crash, Reset
<1> QED
  BY <1>1, <1>2, <1>3, <1>4 DEF Step

LEMMA WorkedStep ==
  ASSUME TypeOK, TypeOK', Worked, [Next]_vars
  PROVE  Worked'
<1> USE DEF tables, local, dirty
<1>1. ASSUME NEW r \in Requests, Step(r), NEW q \in Requests \ {r}
      PROVE  WorkedOf(q)'
  <2>1. pc'[q] = pc[q] /\ dirtyLedger'[q] = dirtyLedger[q]
    BY <1>1, Frame
  <2>2. batch'[q] = batch[q] /\ pos'[q] = pos[q] /\ priors'[q] = priors[q]
    BY <1>1, RequestFrame
  <2> QED
    BY <2>1, <2>2 DEF Worked, WorkedOf
<1>2. ASSUME NEW r \in Requests, NEW u \in Users, NEW b \in Batches(u), Push(r, b)
      PROVE  WorkedOf(r)'
  <2>1. pc'[r] = "load" /\ pos'[r] = 1
    BY <1>2 DEF Push, TypeOK
  <2>2. DOMAIN batch'[r] = 1..Len(batch'[r]) /\ Len(batch'[r]) \in Nat
    BY DEF TypeOK
  <2> QED
    BY <2>1, <2>2 DEF WorkedOf
<1>3. ASSUME NEW r \in Requests, ApplyDuplicate(r)
      PROVE  WorkedOf(r)'
  <2>1. /\ pc[r] \notin {"idle", "commit"} /\ Advance(r) /\ Op(r) \in priors[r]
        /\ batch' = batch /\ priors' = priors /\ dirtyLedger' = dirtyLedger
    BY <1>3 DEF ApplyDuplicate
  <2> QED
    BY <2>1, AdvanceWorked DEF Worked
<1>4. ASSUME NEW r \in Requests, RecordOperation(r)
      PROVE  WorkedOf(r)'
  <2>1. /\ pc[r] \notin {"idle", "commit"} /\ Advance(r)
        /\ batch' = batch /\ priors' = priors
        /\ dirtyLedger' = [dirtyLedger EXCEPT ![r][Op(r)] = result[r]]
    BY <1>4 DEF RecordOperation
  <2>2. Op(r) \in OpIds
    BY <2>1, OpTyped
  <2>3. result[r] # NoResult
    BY CloudSyncAssumption DEF CloudSyncAssumption, TypeOK
  <2>4. \A o \in OpIds :
          dirtyLedger'[r][o] = IF o = Op(r) THEN result[r] ELSE dirtyLedger[r][o]
    BY <2>1, <2>2 DEF TypeOK
  <2> QED
    BY <2>1, <2>2, <2>3, <2>4, AdvanceWorked DEF Worked
<1>5. ASSUME NEW r \in Requests,
             Load(r) \/ Mutate(r) \/ Refuse(r) \/ RefuseHalfDone(r)
      PROVE  WorkedOf(r)'
  <2>1. /\ pc[r] # "idle" /\ pc'[r] # "commit"
        /\ batch' = batch /\ pos' = pos /\ priors' = priors /\ dirtyLedger' = dirtyLedger
    BY <1>5 DEF Load, Mutate, Refuse, RefuseHalfDone, TypeOK
  <2> QED
    BY <2>1 DEF Worked, WorkedOf
<1>6. ASSUME NEW r \in Requests, Commit(r) \/ UniqueViolation(r) \/ Crash(r)
      PROVE  WorkedOf(r)'
  <2>1. pc'[r] = "idle"
    BY <1>6 DEF Commit, UniqueViolation, Crash, Reset, TypeOK
  <2> QED
    BY <2>1 DEF WorkedOf
<1>7. ASSUME NEW r \in Requests, Step(r)
      PROVE  Worked'
  <2>1. WorkedOf(r)'
    BY <1>2, <1>3, <1>4, <1>5, <1>6, <1>7 DEF Step
  <2> QED
    BY <1>1, <1>7, <2>1 DEF Worked
<1>8. CASE UNCHANGED vars
  BY <1>8 DEF vars, Worked, WorkedOf
<1> QED
  BY <1>7, <1>8 DEF Next

LEMMA RequestInvHolds == Spec => [](IInv /\ RequestInv)
<1>1. Init => RequestInv
  BY DEF Init, RequestInv, PriorsTrue, Worked, WorkedOf
<1>2. IInv /\ IInv' /\ RequestInv /\ [Next]_vars => RequestInv'
  BY PriorsTrueStep, WorkedStep DEF IInv, RowInv, LedgerInv, RequestInv
<1> QED
  BY <1>1, <1>2, IInvHolds, PTL DEF Spec

-----------------------------------------------------------------------------
(***************************************************************************)
(* The device: a reply says what the server has recorded.                  *)
(***************************************************************************)
RepliesTrue ==
  \A o \in DOMAIN reply :
    /\ o \in OpIds
    /\ ledger[o] # NoResult
    /\ reply[o] = "DUPLICATE" \/ reply[o] = ledger[o].status

\* The inductive invariant of the device.
ClientInv == RepliesTrue /\ NothingLost /\ FailuresAreTrue

\* The reply to a committed request.
LEMMA AnswerTrue ==
  ASSUME TypeOK, RecordExclusive, RequestInv, NEW r \in Requests, Commit(r),
         NEW o \in InBatch(batch[r])
  PROVE  /\ o \in OpIds
         /\ ledger'[o] # NoResult
         /\ StatusOf(r, o) = "DUPLICATE" \/ StatusOf(r, o) = ledger'[o].status
<1>1. PICK i \in DOMAIN batch[r] : o = batch[r][i]
  BY DEF InBatch
<1>2. o \in OpIds
  BY <1>1 DEF TypeOK
<1>3. o \in priors[r] \/ dirtyLedger[r][o] # NoResult
  BY <1>1 DEF Commit, RequestInv, Worked, WorkedOf
<1>4. ledger'[o] = IF dirtyLedger[r][o] # NoResult THEN dirtyLedger[r][o] ELSE ledger[o]
  BY <1>2 DEF Commit
<1>5. CASE o \in priors[r]
  BY <1>2, <1>4, <1>5 DEF RequestInv, PriorsTrue, StatusOf
<1>6. CASE o \notin priors[r]
  BY <1>2, <1>3, <1>4, <1>6 DEF StatusOf
<1> QED
  BY <1>5, <1>6

\* What the device was told stays true while the ledger only grows.
LEMMA ClientInvKept ==
  ASSUME ClientInv, \A o \in OpIds : ledger[o] # NoResult => ledger'[o] = ledger[o],
         outbox' = outbox, created' = created, told' = told
  PROVE  /\ NothingLost' /\ FailuresAreTrue'
         /\ reply' = reply \/ reply' = NoReply => RepliesTrue'
<1>1. Mine \subseteq OpIds
  BY SyncClientAssumption DEF SyncClientAssumption
<1>2. NothingLost' /\ FailuresAreTrue'
  BY <1>1 DEF ClientInv, NothingLost, FailuresAreTrue, Edits
<1>3. CASE reply' = reply
  BY <1>2, <1>3 DEF ClientInv, RepliesTrue
<1>4. CASE reply' = NoReply
  BY <1>2, <1>4 DEF NoReply, RepliesTrue
<1> QED
  BY <1>2, <1>3, <1>4

LEMMA ClientInvStep ==
  ASSUME TypeOK, RecordExclusive, RequestInv, ClientInv, [CNext]_clientVars
  PROVE  ClientInv'
<1> USE DEF device
<1>1. Mine \subseteq OpIds
  BY SyncClientAssumption DEF SyncClientAssumption
<1>2. \A o \in OpIds : ledger[o] # NoResult => ledger'[o] = ledger[o]
  BY ClientStepIsStep, LedgerKeeps
<1>3. ASSUME NEW o \in Mine, Enqueue(o)
      PROVE  ClientInv'
  <2>1. /\ outbox' = outbox \cup {o} /\ told' = told /\ reply' = reply /\ ledger' = ledger
        /\ \A p \in Mine \ {o} : created'[p] = created[p]
    BY <1>3 DEF Enqueue, vars, tables
  <2> QED
    BY <2>1 DEF ClientInv, RepliesTrue, NothingLost, FailuresAreTrue, Edits
<1>4. CASE HandleReply
  <2>1. /\ outbox' = {o \in outbox : ~Done(o)} /\ created' = created /\ ledger' = ledger
        /\ told' = [o \in Mine |->
             IF o \notin DOMAIN reply \/ Done(o) THEN told[o]
             ELSE IF reply[o] = "CONFLICT" THEN "CONFLICT" ELSE "ERROR"]
        /\ reply' = NoReply
    BY <1>4 DEF HandleReply, vars, tables
  <2>2. RepliesTrue'
    BY <2>1 DEF RepliesTrue, NoReply
  <2>3. NothingLost'
    BY <2>1 DEF ClientInv, RepliesTrue, NothingLost, Edits, Done
  <2>4. FailuresAreTrue'
    BY <2>1 DEF ClientInv, RepliesTrue, FailuresAreTrue, Done
  <2> QED
    BY <2>2, <2>3, <2>4 DEF ClientInv
<1>5. ASSUME NEW r \in Requests, Answer(r), call = r
      PROVE  ClientInv'
  <2>1. reply' = [o \in InBatch(batch[r]) |-> StatusOf(r, o)] /\ Commit(r)
    BY <1>5 DEF Answer
  <2>2. RepliesTrue'
    BY <2>1, AnswerTrue DEF RepliesTrue
  <2>3. outbox' = outbox /\ created' = created /\ told' = told
    BY <1>5 DEF Answer
  <2> QED
    BY <1>2, <2>2, <2>3, ClientInvKept DEF ClientInv
<1>6. CASE \/ GiveUp \/ LoseReply \/ UNCHANGED clientVars
           \/ \E r \in Requests : SyncPush(r) \/ OthersPush(r) \/ Working(r) \/ Fail(r)
                                  \/ DeadlockVictim(r) \/ Die(r) \/ (Answer(r) /\ call # r)
  <2>1. /\ outbox' = outbox /\ created' = created /\ told' = told
        /\ reply' = reply \/ reply' = NoReply
    BY <1>6 DEF GiveUp, LoseReply, clientVars, SyncPush, OthersPush, Working, Fail,
                DeadlockVictim, Die, Answer
  <2> QED
    BY <1>2, <2>1, ClientInvKept DEF ClientInv
<1> QED
  BY <1>3, <1>4, <1>5, <1>6 DEF CNext, Serve

LEMMA ClientInvHolds == CSpec => []ClientInv
<1>1. CInit => ClientInv
  <2> SUFFICES ASSUME CInit
               PROVE  ClientInv
    OBVIOUS
  <2>1. RepliesTrue
    <3>1. reply = <<>>
      BY DEF CInit, NoReply
    <3>2. DOMAIN reply = {}
      BY <3>1
    <3> QED
      BY <3>2 DEF RepliesTrue
  <2>2. Edits = {}
    <3>1. \A o \in Mine : created[o] = 0
      BY DEF CInit
    <3>2. \A o \in Mine : ~(created[o] > 0)
      BY <3>1
    <3> QED
      BY <3>2 DEF Edits
  <2>3. \A o \in Mine : told[o] = ""
    BY DEF CInit
  <2> QED
    BY <2>1, <2>2, <2>3 DEF ClientInv, NothingLost, FailuresAreTrue
<1>2. IInv /\ RequestInv /\ ClientInv /\ [CNext]_clientVars => ClientInv'
  BY ClientInvStep DEF IInv, RowInv, LedgerInv
<1> QED
  BY <1>1, <1>2, ClientIsCloudSync, RequestInvHolds, PTL DEF CSpec

(***************************************************************************)
(* No edit is lost: it leaves the outbox only once its result is recorded, *)
(* whatever replies and requests fail (sync, pending).                     *)
(***************************************************************************)
THEOREM EditsAreNotLost == CSpec => []NothingLost
BY ClientInvHolds, PTL DEF ClientInv

(***************************************************************************)
(* What the device shows as a conflict or an error did not take effect,    *)
(* whatever request answered it and however late (sync, failed).           *)
(***************************************************************************)
THEOREM ShownFailuresAreTrue == CSpec => []FailuresAreTrue
BY ClientInvHolds, PTL DEF ClientInv

-------------------------------------------------------------------------------
(*****************************************************************************)
(* The devices that pull (CloudReplica): what a device holds of an account   *)
(* whose pushes are served one at a time, for any number of users, objects,  *)
(* operations, pages and tables.                                             *)
(*****************************************************************************)

\* At most one push is open at a time: CursorMonotonic, and with it every
\* promise of a cursor, is lost as soon as two may commit out of order.
OneAtATime == \A r, q \in Requests : r = q

\* The account has no objects but those the pull loop files where they belong.
AllFiled == Filed = Entities

\* No operation is refused after it has assigned a column: none is about a
\* USER_SETTING.
AllOrNothing == \A o \in OpIds : OpOf[o].check # "partial"

-----------------------------------------------------------------------------
(***************************************************************************)
(* The log of pushes served one at a time.                                 *)
(***************************************************************************)

\* What is committed is numbered below what is not.
CommittedFirst ==
  \A c \in changes : \A r \in Requests : \A d \in dirtyChanges[r] : c.seq < d.seq

\* The sequence numbers of an object's changes follow its versions.
VersionOrder ==
  \A c, d \in Made : c.entity = d.entity /\ c.seq < d.seq => c.version < d.version

\* A decision is made on the row as it still is.
SeenIsVisible ==
  \A r \in Requests : pc[r] = "apply" => seen[r] = Visible(r, Cur(r).entity)

\* c is the newest change of its object in S and says what the row is.
Tells(c, S, e, row) ==
  /\ c \in S /\ c.entity = e
  /\ \A d \in S : d.entity = e => d.seq <= c.seq
  /\ c.version = row.version /\ c.user = row.user
  /\ (c.kind = "DELETE") <=> row.deleted
  /\ AllOrNothing => c.payload.val = row.val

\* The newest change of an object says what its row is.
RowsTold ==
  \A e \in Entities : rows[e] # NoRow => \E c \in changes : Tells(c, changes, e, rows[e])

DirtyTold ==
  \A r \in Requests, e \in Entities : dirtyRows[r][e] # NoRow =>
    \E c \in Own(r) : Tells(c, Own(r), e, dirtyRows[r][e])

LogInv == CommittedFirst /\ VersionOrder /\ SeenIsVisible /\ RowsTold /\ DirtyTold

LEMMA CommittedFirstStep ==
  ASSUME OneAtATime, TypeOK, SeqDrawn, CommittedFirst, NEW r \in Requests, Step(r)
  PROVE  CommittedFirst'
<1>1. \A q \in Requests : q = r
  BY DEF OneAtATime
<1>2. \A c \in Made : c.seq < nextSeq
  BY DEF SeqDrawn
<1>3. CASE Mutate(r) /\ changes' = changes /\ dirtyChanges'[r] = dirtyChanges[r] \cup {ChangeOf(r)}
  <2>1. ChangeOf(r).seq = nextSeq
    BY DEF ChangeOf
  <2>2. \A c \in changes : c.seq < nextSeq
    BY <1>2 DEF Made
  <2> QED
    BY <1>1, <1>3, <2>1, <2>2 DEF CommittedFirst
<1>4. CASE dirtyChanges'[r] = {}
  BY <1>1, <1>4 DEF CommittedFirst
<1>5. CASE changes' = changes /\ dirtyChanges'[r] = dirtyChanges[r]
  BY <1>1, <1>5 DEF CommittedFirst
<1> QED
  BY <1>3, <1>4, <1>5, LogStep

\* The row a transaction sees is told by the newest change it can see.
LEMMA VisibleTold ==
  ASSUME TypeOK, HasRow, RowsTold, DirtyTold, NEW r \in Requests, NEW e \in Entities,
         Visible(r, e) # NoRow
  PROVE  \E c \in Own(r) : Tells(c, Own(r), e, Visible(r, e))
<1>1. CASE dirtyRows[r][e] # NoRow
  BY <1>1 DEF DirtyTold, Visible
<1>2. CASE dirtyRows[r][e] = NoRow
  <2>1. Visible(r, e) = rows[e] /\ \A d \in dirtyChanges[r] : d.entity # e
    BY <1>2 DEF Visible, HasRow
  <2>2. PICK c \in changes : Tells(c, changes, e, rows[e])
    BY <2>1 DEF RowsTold
  <2> QED
    BY <2>1, <2>2 DEF Tells, Own
<1> QED
  BY <1>1, <1>2

\* Nobody else has written what this transaction is about to write.
LEMMA AllIsOwn ==
  ASSUME OneAtATime, NEW r \in Requests
  PROVE  Made = Own(r)
BY DEF OneAtATime, Made, Own

\* The change a mutation publishes is newer than all of its object, and says
\* what the row is.
LEMMA NewChangeTells ==
  ASSUME OneAtATime, IInv, LogInv, NEW r \in Requests, Mutate(r)
  PROVE  /\ Cur(r).entity \in Entities
         /\ Tells(ChangeOf(r), Own(r) \cup {ChangeOf(r)}, Cur(r).entity, Flushed(r))
         /\ \A d \in Own(r) : d.entity = Cur(r).entity => d.version < ChangeOf(r).version
<1> DEFINE e == Cur(r).entity
           new == ChangeOf(r)
<1> USE DEF RowInv, LedgerInv, ChainInv
<1>1. Op(r) \in OpIds /\ Cur(r) \in Operation /\ e \in Entities /\ pc[r] = "apply"
  BY OpTyped DEF IInv, Mutate, Operation
<1>2. /\ new.entity = e /\ new.seq = nextSeq /\ new.kind = Cur(r).kind
      /\ new.version = Mutated(r).version /\ new.payload = Mutated(r) /\ new.user = Cur(r).user
  BY DEF ChangeOf
<1>3. Mutates(r) /\ ~KeyTaken(r)
  BY DEF Mutate
<1>4. seen[r] = Visible(r, e)
  BY <1>1 DEF LogInv, SeenIsVisible
<1>5. \A d \in Own(r) : d.seq \in Nat /\ d.version \in Nat /\ d.seq < nextSeq
  BY AllIsOwn, MadeTyped DEF IInv, SeqDrawn, Change
<1>6. nextSeq \in Nat
  BY DEF IInv, TypeOK
<1>7. Explains(new, e, Flushed(r))
  BY NewChange DEF IInv
<1>8. CASE seen[r] = NoRow
  <2>1. Creates(r) /\ Flushed(r) = Mutated(r) /\ Mutated(r).version = 1 /\ Mutated(r).deleted = FALSE
    BY <1>3, <1>8 DEF Mutates, Updates, Deletes, Flushed, Mutated
  <2>2. Cur(r).kind # "DELETE"
    BY <2>1 DEF Creates
  <2>3. \A d \in Own(r) : d.entity # e
    BY <1>1, <1>4, <1>8 DEF IInv, HasRow, Own, Visible
  <2> QED
    BY <1>1, <1>2, <1>7, <2>1, <2>2, <2>3, <1>5, <1>6 DEF Tells, Explains
<1>9. CASE seen[r] # NoRow
  <2>1. seen[r] \in Row /\ seen[r].version \in Nat
    BY <1>9 DEF IInv, TypeOK, Row
  <2>2. Mutated(r).version = seen[r].version + 1
    BY <1>9, <2>1 DEF Mutated, Row
  <2>3. Flushed(r).val = Mutated(r).val /\ Flushed(r).deleted = Mutated(r).deleted
    BY <1>4, <1>9, <2>1 DEF Flushed, Row
  <2>4. Mutated(r).deleted <=> Cur(r).kind = "DELETE"
    BY <1>1, <1>3, <1>9, <2>1 DEF Mutated, Mutates, Creates, Updates, Deletes, Row, Operation
  <2>5. PICK c \in Own(r) : Tells(c, Own(r), e, Visible(r, e))
    BY <1>1, <1>4, <1>9, VisibleTold DEF IInv, LogInv
  <2>6. c.version = seen[r].version /\ c.entity = e
    BY <1>4, <2>5 DEF Tells
  <2>7. ASSUME NEW d \in Own(r), d.entity = e
        PROVE  d.version <= c.version
    <3>1. d.seq <= c.seq /\ c \in Made /\ d \in Made
      BY <2>5, <2>7, AllIsOwn DEF Tells
    <3>2. CASE d.seq < c.seq
      BY <1>5, <2>6, <2>7, <3>1, <3>2 DEF LogInv, VersionOrder
    <3>3. CASE d.seq = c.seq
      BY <1>5, <3>1, <3>3 DEF IInv, SeqDrawn
    <3> QED
      BY <1>5, <3>1, <3>2, <3>3
  <2>8. \A d \in Own(r) : d.entity = e => d.version < new.version
    BY <1>2, <1>5, <2>1, <2>2, <2>6, <2>7
  <2> QED
    BY <1>1, <1>2, <1>5, <1>6, <1>7, <2>3, <2>4, <2>8 DEF Tells, Explains
<1> QED
  BY <1>8, <1>9

LEMMA VersionOrderStep ==
  ASSUME OneAtATime, IInv, LogInv, [Next]_vars
  PROVE  VersionOrder'
<1>1. CASE Made' \subseteq Made
  BY <1>1 DEF LogInv, VersionOrder
<1>2. ASSUME NEW r \in Requests, Mutate(r), Made' = Made \cup {ChangeOf(r)}
      PROVE  VersionOrder'
  <2> DEFINE new == ChangeOf(r)
  <2>1. \A d \in Made : d.entity = new.entity => d.version < new.version
    BY <1>2, NewChangeTells, AllIsOwn DEF ChangeOf
  <2>2. new.seq = nextSeq /\ nextSeq \in Nat /\ \A d \in Made : d.seq \in Nat /\ d.seq < nextSeq
    BY MadeTyped DEF ChangeOf, IInv, RowInv, TypeOK, LedgerInv, SeqDrawn, Change
  <2>3. Made' = Made \cup {new}
    BY <1>2
  <2> HIDE DEF new
  <2> QED
    BY <2>1, <2>2, <2>3 DEF LogInv, VersionOrder
<1> QED
  BY <1>1, <1>2, MadeStep DEF IInv, RowInv

LEMMA SeenIsVisibleStep ==
  ASSUME OneAtATime, TypeOK, NEW r \in Requests, Step(r)
  PROVE  SeenIsVisible'
<1> USE DEF tables, local, dirty, TypeOK, OneAtATime
<1>1. CASE Load(r)
  BY <1>1 DEF Load, SeenIsVisible, Visible, Cur, Op
<1>2. CASE \E u \in Users : \E b \in Batches(u) : Push(r, b)
  BY <1>2 DEF Push, SeenIsVisible
<1>3. CASE ApplyDuplicate(r) \/ RecordOperation(r)
  BY <1>3 DEF ApplyDuplicate, RecordOperation, Advance, SeenIsVisible
<1>4. CASE Mutate(r)
  BY <1>4 DEF Mutate, SeenIsVisible
<1>5. CASE Refuse(r) \/ RefuseHalfDone(r)
  BY <1>5 DEF Refuse, RefuseHalfDone, SeenIsVisible
<1>6. CASE Commit(r) \/ UniqueViolation(r) \/ Crash(r)
  BY <1>6 DEF Commit, UniqueViolation, Crash, Reset, SeenIsVisible
<1> QED
  BY <1>1, <1>2, <1>3, <1>4, <1>5, <1>6, SMTT(30) DEF Step

LEMMA RowsToldStep ==
  ASSUME IInv, LogInv, NEW r \in Requests, Step(r)
  PROVE  RowsTold'
<1>1. CASE rows' = rows /\ changes' = changes
  BY <1>1 DEF LogInv, RowsTold, Tells
<1>2. CASE rows' = [e \in Entities |-> Visible(r, e)] /\ changes' = changes \cup dirtyChanges[r]
  <2>1. changes' = Own(r)
    BY <1>2 DEF Own
  <2>2. \A e \in Entities : rows'[e] # NoRow =>
          \E c \in changes' : Tells(c, changes', e, rows'[e])
    BY <1>2, <2>1, VisibleTold DEF IInv, RowInv, ChainInv, LogInv
  <2> QED
    BY <2>2 DEF RowsTold, Tells
<1> QED
  BY <1>1, <1>2, LogStep DEF IInv, RowInv

LEMMA DirtyToldStep ==
  ASSUME OneAtATime, IInv, LogInv, NEW r \in Requests, Step(r)
  PROVE  DirtyTold'
<1> USE DEF tables, local, dirty
<1>1. TypeOK /\ SeenStands /\ HasRow /\ RowsTold /\ DirtyTold
  BY DEF IInv, RowInv, ChainInv, LogInv
<1> SUFFICES ASSUME NEW f \in Entities, dirtyRows'[r][f] # NoRow
             PROVE  \E c \in Own(r)' : Tells(c, Own(r)', f, dirtyRows'[r][f])
  BY DEF DirtyTold, OneAtATime, Tells
<1>2. CASE dirtyRows'[r][f] = dirtyRows[r][f] /\ Own(r)' = Own(r)
  BY <1>1, <1>2 DEF DirtyTold
<1>3. CASE Mutate(r)
  <2> DEFINE e == Cur(r).entity
             new == ChangeOf(r)
  <2>1. Own(r)' = Own(r) \cup {new}
    BY <1>1, <1>3 DEF Mutate, Own, TypeOK
  <2>2. /\ \A g \in Entities \ {e} : dirtyRows'[r][g] = dirtyRows[r][g]
        /\ dirtyRows'[r][e] = Flushed(r)
        /\ e \in Entities
    BY <1>1, <1>3, MutateWrites DEF Writes, TypeOK
  <2>3. Tells(new, Own(r) \cup {new}, e, Flushed(r))
    BY <1>3, NewChangeTells
  <2>4. new.entity = e
    BY DEF ChangeOf
  <2> HIDE DEF e, new
  <2>5. CASE f = e
    BY <2>1, <2>2, <2>3, <2>5 DEF Tells
  <2>6. CASE f # e
    <3>1. PICK c \in Own(r) : Tells(c, Own(r), f, dirtyRows[r][f])
      BY <1>1, <2>2, <2>6 DEF DirtyTold
    <3>2. Tells(c, Own(r) \cup {new}, f, dirtyRows[r][f])
      BY <2>4, <2>6, <3>1 DEF Tells
    <3> QED
      BY <2>1, <2>2, <2>6, <3>2 DEF Tells
  <2> QED
    BY <2>5, <2>6
<1>4. CASE RefuseHalfDone(r)
  <2> DEFINE e == Cur(r).entity
             row == [Visible(r, e) EXCEPT !.val = Cur(r).val]
  <2>1. Own(r)' = Own(r)
    BY <1>4 DEF RefuseHalfDone, Own
  <2>2. /\ \A g \in Entities \ {e} : dirtyRows'[r][g] = dirtyRows[r][g]
        /\ dirtyRows'[r][e] = row
        /\ e \in Entities
        /\ Visible(r, e) \in Row
    BY <1>1, <1>4, HalfDoneWrites DEF Writes, TypeOK
  <2>3. /\ row.version = Visible(r, e).version /\ row.user = Visible(r, e).user
        /\ row.deleted = Visible(r, e).deleted
    BY <2>2 DEF Row
  <2>4. Visible(r, e) # NoRow
    BY <2>2, CloudSyncAssumption DEF CloudSyncAssumption
  <2>5. ~AllOrNothing
    BY <1>1, <1>4, OpTyped DEF RefuseHalfDone, HalfDone, AllOrNothing, Cur
  <2>6. PICK c \in Own(r) : Tells(c, Own(r), e, Visible(r, e))
    BY <1>1, <2>2, <2>4, VisibleTold
  <2>7. Tells(c, Own(r), e, row)
    BY <2>3, <2>5, <2>6 DEF Tells
  <2> HIDE DEF e, row
  <2>8. CASE f = e
    BY <2>1, <2>2, <2>7, <2>8
  <2>9. CASE f # e
    BY <1>1, <2>1, <2>2, <2>9 DEF DirtyTold
  <2> QED
    BY <2>8, <2>9
<1>5. CASE Commit(r) \/ UniqueViolation(r) \/ Crash(r)
  BY <1>1, <1>5 DEF Commit, UniqueViolation, Crash, Reset, NothingDirty, TypeOK
<1>6. CASE \/ \E u \in Users : \E b \in Batches(u) : Push(r, b)
           \/ ApplyDuplicate(r) \/ Load(r) \/ Refuse(r) \/ RecordOperation(r)
  <2>1. dirtyRows' = dirtyRows /\ Own(r)' = Own(r)
    BY <1>6 DEF Push, ApplyDuplicate, Load, Refuse, RecordOperation, Own
  <2> QED
    BY <1>2, <2>1
<1> QED
  BY <1>3, <1>4, <1>5, <1>6 DEF Step

LEMMA LogInvInit == Init => LogInv
<1> SUFFICES ASSUME Init PROVE LogInv
  OBVIOUS
<1>1. changes = {} /\ Made = {} /\ \A r \in Requests : dirtyChanges[r] = {} /\ pc[r] = "idle"
  BY DEF Init, Made
<1>2. /\ \A e \in Entities : rows[e] = NoRow
      /\ \A r \in Requests, e \in Entities : dirtyRows[r][e] = NoRow
  BY DEF Init, NothingDirty
<1> QED
  BY <1>1, <1>2 DEF LogInv, CommittedFirst, VersionOrder, SeenIsVisible, RowsTold, DirtyTold

LEMMA LogInvStep ==
  ASSUME OneAtATime, IInv, LogInv, [Next]_vars
  PROVE  LogInv'
<1>1. CASE UNCHANGED vars
  BY <1>1 DEF vars, tables, local, dirty, LogInv, CommittedFirst, VersionOrder,
              SeenIsVisible, RowsTold, DirtyTold, Tells, Made, Own, Visible, Cur, Op
<1>2. ASSUME NEW r \in Requests, Step(r)
      PROVE  LogInv'
  <2>1. TypeOK /\ SeqDrawn /\ CommittedFirst
    BY DEF IInv, RowInv, LedgerInv, LogInv
  <2>2. VersionOrder'
    BY VersionOrderStep
  <2> QED
    BY <1>2, <2>1, <2>2, CommittedFirstStep, SeenIsVisibleStep, RowsToldStep, DirtyToldStep
       DEF LogInv
<1> QED
  BY <1>1, <1>2, SMTT(30) DEF Next

-----------------------------------------------------------------------------
(***************************************************************************)
(* The replica.                                                            *)
(***************************************************************************)

\* n is the sequence number of a change of the account in the log S, or 0.
CursorIn(S, n) == n \in Nat /\ (n = 0 \/ \E c \in S : c.user = Owner /\ c.seq = n)

\* The cursors are those of committed changes, and the page in hand has every
\* change up to its last.
PageInv ==
  /\ CursorIn(changes, cursor) /\ CursorIn(changes, after) /\ CursorIn(changes, boundary)
  /\ pull # "apply" => page = {}
  /\ page \subseteq Newer(after)
  /\ \A c \in Newer(after), d \in page : c.seq <= d.seq => c \in page

\* The changes of an object of the account in the log S.
Story(S, e) == {c \in S : c.user = Owner /\ c.entity = e}

\* A cached row shows the object as of cursor n of the log S, or of later.
Reflects(S, row, e, n) ==
  \/ row = NoRow /\ \A d \in Story(S, e) : n < d.seq
  \/ \E c \in Story(S, e) :
       /\ row = CachedChange(c) \/ (row = NoRow /\ c.kind = "DELETE")
       /\ \A d \in Story(S, e) : d.seq <= n => d.seq <= c.seq

\* Object e lies in a table before the one the bootstrap is at.
Passed(e) == \E i \in DOMAIN Tables : i < table /\ e \in Tables[i]

\* An undisturbed bootstrap reads the objects as they are, and files them on
\* empty tables.
BootInv ==
  /\ boot \in {"idle", "read", "store"} /\ table \in 1..(Len(Tables) + 1)
  /\ boot = "read" =>
       /\ \A e \in Entities : cache[e] = NoRow
       /\ \A e \in Entities : Passed(e) => Reflects(changes, snapshot[e], e, nextSeq)
  /\ boot = "store" =>
       /\ \A c \in changes : c.user = Owner => c.seq <= boundary
       /\ \A e \in Entities : cache[e] \in {NoRow, snapshot[e]}
       /\ \A e \in Entities : Passed(e) => cache[e] = snapshot[e]
       /\ \A e \in Entities : Reflects(changes, snapshot[e], e, nextSeq)

\* The cache shows every object as of the stored cursor, or of later.
CacheInv ==
  /\ pull # "idle" => after <= cursor
  /\ \A e \in Entities : Reflects(changes, cache[e], e, cursor)

\* A device that only pulls.
PullInv ==
  /\ boot = "idle" /\ PageInv /\ CacheInv
  /\ \A c \in changes : c.user = Owner /\ c.seq <= cursor => cache[c.entity] # NoRow

\* A device that bootstraps as well: while no bootstrap was overlapped or met
\* a filled table.
ReplicaInv ==
  /\ quiet \in BOOLEAN /\ fresh \in BOOLEAN
  /\ PageInv
  /\ quiet /\ fresh => BootInv /\ CacheInv

-----------------------------------------------------------------------------
(***************************************************************************)
(* Least and greatest members, of which CHOOSE speaks.                     *)
(***************************************************************************)
LEMMA Least ==
  ASSUME NEW S \in SUBSET Nat, S # {}
  PROVE  \E m \in S : \A n \in S : m <= n
<1> DEFINE R == OpToRel(<, Nat)
<1>1. IsWellFoundedOn(OpToRel(<, Nat), Nat)
  BY NatLessThanWellFounded
<1>2. \A x, y \in Nat : x < y => <<x, y>> \in R
  BY DEF OpToRel
<1> HIDE DEF R
<1>3. PICK m \in S : \A n \in S : ~ (<<n, m>> \in R)
  BY <1>1, WFMin DEF R
<1>4. \A n \in S : ~ (n < m)
  BY <1>2, <1>3
<1> QED
  BY <1>4

LEMMA Greatest ==
  ASSUME NEW S \in SUBSET Nat, S # {}, NEW b \in Nat, \A n \in S : n <= b
  PROVE  \E m \in S : \A n \in S : n <= m
<1> DEFINE T == {b - n : n \in S}
<1>1. T \in SUBSET Nat
  <2>1. \A n \in S : b - n \in Nat
    OBVIOUS
  <2> QED
    BY <2>1
<1>2. T # {}
  OBVIOUS
<1>3. PICK m \in T : \A n \in T : m <= n
  BY <1>1, <1>2, Least
<1>4. PICK k \in S : m = b - k
  BY <1>3
<1>5. \A n \in S : b - k <= b - n
  BY <1>3, <1>4
<1> QED
  BY <1>5

\* Of some changes one is the newest.
LEMMA NewestOf ==
  ASSUME TypeOK, SeqDrawn, NEW S \in SUBSET changes, S # {}
  PROVE  \E c \in S : \A d \in S : d.seq <= c.seq
<1>1. nextSeq \in Nat /\ \A c \in S : c.seq \in Nat /\ c.seq <= nextSeq
  BY MadeTyped DEF TypeOK, SeqDrawn, Made, Change
<1> DEFINE Seqs == {c.seq : c \in S}
<1>2. Seqs \in SUBSET Nat /\ Seqs # {} /\ \A n \in Seqs : n <= nextSeq
  BY <1>1
<1> HIDE DEF Seqs
<1>3. PICK m \in Seqs : \A n \in Seqs : n <= m
  BY <1>1, <1>2, Greatest
<1> QED
  BY <1>3 DEF Seqs

LEMMA LastSeqIs ==
  ASSUME TypeOK, SeqDrawn, NEW S \in SUBSET changes, NEW n \in Nat
  PROVE  /\ S = {} => LastSeq(S, n) = n
         /\ S # {} => /\ \E c \in S : c.seq = LastSeq(S, n)
                      /\ \A c \in S : c.seq <= LastSeq(S, n)
<1>1. CASE S = {}
  BY <1>1 DEF LastSeq
<1>2. CASE S # {}
  <2>1. PICK c \in S : \A d \in S : d.seq <= c.seq
    BY <1>2, NewestOf
  <2>2. \E m \in {d.seq : d \in S} : \A d \in S : d.seq <= m
    BY <2>1
  <2> QED
    BY <1>2, <2>2 DEF LastSeq
<1> QED
  BY <1>1, <1>2

\* The log is finite: its changes are numbered.
LEMMA LogFinite ==
  ASSUME TypeOK, SeqDrawn
  PROVE  IsFiniteSet(changes)
<1> DEFINE f == [c \in changes |-> c.seq]
<1>1. nextSeq \in Nat /\ \A c \in changes : c.seq \in 0..nextSeq
  BY MadeTyped DEF TypeOK, SeqDrawn, Made, Change
<1>2. \A c, d \in changes : c.seq = d.seq => c = d
  BY DEF SeqDrawn, Made
<1>3. f \in Injection(changes, 0..nextSeq)
  BY <1>1, <1>2 DEF Injection, IsInjective
<1>4. IsFiniteSet(0..nextSeq)
  BY <1>1, FS_Interval
<1> QED
  BY <1>3, <1>4, FS_Injection DEF ExistsInjection

\* A page has every change up to its last.
LEMMA FirstPageClosed ==
  ASSUME TypeOK, SeqDrawn, PageLimit \in Nat, NEW n \in Nat,
         NEW c \in Newer(n), NEW d \in FirstPage(n), c.seq <= d.seq
  PROVE  c \in FirstPage(n)
<1> DEFINE Below(x) == {y \in Newer(n) : y.seq < x.seq}
<1>1. \A x \in Newer(n) : x.seq \in Nat
  BY DEF TypeOK, Newer, Change
<1>2. Below(c) \subseteq Below(d) /\ d \in Newer(n)
  BY <1>1 DEF FirstPage
<1>3. IsFiniteSet(Below(d))
  BY LogFinite, FS_Subset DEF Newer
<1>4. Cardinality(Below(c)) <= Cardinality(Below(d)) /\ IsFiniteSet(Below(c))
  BY <1>2, <1>3, FS_Subset
<1>5. Cardinality(Below(c)) \in Nat /\ Cardinality(Below(d)) \in Nat
  BY <1>3, <1>4, FS_CardinalityType
<1>6. Cardinality(Below(d)) < PageLimit
  BY DEF FirstPage
<1> HIDE DEF Below
<1>7. Cardinality(Below(c)) < PageLimit
  BY <1>4, <1>5, <1>6
<1> QED
  BY <1>7 DEF FirstPage, Below
-----------------------------------------------------------------------------
(***************************************************************************)
(* What a row shows.                                                       *)
(***************************************************************************)

\* What shows an object as of m shows it as of any cursor before.
LEMMA ReflectsEarlier ==
  ASSUME TypeOK, NEW row, NEW e, NEW m \in Nat, NEW n \in Nat, n <= m,
         Reflects(changes, row, e, m)
  PROVE  Reflects(changes, row, e, n)
<1>1. \A d \in Story(changes, e) : d.seq \in Nat
  BY DEF TypeOK, Story, Change
<1> QED
  BY <1>1 DEF Reflects

\* Changes numbered above a cursor do not touch what is shown as of it.
LEMMA ReflectsLater ==
  ASSUME NEW S, NEW T, S \subseteq T, NEW n \in Nat, NEW row, NEW e,
         \A c \in T \ S : n < c.seq, \A c \in T : c.seq \in Nat, Reflects(S, row, e, n)
  PROVE  Reflects(T, row, e, n)
<1>1. Story(S, e) \subseteq Story(T, e) /\ \A d \in Story(T, e) : d \in Story(S, e) \/ n < d.seq
  BY DEF Story
<1>2. \A d \in Story(T, e) : d.seq \in Nat
  BY DEF Story
<1>3. CASE row = NoRow /\ \A d \in Story(S, e) : n < d.seq
  BY <1>1, <1>3 DEF Reflects
<1>4. ASSUME NEW c \in Story(S, e), row = CachedChange(c) \/ (row = NoRow /\ c.kind = "DELETE"),
             \A d \in Story(S, e) : d.seq <= n => d.seq <= c.seq
      PROVE  Reflects(T, row, e, n)
  <2>1. \A d \in Story(T, e) : d.seq <= n => d.seq <= c.seq
    BY <1>1, <1>2, <1>4
  <2> QED
    BY <1>1, <1>4, <2>1 DEF Reflects
<1> QED
  BY <1>3, <1>4 DEF Reflects

\* A commit adds changes numbered above all that were committed.
LEMMA CommitStep ==
  ASSUME TypeOK, CommittedFirst, [Next]_vars
  PROVE  /\ changes \subseteq changes'
         /\ \A c \in changes' \ changes : 0 < c.seq /\ \A d \in changes : d.seq < c.seq
         /\ nextSeq' \in Nat /\ nextSeq <= nextSeq'
<1>1. changes' = changes =>
        /\ changes \subseteq changes'
        /\ \A c \in changes' \ changes : 0 < c.seq /\ \A d \in changes : d.seq < c.seq
  OBVIOUS
<1>2. ASSUME NEW r \in Requests, changes' = changes \cup dirtyChanges[r]
      PROVE  /\ changes \subseteq changes'
             /\ \A c \in changes' \ changes : 0 < c.seq /\ \A d \in changes : d.seq < c.seq
  <2>1. \A c \in dirtyChanges[r] : c.seq \in Nat \ {0}
    BY DEF TypeOK, Change
  <2> QED
    BY <1>2, <2>1 DEF CommittedFirst
<1>3. nextSeq' \in Nat /\ nextSeq <= nextSeq'
  BY MadeStep DEF TypeOK
<1>4. CASE UNCHANGED vars
  BY <1>1, <1>3, <1>4 DEF vars, tables
<1> QED
  BY <1>1, <1>2, <1>3, <1>4, LogStep DEF Next

LEMMA ChangesTyped ==
  ASSUME TypeOK, SeqDrawn
  PROVE  /\ nextSeq \in Nat
         /\ \A c \in changes : c.seq \in Nat /\ c.seq < nextSeq /\ c.version \in Nat
                               /\ c.entity \in Entities
BY MadeTyped DEF TypeOK, SeqDrawn, Made, Change

\* A cached change is a row.
LEMMA CachedTyped ==
  ASSUME TypeOK, NEW c \in changes
  PROVE  CachedChange(c) # NoRow
<1>1. c.version \in Nat \ {0} /\ c.payload.val \in Values /\ (c.kind = "DELETE") \in BOOLEAN
  BY DEF TypeOK, Change, Row
<1>2. CachedChange(c) \in Cached
  BY <1>1 DEF CachedChange, Cached
<1> QED
  BY <1>2, CloudReplicaAssumption

\* The live row that a bootstrap is sent shows the object as it is.
LEMMA CachedRowReflects ==
  ASSUME AllOrNothing, IInv, LogInv, NEW e \in Entities
  PROVE  Reflects(changes, CachedRow(rows[e]), e, nextSeq)
<1>1. TypeOK /\ SeqDrawn /\ HasRow /\ RowsTold
  BY DEF IInv, RowInv, LedgerInv, ChainInv, LogInv
<1>2. CASE Story(changes, e) = {}
  <2>1. CachedRow(rows[e]) = NoRow
    <3>1. CASE rows[e] # NoRow
      <4>1. PICK c \in changes : Tells(c, changes, e, rows[e])
        BY <1>1, <3>1 DEF RowsTold
      <4> QED
        BY <1>2, <4>1 DEF Tells, Story, CachedRow
    <3> QED
      BY <3>1 DEF CachedRow
  <2> QED
    BY <1>2, <2>1 DEF Reflects
<1>3. CASE Story(changes, e) # {}
  <2>1. rows[e] # NoRow /\ rows[e].user = Owner
    BY <1>1, <1>3 DEF HasRow, Story
  <2>2. PICK c \in changes : Tells(c, changes, e, rows[e])
    BY <1>1, <2>1 DEF RowsTold
  <2>3. c \in Story(changes, e) /\ \A d \in Story(changes, e) : d.seq <= c.seq
    BY <2>1, <2>2 DEF Tells, Story
  <2>4. CachedRow(rows[e]) = CachedChange(c) \/ (CachedRow(rows[e]) = NoRow /\ c.kind = "DELETE")
    BY <2>1, <2>2 DEF Tells, CachedRow, CachedChange
  <2> QED
    BY <2>3, <2>4 DEF Reflects
<1> QED
  BY <1>2, <1>3

\* A row that shows an object as of its newest change shows what is stored.
LEMMA ShownAsStored ==
  ASSUME AllOrNothing, IInv, LogInv, NEW e \in Entities, NEW n, NEW row,
         Newer(n) = {}, n \in Nat, Reflects(changes, row, e, n)
  PROVE  Shown(row) = Shown(OwnRow(e))
<1>1. TypeOK /\ SeqDrawn /\ HasRow /\ RowsTold
  BY DEF IInv, RowInv, LedgerInv, ChainInv, LogInv
<1>2. \A c \in changes : c.seq \in Nat
  BY <1>1, ChangesTyped
<1>3. \A d \in Story(changes, e) : d.seq <= n
  BY <1>2 DEF Newer, Story
<1>4. CASE row = NoRow /\ \A d \in Story(changes, e) : n < d.seq
  <2>1. Story(changes, e) = {}
    BY <1>2, <1>3, <1>4 DEF Story
  <2>2. OwnRow(e) = NoRow
    <3>1. CASE rows[e] # NoRow
      <4>1. PICK c \in changes : Tells(c, changes, e, rows[e])
        BY <1>1, <3>1 DEF RowsTold
      <4> QED
        BY <2>1, <4>1 DEF Tells, Story, OwnRow
    <3> QED
      BY <3>1 DEF OwnRow
  <2> QED
    BY <1>4, <2>2
<1>5. ASSUME NEW c \in Story(changes, e),
             row = CachedChange(c) \/ (row = NoRow /\ c.kind = "DELETE"),
             \A d \in Story(changes, e) : d.seq <= n => d.seq <= c.seq
      PROVE  Shown(row) = Shown(OwnRow(e))
  <2>1. rows[e] # NoRow /\ rows[e].user = Owner /\ OwnRow(e) = rows[e]
    BY <1>1 DEF HasRow, Story, OwnRow
  <2>2. PICK b \in changes : Tells(b, changes, e, rows[e])
    BY <1>1, <2>1 DEF RowsTold
  <2>3. b = c
    <3>1. b \in Story(changes, e) /\ c.seq <= b.seq
      BY <2>1, <2>2 DEF Tells, Story
    <3>2. b.seq = c.seq
      BY <1>2, <1>3, <1>5, <3>1 DEF Story
    <3> QED
      BY <1>1, <3>2 DEF SeqDrawn, Made, Story
  <2>4. /\ c.version = rows[e].version /\ (c.kind = "DELETE" <=> rows[e].deleted)
        /\ c.payload.val = rows[e].val
    BY <2>2, <2>3 DEF Tells
  <2>5. CASE row = NoRow /\ c.kind = "DELETE"
    BY <2>1, <2>4, <2>5 DEF Shown
  <2>6. CASE row = CachedChange(c)
    <3>1. row.deleted <=> rows[e].deleted
      BY <2>4, <2>6 DEF CachedChange
    <3>2. row.version = rows[e].version /\ row.val = rows[e].val
      BY <2>4, <2>6 DEF CachedChange
    <3>3. row # NoRow
      BY <1>1, <2>6, CachedTyped DEF Story
    <3> QED
      BY <2>1, <3>1, <3>2, <3>3 DEF Shown
  <2> QED
    BY <1>5, <2>5, <2>6
<1> QED
  BY <1>4, <1>5 DEF Reflects
-----------------------------------------------------------------------------
(***************************************************************************)
(* Cursors and pages.                                                      *)
(***************************************************************************)
LEMMA LogFacts ==
  ASSUME IInv, LogInv
  PROVE  TypeOK /\ SeqDrawn /\ HasRow /\ CommittedFirst
BY DEF IInv, RowInv, LedgerInv, ChainInv, LogInv

LEMMA PageInvServer ==
  ASSUME IInv, LogInv, PageInv, [Next]_vars, UNCHANGED <<stored, pulling, booting>>
  PROVE  PageInv'
<1>1. /\ changes \subseteq changes'
      /\ \A c \in changes' \ changes : \A d \in changes : d.seq < c.seq
  BY LogFacts, CommitStep
<1>2. /\ cursor' = cursor /\ after' = after /\ boundary' = boundary /\ page' = page
      /\ pull' = pull
  BY DEF stored, pulling, booting
<1>3. \A n : CursorIn(changes, n) => CursorIn(changes', n)
  BY <1>1 DEF CursorIn
<1>4. /\ CursorIn(changes', cursor') /\ CursorIn(changes', after')
      /\ CursorIn(changes', boundary')
  BY <1>2, <1>3 DEF PageInv
<1>5. \A n : Newer(n) \subseteq Newer(n)' /\ \A c \in Newer(n)' : c \in Newer(n) \/ c \notin changes
  BY <1>1 DEF Newer
<1>6. page' \subseteq Newer(after)'
  BY <1>1, <1>2 DEF PageInv, Newer
<1>7. ASSUME NEW c \in changes', NEW d \in page, c.user = Owner, c.seq > after, c.seq <= d.seq
      PROVE  c \in page
  <2>1. d \in changes /\ d.seq \in Nat
    BY LogFacts, ChangesTyped DEF PageInv, Newer
  <2>2. c.seq \in Nat
    BY TypeStep, LogFacts DEF TypeOK, Change, IInv, RowInv
  <2>3. c \in changes
    BY <1>1, <1>7, <2>1, <2>2
  <2> QED
    BY <1>7, <2>3 DEF PageInv, Newer
<1> QED
  BY <1>2, <1>4, <1>6, <1>7 DEF PageInv, CursorIn, Newer

\* The cursor that goes with a page is that of its last change.
LEMMA NextCursorIs ==
  ASSUME IInv, LogInv, PageInv
  PROVE  /\ CursorIn(changes, NextCursor)
         /\ page = {} => NextCursor = after
         /\ page # {} => \E d \in page : d.seq = NextCursor
         /\ \A d \in page : d.seq <= NextCursor
<1>1. page \subseteq changes /\ after \in Nat /\ \A d \in page : d.user = Owner
  BY DEF PageInv, CursorIn, Newer
<1>2. /\ page = {} => LastSeq(page, after) = after
      /\ page # {} => /\ \E c \in page : c.seq = LastSeq(page, after)
                      /\ \A c \in page : c.seq <= LastSeq(page, after)
  BY <1>1, LogFacts, LastSeqIs
<1>3. \A d \in changes : d.seq \in Nat
  BY LogFacts, ChangesTyped
<1> QED
  BY <1>1, <1>2, <1>3 DEF NextCursor, PageInv, CursorIn

LEMMA PageInvPull ==
  ASSUME IInv, LogInv, PageInv, PullStep
  PROVE  PageInv'
<1> USE DEF stored, booting, tables, vars
<1>1. changes' = changes /\ boundary' = boundary
  BY DEF PullStep, PullStart, PullFetch, PullApply, PullAbort
<1>2. CursorIn(changes, cursor') /\ CursorIn(changes, after')
  <2>1. CursorIn(changes, 0)
    BY DEF CursorIn
  <2>2. CASE PullApply
    BY <2>1, <2>2, NextCursorIs DEF PullApply
  <2>3. CASE PullStart \/ PullFetch \/ PullAbort
    BY <2>1, <2>3 DEF PullStart, PullFetch, PullAbort, PageInv
  <2> QED
    BY <2>2, <2>3 DEF PullStep
<1>3. /\ page' \subseteq Newer(after')
      /\ \A c \in Newer(after'), d \in page' : c.seq <= d.seq => c \in page'
  <2>1. CASE PullStart
    BY <2>1 DEF PullStart, PageInv
  <2>2. CASE PullFetch
    <3>1. page' = FirstPage(after) /\ after' = after /\ after \in Nat
      BY <2>2 DEF PullFetch, PageInv, CursorIn
    <3>2. PageLimit \in Nat
      BY CloudReplicaAssumption
    <3>3. FirstPage(after) \subseteq Newer(after)
      BY DEF FirstPage
    <3> QED
      BY <3>1, <3>2, <3>3, LogFacts, FirstPageClosed
  <2>3. CASE PullApply \/ PullAbort
    BY <2>3 DEF PullApply, PullAbort
  <2> QED
    BY <2>1, <2>2, <2>3 DEF PullStep
<1>4. pull' # "apply" => page' = {}
  BY DEF PullStep, PullStart, PullFetch, PullApply, PullAbort, PageInv
<1> QED
  BY <1>1, <1>2, <1>3, <1>4 DEF PageInv, CursorIn, Newer

\* What the snapshot's boundary is.
LEMMA BoundaryIs ==
  ASSUME IInv, LogInv
  PROVE  /\ CursorIn(changes, LastSeq(Newer(0), 0))
         /\ \A c \in changes : c.user = Owner => c.seq <= LastSeq(Newer(0), 0)
<1>1. Newer(0) \subseteq changes /\ \A c \in Newer(0) : c.user = Owner
  BY DEF Newer
<1>2. \A c \in changes : c.seq \in Nat /\ (c.user = Owner => c \in Newer(0))
  BY LogFacts DEF TypeOK, Change, Newer
<1>3. /\ Newer(0) = {} => LastSeq(Newer(0), 0) = 0
      /\ Newer(0) # {} => /\ \E c \in Newer(0) : c.seq = LastSeq(Newer(0), 0)
                          /\ \A c \in Newer(0) : c.seq <= LastSeq(Newer(0), 0)
  BY <1>1, LogFacts, LastSeqIs
<1> QED
  BY <1>1, <1>2, <1>3 DEF CursorIn

LEMMA PageInvBoot ==
  ASSUME IInv, LogInv, PageInv, BootStep
  PROVE  PageInv'
<1> USE DEF stored, pulling, tables, vars
<1>1. changes' = changes /\ after' = after /\ page' = page /\ pull' = pull
  BY DEF BootStep, BootStart, BootReadTable, BootReadCursor, BootStoreTable, BootStoreCursor,
         BootAbort
<1>2. CursorIn(changes, cursor') /\ CursorIn(changes, boundary')
  <2>1. CursorIn(changes, 0)
    BY DEF CursorIn
  <2>2. CASE BootReadCursor
    BY <2>2, BoundaryIs DEF BootReadCursor, PageInv
  <2>3. CASE BootStart \/ BootReadTable \/ BootStoreTable \/ BootStoreCursor \/ BootAbort
    BY <2>1, <2>3 DEF BootStart, BootReadTable, BootStoreTable, BootStoreCursor, BootAbort, PageInv
  <2> QED
    BY <2>2, <2>3 DEF BootStep
<1> QED
  BY <1>1, <1>2 DEF PageInv, CursorIn, Newer

-----------------------------------------------------------------------------
(***************************************************************************)
(* Pulling.                                                                *)
(***************************************************************************)
LEMMA CacheInvServer ==
  ASSUME IInv, LogInv, PageInv, CacheInv, [Next]_vars, UNCHANGED <<stored, pulling>>
  PROVE  CacheInv'
<1>1. /\ changes \subseteq changes'
      /\ \A c \in changes' \ changes : 0 < c.seq /\ \A d \in changes : d.seq < c.seq
  BY LogFacts, CommitStep
<1>2. \A c \in changes' : c.seq \in Nat
  BY TypeStep, LogFacts DEF TypeOK, Change, IInv, RowInv
<1>3. cursor \in Nat /\ \A c \in changes' \ changes : cursor < c.seq
  BY <1>1 DEF PageInv, CursorIn
<1>4. cursor' = cursor /\ after' = after /\ cache' = cache /\ pull' = pull
  BY DEF stored, pulling
<1>5. \A e \in Entities : Reflects(changes', cache[e], e, cursor)
  BY <1>1, <1>2, <1>3, ReflectsLater DEF CacheInv
<1> QED
  BY <1>4, <1>5 DEF CacheInv, Reflects, Story

\* Applying a page keeps what is shown at least as new as the cursor.
LEMMA CacheInvApply ==
  ASSUME AllFiled, IInv, LogInv, PageInv, CacheInv, PullApply
  PROVE  CacheInv'
<1>1. TypeOK /\ SeqDrawn
  BY LogFacts
<1>2. /\ changes' = changes /\ cursor' = NextCursor
      /\ after' \in {NextCursor, 0} /\ (pull' # "idle" => after' = NextCursor)
  <2>1. changes' = changes
    BY DEF PullApply, vars, tables
  <2>2. cursor' = NextCursor
    BY DEF PullApply
  <2>3. after' \in {NextCursor, 0} /\ (pull' # "idle" => after' = NextCursor)
    BY DEF PullApply
  <2> QED
    BY <2>1, <2>2, <2>3
<1>8. \A e \in Entities : (InPage(e) => cache'[e] = Applied(e)) /\ (~InPage(e) => cache'[e] = cache[e])
  <2>1. cache' = [e \in Entities |-> IF InPage(e) /\ e \in Filed THEN Applied(e) ELSE cache[e]]
    BY DEF PullApply
  <2>2. \A e \in Entities : e \in Filed
    BY DEF AllFiled
  <2> QED
    BY <2>1, <2>2
<1>3. after <= cursor /\ pull # "idle" /\ after \in Nat /\ cursor \in Nat /\ NextCursor \in Nat
  BY NextCursorIs DEF PullApply, CacheInv, PageInv, CursorIn
<1>4. page \subseteq changes /\ \A c \in page : c.user = Owner /\ after < c.seq
  BY DEF PageInv, Newer
<1>5. \A c \in changes : c.seq \in Nat
  BY <1>1, ChangesTyped
<1>6. ASSUME NEW d \in changes, d.user = Owner, after < d.seq, d.seq <= NextCursor
      PROVE  d \in page
  <2>1. page # {}
    BY <1>3, <1>5, <1>6, NextCursorIs
  <2>2. PICK c \in page : c.seq = NextCursor
    BY <2>1, NextCursorIs
  <2> QED
    BY <1>6, <2>2 DEF PageInv, Newer
<1>7. ASSUME NEW e \in Entities
      PROVE  Reflects(changes, cache'[e], e, NextCursor)
  <2>1. CASE InPage(e)
    <3> DEFINE P == {c \in page : c.entity = e}
    <3>1. P \in SUBSET changes /\ P # {}
      BY <1>4, <2>1 DEF InPage
    <3>2. \E c \in page : c.entity = e /\ \A d \in page : d.entity = e => d.seq <= c.seq
      BY <1>1, <3>1, NewestOf
    <3> DEFINE new == CHOOSE c \in page : c.entity = e /\ \A d \in page : d.entity = e => d.seq <= c.seq
    <3>3. new \in page /\ new.entity = e /\ \A d \in page : d.entity = e => d.seq <= new.seq
      BY <3>2
    <3>4. cache'[e] = CachedChange(new)
      BY <1>8, <2>1 DEF Applied
    <3> HIDE DEF new
    <3>5. new \in Story(changes, e) /\ after < new.seq
      BY <1>4, <3>3 DEF Story
    <3>6. ASSUME NEW d \in Story(changes, e), d.seq <= NextCursor
          PROVE  d.seq <= new.seq
      <4>1. CASE after < d.seq
        BY <1>6, <3>3, <3>6, <4>1 DEF Story
      <4>2. CASE ~(after < d.seq)
        BY <1>3, <1>5, <3>5, <4>2 DEF Story
      <4> QED
        BY <4>1, <4>2
    <3> QED
      BY <3>4, <3>5, <3>6 DEF Reflects
  <2>2. CASE ~InPage(e)
    <3>1. cache'[e] = cache[e] /\ Reflects(changes, cache[e], e, cursor)
      BY <1>8, <2>2 DEF CacheInv
    <3>2. \A d \in Story(changes, e) : d.seq <= NextCursor => d.seq <= cursor
      BY <1>3, <1>5, <1>6, <2>2 DEF Story, InPage
    <3>3. \A d \in Story(changes, e) : cursor < d.seq => NextCursor < d.seq
      BY <1>3, <1>5, <3>2 DEF Story
    <3> QED
      BY <3>1, <3>2, <3>3 DEF Reflects
  <2> QED
    BY <2>1, <2>2
<1> QED
  BY <1>2, <1>3, <1>7 DEF CacheInv, Reflects, Story

LEMMA CacheInvPull ==
  ASSUME AllFiled, IInv, LogInv, PageInv, CacheInv, PullStep
  PROVE  CacheInv'
<1> USE DEF stored, tables, vars
<1>1. CASE PullStart
  BY <1>1 DEF PullStart, CacheInv, PageInv, CursorIn, Reflects, Story
<1>2. CASE PullFetch
  BY <1>2 DEF PullFetch, CacheInv, Reflects, Story
<1>3. CASE PullAbort
  BY <1>3 DEF PullAbort, CacheInv, Reflects, Story
<1> QED
  BY <1>1, <1>2, <1>3, CacheInvApply DEF PullStep
\* A change at or below the stored cursor has a cached row.
LEMMA HeldStep ==
  ASSUME AllFiled, IInv, LogInv, PullInv, PullNext
  PROVE  \A c \in changes' : c.user = Owner /\ c.seq <= cursor' => cache'[c.entity] # NoRow
<1> SUFFICES ASSUME NEW c \in changes', c.user = Owner, c.seq <= cursor'
             PROVE  cache'[c.entity] # NoRow
  OBVIOUS
<1>1. TypeOK /\ SeqDrawn /\ CommittedFirst /\ PageInv
  BY LogFacts DEF PullInv
<1>2. CASE ServerStep
  <2>1. cursor' = cursor /\ cache' = cache /\ Next
    BY <1>2 DEF ServerStep, stored
  <2>2. \A d \in changes' \ changes : 0 < d.seq /\ \A b \in changes : b.seq < d.seq
    BY <1>1, <2>1, CommitStep
  <2>3. cursor \in Nat /\ \A b \in changes : b.seq \in Nat
    BY <1>1, ChangesTyped DEF PageInv, CursorIn
  <2>4. c.seq \in Nat
    BY <2>1, TypeStep DEF TypeOK, Change, IInv, RowInv
  <2>5. c \in changes
    BY <1>1, <2>1, <2>2, <2>3, <2>4 DEF PageInv, CursorIn
  <2> QED
    BY <2>1, <2>5 DEF PullInv
<1>3. CASE PullApply
  <2>1. changes' = changes /\ cursor' = NextCursor
    BY <1>3 DEF PullApply, vars, tables
  <2>2. cache' = [e \in Entities |-> IF InPage(e) /\ e \in Filed THEN Applied(e) ELSE cache[e]]
    BY <1>3 DEF PullApply
  <2>3. c.entity \in Entities /\ c.entity \in Filed /\ c.seq \in Nat
    BY <1>1, <2>1, ChangesTyped DEF AllFiled
  <2>4. CASE InPage(c.entity)
    <3> DEFINE P == {d \in page : d.entity = c.entity}
    <3>1. P \in SUBSET changes /\ P # {}
      BY <1>1, <2>4 DEF InPage, PageInv, Newer
    <3>2. \E d \in page : d.entity = c.entity /\ \A b \in page : b.entity = c.entity => b.seq <= d.seq
      BY <1>1, <3>1, NewestOf
    <3>3. PICK d \in page : Applied(c.entity) = CachedChange(d)
      BY <3>2 DEF Applied
    <3>4. d \in changes
      BY <1>1 DEF PageInv, Newer
    <3> QED
      BY <1>1, <2>2, <2>3, <2>4, <3>3, <3>4, CachedTyped
  <2>5. CASE ~InPage(c.entity)
    <3>1. cache'[c.entity] = cache[c.entity] /\ c \notin page
      BY <2>2, <2>3, <2>5 DEF InPage
    <3>2. after \in Nat /\ cursor \in Nat /\ after <= cursor
      BY <1>1, <1>3 DEF PageInv, CursorIn, PullInv, CacheInv, PullApply
    <3>3. c.seq <= after
      <4>1. CASE page = {}
        BY <2>1, <4>1, NextCursorIs, <1>1
      <4>2. CASE page # {}
        <5>1. PICK d \in page : d.seq = NextCursor
          BY <4>2, NextCursorIs, <1>1
        <5> QED
          BY <1>1, <2>1, <2>3, <3>1, <3>2, <5>1 DEF PageInv, Newer
      <4> QED
        BY <4>1, <4>2
    <3> QED
      BY <2>1, <2>3, <3>1, <3>2, <3>3 DEF PullInv
  <2> QED
    BY <2>4, <2>5
<1>4. CASE PullStart \/ PullFetch \/ PullAbort
  BY <1>4 DEF PullStart, PullFetch, PullAbort, stored, vars, tables, PullInv
<1> QED
  BY <1>2, <1>3, <1>4 DEF PullNext, PullStep

LEMMA ReplicaInit ==
  ASSUME RInit
  PROVE  PageInv /\ BootInv /\ CacheInv /\ PullInv /\ ReplicaInv
<1>1. changes = {} /\ (\A e \in Entities : cache[e] = NoRow) /\ boot = "idle" /\ pull = "idle"
  BY DEF RInit, Init, NothingCached
<1>2. PageInv
  BY <1>1 DEF RInit, PageInv, CursorIn, Newer
<1>3. BootInv
  <2>1. Len(Tables) \in Nat
    BY CloudReplicaAssumption
  <2> QED
    BY <1>1, <2>1 DEF RInit, BootInv
<1>4. CacheInv
  BY <1>1 DEF CacheInv, Reflects, Story
<1> QED
  BY <1>1, <1>2, <1>3, <1>4 DEF PullInv, ReplicaInv, RInit

\* The steps of the device leave the server alone.
LEMMA ServerFrame ==
  ASSUME [RNext]_allVars
  PROVE  [Next]_vars
BY DEF RNext, ServerStep, PullStep, PullStart, PullFetch, PullApply, PullAbort, BootStep, BootStart,
       BootReadTable, BootReadCursor, BootStoreTable, BootStoreCursor, BootAbort, allVars

LEMMA PullInvStep ==
  ASSUME AllFiled, IInv, LogInv, PullInv, [PullNext]_allVars
  PROVE  PullInv'
<1>1. PageInv /\ CacheInv /\ boot = "idle"
  BY DEF PullInv
<1>2. CASE ServerStep
  <2>1. [Next]_vars /\ UNCHANGED <<stored, pulling, booting>>
    BY <1>2 DEF ServerStep
  <2>2. PageInv' /\ CacheInv'
    BY <1>1, <2>1, PageInvServer, CacheInvServer
  <2> QED
    BY <1>1, <1>2, <2>1, <2>2, HeldStep DEF PullInv, PullNext, booting
<1>3. CASE PullStep
  <2>1. boot' = boot
    BY <1>3 DEF PullStep, PullStart, PullFetch, PullApply, PullAbort, booting
  <2>2. PageInv' /\ CacheInv'
    BY <1>1, <1>3, PageInvPull, CacheInvPull
  <2> QED
    BY <1>1, <1>3, <2>1, <2>2, HeldStep DEF PullInv, PullNext
<1>4. CASE UNCHANGED allVars
  <2>1. /\ changes' = changes /\ cursor' = cursor /\ after' = after /\ boundary' = boundary
        /\ page' = page /\ cache' = cache /\ pull' = pull /\ boot' = boot
    BY <1>4 DEF allVars, replica, stored, pulling, booting, vars, tables
  <2> QED
    BY <1>1, <2>1 DEF PullInv, PageInv, CacheInv, CursorIn, Newer, Reflects, Story
<1> QED
  BY <1>2, <1>3, <1>4 DEF PullNext
-----------------------------------------------------------------------------
(***************************************************************************)
(* Bootstrapping.                                                          *)
(***************************************************************************)
LEMMA BootInvServer ==
  ASSUME IInv, LogInv, BootInv, [Next]_vars, boot = "idle" \/ changes' = changes,
         UNCHANGED <<stored, booting>>
  PROVE  BootInv'
<1>1. /\ boot' = boot /\ table' = table /\ snapshot' = snapshot /\ boundary' = boundary
      /\ cache' = cache
  BY DEF stored, booting
<1>2. CASE boot = "idle"
  BY <1>1, <1>2 DEF BootInv
<1>3. CASE changes' = changes
  <2>1. nextSeq \in Nat /\ nextSeq' \in Nat /\ nextSeq <= nextSeq'
    BY LogFacts, CommitStep, ChangesTyped
  <2>2. \A c \in changes : c.seq \in Nat /\ c.seq < nextSeq
    BY LogFacts, ChangesTyped
  <2>3. ASSUME NEW row, NEW e, Reflects(changes, row, e, nextSeq)
        PROVE  Reflects(changes, row, e, nextSeq')
    <3>1. \A d \in Story(changes, e) : d.seq \in Nat /\ d.seq < nextSeq
      BY <2>2 DEF Story
    <3> QED
      BY <2>1, <2>3, <3>1 DEF Reflects
  <2>4. boot = "read" => \A e \in Entities : Passed(e) => Reflects(changes, snapshot[e], e, nextSeq')
    BY <2>3 DEF BootInv
  <2>5. boot = "store" => \A e \in Entities : Reflects(changes, snapshot[e], e, nextSeq')
    BY <2>3 DEF BootInv
  <2>6. \A e : Passed(e)' <=> Passed(e)
    BY <1>1 DEF Passed
  <2> HIDE DEF Passed
  <2> QED
    BY <1>1, <1>3, <2>4, <2>5, <2>6 DEF BootInv, Reflects, Story
<1> QED
  BY <1>2, <1>3

LEMMA BootInvPull ==
  ASSUME BootInv, PullStep, boot = "idle" \/ ~PullApply
  PROVE  BootInv'
<1>1. /\ boot' = boot /\ table' = table /\ snapshot' = snapshot /\ boundary' = boundary
      /\ changes' = changes /\ nextSeq' = nextSeq
  BY DEF PullStep, PullStart, PullFetch, PullApply, PullAbort, booting, vars, tables
<1>2. CASE boot = "idle"
  BY <1>1, <1>2 DEF BootInv
<1>3. CASE ~PullApply
  <2>1. cache' = cache
    BY <1>3 DEF PullStep, PullStart, PullFetch, PullAbort, stored
  <2> QED
    BY <1>1, <2>1 DEF BootInv, Passed, Reflects, Story
<1> QED
  BY <1>2, <1>3

\* Every object lies in a table.
LEMMA AllPassed ==
  ASSUME table \in 1..(Len(Tables) + 1), table \notin DOMAIN Tables, NEW e \in Entities
  PROVE  Passed(e)
<1>1. Tables \in Seq(SUBSET Entities) /\ Len(Tables) \in Nat /\ DOMAIN Tables = 1..Len(Tables)
  BY CloudReplicaAssumption
<1>2. PICK i \in DOMAIN Tables : e \in Tables[i]
  BY CloudReplicaAssumption
<1>3. i < table
  BY <1>1
<1> QED
  BY <1>2, <1>3 DEF Passed

LEMMA BootingInv ==
  ASSUME AllOrNothing, IInv, LogInv, PageInv, BootInv, CacheInv, BootStep, fresh'
  PROVE  BootInv' /\ CacheInv'
<1>1. /\ changes' = changes /\ nextSeq' = nextSeq /\ rows' = rows
      /\ after' = after /\ pull' = pull
  BY DEF BootStep, BootStart, BootReadTable, BootReadCursor, BootStoreTable, BootStoreCursor,
         BootAbort, pulling, vars, tables
<1>2. nextSeq \in Nat /\ \A c \in changes : c.seq \in Nat /\ c.seq < nextSeq
  BY LogFacts, ChangesTyped
<1>3. cursor \in Nat /\ boundary \in Nat /\ after \in Nat /\ cursor <= nextSeq /\ boundary <= nextSeq
  BY <1>2 DEF PageInv, CursorIn
<1>4. table \in 1..(Len(Tables) + 1) /\ Len(Tables) \in Nat /\ DOMAIN Tables = 1..Len(Tables)
  BY CloudReplicaAssumption DEF BootInv
<1>5. ASSUME cache' = cache, cursor' = cursor
      PROVE  CacheInv'
  BY <1>1, <1>5 DEF CacheInv, Reflects, Story
<1>6. CASE BootStart
  <2>1. boot' = "read" /\ table' = 1 /\ cache' = cache /\ cursor' = cursor
    BY <1>6 DEF BootStart, stored
  <2>2. \A e \in Entities : cache'[e] = NoRow
    BY <1>6, <2>1 DEF BootStart, NothingCached
  <2>3. \A e : ~Passed(e)'
    BY <1>4, <2>1 DEF Passed
  <2> QED
    BY <1>4, <1>5, <2>1, <2>2, <2>3 DEF BootInv
<1>7. CASE BootReadTable
  <2>1. /\ boot = "read" /\ boot' = "read" /\ table' = table + 1 /\ cache' = cache
        /\ cursor' = cursor /\ table \in DOMAIN Tables
    BY <1>7 DEF BootReadTable, stored
  <2>2. \A e \in Entities : snapshot'[e] = IF e \in Tables[table] THEN CachedRow(rows[e]) ELSE snapshot[e]
    BY <1>7 DEF BootReadTable
  <2>3. ASSUME NEW e \in Entities, Passed(e)'
        PROVE  Reflects(changes, snapshot'[e], e, nextSeq)
    <3>1. CASE e \in Tables[table]
      BY <2>2, <3>1, CachedRowReflects
    <3>2. CASE e \notin Tables[table]
      <4>1. PICK i \in DOMAIN Tables : i < table + 1 /\ e \in Tables[i]
        BY <2>1, <2>3 DEF Passed
      <4>2. i < table
        BY <1>4, <2>1, <3>2, <4>1
      <4> QED
        BY <2>1, <2>2, <3>2, <4>1, <4>2 DEF BootInv, Passed
    <3> QED
      BY <3>1, <3>2
  <2>4. table' \in 1..(Len(Tables) + 1)
    BY <1>4, <2>1
  <2>5. \A e \in Entities : cache'[e] = NoRow
    BY <2>1 DEF BootInv
  <2>6. \A e \in Entities : Passed(e)' => Reflects(changes', snapshot'[e], e, nextSeq')
    BY <1>1, <2>3
  <2> QED
    BY <1>5, <2>1, <2>4, <2>5, <2>6 DEF BootInv, Reflects, Story
<1>8. CASE BootReadCursor
  <2>1. /\ boot = "read" /\ boot' = "store" /\ table' = 1 /\ cache' = cache /\ cursor' = cursor
        /\ snapshot' = snapshot /\ boundary' = LastSeq(Newer(0), 0) /\ table \notin DOMAIN Tables
    BY <1>8 DEF BootReadCursor, stored
  <2>2. \A e \in Entities : Reflects(changes, snapshot[e], e, nextSeq)
    BY <1>4, <2>1, AllPassed DEF BootInv
  <2>3. \A e : ~Passed(e)'
    BY <1>4, <2>1 DEF Passed
  <2>4. \A e \in Entities : cache'[e] = NoRow
    BY <2>1 DEF BootInv
  <2>5. \A c \in changes' : c.user = Owner => c.seq <= boundary'
    BY <1>1, <2>1, BoundaryIs
  <2>6. \A e \in Entities : Reflects(changes', snapshot'[e], e, nextSeq')
    BY <1>1, <2>1, <2>2
  <2>7. boot' \in {"idle", "read", "store"} /\ table' \in 1..(Len(Tables) + 1) /\ boot' # "read"
    BY <1>4, <2>1
  <2> QED
    BY <1>5, <2>1, <2>3, <2>4, <2>5, <2>6, <2>7 DEF BootInv, Reflects, Story
<1>9. CASE BootStoreTable
  <2>1. /\ boot = "store" /\ boot' = "store" /\ table' = table + 1 /\ cursor' = cursor
        /\ snapshot' = snapshot /\ boundary' = boundary /\ table \in DOMAIN Tables
    BY <1>9 DEF BootStoreTable
  <2>2. \A e \in Entities : cache'[e] =
          IF e \in Tables[table] /\ snapshot[e] # NoRow THEN snapshot[e] ELSE cache[e]
    BY <1>9 DEF BootStoreTable
  <2>3. \A e \in Entities : cache'[e] \in {NoRow, snapshot[e]}
    BY <2>1, <2>2 DEF BootInv
  <2>4. ASSUME NEW e \in Entities, Passed(e)'
        PROVE  cache'[e] = snapshot[e]
    <3>1. CASE e \in Tables[table]
      BY <2>1, <2>2, <3>1 DEF BootInv
    <3>2. CASE e \notin Tables[table]
      <4>1. PICK i \in DOMAIN Tables : i < table + 1 /\ e \in Tables[i]
        BY <2>1, <2>4 DEF Passed
      <4>2. i < table
        BY <1>4, <2>1, <3>2, <4>1
      <4> QED
        BY <2>1, <2>2, <3>2, <4>1, <4>2 DEF BootInv, Passed
    <3> QED
      BY <3>1, <3>2
  <2>5. ASSUME NEW e \in Entities
        PROVE  Reflects(changes, cache'[e], e, cursor)
    <3>1. Reflects(changes, snapshot[e], e, cursor)
      BY <1>2, <1>3, <2>1, LogFacts, ReflectsEarlier DEF BootInv
    <3> QED
      BY <2>2, <3>1 DEF CacheInv
  <2>6. CacheInv'
    BY <1>1, <2>1, <2>5 DEF CacheInv, Reflects, Story
  <2>7. table' \in 1..(Len(Tables) + 1)
    BY <1>4, <2>1
  <2>8. \A c \in changes' : c.user = Owner => c.seq <= boundary'
    BY <1>1, <2>1 DEF BootInv
  <2>9. \A e \in Entities : Reflects(changes', snapshot'[e], e, nextSeq')
    BY <1>1, <2>1 DEF BootInv
  <2> QED
    BY <2>1, <2>3, <2>4, <2>6, <2>7, <2>8, <2>9 DEF BootInv, Reflects, Story
<1>10. CASE BootStoreCursor
  <2>1. /\ boot = "store" /\ boot' = "idle" /\ table' = 1 /\ cursor' = boundary
        /\ cache' = cache /\ table \notin DOMAIN Tables
    BY <1>10 DEF BootStoreCursor
  <2>2. BootInv'
    BY <1>4, <2>1 DEF BootInv
  <2>3. \A e \in Entities : cache[e] = snapshot[e]
    BY <1>4, <2>1, AllPassed DEF BootInv
  <2>4. \A e \in Entities : Reflects(changes, cache[e], e, boundary)
    BY <1>2, <1>3, <2>1, <2>3, LogFacts, ReflectsEarlier DEF BootInv
  <2>5. cursor <= boundary
    BY <1>2, <1>3, <2>1 DEF BootInv, PageInv, CursorIn
  <2> QED
    BY <1>1, <1>3, <2>1, <2>2, <2>4, <2>5 DEF CacheInv, Reflects, Story
<1>11. CASE BootAbort
  <2>1. boot' = "idle" /\ table' = 1 /\ cache' = cache /\ cursor' = cursor
    BY <1>11 DEF BootAbort, stored
  <2> QED
    BY <1>4, <1>5, <2>1 DEF BootInv
<1> QED
  BY <1>6, <1>7, <1>8, <1>9, <1>10, <1>11 DEF BootStep

LEMMA ReplicaInvStep ==
  ASSUME AllFiled, AllOrNothing, IInv, LogInv, ReplicaInv, [RNext]_allVars
  PROVE  ReplicaInv'
<1>1. PageInv /\ quiet \in BOOLEAN /\ fresh \in BOOLEAN
  BY DEF ReplicaInv
<1>2. CASE ServerStep
  <2>1. [Next]_vars /\ UNCHANGED <<stored, pulling, booting>> /\ fresh' = fresh
    BY <1>2 DEF ServerStep
  <2>2. quiet' = (quiet /\ (boot = "idle" \/ changes' = changes))
    BY <1>2 DEF ServerStep
  <2>3. PageInv'
    BY <1>1, <2>1, PageInvServer
  <2>4. quiet' /\ fresh' => BootInv' /\ CacheInv'
    BY <1>1, <2>1, <2>2, BootInvServer, CacheInvServer DEF ReplicaInv
  <2> QED
    BY <1>1, <2>1, <2>2, <2>3, <2>4 DEF ReplicaInv
<1>3. CASE PullStep
  <2>1. fresh' = fresh /\ quiet' \in BOOLEAN /\ (quiet' => quiet)
    <3>1. CASE PullApply
      <4>1. quiet' = (quiet /\ boot = "idle") /\ fresh' = fresh
        BY <3>1 DEF PullApply
      <4> QED
        BY <1>1, <4>1
    <3>2. CASE PullStart \/ PullFetch \/ PullAbort
      <4>1. quiet' = quiet /\ fresh' = fresh
        BY <3>2 DEF PullStart, PullFetch, PullAbort, witnesses
      <4> QED
        BY <1>1, <4>1
    <3> QED
      BY <1>3, <3>1, <3>2 DEF PullStep
  <2>2. quiet' => boot = "idle" \/ ~PullApply
    BY DEF PullApply
  <2>3. PageInv'
    BY <1>1, <1>3, PageInvPull
  <2>4. quiet' /\ fresh' => BootInv' /\ CacheInv'
    BY <1>1, <1>3, <2>1, <2>2, BootInvPull, CacheInvPull DEF ReplicaInv
  <2> QED
    BY <1>1, <2>1, <2>3, <2>4 DEF ReplicaInv
<1>4. CASE BootStep
  <2>1. quiet' = quiet /\ fresh' \in BOOLEAN /\ (fresh' => fresh)
    <3>1. CASE BootStart
      <4>1. fresh' = (fresh /\ cache = NothingCached) /\ quiet' = quiet
        BY <3>1 DEF BootStart
      <4> QED
        BY <1>1, <4>1
    <3>2. CASE \/ BootReadTable \/ BootReadCursor \/ BootStoreTable \/ BootStoreCursor
               \/ BootAbort
      <4>1. quiet' = quiet /\ fresh' = fresh
        BY <3>2 DEF BootReadTable, BootReadCursor, BootStoreTable, BootStoreCursor, BootAbort,
                    witnesses
      <4> QED
        BY <1>1, <4>1
    <3> QED
      BY <1>4, <3>1, <3>2 DEF BootStep
  <2>2. PageInv'
    BY <1>1, <1>4, PageInvBoot
  <2>3. quiet' /\ fresh' => BootInv' /\ CacheInv'
    BY <1>1, <1>4, <2>1, BootingInv DEF ReplicaInv
  <2> QED
    BY <1>1, <2>1, <2>2, <2>3 DEF ReplicaInv
<1>5. CASE UNCHANGED allVars
  <2>1. /\ changes' = changes /\ cursor' = cursor /\ after' = after /\ boundary' = boundary
        /\ page' = page /\ cache' = cache /\ pull' = pull /\ boot' = boot /\ table' = table
        /\ snapshot' = snapshot /\ nextSeq' = nextSeq /\ quiet' = quiet /\ fresh' = fresh
    BY <1>5 DEF allVars, replica, stored, pulling, booting, witnesses, vars, tables
  <2>2. PageInv'
    BY <1>1, <2>1 DEF PageInv, CursorIn, Newer
  <2>3. BootInv => BootInv'
    BY <2>1 DEF BootInv, Passed, Reflects, Story
  <2>4. CacheInv => CacheInv'
    BY <2>1 DEF CacheInv, Reflects, Story
  <2> QED
    BY <1>1, <2>1, <2>2, <2>3, <2>4 DEF ReplicaInv
<1> QED
  BY <1>2, <1>3, <1>4, <1>5 DEF RNext

-----------------------------------------------------------------------------
(***************************************************************************)
(* The log of an account whose pushes are served one at a time is ordered, *)
(* next to whatever a device does.                                         *)
(***************************************************************************)
LEMMA LogInvHolds == ASSUME OneAtATime PROVE RSpec => [](IInv /\ LogInv)
<1>1. RInit => IInv /\ LogInv
  BY RowInvInit, LedgerInvInit, ChainInvInit, LogInvInit DEF RInit, IInv
<1>2. IInv /\ LogInv /\ [RNext]_allVars => IInv' /\ LogInv'
  BY ServerFrame, LogInvStep, RowInvStep, LedgerInvStep, ChainInvStep DEF IInv
<1> QED
  BY <1>1, <1>2, PTL DEF RSpec

LEMMA PullSpecIsRSpec == PullSpec => RSpec
<1>1. [PullNext]_allVars => [RNext]_allVars
  BY DEF PullNext, RNext
<1> QED
  BY <1>1, PTL DEF PullSpec, RSpec

LEMMA PullInvHolds == ASSUME OneAtATime, AllFiled PROVE PullSpec => [](IInv /\ LogInv /\ PullInv)
<1>1. RInit => PullInv
  BY ReplicaInit
<1>2. IInv /\ LogInv /\ PullInv /\ [PullNext]_allVars => PullInv'
  BY PullInvStep
<1> QED
  BY <1>1, <1>2, LogInvHolds, PullSpecIsRSpec, PTL DEF PullSpec

(***************************************************************************)
(* No page that is lost, fetched again or cut short makes the pull loop    *)
(* step over a change, while one push at a time is committed.              *)
(***************************************************************************)
THEOREM PullSkipsNothing == ASSUME OneAtATime, AllFiled PROVE PullSpec => []NothingSkipped
<1>1. IInv /\ LogInv /\ PullInv => NothingSkipped
  <2> SUFFICES ASSUME IInv, LogInv, PullInv, NEW c \in changes, c.user = Owner, c.seq <= cursor
               PROVE  cache[c.entity] # NoRow /\ cache[c.entity].version >= c.version
    BY DEF NothingSkipped
  <2>1. cache[c.entity] # NoRow
    BY DEF PullInv
  <2>2. /\ TypeOK /\ SeqDrawn
        /\ \A d \in changes : d.seq \in Nat /\ d.version \in Nat /\ d.entity \in Entities
    BY LogFacts, ChangesTyped
  <2>3. PICK d \in Story(changes, c.entity) :
          /\ cache[c.entity] = CachedChange(d)
          /\ \A b \in Story(changes, c.entity) : b.seq <= cursor => b.seq <= d.seq
    BY <2>1, <2>2 DEF PullInv, CacheInv, Reflects
  <2>4. c.seq <= d.seq /\ d \in changes /\ d.entity = c.entity
    BY <2>3 DEF Story
  <2>5. cache[c.entity].version = d.version
    BY <2>3 DEF CachedChange
  <2>6. c.seq < d.seq => c.version < d.version
    BY <2>4 DEF LogInv, VersionOrder, Made
  <2>7. c.seq = d.seq => c = d
    BY <2>2, <2>4 DEF SeqDrawn, Made
  <2> QED
    BY <2>1, <2>2, <2>4, <2>5, <2>6, <2>7
<1> QED
  BY <1>1, PullInvHolds, PTL

(***************************************************************************)
(* A device with nothing left to pull shows what the server stores.        *)
(***************************************************************************)
THEOREM PulledIsStored ==
  ASSUME OneAtATime, AllFiled, AllOrNothing PROVE PullSpec => []CaughtUpIsExact
<1>1. IInv /\ LogInv /\ PullInv => CaughtUpIsExact
  BY ShownAsStored DEF PullInv, PageInv, CursorIn, CacheInv, CaughtUpIsExact, CaughtUp, Exact
<1> QED
  BY <1>1, PullInvHolds, PTL

(***************************************************************************)
(* So does a device that bootstraps, as long as no bootstrap was           *)
(* overlapped or began on filled tables, however often it was cut short.   *)
(***************************************************************************)
THEOREM QuietBootstrapIsExact ==
  ASSUME OneAtATime, AllFiled, AllOrNothing PROVE RSpec => []QuietFreshBootstrap
<1>1. RInit => ReplicaInv
  BY ReplicaInit
<1>2. IInv /\ LogInv /\ ReplicaInv /\ [RNext]_allVars => ReplicaInv'
  BY ReplicaInvStep
<1>3. IInv /\ LogInv /\ ReplicaInv => QuietFreshBootstrap
  BY ShownAsStored DEF ReplicaInv, PageInv, CursorIn, CacheInv, QuietFreshBootstrap, CaughtUp, Exact
<1> QED
  BY <1>1, <1>2, <1>3, LogInvHolds, PTL DEF RSpec
===============================================================================
