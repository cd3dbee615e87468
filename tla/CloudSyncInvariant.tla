------------------------ MODULE CloudSyncInvariant ------------------------
(***************************************************************************)
(* The inductive invariant behind the properties of CloudSync: what holds  *)
(* of the writes of open transactions, so that a commit may publish them.  *)
(***************************************************************************)
EXTENDS CloudSync

\* The change records written so far, published or not.
Made == changes \cup UNION {dirtyChanges[r] : r \in Requests}

\* The change records the transaction of r can see.
Own(r) == changes \cup dirtyChanges[r]

SameOwner(row1, row2) ==
  /\ row1.user = row2.user
  /\ row1.parent = row2.parent
  /\ row1.sec = row2.sec

-----------------------------------------------------------------------------
\* A row is written by one open transaction at a time.
RowExclusive ==
  \A e \in Entities : \A r, q \in Requests :
    dirtyRows[r][e] # NoRow /\ dirtyRows[q][e] # NoRow => r = q

\* What a transaction has read is still there, with its owner and place.
SeenStands ==
  \A r \in Requests :
    pc[r] = "apply" /\ seen[r] # NoRow =>
      /\ Visible(r, Cur(r).entity) # NoRow
      /\ SameOwner(Visible(r, Cur(r).entity), seen[r])

\* An uncommitted row keeps the owner, the place and the tombstone of the
\* committed row it will replace.
DirtyKeeps ==
  \A r \in Requests, e \in Entities :
    dirtyRows[r][e] # NoRow /\ rows[e] # NoRow =>
      /\ SameOwner(dirtyRows[r][e], rows[e])
      /\ rows[e].deleted => dirtyRows[r][e].deleted

RowInv == TypeOK /\ RowExclusive /\ SeenStands /\ DirtyKeeps

-----------------------------------------------------------------------------
\* The sequence numbers drawn are behind the generator and never shared.
SeqDrawn ==
  /\ \A c \in Made : c.seq < nextSeq
  /\ \A c, d \in Made : c.seq = d.seq => c = d

\* The result that tells the truth about a change.
ResultOf(c) == [status |-> "ACCEPTED", version |-> c.version, cursor |-> c.seq]

\* Committed results and committed changes agree.
LedgerTrue ==
  /\ \A c \in changes : ledger[c.op] = ResultOf(c)
  /\ \A o \in OpIds :
       ledger[o] # NoResult /\ ledger[o].status = "ACCEPTED" =>
         \E c \in changes : c.op = o

\* The results and changes of the open transaction of r agree, but for the
\* one change whose operation it is about to record.
DirtyTrueOf(r) ==
  /\ \A c \in dirtyChanges[r] :
       \/ dirtyLedger[r][c.op] = ResultOf(c)
       \/ pc[r] = "record" /\ result[r] = ResultOf(c) /\ c.op = Op(r)
  /\ \A o \in OpIds :
       dirtyLedger[r][o] # NoResult /\ dirtyLedger[r][o].status = "ACCEPTED" =>
         \E c \in dirtyChanges[r] : c.op = o
  /\ pc[r] = "record" /\ result[r].status = "ACCEPTED" =>
       \E c \in dirtyChanges[r] : c.op = Op(r)

DirtyTrue == \A r \in Requests : DirtyTrueOf(r)

\* An operation is recorded by one transaction only, and then for good.
RecordExclusive ==
  \A r \in Requests, o \in OpIds :
    dirtyLedger[r][o] # NoResult =>
      /\ ledger[o] = NoResult
      /\ \A q \in Requests : dirtyLedger[q][o] # NoResult => q = r

LedgerInv == SeqDrawn /\ LedgerTrue /\ DirtyTrue /\ RecordExclusive

-----------------------------------------------------------------------------
\* A change is asked for by its user, on the version its sender named.
Asked ==
  \A c \in Made :
    /\ c.user = OpOf[c.op].user
    /\ c.version > 1 => OpOf[c.op].base = c.version - 1

\* A change goes with a row of its user, written where the change is.
HasRow ==
  /\ \A c \in changes : rows[c.entity] # NoRow /\ rows[c.entity].user = c.user
  /\ \A r \in Requests : \A c \in dirtyChanges[r] :
       /\ dirtyRows[r][c.entity] # NoRow
       /\ dirtyRows[r][c.entity].user = c.user

Explains(c, e, row) == c.entity = e /\ c.version = row.version /\ c.user = row.user

\* The versions that the transaction of r wrote or read are those of changes
\* it can see.
DirtyExplainedOf(r) ==
  /\ \A e \in Entities : dirtyRows[r][e] # NoRow =>
       \E c \in Own(r) : Explains(c, e, dirtyRows[r][e])
  /\ pc[r] = "apply" /\ seen[r] # NoRow =>
       \E c \in Own(r) : Explains(c, Cur(r).entity, seen[r])

DirtyExplained == \A r \in Requests : DirtyExplainedOf(r)

\* d is the change that c built upon.
Follows(c, d) ==
  d.entity = c.entity /\ d.version = c.version - 1 /\ d.seq < c.seq

\* An object's first version is its creation and comes before all others.
CreatedFirst ==
  \A c, d \in Made : c.version = 1 =>
    c.kind = "UPSERT" /\ (d.entity = c.entity => c.seq <= d.seq)

\* A later version follows a change its transaction could see.
Follow ==
  /\ \A c \in changes : c.version # 1 => \E d \in changes : Follows(c, d)
  /\ \A r \in Requests : \A c \in dirtyChanges[r] :
       c.version # 1 => \E d \in Own(r) : Follows(c, d)

ChainInv == Asked /\ HasRow /\ RowExplained /\ DirtyExplained /\ CreatedFirst /\ Follow

(***************************************************************************)
(* The invariant of the push handler that every theorem rests on: open     *)
(* transactions exclude each other row by row and record by record, keep   *)
(* what the committed rows promise, and build on changes they can see.     *)
(***************************************************************************)
IInv == RowInv /\ LedgerInv /\ ChainInv
=============================================================================
