---------------------------- MODULE SyncClient ----------------------------
(***************************************************************************)
(* A device's outbox of operations on synchronised objects, pushed to the  *)
(* handler of CloudSync over a connection that may fail at any moment,     *)
(* next to the account's other devices.                                    *)
(*                                                                         *)
(* The device is the app's CloudSyncManager: enqueue, and the push half of *)
(* sync, over the Room table sync_outbox.  Its pull half is CloudReplica.  *)
(* The outbox survives the process; a sync that fails is begun again, by   *)
(* the user.  One sync runs at a time.                                     *)
(***************************************************************************)
EXTENDS CloudSync, FiniteSets

CONSTANTS Mine,        \* the operations this device asks for
          NoCall,      \* the device is not waiting for a request
          OthersSeq,   \* bound: others push up to this sequence only
          MaxFailures  \* bound: lost replies, dead requests and dead processes

ASSUME SyncClientAssumption ==
  /\ Mine \subseteq OpIds
  /\ \A o, p \in Mine : OpOf[o].user = OpOf[p].user
  /\ NoCall \notin Requests
  /\ OthersSeq \in Nat
  /\ MaxFailures \in Nat

VARIABLES
  outbox,   \* sync_outbox
  created,  \* createdAt of each operation; 0 before it is asked for
  told,     \* lastError of each operation
  call,     \* the request whose reply the device waits for
  reply,    \* the reply that has arrived: what it says of each operation
  failures  \* lost replies, dead requests and dead processes so far

device     == <<outbox, created, told, call, reply>>
clientVars == <<vars, device, failures>>

NoReply == <<>>

\* The edits that were ever made.
Edits == {o \in Mine : created[o] > 0}

CInit ==
  /\ Init
  /\ outbox = {}
  /\ created = [o \in Mine |-> 0]
  /\ told = [o \in Mine |-> ""]
  /\ call = NoCall
  /\ reply = NoReply
  /\ failures = 0

-----------------------------------------------------------------------------
(***************************************************************************)
(* The device.                                                             *)
(***************************************************************************)
\* An edit on the device.
Enqueue(o) ==
  /\ created[o] = 0
  /\ created' = [created EXCEPT ![o] = Cardinality(Edits) + 1]
  /\ outbox' = outbox \cup {o}
  /\ UNCHANGED <<vars, told, call, reply, failures>>

InBatch(b) == {b[i] : i \in DOMAIN b}

\* The oldest operations of the outbox, in order, whatever became of them the
\* last time.
Pending(b) ==
  /\ InBatch(b) \subseteq outbox
  /\ Len(b) = MaxBatch \/ Len(b) = Cardinality(outbox)
  /\ \A i, j \in DOMAIN b : i < j => created[b[i]] < created[b[j]]
  /\ \A o \in outbox \ InBatch(b), p \in InBatch(b) : created[p] <= created[o]

\* sync sends them and waits for the reply.
SyncPush(r) ==
  /\ call = NoCall /\ reply = NoReply
  /\ \E u \in Users : \E b \in Batches(u) : Pending(b) /\ Push(r, b)
  /\ call' = r
  /\ UNCHANGED <<outbox, created, told, reply, failures>>

\* Variant: DUPLICATE is taken for an error.
Done_AcceptedOnly(o) == o \in DOMAIN reply /\ reply[o] = "ACCEPTED"

\* The reply lets the device forget the operation.
Done(o) == o \in DOMAIN reply /\ reply[o] \in {"ACCEPTED", "DUPLICATE"}

\* Variant: the outbox is emptied, whatever has come into it since.
HandleReply_Empties ==
  /\ reply # NoReply
  /\ outbox' = {}
  /\ reply' = NoReply
  /\ UNCHANGED <<vars, created, told, call, failures>>

\* The reply is worked off in one Room transaction.
HandleReply ==
  /\ reply # NoReply
  /\ outbox' = {o \in outbox : ~Done(o)}
  /\ told' = [o \in Mine |->
       IF o \notin DOMAIN reply \/ Done(o) THEN told[o]
       ELSE IF reply[o] = "CONFLICT" THEN "CONFLICT" ELSE "ERROR"]
  /\ reply' = NoReply
  /\ UNCHANGED <<vars, created, call, failures>>

\* The device stops waiting: a timeout, a broken connection, or the end of
\* its process.  The request may still be running.
GiveUp ==
  /\ call # NoCall
  /\ failures < MaxFailures
  /\ failures' = failures + 1
  /\ call' = NoCall
  /\ UNCHANGED <<vars, outbox, created, told, reply>>

\* The reply is lost, or the process dies before it has worked it off.
LoseReply ==
  /\ reply # NoReply
  /\ failures < MaxFailures
  /\ failures' = failures + 1
  /\ reply' = NoReply
  /\ UNCHANGED <<vars, outbox, created, told, call>>

-----------------------------------------------------------------------------
(***************************************************************************)
(* The server.                                                             *)
(***************************************************************************)
\* Other devices, of this account or another.
OthersPush(r) ==
  /\ nextSeq <= OthersSeq
  /\ \E u \in Users : \E b \in Batches(u) :
       /\ \A i \in DOMAIN b : b[i] \notin Mine
       /\ Push(r, b)
  /\ UNCHANGED <<device, failures>>

Working(r) ==
  /\ \/ ApplyDuplicate(r) \/ Load(r) \/ Mutate(r) \/ Refuse(r)
     \/ RefuseHalfDone(r) \/ RecordOperation(r)
  /\ UNCHANGED <<device, failures>>

\* What the reply says of an operation.
StatusOf(r, o) == IF o \in priors[r] THEN "DUPLICATE" ELSE dirtyLedger[r][o].status

\* The request commits and is answered.
Answer(r) ==
  /\ Commit(r)
  /\ IF call = r
     THEN /\ call' = NoCall
          /\ reply' = [o \in InBatch(batch[r]) |-> StatusOf(r, o)]
     ELSE UNCHANGED <<call, reply>>
  /\ UNCHANGED <<outbox, created, told, failures>>

\* An error, or no answer at all, ends the waiting; sync throws.
NoAnswer(r) == call' = IF call = r THEN NoCall ELSE call

Fail(r) ==
  /\ UniqueViolation(r)
  /\ NoAnswer(r)
  /\ UNCHANGED <<outbox, created, told, reply, failures>>

Die(r) ==
  /\ Crash(r)
  /\ failures < MaxFailures
  /\ failures' = failures + 1
  /\ NoAnswer(r)
  /\ UNCHANGED <<outbox, created, told, reply>>

\* Request p waits for a row, a pair or a record that q has written.
WaitsFor(p, q) ==
  /\ p # q
  /\ \/ /\ pc[p] = "apply"
        /\ Mutates(p) \/ HalfDone(p)
        /\ dirtyRows[q][Cur(p).entity] # NoRow
     \/ /\ pc[p] = "apply"
        /\ Creates(p)
        /\ Cur(p).entity \in UniqueItems
        /\ \E e \in UniqueItems : SamePair(dirtyRows[q][e], Cur(p))
     \/ pc[p] = "record" /\ dirtyLedger[q][Op(p)] # NoResult

\* PostgreSQL ends a transaction when those that wait run in a circle.
DeadlockVictim(r) ==
  /\ \E S \in SUBSET Requests :
       r \in S /\ \A p \in S : \E q \in S : WaitsFor(p, q)
  /\ Crash(r)
  /\ NoAnswer(r)
  /\ UNCHANGED <<outbox, created, told, reply, failures>>

Serve(r) == Working(r) \/ Answer(r) \/ Fail(r) \/ DeadlockVictim(r)

-----------------------------------------------------------------------------
CNext ==
  \/ \E o \in Mine : Enqueue(o)
  \/ \E r \in Requests : SyncPush(r) \/ OthersPush(r) \/ Serve(r) \/ Die(r)
  \/ HandleReply \/ GiveUp \/ LoseReply

CSpec == CInit /\ [][CNext]_clientVars

\* The server works on every request it has taken, the device goes on
\* syncing and is not kept out for ever by others, and replies are handled.
CFairness ==
  /\ \A r \in Requests : WF_clientVars(Serve(r))
  /\ SF_clientVars(\E r \in Requests : SyncPush(r))
  /\ WF_clientVars(HandleReply)

FairCSpec == CSpec /\ CFairness

-----------------------------------------------------------------------------
(***************************************************************************)
(* The type invariant: no two edits have the same place in the outbox, and *)
(* the device never waits and has a reply at the same time (sync).         *)
(***************************************************************************)
ClientTypeOK ==
  /\ outbox \subseteq Edits
  /\ created \in [Mine -> Nat]
  /\ \A o, p \in Edits : created[o] = created[p] => o = p
  /\ told \in [Mine -> {"", "CONFLICT", "ERROR"}]
  /\ call \in Requests \cup {NoCall}
  /\ DOMAIN reply \subseteq Edits
  /\ call # NoCall => reply = NoReply
  /\ failures \in 0..MaxFailures

(***************************************************************************)
(* An edit is in the outbox or its result is recorded by the server,       *)
(* whatever is lost on the way (README:49, Durable Outbox).                *)
(***************************************************************************)
NothingLost == \A o \in Edits : o \in outbox \/ ledger[o] # NoResult

(***************************************************************************)
(* What the device shows as a conflict or an error was refused: no retry   *)
(* and no late reply marks an accepted edit as failed.                     *)
(***************************************************************************)
FailuresAreTrue ==
  \A o \in Mine : told[o] # "" => ledger[o] # NoResult /\ ledger[o].status # "ACCEPTED"

(***************************************************************************)
(* Every edit leaves the outbox in the end, however replies are lost       *)
(* (docs/22:24, Idempotency).                                              *)
(***************************************************************************)
Drained == \A o \in Mine : o \in Edits ~> o \notin outbox

\* What the document says of a conflict: it is shown and not passed over in
\* silence, so an edit leaves the outbox only when it took effect
\* (docs/22:25 and 35).
RefusedIsKept ==
  \A o \in Edits :
    o \in outbox \/ (ledger[o] # NoResult /\ ledger[o].status = "ACCEPTED")
=============================================================================
