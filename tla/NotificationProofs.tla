-------------------------- MODULE NotificationProofs --------------------------
(***************************************************************************)
(* Proofs about notifications: the push outbox (a device gets one twice    *)
(* only after an attempt whose outcome was ambiguous, and a delivery is in *)
(* the hands of one worker) and what the data quality monitoring notifies  *)
(* (an anomaly once per episode and cooldown, and evaluation).             *)
(*                                                                         *)
(* The outbox does so where the rows of a batch are claimed one at a time  *)
(* or only one process drains it.  With larger batches the first commit    *)
(* gives up the locks on the rest of the batch, which is still PENDING:    *)
(* another worker claims it, and it is sent by both.                       *)
(***************************************************************************)
EXTENDS PushOutbox, DataMonitoring, FiniteSetTheorems, TLAPS

(* What the locks of a claim last for.                                     *)
ClaimsAreKept == Batch = 1 \/ \A v, w \in Workers : v = w

(* A worker and the rows it has in hand: what its session remembers of     *)
(* them is what the table says.                                            *)
InHand(w) ==
  /\ pc[w] \in {"idle", "materialize"} => queue[w] = {}
  /\ current[w] \notin queue[w]
  /\ \A d \in queue[w] : status[d] \in {"PENDING", "SENDING"} /\ mem[w][d] = status[d]
  /\ pc[w] \in {"send", "record"} =>
       /\ status[current[w]] = "SENDING" /\ current[w] \notin stale
       /\ mem[w][current[w]] = "SENDING"
  /\ pc[w] = "retry" => status[current[w]] = "FAILED" /\ mem[w][current[w]] = "FAILED"
  /\ pc[w] = "record" /\ answer[w] = "success" => got[current[w]] > 0
  /\ Batch = 1 => /\ \A c, d \in queue[w] : c = d
                  /\ current[w] # NoDelivery => queue[w] = {}

(* Two workers have nothing in hand in common: what one has claimed and    *)
(* not begun it has locked.                                                *)
Apart(v, w) ==
  /\ queue[v] \subseteq locked[v]
  /\ queue[v] \cap queue[w] = {}
  /\ current[v] \notin queue[w]
  /\ current[v] # NoDelivery => current[v] # current[w]

(* A worker is about to record that the device has got it.                 *)
Recording(w, d) == current[w] = d /\ pc[w] = "record" /\ answer[w] = "success"

(* A notification that arrived, and not only perhaps, is one that is       *)
(* recorded as sent or is just about to be.                                *)
Arrived(d) ==
  /\ got[d] > 0 /\ d \notin unsure => status[d] = "SENT" \/ \E w \in Workers : Recording(w, d)
  /\ got[d] > 1 => d \in unsure
  /\ status[d] = "SENT" => got[d] > 0

Hands ==
  /\ \A w \in Workers : InHand(w)
  /\ \A v, w \in Workers : v # w => Apart(v, w)

OutboxInv == TypeOK /\ Hands /\ \A d \in Deliveries : Arrived(d)

-----------------------------------------------------------------------------
LEMMA InitHolds == Init => OutboxInv
<1> SUFFICES ASSUME Init PROVE OutboxInv
  OBVIOUS
<1>1. TypeOK
  BY PushOutboxAssumption DEF Init, TypeOK, Statuses, Answers
<1>2. Hands
  BY PushOutboxAssumption DEF Init, Hands, InHand, Apart, Deliveries
<1>3. ASSUME NEW d \in Deliveries PROVE Arrived(d)
  BY DEF Init, Arrived
<1> QED BY <1>1, <1>2, <1>3 DEF OutboxInv

LEMMA TypeStep == TypeOK /\ [Next]_vars => TypeOK'
<1> SUFFICES ASSUME TypeOK, [Next]_vars PROVE TypeOK'
  OBVIOUS
<1> USE PushOutboxAssumption
<1>1. CASE UNCHANGED vars
  BY <1>1 DEF TypeOK, vars, tables, worker, witnesses
<1>2. ASSUME NEW e \in Events, AddEvent(e) PROVE TypeOK'
  BY <1>2 DEF TypeOK, AddEvent, worker, witnesses
<1>3. ASSUME NEW t \in Tokens, Register(t) \/ Unregister(t) PROVE TypeOK'
  BY <1>3, ZenonT(30) DEF TypeOK, Register, Unregister, worker, witnesses
<1>4. ASSUME NEW d \in Deliveries, Age(d) PROVE TypeOK'
  BY <1>4 DEF TypeOK, Age, worker, witnesses
<1>5. ASSUME NEW w \in Workers, DrainBegin(w) PROVE TypeOK'
  <2>1. outbox \in Seq(Events)
    BY DEF TypeOK
  <2>2. \A i \in DOMAIN outbox : outbox[i] \in Events
    BY <2>1
  <2>3. Selected(w) \subseteq Events
    BY <2>2 DEF Selected
  <2> QED BY <1>5, <2>3 DEF TypeOK, DrainBegin, tables, witnesses
<1>6. ASSUME NEW w \in Workers, Materialize(w) PROVE TypeOK'
  BY <1>6 DEF TypeOK, Materialize, Missing, Statuses, witnesses
<1>7. ASSUME NEW w \in Workers, Claim(w) PROVE TypeOK'
  <2>1. Eligible(w) \subseteq Deliveries
    BY DEF Eligible
  <2> QED BY <1>7, <2>1 DEF TypeOK, Claim, Statuses, tables, witnesses
<1>8. ASSUME NEW w \in Workers, Attempt(w) PROVE TypeOK'
  <2>1. PICK d \in Lockable(w) : Attempt(w)!2!(d)
    BY <1>8 DEF Attempt
  <2>2. d \in Deliveries
    BY DEF TypeOK, Lockable
  <2>3. Written(w, d, "SENDING") \in Statuses
    BY <2>2 DEF Written, TypeOK, Statuses
  <2>4. status' \in [Deliveries -> Statuses] /\ stale' \subseteq {c \in Deliveries : status'[c] = "SENDING"}
    BY <2>1, <2>2, <2>3 DEF TypeOK, CommitSending
  <2>5. \A v \in Workers : (current'[v] # NoDelivery) = (pc'[v] \in {"send", "record", "retry"})
    BY <1>8, <2>1, <2>2 DEF TypeOK, CommitSending
  <2>6. /\ queue' \in [Workers -> SUBSET Deliveries]
        /\ mem' \in [Workers -> [Deliveries -> Statuses]]
        /\ live' \in [Workers -> BOOLEAN]
        /\ current' \in [Workers -> Deliveries \cup {NoDelivery}]
    <3>1. d[2] \in Tokens
      BY <2>2 DEF Deliveries
    <3> QED BY <2>1, <2>2, <3>1 DEF TypeOK, CommitSending, Statuses
  <2>7. pc' \in [Workers -> {"idle", "materialize", "deliver", "send", "record", "retry"}]
    BY <2>1 DEF TypeOK, CommitSending
  <2>8. locked' \in [Workers -> SUBSET (Events \cup Deliveries)]
    BY <2>1 DEF TypeOK, CommitSending
  <2> QED BY <1>8, <2>4, <2>5, <2>6, <2>7, <2>8 DEF TypeOK, Attempt, witnesses
<1>9. ASSUME NEW w \in Workers, Retry(w) PROVE TypeOK'
  <2>2. current[w] \in Deliveries
    BY <1>9 DEF TypeOK, Retry
  <2>3. Written(w, current[w], "SENDING") \in Statuses
    BY <2>2 DEF Written, TypeOK, Statuses
  <2>4. status' \in [Deliveries -> Statuses] /\ stale' \subseteq {c \in Deliveries : status'[c] = "SENDING"}
    BY <1>9, <2>2, <2>3 DEF TypeOK, CommitSending, Retry
  <2> QED BY <1>9, <2>2, <2>4 DEF TypeOK, Retry, CommitSending, Statuses, witnesses
<1>10. ASSUME NEW w \in Workers, Disable(w) PROVE TypeOK'
  BY <1>10 DEF TypeOK, Disable, Lockable, Statuses, witnesses
<1>11. ASSUME NEW w \in Workers, Send(w) PROVE TypeOK'
  <2>2. current[w] \in Deliveries
    BY <1>11 DEF TypeOK, Send
  <2> QED BY <1>11, <2>2 DEF TypeOK, Send, tables
<1>12. ASSUME NEW w \in Workers, Record(w) PROVE TypeOK'
  <2>2. current[w] \in Deliveries /\ current[w][2] \in Tokens
    BY <1>12 DEF TypeOK, Record, Deliveries
  <2>3. Outcome(w) \in {"SENT", "INVALID_TOKEN", "FAILED"}
    BY DEF Outcome
  <2>4. Written(w, current[w], Outcome(w)) \in Statuses
    BY <2>2, <2>3 DEF Written, TypeOK, Statuses
  <2>5. status' \in [Deliveries -> Statuses] /\ stale' \subseteq {c \in Deliveries : status'[c] = "SENDING"}
    BY <1>12, <2>2, <2>4 DEF TypeOK, Record
  <2>6. try' \in [Workers -> 0..MaxRetries]
    BY <1>12 DEF TypeOK, Record, Retries
  <2>7. /\ mem' \in [Workers -> [Deliveries -> Statuses]]
        /\ current' \in [Workers -> Deliveries \cup {NoDelivery}]
        /\ live' \in [Workers -> BOOLEAN]
        /\ pc' \in [Workers -> {"idle", "materialize", "deliver", "send", "record", "retry"}]
        /\ \A v \in Workers : (current'[v] # NoDelivery) = (pc'[v] \in {"send", "record", "retry"})
    <3>1. CASE Retries(w)
      <4>1. pc' = [pc EXCEPT ![w] = "retry"] /\ current' = current /\ live' = live
        BY <1>12, <3>1 DEF Record
      <4>2. \A v \in Workers : (current'[v] # NoDelivery) = (pc'[v] \in {"send", "record", "retry"})
        BY <1>12, <4>1 DEF TypeOK, Record
      <4>3. mem' = [mem EXCEPT ![w][current[w]] = Outcome(w)]
        BY <1>12, <3>1 DEF Record
      <4>4. mem' \in [Workers -> [Deliveries -> Statuses]]
        BY <2>2, <2>3, <4>3 DEF TypeOK, Statuses
      <4> QED BY <4>1, <4>2, <4>4 DEF TypeOK
    <3>2. CASE ~Retries(w)
      <4>1. current' = [current EXCEPT ![w] = NoDelivery]
        BY <1>12, <3>2 DEF Record
      <4>2. pc'[w] \in {"idle", "deliver"} /\ \A v \in Workers \ {w} : pc'[v] = pc[v]
        BY <1>12, <3>2 DEF Record, TypeOK
      <4>3. \A v \in Workers : (current'[v] # NoDelivery) = (pc'[v] \in {"send", "record", "retry"})
        BY <4>1, <4>2 DEF TypeOK
      <4>4. mem' = [mem EXCEPT ![w][current[w]] = "NONE"]
        BY <1>12, <3>2 DEF Record
      <4>5. mem' \in [Workers -> [Deliveries -> Statuses]]
        BY <2>2, <4>4 DEF TypeOK, Statuses
      <4>6. /\ current' \in [Workers -> Deliveries \cup {NoDelivery}]
            /\ live' \in [Workers -> BOOLEAN]
            /\ pc' \in [Workers -> {"idle", "materialize", "deliver", "send", "record", "retry"}]
        BY <1>12, <3>2, ZenonT(30) DEF Record, TypeOK
      <4> QED BY <4>3, <4>5, <4>6
    <3> QED BY <3>1, <3>2
  <2>8. active' \in [Tokens -> BOOLEAN] /\ answer' \in [Workers -> Answers]
    BY <1>12, <2>2 DEF TypeOK, Record, Answers
  <2> QED BY <1>12, <2>5, <2>6, <2>7, <2>8 DEF TypeOK, Record, witnesses
<1>13. ASSUME NEW w \in Workers, Crash(w) PROVE TypeOK'
  <2>1. pc[w] = "record" => current[w] \in Deliveries
    BY DEF TypeOK
  <2> QED BY <1>13, <2>1 DEF TypeOK, Crash, Statuses, Answers, tables
<1> QED
  BY <1>1, <1>2, <1>3, <1>4, <1>5, <1>6, <1>7, <1>8, <1>9, <1>10, <1>11, <1>12, <1>13 DEF Next, Around, Drain
-----------------------------------------------------------------------------
(* What a step of w leaves of the other workers.                           *)
Others(w) == \A v \in Workers \ {w} :
  /\ pc'[v] = pc[v] /\ queue'[v] = queue[v] /\ current'[v] = current[v]
  /\ mem'[v] = mem[v] /\ answer'[v] = answer[v] /\ locked'[v] = locked[v]

(* The rows a worker has in hand.                                          *)
Rows(w) == queue[w] \cup ({current[w]} \ {NoDelivery})

LEMMA HandsAreApart ==
  ASSUME TypeOK, Hands, NEW v \in Workers, NEW w \in Workers, v # w
  PROVE  Rows(v) \cap Rows(w) = {}
<1>1. Apart(v, w) /\ Apart(w, v)
  BY DEF Hands
<1> QED BY <1>1 DEF Apart, Rows

(* A step that touches no row another worker has in hand, other than to    *)
(* take it off the stale ones, leaves that worker consistent.              *)
LEMMA OthersStayConsistent ==
  ASSUME TypeOK, Hands, NEW w, Others(w), NEW v \in Workers, v # w,
         \A d \in Rows(v) : status'[d] = status[d] /\ (d \in stale' => d \in stale),
         \A d \in Deliveries : got[d] > 0 => got'[d] > 0
  PROVE  InHand(v)'
<1>1. InHand(v)
  BY DEF Hands
<1>2. /\ pc'[v] = pc[v] /\ queue'[v] = queue[v] /\ current'[v] = current[v]
      /\ mem'[v] = mem[v] /\ answer'[v] = answer[v]
  BY DEF Others
<1>3. pc[v] \in {"send", "record", "retry"} => current[v] \in Rows(v) /\ current[v] \in Deliveries
  BY DEF TypeOK, Rows
<1>4. queue[v] \subseteq Rows(v)
  BY DEF Rows
<1> QED BY <1>1, <1>2, <1>3, <1>4 DEF InHand

(* A step of w that takes nothing in hand leaves the workers apart.        *)
LEMMA NothingTaken ==
  ASSUME TypeOK, Hands, NEW w \in Workers, Others(w),
         queue'[w] \subseteq queue[w],
         current'[w] \in queue[w] \cup {current[w], NoDelivery},
         \A v \in Workers \ {w} : queue'[w] \subseteq locked'[w],
         NEW u \in Workers, NEW v \in Workers, u # v
  PROVE  Apart(u, v)'
<1>1. Apart(u, v) /\ Apart(v, u)
  BY DEF Hands
<1>2. NoDelivery \notin queue[u] /\ NoDelivery \notin queue[v]
  BY PushOutboxAssumption DEF TypeOK
<1>3. CASE u # w /\ v # w
  BY <1>1, <1>3 DEF Apart, Others
<1>4. CASE u = w
  <2>1. queue'[v] = queue[v] /\ current'[v] = current[v] /\ locked'[v] = locked[v]
    BY <1>4 DEF Others
  <2>2. queue'[u] \subseteq locked'[u]
    BY <1>4
  <2> QED BY <1>1, <1>2, <1>4, <2>1, <2>2 DEF Apart
<1>5. CASE v = w
  <2>1. queue'[u] = queue[u] /\ current'[u] = current[u] /\ locked'[u] = locked[u]
    BY <1>5 DEF Others
  <2> QED BY <1>1, <1>2, <1>5, <2>1 DEF Apart
<1> QED BY <1>3, <1>4, <1>5

(* Of a batch of one nothing is left once its row is in hand.              *)
LEMMA RestOfTheBatch ==
  ASSUME ClaimsAreKept, TypeOK, Hands, NEW w \in Workers, NEW d \in queue[w],
         NEW v \in Workers, v # w
  PROVE  queue[w] \ {d} = {}
<1>1. Batch = 1
  BY DEF ClaimsAreKept
<1>2. InHand(w)
  BY DEF Hands
<1> QED BY <1>1, <1>2 DEF InHand

(* What is around the workers touches nothing they have in hand.           *)
LEMMA HandsAround ==
  ASSUME TypeOK, Hands, Around PROVE Hands'
<1>1. UNCHANGED <<pc, queue, current, mem, answer, locked, got>>
  BY DEF Around, AddEvent, Register, Unregister, Age, worker, witnesses
<1>2. status' = status
  BY DEF Around, AddEvent, Register, Unregister, Age
<1>3. ASSUME NEW w \in Workers, pc[w] \in {"send", "record"}, current[w] \in stale'
      PROVE  current[w] \in stale
  <2>1. CASE \E d \in Deliveries : Age(d)
    BY <1>3, <2>1 DEF Age, BeingSent
  <2>2. CASE ~\E d \in Deliveries : Age(d)
    BY <1>3, <2>2 DEF Around, AddEvent, Register, Unregister
  <2> QED BY <2>1, <2>2
<1>4. ASSUME NEW w \in Workers PROVE InHand(w)'
  <2>1. InHand(w)
    BY DEF Hands
  <2> QED BY <1>1, <1>2, <1>3, <2>1 DEF InHand
<1>5. ASSUME NEW v \in Workers, NEW w \in Workers, v # w PROVE Apart(v, w)'
  BY <1>1, <1>5 DEF Hands, Apart
<1> QED BY <1>4, <1>5 DEF Hands

LEMMA HandsMaterialize ==
  ASSUME TypeOK, Hands, NEW w \in Workers, DrainBegin(w) \/ Materialize(w) PROVE Hands'
<1>1. Others(w)
  BY DEF Others, DrainBegin, Materialize, TypeOK
<1>2. /\ queue[w] = {} /\ queue' = queue /\ current' = current /\ current[w] = NoDelivery
      /\ pc'[w] = "materialize" /\ stale' = stale /\ got' = got
  <2>1. InHand(w) /\ pc[w] \in {"idle", "materialize"}
    BY DEF Hands, DrainBegin, Materialize
  <2>2. queue[w] = {} /\ current[w] = NoDelivery
    BY <2>1 DEF InHand, TypeOK
  <2> QED BY <2>1, <2>2 DEF DrainBegin, Materialize, TypeOK, tables, witnesses
<1>3. \A d \in Deliveries : status[d] # "NONE" => status'[d] = status[d]
  BY DEF DrainBegin, Materialize, Missing, tables
<1>4. InHand(w)'
  BY <1>2, PushOutboxAssumption DEF InHand
<1>5. ASSUME NEW v \in Workers, v # w PROVE InHand(v)'
  <2>1. InHand(v)
    BY DEF Hands
  <2>2. \A d \in Rows(v) : d \in Deliveries /\ status[d] # "NONE"
    BY <2>1 DEF Rows, InHand, TypeOK
  <2> QED BY <1>1, <1>2, <1>3, <1>5, <2>2, OthersStayConsistent
<1>6. \A u, v \in Workers : u # v => Apart(u, v)'
  BY <1>1, <1>2, NothingTaken
<1> QED BY <1>4, <1>5, <1>6 DEF Hands

LEMMA HandsClaim ==
  ASSUME ClaimsAreKept, TypeOK, Hands, NEW w \in Workers, Claim(w) PROVE Hands'
<1>1. PICK S \in SUBSET Eligible(w) :
        /\ Cardinality(S) <= Batch
        /\ queue' = [queue EXCEPT ![w] = S]
        /\ locked' = [locked EXCEPT ![w] = S]
        /\ mem' = [mem EXCEPT ![w] = [d \in Deliveries |-> IF d \in S THEN status[d] ELSE "NONE"]]
        /\ pc' = [pc EXCEPT ![w] = IF S = {} THEN "idle" ELSE "deliver"]
  BY DEF Claim
<1>2. Others(w)
  BY <1>1 DEF Others, Claim, TypeOK
<1>3. /\ queue'[w] = S /\ locked'[w] = S /\ S \subseteq Deliveries
      /\ mem'[w] = [d \in Deliveries |-> IF d \in S THEN status[d] ELSE "NONE"]
      /\ current' = current /\ current[w] = NoDelivery
      /\ pc'[w] = IF S = {} THEN "idle" ELSE "deliver"
      /\ status' = status /\ stale' = stale /\ got' = got
  BY <1>1 DEF Claim, Eligible, TypeOK, tables, witnesses
<1>4. Batch = 1 => \A c, d \in S : c = d
  <2>1. IsFiniteSet(Deliveries)
    BY PushOutboxAssumption, FS_Product DEF Deliveries
  <2>2. IsFiniteSet(S)
    BY <1>3, <2>1, FS_Subset
  <2> SUFFICES ASSUME Batch = 1, NEW c \in S, NEW d \in S, c # d PROVE FALSE
    OBVIOUS
  <2>3. Cardinality(S) \in Nat /\ Cardinality(S \ {c}) = Cardinality(S) - 1
    BY <2>2, FS_RemoveElement, FS_CardinalityType
  <2>4. IsFiniteSet(S \ {c}) /\ S \ {c} # {}
    BY <2>2, FS_Subset
  <2>5. Cardinality(S \ {c}) # 0
    BY <2>4, FS_EmptySet
  <2>6. Cardinality(S) <= 1
    BY <1>1
  <2>7. Cardinality(S \ {c}) \in Nat
    BY <2>4, FS_CardinalityType
  <2> QED BY <2>3, <2>5, <2>6, <2>7
<1>5. \A d \in S : status[d] \in {"PENDING", "SENDING"}
  BY DEF Eligible
<1>6. InHand(w)'
  BY <1>3, <1>4, <1>5, PushOutboxAssumption DEF InHand
<1>7. ASSUME NEW v \in Workers, v # w PROVE InHand(v)'
  BY <1>2, <1>3, <1>7, OthersStayConsistent
<1>8. ASSUME NEW v \in Workers, v # w PROVE Rows(v) \cap S = {}
  <2>1. InHand(v) /\ queue[v] \subseteq locked[v]
    BY <1>8 DEF Hands, Apart
  <2>2. locked[v] \cap S = {}
    BY <1>8 DEF Eligible, LockedByOthers
  <2>3. current[v] # NoDelivery => current[v] \notin Eligible(w)
    BY <2>1 DEF InHand, TypeOK, Eligible
  <2> QED BY <2>1, <2>2, <2>3 DEF Rows
<1>9. ASSUME NEW u \in Workers, NEW v \in Workers, u # v PROVE Apart(u, v)'
  <2>1. NoDelivery \notin S
    BY <1>3, PushOutboxAssumption
  <2>2. CASE u # w /\ v # w
    BY <1>2, <1>9, <2>2 DEF Hands, Apart, Others
  <2>3. CASE u = w
    <3>1. queue'[v] = queue[v] /\ current'[v] = current[v] /\ Rows(v) \cap S = {}
      BY <1>2, <1>8, <1>9, <2>3 DEF Others
    <3>2. queue[v] \subseteq Deliveries
      BY DEF TypeOK
    <3> QED BY <1>3, <2>3, <3>1, <3>2, PushOutboxAssumption DEF Apart, Rows
  <2>4. CASE v = w
    <3>1. queue'[u] = queue[u] /\ current'[u] = current[u] /\ locked'[u] = locked[u] /\ Rows(u) \cap S = {}
      BY <1>2, <1>8, <1>9, <2>4 DEF Others
    <3>2. queue[u] \subseteq locked[u]
      BY <1>9 DEF Hands, Apart
    <3> QED BY <1>3, <2>1, <2>4, <3>1, <3>2 DEF Apart, Rows
  <2> QED BY <2>2, <2>3, <2>4
<1> QED BY <1>6, <1>7, <1>9 DEF Hands

(* The row in hand is committed as SENDING.                                *)
LEMMA WrittenSending ==
  ASSUME TypeOK, NEW w \in Workers, NEW d \in Deliveries, mem[w][d] = status[d],
         CommitSending(w, d)
  PROVE  /\ status'[d] = "SENDING" /\ mem'[w][d] = "SENDING" /\ d \notin stale'
         /\ \A c \in Deliveries \ {d} : status'[c] = status[c] /\ mem'[w][c] = mem[w][c]
         /\ stale' \subseteq stale /\ pc'[w] = "send" /\ locked'[w] = {}
<1>1. Written(w, d, "SENDING") = "SENDING"
  BY DEF Written
<1>2. mem[w] \in [Deliveries -> Statuses] /\ mem'[w] = [mem[w] EXCEPT ![d] = "SENDING"]
  BY DEF CommitSending, TypeOK
<1> QED BY <1>1, <1>2 DEF CommitSending, TypeOK

LEMMA HandsAttempt ==
  ASSUME ClaimsAreKept, TypeOK, Hands, NEW w \in Workers, Attempt(w) PROVE Hands'
<1>1. PICK d \in Lockable(w) :
        /\ CommitSending(w, d)
        /\ current' = [current EXCEPT ![w] = d]
        /\ queue' = [queue EXCEPT ![w] = @ \ {d}]
  BY DEF Attempt
<1>2. Others(w)
  BY <1>1 DEF Others, Attempt, CommitSending, TypeOK
<1>3. d \in queue[w] /\ d \in Deliveries /\ InHand(w)
  BY DEF Lockable, TypeOK, Hands
<1>4. mem[w][d] = status[d]
  BY <1>3 DEF InHand
<1>5. /\ status'[d] = "SENDING" /\ mem'[w][d] = "SENDING" /\ d \notin stale'
      /\ \A c \in Deliveries \ {d} : status'[c] = status[c] /\ mem'[w][c] = mem[w][c]
      /\ stale' \subseteq stale /\ pc'[w] = "send"
  BY <1>1, <1>3, <1>4, WrittenSending
<1>6. queue'[w] = queue[w] \ {d} /\ current'[w] = d /\ got' = got /\ queue[w] \subseteq Deliveries
  BY <1>1 DEF Attempt, TypeOK, witnesses
<1>7. InHand(w)'
  BY <1>3, <1>5, <1>6 DEF InHand
<1>8. ASSUME NEW v \in Workers, v # w PROVE InHand(v)'
  <2>1. d \in Rows(w) /\ Rows(v) \cap Rows(w) = {}
    BY <1>3, <1>8, HandsAreApart DEF Rows
  <2>2. Rows(v) \subseteq Deliveries
    BY DEF Rows, TypeOK
  <2>3. \A c \in Rows(v) : status'[c] = status[c] /\ (c \in stale' => c \in stale)
    BY <1>5, <2>1, <2>2
  <2> QED BY <1>2, <1>6, <1>8, <2>3, OthersStayConsistent
<1>9. \A v \in Workers \ {w} : queue'[w] \subseteq locked'[w]
  BY <1>3, <1>6, RestOfTheBatch
<1>10. \A u, v \in Workers : u # v => Apart(u, v)'
  BY <1>2, <1>3, <1>6, <1>9, NothingTaken
<1> QED BY <1>7, <1>8, <1>10 DEF Hands

LEMMA HandsRetry ==
  ASSUME ClaimsAreKept, TypeOK, Hands, NEW w \in Workers, Retry(w) PROVE Hands'
<1>1. CommitSending(w, current[w]) /\ pc[w] = "retry" /\ got' = got /\ current' = current /\ queue' = queue
  BY DEF Retry, witnesses
<1>2. Others(w)
  BY <1>1 DEF Others, Retry, CommitSending, TypeOK
<1>3. current[w] \in Deliveries /\ InHand(w)
  BY <1>1 DEF TypeOK, Hands
<1>4. mem[w][current[w]] = status[current[w]]
  BY <1>1, <1>3 DEF InHand
<1>5. /\ status'[current[w]] = "SENDING" /\ mem'[w][current[w]] = "SENDING" /\ current[w] \notin stale'
      /\ \A c \in Deliveries \ {current[w]} : status'[c] = status[c] /\ mem'[w][c] = mem[w][c]
      /\ stale' \subseteq stale /\ pc'[w] = "send" /\ locked'[w] = {}
  BY <1>1, <1>3, <1>4, WrittenSending
<1>6. queue[w] \subseteq Deliveries
  BY DEF TypeOK
<1>7. InHand(w)'
  BY <1>1, <1>3, <1>5, <1>6 DEF InHand
<1>8. ASSUME NEW v \in Workers, v # w PROVE InHand(v)'
  <2>1. current[w] \in Rows(w) /\ Rows(v) \cap Rows(w) = {}
    BY <1>3, <1>8, HandsAreApart, PushOutboxAssumption DEF Rows
  <2>2. Rows(v) \subseteq Deliveries
    BY DEF Rows, TypeOK
  <2>3. \A c \in Rows(v) : status'[c] = status[c] /\ (c \in stale' => c \in stale)
    BY <1>5, <2>1, <2>2
  <2> QED BY <1>1, <1>2, <1>8, <2>3, OthersStayConsistent
<1>9. ASSUME NEW v \in Workers \ {w} PROVE queue'[w] \subseteq locked'[w]
  <2>1. Batch = 1
    BY <1>9 DEF ClaimsAreKept
  <2> QED BY <1>1, <1>3, <2>1, PushOutboxAssumption DEF InHand
<1>10. \A u, v \in Workers : u # v => Apart(u, v)'
  BY <1>1, <1>2, <1>9, NothingTaken
<1> QED BY <1>7, <1>8, <1>10 DEF Hands

LEMMA HandsDisable ==
  ASSUME ClaimsAreKept, TypeOK, Hands, NEW w \in Workers, Disable(w) PROVE Hands'
<1>1. PICK d \in Lockable(w) :
        /\ status' = [status EXCEPT ![d] = "DISABLED"]
        /\ stale' = stale \ {d}
        /\ mem' = [mem EXCEPT ![w][d] = "NONE"]
        /\ queue' = [queue EXCEPT ![w] = @ \ {d}]
        /\ pc' = [pc EXCEPT ![w] = IF queue[w] = {d} THEN "idle" ELSE "deliver"]
  BY DEF Disable
<1>2. Others(w)
  BY <1>1 DEF Others, Disable, TypeOK
<1>3. d \in queue[w] /\ d \in Deliveries /\ InHand(w) /\ pc[w] = "deliver"
  BY DEF Lockable, TypeOK, Hands, Disable
<1>4. /\ queue'[w] = queue[w] \ {d} /\ queue[w] \subseteq Deliveries
      /\ current' = current /\ current[w] = NoDelivery
      /\ pc'[w] = (IF queue[w] = {d} THEN "idle" ELSE "deliver") /\ got' = got
  BY <1>1, <1>3 DEF Disable, TypeOK, witnesses
<1>5. \A c \in Deliveries \ {d} : status'[c] = status[c] /\ mem'[w][c] = mem[w][c]
  BY <1>1, <1>3 DEF TypeOK
<1>6. InHand(w)'
  BY <1>3, <1>4, <1>5, PushOutboxAssumption DEF InHand
<1>7. ASSUME NEW v \in Workers, v # w PROVE InHand(v)'
  <2>1. d \in Rows(w) /\ Rows(v) \cap Rows(w) = {}
    BY <1>3, <1>7, HandsAreApart DEF Rows
  <2>2. Rows(v) \subseteq Deliveries
    BY DEF Rows, TypeOK
  <2>3. \A c \in Rows(v) : status'[c] = status[c] /\ (c \in stale' => c \in stale)
    BY <1>1, <1>5, <2>1, <2>2
  <2> QED BY <1>2, <1>4, <1>7, <2>3, OthersStayConsistent
<1>8. \A v \in Workers \ {w} : queue'[w] \subseteq locked'[w]
  BY <1>3, <1>4, RestOfTheBatch
<1>9. \A u, v \in Workers : u # v => Apart(u, v)'
  BY <1>2, <1>4, <1>8, NothingTaken
<1> QED BY <1>6, <1>7, <1>9 DEF Hands

LEMMA HandsSend ==
  ASSUME TypeOK, Hands, NEW w \in Workers, Send(w) PROVE Hands'
<1>1. PICK a \in Answers, received \in BOOLEAN :
        /\ a = "success" => received
        /\ answer' = [answer EXCEPT ![w] = a]
        /\ got' = IF received THEN [got EXCEPT ![current[w]] = @ + 1] ELSE got
  BY DEF Send
<1>2. Others(w)
  BY <1>1 DEF Others, Send, TypeOK
<1>3. /\ pc[w] = "send" /\ pc'[w] = "record" /\ current[w] \in Deliveries
      /\ UNCHANGED <<status, stale, queue, current, mem, locked>> /\ answer'[w] = a
  BY <1>1 DEF Send, TypeOK, tables
<1>4. InHand(w) /\ \A v \in Workers \ {w} : queue[w] \subseteq locked[w]
  BY DEF Hands, Apart
<1>5. \A c \in Deliveries : got[c] > 0 => got'[c] > 0
  BY <1>1, <1>3 DEF TypeOK
<1>6. a = "success" => got'[current[w]] > 0
  BY <1>1, <1>3 DEF TypeOK
<1>7. InHand(w)'
  BY <1>3, <1>4, <1>6 DEF InHand
<1>8. \A v \in Workers : v # w => InHand(v)'
  BY <1>2, <1>3, <1>5, OthersStayConsistent
<1>9. \A u, v \in Workers : u # v => Apart(u, v)'
  BY <1>2, <1>3, <1>4, NothingTaken
<1> QED BY <1>7, <1>8, <1>9 DEF Hands

(* What is recorded of the row in hand.                                    *)
LEMMA WrittenOutcome ==
  ASSUME TypeOK, Hands, NEW w \in Workers, Record(w)
  PROVE  /\ pc[w] = "record" /\ current[w] \in Deliveries /\ InHand(w)
         /\ status'[current[w]] = Outcome(w)
         /\ \A c \in Deliveries \ {current[w]} : status'[c] = status[c] /\ mem'[w][c] = mem[w][c]
         /\ stale' \subseteq stale /\ got' = got /\ queue' = queue /\ locked' = locked
         /\ \/ /\ pc'[w] = "retry" /\ current'[w] = current[w]
               /\ mem'[w][current[w]] = "FAILED" /\ Outcome(w) = "FAILED"
            \/ /\ pc'[w] = (IF queue[w] = {} THEN "idle" ELSE "deliver")
               /\ current'[w] = NoDelivery
<1>1. pc[w] = "record" /\ current[w] \in Deliveries /\ InHand(w)
  BY DEF TypeOK, Hands, Record
<1>2. Outcome(w) \in {"SENT", "INVALID_TOKEN", "FAILED"}
  BY DEF Outcome
<1>3. Written(w, current[w], Outcome(w)) = Outcome(w)
  BY <1>1, <1>2 DEF InHand, Written
<1>4. /\ status'[current[w]] = Outcome(w)
      /\ \A c \in Deliveries \ {current[w]} : status'[c] = status[c]
      /\ stale' \subseteq stale /\ got' = got /\ queue' = queue /\ locked' = locked
  BY <1>1, <1>3 DEF Record, TypeOK, witnesses
<1>5. CASE Retries(w)
  <2>1. /\ pc' = [pc EXCEPT ![w] = "retry"] /\ current' = current
        /\ mem' = [mem EXCEPT ![w][current[w]] = Outcome(w)]
    BY <1>5 DEF Record
  <2>2. Outcome(w) = "FAILED"
    BY <1>5 DEF Retries, Outcome
  <2>3. mem'[w] = [mem[w] EXCEPT ![current[w]] = Outcome(w)] /\ mem[w] \in [Deliveries -> Statuses]
    BY <2>1 DEF TypeOK
  <2>4. pc'[w] = "retry"
    BY <2>1 DEF TypeOK
  <2> QED BY <1>1, <1>4, <2>1, <2>2, <2>3, <2>4
<1>6. CASE ~Retries(w)
  <2>1. /\ pc' = [pc EXCEPT ![w] = IF queue[w] = {} THEN "idle" ELSE "deliver"]
        /\ current' = [current EXCEPT ![w] = NoDelivery]
        /\ mem' = [mem EXCEPT ![w][current[w]] = "NONE"]
    BY <1>6 DEF Record
  <2>2. mem'[w] = [mem[w] EXCEPT ![current[w]] = "NONE"] /\ mem[w] \in [Deliveries -> Statuses]
    BY <2>1 DEF TypeOK
  <2>3. pc'[w] = (IF queue[w] = {} THEN "idle" ELSE "deliver") /\ current'[w] = NoDelivery
    BY <2>1 DEF TypeOK
  <2> QED BY <1>1, <1>4, <2>2, <2>3
<1> QED BY <1>5, <1>6

LEMMA HandsRecord ==
  ASSUME TypeOK, Hands, NEW w \in Workers, Record(w) PROVE Hands'
<1>1. /\ pc[w] = "record" /\ current[w] \in Deliveries /\ InHand(w)
      /\ status'[current[w]] = Outcome(w)
      /\ \A c \in Deliveries \ {current[w]} : status'[c] = status[c] /\ mem'[w][c] = mem[w][c]
      /\ stale' \subseteq stale /\ got' = got /\ queue' = queue /\ locked' = locked
      /\ \/ /\ pc'[w] = "retry" /\ current'[w] = current[w]
            /\ mem'[w][current[w]] = "FAILED" /\ Outcome(w) = "FAILED"
         \/ /\ pc'[w] = (IF queue[w] = {} THEN "idle" ELSE "deliver")
            /\ current'[w] = NoDelivery
  BY WrittenOutcome
<1>2. Others(w)
  BY DEF Others, Record, TypeOK
<1>3. queue[w] \subseteq Deliveries /\ \A v \in Workers \ {w} : queue[w] \subseteq locked[w]
  BY DEF TypeOK, Hands, Apart
<1>4. InHand(w)'
  BY <1>1, <1>3, PushOutboxAssumption DEF InHand
<1>5. ASSUME NEW v \in Workers, v # w PROVE InHand(v)'
  <2>1. current[w] \in Rows(w) /\ Rows(v) \cap Rows(w) = {}
    BY <1>1, <1>5, HandsAreApart, PushOutboxAssumption DEF Rows
  <2>2. Rows(v) \subseteq Deliveries
    BY DEF Rows, TypeOK
  <2>3. \A c \in Rows(v) : status'[c] = status[c] /\ (c \in stale' => c \in stale)
    BY <1>1, <2>1, <2>2
  <2> QED BY <1>1, <1>2, <1>5, <2>3, OthersStayConsistent
<1>6. \A u, v \in Workers : u # v => Apart(u, v)'
  BY <1>1, <1>2, <1>3, NothingTaken
<1> QED BY <1>4, <1>5, <1>6 DEF Hands

LEMMA HandsCrash ==
  ASSUME TypeOK, Hands, NEW w \in Workers, Crash(w) PROVE Hands'
<1>1. Others(w)
  BY DEF Others, Crash, TypeOK
<1>2. /\ pc'[w] = "idle" /\ queue'[w] = {} /\ current'[w] = NoDelivery
      /\ UNCHANGED <<status, stale, got>>
  BY DEF Crash, TypeOK, tables
<1>3. InHand(w)'
  BY <1>2 DEF InHand
<1>4. \A v \in Workers : v # w => InHand(v)'
  BY <1>1, <1>2, OthersStayConsistent
<1>5. \A u, v \in Workers : u # v => Apart(u, v)'
  BY <1>1, <1>2, NothingTaken
<1> QED BY <1>3, <1>4, <1>5 DEF Hands

LEMMA HandsStep == ClaimsAreKept /\ TypeOK /\ Hands /\ [Next]_vars => Hands'
<1> SUFFICES ASSUME ClaimsAreKept, TypeOK, Hands, [Next]_vars PROVE Hands'
  OBVIOUS
<1>1. CASE UNCHANGED vars
  BY <1>1 DEF vars, tables, worker, witnesses, Hands, InHand, Apart
<1>2. CASE Around
  BY <1>2, HandsAround
<1>3. ASSUME NEW w \in Workers, Drain(w) \/ Crash(w) PROVE Hands'
  BY <1>3, HandsMaterialize, HandsClaim, HandsAttempt, HandsRetry, HandsDisable, HandsSend,
     HandsRecord, HandsCrash DEF Drain
<1> QED BY <1>1, <1>2, <1>3 DEF Next

-----------------------------------------------------------------------------
(* A step that writes SENT nowhere, and nowhere over it, and that brings   *)
(* the device nothing, keeps account of what arrived.                      *)
LEMMA ArrivedKept ==
  ASSUME TypeOK, TypeOK', \A d \in Deliveries : Arrived(d), got' = got, unsure \subseteq unsure',
         \A d \in Deliveries : status[d] = "SENT" <=> status'[d] = "SENT",
         \A d \in Deliveries, w \in Workers : Recording(w, d) => Recording(w, d)' \/ d \in unsure',
         NEW d \in Deliveries
  PROVE  Arrived(d)'
  BY DEF Arrived

LEMMA ArrivedSend ==
  ASSUME TypeOK, TypeOK', Hands, \A d \in Deliveries : Arrived(d), NEW w \in Workers, Send(w),
         NEW d \in Deliveries
  PROVE  Arrived(d)'
<1>1. PICK a \in Answers, received \in BOOLEAN :
        /\ a = "success" => received
        /\ answer' = [answer EXCEPT ![w] = a]
        /\ got' = IF received THEN [got EXCEPT ![current[w]] = @ + 1] ELSE got
        /\ unsure' = IF received /\ a # "success" THEN unsure \cup {current[w]} ELSE unsure
  BY DEF Send
<1>2. /\ pc[w] = "send" /\ pc' = [pc EXCEPT ![w] = "record"] /\ current[w] \in Deliveries
      /\ status' = status /\ current' = current /\ InHand(w)
  BY DEF Send, TypeOK, Hands, tables
<1>3. Arrived(d)
  OBVIOUS
<1>4. \A v \in Workers : Recording(v, d) => Recording(v, d)'
  BY <1>1, <1>2 DEF Recording, TypeOK
<1>5. CASE d # current[w] \/ ~received
  <2>1. got'[d] = got[d] /\ (d \in unsure' <=> d \in unsure)
    BY <1>1, <1>2, <1>5 DEF TypeOK
  <2> QED BY <1>2, <1>3, <1>4, <2>1 DEF Arrived
<1>6. CASE d = current[w] /\ received
  <2>1. status[d] = "SENDING"
    BY <1>2, <1>6 DEF InHand
  <2>2. ~\E v \in Workers : Recording(v, d)
    <3> SUFFICES ASSUME NEW v \in Workers, Recording(v, d) PROVE FALSE
      OBVIOUS
    <3>1. v # w
      BY <1>2 DEF Recording
    <3> QED BY <1>2, <1>6, <3>1, PushOutboxAssumption DEF Hands, Apart, Recording
  <2>3. got[d] > 0 => d \in unsure
    BY <1>3, <2>1, <2>2 DEF Arrived
  <2>4. got'[d] = got[d] + 1 /\ got[d] \in Nat
    BY <1>1, <1>6 DEF TypeOK
  <2>5. got'[d] > 0 /\ (got'[d] > 1 => d \in unsure')
    BY <1>1, <2>3, <2>4
  <2>6. a = "success" => Recording(w, d)'
    BY <1>1, <1>2, <1>6 DEF Recording, TypeOK
  <2>7. a # "success" => d \in unsure'
    BY <1>1, <1>6
  <2> QED BY <1>2, <2>1, <2>5, <2>6, <2>7 DEF Arrived
<1> QED BY <1>5, <1>6

LEMMA ArrivedRecord ==
  ASSUME TypeOK, TypeOK', Hands, \A d \in Deliveries : Arrived(d), NEW w \in Workers, Record(w),
         NEW d \in Deliveries
  PROVE  Arrived(d)'
<1>1. /\ pc[w] = "record" /\ current[w] \in Deliveries /\ InHand(w)
      /\ status'[current[w]] = Outcome(w) /\ got' = got
      /\ \A c \in Deliveries \ {current[w]} : status'[c] = status[c]
  BY WrittenOutcome
<1>2. unsure' = unsure /\ Arrived(d)
  BY DEF Record, witnesses
<1>3. ASSUME NEW v \in Workers, v # w, Recording(v, d) PROVE Recording(v, d)'
  BY <1>3 DEF Recording, Record, TypeOK
<1>4. CASE d # current[w]
  <2>1. ~Recording(w, d)
    BY <1>4 DEF Recording
  <2> QED BY <1>1, <1>2, <1>3, <1>4, <2>1 DEF Arrived
<1>5. CASE d = current[w]
  <2>1. status[d] = "SENDING"
    BY <1>1, <1>5 DEF InHand
  <2>2. \A v \in Workers : Recording(v, d) => v = w
    BY <1>1, <1>5, PushOutboxAssumption DEF Recording, Hands, Apart
  <2>3. CASE answer[w] = "success"
    <3>1. Outcome(w) = "SENT"
      BY <2>3 DEF Outcome
    <3>2. got[d] > 0
      BY <1>1, <1>5, <2>3 DEF InHand
    <3> QED BY <1>1, <1>2, <1>5, <3>1, <3>2 DEF Arrived
  <2>4. CASE answer[w] # "success"
    <3>1. Outcome(w) # "SENT"
      BY <2>4 DEF Outcome
    <3>2. got[d] > 0 => d \in unsure
      BY <1>2, <2>1, <2>2, <2>4 DEF Arrived, Recording
    <3> QED BY <1>1, <1>2, <1>5, <3>1, <3>2 DEF Arrived
  <2> QED BY <2>3, <2>4
<1> QED BY <1>4, <1>5

LEMMA ArrivedStep ==
  ASSUME TypeOK, TypeOK', Hands, \A d \in Deliveries : Arrived(d), [Next]_vars,
         NEW d \in Deliveries
  PROVE  Arrived(d)'
<1>1. CASE UNCHANGED vars
  BY <1>1 DEF vars, tables, worker, witnesses, Arrived, Recording
<1>2. CASE Around
  <2>1. UNCHANGED <<pc, current, answer, got, unsure, status>>
    BY <1>2 DEF Around, AddEvent, Register, Unregister, Age, worker, witnesses
  <2> QED BY <2>1 DEF Arrived, Recording
<1>3. ASSUME NEW w \in Workers,
             DrainBegin(w) \/ Materialize(w) \/ Claim(w) \/ Attempt(w) \/ Retry(w) \/ Disable(w)
      PROVE  Arrived(d)'
  <2>1. got' = got /\ unsure' = unsure /\ answer' = answer
    BY <1>3 DEF DrainBegin, Materialize, Claim, Attempt, Retry, Disable, witnesses
  <2>2. pc[w] # "record"
    BY <1>3 DEF DrainBegin, Materialize, Claim, Attempt, Retry, Disable
  <2>3. \A v \in Workers \ {w} : pc'[v] = pc[v] /\ current'[v] = current[v]
    BY <1>3 DEF DrainBegin, Materialize, Claim, Attempt, Retry, CommitSending, Disable, TypeOK
  <2>4. ASSUME NEW c \in Deliveries, NEW v \in Workers, Recording(v, c) PROVE Recording(v, c)'
    BY <2>1, <2>2, <2>3, <2>4 DEF Recording
  <2>5. \A c \in Deliveries : status[c] = "SENT" <=> status'[c] = "SENT"
    <3>1. CASE DrainBegin(w) \/ Claim(w)
      BY <3>1 DEF DrainBegin, Claim, tables
    <3>2. CASE Materialize(w)
      BY <3>2 DEF Materialize, Missing, TypeOK
    <3>3. CASE Attempt(w)
      <4>1. PICK c \in Lockable(w) : CommitSending(w, c)
        BY <3>3 DEF Attempt
      <4>2. c \in Deliveries /\ status[c] \in {"PENDING", "SENDING"} /\ mem[w][c] = status[c]
        BY DEF Lockable, Hands, InHand, TypeOK
      <4> QED BY <4>1, <4>2, WrittenSending
    <3>4. CASE Retry(w)
      <4>1. /\ current[w] \in Deliveries /\ status[current[w]] = "FAILED"
            /\ mem[w][current[w]] = "FAILED" /\ CommitSending(w, current[w])
        BY <3>4 DEF Retry, Hands, InHand, TypeOK
      <4> QED BY <4>1, WrittenSending
    <3>5. CASE Disable(w)
      <4>1. PICK c \in Lockable(w) : status' = [status EXCEPT ![c] = "DISABLED"]
        BY <3>5 DEF Disable
      <4>2. c \in Deliveries /\ status[c] \in {"PENDING", "SENDING"}
        BY DEF Lockable, Hands, InHand, TypeOK
      <4> QED BY <4>1, <4>2 DEF TypeOK
    <3> QED BY <1>3, <3>1, <3>2, <3>3, <3>4, <3>5
  <2> QED BY <2>1, <2>4, <2>5, ArrivedKept
<1>4. ASSUME NEW w \in Workers, Crash(w) PROVE Arrived(d)'
  <2>1. got' = got /\ status' = status /\ unsure \subseteq unsure'
    BY <1>4 DEF Crash, tables
  <2>2. \A v \in Workers \ {w} : pc'[v] = pc[v] /\ current'[v] = current[v] /\ answer'[v] = answer[v]
    BY <1>4 DEF Crash, TypeOK
  <2>3. ASSUME NEW c \in Deliveries, NEW v \in Workers, Recording(v, c)
        PROVE  Recording(v, c)' \/ c \in unsure'
    BY <1>4, <2>2, <2>3 DEF Recording, Crash
  <2> QED BY <2>1, <2>3, ArrivedKept
<1> QED
  BY <1>1, <1>2, <1>3, <1>4, ArrivedSend, ArrivedRecord DEF Next, Drain

-----------------------------------------------------------------------------
LEMMA OutboxStep == ClaimsAreKept /\ OutboxInv /\ [Next]_vars => OutboxInv'
<1> SUFFICES ASSUME ClaimsAreKept, OutboxInv, [Next]_vars PROVE OutboxInv'
  OBVIOUS
<1>1. TypeOK'
  BY TypeStep DEF OutboxInv
<1>2. Hands'
  BY HandsStep DEF OutboxInv
<1>3. \A d \in Deliveries : Arrived(d)'
  BY <1>1, ArrivedStep DEF OutboxInv
<1> QED BY <1>1, <1>2, <1>3 DEF OutboxInv

(* The rows, and what the workers remember of them, have the shape the     *)
(* model gives them, whatever the size of the batches.                     *)
THEOREM OutboxTypes == Spec => []TypeOK
<1>1. Init => TypeOK
  BY InitHolds DEF OutboxInv
<1> QED BY <1>1, TypeStep, PTL DEF Spec

(* drain_outbox: with batches of one, or one process that drains, what     *)
(* workers have claimed and remember agrees with the table, and what       *)
(* arrived is accounted for.                                               *)
THEOREM OutboxInvariant == ASSUME ClaimsAreKept PROVE Spec => []OutboxInv
<1>1. OutboxInv /\ [Next]_vars => OutboxInv'
  BY OutboxStep
<1> QED BY <1>1, InitHolds, PTL DEF Spec

(* deliver_single_delivery: under the same condition, no two workers send  *)
(* the same delivery.                                                      *)
THEOREM DeliveriesHaveOneSender == ASSUME ClaimsAreKept PROVE Spec => []OneSender
<1>1. OutboxInv => OneSender
  BY DEF OutboxInv, Hands, Apart, OneSender
<1> QED BY <1>1, OutboxInvariant, PTL

(* AT_LEAST_ONCE_WITH_AMBIGUOUS_DUPLICATE_WINDOW: under the same condition,*)
(* a device gets a notification again only if it was not known to have got *)
(* it, and SENT says it has.                                               *)
THEOREM DuplicatesFollowAmbiguity == ASSUME ClaimsAreKept PROVE Spec => []DuplicatesAreAmbiguous
<1>1. OutboxInv => DuplicatesAreAmbiguous
  BY DEF OutboxInv, Arrived, DuplicatesAreAmbiguous
<1> QED BY <1>1, OutboxInvariant, PTL

-----------------------------------------------------------------------------
(* The data quality monitoring: how often an anomaly is notified.          *)

\* The severity of an anomaly is a matter of its type, dataset and scope.
SeverityOf(k) ==
    IF k[1] = "DATASET_FAILED" /\ k[2] = "SECURITY_MASTER" /\ k[3] = "GLOBAL" THEN "CRITICAL"
    ELSE IF k[1] \in {"DATASET_PARTIAL", "DATASET_STALE"} THEN "WARNING"
    ELSE IF k[1] = "DATASET_NO_DATA" /\ k[3] = "TAIFEX" THEN "WARNING"
    ELSE "ERROR"

HasSeverity(a) == a.severity = SeverityOf(a.key)

LEMMA SeveritiesAreFixed ==
  ASSUME NEW r, NEW runs, NEW a \in ExtractAnomalies(r, runs)
  PROVE  HasSeverity(a)
<1>1. CASE a \in RunAnomalies(runs)
  BY <1>1 DEF RunAnomalies, Anomaly, HasSeverity, SeverityOf
<1>2. CASE a \in MasterAnomalies(r)
  BY <1>2 DEF MasterAnomalies, Raised, TypeOf, Anomaly, HasSeverity, SeverityOf
<1>3. CASE a \in PriceAnomalies(r)
  BY <1>3 DEF PriceAnomalies, Raised, TypeOf, Anomaly, HasSeverity, SeverityOf
<1>4. CASE a \in SpotAnomalies(r)
  BY <1>4 DEF SpotAnomalies, Raised, TypeOf, Anomaly, HasSeverity, SeverityOf
<1>5. CASE a \in DerivativeAnomalies(r)
  <2>1. PICK d \in DOMAIN r.derivatives :
          a \in Raised(d, "TAIFEX", r.derivatives[d],
                  [FAILED |-> "ERROR", PARTIAL |-> "WARNING", NO_DATA |-> "WARNING"])
    BY <1>5 DEF DerivativeAnomalies
  <2> QED
    BY <2>1 DEF Raised, TypeOf, Anomaly, HasSeverity, SeverityOf
<1>6. CASE a \in TechnicalAnomalies(r)
  BY <1>6 DEF TechnicalAnomalies, Raised, TypeOf, Anomaly, HasSeverity, SeverityOf
<1>7. CASE a \in IndustryAnomalies(r)
  BY <1>7 DEF IndustryAnomalies, Raised, TypeOf, Anomaly, HasSeverity, SeverityOf
<1>8. CASE a \in DuplicateAnomalies(r)
  BY <1>8 DEF DuplicateAnomalies, Anomaly, HasSeverity, SeverityOf
<1> QED
  BY <1>1, <1>2, <1>3, <1>4, <1>5, <1>6, <1>7, <1>8 DEF ExtractAnomalies

LEMMA RanksAreOrdered == \A k : SeverityRank[SeverityOf(k)] \in Int
BY DEF SeverityRank, SeverityOf

-----------------------------------------------------------------------------
(* The invariant.  What an evaluation has read of an anomaly may have it   *)
(* notify again, although another evaluation has done so since: each can   *)
(* do so once, and none that reads the record afterwards will.             *)

AnomalyRecord ==
    [severity : {"INFO", "WARNING", "ERROR", "CRITICAL"}, status : {"ACTIVE", "RESOLVED"},
     cooling : BOOLEAN, alarms : Nat]

\* An anomaly of which a further sighting is notified.
Due(r) == r.status = "RESOLVED" \/ ~r.cooling

\* The evaluations that will notify k if they detect it.
DueFor(k) ==
    {m \in Monitors : mon[m].pc = "read" /\ k \in DOMAIN mon[m].known /\ Due(mon[m].known[k])}

MonitorsInv ==
    /\ mon = [m \in Monitors |-> mon[m]]
    /\ \A m \in Monitors :
          mon[m] = [pc |-> mon[m].pc, report |-> mon[m].report,
                    failed |-> mon[m].failed, known |-> mon[m].known]

ReadInv ==
    \A m \in Monitors : mon[m].pc = "read" =>
        \A k \in DOMAIN mon[m].known :
            k \in DOMAIN records /\ mon[m].known[k].severity = SeverityOf(k)

RecordInv ==
    \A k \in DOMAIN records :
        /\ records[k] \in AnomalyRecord
        /\ records[k].severity = SeverityOf(k)
        /\ Due(records[k]) => records[k].alarms = 0

ShareInv ==
    \A k \in DOMAIN records :
        records[k].alarms + Cardinality(DueFor(k)) <= Cardinality(Monitors)

MonitorInv == MonitorsInv /\ ReadInv /\ RecordInv /\ ShareInv

LEMMA DueForIsFinite ==
  ASSUME NEW S \in SUBSET Monitors
  PROVE  /\ IsFiniteSet(S) /\ Cardinality(S) \in Nat /\ Cardinality(Monitors) \in Nat
         /\ Cardinality(S) <= Cardinality(Monitors)
         /\ \A T \in SUBSET S : Cardinality(T) \in Nat /\ Cardinality(T) <= Cardinality(S)
         /\ \A m \in S : Cardinality(S \ {m}) = Cardinality(S) - 1
BY MonitoringAssumption, FS_Subset, FS_CardinalityType, FS_RemoveElement DEF MonitoringAssumption

LEMMA MonitorInit == MInit => MonitorInv
<1> SUFFICES ASSUME MInit PROVE MonitorInv
  OBVIOUS
<1>1. records = <<>> /\ DOMAIN records = {} /\ mon = [m \in Monitors |-> NotStarted]
  BY DEF MInit
<1>2. MonitorsInv /\ ReadInv
  BY <1>1 DEF NotStarted, MonitorsInv, ReadInv
<1>3. RecordInv /\ ShareInv
  BY <1>1 DEF RecordInv, ShareInv
<1> QED
  BY <1>2, <1>3 DEF MonitorInv

\* Fewer evaluations about to notify, and no more alarms.
LEMMA FewerAreDue ==
  ASSUME ShareInv, RecordInv, NEW k \in DOMAIN records, NEW T \in SUBSET DueFor(k),
         NEW n \in Nat, n <= records[k].alarms
  PROVE  n + Cardinality(T) <= Cardinality(Monitors)
<1>1. DueFor(k) \in SUBSET Monitors
  BY DEF DueFor
<1>2. /\ Cardinality(T) \in Nat /\ Cardinality(DueFor(k)) \in Nat /\ Cardinality(Monitors) \in Nat
      /\ Cardinality(T) <= Cardinality(DueFor(k))
  BY <1>1, DueForIsFinite
<1>3. records[k].alarms \in Nat
  BY DEF RecordInv, AnomalyRecord
<1> QED
  BY <1>2, <1>3 DEF ShareInv

LEMMA CooledDown ==
  ASSUME NEW r \in AnomalyRecord, NEW c, c = [r EXCEPT !.cooling = FALSE, !.alarms = 0]
  PROVE  c \in AnomalyRecord /\ c.severity = r.severity /\ c.alarms = 0 /\ c.alarms <= r.alarms
<1>1. PICK sv \in {"INFO", "WARNING", "ERROR", "CRITICAL"}, st \in {"ACTIVE", "RESOLVED"},
           co \in BOOLEAN, al \in Nat :
        r = [severity |-> sv, status |-> st, cooling |-> co, alarms |-> al]
  BY DEF AnomalyRecord
<1>2. c = [severity |-> sv, status |-> st, cooling |-> FALSE, alarms |-> 0]
  BY <1>1
<1>3. [severity |-> sv, status |-> st, cooling |-> FALSE, alarms |-> 0] \in AnomalyRecord
  BY DEF AnomalyRecord
<1>4. r.severity = sv /\ r.alarms \in Nat /\ c.severity = sv /\ c.alarms = 0
  BY <1>1, <1>2
<1>5. c \in AnomalyRecord
  BY <1>2, <1>3
<1> QED
  BY <1>4, <1>5

LEMMA CooldownStep ==
  ASSUME MonitorInv, NEW k \in DOMAIN records, CooldownPasses(k)
  PROVE  MonitorInv'
<1> USE DEF MonitorInv
<1>1. /\ DOMAIN records' = DOMAIN records /\ UNCHANGED mon
      /\ \A j \in DOMAIN records :
            records'[j] = IF j = k THEN [records[k] EXCEPT !.cooling = FALSE, !.alarms = 0]
                          ELSE records[j]
  BY DEF CooldownPasses, Changed
<1>2. MonitorsInv' /\ ReadInv'
  BY <1>1 DEF MonitorsInv, ReadInv
<1>3. /\ records[k] \in AnomalyRecord /\ records'[k] \in AnomalyRecord
      /\ records'[k].severity = records[k].severity
      /\ records'[k].alarms = 0 /\ records'[k].alarms <= records[k].alarms
  BY <1>1, CooledDown DEF RecordInv
<1>4. RecordInv'
  BY <1>1, <1>3 DEF RecordInv
<1>5. ASSUME NEW j \in DOMAIN records
      PROVE  records'[j].alarms + Cardinality(DueFor(j)') <= Cardinality(Monitors)
  <2>1. DueFor(j)' = DueFor(j)
    BY <1>1 DEF DueFor
  <2>2. records'[j].alarms \in Nat /\ records'[j].alarms <= records[j].alarms
    <3>1. CASE j = k
      BY <1>3, <3>1
    <3>2. CASE j # k
      <4>1. records'[j] = records[j] /\ records[j] \in AnomalyRecord
        BY <1>1, <3>2 DEF RecordInv
      <4> QED
        BY <4>1 DEF AnomalyRecord
    <3> QED
      BY <3>1, <3>2
  <2> QED
    BY <2>1, <2>2, FewerAreDue
<1> QED
  BY <1>1, <1>2, <1>4, <1>5 DEF ShareInv

LEMMA QuietStep ==
  ASSUME MonitorInv, UNCHANGED <<mon, records>>
  PROVE  MonitorInv'
BY DEF MonitorInv, MonitorsInv, ReadInv, RecordInv, ShareInv, DueFor

\* An evaluation that begins or stops is not about to notify anything.
LEMMA ResetStep ==
  ASSUME MonitorInv, NEW m \in Monitors, UNCHANGED records, NEW next,
         next = [pc |-> next.pc, report |-> next.report, failed |-> next.failed, known |-> next.known],
         next.pc # "read", mon' = [mon EXCEPT ![m] = next]
  PROVE  MonitorInv'
<1> USE DEF MonitorInv
<1>1. MonitorsInv'
  BY DEF MonitorsInv
<1>2. ReadInv'
  BY DEF MonitorsInv, ReadInv
<1>3. RecordInv'
  BY DEF RecordInv
<1>4. ASSUME NEW k \in DOMAIN records
      PROVE  records[k].alarms + Cardinality(DueFor(k)') <= Cardinality(Monitors)
  <2>1. DueFor(k)' \in SUBSET DueFor(k)
    BY DEF MonitorsInv, DueFor
  <2> QED
    BY <2>1, FewerAreDue DEF RecordInv, AnomalyRecord
<1> QED
  BY <1>1, <1>2, <1>3, <1>4 DEF ShareInv

\* What an evaluation reads now it notifies only if nobody has notified it.
LEMMA ReadStep ==
  ASSUME MonitorInv, NEW m \in Monitors, AuditEnds(m)
  PROVE  MonitorInv'
<1> USE DEF MonitorInv
<1>1. /\ UNCHANGED records
      /\ mon' = [mon EXCEPT ![m] = mon'[m]]
      /\ mon'[m].pc = "read" /\ mon'[m].known = records
      /\ mon'[m] = [pc |-> mon'[m].pc, report |-> mon'[m].report,
                    failed |-> mon'[m].failed, known |-> mon'[m].known]
  BY DEF AuditEnds, MonitorsInv
<1>2. MonitorsInv'
  BY <1>1 DEF MonitorsInv
<1>3. ReadInv'
  BY <1>1 DEF MonitorsInv, ReadInv, RecordInv
<1>4. RecordInv'
  BY <1>1 DEF RecordInv
<1>5. ASSUME NEW k \in DOMAIN records
      PROVE  records[k].alarms + Cardinality(DueFor(k)') <= Cardinality(Monitors)
  <2>1. CASE Due(records[k])
    <3>1. records[k].alarms = 0
      BY <2>1 DEF RecordInv
    <3>2. DueFor(k)' \in SUBSET Monitors
      BY DEF DueFor
    <3> QED
      BY <3>1, <3>2, DueForIsFinite
  <2>2. CASE ~Due(records[k])
    <3>1. DueFor(k)' \in SUBSET DueFor(k)
      BY <1>1, <2>2 DEF MonitorsInv, DueFor
    <3> QED
      BY <3>1, FewerAreDue DEF RecordInv, AnomalyRecord
  <2> QED
    BY <2>1, <2>2
<1> QED
  BY <1>1, <1>2, <1>3, <1>4, <1>5 DEF ShareInv

\* Only an evaluation that read the anomaly as due notifies it again.
LEMMA SeenRecord ==
  ASSUME NEW r \in AnomalyRecord, NEW read, NEW k, NEW a,
         r.severity = SeverityOf(k), read.severity = SeverityOf(k), a.severity = SeverityOf(k),
         Due(r) => r.alarms = 0
  PROVE  LET s == SeenAgain(r, read, a)
         IN /\ s \in AnomalyRecord /\ s.severity = SeverityOf(k)
            /\ Due(s) => s.alarms = 0
            /\ s.alarms <= r.alarms \/ (Due(read) /\ s.alarms = r.alarms + 1)
<1>1. Notify(read, a) <=> Due(read)
  BY RanksAreOrdered DEF Notify, Due
<1>2. SeverityOf(k) \in {"INFO", "WARNING", "ERROR", "CRITICAL"}
  BY DEF SeverityOf
<1>3. CASE Due(read)
  BY <1>1, <1>2, <1>3 DEF SeenAgain, AnomalyRecord, Due
<1>4. CASE ~Due(read)
  BY <1>1, <1>4 DEF SeenAgain, AnomalyRecord
<1> QED
  BY <1>3, <1>4

LEMMA UnseenRecord ==
  ASSUME NEW r \in AnomalyRecord, NEW read, Due(r) => r.alarms = 0
  PROVE  LET s == NotSeen(r, read)
         IN s \in AnomalyRecord /\ s.severity = r.severity /\ s.alarms <= r.alarms /\ (Due(s) => s.alarms = 0)
<1>1. CASE read.status = "ACTIVE"
  <2>1. r = [severity |-> r.severity, status |-> r.status, cooling |-> r.cooling, alarms |-> r.alarms]
    BY DEF AnomalyRecord
  <2>2. NotSeen(r, read)
           = [severity |-> r.severity, status |-> "RESOLVED", cooling |-> r.cooling, alarms |-> 0]
    BY <1>1, <2>1 DEF NotSeen
  <2> QED
    BY <2>2 DEF AnomalyRecord
<1>2. CASE read.status # "ACTIVE"
  BY <1>2 DEF NotSeen, AnomalyRecord
<1> QED
  BY <1>1, <1>2

\* After an evaluation: nobody has notified an anomaly twice on one reading.
LEMMA EvaluateStep ==
  ASSUME MonitorInv, NEW m \in Monitors, Evaluate(m)
  PROVE  MonitorInv'
<1> USE DEF MonitorInv
<1> DEFINE detected == ExtractAnomalies(mon[m].report, mon[m].failed)
           known    == DOMAIN mon[m].known
           fresh    == KeysOf(detected) \ known
           its(k)   == CHOOSE a \in detected : a.key = k
<1>1. /\ mon[m].pc = "read" /\ mon' = [mon EXCEPT ![m] = NotStarted]
      /\ known \subseteq DOMAIN records
  BY DEF Evaluate, ReadInv
<1>2. CASE UNCHANGED records
  BY <1>1, <1>2, ResetStep DEF NotStarted
<1>3. CASE fresh \cap DOMAIN records = {}
  <2>1. records' = [k \in DOMAIN records \cup fresh |->
                      IF k \in fresh THEN New(its(k))
                      ELSE IF k \notin known THEN records[k]
                      ELSE IF k \notin KeysOf(detected) THEN NotSeen(records[k], mon[m].known[k])
                      ELSE SeenAgain(records[k], mon[m].known[k], its(k))]
    BY <1>3 DEF Evaluate
  <2> HIDE DEF fresh, its, detected, known
  <2>2. ASSUME NEW k \in KeysOf(detected)
        PROVE  its(k).severity = SeverityOf(k)
    <3>1. PICK a \in detected : a.key = k
      BY <2>2 DEF KeysOf
    <3>2. its(k) \in detected /\ its(k).key = k
      BY <3>1 DEF its
    <3> QED
      BY <3>2, SeveritiesAreFixed DEF detected, HasSeverity
  <2>3. MonitorsInv'
    BY <1>1 DEF MonitorsInv, NotStarted
  <2>4. ReadInv'
    BY <1>1, <2>1 DEF MonitorsInv, ReadInv, NotStarted
  <2>5. ASSUME NEW k \in fresh
        PROVE  /\ records'[k] \in AnomalyRecord /\ records'[k].severity = SeverityOf(k)
               /\ ~Due(records'[k]) /\ records'[k].alarms = 1 /\ DueFor(k)' = {}
    <3>1. k \in KeysOf(detected) /\ k \notin DOMAIN records
      BY <1>3 DEF fresh
    <3>2. records'[k] = New(its(k)) /\ its(k).severity = SeverityOf(k)
      BY <2>1, <2>2, <3>1
    <3>3. SeverityOf(k) \in {"INFO", "WARNING", "ERROR", "CRITICAL"}
      BY DEF SeverityOf
    <3>4. DueFor(k)' = {}
      BY <1>1, <3>1 DEF DueFor, ReadInv, MonitorsInv, NotStarted
    <3> QED
      BY <3>2, <3>3, <3>4 DEF New, AnomalyRecord, Due
  <2>6. ASSUME NEW k \in DOMAIN records
        PROVE  /\ records'[k] \in AnomalyRecord /\ records'[k].severity = SeverityOf(k)
               /\ Due(records'[k]) => records'[k].alarms = 0
               /\ \/ records'[k].alarms <= records[k].alarms
                  \/ m \in DueFor(k) /\ records'[k].alarms = records[k].alarms + 1
    <3>1. /\ k \notin fresh /\ records[k] \in AnomalyRecord /\ records[k].severity = SeverityOf(k)
          /\ Due(records[k]) => records[k].alarms = 0
      BY <1>3 DEF RecordInv
    <3>2. CASE k \notin known
      <4>1. records'[k] = records[k]
        BY <2>1, <3>1, <3>2
      <4> QED
        BY <3>1, <4>1 DEF AnomalyRecord
    <3>3. CASE k \in known \ KeysOf(detected)
      <4>1. records'[k] = NotSeen(records[k], mon[m].known[k])
        BY <2>1, <3>1, <3>3
      <4> QED
        BY <3>1, <4>1, UnseenRecord
    <3>4. CASE k \in known \cap KeysOf(detected)
      <4>1. records'[k] = SeenAgain(records[k], mon[m].known[k], its(k))
        BY <2>1, <3>1, <3>4
      <4>2. mon[m].known[k].severity = SeverityOf(k) /\ its(k).severity = SeverityOf(k)
        BY <1>1, <2>2, <3>4 DEF ReadInv, known
      <4>3. Due(mon[m].known[k]) => m \in DueFor(k)
        BY <1>1, <3>4 DEF DueFor, known
      <4> QED
        BY <3>1, <4>1, <4>2, <4>3, SeenRecord
    <3> QED
      BY <3>2, <3>3, <3>4
  <2>7. DOMAIN records' = DOMAIN records \cup fresh
    BY <2>1
  <2>8. RecordInv'
    BY <2>5, <2>6, <2>7 DEF RecordInv
  <2>9. ASSUME NEW k \in DOMAIN records'
        PROVE  records'[k].alarms + Cardinality(DueFor(k)') <= Cardinality(Monitors)
    <3>1. CASE k \in fresh
      <4>1. Cardinality(Monitors) \in Nat /\ Cardinality({m}) = 1
            /\ Cardinality({m}) <= Cardinality(Monitors) /\ Cardinality({}) = 0
        BY DueForIsFinite, FS_Singleton, FS_EmptySet
      <4>2. records'[k].alarms = 1 /\ DueFor(k)' = {}
        BY <2>5, <3>1
      <4>3. Cardinality(DueFor(k)') = 0
        BY <4>1, <4>2
      <4> QED
        BY <4>1, <4>2, <4>3
    <3>2. CASE k \in DOMAIN records
      <4>1. DueFor(k)' \in SUBSET (DueFor(k) \ {m}) /\ DueFor(k) \in SUBSET Monitors
        BY <1>1 DEF MonitorsInv, DueFor, NotStarted
      <4>2. records'[k].alarms \in Nat /\ records[k].alarms \in Nat
        BY <2>6, <3>2 DEF RecordInv, AnomalyRecord
      <4>3. CASE records'[k].alarms <= records[k].alarms
        BY <3>2, <4>1, <4>2, <4>3, FewerAreDue
      <4>4. CASE m \in DueFor(k) /\ records'[k].alarms = records[k].alarms + 1
        <5>1. Cardinality(DueFor(k) \ {m}) = Cardinality(DueFor(k)) - 1
          BY <4>1, <4>4, DueForIsFinite
        <5>2. Cardinality(DueFor(k)') <= Cardinality(DueFor(k) \ {m})
          BY <4>1, DueForIsFinite
        <5>3. records[k].alarms + Cardinality(DueFor(k)) <= Cardinality(Monitors)
          BY <3>2 DEF ShareInv
        <5>4. /\ Cardinality(DueFor(k)) \in Nat /\ Cardinality(DueFor(k)') \in Nat
              /\ Cardinality(Monitors) \in Nat
          BY <4>1, DueForIsFinite
        <5> QED
          BY <4>2, <4>4, <5>1, <5>2, <5>3, <5>4
      <4> QED
        BY <2>6, <3>2, <4>3, <4>4
    <3> QED
      BY <2>7, <3>1, <3>2
  <2> QED
    BY <2>3, <2>4, <2>8, <2>9 DEF ShareInv
<1> QED
  BY <1>2, <1>3 DEF Evaluate

-----------------------------------------------------------------------------
LEMMA MonitorStep == MonitorInv /\ [MNext]_mvars => MonitorInv'
<1> SUFFICES ASSUME MonitorInv, [MNext]_mvars PROVE MonitorInv'
  OBVIOUS
<1>1. ASSUME NEW q \in Varying, DataChange(q) PROVE MonitorInv'
  BY <1>1, QuietStep DEF DataChange, Changed
<1>2. ASSUME NEW d \in Derivatives, DerivativesArrive(d) PROVE MonitorInv'
  BY <1>2, QuietStep DEF DerivativesArrive, Changed
<1>3. ASSUME NEW run \in Runs, RunFails(run) PROVE MonitorInv'
  BY <1>3, QuietStep DEF RunFails, Changed
<1>4. ASSUME NEW m \in Monitors, AuditBegins(m) PROVE MonitorInv'
  <2>1. /\ UNCHANGED records
        /\ mon' = [mon EXCEPT ![m] = mon'[m]] /\ mon'[m].pc # "read"
        /\ mon'[m] = [pc |-> mon'[m].pc, report |-> mon'[m].report,
                      failed |-> mon'[m].failed, known |-> mon'[m].known]
    <3>1. /\ mon = [n \in Monitors |-> mon[n]]
          /\ mon[m] = [pc |-> mon[m].pc, report |-> mon[m].report,
                       failed |-> mon[m].failed, known |-> mon[m].known]
      BY DEF MonitorInv, MonitorsInv
    <3>2. mon' = [mon EXCEPT ![m] = [mon[m] EXCEPT !.pc = "half", !.report = report]]
      BY <1>4 DEF AuditBegins
    <3>3. mon'[m] = [mon[m] EXCEPT !.pc = "half", !.report = report]
      BY <3>1, <3>2
    <3>4. mon'[m] = [pc |-> "half", report |-> report, failed |-> mon[m].failed, known |-> mon[m].known]
      BY <3>1, <3>3
    <3> QED
      BY <1>4, <3>2, <3>3, <3>4 DEF AuditBegins
  <2> QED
    BY <2>1, ResetStep
<1>5. ASSUME NEW m \in Monitors, AuditEnds(m) PROVE MonitorInv'
  BY <1>5, ReadStep
<1>6. ASSUME NEW m \in Monitors, Evaluate(m) PROVE MonitorInv'
  BY <1>6, EvaluateStep
<1>7. ASSUME NEW m \in Monitors, MonitorStops(m) PROVE MonitorInv'
  BY <1>7, ResetStep DEF MonitorStops, NotStarted
<1>8. ASSUME NEW k \in DOMAIN records, CooldownPasses(k) PROVE MonitorInv'
  BY <1>8, CooldownStep
<1>9. CASE UNCHANGED mvars
  BY <1>9, QuietStep DEF mvars
<1> QED
  BY <1>1, <1>2, <1>3, <1>4, <1>5, <1>6, <1>7, <1>8, <1>9 DEF MNext, Monitor

(***************************************************************************)
(* The invariant, for every number of evaluations.                         *)
(***************************************************************************)
THEOREM MonitorInvariant == MSpec => []MonitorInv
<1> QED
  BY MonitorInit, MonitorStep, PTL DEF MSpec

(***************************************************************************)
(* An anomaly is notified at most once by each evaluation that overlaps    *)
(* another, in one episode and cooldown: nothing keeps two runs of         *)
(* monitor_data_quality apart, and both may find the cooldown over         *)
(* (data_quality_monitoring.py:170-173).                                   *)
(***************************************************************************)
OncePerMonitor == \A k \in DOMAIN records : records[k].alarms <= Cardinality(Monitors)

THEOREM EachNotifiesOnce == MSpec => []OncePerMonitor
<1>1. MonitorInv => OncePerMonitor
  <2> SUFFICES ASSUME MonitorInv, NEW k \in DOMAIN records
               PROVE  records[k].alarms <= Cardinality(Monitors)
    BY DEF OncePerMonitor
  <2>1. DueFor(k) \in SUBSET Monitors
    BY DEF DueFor
  <2>2. Cardinality(DueFor(k)) \in Nat /\ Cardinality(Monitors) \in Nat
    BY <2>1, DueForIsFinite
  <2> QED
    BY <2>2 DEF MonitorInv, RecordInv, ShareInv, AnomalyRecord
<1> QED
  BY <1>1, MonitorInvariant, PTL

(***************************************************************************)
(* With one evaluation at a time an anomaly is notified once while it      *)
(* lasts and cools down (data_quality_monitoring.py:54-55).                *)
(***************************************************************************)
THEOREM EpisodesAreNotifiedOnce ==
  ASSUME \A m, n \in Monitors : m = n PROVE MSpec => []OncePerEpisode
<1>1. Cardinality(Monitors) <= 1
  <2>1. CASE Monitors = {}
    BY <2>1, FS_EmptySet
  <2>2. CASE Monitors # {}
    <3>1. PICK m \in Monitors : Monitors = {m}
      BY <2>2
    <3>2. Cardinality({m}) = 1
      BY FS_Singleton
    <3> QED
      BY <3>1, <3>2
  <2> QED
    BY <2>1, <2>2
<1>2. RecordInv /\ OncePerMonitor => OncePerEpisode
  BY <1>1, DueForIsFinite DEF RecordInv, AnomalyRecord, OncePerMonitor, OncePerEpisode
<1>3. MonitorInv => RecordInv
  BY DEF MonitorInv
<1> QED
  BY <1>2, <1>3, MonitorInvariant, EachNotifiesOnce, PTL
===============================================================================
