------------------------ MODULE DailyOperationsProofs ------------------------
(***************************************************************************)
(* That no job replaces a price by an older one unless it outlived its     *)
(* lock, and that a pipeline that reports SUCCEEDED has left what is       *)
(* derived in step with the prices and the date complete for the audit,    *)
(* for any number of jobs, stocks, datasets, revisions and failures.       *)
(***************************************************************************)
EXTENDS DailyOperations, FiniteSetTheorems, SequenceTheorems, TLAPS

Fields == {"pc", "todo", "got", "retried", "result", "hasData", "ready", "scope", "error",
           "verdict"}

Shapes ==
    /\ published \in [Markets -> Nat]
    /\ price \in [Stocks -> Nat]
    /\ lock \in Jobs \cup {None}
    /\ DOMAIN job = Jobs
    /\ \A j \in Jobs :
          /\ DOMAIN job[j] = Fields
          /\ job[j].pc = "recalculate" => Repairs(j) /\ job[j].scope.code # None

(* What is stored has been published.                                      *)
PricesArePublished == \A s \in Stocks : price[s] <= published[MarketOf[s]]

(* A job has fetched prices it will store.                                 *)
Carries(j) == Works(j, {"DAILY_PRICES"}) /\ job[j].got # None

(* What it carries has been published, and while nobody has outlived a     *)
(* lock nothing newer has been stored meanwhile.                           *)
CarriedIsNew ==
    \A j \in Jobs : Carries(j) =>
        \A s \in Wanted(j) :
            /\ job[j].got \in Nat
            /\ job[j].got <= published[MarketOf[s]]
            /\ overrun = {} => price[s] <= job[j].got

OpsInv == Shapes /\ PricesArePublished /\ HolderWritesAlone /\ CarriedIsNew

-----------------------------------------------------------------------------
LEMMA OpsInvInitially == ASSUME Init PROVE OpsInv
BY OperationsAssumption
DEF Init, OpsInv, Shapes, PricesArePublished, HolderWritesAlone, CarriedIsNew, Carries, Works,
    Running, Idle, Fields, Markets

(* A step of one job that leaves the prices alone and does not start it    *)
(* keeps the invariant, if it still carries nothing but what is new.       *)
LEMMA JobStep ==
    ASSUME OpsInv, NEW j \in Jobs, NEW new, job' = [job EXCEPT ![j] = new],
           DOMAIN new = Fields, UNCHANGED <<published, price, lock, overrun>>,
           new.pc \notin {"idle", "done"} => Running(j),
           new.pc = "recalculate" => new.scope # None /\ new.scope.code # None,
           Carries(j)' => \A s \in Wanted(j)' :
                             /\ new.got \in Nat
                             /\ new.got <= published[MarketOf[s]]
                             /\ overrun = {} => price[s] <= new.got
    PROVE  OpsInv'
<1>1. job'[j] = new /\ DOMAIN job' = Jobs /\ \A i \in Jobs \ {j} : job'[i] = job[i]
  BY DEF OpsInv, Shapes
<1>2. Shapes' /\ PricesArePublished'
  BY <1>1 DEF OpsInv, Shapes, PricesArePublished, Repairs
<1>3. HolderWritesAlone'
  BY <1>1 DEF OpsInv, HolderWritesAlone, Running
<1>4. ASSUME NEW i \in Jobs \ {j} PROVE (Carries(i)' <=> Carries(i)) /\ Wanted(i)' = Wanted(i)
  BY <1>1 DEF Carries, Works, This, Wanted, Repairs, Listed
<1>5. CarriedIsNew'
  BY <1>1, <1>4 DEF OpsInv, CarriedIsNew
<1> QED
  BY <1>2, <1>3, <1>5 DEF OpsInv

(* In particular when it has nothing in hand.                              *)
LEMMA EmptyHanded ==
    ASSUME OpsInv, NEW j \in Jobs, NEW new, job' = [job EXCEPT ![j] = new],
           DOMAIN new = Fields, UNCHANGED <<published, price, lock, overrun>>,
           new.pc \notin {"idle", "done"} => Running(j), new.got = None,
           new.pc # "recalculate"
    PROVE  OpsInv'
<1>1. job'[j] = new
  BY DEF OpsInv, Shapes
<1>2. ~Carries(j)'
  BY <1>1 DEF Carries
<1> QED
  BY <1>2, JobStep

(* A job that ends takes its own token out of Redis and nobody else's.     *)
LEMMA EndStep ==
    ASSUME OpsInv, NEW j \in Jobs, NEW new, job' = [job EXCEPT ![j] = new],
           DOMAIN new = Fields, new.pc = "done", Release(j),
           UNCHANGED <<published, price, overrun>>
    PROVE  OpsInv'
<1>1. job'[j] = new /\ DOMAIN job' = Jobs /\ \A i \in Jobs \ {j} : job'[i] = job[i]
  BY DEF OpsInv, Shapes
<1>2. Shapes' /\ PricesArePublished'
  BY <1>1 DEF OpsInv, Shapes, PricesArePublished, Repairs, Release
<1>3. HolderWritesAlone'
  BY <1>1 DEF OpsInv, HolderWritesAlone, Running, Release
<1>4. \A i \in Jobs : Carries(i)' => Carries(i) /\ Wanted(i)' = Wanted(i) /\ job'[i] = job[i]
  BY <1>1 DEF Carries, Works, This, Wanted, Repairs, Listed
<1>5. CarriedIsNew'
  BY <1>4 DEF OpsInv, CarriedIsNew
<1> QED
  BY <1>2, <1>3, <1>5 DEF OpsInv

LEMMA Outcomes ==
    ASSUME OpsInv, NEW j \in Jobs, NEW status
    PROVE  /\ DOMAIN TaskDone(j, status) = Fields
           /\ TaskDone(j, status).got = None
           /\ TaskDone(j, status).pc = "work"
           /\ TaskDone(j, status).scope = job[j].scope
           /\ DOMAIN TaskFailed(j) = Fields
           /\ TaskFailed(j).got = None
           /\ TaskFailed(j).pc = "work"
           /\ DOMAIN Idle = Fields
           /\ Idle.got = None
BY DEF OpsInv, Shapes, TaskDone, TaskFailed, Idle, Fields

LEMMA WorkingRuns ==
    ASSUME NEW j \in Jobs, NEW steps, Works(j, steps) PROVE Running(j)
BY DEF Works, Running

-----------------------------------------------------------------------------
(* What the exchange has published is at least what was stored before.     *)
LEMMA FetchStep == ASSUME OpsInv, NEW j \in Jobs, FetchPrices(j) PROVE OpsInv'
<1> DEFINE got == published[This(j).market]
           new == [job[j] EXCEPT !.got = got]
<1>1. /\ job' = [job EXCEPT ![j] = new]
      /\ UNCHANGED <<published, price, lock, overrun>>
      /\ Running(j)
  BY WorkingRuns DEF FetchPrices, data
<1>2. DOMAIN new = Fields /\ new.got = got /\ new.pc = "work"
  BY DEF OpsInv, Shapes, Fields, FetchPrices, Works
<1>3. Wanted(j)' = Wanted(j)
  BY <1>1 DEF OpsInv, Shapes, Wanted, This, Repairs, Listed, Fields
<1>4. ASSUME NEW s \in Wanted(j)
      PROVE  got \in Nat /\ got <= published[MarketOf[s]] /\ price[s] <= got
  <2>1. s \in Stocks /\ MarketOf[s] = This(j).market
    BY DEF Wanted, Listed
  <2>2. published[MarketOf[s]] \in Nat
    BY <2>1, OperationsAssumption DEF OpsInv, Shapes
  <2> QED
    BY <2>1, <2>2 DEF OpsInv, PricesArePublished
<1> HIDE DEF new, got
<1> QED
  BY <1>1, <1>2, <1>3, <1>4, JobStep

(* A security's technicals follow the price that is stored.                *)
LEMMA RecalculateStep == ASSUME OpsInv, NEW j \in Jobs, Recalculate(j) PROVE OpsInv'
<1> DEFINE s == job[j].scope.code
           got == IF s \in master THEN price[s] ELSE None
           new == [job[j] EXCEPT !.pc = "work", !.error = s \notin master, !.got = got]
<1>1. /\ job' = [job EXCEPT ![j] = new]
      /\ UNCHANGED <<published, price, lock, overrun>>
      /\ Running(j)
  BY DEF Recalculate, data, Running
<1>2. DOMAIN new = Fields /\ new.got = got /\ new.scope = job[j].scope
  BY DEF OpsInv, Shapes, Fields
<1>3. new.pc = "work" /\ new.scope # None /\ s # None
  BY DEF OpsInv, Shapes, Fields, Recalculate, Repairs
<1>4. job'[j] = new
  BY <1>1 DEF OpsInv, Shapes
<1>5. Wanted(j)' \subseteq {s} \cap Stocks
  BY <1>2, <1>3, <1>4 DEF Wanted, Repairs, Listed
<1>6. ASSUME got # None, NEW x \in {s} \cap Stocks
      PROVE  got \in Nat /\ got <= published[MarketOf[x]] /\ price[x] <= got
  <2>1. got = price[x] /\ price[x] \in Nat
    BY <1>6 DEF OpsInv, Shapes
  <2> QED
    BY <2>1 DEF OpsInv, PricesArePublished
<1>7. Carries(j)' => got # None
  BY <1>2, <1>4 DEF Carries
<1> HIDE DEF new, got
<1> QED
  BY <1>1, <1>2, <1>3, <1>5, <1>6, <1>7, JobStep

(* Who stores prices and has not outlived the lock is alone, so that the   *)
(* others have nothing in hand that the stored prices could be newer than. *)
LEMMA StoreStep ==
    ASSUME OpsInv, NEW j \in Jobs, StorePrices(j)
    PROVE  OpsInv' /\ (overrun = {} => \A s \in Stocks : price'[s] >= price[s])
<1> DEFINE got == job[j].got
           recalculates == Repairs(j) /\ job[j].scope.code # None
<1>1. /\ Carries(j) /\ Running(j)
      /\ UNCHANGED <<published, lock, overrun>>
  BY WorkingRuns DEF StorePrices, Carries
<1>2. PICK stored \in SUBSET Wanted(j) :
          price' = [s \in Stocks |-> IF s \in stored THEN got ELSE price[s]]
  BY DEF StorePrices
<1>3. PICK new : /\ job' = [job EXCEPT ![j] = new]
                 /\ DOMAIN new = Fields /\ new.got = None
                 /\ new.pc = IF recalculates THEN "recalculate" ELSE "work"
                 /\ new.scope = job[j].scope
  <2>1. PICK status, hasData :
            job' = [job EXCEPT ![j] =
               [TaskDone(j, status) EXCEPT
                    !.hasData = hasData,
                    !.pc = IF recalculates THEN "recalculate" ELSE "work"]]
    BY DEF StorePrices
  <2> DEFINE done == TaskDone(j, status)
             new == [done EXCEPT !.hasData = hasData,
                                 !.pc = IF recalculates THEN "recalculate" ELSE "work"]
  <2>2. DOMAIN done = Fields /\ done.got = None /\ done.scope = job[j].scope
    BY Outcomes
  <2>3. job' = [job EXCEPT ![j] = new]
    BY <2>1
  <2> HIDE DEF done, recalculates
  <2>4. /\ DOMAIN new = Fields /\ new.got = None /\ new.scope = job[j].scope
        /\ new.pc = IF recalculates THEN "recalculate" ELSE "work"
    BY <2>2 DEF Fields
  <2> QED
    BY <2>3, <2>4
<1>4. /\ job'[j] = new /\ DOMAIN job' = Jobs
      /\ \A i \in Jobs \ {j} : job'[i] = job[i]
  BY <1>3 DEF OpsInv, Shapes
<1>5. \A s \in Stocks : /\ s \in stored => /\ got \in Nat
                                           /\ got <= published[MarketOf[s]]
                                           /\ overrun = {} => price[s] <= got
                        /\ price[s] \in Nat
  BY <1>1 DEF OpsInv, CarriedIsNew, Shapes
<1>6. Shapes'
  BY <1>1, <1>2, <1>3, <1>4, <1>5 DEF OpsInv, Shapes, Repairs
<1>7. PricesArePublished'
  BY <1>1, <1>2, <1>5 DEF OpsInv, PricesArePublished
<1>8. HolderWritesAlone'
  BY <1>1, <1>4 DEF OpsInv, HolderWritesAlone, Running
<1>9. CarriedIsNew'
  <2> SUFFICES ASSUME NEW i \in Jobs, Carries(i)', NEW s \in Wanted(i)'
               PROVE  /\ job'[i].got \in Nat
                      /\ job'[i].got <= published[MarketOf[s]]
                      /\ overrun = {} => price'[s] <= job'[i].got
    BY <1>1 DEF CarriedIsNew
  <2>1. i # j
    BY <1>3, <1>4 DEF Carries
  <2>2. Carries(i) /\ s \in Wanted(i) /\ job'[i] = job[i]
    BY <1>4, <2>1 DEF Carries, Works, This, Wanted, Repairs, Listed
  <2>3. overrun # {}
    BY <1>1, <2>1, <2>2, WorkingRuns DEF OpsInv, HolderWritesAlone, Carries
  <2> QED
    BY <2>2, <2>3 DEF OpsInv, CarriedIsNew
<1>10. overrun = {} => \A s \in Stocks : price'[s] >= price[s]
  BY <1>2, <1>5
<1> QED
  BY <1>6, <1>7, <1>8, <1>9, <1>10 DEF OpsInv

-----------------------------------------------------------------------------
(* The other steps of a job at work.                                       *)
LEMMA WorkStep ==
    ASSUME OpsInv, NEW j \in Jobs, Work(j)
    PROVE  OpsInv' /\ (overrun = {} => \A s \in Stocks : price'[s] >= price[s])
<1> DEFINE Good == OpsInv' /\ UNCHANGED price
<1>1. Good => OpsInv' /\ (overrun = {} => \A s \in Stocks : price'[s] >= price[s])
  BY DEF OpsInv, Shapes
<1>2. ASSUME NEW new, job' = [job EXCEPT ![j] = new], DOMAIN new = Fields, new.got = None,
             new.pc # "recalculate", UNCHANGED <<published, price, lock, overrun>>, Running(j)
      PROVE  Good
  BY <1>2, EmptyHanded
<1>3. ASSUME NEW status, job' = [job EXCEPT ![j] = TaskDone(j, status)],
             UNCHANGED <<published, price, lock, overrun>>, Running(j)
      PROVE  Good
  BY <1>2, <1>3, Outcomes
<1>4. SyncFails(j) => Good
  <2> SUFFICES ASSUME SyncFails(j) PROVE Good
    OBVIOUS
  <2> DEFINE again == [job[j] EXCEPT !.retried = TRUE, !.got = None]
  <2>1. /\ Running(j)
        /\ UNCHANGED <<published, price, lock, overrun>>
    BY WorkingRuns DEF SyncFails, data
  <2>2. DOMAIN again = Fields /\ again.got = None /\ again.pc = "work"
    BY DEF OpsInv, Shapes, Fields, SyncFails, Works
  <2>3. \/ job' = [job EXCEPT ![j] = TaskFailed(j)]
        \/ job' = [job EXCEPT ![j] = again]
    BY DEF SyncFails
  <2> HIDE DEF again
  <2>4. CASE job' = [job EXCEPT ![j] = again]
    BY <1>2, <2>1, <2>2, <2>4
  <2>5. CASE job' = [job EXCEPT ![j] = TaskFailed(j)]
    BY <1>2, <2>1, <2>5, Outcomes
  <2> QED
    BY <2>3, <2>4, <2>5
<1>5. SyncMaster(j) \/ SyncSpot(j) \/ SyncDerivatives(j) \/ SkipDerived(j) => Good
  BY <1>3, WorkingRuns DEF SyncMaster, SyncSpot, SyncDerivatives, SkipDerived, data
<1>6. CacheFails(j) => Good
  <2> SUFFICES ASSUME CacheFails(j) PROVE Good
    OBVIOUS
  <2> DEFINE done == TaskDone(j, "SUCCEEDED")
             new == [done EXCEPT !.result[This(j).step] = "FAILED"]
  <2>1. /\ job' = [job EXCEPT ![j] = new] /\ Running(j)
        /\ UNCHANGED <<published, price, lock, overrun>>
    BY WorkingRuns DEF CacheFails, data
  <2>2. DOMAIN done = Fields /\ done.got = None /\ done.pc = "work"
    BY Outcomes
  <2> HIDE DEF done
  <2>3. DOMAIN new = Fields /\ new.got = None /\ new.pc = "work"
    BY <2>2 DEF Fields
  <2> QED
    BY <1>2, <2>1, <2>3
<1>7. CommitTechnicals(j) \/ CalculateIndustry(j) => Good
  BY <1>3, WorkingRuns DEF CommitTechnicals, CalculateIndustry
<1>8. ReadForTechnicals(j) => Good
  <2> SUFFICES ASSUME ReadForTechnicals(j) PROVE Good
    OBVIOUS
  <2> DEFINE new == [job[j] EXCEPT !.got = [s \in master |-> price[s]]]
  <2>1. /\ job' = [job EXCEPT ![j] = new] /\ Running(j)
        /\ UNCHANGED <<published, price, lock, overrun>>
    BY WorkingRuns DEF ReadForTechnicals, data
  <2>2. DOMAIN new = Fields /\ new.pc = "work" /\ new.todo = job[j].todo
    BY DEF OpsInv, Shapes, Fields, ReadForTechnicals, Works
  <2>3. ~Carries(j)'
    BY <2>1, <2>2 DEF OpsInv, Shapes, Carries, Works, This, ReadForTechnicals
  <2> HIDE DEF new
  <2> QED
    BY <2>1, <2>2, <2>3, JobStep
<1>9. ASSUME EndPipeline(j) \/ EndRepair(j) PROVE Good
  <2>1. /\ Release(j)
        /\ UNCHANGED <<published, price, overrun>>
    BY <1>9 DEF EndPipeline, EndRepair, data
  <2>2. PICK new : job' = [job EXCEPT ![j] = new] /\ DOMAIN new = Fields /\ new.pc = "done"
    <3>1. CASE EndPipeline(j)
      <4> DEFINE new == [Idle EXCEPT !.pc = "done", !.ready = job[j].ready,
                                     !.verdict = Summary(job[j].result)]
      <4>1. job' = [job EXCEPT ![j] = new]
        BY <3>1 DEF EndPipeline
      <4>2. DOMAIN new = Fields /\ new.pc = "done"
        BY DEF Idle, Fields
      <4> QED
        BY <4>1, <4>2
    <3>2. CASE EndRepair(j)
      <4>1. PICK verdict : job' = [job EXCEPT ![j] =
                                      [Idle EXCEPT !.pc = "done", !.verdict = verdict]]
        BY <3>2 DEF EndRepair
      <4> DEFINE new == [Idle EXCEPT !.pc = "done", !.verdict = verdict]
      <4>2. DOMAIN new = Fields /\ new.pc = "done"
        BY DEF Idle, Fields
      <4> QED
        BY <4>1, <4>2
    <3> QED
      BY <1>9, <3>1, <3>2
  <2> QED
    BY <2>1, <2>2, EndStep
<1> QED
  BY <1>1, <1>4, <1>5, <1>6, <1>7, <1>8, <1>9, FetchStep, StoreStep, RecalculateStep
  DEF Work, FetchPrices, Recalculate, data

-----------------------------------------------------------------------------
(* Steps around a job at work: a start needs the lock to be free, and only *)
(* the lock of a job that is not at work is lost without a trace.          *)
LEMMA StartStep ==
    ASSUME OpsInv, NEW j \in Jobs, StartPipeline(j) \/ \E scope \in Scopes : StartRepair(j, scope)
    PROVE  OpsInv' /\ UNCHANGED price
<1>1. PICK new : /\ job' = [job EXCEPT ![j] = new]
                 /\ DOMAIN new = Fields /\ new.got = None
                 /\ \/ Acquire(j) /\ new.pc = "work"
                    \/ UNCHANGED lock /\ new.pc = "done"
                 /\ UNCHANGED <<published, price, overrun>>
  <2>1. UNCHANGED <<published, price, overrun>>
    BY DEF StartPipeline, StartRepair, data
  <2>2. ASSUME NEW verdict, UNCHANGED lock,
               job' = [job EXCEPT ![j] = [Idle EXCEPT !.pc = "done", !.verdict = verdict]]
        PROVE  \E new : /\ job' = [job EXCEPT ![j] = new]
                        /\ DOMAIN new = Fields /\ new.got = None
                        /\ UNCHANGED lock /\ new.pc = "done"
    <3> DEFINE new == [Idle EXCEPT !.pc = "done", !.verdict = verdict]
    <3>1. DOMAIN new = Fields /\ new.got = None /\ new.pc = "done"
      BY DEF Idle, Fields
    <3> QED
      BY <2>2, <3>1
  <2>3. ASSUME NEW todo, NEW ready, Acquire(j),
               job' = [job EXCEPT ![j] = [Idle EXCEPT !.pc = "work", !.todo = todo, !.ready = ready]]
        PROVE  \E new : /\ job' = [job EXCEPT ![j] = new]
                        /\ DOMAIN new = Fields /\ new.got = None
                        /\ Acquire(j) /\ new.pc = "work"
    <3> DEFINE new == [Idle EXCEPT !.pc = "work", !.todo = todo, !.ready = ready]
    <3>1. DOMAIN new = Fields /\ new.got = None /\ new.pc = "work"
      BY DEF Idle, Fields
    <3> QED
      BY <2>3, <3>1
  <2>4. ASSUME NEW todo, NEW scope, NEW error, Acquire(j),
               job' = [job EXCEPT ![j] = [Idle EXCEPT !.pc = "work", !.todo = todo,
                                                      !.scope = scope, !.error = error]]
        PROVE  \E new : /\ job' = [job EXCEPT ![j] = new]
                        /\ DOMAIN new = Fields /\ new.got = None
                        /\ Acquire(j) /\ new.pc = "work"
    <3> DEFINE new == [Idle EXCEPT !.pc = "work", !.todo = todo, !.scope = scope, !.error = error]
    <3>1. DOMAIN new = Fields /\ new.got = None /\ new.pc = "work"
      BY DEF Idle, Fields
    <3> QED
      BY <2>4, <3>1
  <2>5. CASE StartPipeline(j)
    BY <2>1, <2>2, <2>3, <2>5 DEF StartPipeline
  <2>6. CASE \E scope \in Scopes : StartRepair(j, scope)
    BY <2>1, <2>2, <2>4, <2>6 DEF StartRepair
  <2> QED
    BY <2>5, <2>6
<1>2. CASE UNCHANGED lock /\ new.pc = "done"
  BY <1>1, <1>2, EmptyHanded
<1>3. CASE Acquire(j) /\ new.pc = "work"
  <2>1. job'[j] = new /\ DOMAIN job' = Jobs /\ \A i \in Jobs \ {j} : job'[i] = job[i]
    BY <1>1 DEF OpsInv, Shapes
  <2>2. Shapes' /\ PricesArePublished'
    BY <1>1, <1>3, <2>1 DEF OpsInv, Shapes, PricesArePublished, Repairs, Acquire
  <2>3. HolderWritesAlone'
    BY <1>1, <1>3, <2>1, OperationsAssumption DEF OpsInv, HolderWritesAlone, Running, Acquire
  <2>4. \A i \in Jobs : Carries(i)' => Carries(i) /\ Wanted(i)' = Wanted(i) /\ job'[i] = job[i]
    BY <1>1, <2>1 DEF Carries, Works, This, Wanted, Repairs, Listed
  <2>5. CarriedIsNew'
    BY <1>1, <2>4 DEF OpsInv, CarriedIsNew
  <2> QED
    BY <1>1, <2>2, <2>3, <2>5 DEF OpsInv
<1> QED
  BY <1>1, <1>2, <1>3

LEMMA AroundStep ==
    ASSUME OpsInv, LockExpires \/ (\E m \in Markets : Publish(m)) \/ \E j \in Jobs : Crash(j)
    PROVE  OpsInv' /\ UNCHANGED price
<1>1. CASE LockExpires
  <2>1. /\ lock \in Jobs /\ lock' = None
        /\ overrun' = IF Running(lock) THEN overrun \cup {lock} ELSE overrun
        /\ UNCHANGED <<published, price, job>>
    BY <1>1 DEF LockExpires, data, OpsInv, Shapes
  <2>2. Shapes' /\ PricesArePublished'
    BY <2>1 DEF OpsInv, Shapes, PricesArePublished, Repairs
  <2>3. HolderWritesAlone'
    BY <2>1 DEF OpsInv, HolderWritesAlone, Running
  <2>4. CarriedIsNew'
    BY <2>1 DEF OpsInv, CarriedIsNew, Carries, Works, This, Wanted, Repairs, Listed
  <2> QED
    BY <2>1, <2>2, <2>3, <2>4 DEF OpsInv
<1>2. ASSUME NEW m \in Markets, Publish(m) PROVE OpsInv' /\ UNCHANGED price
  <2>1. /\ published' = [published EXCEPT ![m] = @ + 1]
        /\ UNCHANGED <<price, lock, job, overrun>>
    BY <1>2 DEF Publish, data
  <2>2. \A x \in Markets : published'[x] \in Nat /\ published[x] <= published'[x]
    BY <2>1 DEF OpsInv, Shapes
  <2>3. \A s \in Stocks : MarketOf[s] \in Markets
    BY OperationsAssumption
  <2>4. Shapes' /\ PricesArePublished'
    BY <2>1, <2>2, <2>3 DEF OpsInv, Shapes, PricesArePublished, Repairs
  <2>5. HolderWritesAlone'
    BY <2>1 DEF OpsInv, HolderWritesAlone, Running
  <2>6. ASSUME NEW j \in Jobs
        PROVE  (Carries(j)' <=> Carries(j)) /\ Wanted(j)' = Wanted(j) /\ Wanted(j) \subseteq Stocks
    BY <2>1 DEF Carries, Works, This, Wanted, Repairs, Listed
  <2>7. CarriedIsNew'
    BY <2>1, <2>2, <2>3, <2>6 DEF OpsInv, CarriedIsNew, Shapes
  <2> QED
    BY <2>1, <2>4, <2>5, <2>7 DEF OpsInv
<1>3. ASSUME NEW j \in Jobs, Crash(j) PROVE OpsInv' /\ UNCHANGED price
  <2> DEFINE new == [Idle EXCEPT !.pc = "done", !.verdict = "CRASHED"]
  <2>1. /\ job' = [job EXCEPT ![j] = new]
        /\ UNCHANGED <<published, price, lock, overrun>>
    BY <1>3 DEF Crash, data
  <2>2. DOMAIN new = Fields /\ new.got = None /\ new.pc = "done"
    BY DEF Idle, Fields
  <2> HIDE DEF new
  <2> QED
    BY <2>1, <2>2, EmptyHanded
<1> QED
  BY <1>1, <1>2, <1>3

LEMMA OpsStep ==
    ASSUME OpsInv, [Next]_vars
    PROVE  OpsInv' /\ (overrun' = {} => \A s \in Stocks : price'[s] >= price[s])
<1>1. UNCHANGED price => \A s \in Stocks : price'[s] >= price[s]
  BY DEF OpsInv, Shapes
<1>2. CASE \E j \in Jobs : Work(j)
  <2>1. overrun' = overrun
    BY <1>2 DEF Work, SyncFails, SyncMaster, FetchPrices, StorePrices, SyncSpot, SyncDerivatives,
       CacheFails, SkipDerived, ReadForTechnicals, CommitTechnicals, CalculateIndustry,
       EndPipeline, Recalculate, EndRepair
  <2> QED
    BY <1>2, <2>1, WorkStep
<1>3. CASE UNCHANGED vars
  BY <1>1, <1>3
  DEF vars, data, OpsInv, Shapes, PricesArePublished, HolderWritesAlone, CarriedIsNew, Carries,
      Works, This, Wanted, Repairs, Listed, Running
<1> QED
  BY <1>1, <1>2, <1>3, StartStep, AroundStep DEF Next

(* Prices are published before they are stored, a job that has not         *)
(* outlived its lock is alone, and it carries nothing older than what is   *)
(* stored (job_lock.py 22-31, daily_price_ingestion.py 94-161).            *)
THEOREM OpsInvariant == Spec => []OpsInv
<1>1. OpsInv /\ [Next]_vars => OpsInv'
  BY OpsStep
<1> QED
  BY <1>1, OpsInvInitially, PTL DEF Spec

(* A job at work holds the lock unless it outlived it; and unless one did, *)
(* no stored price is replaced by one that was fetched earlier             *)
(* (precision_repair.py:203).                                              *)
THEOREM NoOlderPrice == Spec => PricesOnlyAdvance
<1>1. OpsInv /\ [Next]_vars =>
         [HolderWritesAlone /\ (overrun' = {} => \A s \in Stocks : price'[s] >= price[s])]_vars
  BY OpsStep DEF OpsInv
<1> QED
  BY <1>1, OpsInvariant, PTL DEF Spec, PricesOnlyAdvance

-----------------------------------------------------------------------------
(* What a pipeline that may still succeed has behind it.                   *)

PipelineLength == Len(PipelineTasks)
PipelineTaskSet == {PipelineTasks[i] : i \in 1 .. PipelineLength}
Done(j) == PipelineLength - Len(job[j].todo)

\* A step that did not go well stays so, and with it the verdict.
Blemishes == {"FAILED", "PARTIAL", "DEGRADED"}
Spoiled(j) == \E s \in Steps : job[j].result[s] \in Blemishes

\* What a task leaves behind for the rest of its run.
Fulfilled(j, t) ==
    LET has == job[j].hasData
        ready == job[j].ready
    IN  /\ t.step = "SECURITY_MASTER" => Listed(t.market) \subseteq master
        /\ t.step = "DAILY_PRICES" =>
              /\ ready => \A s \in Listed(t.market) : price[s] > 0
              /\ has \/ \A s \in Listed(t.market) : price[s] = 0
        /\ t.step = "MARKET_SPOT" /\ ready => <<t.market, t.dataset>> \in spot
        /\ t.step = "DERIVATIVES" /\ ready => t.dataset \in futures
        /\ t.step = "TECHNICALS" /\ has => \A s \in master : tech[s] = price[s]
        /\ t.step = "INDUSTRY_STRENGTH" /\ has => industry = [s \in master |-> price[s]]

\* The tasks to do are the last of the pipeline, and those before are fulfilled.
OnCourse(j) ==
    /\ job[j].todo \in Seq(PipelineTaskSet)
    /\ Len(job[j].todo) <= PipelineLength
    /\ \A i \in 1 .. Len(job[j].todo) :
          /\ job[j].todo[i] = PipelineTasks[Done(j) + i]
          /\ job[j].result[job[j].todo[i].step] \in {None, "SUCCEEDED"}
    /\ \A i \in 1 .. Done(j) : Fulfilled(j, PipelineTasks[i])
    /\ job[j].ready =>
          /\ \A m \in Markets : published[m] > 0
          /\ Works(j, {"DAILY_PRICES"}) /\ job[j].got # None => job[j].got > 0

Sound(j) ==
    /\ DOMAIN job[j].result = Steps
    /\ job[j].verdict = None
    /\ Repairs(j) /\ job[j].pc = "work" /\ job[j].todo = <<>> /\ job[j].got # None
          => job[j].got = price[job[j].scope.code]
    /\ ~Repairs(j) =>
          /\ job[j].pc = "work"
          /\ Works(j, {"TECHNICALS"}) /\ job[j].got # None
                => job[j].got = [s \in master |-> price[s]]
          /\ ~Spoiled(j) => OnCourse(j)

\* A snapshot follows a price that was stored no later than the one there is.
TechnicalsFollow ==
    /\ tech \in [Stocks -> Nat]
    /\ \A s \in Stocks : tech[s] <= price[s]

Orderly ==
    /\ IsFiniteSet(spot)
    /\ master \subseteq Stocks
    /\ overrun = {} => TechnicalsFollow /\ \A j \in Jobs : Running(j) => Sound(j)

-----------------------------------------------------------------------------
(* The tasks of the pipeline: the master of both markets, their prices,    *)
(* every other dataset in any order, then what is derived.                 *)
LEMMA SetToSeqLists ==
    ASSUME NEW S, IsFiniteSet(S)
    PROVE  /\ SetToSeq(S) \in Seq(S)
           /\ \A x \in S : \E i \in 1 .. Len(SetToSeq(S)) : SetToSeq(S)[i] = x
<1> DEFINE n == Cardinality(S)
           f == SetToSeq(S)
<1>1. n \in Nat /\ ExistsBijection(1 .. n, S)
  BY FS_CardinalityType
<1>2. \E g \in [1 .. n -> S] : IsInjective(g)
  BY <1>1 DEF ExistsBijection, Bijection, Injection
<1>3. f \in [1 .. n -> S] /\ IsInjective(f)
  BY <1>2 DEF SetToSeq
<1>4. IsFiniteSet(1 .. n) /\ Cardinality(1 .. n) = n
  BY <1>1, FS_Interval
<1> HIDE DEF f
<1>5. f \in Injection(1 .. n, S)
  BY <1>3 DEF Injection
<1>6. f \in Surjection(1 .. n, S)
  BY <1>4, <1>5, FS_Injection
<1>7. f \in Seq(S) /\ Len(f) = n
  BY <1>1, <1>3
<1> QED
  BY <1>6, <1>7 DEF Surjection, f

LEMMA Concatenated ==
    ASSUME NEW T, NEW s \in Seq(T), NEW t \in Seq(T), NEW c, c = s \o t
    PROVE  /\ c \in Seq(T) /\ Len(c) = Len(s) + Len(t)
           /\ \A i \in 1 .. Len(s) : c[i] = s[i]
           /\ \A i \in 1 .. Len(t) : c[Len(s) + i] = t[i]
OBVIOUS

LEMMA TaskLists ==
    /\ SpotTasks(Markets) \in Seq({Task("MARKET_SPOT", m, k) : m \in Markets, k \in SpotKinds})
    /\ \A m \in Markets, k \in SpotKinds :
          \E i \in 1 .. Len(SpotTasks(Markets)) :
              SpotTasks(Markets)[i] = Task("MARKET_SPOT", m, k)
    /\ DerivativeTasks(Derivatives) \in Seq({Task("DERIVATIVES", "TAIFEX", d) : d \in Derivatives})
    /\ \A d \in Derivatives :
          \E i \in 1 .. Len(DerivativeTasks(Derivatives)) :
              DerivativeTasks(Derivatives)[i] = Task("DERIVATIVES", "TAIFEX", d)
<1> DEFINE S == {Task("MARKET_SPOT", m, k) : m \in Markets, k \in SpotKinds}
           D == {Task("DERIVATIVES", "TAIFEX", d) : d \in Derivatives}
<1>1. IsFiniteSet(Markets)
  <2>1. IsFiniteSet({"TWSE"})
    BY FS_Singleton
  <2>2. IsFiniteSet({"TWSE"} \cup {"TPEX"})
    BY <2>1, FS_AddElement
  <2>3. {"TWSE"} \cup {"TPEX"} = Markets
    BY DEF Markets
  <2> QED
    BY <2>2, <2>3
<1>2. IsFiniteSet(Markets \X SpotKinds)
  BY <1>1, OperationsAssumption, FS_Product
<1>3. IsFiniteSet(S)
  <2> DEFINE f == [p \in Markets \X SpotKinds |-> Task("MARKET_SPOT", p[1], p[2])]
  <2>1. f \in [Markets \X SpotKinds -> S]
    OBVIOUS
  <2>2. ASSUME NEW m \in Markets, NEW k \in SpotKinds
        PROVE  /\ <<m, k>> \in Markets \X SpotKinds
               /\ f[<<m, k>>] = Task("MARKET_SPOT", m, k)
    OBVIOUS
  <2> HIDE DEF f
  <2>3. ASSUME NEW t \in S PROVE \E p \in Markets \X SpotKinds : f[p] = t
    <3>1. PICK m \in Markets, k \in SpotKinds : t = Task("MARKET_SPOT", m, k)
      OBVIOUS
    <3>2. <<m, k>> \in Markets \X SpotKinds /\ f[<<m, k>>] = t
      BY <2>2, <3>1
    <3> QED
      BY <3>2
  <2>4. f \in Surjection(Markets \X SpotKinds, S)
    BY <2>1, <2>3 DEF Surjection
  <2> QED
    BY <1>2, <2>4, FS_Surjection
<1>4. IsFiniteSet(D)
  <2> DEFINE f == [d \in Derivatives |-> Task("DERIVATIVES", "TAIFEX", d)]
  <2>1. f \in Surjection(Derivatives, D)
    BY DEF Surjection
  <2> QED
    BY <2>1, OperationsAssumption, FS_Surjection
<1>5. SpotTasks(Markets) = SetToSeq(S) /\ DerivativeTasks(Derivatives) = SetToSeq(D)
  BY DEF SpotTasks, DerivativeTasks
<1> HIDE DEF S, D
<1>6. /\ SpotTasks(Markets) \in Seq(S)
      /\ \A x \in S : \E i \in 1 .. Len(SpotTasks(Markets)) : SpotTasks(Markets)[i] = x
  BY <1>3, <1>5, SetToSeqLists
<1>7. /\ DerivativeTasks(Derivatives) \in Seq(D)
      /\ \A x \in D : \E i \in 1 .. Len(DerivativeTasks(Derivatives)) :
                          DerivativeTasks(Derivatives)[i] = x
  BY <1>4, <1>5, SetToSeqLists
<1>8. \A m \in Markets, k \in SpotKinds : Task("MARKET_SPOT", m, k) \in S
  BY DEF S
<1>9. \A d \in Derivatives : Task("DERIVATIVES", "TAIFEX", d) \in D
  BY DEF D
<1>10. /\ SpotTasks(Markets) \in Seq({Task("MARKET_SPOT", m, k) : m \in Markets, k \in SpotKinds})
       /\ DerivativeTasks(Derivatives) \in Seq({Task("DERIVATIVES", "TAIFEX", d) : d \in Derivatives})
  BY <1>6, <1>7 DEF S, D
<1> QED
  BY <1>6, <1>7, <1>8, <1>9, <1>10

\* The tasks between the prices and what is derived.
Datasets == {Task("MARKET_SPOT", m, k) : m \in Markets, k \in SpotKinds}
               \cup {Task("DERIVATIVES", "TAIFEX", d) : d \in Derivatives}

LEMMA PipelineOrder ==
    /\ PipelineTasks \in Seq(PipelineTaskSet)
    /\ PipelineLength \in Nat /\ PipelineLength >= 6
    /\ PipelineTasks[1] = Task("SECURITY_MASTER", "TWSE", "SECURITY_MASTER")
    /\ PipelineTasks[2] = Task("SECURITY_MASTER", "TPEX", "SECURITY_MASTER")
    /\ PipelineTasks[3] = Task("DAILY_PRICES", "TWSE", "DAILY_PRICES")
    /\ PipelineTasks[4] = Task("DAILY_PRICES", "TPEX", "DAILY_PRICES")
    /\ \A i \in 5 .. PipelineLength - 2 : PipelineTasks[i] \in Datasets
    /\ \A t \in Datasets : \E i \in 5 .. PipelineLength - 2 : PipelineTasks[i] = t
    /\ PipelineTasks[PipelineLength - 1] = Task("TECHNICALS", None, None)
    /\ PipelineTasks[PipelineLength] = Task("INDUSTRY_STRENGTH", None, None)
<1> DEFINE spots == SpotTasks(Markets)
           derivs == DerivativeTasks(Derivatives)
           a == Len(spots)
           b == Len(derivs)
           masters == ByMarket("SECURITY_MASTER", "SECURITY_MASTER")
           prices == ByMarket("DAILY_PRICES", "DAILY_PRICES")
           last == <<Task("TECHNICALS", None, None), Task("INDUSTRY_STRENGTH", None, None)>>
           T == {masters[1], masters[2], prices[1], prices[2], last[1], last[2]} \cup Datasets
<1>1. spots \in Seq(Datasets) /\ derivs \in Seq(Datasets) /\ a \in Nat /\ b \in Nat
  BY TaskLists DEF Datasets
<1>2. /\ masters = <<Task("SECURITY_MASTER", "TWSE", "SECURITY_MASTER"),
                     Task("SECURITY_MASTER", "TPEX", "SECURITY_MASTER")>>
      /\ prices = <<Task("DAILY_PRICES", "TWSE", "DAILY_PRICES"),
                    Task("DAILY_PRICES", "TPEX", "DAILY_PRICES")>>
  BY DEF ByMarket
<1>3. /\ spots \in Seq(T) /\ derivs \in Seq(T) /\ masters \in Seq(T) /\ prices \in Seq(T)
      /\ last \in Seq(T)
  <2> HIDE DEF spots, derivs, masters, prices, last
  <2>1. spots \in Seq(T) /\ derivs \in Seq(T)
    BY <1>1
  <2>2. /\ masters = <<masters[1], masters[2]>> /\ prices = <<prices[1], prices[2]>>
        /\ last = <<last[1], last[2]>>
    BY <1>2 DEF last
  <2>3. /\ masters[1] \in T /\ masters[2] \in T /\ prices[1] \in T /\ prices[2] \in T
        /\ last[1] \in T /\ last[2] \in T
    OBVIOUS
  <2>4. \A x \in T, y \in T : <<x, y>> \in Seq(T)
    OBVIOUS
  <2> HIDE DEF T
  <2> QED
    BY <2>1, <2>2, <2>3, <2>4
<1>4. PipelineTasks = masters \o prices \o spots \o derivs \o last
  BY DEF PipelineTasks
<1>5. ASSUME NEW t \in Datasets
      PROVE  (\E i \in 1 .. a : spots[i] = t) \/ \E i \in 1 .. b : derivs[i] = t
  <2>1. CASE t \in {Task("MARKET_SPOT", m, k) : m \in Markets, k \in SpotKinds}
    <3>1. PICK m \in Markets, k \in SpotKinds : t = Task("MARKET_SPOT", m, k)
      BY <2>1
    <3>2. \E i \in 1 .. a : spots[i] = Task("MARKET_SPOT", m, k)
      BY TaskLists
    <3> QED
      BY <3>1, <3>2
  <2>2. CASE t \in {Task("DERIVATIVES", "TAIFEX", d) : d \in Derivatives}
    <3>1. PICK d \in Derivatives : t = Task("DERIVATIVES", "TAIFEX", d)
      BY <2>2
    <3>2. \E i \in 1 .. b : derivs[i] = Task("DERIVATIVES", "TAIFEX", d)
      BY TaskLists
    <3> QED
      BY <3>1, <3>2
  <2> QED
    BY <2>1, <2>2 DEF Datasets
<1> HIDE DEF spots, derivs, masters, prices, last, T
<1> DEFINE P == PipelineTasks
<1>5a. Len(masters) = 2 /\ Len(prices) = 2 /\ Len(last) = 2
  BY <1>2 DEF last
<1> HIDE DEF T, P
<1>5b. PICK four : four = masters \o prices
  OBVIOUS
<1>5c. PICK most : most = four \o spots
  OBVIOUS
<1>5d. PICK rest : rest = most \o derivs
  OBVIOUS
<1>5e. P = rest \o last
  BY <1>4, <1>5b, <1>5c, <1>5d DEF P
<1>5f. /\ four \in Seq(T) /\ Len(four) = Len(masters) + Len(prices)
       /\ \A i \in 1 .. Len(masters) : four[i] = masters[i]
       /\ \A i \in 1 .. Len(prices) : four[Len(masters) + i] = prices[i]
  BY <1>3, <1>5b, Concatenated
<1>5g. /\ most \in Seq(T) /\ Len(most) = Len(four) + Len(spots)
       /\ \A i \in 1 .. Len(four) : most[i] = four[i]
       /\ \A i \in 1 .. Len(spots) : most[Len(four) + i] = spots[i]
  <2>1. four \in Seq(T)
    BY <1>5f
  <2> QED
    BY <1>3, <1>5c, <2>1, Concatenated
<1>5h. /\ rest \in Seq(T) /\ Len(rest) = Len(most) + Len(derivs)
       /\ \A i \in 1 .. Len(most) : rest[i] = most[i]
       /\ \A i \in 1 .. Len(derivs) : rest[Len(most) + i] = derivs[i]
  <2>1. most \in Seq(T)
    BY <1>5g
  <2> QED
    BY <1>3, <1>5d, <2>1, Concatenated
<1>5i. /\ P \in Seq(T) /\ Len(P) = Len(rest) + Len(last)
       /\ \A i \in 1 .. Len(rest) : P[i] = rest[i]
       /\ \A i \in 1 .. Len(last) : P[Len(rest) + i] = last[i]
  <2>1. rest \in Seq(T)
    BY <1>5h
  <2> QED
    BY <1>3, <1>5e, <2>1, Concatenated
<1>5j. Len(four) = 4 /\ Len(most) = 4 + a /\ Len(rest) = 4 + a + b
  BY <1>1, <1>5a, <1>5f, <1>5g, <1>5h
<1>6. /\ P \in Seq(T) /\ Len(P) = 6 + a + b
      /\ P[1] = masters[1] /\ P[2] = masters[2] /\ P[3] = prices[1] /\ P[4] = prices[2]
      /\ \A i \in 1 .. a : P[4 + i] = spots[i]
      /\ \A i \in 1 .. b : P[4 + a + i] = derivs[i]
      /\ P[5 + a + b] = last[1] /\ P[6 + a + b] = last[2]
  <2>1. Len(P) = 6 + a + b
    BY <1>1, <1>5a, <1>5i, <1>5j
  <2>2. four[1] = masters[1] /\ four[2] = masters[2] /\ four[3] = prices[1] /\ four[4] = prices[2]
    BY <1>5a, <1>5f
  <2>3. ASSUME NEW i \in 1 .. 4 PROVE P[i] = four[i]
    <3>1. i \in 1 .. 4 + a /\ i \in 1 .. 4 + a + b
      BY <1>1
    <3> QED
      BY <1>5g, <1>5h, <1>5i, <1>5j, <3>1
  <2>4. ASSUME NEW i \in 1 .. a PROVE P[4 + i] = spots[i]
    <3>1. 4 + i \in 1 .. 4 + a /\ 4 + i \in 1 .. 4 + a + b
      BY <1>1
    <3> QED
      BY <1>5g, <1>5h, <1>5i, <1>5j, <3>1
  <2>5. ASSUME NEW i \in 1 .. b PROVE P[4 + a + i] = derivs[i]
    <3>1. 4 + a + i \in 1 .. 4 + a + b
      BY <1>1
    <3> QED
      BY <1>5h, <1>5i, <1>5j, <3>1
  <2>6. P[5 + a + b] = last[1] /\ P[6 + a + b] = last[2]
    <3>1. 4 + a + b + 1 = 5 + a + b /\ 4 + a + b + 2 = 6 + a + b
      BY <1>1
    <3> QED
      BY <1>5a, <1>5i, <1>5j, <3>1
  <2>7. 1 \in 1 .. 4 /\ 2 \in 1 .. 4 /\ 3 \in 1 .. 4 /\ 4 \in 1 .. 4
    OBVIOUS
  <2>8. P[1] = masters[1] /\ P[2] = masters[2] /\ P[3] = prices[1] /\ P[4] = prices[2]
    BY <2>2, <2>3, <2>7
  <2> QED
    BY <1>5i, <2>1, <2>4, <2>5, <2>6, <2>8
<1>9. \A i \in 5 .. 4 + a + b : P[i] \in Datasets
  <2> SUFFICES ASSUME NEW i \in 5 .. 4 + a + b PROVE P[i] \in Datasets
    OBVIOUS
  <2>1. CASE i <= 4 + a
    <3>1. i - 4 \in 1 .. a /\ 4 + (i - 4) = i
      BY <1>1, <2>1
    <3>2. P[i] = spots[i - 4]
      BY <1>6, <3>1
    <3> QED
      BY <1>1, <3>1, <3>2
  <2>2. CASE i > 4 + a
    <3>1. i - 4 - a \in 1 .. b /\ 4 + a + (i - 4 - a) = i
      BY <1>1, <2>2
    <3>2. P[i] = derivs[i - 4 - a]
      BY <1>6, <3>1
    <3> QED
      BY <1>1, <3>1, <3>2
  <2> QED
    BY <1>1, <2>1, <2>2
<1>10. \A t \in Datasets : \E i \in 5 .. 4 + a + b : P[i] = t
  <2> SUFFICES ASSUME NEW t \in Datasets PROVE \E i \in 5 .. 4 + a + b : P[i] = t
    OBVIOUS
  <2>1. ASSUME NEW i \in 1 .. a, spots[i] = t PROVE \E k \in 5 .. 4 + a + b : P[k] = t
    BY <1>1, <1>6, <2>1, 4 + i \in 5 .. 4 + a + b
  <2>2. ASSUME NEW i \in 1 .. b, derivs[i] = t PROVE \E k \in 5 .. 4 + a + b : P[k] = t
    BY <1>1, <1>6, <2>2, 4 + a + i \in 5 .. 4 + a + b
  <2> QED
    BY <1>5, <2>1, <2>2
<1>11. P \in Seq(PipelineTaskSet)
  <2>1. /\ Len(P) \in Nat /\ P \in [1 .. Len(P) -> T]
    BY <1>6, LenProperties
  <2>2. PipelineTaskSet = {P[i] : i \in 1 .. Len(P)}
    BY DEF P, PipelineTaskSet, PipelineLength
  <2>3. P \in [1 .. Len(P) -> PipelineTaskSet]
    BY <2>1, <2>2
  <2> QED
    BY <2>1, <2>3
<1>12. PipelineLength = 6 + a + b
  BY <1>6 DEF P, PipelineLength
<1>13. PipelineLength \in Nat /\ PipelineLength >= 6 /\ PipelineLength - 2 = 4 + a + b
  BY <1>1, <1>12
<1>14. PipelineLength - 1 = 5 + a + b
  BY <1>1, <1>12
<1>15. last[1] = Task("TECHNICALS", None, None) /\ last[2] = Task("INDUSTRY_STRENGTH", None, None)
  BY DEF last
<1>16. /\ P[1] = Task("SECURITY_MASTER", "TWSE", "SECURITY_MASTER")
       /\ P[2] = Task("SECURITY_MASTER", "TPEX", "SECURITY_MASTER")
       /\ P[3] = Task("DAILY_PRICES", "TWSE", "DAILY_PRICES")
       /\ P[4] = Task("DAILY_PRICES", "TPEX", "DAILY_PRICES")
  BY <1>2, <1>6
<1> QED
  BY <1>6, <1>9, <1>10, <1>11, <1>12, <1>13, <1>14, <1>15, <1>16, Zenon DEF P

(* Hence what may come before a task of each step.                         *)
LEMMA TasksBefore ==
    ASSUME NEW k \in 1 .. PipelineLength
    PROVE  LET t == PipelineTasks[k]
           IN  /\ t.step \in Steps
               /\ t.step \in {"SECURITY_MASTER", "DAILY_PRICES", "MARKET_SPOT"} => t.market \in Markets
               /\ t.step = "SECURITY_MASTER" =>
                     \A i \in 1 .. k - 1 : PipelineTasks[i].step = "SECURITY_MASTER"
               /\ t.step = "DAILY_PRICES" =>
                     /\ \A i \in 1 .. k - 1 :
                           \/ PipelineTasks[i].step = "SECURITY_MASTER"
                           \/ /\ PipelineTasks[i].step = "DAILY_PRICES"
                              /\ PipelineTasks[i].market # t.market
                     /\ \E i \in 1 .. k - 1 :
                           PipelineTasks[i] = Task("SECURITY_MASTER", t.market, "SECURITY_MASTER")
               /\ t.step \in {"MARKET_SPOT", "DERIVATIVES", "TECHNICALS"} =>
                     \A i \in 1 .. k - 1 :
                        PipelineTasks[i].step \notin {"TECHNICALS", "INDUSTRY_STRENGTH"}
               /\ t.step = "INDUSTRY_STRENGTH" =>
                     \A i \in 1 .. k - 1 : PipelineTasks[i].step # "INDUSTRY_STRENGTH"
<1> DEFINE P == PipelineTasks
           N == PipelineLength
<1>1. N \in Nat /\ N >= 6
  BY PipelineOrder
<1>2. /\ P[1] = Task("SECURITY_MASTER", "TWSE", "SECURITY_MASTER")
      /\ P[2] = Task("SECURITY_MASTER", "TPEX", "SECURITY_MASTER")
      /\ P[3] = Task("DAILY_PRICES", "TWSE", "DAILY_PRICES")
      /\ P[4] = Task("DAILY_PRICES", "TPEX", "DAILY_PRICES")
      /\ P[N - 1] = Task("TECHNICALS", None, None)
      /\ P[N] = Task("INDUSTRY_STRENGTH", None, None)
  BY PipelineOrder
<1>3. \A i \in 5 .. N - 2 : /\ P[i].step \in {"MARKET_SPOT", "DERIVATIVES"}
                            /\ P[i].step = "MARKET_SPOT" => P[i].market \in Markets
  BY PipelineOrder DEF Datasets, Task
<1>4. \A i \in 1 .. N : i \in {1, 2, 3, 4, N - 1, N} \/ i \in 5 .. N - 2
  BY <1>1
<1> HIDE DEF P, N
<1>5. CASE k \in {1, 2}
  BY <1>1, <1>2, <1>5 DEF Task, Markets, Steps, P
<1>6. CASE k \in {3, 4}
  <2>1. \A i \in 1 .. k - 1 : i \in {1, 2} \/ (i = 3 /\ k = 4)
    BY <1>6
  <2>2. P[k] = Task("DAILY_PRICES", P[k].market, "DAILY_PRICES") /\ P[k].market \in Markets
    BY <1>2, <1>6 DEF Task, Markets
  <2>3. \E i \in 1 .. k - 1 : P[i] = Task("SECURITY_MASTER", P[k].market, "SECURITY_MASTER")
    BY <1>2, <1>6, <2>2, 1 \in 1 .. k - 1, 2 \in 1 .. k - 1 DEF Task, Markets
  <2>4. \A i \in 1 .. k - 1 : \/ P[i].step = "SECURITY_MASTER"
                              \/ P[i].step = "DAILY_PRICES" /\ P[i].market # P[k].market
    BY <1>2, <2>1 DEF Task
  <2>5. P[k].step = "DAILY_PRICES"
    BY <2>2 DEF Task
  <2> QED
    BY <2>2, <2>3, <2>4, <2>5 DEF Steps, P
<1>7. CASE k \in 5 .. N - 2 \/ k = N - 1
  <2>1. \A i \in 1 .. k - 1 : i \in {1, 2, 3, 4} \/ i \in 5 .. N - 2
    BY <1>1, <1>7
  <2>2. \A i \in 1 .. k - 1 : P[i].step \notin {"TECHNICALS", "INDUSTRY_STRENGTH"}
    BY <1>2, <1>3, <2>1 DEF Task
  <2>3. /\ P[k].step \in {"MARKET_SPOT", "DERIVATIVES", "TECHNICALS"}
        /\ P[k].step = "MARKET_SPOT" => P[k].market \in Markets
    BY <1>2, <1>3, <1>7 DEF Task
  <2> QED
    BY <2>2, <2>3 DEF Steps, P
<1>8. CASE k = N
  <2>1. \A i \in 1 .. k - 1 : i \in {1, 2, 3, 4, N - 1} \/ i \in 5 .. N - 2
    BY <1>1, <1>8
  <2>2. \A i \in 1 .. k - 1 : P[i].step # "INDUSTRY_STRENGTH"
    BY <1>2, <1>3, <2>1 DEF Task
  <2>3. P[k].step = "INDUSTRY_STRENGTH"
    BY <1>2, <1>8 DEF Task
  <2> QED
    BY <2>2, <2>3 DEF Steps, P
<1> QED
  BY <1>4, <1>5, <1>6, <1>7, <1>8 DEF N

-----------------------------------------------------------------------------
(* While nobody has outlived the lock, a job at work is alone.             *)
LEMMA Alone ==
    ASSUME OpsInv, overrun = {}, NEW i \in Jobs, NEW j \in Jobs, Running(i), Running(j)
    PROVE  i = j
BY DEF OpsInv, HolderWritesAlone

LEMMA OrderlyInitially == ASSUME Init PROVE Orderly
BY OperationsAssumption, FS_EmptySet DEF Init, Orderly, TechnicalsFollow, Running, Idle

(* A step that leaves the tables and the jobs at work alone keeps order.   *)
LEMMA QuietStep ==
    ASSUME Orderly, UNCHANGED data, overrun' = {} => overrun = {},
           \A m \in Markets : published[m] > 0 => published'[m] > 0,
           \A j \in Jobs : Running(j)' => Running(j) /\ job'[j] = job[j]
    PROVE  Orderly'
<1>1. UNCHANGED <<master, price, tech, spot, futures, industry>>
  BY DEF data
<1>2. ASSUME overrun' = {}, NEW j \in Jobs, Running(j)' PROVE Sound(j)'
  <2>1. Sound(j) /\ job'[j] = job[j]
    BY <1>2 DEF Orderly
  <2>2. OnCourse(j) => OnCourse(j)'
    <3>1. \A t : Fulfilled(j, t)' <=> Fulfilled(j, t)
      BY <1>1, <2>1 DEF Fulfilled, Listed
    <3>2. /\ Done(j)' = Done(j)
          /\ Works(j, {"DAILY_PRICES"})' <=> Works(j, {"DAILY_PRICES"})
      BY <2>1 DEF Done, Works, This
    <3> QED
      BY <2>1, <3>1, <3>2 DEF OnCourse
  <2>3. /\ Repairs(j)' <=> Repairs(j)
        /\ Spoiled(j)' <=> Spoiled(j)
        /\ Works(j, {"TECHNICALS"})' <=> Works(j, {"TECHNICALS"})
    BY <2>1 DEF Repairs, Spoiled, Works, This
  <2> QED
    BY <1>1, <2>1, <2>2, <2>3 DEF Sound
<1> QED
  BY <1>1, <1>2 DEF Orderly, TechnicalsFollow

(* A step of a job at work, or that puts one to work, need only keep the   *)
(* tables and its own job in order.                                        *)
LEMMA OwnStep ==
    ASSUME OpsInv, Orderly, NEW j \in Jobs, \A i \in Jobs \ {j} : job'[i] = job[i],
           Running(j) \/ \A i \in Jobs : ~Running(i),
           UNCHANGED overrun, IsFiniteSet(spot'), master' \subseteq Stocks,
           overrun = {} => TechnicalsFollow' /\ (Running(j)' => Sound(j)')
    PROVE  Orderly'
<1>1. overrun = {} => \A i \in Jobs \ {j} : ~Running(i)'
  BY Alone DEF Running
<1> QED
  BY <1>1 DEF Orderly

-----------------------------------------------------------------------------
(* A pipeline starts with everything to do.                                *)
LEMMA StartOrder ==
    ASSUME OpsInv, Orderly, NEW j \in Jobs,
           StartPipeline(j) \/ \E scope \in Scopes : StartRepair(j, scope)
    PROVE  Orderly'
<1>1. UNCHANGED <<published, master, price, tech, spot, futures, industry, overrun>>
  BY DEF StartPipeline, StartRepair, data
<1>2. ASSUME NEW verdict, job' = [job EXCEPT ![j] = [Idle EXCEPT !.pc = "done", !.verdict = verdict]]
      PROVE  Orderly'
  <2>1. /\ \A i \in Jobs \ {j} : job'[i] = job[i]
        /\ job'[j].pc = "done"
    BY <1>2 DEF OpsInv, Shapes, Idle
  <2>2. \A i \in Jobs : Running(i)' => Running(i) /\ job'[i] = job[i]
    BY <2>1 DEF Running
  <2> QED
    BY <1>1, <2>2, QuietStep DEF data
<1>3. ASSUME NEW new, job' = [job EXCEPT ![j] = new], Acquire(j), Sound(j)' PROVE Orderly'
  <2>1. overrun = {} => \A i \in Jobs : ~Running(i)
    BY <1>3, OperationsAssumption DEF OpsInv, HolderWritesAlone, Acquire
  <2>2. \A i \in Jobs \ {j} : job'[i] = job[i]
    BY <1>3 DEF OpsInv, Shapes
  <2>3. CASE overrun = {}
    BY <1>1, <1>3, <2>1, <2>2, <2>3, OwnStep DEF Orderly, TechnicalsFollow
  <2>4. CASE overrun # {}
    BY <1>1, <2>4 DEF Orderly
  <2> QED
    BY <2>3, <2>4
<1>4. CASE StartPipeline(j)
  <2>1. CASE Acquire(j) /\ job' = [job EXCEPT ![j] =
                [Idle EXCEPT !.pc = "work", !.todo = PipelineTasks,
                             !.ready = \A m \in Markets : published[m] > 0]]
    <3> DEFINE ready == \A m \in Markets : published[m] > 0
               new == [Idle EXCEPT !.pc = "work", !.todo = PipelineTasks, !.ready = ready]
    <3>1. job'[j] = new /\ job' = [job EXCEPT ![j] = new]
      BY <2>1 DEF OpsInv, Shapes
    <3>2. /\ new.pc = "work" /\ new.todo = PipelineTasks /\ new.got = None
          /\ new.result = NoResult /\ new.ready = ready /\ new.scope = None /\ new.verdict = None
      BY DEF Idle
    <3> HIDE DEF new
    <3>3. /\ job'[j].pc = "work" /\ job'[j].todo = PipelineTasks /\ job'[j].got = None
          /\ job'[j].result = NoResult /\ job'[j].ready = ready
          /\ job'[j].scope = None /\ job'[j].verdict = None
      BY <3>1, <3>2
    <3>4. /\ DOMAIN job'[j].result = Steps
          /\ \A s \in Steps : job'[j].result[s] = None
      BY <3>3 DEF NoResult
    <3>5. \A i \in 1 .. PipelineLength : PipelineTasks[i].step \in Steps
      BY TasksBefore
    <3>6. Done(j)' = 0
      BY <3>3, PipelineOrder DEF Done, PipelineLength
    <3>7. /\ job'[j].todo \in Seq(PipelineTaskSet)
          /\ Len(job'[j].todo) = PipelineLength
          /\ \A i \in 1 .. Len(job'[j].todo) : PipelineTasks[Done(j)' + i] = job'[j].todo[i]
      BY <3>3, <3>6, PipelineOrder DEF PipelineLength
    <3>8. job'[j].ready => \A m \in Markets : published'[m] > 0
      BY <1>1, <3>3
    <3>9. OnCourse(j)'
      BY <3>3, <3>4, <3>5, <3>6, <3>7, <3>8, PipelineOrder DEF OnCourse
    <3>10. ~Repairs(j)'
      BY <3>3 DEF Repairs
    <3>11. Sound(j)'
      BY <3>3, <3>4, <3>9, <3>10 DEF Sound
    <3> QED
      BY <1>3, <2>1, <3>1, <3>11
  <2>2. CASE job' = [job EXCEPT ![j] = [Idle EXCEPT !.pc = "done", !.verdict = "SKIPPED"]]
    BY <1>2, <2>2
  <2> QED
    BY <1>4, <2>1, <2>2 DEF StartPipeline
<1>5. ASSUME NEW scope \in Scopes, StartRepair(j, scope) PROVE Orderly'
  <2>1. CASE Acquire(j) /\ job' = [job EXCEPT ![j] =
                [Idle EXCEPT !.pc = "work", !.todo = RepairTasks(scope),
                             !.scope = scope, !.error = Raises(scope)]]
    <3> DEFINE new == [Idle EXCEPT !.pc = "work", !.todo = RepairTasks(scope),
                                   !.scope = scope, !.error = Raises(scope)]
    <3>1. job'[j] = new /\ job' = [job EXCEPT ![j] = new]
      BY <2>1 DEF OpsInv, Shapes
    <3>2. /\ new.got = None /\ new.result = NoResult /\ new.scope = scope /\ new.verdict = None
      BY DEF Idle
    <3> HIDE DEF new
    <3>3. Repairs(j)' /\ DOMAIN job'[j].result = Steps
      BY <3>1, <3>2, OperationsAssumption DEF Repairs, NoResult
    <3>4. Sound(j)'
      BY <3>1, <3>2, <3>3 DEF Sound
    <3> QED
      BY <1>3, <2>1, <3>1, <3>4
  <2>2. CASE job' = [job EXCEPT ![j] = [Idle EXCEPT !.pc = "done", !.verdict = "JOB_LOCK_BUSY"]]
    BY <1>2, <2>2
  <2> QED
    BY <1>5, <2>1, <2>2 DEF StartRepair
<1> QED
  BY <1>4, <1>5

(* Around the jobs at work, publishing only goes on, the end of a lock     *)
(* that a job at work holds is remembered, and a crash ends a job.         *)
LEMMA AroundOrder ==
    ASSUME OpsInv, Orderly,
           LockExpires \/ (\E m \in Markets : Publish(m)) \/ \E j \in Jobs : Crash(j)
    PROVE  Orderly'
<1>1. CASE LockExpires
  <2>1. UNCHANGED <<published, data, job>> /\ (overrun' = {} => overrun = {})
    BY <1>1 DEF LockExpires
  <2> QED
    BY <2>1, QuietStep DEF Running
<1>2. ASSUME NEW m \in Markets, Publish(m) PROVE Orderly'
  <2>1. /\ published' = [published EXCEPT ![m] = @ + 1]
        /\ UNCHANGED <<data, job, overrun>>
    BY <1>2 DEF Publish
  <2>2. \A x \in Markets : published[x] > 0 => published'[x] > 0
    BY <2>1 DEF OpsInv, Shapes
  <2> QED
    BY <2>1, <2>2, QuietStep DEF Running
<1>3. ASSUME NEW j \in Jobs, Crash(j) PROVE Orderly'
  <2>1. /\ UNCHANGED <<published, data, overrun>>
        /\ job' = [job EXCEPT ![j] = [Idle EXCEPT !.pc = "done", !.verdict = "CRASHED"]]
    BY <1>3 DEF Crash
  <2>2. job'[j].pc = "done" /\ \A i \in Jobs \ {j} : job'[i] = job[i]
    BY <2>1 DEF OpsInv, Shapes, Idle
  <2>3. \A i \in Jobs : Running(i)' => Running(i) /\ job'[i] = job[i]
    BY <2>2 DEF Running
  <2> QED
    BY <2>1, <2>3, QuietStep
<1> QED
  BY <1>1, <1>2, <1>3

-----------------------------------------------------------------------------
(* A task that ends takes its pipeline one task further, unless it leaves  *)
(* a blemish, which stays.                                                 *)
Ends(j, status) ==
    /\ job'[j].pc = "work" \/ Repairs(j)
    /\ job'[j].todo = Tail(job[j].todo)
    /\ job'[j].got = None
    /\ job'[j].result = [job[j].result EXCEPT ![This(j).step] = Worse(@, status)]
    /\ job'[j].ready = job[j].ready
    /\ job'[j].scope = job[j].scope
    /\ job'[j].verdict = job[j].verdict

LEMMA BlemishStays ==
    ASSUME NEW j \in Jobs, NEW status, Ends(j, status), DOMAIN job[j].result = Steps, Spoiled(j)
    PROVE  Spoiled(j)'
<1>1. PICK s \in Steps : job[j].result[s] \in Blemishes
  BY DEF Spoiled
<1>2. job'[j].result[s] = job[j].result[s]
  BY <1>1, OperationsAssumption DEF Ends, Worse, Blemishes
<1> QED
  BY <1>1, <1>2 DEF Spoiled

LEMMA Advance ==
    ASSUME NEW j \in Jobs, NEW status, Sound(j), Ends(j, status), Works(j, Steps),
           UNCHANGED published,
           ~Repairs(j) /\ OnCourse(j) /\ status \notin Blemishes =>
              /\ status = "SUCCEEDED" \/ StepOver(j)
              /\ \A i \in 1 .. Done(j) + 1 : Fulfilled(j, PipelineTasks[i])'
    PROVE  Sound(j)'
<1> DEFINE step == This(j).step
           todo == job[j].todo
<1>1. /\ DOMAIN job[j].result = Steps /\ job[j].verdict = None /\ step \in Steps
      /\ job[j].pc = "work" /\ todo # <<>>
  BY DEF Sound, Works
<1>2. /\ job'[j].todo = Tail(todo) /\ job'[j].got = None
      /\ job'[j].result = [job[j].result EXCEPT ![step] = Worse(@, status)]
      /\ job'[j].ready = job[j].ready /\ job'[j].scope = job[j].scope
      /\ job'[j].verdict = job[j].verdict
      /\ ~Repairs(j) => job'[j].pc = "work"
  BY DEF Ends
<1>3. DOMAIN job'[j].result = Steps
  BY <1>1, <1>2
<1>4. Repairs(j)' <=> Repairs(j)
  BY <1>2 DEF Repairs
<1>5. CASE Repairs(j)
  BY <1>1, <1>2, <1>3, <1>4, <1>5 DEF Sound
<1>6. ASSUME ~Repairs(j), ~Spoiled(j)' PROVE OnCourse(j)'
  <2>1. OnCourse(j)
    BY <1>1, <1>6, BlemishStays DEF Sound
  <2> DEFINE n == Len(todo)
             k == Done(j)
  <2>2. /\ todo \in Seq(PipelineTaskSet) /\ n \in 1 .. PipelineLength
        /\ PipelineLength \in Nat /\ k = PipelineLength - n /\ k \in Int
        /\ \A i \in 1 .. n : /\ todo[i] = PipelineTasks[k + i]
                             /\ job[j].result[todo[i].step] \in {None, "SUCCEEDED"}
    <3>1. /\ todo \in Seq(PipelineTaskSet) /\ n <= PipelineLength /\ PipelineLength \in Nat
          /\ \A i \in 1 .. n : /\ todo[i] = PipelineTasks[k + i]
                               /\ job[j].result[todo[i].step] \in {None, "SUCCEEDED"}
      BY <2>1, PipelineOrder DEF OnCourse
    <3>2. n \in Nat \ {0}
      BY <1>1, <3>1, EmptySeq
    <3>3. k = PipelineLength - n
      BY DEF Done
    <3> HIDE DEF n, k
    <3> QED
      BY <3>1, <3>2, <3>3
  <2>3. /\ Tail(todo) \in Seq(PipelineTaskSet) /\ Len(Tail(todo)) = n - 1
        /\ \A i \in 1 .. n - 1 : Tail(todo)[i] = todo[i + 1]
    BY <1>1, <2>2, HeadTailProperties
  <2>3a. step = todo[1].step
    BY <1>1, <2>2 DEF This
  <2>4. Done(j)' = k + 1
    <3>1. Done(j)' = PipelineLength - Len(Tail(todo))
      BY <1>2 DEF Done
    <3> HIDE DEF n, k, todo
    <3> QED
      BY <2>2, <2>3, <3>1
  <2>5. status \notin Blemishes
    <3>1. job[j].result[step] \in {None, "SUCCEEDED"}
      BY <2>2, <2>3a, 1 \in 1 .. n
    <3>2. job'[j].result[step] = status
      BY <1>1, <1>2, <3>1 DEF Worse
    <3> QED
      BY <1>1, <1>6, <3>2 DEF Spoiled
  <2>6. ASSUME NEW i \in 1 .. n - 1
        PROVE  /\ Tail(todo)[i] = PipelineTasks[k + 1 + i]
               /\ job'[j].result[Tail(todo)[i].step] \in {None, "SUCCEEDED"}
    <3>1. i + 1 \in 1 .. n /\ k + (i + 1) = k + 1 + i
      <4> HIDE DEF n, k
      <4> QED
        BY <2>2
    <3>2. /\ Tail(todo)[i] = PipelineTasks[k + 1 + i]
          /\ job[j].result[todo[i + 1].step] \in {None, "SUCCEEDED"}
      BY <2>2, <2>3, <3>1
    <3>3. CASE todo[i + 1].step # step
      BY <1>2, <2>3, <3>2, <3>3
    <3>4. CASE todo[i + 1].step = step
      <4>1. i + 1 \in 2 .. n
        BY <3>1
      <4>2. status = "SUCCEEDED"
        BY <1>6, <2>1, <2>5, <3>4, <4>1 DEF StepOver
      <4> QED
        BY <1>1, <1>2, <2>3, <3>2, <3>4, <4>2 DEF Worse
    <3> QED
      BY <3>3, <3>4
  <2>7. \A i \in 1 .. k + 1 : Fulfilled(j, PipelineTasks[i])'
    BY <1>6, <2>1, <2>5
  <2>8. job[j].ready => \A m \in Markets : published'[m] > 0
    BY <2>1 DEF OnCourse
  <2>9. Len(job'[j].todo) = n - 1 /\ n - 1 <= PipelineLength
    BY <1>2, <2>2, <2>3
  <2> HIDE DEF n, k, todo, step
  <2>10. /\ job'[j].todo \in Seq(PipelineTaskSet)
         /\ \A i \in 1 .. Len(job'[j].todo) :
               /\ job'[j].todo[i] = PipelineTasks[Done(j)' + i]
               /\ job'[j].result[job'[j].todo[i].step] \in {None, "SUCCEEDED"}
    BY <1>2, <2>3, <2>4, <2>6, <2>9
  <2> QED
    BY <1>2, <2>4, <2>7, <2>8, <2>9, <2>10 DEF OnCourse, PipelineTaskSet, PipelineLength
<1> QED
  BY <1>1, <1>2, <1>3, <1>4, <1>5, <1>6 DEF Sound

LEMMA TaskDoneEnds ==
    ASSUME OpsInv, NEW j \in Jobs, NEW status, job' = [job EXCEPT ![j] = TaskDone(j, status)]
    PROVE  Ends(j, status) /\ job'[j].hasData = job[j].hasData
<1> DEFINE new == TaskDone(j, status)
<1>1. job'[j] = new
  BY DEF OpsInv, Shapes
<1>2. /\ new.pc = "work" /\ new.todo = Tail(job[j].todo) /\ new.got = None
      /\ new.result = [job[j].result EXCEPT ![This(j).step] = Worse(@, status)]
      /\ new.ready = job[j].ready /\ new.scope = job[j].scope /\ new.verdict = job[j].verdict
      /\ new.hasData = job[j].hasData
  BY DEF OpsInv, Shapes, Fields, TaskDone
<1> HIDE DEF new
<1> QED
  BY <1>1, <1>2 DEF Ends

(* The task at hand is the one after those that are done.                  *)
LEMMA ThisTask ==
    ASSUME NEW j \in Jobs, OnCourse(j), job[j].todo # <<>>
    PROVE  /\ Done(j) + 1 \in 1 .. PipelineLength
           /\ This(j) = PipelineTasks[Done(j) + 1]
           /\ This(j).step \in Steps
           /\ \A i \in 1 .. Done(j) + 1 : i \in 1 .. (Done(j) + 1) - 1 \/ i = Done(j) + 1
<1> DEFINE n == Len(job[j].todo)
           k == Done(j) + 1
<1>1. n \in Nat \ {0} /\ n <= PipelineLength /\ PipelineLength \in Nat
  BY PipelineOrder, EmptySeq DEF OnCourse
<1>2. Done(j) = PipelineLength - n
  BY DEF Done
<1>3. This(j) = job[j].todo[1]
  BY DEF OnCourse, This
<1>4. job[j].todo[1] = PipelineTasks[k]
  BY <1>1 DEF OnCourse
<1> HIDE DEF n
<1>5. k \in 1 .. PipelineLength /\ \A i \in 1 .. k : i \in 1 .. k - 1 \/ i = k
  BY <1>1, <1>2
<1> QED
  BY <1>3, <1>4, <1>5, TasksBefore

(* What an unblemished pipeline has behind it a task keeps, and adds its   *)
(* own part.                                                               *)
LEMMA Onward ==
    ASSUME NEW j \in Jobs, OnCourse(j), job[j].todo # <<>>, NEW k, k = Done(j) + 1,
           \A i \in 1 .. k - 1 :
               Fulfilled(j, PipelineTasks[i]) => Fulfilled(j, PipelineTasks[i])',
           Fulfilled(j, PipelineTasks[k])'
    PROVE  \A i \in 1 .. Done(j) + 1 : Fulfilled(j, PipelineTasks[i])'
<1>1. \A i \in 1 .. k : i \in 1 .. k - 1 \/ i = k
  BY ThisTask
<1>2. k \in Int /\ k - 1 = Done(j)
  BY PipelineOrder, LenProperties DEF OnCourse, Done
<1>3. \A i \in 1 .. k - 1 : Fulfilled(j, PipelineTasks[i])
  BY <1>2 DEF OnCourse
<1> QED
  BY <1>1, <1>3

LEMMA WorksAtAll ==
    ASSUME NEW j \in Jobs, NEW steps \in SUBSET Steps, Works(j, steps)
    PROVE  Works(j, Steps) /\ Running(j) /\ job[j].todo # <<>> /\ This(j).step \in steps
BY DEF Works, Running

(* The security master of a market, before any prices.                     *)
LEMMA MasterOrder ==
    ASSUME OpsInv, Orderly, overrun = {}, NEW j \in Jobs, SyncMaster(j)
    PROVE  TechnicalsFollow' /\ Sound(j)'
<1>1. /\ Works(j, Steps) /\ Running(j) /\ job[j].todo # <<>> /\ This(j).step = "SECURITY_MASTER"
      /\ Ends(j, "SUCCEEDED") /\ job'[j].hasData = job[j].hasData
      /\ master' = master \cup Listed(This(j).market)
      /\ UNCHANGED <<published, price, tech, spot, futures, industry>>
  <2>1. {"SECURITY_MASTER"} \subseteq Steps
    BY DEF Steps
  <2>2. /\ Works(j, {"SECURITY_MASTER"})
        /\ job' = [job EXCEPT ![j] = TaskDone(j, "SUCCEEDED")]
        /\ master' = master \cup Listed(This(j).market)
        /\ UNCHANGED <<published, price, tech, spot, futures, industry>>
    BY DEF SyncMaster
  <2>3. /\ Works(j, Steps) /\ Running(j) /\ job[j].todo # <<>>
        /\ This(j).step \in {"SECURITY_MASTER"}
    BY <2>1, <2>2, WorksAtAll
  <2>4. Ends(j, "SUCCEEDED") /\ job'[j].hasData = job[j].hasData
    BY <2>2, TaskDoneEnds
  <2> QED
    BY <2>2, <2>3, <2>4
<1>2. TechnicalsFollow' /\ Sound(j)
  BY <1>1 DEF Orderly, TechnicalsFollow
<1>3. ASSUME OnCourse(j) PROVE \A i \in 1 .. Done(j) + 1 : Fulfilled(j, PipelineTasks[i])'
  <2>1. PICK k : k = Done(j) + 1
    OBVIOUS
  <2>2. /\ k \in 1 .. PipelineLength /\ This(j) = PipelineTasks[k]
        /\ \A i \in 1 .. k - 1 : PipelineTasks[i].step = "SECURITY_MASTER"
    BY <1>1, <1>3, <2>1, ThisTask, TasksBefore
  <2>3. \A t : t.step = "SECURITY_MASTER" =>
                  /\ Fulfilled(j, t) => Fulfilled(j, t)'
                  /\ t = This(j) => Fulfilled(j, t)'
    BY <1>1 DEF Fulfilled, Listed
  <2> QED
    BY <1>1, <1>3, <2>1, <2>2, <2>3, Onward
<1> QED
  BY <1>1, <1>2, <1>3, Advance

(* The spot and derivative datasets, before anything is derived.           *)
LEMMA DatasetOrder ==
    ASSUME OpsInv, Orderly, overrun = {}, NEW j \in Jobs, SyncSpot(j) \/ SyncDerivatives(j)
    PROVE  TechnicalsFollow' /\ Sound(j)'
<1>1. /\ Works(j, Steps) /\ Running(j) /\ job[j].todo # <<>>
      /\ This(j).step \in {"MARKET_SPOT", "DERIVATIVES"}
      /\ Ends(j, "SUCCEEDED") /\ job'[j].hasData = job[j].hasData
      /\ job'[j].ready = job[j].ready
      /\ UNCHANGED <<published, master, price, tech, industry>>
      /\ spot \subseteq spot' /\ futures \subseteq futures'
      /\ This(j).step = "MARKET_SPOT" /\ published[This(j).market] > 0
            => <<This(j).market, This(j).dataset>> \in spot'
      /\ This(j).step = "DERIVATIVES" /\ (\A m \in Markets : published[m] > 0)
            => This(j).dataset \in futures'
  <2>1. {"MARKET_SPOT"} \subseteq Steps /\ {"DERIVATIVES"} \subseteq Steps
    BY DEF Steps
  <2>2. /\ job' = [job EXCEPT ![j] = TaskDone(j, "SUCCEEDED")]
        /\ UNCHANGED <<published, master, price, tech, industry>>
    BY DEF SyncSpot, SyncDerivatives
  <2>3. /\ Ends(j, "SUCCEEDED") /\ job'[j].hasData = job[j].hasData
        /\ job'[j].ready = job[j].ready
    BY <2>2, TaskDoneEnds DEF Ends
  <2>4. CASE SyncSpot(j)
    <3>1. /\ Works(j, Steps) /\ Running(j) /\ job[j].todo # <<>>
          /\ This(j).step = "MARKET_SPOT"
      BY <2>1, <2>4, WorksAtAll DEF SyncSpot
    <3> QED
      BY <2>2, <2>3, <2>4, <3>1 DEF SyncSpot
  <2>5. CASE SyncDerivatives(j)
    <3>1. /\ Works(j, Steps) /\ Running(j) /\ job[j].todo # <<>>
          /\ This(j).step = "DERIVATIVES"
      BY <2>1, <2>5, WorksAtAll DEF SyncDerivatives
    <3> QED
      BY <2>2, <2>3, <2>5, <3>1 DEF SyncDerivatives
  <2> QED
    BY <2>4, <2>5
<1>2. TechnicalsFollow' /\ Sound(j)
  BY <1>1 DEF Orderly, TechnicalsFollow
<1>3. ASSUME OnCourse(j) PROVE \A i \in 1 .. Done(j) + 1 : Fulfilled(j, PipelineTasks[i])'
  <2>1. PICK k : k = Done(j) + 1
    OBVIOUS
  <2>2. /\ k \in 1 .. PipelineLength /\ This(j) = PipelineTasks[k]
        /\ PipelineTasks[k].step = "MARKET_SPOT" => PipelineTasks[k].market \in Markets
        /\ \A i \in 1 .. k - 1 :
              PipelineTasks[i].step \notin {"TECHNICALS", "INDUSTRY_STRENGTH"}
    BY <1>1, <1>3, <2>1, ThisTask, TasksBefore
  <2>3. \A t : Fulfilled(j, t) => Fulfilled(j, t)'
    BY <1>1 DEF Fulfilled, Listed
  <2>4. job[j].ready => \A m \in Markets : published[m] > 0
    BY <1>3 DEF OnCourse
  <2>5. ASSUME NEW t, t = This(j), t.step = "MARKET_SPOT" => t.market \in Markets
        PROVE  Fulfilled(j, t)'
    BY <1>1, <2>4, <2>5 DEF Fulfilled
  <2> QED
    BY <1>1, <1>3, <2>1, <2>2, <2>3, <2>5, Onward
<1> QED
  BY <1>1, <1>2, <1>3, Advance

(* Each of what is derived is one task.                                    *)
LEMMA DerivedOnce ==
    ASSUME NEW j \in Jobs, OnCourse(j), job[j].todo # <<>>,
           This(j).step \in {"TECHNICALS", "INDUSTRY_STRENGTH"}
    PROVE  StepOver(j)
<1> DEFINE n == Len(job[j].todo)
<1>1. PICK k : k = Done(j)
  OBVIOUS
<1>2. /\ k + 1 \in 1 .. PipelineLength /\ This(j) = PipelineTasks[k + 1]
  BY <1>1, ThisTask
<1>3. /\ n \in Nat /\ PipelineLength \in Nat /\ k = PipelineLength - n
      /\ \A i \in 1 .. n : job[j].todo[i] = PipelineTasks[k + i]
  BY <1>1, PipelineOrder, LenProperties DEF OnCourse, Done
<1> HIDE DEF n
<1>4. ASSUME NEW i \in 2 .. n PROVE job[j].todo[i].step # This(j).step
  <2>1. i \in 1 .. n /\ k + i \in 1 .. PipelineLength /\ k + 1 \in 1 .. (k + i) - 1
    BY <1>2, <1>3
  <2>2. \/ PipelineTasks[k + i].step \notin {"TECHNICALS", "INDUSTRY_STRENGTH"}
        \/ PipelineTasks[k + i].step # PipelineTasks[k + 1].step
    BY <2>1, TasksBefore
  <2> QED
    BY <1>2, <1>3, <2>1, <2>2
<1> QED
  BY <1>4 DEF StepOver, n

(* A pipeline without prices has nothing to derive.                        *)
LEMMA SkipOrder ==
    ASSUME OpsInv, Orderly, overrun = {}, NEW j \in Jobs, SkipDerived(j)
    PROVE  TechnicalsFollow' /\ Sound(j)'
<1>1. /\ Works(j, Steps) /\ Running(j) /\ job[j].todo # <<>>
      /\ This(j).step \in {"TECHNICALS", "INDUSTRY_STRENGTH"}
      /\ Ends(j, "SKIPPED") /\ job'[j].hasData = job[j].hasData /\ ~job[j].hasData
      /\ job'[j].ready = job[j].ready
      /\ UNCHANGED <<published, master, price, tech, spot, futures, industry>>
  <2>1. {"TECHNICALS", "INDUSTRY_STRENGTH"} \subseteq Steps
    BY DEF Steps
  <2>2. /\ Works(j, {"TECHNICALS", "INDUSTRY_STRENGTH"})
        /\ job' = [job EXCEPT ![j] = TaskDone(j, "SKIPPED")]
        /\ ~job[j].hasData
        /\ UNCHANGED <<published, master, price, tech, spot, futures, industry>>
    BY DEF SkipDerived, data
  <2>3. /\ Works(j, Steps) /\ Running(j) /\ job[j].todo # <<>>
        /\ This(j).step \in {"TECHNICALS", "INDUSTRY_STRENGTH"}
    BY <2>1, <2>2, WorksAtAll
  <2> QED
    BY <2>2, <2>3, TaskDoneEnds DEF Ends
<1>2. TechnicalsFollow' /\ Sound(j)
  BY <1>1 DEF Orderly, TechnicalsFollow
<1>3. ASSUME OnCourse(j) PROVE \A i \in 1 .. Done(j) + 1 : Fulfilled(j, PipelineTasks[i])'
  <2>1. PICK k : k = Done(j) + 1
    OBVIOUS
  <2>2. k \in 1 .. PipelineLength /\ This(j) = PipelineTasks[k]
    BY <1>1, <1>3, <2>1, ThisTask
  <2>3. \A t : Fulfilled(j, t) => Fulfilled(j, t)'
    BY <1>1 DEF Fulfilled, Listed
  <2>4. \A t : t.step \in {"TECHNICALS", "INDUSTRY_STRENGTH"} => Fulfilled(j, t)'
    BY <1>1 DEF Fulfilled
  <2> QED
    BY <1>1, <1>3, <2>1, <2>2, <2>3, <2>4, Onward
<1> QED
  BY <1>1, <1>2, <1>3, DerivedOnce, Advance

(* What a job has in hand while it works on a task does not move it on.    *)
LEMMA InHand ==
    ASSUME NEW j \in Jobs, Sound(j), Works(j, Steps), NEW new, job'[j] = new,
           UNCHANGED <<published, data>>,
           new.pc = "work", new.todo = job[j].todo, new.result = job[j].result,
           new.hasData = job[j].hasData, new.ready = job[j].ready,
           new.scope = job[j].scope, new.verdict = job[j].verdict,
           OnCourse(j) /\ job[j].ready /\ This(j).step = "DAILY_PRICES" /\ new.got # None
              => new.got > 0,
           ~Repairs(j) /\ This(j).step = "TECHNICALS" /\ new.got # None
              => new.got = [s \in master |-> price[s]]
    PROVE  Sound(j)'
<1>1. /\ Repairs(j)' <=> Repairs(j)
      /\ Spoiled(j)' <=> Spoiled(j)
      /\ Done(j)' = Done(j)
      /\ This(j)' = This(j)
      /\ job[j].todo # <<>>
  BY DEF Repairs, Spoiled, Done, This, Works
<1>2. UNCHANGED <<published, master, price, tech, spot, futures, industry>>
  BY DEF data
<1>3. OnCourse(j) => OnCourse(j)'
  <2>1. \A t : Fulfilled(j, t)' <=> Fulfilled(j, t)
    BY <1>2 DEF Fulfilled, Listed
  <2>2. Works(j, {"DAILY_PRICES"})' => This(j).step = "DAILY_PRICES"
    BY <1>1 DEF Works
  <2> QED
    BY <1>1, <1>2, <2>1, <2>2 DEF OnCourse
<1>4. Works(j, {"TECHNICALS"})' => This(j).step = "TECHNICALS"
  BY <1>1 DEF Works
<1> QED
  BY <1>1, <1>2, <1>3, <1>4 DEF Sound

(* A pipeline that found the date published fetches what is published.     *)
LEMMA FetchOrder ==
    ASSUME OpsInv, Orderly, overrun = {}, NEW j \in Jobs, FetchPrices(j)
    PROVE  TechnicalsFollow' /\ Sound(j)'
<1> DEFINE got == published[This(j).market]
           new == [job[j] EXCEPT !.got = got]
<1>1. /\ job' = [job EXCEPT ![j] = new]
      /\ UNCHANGED <<published, data>>
      /\ Works(j, {"DAILY_PRICES"})
  BY DEF FetchPrices
<1>2. Works(j, Steps) /\ Running(j) /\ job[j].todo # <<>> /\ This(j).step = "DAILY_PRICES"
  <2>1. {"DAILY_PRICES"} \subseteq Steps
    BY DEF Steps
  <2> QED
    BY <1>1, <2>1, WorksAtAll
<1>3. TechnicalsFollow' /\ Sound(j)
  BY <1>1, <1>2 DEF Orderly, TechnicalsFollow, data
<1>4. /\ job'[j] = new
      /\ new.pc = "work" /\ new.todo = job[j].todo /\ new.result = job[j].result
      /\ new.hasData = job[j].hasData /\ new.ready = job[j].ready
      /\ new.scope = job[j].scope /\ new.verdict = job[j].verdict /\ new.got = got
  BY <1>1, <1>2 DEF OpsInv, Shapes, Fields, Works
<1>5. ASSUME OnCourse(j), job[j].ready PROVE got > 0
  <2>1. PICK k : k = Done(j) + 1
    OBVIOUS
  <2>2. This(j).market \in Markets
    BY <1>2, <1>5, <2>1, ThisTask, TasksBefore
  <2> QED
    BY <1>5, <2>2 DEF OnCourse
<1> HIDE DEF new, got
<1> QED
  BY <1>1, <1>2, <1>3, <1>4, <1>5, InHand

LEMMA ReadOrder ==
    ASSUME OpsInv, Orderly, overrun = {}, NEW j \in Jobs, ReadForTechnicals(j)
    PROVE  TechnicalsFollow' /\ Sound(j)'
<1> DEFINE new == [job[j] EXCEPT !.got = [s \in master |-> price[s]]]
<1>1. /\ job' = [job EXCEPT ![j] = new]
      /\ UNCHANGED <<published, data>>
      /\ Works(j, {"TECHNICALS"})
  BY DEF ReadForTechnicals
<1>2. Works(j, Steps) /\ Running(j) /\ This(j).step = "TECHNICALS"
  <2>1. {"TECHNICALS"} \subseteq Steps
    BY DEF Steps
  <2> QED
    BY <1>1, <2>1, WorksAtAll
<1>3. TechnicalsFollow' /\ Sound(j)
  BY <1>1, <1>2 DEF Orderly, TechnicalsFollow, data
<1>4. /\ job'[j] = new
      /\ new.pc = "work" /\ new.todo = job[j].todo /\ new.result = job[j].result
      /\ new.hasData = job[j].hasData /\ new.ready = job[j].ready
      /\ new.scope = job[j].scope /\ new.verdict = job[j].verdict
      /\ new.got = [s \in master |-> price[s]]
  BY <1>1, <1>2 DEF OpsInv, Shapes, Fields, Works
<1> HIDE DEF new
<1> QED
  BY <1>1, <1>2, <1>3, <1>4, InHand

(* An attempt that is repeated starts over; a failure leaves its blemish.  *)
LEMMA FailOrder ==
    ASSUME OpsInv, Orderly, overrun = {}, NEW j \in Jobs, SyncFails(j)
    PROVE  TechnicalsFollow' /\ Sound(j)'
<1>1. /\ Works(j, Syncs)
      /\ UNCHANGED <<published, data>>
  BY DEF SyncFails
<1>2. Works(j, Steps) /\ Running(j) /\ job[j].todo # <<>> /\ This(j).step \in Syncs
  <2>1. Syncs \subseteq Steps
    BY DEF Steps, Syncs
  <2> QED
    BY <1>1, <2>1, WorksAtAll
<1>3. TechnicalsFollow' /\ Sound(j)
  BY <1>1, <1>2 DEF Orderly, TechnicalsFollow, data
<1>4. CASE job' = [job EXCEPT ![j].retried = TRUE, ![j].got = None]
  <2> DEFINE new == [job[j] EXCEPT !.retried = TRUE, !.got = None]
  <2>1. job' = [job EXCEPT ![j] = new]
    BY <1>4
  <2>2. /\ job'[j] = new
        /\ new.pc = "work" /\ new.todo = job[j].todo /\ new.result = job[j].result
        /\ new.hasData = job[j].hasData /\ new.ready = job[j].ready
        /\ new.scope = job[j].scope /\ new.verdict = job[j].verdict /\ new.got = None
    BY <1>2, <2>1 DEF OpsInv, Shapes, Fields, Works
  <2> HIDE DEF new
  <2> QED
    BY <1>1, <1>2, <1>3, <2>2, InHand
<1>5. CASE job' = [job EXCEPT ![j] = TaskFailed(j)]
  <2> DEFINE new == TaskFailed(j)
             step == This(j).step
  <2>1. /\ job'[j] = new
        /\ new.pc = "work" /\ new.got = None
        /\ new.result = [job[j].result EXCEPT ![step] = FailureStatus(step)]
        /\ new.scope = job[j].scope /\ new.verdict = job[j].verdict
    BY <1>5 DEF OpsInv, Shapes, Fields, TaskFailed
  <2>2. step \in Steps /\ FailureStatus(step) \in Blemishes
    BY <1>2 DEF Syncs, Steps, FailureStatus, Blemishes
  <2> HIDE DEF new
  <2>3. DOMAIN job'[j].result = Steps /\ Spoiled(j)'
    BY <1>3, <2>1, <2>2 DEF Sound, Spoiled
  <2> QED
    BY <1>3, <2>1, <2>3 DEF Sound
<1> QED
  BY <1>4, <1>5 DEF SyncFails

(* Storing the prices of a market: unless rows were rejected, every stock  *)
(* of a published market has a price, and none of an unpublished one.      *)
LEMMA StoreOrder ==
    ASSUME OpsInv, Orderly, overrun = {}, NEW j \in Jobs, StorePrices(j)
    PROVE  TechnicalsFollow' /\ Sound(j)'
<1> DEFINE got == job[j].got
           arrived == IF got = 0 THEN {} ELSE Wanted(j)
           stored == arrived \cap master
           recalculates == Repairs(j) /\ job[j].scope.code # None
<1>1. /\ Works(j, {"DAILY_PRICES"}) /\ got # None
      /\ UNCHANGED <<published, master, tech, spot, futures, industry>>
      /\ price' = [s \in Stocks |-> IF s \in stored THEN got ELSE price[s]]
  BY DEF StorePrices
<1>2. Works(j, Steps) /\ Running(j) /\ job[j].todo # <<>> /\ This(j).step = "DAILY_PRICES"
  <2>1. {"DAILY_PRICES"} \subseteq Steps
    BY DEF Steps
  <2> QED
    BY <1>1, <2>1, WorksAtAll
<1>3. Sound(j) /\ TechnicalsFollow'
  <2>1. Sound(j) /\ TechnicalsFollow
    BY <1>2 DEF Orderly
  <2>2. /\ \A s \in Stocks : price'[s] >= price[s] /\ price'[s] \in Nat /\ price[s] \in Nat
    BY StoreStep DEF OpsInv, Shapes
  <2> QED
    BY <1>1, <2>1, <2>2 DEF TechnicalsFollow
<1>4. PICK status : /\ Ends(j, status)
                    /\ job'[j].hasData = (job[j].hasData \/ stored # {})
                    /\ status \in {"PARTIAL", "NO_DATA", "SUCCEEDED"}
                    /\ status = "NO_DATA" => StepOver(j)
                    /\ status # "PARTIAL" => arrived = stored
  <2> DEFINE hasData == job[j].hasData \/ stored # {}
             nothing == /\ StepOver(j) /\ ~hasData /\ arrived = {}
                        /\ job[j].result["DAILY_PRICES"] \in {None, "SUCCEEDED"}
             status == IF arrived # stored THEN "PARTIAL" ELSE IF nothing THEN "NO_DATA"
                       ELSE "SUCCEEDED"
  <2>1. job' = [job EXCEPT ![j] = [TaskDone(j, status) EXCEPT
                                      !.hasData = hasData,
                                      !.pc = IF recalculates THEN "recalculate" ELSE "work"]]
    BY DEF StorePrices
  <2>2. /\ status \in {"PARTIAL", "NO_DATA", "SUCCEEDED"}
        /\ status = "NO_DATA" => StepOver(j)
        /\ status # "PARTIAL" => arrived = stored
    OBVIOUS
  <2> DEFINE done == TaskDone(j, status)
             new == [done EXCEPT !.hasData = hasData,
                                 !.pc = IF recalculates THEN "recalculate" ELSE "work"]
  <2> HIDE DEF status, hasData
  <2>3. /\ DOMAIN done = Fields /\ done.todo = Tail(job[j].todo) /\ done.got = None
        /\ done.result = [job[j].result EXCEPT ![This(j).step] = Worse(@, status)]
        /\ done.ready = job[j].ready /\ done.scope = job[j].scope
        /\ done.verdict = job[j].verdict
    BY DEF OpsInv, Shapes, Fields, TaskDone
  <2>4. job'[j] = new
    BY <2>1 DEF OpsInv, Shapes
  <2> HIDE DEF done, recalculates
  <2>5. /\ new.pc = (IF recalculates THEN "recalculate" ELSE "work") /\ new.hasData = hasData
        /\ new.todo = done.todo /\ new.got = done.got /\ new.result = done.result
        /\ new.ready = done.ready /\ new.scope = done.scope /\ new.verdict = done.verdict
    BY <2>3 DEF Fields
  <2> HIDE DEF new
  <2>6. Ends(j, status) /\ job'[j].hasData = hasData
    BY <2>3, <2>4, <2>5 DEF Ends, recalculates
  <2> QED
    BY <2>2, <2>6 DEF hasData
<1>5. ASSUME ~Repairs(j), OnCourse(j), status # "PARTIAL"
      PROVE  \A i \in 1 .. Done(j) + 1 : Fulfilled(j, PipelineTasks[i])'
  <2>1. PICK k : k = Done(j) + 1
    OBVIOUS
  <2>2. /\ k \in 1 .. PipelineLength /\ This(j) = PipelineTasks[k]
        /\ This(j).market \in Markets
        /\ \A i \in 1 .. k - 1 :
              \/ PipelineTasks[i].step = "SECURITY_MASTER"
              \/ /\ PipelineTasks[i].step = "DAILY_PRICES"
                 /\ PipelineTasks[i].market # This(j).market
    BY <1>2, <1>5, <2>1, ThisTask, TasksBefore
  <2>3. Wanted(j) = Listed(This(j).market)
    BY <1>5 DEF Wanted
  <2>4. job'[j].ready = job[j].ready
    BY <1>4 DEF Ends
  <2>5. \A s \in Stocks : price[s] \in Nat
    BY DEF OpsInv, Shapes
  <2>6. \A s \in Listed(This(j).market) : got \in Nat /\ price[s] <= got
    BY <1>1, <2>3 DEF OpsInv, CarriedIsNew, Carries
  <2>7. job[j].ready => got > 0
    BY <1>1, <1>5 DEF OnCourse
  <2>8. \E s \in Stocks : s \in Listed(This(j).market)
    BY <2>2, OperationsAssumption DEF Listed
  <2>9. ASSUME NEW t, t = This(j) PROVE Fulfilled(j, t)'
    <3>1. CASE got = 0
      <4>1. \A s \in Listed(This(j).market) : price'[s] = 0
        BY <1>1, <2>5, <2>6, <3>1 DEF Listed
      <4>2. ~job'[j].ready
        BY <2>4, <2>7, <3>1
      <4> QED
        BY <1>2, <2>9, <4>1, <4>2 DEF Fulfilled, Listed
    <3>2. CASE got # 0
      <4>1. stored = Listed(This(j).market)
        BY <1>4, <1>5, <2>3, <3>2
      <4>2. \A s \in Listed(This(j).market) : price'[s] > 0
        BY <1>1, <2>6, <3>2, <4>1 DEF Listed
      <4>3. job'[j].hasData
        BY <1>4, <2>8, <4>1
      <4> QED
        BY <1>2, <2>9, <4>2, <4>3 DEF Fulfilled, Listed
    <3> QED
      BY <3>1, <3>2
  <2>10. ASSUME NEW t, t.step = "SECURITY_MASTER" PROVE Fulfilled(j, t) => Fulfilled(j, t)'
    BY <1>1, <2>10 DEF Fulfilled, Listed
  <2>11. ASSUME NEW t, t.step = "DAILY_PRICES", t.market # This(j).market
         PROVE  Fulfilled(j, t) => Fulfilled(j, t)'
    <3>1. \A s \in Listed(t.market) : price'[s] = price[s]
      BY <1>1, <2>3, <2>11 DEF Listed
    <3> QED
      BY <1>4, <2>4, <2>11, <3>1 DEF Fulfilled, Listed
  <2>12. \A i \in 1 .. k - 1 : Fulfilled(j, PipelineTasks[i]) => Fulfilled(j, PipelineTasks[i])'
    BY <2>2, <2>10, <2>11
  <2> HIDE DEF got, stored, arrived
  <2>13. Fulfilled(j, PipelineTasks[k])'
    BY <2>2, <2>9
  <2> QED
    BY <1>2, <1>5, <2>1, <2>12, <2>13, Onward
<1>6. UNCHANGED published
  BY <1>1
<1> HIDE DEF got, arrived, stored
<1> QED
  BY <1>2, <1>3, <1>4, <1>5, <1>6, Advance DEF Blemishes

LEMMA CacheFailOrder ==
    ASSUME OpsInv, Orderly, overrun = {}, NEW j \in Jobs, CacheFails(j)
    PROVE  TechnicalsFollow' /\ Sound(j)'
<1> DEFINE step == This(j).step
           done == TaskDone(j, "SUCCEEDED")
           new == [done EXCEPT !.result[step] = "FAILED"]
<1>1. /\ Works(j, {"MARKET_SPOT", "DERIVATIVES"})
      /\ job' = [job EXCEPT ![j] = new]
      /\ UNCHANGED data
  BY DEF CacheFails
<1>2. Works(j, Steps) /\ Running(j) /\ step \in Steps
  <2>1. {"MARKET_SPOT", "DERIVATIVES"} \subseteq Steps
    BY DEF Steps
  <2> QED
    BY <1>1, <2>1, WorksAtAll
<1>3. TechnicalsFollow' /\ Sound(j)
  BY <1>1, <1>2 DEF Orderly, TechnicalsFollow, data
<1>4. /\ DOMAIN done = Fields /\ done.pc = "work" /\ done.got = None
      /\ DOMAIN done.result = DOMAIN job[j].result
      /\ done.scope = job[j].scope /\ done.verdict = job[j].verdict
  BY DEF OpsInv, Shapes, Fields, TaskDone
<1>5. job'[j] = new
  BY <1>1 DEF OpsInv, Shapes
<1> HIDE DEF done
<1>6. /\ new.pc = "work" /\ new.got = None
      /\ new.result = [done.result EXCEPT ![step] = "FAILED"]
      /\ new.scope = job[j].scope /\ new.verdict = job[j].verdict
  BY <1>4 DEF Fields
<1> HIDE DEF new
<1>7. DOMAIN job'[j].result = Steps /\ job'[j].result[step] = "FAILED"
  BY <1>2, <1>3, <1>4, <1>5, <1>6 DEF Sound
<1>8. Spoiled(j)'
  BY <1>2, <1>7 DEF Spoiled, Blemishes
<1> QED
  BY <1>3, <1>5, <1>6, <1>7, <1>8 DEF Sound

(* The snapshots of a batch follow the prices it read, which are still the *)
(* prices there are; and a batch of which nothing failed had every stock.  *)
LEMMA CommitOrder ==
    ASSUME OpsInv, Orderly, overrun = {}, NEW j \in Jobs, CommitTechnicals(j)
    PROVE  TechnicalsFollow' /\ Sound(j)'
<1> DEFINE got == job[j].got
<1>1. /\ ~Repairs(j) /\ Works(j, {"TECHNICALS"}) /\ got # None
      /\ UNCHANGED <<published, master, price, spot, futures, industry>>
  BY DEF CommitTechnicals
<1>2. Works(j, Steps) /\ Running(j) /\ job[j].todo # <<>> /\ This(j).step = "TECHNICALS"
  <2>1. {"TECHNICALS"} \subseteq Steps
    BY DEF Steps
  <2> QED
    BY <1>1, <2>1, WorksAtAll
<1>3. Sound(j) /\ TechnicalsFollow
  BY <1>2 DEF Orderly
<1>4. got = [s \in master |-> price[s]]
  BY <1>1, <1>3 DEF Sound
<1>5. \A s \in Stocks : price[s] \in Nat
  BY DEF OpsInv, Shapes
<1>6. ASSUME NEW some \in SUBSET master,
             tech' = [s \in Stocks |-> IF s \in some THEN got[s] ELSE tech[s]]
      PROVE  TechnicalsFollow'
  BY <1>1, <1>3, <1>4, <1>5, <1>6 DEF TechnicalsFollow
<1>7. PICK status : /\ job' = [job EXCEPT ![j] = TaskDone(j, status)]
                    /\ TechnicalsFollow'
                    /\ status \in {"SUCCEEDED", "PARTIAL", "FAILED"}
                    /\ status = "SUCCEEDED" => \A s \in master : tech'[s] = price[s]
  <2>1. CASE /\ tech' = [s \in Stocks |-> IF s \in DOMAIN got THEN got[s] ELSE tech[s]]
             /\ job' = [job EXCEPT ![j] = TaskDone(j, "SUCCEEDED")]
    <3>1. DOMAIN got = master /\ master \subseteq Stocks
      BY <1>4 DEF Orderly
    <3>2. TechnicalsFollow'
      BY <1>6, <2>1, <3>1
    <3>3. \A s \in master : tech'[s] = price[s]
      BY <1>4, <2>1, <3>1
    <3> QED
      BY <2>1, <3>2, <3>3
  <2>2. CASE /\ \E bad \in SUBSET DOMAIN got \ {{}} :
                   tech' = [s \in Stocks |-> IF s \in DOMAIN got \ bad THEN got[s] ELSE tech[s]]
             /\ job' = [job EXCEPT ![j] = TaskDone(j, "PARTIAL")]
    <3>1. DOMAIN got = master
      BY <1>4
    <3>2. PICK bad \in SUBSET DOMAIN got \ {{}} :
             tech' = [s \in Stocks |-> IF s \in DOMAIN got \ bad THEN got[s] ELSE tech[s]]
      BY <2>2
    <3>3. DOMAIN got \ bad \in SUBSET master
      BY <3>1
    <3>4. TechnicalsFollow'
      BY <1>6, <3>2, <3>3
    <3> WITNESS "PARTIAL"
    <3> QED
      BY <2>2, <3>4
  <2>3. CASE tech' = tech /\ job' = [job EXCEPT ![j] = TaskDone(j, "FAILED")]
    <3>1. TechnicalsFollow'
      BY <1>1, <1>3, <2>3 DEF TechnicalsFollow
    <3> WITNESS "FAILED"
    <3> QED
      BY <2>3, <3>1
  <2> QED
    BY <2>1, <2>2, <2>3 DEF CommitTechnicals
<1>8. Ends(j, status) /\ job'[j].hasData = job[j].hasData /\ job'[j].ready = job[j].ready
  BY <1>7, TaskDoneEnds DEF Ends
<1>9. ASSUME OnCourse(j), status = "SUCCEEDED"
      PROVE  \A i \in 1 .. Done(j) + 1 : Fulfilled(j, PipelineTasks[i])'
  <2>1. PICK k : k = Done(j) + 1
    OBVIOUS
  <2>2. /\ k \in 1 .. PipelineLength /\ This(j) = PipelineTasks[k]
        /\ \A i \in 1 .. k - 1 :
              PipelineTasks[i].step \notin {"TECHNICALS", "INDUSTRY_STRENGTH"}
    BY <1>2, <1>9, <2>1, ThisTask, TasksBefore
  <2>3. ASSUME NEW t, t.step \notin {"TECHNICALS", "INDUSTRY_STRENGTH"}
        PROVE  Fulfilled(j, t) => Fulfilled(j, t)'
    BY <1>1, <1>8, <2>3 DEF Fulfilled, Listed
  <2>4. ASSUME NEW t, t.step = "TECHNICALS" PROVE Fulfilled(j, t)'
    BY <1>1, <1>7, <1>9, <2>4 DEF Fulfilled
  <2> QED
    BY <1>2, <1>9, <2>1, <2>2, <2>3, <2>4, Onward
<1>10. UNCHANGED published
  BY <1>1
<1> HIDE DEF got
<1> QED
  BY <1>2, <1>3, <1>7, <1>8, <1>9, <1>10, Advance DEF Blemishes

LEMMA IndustryOrder ==
    ASSUME OpsInv, Orderly, overrun = {}, NEW j \in Jobs, CalculateIndustry(j)
    PROVE  TechnicalsFollow' /\ Sound(j)'
<1>1. /\ Works(j, {"INDUSTRY_STRENGTH"})
      /\ UNCHANGED <<published, master, price, tech, spot, futures>>
  BY DEF CalculateIndustry
<1>2. Works(j, Steps) /\ Running(j) /\ job[j].todo # <<>> /\ This(j).step = "INDUSTRY_STRENGTH"
  <2>1. {"INDUSTRY_STRENGTH"} \subseteq Steps
    BY DEF Steps
  <2> QED
    BY <1>1, <2>1, WorksAtAll
<1>3. TechnicalsFollow' /\ Sound(j)
  BY <1>1, <1>2 DEF Orderly, TechnicalsFollow
<1>4. PICK status : /\ job' = [job EXCEPT ![j] = TaskDone(j, status)]
                    /\ status \in {"SUCCEEDED", "FAILED"}
                    /\ status = "SUCCEEDED" => industry' = [s \in master |-> price[s]]
  <2>1. CASE /\ industry' = [s \in master |-> price[s]]
             /\ job' = [job EXCEPT ![j] = TaskDone(j, "SUCCEEDED")]
    BY <2>1
  <2>2. CASE job' = [job EXCEPT ![j] = TaskDone(j, "FAILED")]
    <3> WITNESS "FAILED"
    <3> QED
      BY <2>2
  <2> QED
    BY <2>1, <2>2 DEF CalculateIndustry
<1>5. Ends(j, status) /\ job'[j].hasData = job[j].hasData /\ job'[j].ready = job[j].ready
  BY <1>4, TaskDoneEnds DEF Ends
<1>6. ASSUME OnCourse(j), status = "SUCCEEDED"
      PROVE  \A i \in 1 .. Done(j) + 1 : Fulfilled(j, PipelineTasks[i])'
  <2>1. PICK k : k = Done(j) + 1
    OBVIOUS
  <2>2. /\ k \in 1 .. PipelineLength /\ This(j) = PipelineTasks[k]
        /\ \A i \in 1 .. k - 1 : PipelineTasks[i].step # "INDUSTRY_STRENGTH"
    BY <1>2, <1>6, <2>1, ThisTask, TasksBefore
  <2>3. ASSUME NEW t, t.step # "INDUSTRY_STRENGTH"
        PROVE  Fulfilled(j, t) => Fulfilled(j, t)'
    BY <1>1, <1>5, <2>3 DEF Fulfilled, Listed
  <2>4. ASSUME NEW t, t.step = "INDUSTRY_STRENGTH" PROVE Fulfilled(j, t)'
    BY <1>1, <1>4, <1>6, <2>4 DEF Fulfilled
  <2> QED
    BY <1>2, <1>6, <2>1, <2>2, <2>3, <2>4, Onward
<1>7. UNCHANGED published
  BY <1>1
<1> QED
  BY <1>2, <1>3, <1>4, <1>5, <1>6, <1>7, Advance DEF Blemishes

(* The technicals a repair recalculates follow the price it stored, also   *)
(* when they are committed with the audit trail.                           *)
LEMMA RecalculateOrder ==
    ASSUME OpsInv, Orderly, overrun = {}, NEW j \in Jobs, Recalculate(j)
    PROVE  TechnicalsFollow' /\ Sound(j)'
<1> DEFINE s == job[j].scope.code
           got == IF s \in master THEN price[s] ELSE None
           new == [job[j] EXCEPT !.pc = "work", !.error = s \notin master, !.got = got]
<1>1. job' = [job EXCEPT ![j] = new] /\ job[j].pc = "recalculate" /\ UNCHANGED data
  BY DEF Recalculate
<1>2. Repairs(j) /\ Running(j)
  BY <1>1 DEF OpsInv, Shapes, Running
<1>3. TechnicalsFollow' /\ Sound(j)
  BY <1>1, <1>2 DEF Orderly, TechnicalsFollow, data
<1>4. /\ job'[j] = new /\ new.result = job[j].result /\ new.scope = job[j].scope
      /\ new.verdict = job[j].verdict /\ new.got = got
  BY <1>1 DEF OpsInv, Shapes, Fields
<1> HIDE DEF new
<1>5. Repairs(j)' /\ UNCHANGED price
  BY <1>1, <1>2, <1>4 DEF Repairs, data
<1>6. job'[j].got # None => job'[j].got = price[job'[j].scope.code]
  BY <1>4
<1> QED
  BY <1>3, <1>4, <1>5, <1>6 DEF Sound

LEMMA EndOrder ==
    ASSUME OpsInv, Orderly, overrun = {}, NEW j \in Jobs, EndPipeline(j) \/ EndRepair(j)
    PROVE  TechnicalsFollow' /\ ~Running(j)'
<1>1. ~Running(j)'
  <2>1. CASE EndPipeline(j)
    BY <2>1 DEF EndPipeline, OpsInv, Shapes, Idle, Running
  <2>2. CASE EndRepair(j)
    <3>1. PICK verdict : job' = [job EXCEPT ![j] =
                                      [Idle EXCEPT !.pc = "done", !.verdict = verdict]]
      BY <2>2 DEF EndRepair
    <3> QED
      BY <3>1 DEF OpsInv, Shapes, Idle, Running
  <2> QED
    BY <2>1, <2>2
<1>2. Running(j) /\ UNCHANGED price
  BY DEF EndPipeline, EndRepair, Running, data
<1>3. TechnicalsFollow /\ Sound(j)
  BY <1>2 DEF Orderly
<1>4. CASE UNCHANGED tech
  BY <1>1, <1>2, <1>3, <1>4 DEF TechnicalsFollow
<1>5. CASE EndRepair(j) /\ job[j].got # None /\ tech' = [tech EXCEPT ![job[j].scope.code] = job[j].got]
  <2>1. job[j].got = price[job[j].scope.code]
    BY <1>3, <1>5 DEF EndRepair, Sound
  <2>2. \A s \in Stocks : price[s] \in Nat
    BY DEF OpsInv, Shapes
  <2>3. PICK c : tech' = [tech EXCEPT ![c] = price[c]]
    BY <1>5, <2>1
  <2>4. tech' = [s \in Stocks |-> IF s = c THEN price[s] ELSE tech[s]]
    BY <1>3, <2>3 DEF TechnicalsFollow
  <2>5. TechnicalsFollow'
    BY <1>2, <1>3, <2>2, <2>4 DEF TechnicalsFollow
  <2> QED
    BY <1>1, <2>5
<1> QED
  BY <1>4, <1>5 DEF EndPipeline, EndRepair, data

(* A step of a job at work is a step of no other job.                      *)
LEMMA WorkFrame ==
    ASSUME OpsInv, NEW j \in Jobs, Work(j)
    PROVE  Running(j) /\ \A i \in Jobs \ {j} : job'[i] = job[i]
<1>1. Running(j)
  <2>1. SyncFails(j) \/ SyncMaster(j) \/ FetchPrices(j) \/ StorePrices(j) \/ SyncSpot(j)
           \/ SyncDerivatives(j) \/ CacheFails(j) => Running(j)
    BY DEF SyncFails, SyncMaster, FetchPrices, StorePrices, SyncSpot, SyncDerivatives, CacheFails,
       Works, Running
  <2>2. SkipDerived(j) \/ ReadForTechnicals(j) \/ CommitTechnicals(j) \/ CalculateIndustry(j)
           \/ EndPipeline(j) \/ Recalculate(j) \/ EndRepair(j) => Running(j)
    BY DEF SkipDerived, ReadForTechnicals, CommitTechnicals, CalculateIndustry, EndPipeline,
       Recalculate, EndRepair, Works, Running
  <2> QED
    BY <2>1, <2>2 DEF Work
<1>2. \A i \in Jobs \ {j} : job'[i] = job[i]
  <2>1. ASSUME NEW new, job' = [job EXCEPT ![j] = new] PROVE \A i \in Jobs \ {j} : job'[i] = job[i]
    BY <2>1 DEF OpsInv, Shapes
  <2>2. CASE SyncFails(j)
    <3>1. CASE job' = [job EXCEPT ![j].retried = TRUE, ![j].got = None]
      BY <3>1 DEF OpsInv, Shapes
    <3> QED
      BY <2>1, <2>2, <3>1 DEF SyncFails
  <2>3. SyncMaster(j) \/ FetchPrices(j) \/ StorePrices(j) \/ SyncSpot(j) \/ SyncDerivatives(j)
           \/ CacheFails(j) => \A i \in Jobs \ {j} : job'[i] = job[i]
    BY <2>1 DEF SyncMaster, FetchPrices, StorePrices, SyncSpot, SyncDerivatives, CacheFails
  <2>4. SkipDerived(j) \/ ReadForTechnicals(j) \/ CommitTechnicals(j) \/ CalculateIndustry(j)
           \/ EndPipeline(j) \/ Recalculate(j) \/ EndRepair(j)
           => \A i \in Jobs \ {j} : job'[i] = job[i]
    BY <2>1 DEF SkipDerived, ReadForTechnicals, CommitTechnicals, CalculateIndustry, EndPipeline,
       Recalculate, EndRepair
  <2> QED
    BY <2>2, <2>3, <2>4 DEF Work
<1> QED
  BY <1>1, <1>2

LEMMA WorkOrder == ASSUME OpsInv, Orderly, NEW j \in Jobs, Work(j) PROVE Orderly'
<1>1. UNCHANGED overrun
  BY DEF Work, SyncFails, SyncMaster, FetchPrices, StorePrices, SyncSpot, SyncDerivatives,
     CacheFails, SkipDerived, ReadForTechnicals, CommitTechnicals, CalculateIndustry,
     EndPipeline, Recalculate, EndRepair
<1>2. IsFiniteSet(spot')
  <2>1. spot' = spot \/ \E row : spot' = spot \cup {row}
    BY DEF Work, SyncFails, SyncMaster, FetchPrices, StorePrices, SyncSpot, SyncDerivatives,
       CacheFails, SkipDerived, ReadForTechnicals, CommitTechnicals, CalculateIndustry,
       EndPipeline, Recalculate, EndRepair, data
  <2> QED
    BY <2>1, FS_AddElement DEF Orderly
<1>3. master' \subseteq Stocks
  <2>1. master' = master \/ \E m : master' = master \cup Listed(m)
    BY DEF Work, SyncFails, SyncMaster, FetchPrices, StorePrices, SyncSpot, SyncDerivatives,
       CacheFails, SkipDerived, ReadForTechnicals, CommitTechnicals, CalculateIndustry,
       EndPipeline, Recalculate, EndRepair, data
  <2> QED
    BY <2>1 DEF Orderly, Listed
<1>4. overrun = {} => TechnicalsFollow' /\ (Running(j)' => Sound(j)')
  BY FailOrder, MasterOrder, FetchOrder, StoreOrder, DatasetOrder, CacheFailOrder, SkipOrder,
     ReadOrder, CommitOrder, IndustryOrder, RecalculateOrder, EndOrder
  DEF Work
<1> QED
  BY <1>1, <1>2, <1>3, <1>4, WorkFrame, OwnStep

LEMMA OrderlyStep == ASSUME OpsInv, Orderly, [Next]_vars PROVE Orderly'
<1>1. CASE UNCHANGED vars
  BY <1>1, QuietStep DEF vars, Running
<1> QED
  BY <1>1, StartOrder, AroundOrder, WorkOrder DEF Next

(* A snapshot of the technicals never follows a price newer than the one   *)
(* stored, and an unblemished pipeline has fulfilled every task before the *)
(* one at hand (run_daily_pipeline.py), unless a job outlived its lock.    *)
THEOREM OrderInvariant == Spec => []Orderly
<1>1. OpsInv /\ Orderly /\ [Next]_vars => Orderly'
  BY OrderlyStep
<1> QED
  BY <1>1, OrderlyInitially, OpsInvariant, PTL DEF Spec

-----------------------------------------------------------------------------
(* A pipeline that reports SUCCEEDED has fulfilled every task.             *)
LEMMA AllFulfilled ==
    ASSUME OpsInv, Orderly, overrun = {}, NEW j \in Jobs, EndPipeline(j),
           job'[j].verdict = "SUCCEEDED"
    PROVE  \A i \in 1 .. PipelineLength : Fulfilled(j, PipelineTasks[i])
<1>1. Sound(j) /\ ~Repairs(j) /\ job[j].todo = <<>>
  BY DEF Orderly, EndPipeline, Running
<1>2. Summary(job[j].result) = "SUCCEEDED"
  BY DEF EndPipeline, OpsInv, Shapes, Idle
<1>3. ~Spoiled(j)
  <2>1. ASSUME NEW s \in Steps, job[j].result[s] \in Blemishes PROVE FALSE
    <3> DEFINE statuses == {job[j].result[x] : x \in Steps}
    <3>1. job[j].result[s] \in statuses
      OBVIOUS
    <3>2. "FAILED" \notin statuses /\ statuses \cap {"PARTIAL", "DEGRADED"} = {}
      BY <1>2 DEF Summary
    <3> QED
      BY <2>1, <3>1, <3>2 DEF Blemishes
  <2> QED
    BY <2>1 DEF Spoiled
<1>4. OnCourse(j)
  BY <1>1, <1>3 DEF Sound
<1>5. Done(j) = PipelineLength
  BY <1>1, PipelineOrder DEF Done
<1> QED
  BY <1>4, <1>5 DEF OnCourse

(* Hence every listed stock is known, and what is derived follows from the *)
(* prices; without any price there is nothing it could follow.             *)
LEMMA DerivedFollows ==
    ASSUME OpsInv, Orderly, overrun = {}, NEW j \in Jobs, EndPipeline(j),
           job'[j].verdict = "SUCCEEDED"
    PROVE  /\ master = Stocks
           /\ \A s \in master : tech[s] = price[s]
           /\ \A s \in master : price[s] > 0 => industry # None /\ industry[s] = price[s]
           /\ job[j].ready => \A s \in master : price[s] > 0
<1> DEFINE N == PipelineLength
<1>1. /\ \A i \in 1 .. N : Fulfilled(j, PipelineTasks[i])
      /\ {1, 2, 3, 4, N - 1, N} \subseteq 1 .. N
  BY AllFulfilled, PipelineOrder
<1>2. \A m \in Markets : Fulfilled(j, Task("SECURITY_MASTER", m, "SECURITY_MASTER"))
                         /\ Fulfilled(j, Task("DAILY_PRICES", m, "DAILY_PRICES"))
  BY <1>1, PipelineOrder DEF Markets
<1>3. /\ Fulfilled(j, Task("TECHNICALS", None, None))
      /\ Fulfilled(j, Task("INDUSTRY_STRENGTH", None, None))
  BY <1>1, PipelineOrder
<1>4. \A s \in Stocks : /\ MarketOf[s] \in Markets /\ s \in Listed(MarketOf[s])
                        /\ price[s] \in Nat /\ tech[s] \in Nat /\ tech[s] <= price[s]
  BY OperationsAssumption DEF Listed, OpsInv, Shapes, Orderly, TechnicalsFollow
<1>5. master = Stocks
  BY <1>2, <1>4 DEF Fulfilled, Task, Orderly
<1>6. job[j].ready => \A s \in Stocks : price[s] > 0
  BY <1>2, <1>4 DEF Fulfilled, Task
<1>7. CASE job[j].hasData
  <2>1. /\ \A s \in master : tech[s] = price[s]
        /\ industry = [s \in master |-> price[s]]
    BY <1>3, <1>7 DEF Fulfilled, Task
  <2>2. industry \in [Stocks -> Nat]
    BY <1>4, <1>5, <2>1
  <2>3. industry # None
    BY <2>2, OperationsAssumption
  <2> QED
    BY <1>5, <1>6, <2>1, <2>3
<1>8. CASE ~job[j].hasData
  <2>1. \A s \in Stocks : price[s] = 0
    BY <1>2, <1>4, <1>8 DEF Fulfilled, Task
  <2> QED
    BY <1>4, <1>5, <1>6, <2>1
<1> QED
  BY <1>7, <1>8

(* And when the exchanges had published before it began, no dataset of the *)
(* audit misses a row.                                                     *)
LEMMA AuditComplete ==
    ASSUME OpsInv, Orderly, overrun = {}, NEW j \in Jobs, EndPipeline(j),
           job'[j].verdict = "SUCCEEDED", job[j].ready
    PROVE  OverallStatus(Report(PriceReport)) = "COMPLETE"
<1>1. /\ master = Stocks /\ IsFiniteSet(Stocks)
      /\ \A s \in Stocks : tech[s] = price[s] /\ price[s] > 0
      /\ industry # None
  <2>1. \E s \in Stocks : MarketOf[s] = "TWSE"
    BY OperationsAssumption DEF Markets
  <2> QED
    BY <2>1, DerivedFollows, OperationsAssumption
<1>2. ASSUME NEW S \in SUBSET Stocks, S # {}
      PROVE  Cardinality(S) \in Nat /\ Cardinality(S) > 0
  BY <1>1, <1>2, FS_Subset, FS_CardinalityType, FS_EmptySet
<1>3. \A m \in Markets : PriceVerdict(m) = "COMPLETE"
  <2> SUFFICES ASSUME NEW m \in Markets PROVE PriceVerdict(m) = "COMPLETE"
    OBVIOUS
  <2> DEFINE n == Cardinality(Active(m))
  <2>1. Active(m) \in SUBSET Stocks /\ Active(m) # {}
    BY <1>1, OperationsAssumption DEF Active, Listed
  <2>2. n \in Nat /\ n > 0
    BY <1>2, <2>1
  <2>3. {s \in Active(m) : price[s] > 0} = Active(m)
    BY <1>1, <2>1
  <2>4. RowsOf(m) = n
    BY <2>3 DEF RowsOf
  <2> HIDE DEF n
  <2>5. PriceStatus(n, n, 0, PriceFailed(m)) = "COMPLETE"
    BY <2>2 DEF PriceStatus, Covers
  <2> QED
    BY <2>4, <2>5 DEF PriceVerdict, n
<1>4. ASSUME NEW kind \in {"MARKET_BREADTH", "MARKET_MARGIN"}
      PROVE  SpotRows(kind) \in Nat /\ SpotRows(kind) >= 2
  <2> DEFINE rows == {row \in spot : row[2] = kind}
             twse == <<"TWSE", kind>>
             tpex == <<"TPEX", kind>>
  <2>1. kind \in SpotKinds
    BY OperationsAssumption
  <2>2. ASSUME NEW m \in Markets PROVE <<m, kind>> \in spot
    <3>1. Task("MARKET_SPOT", m, kind) \in Datasets
      BY <2>1 DEF Datasets
    <3>2. PICK i \in 5 .. PipelineLength - 2 : PipelineTasks[i] = Task("MARKET_SPOT", m, kind)
      BY <3>1, PipelineOrder
    <3>3. i \in 1 .. PipelineLength
      BY PipelineOrder
    <3>4. Fulfilled(j, Task("MARKET_SPOT", m, kind))
      BY <3>2, <3>3, AllFulfilled
    <3> QED
      BY <3>4 DEF Fulfilled, Task
  <2>3. twse \in rows /\ tpex \in rows /\ twse # tpex
    BY <2>2 DEF Markets
  <2>4. IsFiniteSet(rows)
    BY FS_Subset DEF Orderly
  <2> HIDE DEF rows, twse, tpex
  <2>5. Cardinality({twse}) = 1 /\ IsFiniteSet({twse})
    BY FS_Singleton
  <2>6. Cardinality({twse} \cup {tpex}) = 2
    <3>1. Cardinality({twse} \cup {tpex})
             = IF tpex \in {twse} THEN Cardinality({twse}) ELSE Cardinality({twse}) + 1
      BY <2>5, FS_AddElement, Zenon
    <3>2. tpex \notin {twse}
      BY <2>3
    <3> QED
      BY <2>5, <3>1, <3>2
  <2>7. {twse} \cup {tpex} \subseteq rows
    BY <2>3
  <2>8. Cardinality(rows) \in Nat /\ 2 <= Cardinality(rows)
    BY <2>4, <2>6, <2>7, FS_Subset, FS_CardinalityType
  <2> QED
    BY <2>8 DEF SpotRows, rows
<1>5. ASSUME NEW d \in Derivatives \ {Vix} PROVE d \in futures
  <2>1. Task("DERIVATIVES", "TAIFEX", d) \in Datasets
    BY DEF Datasets
  <2>2. PICK i \in 5 .. PipelineLength - 2 : PipelineTasks[i] = Task("DERIVATIVES", "TAIFEX", d)
    BY <2>1, PipelineOrder
  <2>3. i \in 1 .. PipelineLength
    BY PipelineOrder
  <2>4. Fulfilled(j, Task("DERIVATIVES", "TAIFEX", d))
    BY <2>2, <2>3, AllFulfilled
  <2> QED
    BY <2>4 DEF Fulfilled, Task
<1> DEFINE r == Report(PriceReport)
<1>6. r.twse = "COMPLETE" /\ r.tpex = "COMPLETE"
  BY <1>3 DEF Report, PriceReport, Markets
<1>7. r.spot = "COMPLETE"
  BY <1>4 DEF Report, SpotStatus
<1>8. r.industry = "COMPLETE"
  BY <1>1 DEF Report, IndustryStatus
<1>9. r.technicals = "COMPLETE"
  <2> DEFINE n == Cardinality(master)
             t == [snapshots |-> n, active |-> n, eligible |-> 0, with240 |-> 0,
                   duplicates |-> 0, trading |-> TRUE, latest |-> "before"]
  <2>1. {s \in master : tech[s] > 0} = master
    BY <1>1
  <2>2. master # {}
    BY <1>1, OperationsAssumption DEF Markets
  <2>3. n \in Nat /\ n > 0
    BY <1>1, <1>2, <2>2
  <2>4. r.technicals = TechnicalsStatus(t)
    BY <2>1 DEF Report
  <2> HIDE DEF n
  <2> QED
    BY <2>3, <2>4 DEF TechnicalsStatus, Covers
<1>10. /\ DOMAIN r.derivatives = Derivatives
       /\ \A d \in Derivatives \ {Vix} : r.derivatives[d] = "COMPLETE"
  BY <1>5 DEF Report, DerivativesStatus
<1>11. r.duplicates = "COMPLETE" /\ r.dayType = "TRADING_DAY"
  BY DEF Report
<1> HIDE DEF r
<1> DEFINE judged == {r.twse, r.tpex, r.spot, r.technicals, r.industry}
                         \cup {r.derivatives[d] : d \in DOMAIN r.derivatives \ {Vix}}
<1>12. judged = {"COMPLETE"}
  BY <1>6, <1>7, <1>8, <1>9, <1>10
<1>13. OverallStatus(r) = "COMPLETE"
  BY <1>11, <1>12 DEF OverallStatus
<1> QED
  BY <1>13 DEF r

(* A repair reports what the audit finds, which is never the word of a     *)
(* pipeline.                                                               *)
LEMMA RepairsReportTheAudit ==
    ASSUME OpsInv, Orderly, NEW j \in Jobs, EndRepair(j) PROVE job'[j].verdict # "SUCCEEDED"
<1> DEFINE r == Report(PriceReport)
<1>1. \A m \in Markets : PriceVerdict(m) # "SUCCEEDED"
  <2> SUFFICES ASSUME NEW m \in Markets PROVE PriceVerdict(m) # "SUCCEEDED"
    OBVIOUS
  <2>1. {s \in Active(m) : price[s] > 0} \subseteq Stocks
    BY DEF Active, Orderly
  <2>2. RowsOf(m) \in Nat
    BY <2>1, OperationsAssumption, FS_Subset, FS_CardinalityType DEF RowsOf
  <2> QED
    BY <2>2 DEF PriceVerdict, PriceStatus
<1>2. r.twse # "SUCCEEDED" /\ r.tpex # "SUCCEEDED"
  BY <1>1 DEF Report, PriceReport, Markets
<1>3. r.spot # "SUCCEEDED" /\ r.industry # "SUCCEEDED"
  BY DEF Report, SpotStatus, IndustryStatus
<1>4. \A d \in DOMAIN r.derivatives : r.derivatives[d] # "SUCCEEDED"
  BY DEF Report, DerivativesStatus
<1>5. r.technicals # "SUCCEEDED"
  BY DEF Report, TechnicalsStatus
<1> HIDE DEF r
<1>6. OverallStatus(r) # "SUCCEEDED"
  BY DEF OverallStatus
<1>7. ASSUME NEW scope PROVE ReAudit(scope, r, None) # "SUCCEEDED"
  BY <1>2, <1>3, <1>4, <1>5, <1>6 DEF ReAudit
<1>8. ASSUME NEW scope PROVE AfterRepair(scope) # "SUCCEEDED"
  BY <1>7 DEF AfterRepair, ReAuditRow, r
<1> DEFINE verdict == IF job[j].error THEN "NOT_EXECUTED" ELSE AfterRepair(job[j].scope)
<1>9. job' = [job EXCEPT ![j] = [Idle EXCEPT !.pc = "done", !.verdict = verdict]]
  BY DEF EndRepair
<1>10. verdict # "SUCCEEDED"
  BY <1>8
<1> HIDE DEF verdict
<1> QED
  BY <1>9, <1>10 DEF OpsInv, Shapes, Idle

(* Only the end of a pipeline reports SUCCEEDED.                           *)
LEMMA OnlyEndsSucceed ==
    ASSUME OpsInv, Orderly, overrun = {}, [Next]_vars, NEW j \in Jobs, Running(j),
           job'[j].verdict = "SUCCEEDED"
    PROVE  EndPipeline(j)
<1>1. job[j].verdict = None /\ None # "SUCCEEDED"
  BY OperationsAssumption DEF Orderly, Sound
<1>2. job'[j] # job[j]
  BY <1>1
<1>3. ASSUME NEW i \in Jobs, Work(i) PROVE EndPipeline(j)
  <2>1. i = j
    <3>1. Running(i) /\ \A x \in Jobs \ {i} : job'[x] = job[x]
      BY <1>3, WorkFrame
    <3> QED
      BY <1>2, <3>1
  <2>2. ~EndRepair(j)
    BY RepairsReportTheAudit
  <2>3. ~Sound(j)'
    BY <1>1 DEF Sound
  <2> QED
    BY <1>3, <2>1, <2>2, <2>3, FailOrder, MasterOrder, FetchOrder, StoreOrder, DatasetOrder,
       CacheFailOrder, SkipOrder, ReadOrder, CommitOrder, IndustryOrder, RecalculateOrder
    DEF Work
<1>4. ASSUME NEW i \in Jobs, Crash(i) PROVE FALSE
  <2>1. job' = [job EXCEPT ![i] = [Idle EXCEPT !.pc = "done", !.verdict = "CRASHED"]]
    BY <1>4 DEF Crash
  <2> QED
    BY <1>2, <2>1 DEF OpsInv, Shapes, Idle
<1>5. ASSUME NEW i \in Jobs, StartPipeline(i) \/ \E scope \in Scopes : StartRepair(i, scope)
      PROVE  FALSE
  <2>1. i # j
    BY <1>5 DEF StartPipeline, StartRepair, Running
  <2>2. \E new : job' = [job EXCEPT ![i] = new]
    BY <1>5 DEF StartPipeline, StartRepair
  <2> QED
    BY <1>2, <2>1, <2>2 DEF OpsInv, Shapes
<1>6. ~(LockExpires \/ (\E m \in Markets : Publish(m)) \/ UNCHANGED vars)
  BY <1>2 DEF LockExpires, Publish, vars
<1> QED
  BY <1>3, <1>4, <1>5, <1>6 DEF Next

(* When a pipeline reports SUCCEEDED, the technicals and the industry      *)
(* snapshots follow from the prices that are stored, whatever earlier runs *)
(* left behind; and when the exchanges had published before it began, the  *)
(* audit finds the date COMPLETE (run_daily_pipeline.py,                   *)
(* data_quality_audit.py).                                                 *)
THEOREM SucceededFollows == Spec => SucceededIsComplete
<1>1. ASSUME OpsInv, Orderly, [Next]_vars, overrun = {}, NEW j \in Jobs, Running(j),
             job'[j].verdict = "SUCCEEDED"
      PROVE  /\ \A s \in master : tech[s] = price[s]
             /\ \A s \in master : price[s] > 0 => industry # None /\ industry[s] = price[s]
             /\ job[j].ready => OverallStatus(Report(PriceReport)) = "COMPLETE"
  BY <1>1, OnlyEndsSucceed, DerivedFollows, AuditComplete
<1>2. OpsInv /\ Orderly /\ [Next]_vars =>
         [\A j \in Jobs :
             (Running(j) /\ job'[j].verdict = "SUCCEEDED" /\ overrun = {}) =>
                /\ \A s \in master : tech[s] = price[s]
                /\ \A s \in master : price[s] > 0 => industry # None /\ industry[s] = price[s]
                /\ job[j].ready => OverallStatus(Report(PriceReport)) = "COMPLETE"]_vars
  BY <1>1
<1> QED
  BY <1>2, OpsInvariant, OrderInvariant, PTL DEF Spec, SucceededIsComplete
=============================================================================
