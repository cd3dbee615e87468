--------------------------- MODULE DailyOperations ---------------------------
(***************************************************************************)
(* The jobs that fill the market data of one trading date: the daily       *)
(* pipeline and the precision repair, which write the tables under one     *)
(* Redis lock that a dead or slow holder loses by its time to live.  A     *)
(* price is the revision of what the exchange has published, 0 while there *)
(* is no row.                                                              *)
(***************************************************************************)
EXTENDS DataQuality, Sequences, SequencesExt

CONSTANTS Stocks,          \* what the exchanges list
          MarketOf,        \* [Stocks -> Markets]
          Known,           \* stocks of the security master at the start
          SpotKinds,       \* datasets of MarketSpotIngestionService
          Derivatives,     \* datasets of DerivativesIngestionService
          Jobs,            \* runs of the daily pipeline or of the precision repair
          Scopes,          \* scopes an operator may have repaired
          None,
          Revisions,       \* bound: revisions each exchange publishes
          MaxFaults        \* bound: failing calls and steps, crashes, locks outlived

Markets == {"TWSE", "TPEX"}
Steps == {"SECURITY_MASTER", "DAILY_PRICES", "MARKET_SPOT", "DERIVATIVES",
          "TECHNICALS", "INDUSTRY_STRENGTH"}

\* Every exchange lists stocks, and the audit's own spot datasets are ingested.
ASSUME OperationsAssumption ==
    /\ MarketOf \in [Stocks -> Markets]
    /\ \A m \in Markets : \E s \in Stocks : MarketOf[s] = m
    /\ Known \subseteq Stocks
    /\ {"MARKET_BREADTH", "MARKET_MARGIN"} \subseteq SpotKinds
    /\ IsFiniteSet(Stocks) /\ IsFiniteSet(SpotKinds) /\ IsFiniteSet(Derivatives)
    /\ Revisions \in [Markets -> Nat]
    /\ None \notin Scopes /\ None \notin Stocks \cup Jobs
    /\ None \notin {"SUCCEEDED", "FAILED", "PARTIAL", "DEGRADED"}
    /\ \A S \in SUBSET Stocks : None \notin [S -> Nat]

VARIABLES published,       \* what each exchange has published, 0 for nothing yet
          master,          \* active stocks of the table securities
          price,           \* daily_prices of the date
          tech,            \* the price the RAW technical snapshot of the date follows
          spot,            \* market spot rows: <<market, kind>>
          futures,         \* derivative datasets with rows
          industry,        \* the prices the industry snapshots follow, or None
          failed,          \* FAILED rows of ingestion_runs: <<dataset, provider>>
          lock,            \* the job whose token is in Redis, or None
          job,
          faults,          \* failures so far
          overrun          \* history: a job outlived its lock

data == <<master, price, tech, spot, futures, industry>>
vars == <<published, data, failed, lock, job, faults, overrun>>

Task(step, market, dataset) == [step |-> step, market |-> market, dataset |-> dataset]

ByMarket(step, dataset) == <<Task(step, "TWSE", dataset), Task(step, "TPEX", dataset)>>
SpotTasks(markets) ==
    SetToSeq({Task("MARKET_SPOT", m, k) : m \in markets, k \in SpotKinds})
DerivativeTasks(datasets) ==
    SetToSeq({Task("DERIVATIVES", "TAIFEX", d) : d \in datasets})

PipelineTasks ==
    ByMarket("SECURITY_MASTER", "SECURITY_MASTER") \o ByMarket("DAILY_PRICES", "DAILY_PRICES")
       \o SpotTasks(Markets) \o DerivativeTasks(Derivatives)
       \o <<Task("TECHNICALS", None, None), Task("INDUSTRY_STRENGTH", None, None)>>

NoResult == [s \in Steps |-> None]
Idle == [pc |-> "idle", todo |-> <<>>, got |-> None, retried |-> FALSE, result |-> NoResult,
         hasData |-> FALSE, ready |-> FALSE, scope |-> None, error |-> FALSE, verdict |-> None]

Init ==
    /\ published = [m \in Markets |-> 0]
    /\ master = Known
    /\ price = [s \in Stocks |-> 0]
    /\ tech = [s \in Stocks |-> 0]
    /\ spot = {}
    /\ futures = {}
    /\ industry = None
    /\ failed = {}
    /\ lock = None
    /\ job = [j \in Jobs |-> Idle]
    /\ faults = 0
    /\ overrun = {}

Listed(m) == {s \in Stocks : MarketOf[s] = m}
Active(m) == master \cap Listed(m)

\* An exchange publishes the date, or corrects it.
Publish(m) ==
    /\ published[m] < Revisions[m]
    /\ published' = [published EXCEPT ![m] = @ + 1]
    /\ UNCHANGED <<data, failed, lock, job, faults, overrun>>

Fault == faults < MaxFaults /\ faults' = faults + 1

Running(j) == job[j].pc \notin {"idle", "done"}

\* A repair has a scope, a pipeline has none.
Repairs(j) == job[j].scope # None

-----------------------------------------------------------------------------
(* distributed_job_lock: SET NX with a token, deleted only by its owner,   *)
(* never renewed.                                                          *)

\* Variant: the key is set whether or not it exists.
Acquire_NotNX(j) == lock' = j

Acquire(j) == lock = None /\ lock' = j

Release(j) == lock' = IF lock = j THEN None ELSE lock

\* The time to live passes after the holder died, or while it is still at work.
LockExpires ==
    /\ lock # None
    /\ lock' = None
    /\ IF Running(lock) THEN Fault /\ overrun' = overrun \cup {lock}
                        ELSE UNCHANGED <<faults, overrun>>
    /\ UNCHANGED <<published, data, failed, job>>

\* A job dies: its open transaction is undone, its lock stays.
Crash(j) ==
    /\ Running(j)
    /\ Fault
    /\ job' = [job EXCEPT ![j] = [Idle EXCEPT !.pc = "done", !.verdict = "CRASHED"]]
    /\ UNCHANGED <<published, data, failed, lock, overrun>>

-----------------------------------------------------------------------------
(* One synchronization: the rows are fetched, then stored in one           *)
(* transaction with the run's row; a failure leaves only a FAILED run.     *)

This(j) == Head(job[j].todo)
StepOver(j) == \A i \in 2 .. Len(job[j].todo) : job[j].todo[i].step # This(j).step

\* A failure ends the step for the master and the prices, and in a repair
\* everything; the other steps of the pipeline go on with the next dataset.
Remaining(j) ==
    IF Repairs(j) THEN <<>>
    ELSE IF This(j).step \in {"SECURITY_MASTER", "DAILY_PRICES"}
    THEN SelectSeq(job[j].todo, LAMBDA t : t.step # This(j).step)
    ELSE Tail(job[j].todo)

Worse(old, new) == IF old \in {None, "SUCCEEDED"} THEN new ELSE old

FailureStatus(step) ==
    CASE step = "SECURITY_MASTER"               -> "DEGRADED"
      [] step = "DAILY_PRICES"                  -> "FAILED"
      [] step \in {"MARKET_SPOT", "DERIVATIVES"} -> "PARTIAL"

TaskFailed(j) ==
    [job[j] EXCEPT !.pc = "work", !.todo = Remaining(j), !.got = None, !.retried = FALSE,
                   !.result[This(j).step] = FailureStatus(This(j).step),
                   !.hasData = IF This(j).step = "DAILY_PRICES" THEN FALSE ELSE @,
                   !.error = TRUE]

\* The next task, the step before being SUCCEEDED unless it is something else.
TaskDone(j, status) ==
    [job[j] EXCEPT !.pc = "work", !.todo = Tail(@), !.got = None, !.retried = FALSE,
                   !.result[This(j).step] = Worse(@, status)]

Syncs == {"SECURITY_MASTER", "DAILY_PRICES", "MARKET_SPOT", "DERIVATIVES"}
Works(j, steps) == job[j].pc = "work" /\ job[j].todo # <<>> /\ This(j).step \in steps

\* A call fails: every attempt leaves its FAILED row, and the pipeline tries
\* once more after a connection error.
SyncFails(j) ==
    /\ Works(j, Syncs)
    /\ Fault
    /\ failed' = failed \cup {<<This(j).dataset, This(j).market>>}
    /\ \/ job' = [job EXCEPT ![j] = TaskFailed(j)]
       \/ /\ ~Repairs(j)
          /\ ~job[j].retried
          /\ job' = [job EXCEPT ![j].retried = TRUE, ![j].got = None]
    /\ UNCHANGED <<published, data, lock, overrun>>

SyncMaster(j) ==
    /\ Works(j, {"SECURITY_MASTER"})
    /\ master' = master \cup Listed(This(j).market)
    /\ job' = [job EXCEPT ![j] = TaskDone(j, "SUCCEEDED")]
    /\ UNCHANGED <<published, price, tech, spot, futures, industry, failed, lock, faults,
                   overrun>>

\* The rows of the date are on their way.
FetchPrices(j) ==
    /\ Works(j, {"DAILY_PRICES"})
    /\ job[j].got = None
    /\ job' = [job EXCEPT ![j].got = published[This(j).market]]
    /\ UNCHANGED <<published, data, failed, lock, faults, overrun>>

\* The stocks whose rows a synchronization stores: all of the market, or one of it.
Wanted(j) ==
    {s \in Listed(This(j).market) :
        Repairs(j) /\ job[j].scope.code # None => s = job[j].scope.code}

\* A row whose stock the master does not know is rejected, and the run is
\* PARTIAL; rows of an earlier fetch of the same revision count as updated.
StorePrices(j) ==
    LET arrived  == IF job[j].got = 0 THEN {} ELSE Wanted(j)
        stored   == arrived \cap master
        hasData  == job[j].hasData \/ stored # {}
        rejected == arrived # stored
        last     == StepOver(j)
        nothing  == last /\ ~hasData /\ arrived = {} /\ job[j].result["DAILY_PRICES"] \in {None, "SUCCEEDED"}
    IN /\ Works(j, {"DAILY_PRICES"})
       /\ job[j].got # None
       /\ price' = [s \in Stocks |-> IF s \in stored THEN job[j].got ELSE price[s]]
       /\ job' = [job EXCEPT ![j] =
             [TaskDone(j, IF rejected THEN "PARTIAL" ELSE IF nothing THEN "NO_DATA" ELSE "SUCCEEDED")
                 EXCEPT !.hasData = hasData,
                        !.pc = IF Repairs(j) /\ job[j].scope.code # None THEN "recalculate"
                               ELSE "work"]]
       /\ UNCHANGED <<published, master, tech, spot, futures, industry, failed, lock, faults,
                      overrun>>

\* The spot and derivative feeds give their rows once the exchanges have them.
SyncSpot(j) ==
    /\ Works(j, {"MARKET_SPOT"})
    /\ spot' = IF published[This(j).market] > 0
               THEN spot \cup {<<This(j).market, This(j).dataset>>} ELSE spot
    /\ job' = [job EXCEPT ![j] = TaskDone(j, "SUCCEEDED")]
    /\ UNCHANGED <<published, master, price, tech, futures, industry, failed, lock, faults,
                   overrun>>

SyncDerivatives(j) ==
    /\ Works(j, {"DERIVATIVES"})
    /\ futures' = IF \A m \in Markets : published[m] > 0
                  THEN futures \cup {This(j).dataset} ELSE futures
    /\ job' = [job EXCEPT ![j] = TaskDone(j, "SUCCEEDED")]
    /\ UNCHANGED <<published, master, price, tech, spot, industry, failed, lock, faults,
                   overrun>>

\* The stale overviews in Redis cannot be deleted after the last dataset.
CacheFails(j) ==
    /\ ~Repairs(j)
    /\ Works(j, {"MARKET_SPOT", "DERIVATIVES"})
    /\ StepOver(j)
    /\ Fault
    /\ job' = [job EXCEPT ![j] = [TaskDone(j, "SUCCEEDED") EXCEPT !.result[This(j).step] = "FAILED"]]
    /\ UNCHANGED <<published, data, failed, lock, overrun>>

-----------------------------------------------------------------------------
(* What follows from the prices.                                           *)

\* The official pipeline skips both steps when it has stored no price.
SkipDerived(j) ==
    /\ ~Repairs(j)
    /\ Works(j, {"TECHNICALS", "INDUSTRY_STRENGTH"})
    /\ ~job[j].hasData
    /\ job' = [job EXCEPT ![j] = TaskDone(j, "SKIPPED")]
    /\ UNCHANGED <<published, data, failed, lock, faults, overrun>>

\* A batch reads the prices of its stocks ...
ReadForTechnicals(j) ==
    /\ ~Repairs(j)
    /\ Works(j, {"TECHNICALS"})
    /\ job[j].hasData
    /\ job[j].got = None
    /\ job' = [job EXCEPT ![j].got = [s \in master |-> price[s]]]
    /\ UNCHANGED <<published, data, failed, lock, faults, overrun>>

\* ... and replaces their snapshots at its commit.
CommitTechnicals(j) ==
    /\ ~Repairs(j)
    /\ Works(j, {"TECHNICALS"})
    /\ job[j].got # None
    /\ \/ /\ tech' = [s \in Stocks |-> IF s \in DOMAIN job[j].got THEN job[j].got[s] ELSE tech[s]]
          /\ job' = [job EXCEPT ![j] = TaskDone(j, "SUCCEEDED")]
          /\ UNCHANGED faults
       \/ /\ Fault   \* some stocks of the batch fail
          /\ \E bad \in SUBSET DOMAIN job[j].got \ {{}} :
                tech' = [s \in Stocks |-> IF s \in DOMAIN job[j].got \ bad
                                          THEN job[j].got[s] ELSE tech[s]]
          /\ job' = [job EXCEPT ![j] = TaskDone(j, "PARTIAL")]
       \/ /\ Fault   \* the commit fails
          /\ job' = [job EXCEPT ![j] = TaskDone(j, "FAILED")]
          /\ UNCHANGED tech
    /\ UNCHANGED <<published, master, price, spot, futures, industry, failed, lock, overrun>>

CalculateIndustry(j) ==
    /\ ~Repairs(j)
    /\ Works(j, {"INDUSTRY_STRENGTH"})
    /\ job[j].hasData
    /\ \/ /\ industry' = [s \in master |-> price[s]]
          /\ job' = [job EXCEPT ![j] = TaskDone(j, "SUCCEEDED")]
          /\ UNCHANGED faults
       \/ /\ Fault
          /\ job' = [job EXCEPT ![j] = TaskDone(j, "FAILED")]
          /\ UNCHANGED industry
    /\ UNCHANGED <<published, master, price, tech, spot, futures, failed, lock, overrun>>

-----------------------------------------------------------------------------
(* The audit: of the tables as they are, or in the order of its queries.   *)

RowsOf(m) == Cardinality({s \in Active(m) : price[s] > 0})
SpotRows(kind) == Cardinality({row \in spot : row[2] = kind})

\* A failed run of the prices of either market counts against both.
PriceFailed(m) == \E run \in failed : run[1] \in {m \o "_DAILY", "DAILY_PRICES"}
PriceVerdict(m) == PriceStatus(RowsOf(m), Cardinality(Active(m)), 0, PriceFailed(m))

PriceReport ==
    [master |-> MasterStatus(Cardinality(master), 0),
     twse   |-> PriceVerdict("TWSE"),
     tpex   |-> PriceVerdict("TPEX")]

Report(first) ==
    [dayType     |-> "TRADING_DAY",
     master      |-> first.master,
     twse        |-> first.twse,
     tpex        |-> first.tpex,
     spot        |-> SpotStatus(SpotRows("MARKET_BREADTH"), SpotRows("MARKET_MARGIN"), 0, 0),
     derivatives |-> [d \in Derivatives |->
                         DerivativesStatus(d, IF d \in futures THEN 1 ELSE 0)],
     technicals  |-> TechnicalsStatus(
                        [snapshots |-> Cardinality({s \in master : tech[s] > 0}),
                         active |-> Cardinality(master), eligible |-> 0, with240 |-> 0,
                         duplicates |-> 0, trading |-> TRUE, latest |-> "before"]),
     industry    |-> IndustryStatus(IF industry = None THEN 0 ELSE 1),
     duplicates  |-> "COMPLETE"]

-----------------------------------------------------------------------------
(* The daily pipeline.                                                     *)

\* A pipeline that finds the lock taken is SKIPPED.
StartPipeline(j) ==
    /\ job[j].pc = "idle"
    /\ \/ /\ Acquire(j)
          /\ job' = [job EXCEPT ![j] = [Idle EXCEPT !.pc = "work", !.todo = PipelineTasks,
                                                    !.ready = \A m \in Markets : published[m] > 0]]
       \/ /\ lock # None
          /\ job' = [job EXCEPT ![j] = [Idle EXCEPT !.pc = "done", !.verdict = "SKIPPED"]]
          /\ UNCHANGED lock
    /\ UNCHANGED <<published, data, failed, faults, overrun>>

\* Variant: only failed steps count.
Summary_FailedOnly(result) ==
    IF \E s \in Steps : result[s] = "FAILED" THEN "FAILED" ELSE "SUCCEEDED"

\* A step without data is no blemish.
Summary(result) ==
    LET statuses == {result[s] : s \in Steps}
    IN IF "FAILED" \in statuses THEN "FAILED"
       ELSE IF statuses \cap {"PARTIAL", "DEGRADED"} # {} THEN "PARTIAL"
       ELSE IF statuses = {"SKIPPED"} THEN "SKIPPED"
       ELSE "SUCCEEDED"

EndPipeline(j) ==
    /\ ~Repairs(j)
    /\ job[j].pc = "work"
    /\ job[j].todo = <<>>
    /\ Release(j)
    /\ job' = [job EXCEPT ![j] = [Idle EXCEPT !.pc = "done", !.ready = job[j].ready,
                                              !.verdict = Summary(job[j].result)]]
    /\ UNCHANGED <<published, data, failed, faults, overrun>>

-----------------------------------------------------------------------------
(* The precision repair of one scope.                                      *)

RepairTasks(scope) ==
    LET markets == IF scope.market = None THEN Markets ELSE {scope.market}
    IN CASE scope.dataset \in PriceNames ->
              SetToSeq({Task("DAILY_PRICES", m, "DAILY_PRICES") : m \in markets})
         [] scope.dataset \in SpotNames ->
              SelectSeq(SpotTasks(markets),
                        LAMBDA t : scope.dataset \in SpotKinds => t.dataset = scope.dataset)
         [] scope.dataset \in DerivativeNames ->
              (IF scope.dataset \in Derivatives THEN DerivativeTasks({scope.dataset})
               ELSE DerivativeTasks(Derivatives \ {Vix}))
         [] OTHER -> <<>>

\* Repairing technicals assigns to a frozen scope and repairing the industry
\* snapshots runs synchronous queries on an asynchronous connection: both raise.
Raises(scope) == scope.dataset \notin PriceNames \cup SpotNames \cup DerivativeNames

StartRepair(j, scope) ==
    /\ job[j].pc = "idle"
    /\ \/ /\ Acquire(j)
          /\ job' = [job EXCEPT ![j] = [Idle EXCEPT !.pc = "work", !.todo = RepairTasks(scope),
                                                    !.scope = scope, !.error = Raises(scope)]]
       \/ /\ lock # None
          /\ job' = [job EXCEPT ![j] = [Idle EXCEPT !.pc = "done", !.verdict = "JOB_LOCK_BUSY"]]
          /\ UNCHANGED lock
    /\ UNCHANGED <<published, data, failed, faults, overrun>>

\* The repair of one security goes on with its technicals, in a transaction
\* that is left open.
Recalculate(j) ==
    LET s == job[j].scope.code
    IN /\ job[j].pc = "recalculate"
       /\ job' = [job EXCEPT ![j] =
             [@ EXCEPT !.pc = "work", !.error = s \notin master,
                       !.got = IF s \in master THEN price[s] ELSE None]]
       /\ UNCHANGED <<published, data, failed, lock, faults, overrun>>

AfterRepair(scope) ==
    IF scope.code # None THEN ReAuditRow(price[scope.code] > 0, [traded |-> FALSE, volume |-> 0])
    ELSE ReAudit(scope, Report(PriceReport), None)

\* The re-audit, then the audit trail, whose commit also ends the transaction
\* the technicals were calculated in; a failing commit is swallowed.
EndRepair(j) ==
    /\ Repairs(j)
    /\ job[j].pc = "work"
    /\ job[j].todo = <<>>
    /\ Release(j)
    /\ \/ /\ tech' = IF job[j].got = None THEN tech
                     ELSE [tech EXCEPT ![job[j].scope.code] = job[j].got]
          /\ failed' = IF job[j].error
                       THEN failed \cup {<<job[j].scope.dataset, "PRECISION_REPAIR">>} ELSE failed
          /\ UNCHANGED faults
       \/ /\ Fault
          /\ UNCHANGED <<tech, failed>>
    /\ job' = [job EXCEPT ![j] = [Idle EXCEPT !.pc = "done",
                  !.verdict = IF job[j].error THEN "NOT_EXECUTED" ELSE AfterRepair(job[j].scope)]]
    /\ UNCHANGED <<published, master, price, spot, futures, industry, overrun>>

-----------------------------------------------------------------------------
Work(j) ==
    \/ SyncFails(j)
    \/ SyncMaster(j)
    \/ FetchPrices(j)
    \/ StorePrices(j)
    \/ SyncSpot(j)
    \/ SyncDerivatives(j)
    \/ CacheFails(j)
    \/ SkipDerived(j)
    \/ ReadForTechnicals(j)
    \/ CommitTechnicals(j)
    \/ CalculateIndustry(j)
    \/ EndPipeline(j)
    \/ Recalculate(j)
    \/ EndRepair(j)

Next ==
    \/ \E m \in Markets : Publish(m)
    \/ LockExpires
    \/ \E j \in Jobs : Crash(j) \/ Work(j)
    \/ \E j \in Jobs : StartPipeline(j)
    \/ \E j \in Jobs, scope \in Scopes : StartRepair(j, scope)

Spec == Init /\ [][Next]_vars /\ \A j \in Jobs : WF_vars(Work(j))

-----------------------------------------------------------------------------
TypeOK ==
    /\ \A m \in Markets : published[m] \in 0 .. Revisions[m]
    /\ master \subseteq Stocks
    /\ \A s \in Stocks : {price[s], tech[s]} \subseteq 0 .. published[MarketOf[s]]
    /\ spot \subseteq Markets \X SpotKinds
    /\ futures \subseteq Derivatives
    /\ lock \in Jobs \cup {None}
    /\ DOMAIN job = Jobs
    /\ faults \in 0 .. MaxFaults
    /\ overrun \subseteq Jobs

HolderWritesAlone == \A j \in Jobs \ overrun : Running(j) => lock = j

(* A job at work that has not outlived its lock holds it, although a job   *)
(* that ends late ends after another took the lock (job_lock.py,           *)
(* RELEASE_LOCK_LUA); and unless a lock was outlived, a stored price is    *)
(* never replaced by one that was fetched earlier, whatever jobs fetch and *)
(* store at which times (precision_repair.py:203).                         *)
PricesOnlyAdvance ==
    [][/\ HolderWritesAlone
       /\ overrun' = {} => \A s \in Stocks : price'[s] >= price[s]]_vars

(* When a pipeline reports SUCCEEDED, what is derived follows from the     *)
(* prices that are stored, whatever earlier runs left behind; and when the *)
(* exchanges had published before it began, the audit finds the date       *)
(* COMPLETE (run_daily_pipeline.py, data_quality_audit.py).                *)
SucceededIsComplete ==
    [][\A j \in Jobs :
          (Running(j) /\ job'[j].verdict = "SUCCEEDED" /\ overrun = {}) =>
             /\ \A s \in master : tech[s] = price[s]
             /\ \A s \in master : price[s] > 0 => industry # None /\ industry[s] = price[s]
             /\ job[j].ready => OverallStatus(Report(PriceReport)) = "COMPLETE"]_vars
=============================================================================
