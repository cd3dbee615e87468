----------------------------- MODULE DataQuality -----------------------------
(***************************************************************************)
(* What the backend says of the data of one trading date: the verdict of   *)
(* DataQualityAuditService on each dataset from the rows it counts, the    *)
(* anomalies the monitoring makes of the verdicts, the scope the precision *)
(* repair plans for a finding, and the verdict it gives afterwards.  Pure  *)
(* operators, which DailyOperations and DataMonitoring evaluate on theirs. *)
(***************************************************************************)
EXTENDS Integers, FiniteSets

AuditStatuses == {"COMPLETE", "PARTIAL", "NO_DATA", "UNAVAILABLE", "STALE", "FAILED"}

\* DEFAULT_COVERAGE_COMPLETION_THRESHOLD = 0.98; nothing expected is covered.
Covers(rows, expected) == rows * 100 >= expected * 98

-----------------------------------------------------------------------------
(* The audit of one date.                                                  *)

MasterStatus(total, duplicates) ==
    IF total > 0 /\ duplicates = 0 THEN "COMPLETE" ELSE "FAILED"

PriceStatus(rows, expected, duplicates, failedRun) ==
    CASE rows = 0 /\ failedRun          -> "FAILED"
      [] rows = 0 /\ ~failedRun         -> "NO_DATA"
      [] rows > 0 /\ duplicates > 0     -> "FAILED"
      [] rows > 0 /\ duplicates = 0     ->
            IF Covers(rows, expected) THEN "COMPLETE" ELSE "PARTIAL"

SpotStatus(breadth, margin, others, duplicates) ==
    CASE breadth + margin + others = 0                       -> "NO_DATA"
      [] breadth >= 2 /\ margin >= 2 /\ duplicates = 0       -> "COMPLETE"
      [] breadth + margin + others > 0 /\ duplicates > 0     -> "FAILED"
      [] OTHER                                               -> "PARTIAL"

Vix == "VOLATILITY_INDEX"

DerivativesStatus(dataset, rows) ==
    IF dataset = Vix THEN "UNAVAILABLE"
    ELSE IF rows > 0 THEN "COMPLETE" ELSE "NO_DATA"

\* t.snapshots of t.active stocks, t.eligible of them with 240 prices,
\* t.with240 with an MA240; t.latest: how the latest snapshot lies to the date.
TechnicalsStatus(t) ==
    IF t.snapshots > 0
    THEN CASE t.duplicates > 0 \/ t.eligible > t.with240  -> "FAILED"
           [] t.duplicates = 0 /\ t.eligible <= t.with240 ->
                 IF Covers(t.snapshots, t.active) THEN "COMPLETE" ELSE "PARTIAL"
    ELSE IF t.trading /\ t.latest = "before" THEN "STALE" ELSE "NO_DATA"

IndustryStatus(rows) == IF rows > 0 THEN "COMPLETE" ELSE "NO_DATA"

DuplicateStatus(counts) ==
    IF \A c \in counts : c = 0 THEN "COMPLETE" ELSE "FAILED"

DayType(weekday, trading) ==
    IF trading THEN "TRADING_DAY" ELSE IF weekday >= 5 THEN "WEEKEND" ELSE "HOLIDAY"

\* The security master's own verdict is no part of the sum.
OverallStatus(r) ==
    LET judged == {r.twse, r.tpex, r.spot, r.technicals, r.industry}
                     \cup {r.derivatives[d] : d \in DOMAIN r.derivatives \ {Vix}}
    IN IF r.duplicates = "FAILED" THEN "FAILED"
       ELSE IF r.dayType # "TRADING_DAY" THEN "COMPLETE"
       ELSE IF "FAILED" \in judged THEN "FAILED"
       ELSE IF judged = {"COMPLETE"} THEN "COMPLETE"
       ELSE IF judged = {"NO_DATA"} THEN "NO_DATA"
       ELSE IF "STALE" \in judged THEN "STALE"
       ELSE "PARTIAL"

\* Weekdays without a row count as holidays, and below 85% as anomalous.
HistoricalGap(weekdays, rows, expected) ==
    LET sessions == {d \in weekdays : rows[d] > 0}
        low      == {d \in sessions : rows[d] * 100 < expected * 85}
    IN [weekdays  |-> Cardinality(weekdays),
        sessions  |-> Cardinality(sessions),
        holidays  |-> Cardinality(weekdays \ sessions),
        anomalies |-> low,
        status    |-> IF low = {} THEN "COMPLETE" ELSE "PARTIAL"]

-----------------------------------------------------------------------------
(* The anomalies of a report.  An anomaly is known by its type, dataset    *)
(* and scope (dedupe_key, the date being fixed here) and has a severity.   *)

SeverityRank == [INFO |-> 1, WARNING |-> 2, ERROR |-> 3, CRITICAL |-> 4]

Anomaly(type, dataset, scope, severity) ==
    [key |-> <<type, dataset, scope>>, severity |-> severity]

TypeOf(status) ==
    CASE status = "FAILED"  -> "DATASET_FAILED"
      [] status = "PARTIAL" -> "DATASET_PARTIAL"
      [] status = "NO_DATA" -> "DATASET_NO_DATA"
      [] status = "STALE"   -> "DATASET_STALE"

\* The anomaly of a verdict on a dataset, when the table gives it a severity.
Raised(dataset, scope, status, severities) ==
    {Anomaly(TypeOf(s), dataset, scope, severities[s]) : s \in {status} \cap DOMAIN severities}

RunAnomalies(failedRuns) ==
    {Anomaly("INGESTION_RUN_FAILED", run[1], run[2], "ERROR") : run \in failedRuns}

MasterAnomalies(r) ==
    Raised("SECURITY_MASTER", "GLOBAL", r.master, [FAILED |-> "CRITICAL", PARTIAL |-> "WARNING"])

PriceAnomalies(r) ==
    LET severities == [FAILED |-> "ERROR", PARTIAL |-> "WARNING", NO_DATA |-> "ERROR"]
    IN Raised("TWSE_DAILY", "TWSE", r.twse, severities)
          \cup Raised("TPEX_DAILY", "TPEX", r.tpex, severities)

\* A spot dataset without any row raises nothing.
SpotAnomalies(r) ==
    Raised("MARKET_SPOT", "GLOBAL", r.spot, [FAILED |-> "ERROR", PARTIAL |-> "WARNING"])

DerivativeAnomalies(r) ==
    UNION {Raised(d, "TAIFEX", r.derivatives[d],
                  [FAILED |-> "ERROR", PARTIAL |-> "WARNING", NO_DATA |-> "WARNING"]) :
           d \in DOMAIN r.derivatives \ {Vix}}

\* Technicals without any snapshot in the database raise nothing.
TechnicalAnomalies(r) ==
    Raised("TECHNICALS", "GLOBAL", r.technicals,
           [FAILED |-> "ERROR", STALE |-> "WARNING", PARTIAL |-> "WARNING"])

\* A missing industry snapshot is reported as a partial one.
IndustryAnomalies(r) ==
    Raised("INDUSTRY_STRENGTH", "GLOBAL",
           IF r.industry = "NO_DATA" THEN "PARTIAL" ELSE r.industry,
           [FAILED |-> "ERROR", PARTIAL |-> "WARNING"])

DuplicateAnomalies(r) ==
    IF r.duplicates = "FAILED"
    THEN {Anomaly("DUPLICATE_RECORDS", "DATABASE", "GLOBAL", "ERROR")}
    ELSE {}

ExtractAnomalies(r, failedRuns) ==
    IF r.dayType # "TRADING_DAY" THEN {}
    ELSE RunAnomalies(failedRuns) \cup MasterAnomalies(r) \cup PriceAnomalies(r)
            \cup SpotAnomalies(r) \cup DerivativeAnomalies(r) \cup TechnicalAnomalies(r)
            \cup IndustryAnomalies(r) \cup DuplicateAnomalies(r)

-----------------------------------------------------------------------------
(* The precision repair.  Datasets fall into classes by the names each     *)
(* test of the planner and of the dispatcher lists.                        *)

PriceNames == {"DAILY_PRICES", "TWSE_DAILY", "TPEX_DAILY", "PRICES"}
SpotNames == {"MARKET_BREADTH", "MARKET_MARGIN", "MARKET_SPOT", "SPOT"}
DerivativeNames == {"FUTURES_DAILY", "OPTION_PUT_CALL", Vix, "DERIVATIVES", "TAIFEX"}
TechnicalNames == {"TECHNICALS", "TECHNICAL_SNAPSHOTS"}
IndustryNames == {"INDUSTRY_STRENGTH", "INDUSTRY_SNAPSHOTS"}
VixNames == {Vix, "TAIFEX_VIX", "VIX"}

\* The planner accepts every name that starts with TAIFEX_, the dispatcher
\* knows none of them.
TaifexPrefixed == {"TAIFEX_VIX", "TAIFEX_PUT_CALL"}

Dispatchable == PriceNames \cup SpotNames \cup DerivativeNames \cup TechnicalNames \cup IndustryNames
Plannable == Dispatchable \cup TaifexPrefixed

MaxRepairRangeDays == 30

\* f.day counts from today; f.from and f.to are None unless a range is given.
ScopeType(f, None) ==
    IF f.code # None /\ f.market # None THEN "SECURITY_DATE"
    ELSE IF f.from # None /\ f.to # None /\ f.from # f.to THEN "DATE_RANGE"
    ELSE "DATASET_DATE"

Bounded(f) == f.from <= f.to /\ f.to - f.from + 1 <= MaxRepairRangeDays

PlanRepair(f, None) ==
    CASE ~f.trading                                      -> "HOLIDAY"
      [] f.trading /\ f.dataset \in VixNames             -> "UNAVAILABLE"
      [] OTHER ->
          IF f.dataset \notin Plannable THEN "UNSUPPORTED"
          ELSE IF f.status = "COMPLETE" THEN "SKIP"
          ELSE IF f.day > 0 \/ (f.day = 0 /\ f.pending) THEN "NOT_PUBLISHED"
          ELSE IF ScopeType(f, None) = "DATE_RANGE" /\ ~Bounded(f) THEN "UNSUPPORTED"
          ELSE "REPAIRABLE"

\* The verdict after the repair, for a scope that is a dataset on a date.
ReAudit(scope, r, None) ==
    LET market == IF scope.market # None THEN scope.market
                  ELSE IF scope.dataset = "TWSE_DAILY" THEN "TWSE"
                  ELSE IF scope.dataset = "TPEX_DAILY" THEN "TPEX" ELSE None
    IN CASE scope.dataset \in PriceNames      ->
              (IF market = "TWSE" THEN r.twse
               ELSE IF market = "TPEX" THEN r.tpex
               ELSE IF r.twse = "COMPLETE" /\ r.tpex = "COMPLETE" THEN "COMPLETE" ELSE "PARTIAL")
         [] scope.dataset \in SpotNames       -> r.spot
         [] scope.dataset \in DerivativeNames ->
              (IF scope.dataset \in DOMAIN r.derivatives
               THEN r.derivatives[scope.dataset] ELSE "COMPLETE")
         [] scope.dataset \in TechnicalNames  -> r.technicals
         [] scope.dataset \in IndustryNames   -> r.industry
         [] OTHER                             -> OverallStatus(r)

\* The verdict on one security: its price row, checked for consistency.
ReAuditRow(exists, row) ==
    IF ~exists THEN "FAILED"
    ELSE IF \/ row.traded /\ ~row.full
            \/ /\ row.traded
               /\ \/ row.high < row.open \/ row.high < row.close
                  \/ row.low > row.open \/ row.low > row.close
                  \/ row.high < row.low
            \/ row.volume < 0
         THEN "FAILED"
    ELSE "COMPLETE"
=============================================================================
