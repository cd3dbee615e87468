---------------------------- MODULE DataMonitoring ----------------------------
(***************************************************************************)
(* DataQualityMonitoringService on one trading date: an evaluation audits  *)
(* the tables query by query while the jobs of DailyOperations go on       *)
(* committing, loads the anomaly records of the date, and stores new,      *)
(* repeated and resolved anomalies with their notifications in one         *)
(* transaction.  The data are their verdicts, which change one at a time.  *)
(***************************************************************************)
EXTENDS DataQuality

CONSTANTS Monitors,        \* evaluations that may overlap
          Derivatives,     \* derivative datasets
          Varying,         \* datasets whose verdict changes
          Runs,            \* ingestion runs that may fail: <<dataset, provider>>
          None,
          MaxChanges,      \* bound: changes of the data, and cooldowns that pass
          MaxFaults        \* bound: evaluations that stop half way

\* Monitors are processes that somebody starts.
ASSUME MonitoringAssumption == IsFiniteSet(Monitors)

VARIABLES report,          \* what an audit would find
          failed,          \* FAILED rows of ingestion_runs
          mon,             \* what each evaluation has read
          records,         \* data_quality_anomalies by dedupe key
          changes, faults, \* so far
          falseAlarm       \* history: something was called repaired that was not

mvars == <<report, failed, mon, records, changes, faults, falseAlarm>>

Queries == {"master", "twse", "tpex", "spot", "technicals", "industry", "duplicates"}
NotStarted == [pc |-> "idle", report |-> None, failed |-> {}, known |-> <<>>]

MInit ==
    /\ report = [q \in Queries \cup {"dayType", "derivatives"} |->
                    CASE q = "dayType"     -> "TRADING_DAY"
                      [] q = "derivatives" -> [d \in Derivatives |-> "NO_DATA"]
                      [] q \in {"master", "duplicates"} \cup (Queries \ Varying) -> "COMPLETE"
                      [] OTHER             -> "NO_DATA"]
    /\ failed = {}
    /\ mon = [m \in Monitors |-> NotStarted]
    /\ records = <<>>
    /\ changes = 0
    /\ faults = 0
    /\ falseAlarm = FALSE

\* The verdicts the audit has for a dataset.
Verdicts(q) ==
    CASE q \in {"master", "duplicates"} -> {"COMPLETE", "FAILED"}
      [] q \in {"twse", "tpex", "spot"} -> {"COMPLETE", "PARTIAL", "NO_DATA", "FAILED"}
      [] q = "technicals"               -> {"COMPLETE", "PARTIAL", "NO_DATA", "FAILED", "STALE"}
      [] q = "industry"                 -> {"COMPLETE", "NO_DATA"}

-----------------------------------------------------------------------------
(* What the jobs do to the data, and time to the notifications.            *)

Changed ==
    /\ changes < MaxChanges
    /\ changes' = changes + 1
    /\ UNCHANGED <<mon, faults, falseAlarm>>

DataChange(q) ==
    /\ Changed
    /\ \E s \in Verdicts(q) \ {report[q]} : report' = [report EXCEPT ![q] = s]
    /\ UNCHANGED <<failed, records>>

DerivativesArrive(d) ==
    /\ Changed
    /\ report.derivatives[d] = "NO_DATA"
    /\ report' = [report EXCEPT !.derivatives[d] = "COMPLETE"]
    /\ UNCHANGED <<failed, records>>

\* The row of a failed run stays for ever.
RunFails(run) ==
    /\ Changed
    /\ run \notin failed
    /\ failed' = failed \cup {run}
    /\ UNCHANGED <<report, records>>

\* cooldown_hours pass after the last notification of an anomaly.
CooldownPasses(k) ==
    /\ Changed
    /\ records[k].cooling
    /\ records' = [records EXCEPT ![k].cooling = FALSE, ![k].alarms = 0]
    /\ UNCHANGED <<report, failed>>

-----------------------------------------------------------------------------
(* An evaluation.                                                          *)

\* The first queries of the audit: master and prices.
AuditBegins(m) ==
    /\ mon[m].pc = "idle"
    /\ mon' = [mon EXCEPT ![m].pc = "half", ![m].report = report]
    /\ UNCHANGED <<report, failed, records, changes, faults, falseAlarm>>

\* The others, the failed runs, and the records of the date.
AuditEnds(m) ==
    /\ mon[m].pc = "half"
    /\ mon' = [mon EXCEPT ![m] =
          [pc |-> "read", failed |-> failed, known |-> records,
           report |-> [report EXCEPT !.master = mon[m].report.master, !.twse = mon[m].report.twse,
                                     !.tpex = mon[m].report.tpex]]]
    /\ UNCHANGED <<report, failed, records, changes, faults, falseAlarm>>

KeysOf(anomalies) == {a.key : a \in anomalies}

New(a) == [severity |-> a.severity, status |-> "ACTIVE", cooling |-> TRUE, alarms |-> 1]

\* Variant: the cooldown is not looked at.
Notify_Always(r, a) == TRUE

\* Notified again when it had been resolved, got worse, or its cooldown passed.
Notify(r, a) ==
    \/ r.status = "RESOLVED"
    \/ SeverityRank[a.severity] > SeverityRank[r.severity]
    \/ ~r.cooling

\* The row is overwritten from what was read of it.
SeenAgain(r, read, a) ==
    IF Notify(read, a)
    THEN [status |-> "ACTIVE", severity |-> a.severity, cooling |-> TRUE, alarms |-> r.alarms + 1]
    ELSE r

\* Variant: an anomaly stays active until someone looks at it.
NotSeen_Keeps(r, read) == r

\* Resolving notifies too, and leaves the time of the last notification.
NotSeen(r, read) ==
    IF read.status = "ACTIVE" THEN [r EXCEPT !.status = "RESOLVED", !.alarms = 0] ELSE r

\* One transaction; inserting a key another evaluation has inserted undoes it.
Evaluate(m) ==
    LET detected == ExtractAnomalies(mon[m].report, mon[m].failed)
        known    == DOMAIN mon[m].known
        fresh    == KeysOf(detected) \ known
        its(k)   == CHOOSE a \in detected : a.key = k
        conflict == fresh \cap DOMAIN records # {}
        resolved == {k \in known \ KeysOf(detected) : mon[m].known[k].status = "ACTIVE"}
    IN /\ mon[m].pc = "read"
       /\ mon' = [mon EXCEPT ![m] = NotStarted]
       /\ records' = IF conflict THEN records
                     ELSE [k \in DOMAIN records \cup fresh |->
                             IF k \in fresh THEN New(its(k))
                             ELSE IF k \notin known THEN records[k]
                             ELSE IF k \notin KeysOf(detected) THEN NotSeen(records[k], mon[m].known[k])
                             ELSE SeenAgain(records[k], mon[m].known[k], its(k))]
       /\ falseAlarm' = \/ falseAlarm
                        \/ ~conflict /\ \E k \in resolved, a \in detected : k[2] = a.key[2]
       /\ UNCHANGED <<report, failed, changes, faults>>

\* The process dies or its transaction fails: nothing of it is stored.
MonitorStops(m) ==
    /\ mon[m].pc # "idle"
    /\ faults < MaxFaults
    /\ faults' = faults + 1
    /\ mon' = [mon EXCEPT ![m] = NotStarted]
    /\ UNCHANGED <<report, failed, records, changes, falseAlarm>>

Monitor(m) == AuditBegins(m) \/ AuditEnds(m) \/ Evaluate(m)

MNext ==
    \/ \E q \in Varying : DataChange(q)
    \/ \E d \in Derivatives : DerivativesArrive(d)
    \/ \E run \in Runs : RunFails(run)
    \/ \E m \in Monitors : Monitor(m) \/ MonitorStops(m)
    \/ \E k \in DOMAIN records : CooldownPasses(k)

MSpec == MInit /\ [][MNext]_mvars /\ \A m \in Monitors : WF_mvars(Monitor(m))

-----------------------------------------------------------------------------
MTypeOK ==
    /\ \A q \in Queries : report[q] \in AuditStatuses
    /\ failed \subseteq Runs
    /\ \A k \in DOMAIN records :
          /\ records[k].severity \in DOMAIN SeverityRank
          /\ records[k].status \in {"ACTIVE", "RESOLVED"}
    /\ changes \in 0 .. MaxChanges
    /\ faults \in 0 .. MaxFaults

(* An anomaly is notified once while it lasts and cools down, through any  *)
(* sequence of evaluations, failures, recoveries and relapses of the data  *)
(* (data_quality_monitoring.py:54-55).                                     *)
OncePerEpisode == \A k \in DOMAIN records : records[k].alarms <= 1

(* The active anomalies come to be those of the data, whatever mixture of  *)
(* old and new data the evaluations saw in between.                        *)
Settles ==
    <>[]({k \in DOMAIN records : records[k].status = "ACTIVE"}
            = KeysOf(ExtractAnomalies(report, failed)))

(* A dataset is not reported as repaired and back to normal by the         *)
(* evaluation that reports another anomaly of it                           *)
(* (data_quality_monitoring.py:56 and 214-217).                            *)
RecoveryIsReal == ~falseAlarm
=============================================================================
