------------------------------ MODULE EodAlerts ------------------------------
(***************************************************************************)
(* The end-of-day evaluation of the alert rules: a run reads the rules,    *)
(* their members, the market history and the events there are, decides in  *)
(* memory which events to add and which of them are notified, and commits  *)
(* them at once; two runs for a date may overlap, as the route that starts *)
(* one takes no lock.  Whether a rule is hit is what the market data of    *)
(* the moment say.                                                         *)
(***************************************************************************)
EXTENDS Integers, FiniteSets

CONSTANTS Rules,
          Members,         \* [Rules -> stocks of the rule's scope]
          Runs,            \* naturals: runs are numbered as they start
          Dates,           \* trading dates, as naturals
          DailyLimit,      \* notifications of a rule and date
          MaxTogether,     \* bound: runs under way at the same time
          MaxEdits         \* bound: rules edited, toggled or deleted, faults

ASSUME EodAlertsAssumption ==
    /\ IsFiniteSet(Rules) /\ \A r \in Rules : IsFiniteSet(Members[r])
    /\ DailyLimit \in Nat

VARIABLES rules,           \* [Rules -> [exists, enabled, kind]]
          events,          \* rows of alert_events
          run,             \* [Runs -> row of alert_evaluation_runs and its progress]
          edits,
          overtaken        \* history: a run committed after another had, since its read

evars == <<rules, events, run, edits, overtaken>>

NotStarted == [phase |-> "not started"]

EInit ==
    /\ rules = [r \in Rules |-> [exists |-> TRUE, enabled |-> TRUE, kind |-> "touch"]]
    /\ events = {} /\ edits = 0 /\ overtaken = FALSE
    /\ run = [n \in Runs |-> NotStarted]

(* "recent" until the cooldown of its rule has passed.                     *)
Event(rule, stock, date, kind, eligible) ==
    [rule |-> rule, stock |-> stock, date |-> date, kind |-> kind,
     eligible |-> eligible, recent |-> TRUE]

(* The unique fingerprint of an event.                                     *)
Same(e, f) == e.rule = f.rule /\ e.stock = f.stock /\ e.date = f.date /\ e.kind = f.kind

Over(status) == [phase |-> "over", status |-> status]

Active == {"started", "evaluated", "stored"}

(* A RUNNING row is committed first.                                       *)
StartRun(n) == \E d \in Dates :
    /\ run[n] = NotStarted /\ \A m \in Runs : m < n => run[m] # NotStarted
    /\ Cardinality({m \in Runs : run[m].phase \in Active}) < MaxTogether
    /\ run' = [run EXCEPT ![n] = [phase |-> "started", date |-> d]]
    /\ UNCHANGED <<rules, events, edits, overtaken>>

Evaluated == {p \in UNION {{r} \X Members[r] : r \in Rules} :
                 rules[p[1]].exists /\ rules[p[1]].enabled}

Notified(rule, date) == Cardinality({e \in events : e.rule = rule /\ e.date = date /\ e.eligible})

(* An event of the date or a recent one holds a notification back, whether *)
(* it was notified itself or not.                                          *)
Cooling(rule, stock) == \E e \in events : e.rule = rule /\ e.stock = stock /\ e.recent

(* Variant: the limit counts the events of this run only.                  *)
Notifiable_PerRun(pairs, d) ==
    {chosen \in SUBSET {p \in pairs : ~Cooling(p[1], p[2])} :
       \A r \in Rules :
          LET due == Cardinality({p \in pairs : p[1] = r /\ ~Cooling(r, p[2])})
          IN  Cardinality({p \in chosen : p[1] = r}) = IF due < DailyLimit THEN due ELSE DailyLimit}

(* The choices of what is notified among new events: those not cooling     *)
(* down, in the order the members come, until the limit is reached.        *)
Notifiable(pairs, d) ==
    {chosen \in SUBSET {p \in pairs : ~Cooling(p[1], p[2])} :
       \A r \in Rules :
          LET due  == Cardinality({p \in pairs : p[1] = r /\ ~Cooling(r, p[2])})
              left == IF Notified(r, d) < DailyLimit THEN DailyLimit - Notified(r, d) ELSE 0
          IN  Cardinality({p \in chosen : p[1] = r}) = IF due < left THEN due ELSE left}

(* The pairs the data make hit, those whose evaluation raises, and the     *)
(* events that are new.                                                    *)
ReadAndEvaluate(n) == \E hit \in SUBSET Evaluated, raising \in SUBSET Evaluated :
    LET d      == run[n].date
        New(p) == ~\E e \in events : Same(e, Event(p[1], p[2], d, rules[p[1]].kind, FALSE))
        fresh  == {p \in hit \ raising : New(p)}
    IN  /\ run[n].phase = "started"
        /\ edits + Cardinality(raising) <= MaxEdits
        /\ \E chosen \in Notifiable(fresh, d) :
              run' = [run EXCEPT ![n] =
                [phase |-> "evaluated", date |-> d,
                 hit |-> {[rule |-> p[1], stock |-> p[2], kind |-> rules[p[1]].kind] : p \in hit},
                 failed |-> raising # {}, late |-> FALSE,
                 found |-> {Event(p[1], p[2], d, rules[p[1]].kind, p \in chosen) : p \in fresh}]]
        /\ edits' = edits + Cardinality(raising)
        /\ UNCHANGED <<rules, events, overtaken>>

(* All events, or on a fingerprint another run has stored and on a rule    *)
(* that is gone, none: the request fails and its row stays RUNNING.        *)
Storable(found) ==
    \A e \in found : rules[e.rule].exists /\ ~\E f \in events : Same(e, f)

CommitEvents(n) ==
    /\ run[n].phase = "evaluated"
    /\ \/ /\ Storable(run[n].found)
          /\ events' = events \cup run[n].found
          /\ overtaken' = (overtaken \/ run[n].late)
          /\ run' = [m \in Runs |->
                CASE m = n -> [run[m] EXCEPT !.phase = "stored", !.found = {}, !.late = FALSE]
                  [] m # n /\ run[m].phase = "evaluated" /\ run[n].found # {} ->
                       [run[m] EXCEPT !.late = TRUE]
                  [] OTHER -> run[m]]
       \/ /\ ~Storable(run[n].found)
          /\ run' = [run EXCEPT ![n] = Over("RUNNING")]
          /\ UNCHANGED <<events, overtaken>>
    /\ UNCHANGED <<rules, edits>>

(* Variant: a run is a success when it has stored events.                  *)
Outcome_Stored(row) == "SUCCESS"

Outcome(row) == IF row.failed THEN "PARTIAL" ELSE "SUCCESS"

FinishRun(n) ==
    /\ run[n].phase = "stored"
    /\ run' = [run EXCEPT ![n] = Over(Outcome(run[n]))]
    /\ UNCHANGED <<rules, events, edits, overtaken>>

(* The process ends; the row stays RUNNING.                                *)
CrashRun(n) ==
    /\ run[n].phase \in Active /\ edits < MaxEdits
    /\ run' = [run EXCEPT ![n] = Over("RUNNING")]
    /\ edits' = edits + 1
    /\ UNCHANGED <<rules, events, overtaken>>

(* The routes of the rules: a rule is edited, toggled, or deleted with its *)
(* events.                                                                 *)
Edit(r, row) ==
    /\ rules[r].exists /\ edits < MaxEdits
    /\ rules' = [rules EXCEPT ![r] = row]
    /\ edits' = edits + 1
    /\ UNCHANGED <<run, overtaken>>
SaveRule(r) == Edit(r, [rules[r] EXCEPT !.kind = "near"]) /\ UNCHANGED events
ToggleRule(r) == Edit(r, [rules[r] EXCEPT !.enabled = ~@]) /\ UNCHANGED events
DeleteRule(r) ==
    /\ Edit(r, [rules[r] EXCEPT !.exists = FALSE])
    /\ events' = {e \in events : e.rule # r}

CooldownPasses ==
    /\ \E e \in events : e.recent
    /\ events' = {[e EXCEPT !.recent = FALSE] : e \in events}
    /\ UNCHANGED <<rules, run, edits, overtaken>>

AlertNext ==
    \/ \E n \in Runs :
          \/ StartRun(n) \/ ReadAndEvaluate(n) \/ CommitEvents(n) \/ FinishRun(n) \/ CrashRun(n)
    \/ \E r \in Rules : SaveRule(r) \/ ToggleRule(r) \/ DeleteRule(r)
    \/ CooldownPasses

(* Unless a run committed on what it had read before another committed, a  *)
(* rule notifies at most its daily limit for a date, and one stock once    *)
(* until its cooldown has passed, across runs, dates and edits.            *)
NotifiedSparingly ==
    ~overtaken =>
       /\ \A r \in Rules, d \in Dates : Notified(r, d) <= DailyLimit
       /\ \A e, f \in events :
             e.rule = f.rule /\ e.stock = f.stock
                /\ e.eligible /\ f.eligible /\ e.recent /\ f.recent => e = f

(* When a run is recorded as a SUCCESS, the table has an event for every   *)
(* hit it found, its own or that of an earlier run, unless the rule has    *)
(* been deleted since.                                                     *)
SuccessIsComplete ==
    [][\A n \in Runs : run'[n] = Over("SUCCESS") /\ run[n].phase = "stored" =>
          \A h \in run[n].hit :
             rules[h.rule].exists =>
                \E e \in events : Same(e, Event(h.rule, h.stock, run[n].date, h.kind, FALSE))]_evars
=============================================================================
