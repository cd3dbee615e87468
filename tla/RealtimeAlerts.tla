-------------------------- MODULE RealtimeAlerts --------------------------
(***************************************************************************)
(* RealtimeAlertEvaluationService on one REALTIME rule and one security:   *)
(* every quote the manager hands it may first bring the refresh of the     *)
(* rules that is due, and is then compared with the state of the rule in   *)
(* Redis; an edge crossed makes an event in the database, and whether it   *)
(* may notify depends on the events before it.  The service lives on one   *)
(* database session, which a failed statement leaves unusable until the    *)
(* process starts again.                                                   *)
(***************************************************************************)
EXTENDS Integers, FiniteSets

CONSTANTS RuleChoices,    \* rules: kind, level, percent, period
          PriorSum,       \* sum of the closes before today, by period
          PriorCount,     \* how many closes there are, by period
          Prices,
          DayLen,         \* clock units of a trading day
          Cooldown,       \* cooldown_minutes of the rule
          DailyLimit,     \* daily_limit of the rule
          SameIds,        \* do quotes and rules name the security alike?
          None,
          MaxClock,       \* bound: last time
          MaxQuotes,      \* bound: quotes
          MaxEdits,       \* bound: times the rule is switched
          MaxFaults       \* bound: failures and restarts

PriceKinds == {"PRICE_TARGET", "PRICE_STOP", "PRICE_ADD"}
MaKinds == {"MA_NEAR", "MA_TOUCH", "MA_CROSS_ABOVE", "MA_CROSS_BELOW"}

ASSUME AlertAssumption ==
    /\ Prices \subseteq Nat \ {0}
    /\ \A r \in RuleChoices :
          /\ r.kind \in PriceKinds \cup MaKinds
          /\ r.kind \in PriceKinds => r.level \in Nat
          /\ r.kind \in MaKinds => r.period \in DOMAIN PriorSum \cap DOMAIN PriorCount
    /\ {DayLen, Cooldown, DailyLimit} \subseteq Nat
    /\ SameIds \in BOOLEAN

VARIABLES rule,           \* the rule, chosen at the start
          enabled,        \* its row in the database
          active,         \* is it in rules_by_security?
          due,            \* has the refresh interval passed?
          usable,         \* can the service's database session be used?
          now,            \* the clock
          quotes,         \* quotes so far
          last,           \* the last quote the manager handed over
          state,          \* the rule's state in Redis
          events,         \* alert_events of the rule
          edits, faults,  \* so far
          armed,          \* history: the condition failed to hold since the last event
          repeated,       \* history: an event was recorded that was not armed
          torn,           \* history: an evaluation stopped half way
          disabledAt      \* history: when the rule was switched off

vars == <<rule, enabled, active, due, usable, now, quotes, last, state, events,
          edits, faults, armed, repeated, torn, disabledAt>>
history == <<armed, repeated, torn, disabledAt>>

Day(ts) == ts \div DayLen

Init ==
    /\ rule \in RuleChoices
    /\ enabled = TRUE
    /\ active = TRUE
    /\ due = FALSE
    /\ usable = TRUE
    /\ now = 0
    /\ quotes = 0
    /\ last = None
    /\ state = None
    /\ events = {}
    /\ edits = 0
    /\ faults = 0
    /\ armed = TRUE
    /\ repeated = FALSE
    /\ torn = FALSE
    /\ disabledAt = 0

-----------------------------------------------------------------------------
(* evaluate_realtime_rule, in whole numbers: with s the sum of the N - 1    *)
(* closes, a price p compares with its dynamic MA (s + p) / N as p N does   *)
(* with s + p                                                              *)

\* dynamic: without exactly N - 1 closes there is no MA
HasMa == PriorCount[rule.period] = rule.period - 1
MaTimesN(p) == PriorSum[rule.period] + p
AboveMa(p) == p * rule.period > MaTimesN(p)
BelowMa(p) == p * rule.period < MaTimesN(p)

\* |p - ma| / ma * 100 <= tenThousandths / 100
Within(p, tenThousandths) ==
    LET gap == p * rule.period - MaTimesN(p)
    IN  (IF gap < 0 THEN -gap ELSE gap) * 10000 <= tenThousandths * MaTimesN(p)
TouchTolerance == 5

\* Variant: a price that was at the target counts as below it
Reaches_Again(old, p) == old <= rule.level /\ rule.level <= p
\* A target is reached from below
Reaches(old, p) == old < rule.level /\ rule.level <= p

Triggered(old, p) ==
    CASE rule.kind = "PRICE_TARGET" -> Reaches(old, p)
      [] rule.kind \in {"PRICE_STOP", "PRICE_ADD"} -> old > rule.level /\ rule.level >= p
      [] rule.kind = "MA_CROSS_ABOVE" -> HasMa /\ ~AboveMa(old) /\ AboveMa(p)
      [] rule.kind = "MA_CROSS_BELOW" -> HasMa /\ ~BelowMa(old) /\ BelowMa(p)
      [] rule.kind = "MA_NEAR" ->
            HasMa /\ ~Within(old, rule.percent) /\ Within(p, rule.percent)
      [] rule.kind = "MA_TOUCH" ->
            /\ HasMa
            /\ \/ BelowMa(old) /\ AboveMa(p)
               \/ AboveMa(old) /\ BelowMa(p)
               \/ ~Within(old, TouchTolerance) /\ Within(p, TouchTolerance)

-----------------------------------------------------------------------------
(* _evaluate                                                               *)

\* No state yet, or one of another day: the quote is only a baseline
Baseline(st, q) == st = None \/ st.day # Day(q.ts)

Late(st, q) == ~Baseline(st, q) /\ (q.seq <= st.seq \/ q.ts <= st.ts)

Occurs(st, q) == ~Baseline(st, q) /\ ~Late(st, q) /\ Triggered(st.price, q.price)

\* The fingerprint names rule, security, event type and sequence, not the day
Replayed(st, q) == st.print = q.seq \/ \E e \in events : e.print = q.seq

\* Variant: the cooldown runs from the quote, not from the record of the event
Recent_ByQuote(q) == \E e \in events : e.ts > q.ts - Cooldown
\* Was an event recorded within the cooldown?
Recent(q) == \E e \in events : e.at >= q.ts - Cooldown

\* add_event, with the eligibility decided from the events before it
Event(q) ==
    LET count == Cardinality({e \in events : e.day = Day(q.ts) /\ e.eligible})
    IN  [print |-> q.seq, ts |-> q.ts, at |-> now, day |-> Day(q.ts),
         eligible |-> ~Recent(q) /\ count < DailyLimit]

Recorded(st, q) ==
    IF Occurs(st, q) /\ ~Replayed(st, q) THEN events \cup {Event(q)} ELSE events

NewState(st, q) ==
    IF Late(st, q) THEN st
    ELSE [day |-> Day(q.ts), price |-> q.price, seq |-> q.seq, ts |-> q.ts,
          print |-> IF Occurs(st, q) THEN q.seq
                    ELSE IF st = None THEN 0 ELSE st.print]

\* Statements the evaluation of a quote needs of the database
AsksDatabase(st, q) == Occurs(st, q) /\ st.print # q.seq

-----------------------------------------------------------------------------
(* accept: the refresh that is due, then the evaluation                    *)

\* What a refresh makes of rules_by_security
Known == enabled

\* refresh: a rule no longer active loses its state
Refreshed == IF active /\ ~enabled THEN None ELSE state

\* The rule a quote is evaluated against: only LIVE quotes of the regular
\* session are, and only those whose security_id is that of the rules
Evaluates(q, act) == q.live /\ act /\ SameIds

\* What the history learns from a quote and the events it leaves; a touch is
\* an event of its own each time the average is crossed
Holds(p) ==
    CASE rule.kind = "PRICE_TARGET" -> p >= rule.level
      [] rule.kind \in {"PRICE_STOP", "PRICE_ADD"} -> p <= rule.level
      [] rule.kind = "MA_CROSS_ABOVE" -> AboveMa(p)
      [] rule.kind = "MA_CROSS_BELOW" -> BelowMa(p)
      [] rule.kind = "MA_NEAR" -> Within(p, rule.percent)
      [] OTHER -> FALSE

Learns(q) ==
    /\ armed' = ((events' = events /\ armed) \/ (q.live /\ ~Holds(q.price)))
    /\ repeated' = (repeated \/ (events' # events /\ ~armed))

\* A quote the ingestion hands over: the next of the provider, made by now,
\* or its latest again after the cache has let go of it
Quotes ==
    [seq: {IF last = None THEN 1 ELSE last.seq + 1},
     ts: (IF last = None THEN 0 ELSE last.ts) .. now, price: Prices, live: BOOLEAN]
    \cup (IF last = None \/ last.seq = 0 THEN {}
          ELSE {[last EXCEPT !.ts = now]})

Accept(q) ==
    LET act == IF due THEN Known ELSE active
        st == IF due THEN Refreshed ELSE state
    IN  /\ quotes < MaxQuotes
        /\ usable \/ ~due
        /\ Evaluates(q, act) => usable \/ ~AsksDatabase(st, q)
        /\ quotes' = quotes + 1
        /\ last' = q
        /\ due' = FALSE
        /\ active' = act
        /\ events' = IF Evaluates(q, act) THEN Recorded(st, q) ELSE events
        /\ state' = IF Evaluates(q, act) THEN NewState(st, q) ELSE st
        /\ Learns(q)
        /\ UNCHANGED <<rule, enabled, usable, now, edits, faults, torn, disabledAt>>

\* The session is unusable and the quote needs it: accept raises
AcceptRaises(q) ==
    /\ quotes < MaxQuotes
    /\ ~usable
    /\ due \/ (Evaluates(q, active) /\ AsksDatabase(state, q))
    /\ quotes' = quotes + 1
    /\ last' = q
    /\ UNCHANGED <<rule, enabled, active, due, usable, now, state, events, edits,
                   faults, history>>

\* A statement or a Redis command fails on the way: what was committed stays
\* (the event, before the state is written), a failed statement also leaves
\* the session unusable
AcceptFails(q) ==
    /\ faults < MaxFaults
    /\ quotes < MaxQuotes
    /\ usable
    /\ ~due
    /\ Evaluates(q, active)
    /\ quotes' = quotes + 1
    /\ last' = q
    /\ \/ events' = events /\ usable' = TRUE
       \/ events' = events /\ usable' = ~AsksDatabase(state, q)
       \/ events' = Recorded(state, q) /\ usable' = TRUE
    /\ torn' = TRUE
    /\ faults' = faults + 1
    /\ Learns(q)
    /\ UNCHANGED <<rule, enabled, active, due, now, state, edits, disabledAt>>

\* The refresh fails: the quote is not evaluated, the refresh stays due
RefreshFails(q) ==
    /\ faults < MaxFaults
    /\ quotes < MaxQuotes
    /\ due
    /\ usable
    /\ quotes' = quotes + 1
    /\ last' = q
    /\ usable' = FALSE
    /\ faults' = faults + 1
    /\ UNCHANGED <<rule, enabled, active, due, now, state, events, edits, history>>

-----------------------------------------------------------------------------
(* Around the service                                                      *)

Clock ==
    /\ now < MaxClock
    /\ now' = now + 1
    /\ due' = TRUE
    /\ UNCHANGED <<rule, enabled, active, usable, quotes, last, state, events, edits,
                   faults, history>>

\* The user switches the rule off or on
Switch ==
    /\ edits < MaxEdits
    /\ edits' = edits + 1
    /\ enabled' = ~enabled
    /\ disabledAt' = IF enabled THEN now ELSE disabledAt
    /\ UNCHANGED <<rule, active, due, usable, now, quotes, last, state, events, faults,
                   armed, repeated, torn>>

\* The process starts again: a new session, the rules loaded if the database
\* answers, the provider's numbers from the beginning; Redis keeps the state
Restart ==
    /\ faults < MaxFaults
    /\ faults' = faults + 1
    /\ \/ active' = enabled /\ due' = FALSE /\ usable' = TRUE
       \/ active' = FALSE /\ due' = FALSE /\ usable' = FALSE
    /\ last' = IF last = None THEN None ELSE [last EXCEPT !.seq = 0, !.ts = now]
    /\ UNCHANGED <<rule, enabled, now, quotes, state, events, edits, history>>

Next ==
    \/ \E q \in Quotes : Accept(q) \/ AcceptRaises(q) \/ AcceptFails(q) \/ RefreshFails(q)
    \/ Clock \/ Switch \/ Restart

Spec == Init /\ [][Next]_vars
-----------------------------------------------------------------------------
(* Properties                                                              *)

Quote == [seq: 0..MaxQuotes, ts: 0..MaxClock, price: Prices, live: BOOLEAN]

\* Every variable keeps its type.
TypeOK ==
    /\ rule \in RuleChoices
    /\ {enabled, active, due, usable, armed, repeated, torn} \subseteq BOOLEAN
    /\ now \in 0..MaxClock /\ disabledAt \in 0..MaxClock
    /\ quotes \in 0..MaxQuotes /\ edits \in 0..MaxEdits /\ faults \in 0..MaxFaults
    /\ last \in Quote \cup {None}
    /\ state = None \/ state \in
          [day: 0..Day(MaxClock), price: Prices, seq: 1..MaxQuotes, ts: 0..MaxClock,
           print: 0..MaxQuotes]
    /\ events \subseteq [print: 1..MaxQuotes, ts: 0..MaxClock, at: 0..MaxClock,
                         day: 0..Day(MaxClock), eligible: BOOLEAN]

\* Two notifications of a rule are more than its cooldown apart, as the user
\* sees them, and no trading day has more of them than the daily limit:
\* although quotes wait before they are evaluated, evaluations stop half way,
\* and restarts repeat the provider's numbers.  A rule switched off records
\* nothing more once a refresh interval has passed, even when the refresh fails.
NotificationsBounded ==
    LET told == {e \in events : e.eligible}
    IN  /\ \A e, f \in told : e # f => e.at - f.at > Cooldown \/ f.at - e.at > Cooldown
        /\ \A d \in 0..Day(MaxClock) :
              Cardinality({e \in told : e.day = d}) <= DailyLimit
        /\ enabled \/ \A e \in events : e.at <= disabledAt + 1

\* A condition that goes on holding is not reported twice: between two events
\* a LIVE quote came for which it did not hold, whatever quotes were late,
\* repeated or STALE, however the rule was switched and the day changed in
\* between.  An evaluation that failed after its event was committed is the
\* exception: the next quote crosses the same edge again.
OncePerCrossing == ~torn => ~repeated

=============================================================================
