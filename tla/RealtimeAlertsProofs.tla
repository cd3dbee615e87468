------------------------- MODULE RealtimeAlertsProofs -------------------------
(***************************************************************************)
(* That a realtime rule bounds its notifications, whatever the quotes, the *)
(* failures and the restarts, for any cooldown and any daily limit.        *)
(***************************************************************************)
EXTENDS RealtimeAlerts, FiniteSetTheorems, TLAPS

IsQuote(q) == {"seq", "ts"} \subseteq DOMAIN q /\ q.ts \in Int

(* Times are past, and the last quote was made before now.                 *)
Timely ==
    /\ now \in Nat
    /\ disabledAt \in 0 .. now
    /\ last = None \/ (IsQuote(last) /\ last.ts <= now)
    /\ \A e \in events : e.at \in 0 .. now

Told == {e \in events : e.eligible}
OfDay(d) == {e \in events : e.day = d /\ e.eligible}

Spaced == \A e, f \in Told : e # f => e.at - f.at > Cooldown \/ f.at - e.at > Cooldown
Limited == IsFiniteSet(events) /\ \A d : Cardinality(OfDay(d)) <= DailyLimit

(* A rule that was switched off is still evaluated only while no refresh   *)
(* is due, which the clock makes due.                                      *)
Silent ==
    /\ enabled \in BOOLEAN /\ active \in BOOLEAN /\ due \in BOOLEAN
    /\ ~enabled => \A e \in events : e.at <= disabledAt
    /\ ~enabled /\ active /\ ~due => now = disabledAt

AlertInv == Timely /\ Spaced /\ Limited /\ Silent

-----------------------------------------------------------------------------
LEMMA AlertInvInitially == ASSUME Init PROVE AlertInv
<1>1. Timely
  BY DEF Init, Timely
<1>2. Spaced /\ Silent
  BY DEF Init, Spaced, Silent, Told
<1>3. \A d : OfDay(d) = {}
  BY DEF Init, OfDay
<1>4. IsFiniteSet(events) /\ Cardinality({}) = 0
  BY FS_EmptySet DEF Init
<1>5. Limited
  BY <1>3, <1>4, AlertAssumption DEF Limited
<1> QED
  BY <1>1, <1>2, <1>5 DEF AlertInv

(* What the ingestion hands over was made before now.                      *)
LEMMA QuotesAreTimely ==
    ASSUME Timely, NEW q \in Quotes
    PROVE  IsQuote(q) /\ q.ts <= now
<1>1. CASE q \in [seq: {IF last = None THEN 1 ELSE last.seq + 1},
                  ts: (IF last = None THEN 0 ELSE last.ts) .. now, price: Prices, live: BOOLEAN]
  BY <1>1 DEF Timely, IsQuote
<1>2. CASE last # None /\ q = [last EXCEPT !.ts = now]
  BY <1>2 DEF Timely, IsQuote
<1> QED
  BY <1>1, <1>2 DEF Quotes

-----------------------------------------------------------------------------
(* An event that is recorded now is the latest; it is eligible only after  *)
(* the cooldown and under the limit of its day.                            *)
LEMMA RecordStep ==
    ASSUME Timely, Spaced, Limited, NEW st, NEW q \in Quotes, events' = Recorded(st, q), now' = now
    PROVE  /\ Spaced' /\ Limited'
           /\ \A e \in events' : e \in events \/ e.at = now
<1> DEFINE e0 == Event(q)
           count(d) == Cardinality(OfDay(d))
<1>1. IsQuote(q) /\ q.ts <= now
  BY QuotesAreTimely
<1>2. CASE events' = events
  BY <1>2 DEF Spaced, Limited, Told, OfDay
<1>3. CASE events' = events \cup {e0}
  <2>1. /\ e0.at = now /\ e0.day = Day(q.ts)
        /\ e0.eligible <=> (~Recent(q) /\ count(Day(q.ts)) < DailyLimit)
    BY DEF Event, OfDay
  <2>2. e0.eligible => \A f \in events : now - f.at > Cooldown
    BY <1>1, <2>1, AlertAssumption DEF Recent, Timely, IsQuote
  <2> HIDE DEF e0
  <2>3. Spaced'
    BY <1>3, <2>1, <2>2 DEF Spaced, Told
  <2>4. IsFiniteSet(events')
    BY <1>3, FS_AddElement DEF Limited
  <2>5. ASSUME NEW d PROVE Cardinality(OfDay(d)') <= DailyLimit
    <3>1. IsFiniteSet(OfDay(d)) /\ count(d) \in Nat /\ count(d) <= DailyLimit
      BY FS_Subset, FS_CardinalityType DEF Limited, OfDay
    <3>2. CASE OfDay(d)' = OfDay(d)
      BY <3>1, <3>2
    <3>3. CASE OfDay(d)' = OfDay(d) \cup {e0} /\ e0.day = d /\ e0.eligible
      <4>1. count(d) < DailyLimit
        BY <2>1, <3>3
      <4>2. /\ Cardinality(OfDay(d) \cup {e0}) \in Nat
            /\ Cardinality(OfDay(d) \cup {e0}) <= count(d) + 1
        BY <3>1, FS_AddElement
      <4>3. Cardinality(OfDay(d) \cup {e0}) <= DailyLimit
        BY <3>1, <4>1, <4>2, AlertAssumption
      <4> QED
        BY <3>3, <4>3, Zenon
    <3> QED
      BY <1>3, <3>2, <3>3 DEF OfDay
  <2> QED
    BY <1>3, <2>1, <2>3, <2>4, <2>5 DEF Limited
<1> QED
  BY <1>2, <1>3 DEF Recorded

(* A quote is evaluated: by a rule that is active once a refresh that is   *)
(* due has been made.                                                      *)
LEMMA QuoteStep ==
    ASSUME AlertInv, NEW q \in Quotes,
           Accept(q) \/ AcceptRaises(q) \/ AcceptFails(q) \/ RefreshFails(q)
    PROVE  AlertInv'
<1>1. /\ last' = q
      /\ UNCHANGED <<now, enabled, disabledAt>>
      /\ \/ events' = events
         \/ /\ \E st : events' = Recorded(st, q)
            /\ enabled \/ (active /\ ~due)
  BY DEF Accept, AcceptRaises, AcceptFails, RefreshFails, Evaluates, Known, history, AlertInv,
         Silent
<1>2. /\ Spaced' /\ Limited'
      /\ \A e \in events' : e \in events \/ (e.at = now /\ (enabled \/ (active /\ ~due)))
  <2>1. CASE events' = events
    BY <2>1, <1>1 DEF AlertInv, Spaced, Limited, Told, OfDay
  <2>2. CASE \E st : events' = Recorded(st, q) /\ (enabled \/ (active /\ ~due))
    BY <1>1, <2>2, RecordStep DEF AlertInv
  <2> QED
    BY <1>1, <2>1, <2>2
<1>3. Timely'
  BY <1>1, <1>2, QuotesAreTimely DEF AlertInv, Timely
<1>4. /\ active' \in BOOLEAN /\ due' \in BOOLEAN
      /\ ~enabled /\ active' /\ ~due' => active /\ ~due
  <2>1. CASE Accept(q)
    BY <2>1 DEF Accept, Known, AlertInv, Silent
  <2>2. CASE UNCHANGED <<active, due>>
    BY <2>2 DEF AlertInv, Silent
  <2> QED
    BY <2>1, <2>2 DEF AcceptRaises, AcceptFails, RefreshFails
<1>5. Silent'
  BY <1>1, <1>2, <1>4 DEF AlertInv, Silent, Timely
<1> QED
  BY <1>2, <1>3, <1>5 DEF AlertInv

LEMMA AroundStep ==
    ASSUME AlertInv, Clock \/ Switch \/ Restart \/ UNCHANGED vars
    PROVE  AlertInv'
<1>1. events' = events
  BY DEF Clock, Switch, Restart, vars
<1>2. Spaced' /\ Limited'
  BY <1>1 DEF AlertInv, Spaced, Limited, Told, OfDay
<1>3. Timely' /\ Silent'
  <2>1. CASE Clock
    BY <2>1 DEF Clock, AlertInv, Timely, Silent, history, IsQuote
  <2>2. CASE Switch
    BY <2>2 DEF Switch, AlertInv, Timely, Silent
  <2>3. CASE Restart
    <3>1. UNCHANGED <<now, disabledAt, events>>
      BY <2>3 DEF Restart, history
    <3>2. last' = IF last = None THEN None ELSE [last EXCEPT !.seq = 0, !.ts = now]
      BY <2>3 DEF Restart
    <3>3. last' = None \/ (IsQuote(last') /\ last'.ts <= now)
      <4>1. CASE last = None
        BY <3>2, <4>1
      <4>2. CASE last # None
        <5>1. IsQuote(last) /\ now \in Nat
          BY <4>2 DEF AlertInv, Timely
        <5>2. last' = [last EXCEPT !.seq = 0, !.ts = now]
          BY <3>2, <4>2
        <5> QED
          BY <5>1, <5>2 DEF IsQuote
      <4> QED
        BY <4>1, <4>2
    <3>4. Timely'
      BY <3>1, <3>3 DEF AlertInv, Timely
    <3>5. Silent'
      <4>1. enabled' = enabled /\ due' = FALSE
        BY <2>3 DEF Restart
      <4>2. active' = enabled \/ active' = FALSE
        BY <2>3 DEF Restart
      <4>3. CASE active' = enabled
        BY <3>1, <4>1, <4>3 DEF AlertInv, Silent
      <4>4. CASE active' = FALSE
        BY <3>1, <4>1, <4>4 DEF AlertInv, Silent
      <4> QED
        BY <4>2, <4>3, <4>4
    <3> QED
      BY <3>4, <3>5
  <2>4. CASE UNCHANGED vars
    BY <2>4 DEF vars, AlertInv, Timely, Silent
  <2> QED
    BY <2>1, <2>2, <2>3, <2>4
<1> QED
  BY <1>2, <1>3 DEF AlertInv

(* The latest event is eligible only long enough after the others, a day's *)
(* eligible events are counted, and a rule switched off is evaluated only  *)
(* until its next refresh (realtime_alerts.py, repositories/alerts.py).    *)
THEOREM AlertInvariant == Spec => []AlertInv
<1>1. AlertInv /\ [Next]_vars => AlertInv'
  BY QuoteStep, AroundStep DEF Next
<1> QED
  BY <1>1, AlertInvInitially, PTL DEF Spec

(* Notifications are more than the cooldown apart and within the limit of  *)
(* each day, and stop when the rule is switched off (docs/21).             *)
THEOREM NotificationsAreBounded == Spec => []NotificationsBounded
<1>1. AlertInv => NotificationsBounded
  <2> SUFFICES ASSUME AlertInv PROVE NotificationsBounded
    OBVIOUS
  <2>1. \A d : {e \in Told : e.day = d} = OfDay(d)
    BY DEF Told, OfDay
  <2>2. \A d \in 0 .. Day(MaxClock) : Cardinality({e \in Told : e.day = d}) <= DailyLimit
    BY <2>1 DEF AlertInv, Limited
  <2>3. enabled \/ \A e \in events : e.at <= disabledAt + 1
    BY DEF AlertInv, Silent, Timely
  <2>4. \A e, f \in Told : e # f => e.at - f.at > Cooldown \/ f.at - e.at > Cooldown
    BY DEF AlertInv, Spaced
  <2> QED
    BY <2>2, <2>3, <2>4 DEF NotificationsBounded, Told
<1> QED
  BY <1>1, AlertInvariant, PTL

-----------------------------------------------------------------------------
(* Prices are those of quotes.                                             *)
Priced(q) == {"seq", "ts", "price"} \subseteq DOMAIN q /\ q.price \in Prices

PricesKept ==
    /\ rule \in RuleChoices
    /\ last = None \/ Priced(last)
    /\ state = None \/ state.price \in Prices

(* As long as the condition has gone on holding since the last event, the  *)
(* state the next quote is compared with is of a price it held for, unless *)
(* that quote will only be a baseline.                                     *)
Remembered == armed \/ state = None \/ Holds(state.price)

CrossingInv ==
    /\ armed \in BOOLEAN /\ repeated \in BOOLEAN /\ torn \in BOOLEAN
    /\ PricesKept
    /\ ~torn => ~repeated /\ Remembered

(* What triggers a rule leads from a price its condition does not hold for *)
(* to one it holds for; a touch is no condition that holds.                *)
LEMMA TriggeredIsCrossing ==
    ASSUME rule \in RuleChoices, NEW old \in Prices, NEW p \in Prices, Triggered(old, p)
    PROVE  ~Holds(old) /\ (Holds(p) \/ rule.kind = "MA_TOUCH")
<1>1. rule.kind \in PriceKinds \cup MaKinds /\ old \in Nat /\ p \in Nat
  BY AlertAssumption
<1>2. rule.kind \in PriceKinds => rule.level \in Nat
  BY AlertAssumption
<1>3. CASE rule.kind = "PRICE_TARGET"
  BY <1>1, <1>2, <1>3 DEF Triggered, Reaches, Holds, PriceKinds
<1>4. CASE rule.kind \in {"PRICE_STOP", "PRICE_ADD"}
  <2>1. old > rule.level /\ rule.level >= p
    BY <1>4 DEF Triggered
  <2>2. rule.level \in Nat
    BY <1>2, <1>4 DEF PriceKinds
  <2>3. \A x : Holds(x) <=> x <= rule.level
    BY <1>4 DEF Holds
  <2> QED
    BY <1>1, <2>1, <2>2, <2>3
<1>5. CASE rule.kind = "MA_CROSS_ABOVE"
  BY <1>5 DEF Triggered, Holds
<1>6. CASE rule.kind = "MA_CROSS_BELOW"
  BY <1>6 DEF Triggered, Holds
<1>7. CASE rule.kind = "MA_NEAR"
  BY <1>7 DEF Triggered, Holds
<1>8. CASE rule.kind = "MA_TOUCH"
  BY <1>8 DEF Holds
<1> QED
  BY <1>1, <1>3, <1>4, <1>5, <1>6, <1>7, <1>8 DEF PriceKinds, MaKinds

LEMMA QuotesArePriced ==
    ASSUME PricesKept, NEW q \in Quotes
    PROVE  Priced(q)
<1>1. CASE q \in [seq: {IF last = None THEN 1 ELSE last.seq + 1},
                  ts: (IF last = None THEN 0 ELSE last.ts) .. now, price: Prices, live: BOOLEAN]
  BY <1>1 DEF Priced
<1>2. CASE last # None /\ q = [last EXCEPT !.ts = now]
  BY <1>2 DEF Priced, PricesKept
<1> QED
  BY <1>1, <1>2 DEF Quotes

(* An evaluated quote is reported only when it crosses, and is remembered. *)
LEMMA EvaluatedQuote ==
    ASSUME PricesKept, NEW st, st = state \/ st = None, armed \in BOOLEAN, Remembered,
           NEW q \in Quotes, q.live,
           events' = Recorded(st, q), state' = NewState(st, q), rule' = rule, Learns(q)
    PROVE  /\ state' = None \/ state'.price \in Prices
           /\ events' = events \/ armed
           /\ Remembered'
<1>1. q.price \in Prices /\ (st = None \/ st.price \in Prices)
  BY QuotesArePriced DEF Priced, PricesKept
<1>2. state' = IF Late(st, q) THEN st ELSE
                [day |-> Day(q.ts), price |-> q.price, seq |-> q.seq, ts |-> q.ts,
                 print |-> IF Occurs(st, q) THEN q.seq ELSE IF st = None THEN 0 ELSE st.print]
  BY DEF NewState
<1>3. Late(st, q) => state' = st /\ st # None /\ ~Occurs(st, q)
  BY <1>2 DEF Late, Baseline, Occurs
<1>4. ~Late(st, q) => state'.price = q.price
  BY <1>2
<1>5. events' # events => Occurs(st, q)
  BY DEF Recorded
<1>6. Occurs(st, q) => st # None /\ ~Late(st, q) /\ Triggered(st.price, q.price)
  BY DEF Occurs, Baseline
<1>7. Occurs(st, q) => ~Holds(st.price) /\ (Holds(q.price) \/ rule.kind = "MA_TOUCH")
  BY <1>1, <1>6, TriggeredIsCrossing DEF PricesKept
<1>8. Occurs(st, q) => armed
  BY <1>6, <1>7 DEF Remembered
<1>9. armed' <=> ((events' = events /\ armed) \/ ~Holds(q.price))
  BY DEF Learns
<1>10. \A x : Holds(x)' <=> Holds(x)
  BY DEF Holds, AboveMa, BelowMa, Within, MaTimesN
<1>11. CASE Late(st, q)
  <2>1. events' = events /\ state' = state
    BY <1>3, <1>5, <1>11
  <2> QED
    BY <1>9, <1>10, <2>1 DEF Remembered, PricesKept
<1>12. CASE ~Late(st, q)
  BY <1>1, <1>4, <1>5, <1>8, <1>9, <1>10, <1>12 DEF Remembered
<1> QED
  BY <1>11, <1>12

(* A quote that is not evaluated leaves the state, or what a refresh makes *)
(* of it.                                                                  *)
LEMMA SkippedQuote ==
    ASSUME PricesKept, armed \in BOOLEAN, Remembered, NEW q,
           events' = events, state' = state \/ state' = None, rule' = rule,
           Learns(q) \/ armed' = armed
    PROVE  /\ state' = None \/ state'.price \in Prices
           /\ Remembered'
<1>1. armed => armed'
  BY DEF Learns
<1>2. \A x : Holds(x)' <=> Holds(x)
  BY DEF Holds, AboveMa, BelowMa, Within, MaTimesN
<1> QED
  BY <1>1, <1>2 DEF PricesKept, Remembered

LEMMA LearnsTyped ==
    ASSUME NEW q, Learns(q), armed \in BOOLEAN, repeated \in BOOLEAN, events' = events \/ armed
    PROVE  armed' \in BOOLEAN /\ repeated' = repeated
BY DEF Learns

LEMMA CrossingStep ==
    ASSUME CrossingInv, [Next]_vars
    PROVE  CrossingInv'
<1>1. PricesKept /\ armed \in BOOLEAN /\ repeated \in BOOLEAN /\ torn \in BOOLEAN
  BY DEF CrossingInv
<1>2. ASSUME NEW q \in Quotes, Accept(q)
      PROVE  CrossingInv'
  <2> DEFINE act == IF due THEN Known ELSE active
             st == IF due THEN Refreshed ELSE state
  <2>1. /\ last' = q /\ rule' = rule /\ torn' = torn /\ Learns(q)
        /\ events' = IF Evaluates(q, act) THEN Recorded(st, q) ELSE events
        /\ state' = IF Evaluates(q, act) THEN NewState(st, q) ELSE st
    BY <1>2 DEF Accept
  <2>2. st = state \/ st = None
    BY DEF Refreshed
  <2>3. Evaluates(q, act) => q.live
    BY DEF Evaluates
  <2> HIDE DEF act, st
  <2>4. last' = None \/ Priced(last')
    BY <1>1, <2>1, QuotesArePriced
  <2>5. CASE torn
    <3>1. armed' \in BOOLEAN /\ repeated' \in BOOLEAN
      BY <2>1 DEF Learns
    <3>2. state' = None \/ state'.price \in Prices
      <4>1. q.price \in Prices
        BY <1>1, QuotesArePriced DEF Priced
      <4> QED
        BY <1>1, <2>1, <2>2, <4>1 DEF PricesKept, NewState
    <3> QED
      BY <1>1, <2>1, <2>4, <2>5, <3>1, <3>2 DEF CrossingInv, PricesKept
  <2>6. CASE ~torn
    <3>1. Remembered /\ ~repeated
      BY <2>6 DEF CrossingInv
    <3>2. CASE Evaluates(q, act)
      <4>1. /\ state' = None \/ state'.price \in Prices
            /\ events' = events \/ armed
            /\ Remembered'
        BY <1>1, <2>1, <2>2, <2>3, <3>1, <3>2, EvaluatedQuote
      <4>2. armed' \in BOOLEAN /\ repeated' = repeated
        BY <1>1, <2>1, <4>1, LearnsTyped
      <4> QED
        BY <1>1, <2>1, <2>4, <3>1, <4>1, <4>2 DEF CrossingInv, PricesKept
    <3>3. CASE ~Evaluates(q, act)
      <4>1. events' = events /\ (state' = None \/ state' = state)
        BY <2>1, <2>2, <3>3
      <4>2. (state' = None \/ state'.price \in Prices) /\ Remembered'
        BY <1>1, <2>1, <3>1, <4>1, SkippedQuote
      <4>3. armed' \in BOOLEAN /\ repeated' = repeated
        BY <1>1, <2>1, <4>1, LearnsTyped
      <4> QED
        BY <1>1, <2>1, <2>4, <3>1, <4>2, <4>3 DEF CrossingInv, PricesKept
    <3> QED
      BY <3>2, <3>3
  <2> QED
    BY <1>1, <2>5, <2>6
<1>3. ASSUME NEW q \in Quotes, AcceptFails(q)
      PROVE  CrossingInv'
  <2>1. last' = q /\ rule' = rule /\ state' = state /\ torn' = TRUE /\ Learns(q)
    BY <1>3 DEF AcceptFails
  <2>2. armed' \in BOOLEAN /\ repeated' \in BOOLEAN
    BY <2>1 DEF Learns
  <2> QED
    BY <1>1, <2>1, <2>2, QuotesArePriced DEF CrossingInv, PricesKept
<1>4. ASSUME UNCHANGED <<rule, state, events, history>>,
             last' = None \/ Priced(last')
      PROVE  CrossingInv'
  <2>1. /\ rule' = rule /\ state' = state /\ armed' = armed /\ repeated' = repeated /\ torn' = torn
    BY <1>4 DEF history
  <2>2. \A x : Holds(x)' <=> Holds(x)
    BY <2>1 DEF Holds, AboveMa, BelowMa, Within, MaTimesN
  <2> QED
    BY <1>1, <1>4, <2>1, <2>2 DEF CrossingInv, PricesKept, Remembered
<1>5. ASSUME NEW q \in Quotes, AcceptRaises(q) \/ RefreshFails(q)
      PROVE  CrossingInv'
  <2>1. last' = q /\ UNCHANGED <<rule, state, events, history>>
    BY <1>5 DEF AcceptRaises, RefreshFails
  <2> QED
    BY <1>1, <1>4, <2>1, QuotesArePriced
<1>6. CASE Clock \/ UNCHANGED vars
  <2>1. UNCHANGED <<rule, state, events, history>> /\ last' = last
    BY <1>6 DEF Clock, vars, history
  <2> QED
    BY <1>1, <1>4, <2>1 DEF PricesKept
<1>7. CASE Switch
  <2>1. UNCHANGED <<rule, state, events, armed, repeated, torn>> /\ last' = last
    BY <1>7 DEF Switch
  <2>2. \A x : Holds(x)' <=> Holds(x)
    BY <2>1 DEF Holds, AboveMa, BelowMa, Within, MaTimesN
  <2> QED
    BY <1>1, <2>1, <2>2 DEF CrossingInv, PricesKept, Remembered
<1>8. CASE Restart
  <2>1. UNCHANGED <<rule, state, events, history>>
    BY <1>8 DEF Restart
  <2>2. last' = IF last = None THEN None ELSE [last EXCEPT !.seq = 0, !.ts = now]
    BY <1>8 DEF Restart
  <2>3. last' = None \/ Priced(last')
    <3>1. CASE last = None
      BY <2>2, <3>1
    <3>2. CASE last # None
      BY <1>1, <2>2, <3>2 DEF PricesKept, Priced
    <3> QED
      BY <3>1, <3>2
  <2> QED
    BY <1>4, <2>1, <2>3
<1> QED
  BY <1>2, <1>3, <1>5, <1>6, <1>7, <1>8 DEF Next

(* Between two events of a rule a LIVE quote came for which its condition  *)
(* did not hold: what is late, repeated or of another day, a rule switched *)
(* and a process restarted report no crossing twice (realtime_alerts.py).  *)
THEOREM CrossingsAreReportedOnce == Spec => []OncePerCrossing
<1>1. Init => CrossingInv
  BY DEF Init, CrossingInv, PricesKept, Remembered
<1>2. CrossingInv /\ [Next]_vars => CrossingInv'
  BY CrossingStep
<1>3. CrossingInv => OncePerCrossing
  BY DEF CrossingInv, OncePerCrossing
<1> QED
  BY <1>1, <1>2, <1>3, PTL DEF Spec
===============================================================================
