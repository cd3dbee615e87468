-------------------------- MODULE UserRequestsProofs --------------------------
(*****************************************************************************)
(* The theorems about what users do, one part after the other: the sessions  *)
(* of a phone, the data a user keeps, the alerts of the end of the day, the  *)
(* streams of a phone and the analyses. A behaviour of UserRequests about    *)
(* one of these subjects is one of the specification its part begins with.   *)
(*****************************************************************************)
EXTENDS PortfolioRequests, WatchListRequests, EodAlerts, AuthSessions, RealtimeClient,
        AiAnalysis, FiguresProofs

-----------------------------------------------------------------------------
(*****************************************************************************)
(* Sessions, for any number of accounts, calls and sessions. The invariant   *)
(* says what the phone and the server agree on at each stage of an           *)
(* exchange: which session is live, whose it is, and what the answer under   *)
(* way will make of the store.                                               *)
(*****************************************************************************)
States == {"fresh", "stale", "over", "revoked"}
Session == [user : Accounts, state : States]

(* A call, when n sessions have been issued.                               *)
CallsUpTo(n) ==
    {Waiting}
    \cup [phase : {"sent"}, token : 0 .. n, again : BOOLEAN]
    \cup [phase : {"refused"}, token : 0 .. n]
    \cup [phase : {"refreshing", "read"}, with : 1 .. n]
    \cup [phase : {"granted"}, new : 0 .. n]
StoresUpTo(n) == [access : 0 .. n, refresh : 0 .. n, user : Accounts \cup {Nobody}]

AuthTypeOK ==
    /\ sess \in Seq(Session)
    /\ store \in StoresUpTo(Len(sess))
    /\ shown \in BOOLEAN /\ raced \in BOOLEAN
    /\ call \in [Calls -> CallsUpTo(Len(sess))]
    /\ lock \in Calls \cup {Nobody}
    /\ leaving \in {"no", "asked", "revoked"}
    /\ faults \in Nat

(* The call that holds the lock is the one in an exchange.                 *)
Exchanging(c) == call[c].phase \in {"refreshing", "read", "granted"}
LockIsHeld == \A c \in Calls : Exchanging(c) <=> lock = c

(* Outside an exchange only the session that is kept may be live, and it   *)
(* was not revoked unless the logout has done so.                          *)
StoreIsKept ==
    /\ store.access = store.refresh
    /\ store.refresh = None <=> store = Empty
    /\ ~shown => store = Empty
    /\ store.refresh # None => sess[store.refresh].user = store.user

OnlyLive(n) == \A m \in DOMAIN sess : Live(m) => m = n

Stage(c) ==
    CASE call[c].phase = "refreshing" ->
            /\ call[c].with = store.refresh
            /\ OnlyLive(store.refresh)
            /\ leaving # "revoked" => sess[store.refresh].state # "revoked"
      [] call[c].phase = "read" ->
            /\ call[c].with = store.refresh
            /\ OnlyLive(store.refresh)
            /\ leaving # "revoked"
            /\ sess[store.refresh].state # "revoked"
      [] call[c].phase = "granted" ->
            /\ OnlyLive(call[c].new)
            /\ call[c].new # None =>
                  /\ leaving # "revoked"
                  /\ sess[call[c].new].user = store.user
                  /\ sess[call[c].new].state # "revoked"
      [] OTHER -> TRUE

Agreement ==
    /\ StoreIsKept
    /\ lock # Nobody => store # Empty /\ \A c \in Calls : lock = c => Stage(c)
    /\ lock = Nobody =>
          /\ OnlyLive(store.refresh)
          /\ store.refresh # None /\ leaving # "revoked" => sess[store.refresh].state # "revoked"
    /\ leaving = "revoked" => \A m \in DOMAIN sess : ~Live(m)

AuthInv == AuthTypeOK /\ LockIsHeld /\ (Undisturbed => Agreement)

-----------------------------------------------------------------------------
(* What is issued later leaves room for what there is.                     *)
LEMMA MoreSessions ==
    ASSUME NEW m \in Nat, NEW n \in Nat, m <= n
    PROVE  CallsUpTo(m) \subseteq CallsUpTo(n) /\ StoresUpTo(m) \subseteq StoresUpTo(n)
<1>1. 0 .. m \subseteq 0 .. n /\ 1 .. m \subseteq 1 .. n
  OBVIOUS
<1> QED
  BY <1>1 DEF CallsUpTo, StoresUpTo

(* A change of states keeps the length, an append adds one.                *)
LEMMA Changed ==
    ASSUME sess \in Seq(Session), NEW n \in DOMAIN sess, NEW s \in States
    PROVE  LET new == [sess EXCEPT ![n].state = s]
           IN  /\ new \in Seq(Session) /\ Len(new) = Len(sess)
               /\ \A m \in DOMAIN sess :
                     /\ new[m].user = sess[m].user
                     /\ new[m].state = IF m = n THEN s ELSE sess[m].state
<1> DEFINE new == [sess EXCEPT ![n].state = s]
<1>1. sess \in [1 .. Len(sess) -> Session] /\ Len(sess) \in Nat /\ n \in 1 .. Len(sess)
  OBVIOUS
<1>2. new \in [1 .. Len(sess) -> Session]
  BY <1>1 DEF Session
<1>3. new \in Seq(Session) /\ Len(new) = Len(sess)
  BY <1>1, <1>2
<1> QED
  BY <1>1, <1>3 DEF Session

LEMMA Appended ==
    ASSUME NEW q \in Seq(Session), NEW e \in Session
    PROVE  /\ Append(q, e) \in Seq(Session) /\ Len(Append(q, e)) = Len(q) + 1
           /\ \A m \in DOMAIN q : Append(q, e)[m] = q[m]
           /\ Append(q, e)[Len(q) + 1] = e
OBVIOUS

(* A call by its phase.                                                    *)
LEMMA CallPhases ==
    ASSUME AuthTypeOK, NEW c \in Calls
    PROVE  /\ call[c].phase \in {"none", "sent", "refused", "refreshing", "read", "granted"}
           /\ call[c].phase = "sent" => call[c].token \in 0 .. Len(sess)
           /\ call[c].phase = "refused" => call[c].token \in 0 .. Len(sess)
           /\ call[c].phase \in {"refreshing", "read"} => call[c].with \in 1 .. Len(sess)
           /\ call[c].phase = "granted" => call[c].new \in 0 .. Len(sess)
BY DEF AuthTypeOK, CallsUpTo, Waiting

-----------------------------------------------------------------------------
(* What an action does to a call is one of the calls under way.            *)
LEMMA TypeStep ==
    ASSUME AuthTypeOK, LockIsHeld, [AuthNext]_auth
    PROVE  AuthTypeOK'
<1> USE AuthAssumption
<1>0. Len(sess) \in Nat /\ DOMAIN sess = 1 .. Len(sess) /\ Waiting \in CallsUpTo(Len(sess))
  BY DEF AuthTypeOK, CallsUpTo
<1>1. ASSUME NEW n \in 1 .. MaxSessions, Expire(n) PROVE AuthTypeOK'
  <2>1. n \in DOMAIN sess /\ (IF sess[n].state = "fresh" THEN "stale" ELSE "over") \in States
    BY <1>1 DEF Expire, States
  <2>2. sess' \in Seq(Session) /\ Len(sess') = Len(sess)
    BY <1>1, <2>1, Changed DEF AuthTypeOK, Expire
  <2> QED
    BY <1>1, <2>2 DEF AuthTypeOK, Expire
<1>2. ASSUME NEW u \in Accounts, Login(u) PROVE AuthTypeOK'
  <2>1. Issued(u) \in Session
    BY DEF Issued, Session, States
  <2>2. sess' \in Seq(Session) /\ Len(sess') = Len(sess) + 1
    BY <1>2, <2>1, Appended DEF AuthTypeOK, Login
  <2>3. CallsUpTo(Len(sess)) \subseteq CallsUpTo(Len(sess'))
    BY <1>0, <2>2, MoreSessions
  <2>4. store' \in StoresUpTo(Len(sess'))
    BY <1>0, <1>2, <2>2 DEF Login, StoresUpTo
  <2> QED
    BY <1>2, <2>2, <2>3, <2>4 DEF AuthTypeOK, Login
<1>3. ASSUME NEW c \in Calls, Send(c) PROVE AuthTypeOK'
  <2>1. call'[c] \in CallsUpTo(Len(sess))
    BY <1>3 DEF AuthTypeOK, Send, CallsUpTo, StoresUpTo
  <2> QED
    BY <1>3, <2>1 DEF AuthTypeOK, Send
<1>4. ASSUME NEW c \in Calls, Answer(c) PROVE AuthTypeOK'
  <2>1. call'[c] \in CallsUpTo(Len(sess))
    BY <1>0, <1>4, CallPhases DEF AuthTypeOK, Answer, CallsUpTo
  <2> QED
    BY <1>4, <2>1 DEF AuthTypeOK, Answer
<1>5. ASSUME NEW c \in Calls, Authenticate(c) PROVE AuthTypeOK'
  <2>1. /\ Again(store.access) \in CallsUpTo(Len(sess))
        /\ store.refresh # None => [phase |-> "refreshing", with |-> store.refresh] \in CallsUpTo(Len(sess))
    BY <1>0 DEF AuthTypeOK, CallsUpTo, StoresUpTo, Again, None
  <2> QED
    BY <1>0, <1>5, <2>1 DEF AuthTypeOK, Authenticate
<1>6. ASSUME NEW c \in Calls, RefreshRead(c) PROVE AuthTypeOK'
  <2>1. call'[c] \in CallsUpTo(Len(sess))
    <3>1. [call[c] EXCEPT !.phase = "read"] \in [phase : {"refreshing", "read"}, with : 1 .. Len(sess)]
      BY <1>6 DEF AuthTypeOK, RefreshRead, CallsUpTo, Waiting
    <3>2. Refused \in [phase : {"granted"}, new : 0 .. Len(sess)]
      BY <1>0 DEF Refused, None
    <3> QED
      BY <1>6, <3>1, <3>2 DEF AuthTypeOK, RefreshRead, CallsUpTo
  <2> QED
    BY <1>6, <2>1 DEF AuthTypeOK, RefreshRead
<1>7. ASSUME NEW c \in Calls, RefreshCommit(c) PROVE AuthTypeOK'
  <2> DEFINE revoked == [sess EXCEPT ![call[c].with].state = "revoked"]
             new == Issued(sess[call[c].with].user)
  <2>1. call[c].with \in DOMAIN sess /\ "revoked" \in States
    BY <1>0, <1>7, CallPhases DEF RefreshCommit, States
  <2>2. revoked \in Seq(Session) /\ Len(revoked) = Len(sess)
    BY <2>1, Changed DEF AuthTypeOK
  <2>3. new \in Session
    <3>1. sess[call[c].with] \in Session
      BY <1>0, <2>1 DEF AuthTypeOK
    <3> QED
      BY <3>1 DEF Issued, Session, States
  <2>4. sess' \in Seq(Session) /\ Len(sess') = Len(sess) + 1
    BY <1>7, <2>2, <2>3, Appended DEF RefreshCommit
  <2>5. CallsUpTo(Len(sess)) \subseteq CallsUpTo(Len(sess')) /\ StoresUpTo(Len(sess)) \subseteq StoresUpTo(Len(sess'))
    BY <1>0, <2>4, MoreSessions
  <2>6. [phase |-> "granted", new |-> Len(sess')] \in CallsUpTo(Len(sess'))
    BY <1>0, <2>4 DEF CallsUpTo
  <2> QED
    BY <1>7, <2>4, <2>5, <2>6 DEF AuthTypeOK, RefreshCommit
<1>8. ASSUME NEW c \in Calls, RefreshLost(c) PROVE AuthTypeOK'
  <2>1. Refused \in CallsUpTo(Len(sess))
    BY <1>0 DEF Refused, None, CallsUpTo
  <2> QED
    BY <1>8, <2>1 DEF AuthTypeOK, RefreshLost
<1>9. ASSUME NEW c \in Calls, Rotate(c) PROVE AuthTypeOK'
  <2> DEFINE new == call[c].new
  <2>1. new \in 0 .. Len(sess)
    BY <1>9, CallPhases DEF Rotate
  <2>2. Again(new) \in CallsUpTo(Len(sess)) /\ Empty \in StoresUpTo(Len(sess))
    BY <1>0, <2>1 DEF Again, CallsUpTo, Empty, StoresUpTo, None
  <2>3. [access |-> new, refresh |-> new, user |-> store.user] \in StoresUpTo(Len(sess))
    BY <2>1 DEF AuthTypeOK, StoresUpTo
  <2> QED
    BY <1>0, <1>9, <2>2, <2>3 DEF AuthTypeOK, Rotate
<1>10. CASE LogoutBegin
  BY <1>10 DEF AuthTypeOK, LogoutBegin
<1>11. CASE LogoutRevoke
  <2>1. sess' \in Seq(Session) /\ Len(sess') = Len(sess)
    <3>1. CASE sess' = sess
      BY <3>1 DEF AuthTypeOK
    <3>2. CASE store.refresh # None /\ sess' = [sess EXCEPT ![store.refresh].state = "revoked"]
      <4>1. store.refresh \in DOMAIN sess /\ "revoked" \in States
        BY <1>0, <3>2 DEF AuthTypeOK, StoresUpTo, None, States
      <4> QED
        BY <3>2, <4>1, Changed DEF AuthTypeOK
    <3> QED
      BY <1>11, <3>1, <3>2 DEF LogoutRevoke
  <2> QED
    BY <1>11, <2>1 DEF AuthTypeOK, LogoutRevoke, Met
<1>12. CASE LogoutClear
  <2>1. store' \in StoresUpTo(Len(sess'))
    BY <1>0, <1>12 DEF LogoutClear, Empty, StoresUpTo, None
  <2>2. raced' \in BOOLEAN
    BY <1>12 DEF AuthTypeOK, LogoutClear, Met
  <2> QED
    BY <1>12, <2>1, <2>2 DEF AuthTypeOK, LogoutClear
<1>13. CASE Restart
  BY <1>0, <1>13 DEF AuthTypeOK, Restart
<1>14. CASE UNCHANGED auth
  BY <1>14 DEF AuthTypeOK, auth
<1> QED
  BY <1>1, <1>2, <1>3, <1>4, <1>5, <1>6, <1>7, <1>8, <1>9, <1>10, <1>11, <1>12, <1>13, <1>14 DEF AuthNext

-----------------------------------------------------------------------------
LEMMA LockStep ==
    ASSUME AuthTypeOK, LockIsHeld, [AuthNext]_auth
    PROVE  LockIsHeld'
<1> USE AuthAssumption DEF LockIsHeld, Exchanging
<1>0. call \in [Calls -> CallsUpTo(Len(sess))] /\ lock \in Calls \cup {Nobody}
  BY DEF AuthTypeOK
<1>1. CASE UNCHANGED <<call, lock>>
  BY <1>1
<1>2. ASSUME NEW c \in Calls, Send(c) PROVE LockIsHeld'
  BY <1>0, <1>2 DEF Send, Waiting
<1>3. ASSUME NEW c \in Calls, Answer(c) PROVE LockIsHeld'
  BY <1>0, <1>3 DEF Answer, Waiting
<1>4. ASSUME NEW c \in Calls, Authenticate(c) PROVE LockIsHeld'
  BY <1>0, <1>4 DEF Authenticate, Waiting, Again
<1>5. ASSUME NEW c \in Calls, RefreshRead(c) PROVE LockIsHeld'
  <2>1. [call[c] EXCEPT !.phase = "read"].phase = "read"
    BY <1>0, <1>5 DEF RefreshRead, CallsUpTo, Waiting
  <2> QED
    BY <1>0, <1>5, <2>1 DEF RefreshRead, Refused
<1>6. ASSUME NEW c \in Calls, RefreshCommit(c) PROVE LockIsHeld'
  BY <1>0, <1>6 DEF RefreshCommit
<1>7. ASSUME NEW c \in Calls, RefreshLost(c) PROVE LockIsHeld'
  BY <1>0, <1>7 DEF RefreshLost, Refused
<1>8. ASSUME NEW c \in Calls, Rotate(c) PROVE LockIsHeld'
  BY <1>0, <1>8 DEF Rotate, Waiting, Again
<1>9. CASE Restart
  BY <1>0, <1>9 DEF Restart, Waiting
<1> QED
  BY <1>1, <1>2, <1>3, <1>4, <1>5, <1>6, <1>7, <1>8, <1>9
  DEF AuthNext, Expire, Login, LogoutBegin, LogoutRevoke, LogoutClear, auth

(* A session is changed by its number: the others stay as they were.       *)
LEMMA LiveAfter ==
    ASSUME AuthTypeOK, NEW n \in DOMAIN sess, NEW s \in {"stale", "over", "revoked"},
           sess' = [sess EXCEPT ![n].state = s],
           Live(n) \/ s = "revoked"
    PROVE  /\ DOMAIN sess' = DOMAIN sess
           /\ \A m \in DOMAIN sess : /\ Live(m)' => Live(m)
                                     /\ sess'[m].user = sess[m].user
                                     /\ m # n => sess'[m].state = sess[m].state
           /\ sess'[n].state = s
<1>1. s \in States /\ sess \in Seq(Session)
  BY DEF States, AuthTypeOK
<1>2. DOMAIN sess' = DOMAIN sess
  BY <1>1, Changed
<1>3. \A m \in DOMAIN sess : /\ sess'[m].user = sess[m].user
                              /\ sess'[m].state = IF m = n THEN s ELSE sess[m].state
  BY <1>1, Changed
<1> QED
  BY <1>2, <1>3 DEF Live

-----------------------------------------------------------------------------
(* The agreement, action by action.                                        *)
LEMMA StillUndisturbed ==
    ASSUME AuthTypeOK, [AuthNext]_auth, Undisturbed'
    PROVE  Undisturbed
<1>1. faults' = faults \/ faults' = faults + 1
  BY DEF AuthNext, auth, Expire, Login, Send, Answer, Authenticate, RefreshRead, RefreshCommit,
         RefreshLost, Rotate, LogoutBegin, LogoutRevoke, LogoutClear, Restart
<1>2. raced' = raced \/ Met
  BY DEF AuthNext, auth, Expire, Login, Send, Answer, Authenticate, RefreshRead, RefreshCommit,
         RefreshLost, Rotate, LogoutBegin, LogoutRevoke, LogoutClear, Restart
<1> QED
  BY <1>1, <1>2 DEF AuthTypeOK, Undisturbed, Met

LEMMA AgreementStep ==
    ASSUME AuthInv, AuthTypeOK', LockIsHeld', [AuthNext]_auth, Undisturbed'
    PROVE  Agreement'
<1> USE AuthAssumption
<1>0. /\ Undisturbed /\ AuthTypeOK /\ LockIsHeld /\ Agreement
      /\ Len(sess) \in Nat /\ DOMAIN sess = 1 .. Len(sess)
      /\ store.refresh \in 0 .. Len(sess) /\ store.access \in 0 .. Len(sess)
  BY StillUndisturbed DEF AuthInv, AuthTypeOK, StoresUpTo
<1>1. ASSUME NEW n \in 1 .. MaxSessions, Expire(n) PROVE Agreement'
  <2> DEFINE s == IF sess[n].state = "fresh" THEN "stale" ELSE "over"
  <2>1. n \in DOMAIN sess /\ Live(n) /\ s \in {"stale", "over", "revoked"} /\ s # "revoked"
    BY <1>1 DEF Expire
  <2>2. sess' = [sess EXCEPT ![n].state = s]
    BY <1>1 DEF Expire
  <2>3. /\ DOMAIN sess' = DOMAIN sess
        /\ \A m \in DOMAIN sess : /\ Live(m)' => Live(m)
                                  /\ sess'[m].user = sess[m].user
                                  /\ sess'[m].state = "revoked" => sess[m].state = "revoked"
    BY <1>0, <2>1, <2>2, LiveAfter
  <2>4. UNCHANGED <<store, shown, call, lock, leaving>>
    BY <1>1 DEF Expire
  <2>5. \A m : OnlyLive(m) => OnlyLive(m)'
    BY <2>3 DEF OnlyLive
  <2>6. ASSUME NEW c \in Calls, lock = c, Stage(c) PROVE Stage(c)'
    <3>1. call[c].phase \in {"refreshing", "read", "granted"}
      BY <1>0, <2>6 DEF LockIsHeld, Exchanging
    <3>2. store.refresh # None /\ store.refresh \in DOMAIN sess
      BY <1>0, <2>6 DEF Agreement, StoreIsKept, None
    <3>3. CASE call[c].phase \in {"refreshing", "read"}
      BY <2>3, <2>4, <2>5, <2>6, <3>2, <3>3 DEF Stage
    <3>4. CASE call[c].phase = "granted"
      <4>1. call[c].new \in 0 .. Len(sess)
        BY <1>0, <3>4, CallPhases
      <4>2. call[c].new # None => call[c].new \in DOMAIN sess
        BY <1>0, <4>1 DEF None
      <4> QED
        BY <2>3, <2>4, <2>5, <2>6, <3>4, <4>2 DEF Stage
    <3> QED
      BY <3>1, <3>3, <3>4
  <2>7. store.refresh # None => store.refresh \in DOMAIN sess
    BY <1>0 DEF None
  <2>8. StoreIsKept'
    BY <1>0, <2>3, <2>4, <2>7 DEF Agreement, StoreIsKept
  <2> QED
    BY <1>0, <2>3, <2>4, <2>5, <2>6, <2>7, <2>8 DEF Agreement
<1>2. ASSUME NEW u \in Accounts, Login(u) PROVE Agreement'
  <2>1. store = Empty /\ store.refresh = None /\ lock = Nobody
    BY <1>0, <1>2 DEF Agreement, StoreIsKept, Login, Empty
  <2>2. Issued(u) \in Session /\ sess \in Seq(Session)
    BY <1>0 DEF Issued, Session, States, AuthTypeOK
  <2>3. /\ Len(sess') = Len(sess) + 1 /\ DOMAIN sess' = 1 .. Len(sess')
        /\ \A m \in DOMAIN sess : sess'[m] = sess[m]
        /\ sess'[Len(sess')] = Issued(u)
    BY <1>0, <1>2, <2>2, Appended DEF Login, AuthTypeOK
  <2>4. \A m \in DOMAIN sess : ~Live(m)
    BY <1>0, <2>1 DEF Agreement, OnlyLive, None
  <2>5. OnlyLive(Len(sess))'
    BY <1>0, <2>3, <2>4 DEF OnlyLive, Live
  <2>6. store' = [access |-> Len(sess'), refresh |-> Len(sess'), user |-> u] /\ shown' = TRUE
        /\ leaving' = "no" /\ lock' = Nobody
    BY <1>2, <2>1 DEF Login
  <2>7. StoreIsKept'
    BY <1>0, <2>3, <2>6 DEF StoreIsKept, Empty, None, Issued
  <2> QED
    BY <2>3, <2>5, <2>6, <2>7 DEF Agreement, Issued, OnlyLive
<1>3. ASSUME UNCHANGED <<sess, store, shown, lock, leaving>>,
             \A c \in Calls : lock = c => call'[c] = call[c]
      PROVE  Agreement'
  <2>1. \A m : OnlyLive(m)' <=> OnlyLive(m)
    BY <1>3 DEF OnlyLive, Live
  <2>2. \A c \in Calls : lock = c => (Stage(c)' <=> Stage(c))
    BY <1>3, <2>1 DEF Stage
  <2> QED
    BY <1>0, <1>3, <2>1, <2>2 DEF Agreement, StoreIsKept, Live
<1>4. ASSUME NEW c \in Calls, Send(c) PROVE Agreement'
  BY <1>0, <1>3, <1>4 DEF Send, LockIsHeld, Exchanging, Waiting, AuthTypeOK
<1>5. ASSUME NEW c \in Calls, Answer(c) PROVE Agreement'
  BY <1>0, <1>3, <1>5 DEF Answer, LockIsHeld, Exchanging, AuthTypeOK
<1>6. ASSUME NEW c \in Calls, Authenticate(c) PROVE Agreement'
  <2>1. CASE UNCHANGED lock
    BY <1>0, <1>3, <1>6, <2>1 DEF Authenticate
  <2>2. CASE store.refresh # None /\ lock' = c
             /\ call' = [call EXCEPT ![c] = [phase |-> "refreshing", with |-> store.refresh]]
    <3>1. call'[c] = [phase |-> "refreshing", with |-> store.refresh]
      BY <1>0, <2>2 DEF AuthTypeOK
    <3>2. UNCHANGED <<sess, store, shown, leaving>> /\ lock = Nobody
      BY <1>6 DEF Authenticate
    <3>3. OnlyLive(store.refresh)' /\ StoreIsKept'
      BY <1>0, <3>2 DEF Agreement, OnlyLive, Live, StoreIsKept
    <3>4. Stage(c)'
      BY <1>0, <2>2, <3>1, <3>2, <3>3 DEF Stage, Agreement
    <3> QED
      BY <1>0, <2>2, <3>2, <3>3, <3>4 DEF Agreement, StoreIsKept, Live
  <2> QED
    BY <1>6, <2>1, <2>2 DEF Authenticate
<1>7. ASSUME NEW c \in Calls, RefreshRead(c) PROVE Agreement'
  <2>1. lock = c /\ Stage(c) /\ call[c].with = store.refresh /\ store.refresh \in DOMAIN sess
        /\ store.refresh # None
    BY <1>0, <1>7, CallPhases DEF RefreshRead, LockIsHeld, Exchanging, Agreement, Stage, None
  <2>2. UNCHANGED <<sess, store, shown, lock, leaving>>
    BY <1>7 DEF RefreshRead
  <2>3. OnlyLive(store.refresh) /\ (leaving # "revoked" => sess[store.refresh].state # "revoked")
    BY <1>7, <2>1 DEF Stage, RefreshRead
  <2>4. CASE Live(call[c].with)
    <3>1. leaving # "revoked" /\ sess[store.refresh].state # "revoked"
      BY <1>0, <2>1, <2>3, <2>4 DEF Agreement
    <3>2. call'[c].phase = "read" /\ call'[c].with = call[c].with
      BY <1>0, <1>7, <2>4 DEF RefreshRead, AuthTypeOK, CallsUpTo, Waiting
    <3>3. Stage(c)'
      BY <2>1, <2>2, <2>3, <3>1, <3>2 DEF Stage, OnlyLive, Live
    <3> QED
      BY <1>0, <2>1, <2>2, <2>3, <3>3 DEF Agreement, StoreIsKept, Live, OnlyLive
  <2>5. CASE ~Live(call[c].with)
    <3>1. call'[c] = Refused
      BY <1>0, <1>7, <2>5 DEF RefreshRead, AuthTypeOK
    <3>2. \A m \in DOMAIN sess : ~Live(m)
      BY <2>1, <2>3, <2>5 DEF OnlyLive
    <3>3. Stage(c)'
      BY <2>2, <3>1, <3>2 DEF Stage, Refused, OnlyLive, Live, None
    <3> QED
      BY <1>0, <2>1, <2>2, <3>3 DEF Agreement, StoreIsKept, Live, OnlyLive
  <2> QED
    BY <2>4, <2>5
<1>8. ASSUME NEW c \in Calls, RefreshCommit(c) PROVE Agreement'
  <2> DEFINE old == call[c].with
             revoked == [sess EXCEPT ![old].state = "revoked"]
             new == Issued(sess[old].user)
  <2>1. lock = c /\ Stage(c) /\ old = store.refresh /\ old \in DOMAIN sess /\ store.refresh # None
    BY <1>0, <1>8, CallPhases DEF RefreshCommit, LockIsHeld, Exchanging, Agreement, Stage, None
  <2>2. OnlyLive(old) /\ leaving # "revoked"
    BY <1>8, <2>1 DEF Stage, RefreshCommit
  <2>3. /\ revoked \in Seq(Session) /\ Len(revoked) = Len(sess)
        /\ \A m \in DOMAIN sess : /\ revoked[m].user = sess[m].user
                                  /\ revoked[m].state = IF m = old THEN "revoked" ELSE sess[m].state
    BY <1>0, <2>1, Changed DEF AuthTypeOK, States
  <2>4. new \in Session
    <3>1. sess[old] \in Session
      BY <1>0, <2>1 DEF AuthTypeOK
    <3> QED
      BY <3>1 DEF Issued, Session, States
  <2>5. /\ Len(sess') = Len(sess) + 1 /\ DOMAIN sess' = 1 .. Len(sess')
        /\ \A m \in DOMAIN sess : sess'[m] = revoked[m]
        /\ sess'[Len(sess')] = new
    BY <1>0, <1>8, <2>3, <2>4, Appended DEF RefreshCommit, AuthTypeOK
  <2> HIDE DEF revoked, new
  <2>6. \A m \in DOMAIN sess : ~(Live(m)')
    <3> SUFFICES ASSUME NEW m \in DOMAIN sess PROVE sess'[m].state \notin {"fresh", "stale"}
      BY DEF Live
    <3>1. sess'[m].state = IF m = old THEN "revoked" ELSE sess[m].state
      BY <2>3, <2>5
    <3> QED
      BY <2>2, <3>1 DEF OnlyLive, Live
  <2>7. OnlyLive(Len(sess))'
    BY <1>0, <2>5, <2>6 DEF OnlyLive
  <2>8. call'[c] = [phase |-> "granted", new |-> Len(sess')] /\ UNCHANGED <<store, shown, lock, leaving>>
    BY <1>0, <1>8 DEF RefreshCommit, AuthTypeOK
  <2>9. sess[old].user = store.user
    BY <1>0, <2>1 DEF Agreement, StoreIsKept
  <2>10. Stage(c)'
    <3>1. new = [user |-> store.user, state |-> "fresh"]
      BY <2>9 DEF new, Issued
    <3>2. call'[c].phase = "granted" /\ call'[c].new = Len(sess') /\ sess'[Len(sess')].user = store.user
          /\ sess'[Len(sess')].state = "fresh"
      BY <2>5, <2>8, <3>1
    <3> QED
      BY <2>2, <2>7, <2>8, <3>2 DEF Stage
  <2>11. StoreIsKept'
    BY <1>0, <2>1, <2>3, <2>5, <2>8 DEF Agreement, StoreIsKept
  <2> QED
    BY <1>0, <2>1, <2>2, <2>8, <2>10, <2>11 DEF Agreement
<1>9. ASSUME NEW c \in Calls, Rotate(c) PROVE Agreement'
  <2> DEFINE new == call[c].new
  <2>1. lock = c /\ Stage(c) /\ new \in 0 .. Len(sess)
    BY <1>0, <1>9, CallPhases DEF Rotate, LockIsHeld, Exchanging, Agreement
  <2>2. OnlyLive(new) /\ lock' = Nobody /\ UNCHANGED <<sess, shown, leaving>> /\ shown
    BY <1>0, <1>9, <2>1 DEF Rotate, Stage, Agreement, StoreIsKept
  <2>3. CASE new = None
    <3>1. store' = Empty
      BY <1>9, <2>3 DEF Rotate
    <3> QED
      BY <1>0, <2>2, <2>3, <3>1 DEF Agreement, StoreIsKept, Empty, OnlyLive, Live, None
  <2>4. CASE new # None
    <3>1. store' = [access |-> new, refresh |-> new, user |-> store.user]
      BY <1>9, <2>4 DEF Rotate
    <3>2. leaving # "revoked" /\ sess[new].user = store.user /\ sess[new].state # "revoked"
      BY <1>9, <2>1, <2>4 DEF Stage, Rotate
    <3> QED
      BY <1>0, <2>2, <2>4, <3>1, <3>2 DEF Agreement, StoreIsKept, Empty, OnlyLive, Live, None
  <2> QED
    BY <2>3, <2>4
<1>10. CASE LogoutBegin
  <2>1. UNCHANGED <<sess, store, shown, call, lock>> /\ leaving = "no" /\ leaving' = "asked"
    BY <1>10 DEF LogoutBegin
  <2>2. \A m : OnlyLive(m)' <=> OnlyLive(m)
    BY <2>1 DEF OnlyLive, Live
  <2>3. \A c \in Calls : Stage(c) => Stage(c)'
    BY <2>1, <2>2 DEF Stage
  <2> QED
    BY <1>0, <2>1, <2>2, <2>3 DEF Agreement, StoreIsKept
<1>11. CASE LogoutRevoke
  <2>1. UNCHANGED <<store, shown, call, lock>> /\ leaving' = "revoked" /\ lock = Nobody
    BY <1>11 DEF LogoutRevoke, Met, Undisturbed
  <2>2. faults' = faults
    BY <1>0, <1>11 DEF LogoutRevoke, Undisturbed, AuthTypeOK
  <2>3. CASE store.refresh = None
    <3>1. sess' = sess
      BY <1>0, <1>11, <2>2, <2>3 DEF LogoutRevoke, AuthTypeOK
    <3> QED
      BY <1>0, <2>1, <2>3, <3>1 DEF Agreement, StoreIsKept, OnlyLive, Live, None
  <2>4. CASE store.refresh # None
    <3>1. sess' = [sess EXCEPT ![store.refresh].state = "revoked"] /\ store.refresh \in DOMAIN sess
      BY <1>0, <1>11, <2>2, <2>4 DEF LogoutRevoke, AuthTypeOK, None
    <3>2. /\ DOMAIN sess' = DOMAIN sess
          /\ \A m \in DOMAIN sess : /\ Live(m)' => Live(m)
                                    /\ sess'[m].user = sess[m].user
          /\ sess'[store.refresh].state = "revoked"
      BY <1>0, <3>1, LiveAfter
    <3>3. \A m \in DOMAIN sess' : ~(Live(m)')
      BY <1>0, <2>1, <3>2 DEF Agreement, OnlyLive, Live
    <3> QED
      BY <1>0, <2>1, <3>1, <3>2, <3>3 DEF Agreement, StoreIsKept, OnlyLive
  <2> QED
    BY <2>3, <2>4
<1>12. CASE LogoutClear
  <2>1. lock = Nobody /\ UNCHANGED <<sess, lock>> /\ store' = Empty /\ ~shown' /\ leaving = "revoked"
        /\ leaving' = "no"
    BY <1>12 DEF LogoutClear, Met, Undisturbed
  <2> QED
    BY <1>0, <2>1 DEF Agreement, StoreIsKept, Empty, OnlyLive, Live
<1>13. ASSUME NEW c \in Calls, RefreshLost(c) PROVE FALSE
  BY <1>0, <1>13 DEF RefreshLost, Undisturbed, AuthTypeOK
<1>14. CASE Restart
  BY <1>0, <1>14 DEF Restart, Undisturbed, AuthTypeOK
<1>15. CASE UNCHANGED auth
  BY <1>3, <1>15 DEF auth
<1> QED
  BY <1>1, <1>2, <1>4, <1>5, <1>6, <1>7, <1>8, <1>9, <1>10, <1>11, <1>12, <1>13, <1>14, <1>15
  DEF AuthNext

-----------------------------------------------------------------------------
LEMMA AuthInvInitially == ASSUME AInit PROVE AuthInv
<1> USE AuthAssumption
<1>1. AuthTypeOK
  <2>1. sess \in Seq(Session) /\ Len(sess) = 0
    BY DEF AInit
  <2>2. Waiting \in CallsUpTo(0) /\ Empty \in StoresUpTo(0)
    BY DEF CallsUpTo, StoresUpTo, Empty, None
  <2> QED
    BY <2>1, <2>2 DEF AInit, AuthTypeOK
<1>2. LockIsHeld
  BY DEF AInit, LockIsHeld, Exchanging, Waiting
<1>3. Agreement
  BY DEF AInit, Agreement, StoreIsKept, OnlyLive, Empty, None
<1> QED
  BY <1>1, <1>2, <1>3 DEF AuthInv

(* The phone's store, the calls under way and the rows of auth_sessions    *)
(* keep their types, and the lock of the authenticator is held exactly by  *)
(* the call that exchanges the refresh token (AuthSyncApi.kt).             *)
THEOREM AuthInvariant == AuthSpec => []AuthInv
<1>1. ASSUME AuthInv, [AuthNext]_auth PROVE AuthInv'
  BY <1>1, TypeStep, LockStep, AgreementStep DEF AuthInv
<1> QED
  BY <1>1, AuthInvInitially, PTL DEF AuthSpec

(* Between two exchanges, and outside a logout, the session the app keeps  *)
(* is the only live one, and of the user it shows, for any number of calls *)
(* that are refused at once (docs/22: rotated on use, revocable).          *)
THEOREM PhoneAndServerAgree == AuthSpec => []SessionsAgree
<1>1. AuthInv => SessionsAgree
  BY DEF AuthInv, SessionsAgree, Agreement, StoreIsKept, OnlyLive
<1> QED
  BY <1>1, AuthInvariant, PTL

(* However many calls are refused at once, only the end of the refresh     *)
(* token or a logout makes the app forget its session.                     *)
THEOREM SessionIsKept == AuthSpec => KeptWhileValid
<1> DEFINE Forgets == Undisturbed /\ store # Empty /\ store' = Empty /\ leaving' = leaving
<1>1. ASSUME AuthInv, [AuthNext]_auth, Forgets PROVE ~Live(store.refresh)
  <2> USE AuthAssumption
  <2>1. AuthTypeOK /\ LockIsHeld /\ Agreement
    BY <1>1 DEF AuthInv
  <2>2. PICK c \in Calls : Rotate(c)
    <3>1. store' # store
      BY <1>1
    <3>2. ASSUME NEW u \in Accounts, Login(u) PROVE FALSE
      BY <1>1, <2>1, <3>2 DEF Login, Empty
    <3>3. ~LogoutClear
      BY <1>1 DEF LogoutClear
    <3> QED
      BY <1>1, <3>1, <3>2, <3>3
      DEF AuthNext, auth, Expire, Send, Answer, Authenticate, RefreshRead, RefreshCommit,
          RefreshLost, LogoutBegin, LogoutRevoke, Restart
  <2>3. lock = c /\ Stage(c) /\ call[c].phase = "granted" /\ call[c].new \in 0 .. Len(sess)
    BY <2>1, <2>2, CallPhases DEF Rotate, LockIsHeld, Exchanging, Agreement
  <2>4. call[c].new = None
    <3> SUFFICES ASSUME call[c].new # None PROVE FALSE
      OBVIOUS
    <3>1. store' = [access |-> call[c].new, refresh |-> call[c].new, user |-> store.user]
      BY <2>2 DEF Rotate
    <3> QED
      BY <1>1, <3>1 DEF Empty
  <2>5. OnlyLive(None)
    BY <2>3, <2>4 DEF Stage
  <2>6. store.refresh \in DOMAIN sess
    BY <1>1, <2>1 DEF Agreement, StoreIsKept, AuthTypeOK, StoresUpTo, None
  <2>7. DOMAIN sess = 1 .. Len(sess) /\ Len(sess) \in Nat
    BY <2>1 DEF AuthTypeOK
  <2> QED
    BY <2>5, <2>6, <2>7 DEF OnlyLive, None
<1>2. AuthInv /\ [AuthNext]_auth => [Forgets => ~Live(store.refresh)]_auth
  BY <1>1
<1> QED
  BY <1>2, AuthInvariant, PTL DEF AuthSpec, KeptWhileValid

-----------------------------------------------------------------------------
(*****************************************************************************)
(* End-of-day alerts, for any rules, stocks and dates. A run decides on      *)
(* what it read, so the invariant says of each run, by its phase, what it    *)
(* promises: an event for every hit, and no more notifications than the      *)
(* limit and the cooldown allow next to what was stored when it read.        *)
(*****************************************************************************)
AlertSpec == EInit /\ [][AlertNext]_evars

(* A rule keeps its fields, and what is deleted stays so.                  *)
RulesAreRules ==
    rules \in [Rules -> [exists : BOOLEAN, enabled : BOOLEAN, kind : {"touch", "near"}]]

AllEvents ==
    [rule : Rules, stock : UNION {Members[r] : r \in Rules}, date : Dates,
     kind : {"touch", "near"}, eligible : BOOLEAN, recent : BOOLEAN]

(* The notifications of a rule and date among some events.                 *)
Eligible(found, r, d) == {e \in found : e.rule = r /\ e.date = d /\ e.eligible}

(* What a run has found fits the limit next to what is stored, and with    *)
(* the cooldowns, as long as nothing was stored since it read.             *)
Fits(stored, found) ==
    /\ \A r \in Rules, d \in Dates :
          Cardinality(Eligible(stored, r, d)) + Cardinality(Eligible(found, r, d)) <= DailyLimit
    /\ \A e \in found, f \in stored \cup found :
          e.rule = f.rule /\ e.stock = f.stock
             /\ e.eligible /\ f.eligible /\ e.recent /\ f.recent => e = f

Sparing(stored) ==
    /\ \A r \in Rules, d \in Dates : Cardinality(Eligible(stored, r, d)) <= DailyLimit
    /\ \A e, f \in stored :
          e.rule = f.rule /\ e.stock = f.stock
             /\ e.eligible /\ f.eligible /\ e.recent /\ f.recent => e = f

(* Every hit of a run has its event, unless its rule is gone.              *)
Told(stored, standing, row) ==
    \A h \in row.hit :
        standing[h.rule].exists =>
           \E e \in stored : Same(e, Event(h.rule, h.stock, row.date, h.kind, FALSE))

RunPhases == {"not started", "started", "evaluated", "stored", "over"}
RunFields == {"phase", "date", "hit", "failed", "late", "found"}

(* A run by its phase, when the tables are these: a run with a pair that   *)
(* failed promises no event, and one that others have overtaken no         *)
(* restraint.                                                              *)
RunOK(row, stored, standing, overlap) ==
    /\ row.phase \in RunPhases
    /\ row.phase \in Active => row.date \in Dates
    /\ row.phase \in {"evaluated", "stored"} =>
          /\ row.failed \in BOOLEAN /\ row.late \in BOOLEAN
          /\ \A h \in row.hit : h.rule \in Rules
          /\ row.found \subseteq AllEvents /\ IsFiniteSet(row.found)
          /\ DOMAIN row = RunFields
    /\ row.phase = "evaluated" =>
          /\ ~row.failed => Told(stored \cup row.found, standing, row)
          /\ ~overlap /\ ~row.late => Fits(stored, row.found)
    /\ row.phase = "stored" /\ ~row.failed => Told(stored, standing, row)

AlertInv ==
    /\ RulesAreRules
    /\ events \subseteq AllEvents /\ IsFiniteSet(events)
    /\ overtaken \in BOOLEAN
    /\ ~overtaken => Sparing(events)
    /\ run = [n \in Runs |-> run[n]]
    /\ \A n \in Runs : RunOK(run[n], events, rules, overtaken)

-----------------------------------------------------------------------------
LEMMA Images ==
    ASSUME NEW S, IsFiniteSet(S), NEW f, DOMAIN f = S, f = [x \in S |-> f[x]],
           NEW T, T = {f[x] : x \in S}
    PROVE  IsFiniteSet(T) /\ Cardinality(T) <= Cardinality(S)
<1>1. f \in Surjection(S, T)
  BY DEF Surjection
<1> QED
  BY <1>1, FS_Surjection

LEMMA PairsAreFinite ==
    ASSUME RulesAreRules PROVE IsFiniteSet(Evaluated)
<1> DEFINE of == [r \in Rules |-> {r} \X Members[r]]
<1> DEFINE all == {of[r] : r \in Rules}
<1>1. IsFiniteSet(all)
  <2>1. IsFiniteSet(Rules) /\ DOMAIN of = Rules /\ of = [r \in Rules |-> of[r]]
    BY EodAlertsAssumption
  <2>2. all = {of[r] : r \in Rules}
    OBVIOUS
  <2> HIDE DEF of, all
  <2> QED
    BY <2>1, <2>2, Images
<1>2. ASSUME NEW r \in Rules PROVE IsFiniteSet(of[r])
  BY EodAlertsAssumption, FS_Singleton, FS_Product
<1>3. IsFiniteSet(UNION all)
  <2>1. \A T \in all : IsFiniteSet(T)
    BY <1>2
  <2> HIDE DEF all
  <2> QED
    BY <1>1, <2>1, FS_UNION
<1>4. Evaluated \subseteq UNION all
  BY DEF Evaluated
<1> QED
  BY <1>3, <1>4, FS_Subset

(* Fewer events are fewer notifications.                                   *)
LEMMA FewerAreFewer ==
    ASSUME NEW S, IsFiniteSet(S), NEW T, T \subseteq S, NEW r, NEW d
    PROVE  /\ IsFiniteSet(Eligible(S, r, d)) /\ Cardinality(Eligible(S, r, d)) \in Nat
           /\ IsFiniteSet(T) /\ Cardinality(Eligible(T, r, d)) \in Nat
           /\ Cardinality(Eligible(T, r, d)) <= Cardinality(Eligible(S, r, d))
<1>1. Eligible(S, r, d) \subseteq S /\ Eligible(T, r, d) \subseteq Eligible(S, r, d)
  BY DEF Eligible
<1>2. IsFiniteSet(Eligible(S, r, d)) /\ IsFiniteSet(T)
  BY <1>1, FS_Subset
<1> QED
  BY <1>1, <1>2, FS_Subset, FS_CardinalityType

(* What is old no longer holds anything back, and is no more than before.  *)
Aged(stored) == {[e EXCEPT !.recent = FALSE] : e \in stored}

LEMMA Aging ==
    ASSUME NEW S \in SUBSET AllEvents, IsFiniteSet(S)
    PROVE  /\ Aged(S) \subseteq AllEvents /\ IsFiniteSet(Aged(S))
           /\ \A e \in Aged(S) : ~e.recent
           /\ \A x \in S : \E e \in Aged(S) : Same(e, x)
           /\ \A r \in Rules, d \in Dates :
                 /\ Cardinality(Eligible(Aged(S), r, d)) \in Nat
                 /\ Cardinality(Eligible(S, r, d)) \in Nat
                 /\ Cardinality(Eligible(Aged(S), r, d)) <= Cardinality(Eligible(S, r, d))
<1>1. /\ Aged(S) \subseteq AllEvents
      /\ \A e \in Aged(S) : ~e.recent
      /\ \A x \in S : \E e \in Aged(S) : Same(e, x)
  <2>1. ASSUME NEW e \in S
        PROVE  LET a == [e EXCEPT !.recent = FALSE]
               IN  a \in AllEvents /\ ~a.recent /\ Same(a, e)
    <3>1. e \in AllEvents
      OBVIOUS
    <3> QED
      BY <3>1 DEF AllEvents, Same
  <2> QED
    BY <2>1 DEF Aged
<1>2. IsFiniteSet(Aged(S))
  <2> DEFINE f == [e \in S |-> [e EXCEPT !.recent = FALSE]]
  <2>1. f = [x \in S |-> f[x]] /\ Aged(S) = {f[x] : x \in S} /\ DOMAIN f = S
    BY DEF Aged
  <2> HIDE DEF f
  <2> QED
    BY <2>1, Images
<1>3. ASSUME NEW r \in Rules, NEW d \in Dates
      PROVE  /\ Cardinality(Eligible(Aged(S), r, d)) \in Nat
             /\ Cardinality(Eligible(S, r, d)) \in Nat
             /\ Cardinality(Eligible(Aged(S), r, d)) <= Cardinality(Eligible(S, r, d))
  <2> DEFINE E == Eligible(S, r, d)
  <2> DEFINE f == [e \in E |-> [e EXCEPT !.recent = FALSE]]
  <2>1. IsFiniteSet(E)
    BY FewerAreFewer
  <2>2. Eligible(Aged(S), r, d) = {f[x] : x \in E}
    BY DEF Aged, Eligible, AllEvents
  <2>3. f = [x \in E |-> f[x]] /\ DOMAIN f = E
    OBVIOUS
  <2> HIDE DEF f
  <2>4. IsFiniteSet(Eligible(Aged(S), r, d)) /\ Cardinality(Eligible(Aged(S), r, d)) <= Cardinality(E)
    BY <2>1, <2>2, <2>3, Images
  <2> QED
    BY <2>1, <2>4, FS_CardinalityType
<1> QED
  BY <1>1, <1>2, <1>3

-----------------------------------------------------------------------------
(* What a run finds fits what it has read.                                 *)
LEMMA Chosen ==
    ASSUME AlertInv, NEW d \in Dates, NEW fresh \in SUBSET Evaluated,
           NEW chosen \in Notifiable(fresh, d),
           NEW found, found = {Event(p[1], p[2], d, rules[p[1]].kind, p \in chosen) : p \in fresh}
    PROVE  /\ found \subseteq AllEvents /\ IsFiniteSet(found)
           /\ ~overtaken => Fits(events, found)
<1> USE EodAlertsAssumption
<1>0. IsFiniteSet(fresh) /\ chosen \subseteq fresh
  BY PairsAreFinite, FS_Subset DEF AlertInv, Notifiable
<1>1. ASSUME NEW p \in fresh
      PROVE  /\ p[1] \in Rules /\ p[2] \in Members[p[1]] /\ p = <<p[1], p[2]>>
             /\ Event(p[1], p[2], d, rules[p[1]].kind, p \in chosen) \in AllEvents
  <2>1. p[1] \in Rules /\ p[2] \in Members[p[1]] /\ p = <<p[1], p[2]>>
    BY DEF Evaluated
  <2>2. rules[p[1]].kind \in {"touch", "near"}
    BY <2>1 DEF AlertInv, RulesAreRules
  <2> QED
    BY <2>1, <2>2 DEF AllEvents, Event
<1>2. found \subseteq AllEvents
  BY <1>1
<1>3. IsFiniteSet(found)
  <2> DEFINE f == [p \in fresh |-> Event(p[1], p[2], d, rules[p[1]].kind, p \in chosen)]
  <2>1. f = [x \in fresh |-> f[x]] /\ DOMAIN f = fresh
    OBVIOUS
  <2>2. found = {f[x] : x \in fresh}
    OBVIOUS
  <2>3. IsFiniteSet(fresh)
    BY <1>0
  <2> HIDE DEF f
  <2> QED
    BY ONLY <2>1, <2>2, <2>3, Images
<1>4. ASSUME NEW r \in Rules, NEW date \in Dates, ~overtaken
      PROVE  Cardinality(Eligible(events, r, date)) + Cardinality(Eligible(found, r, date))
                <= DailyLimit
  <2> DEFINE mine == {p \in chosen : p[1] = r}
  <2> DEFINE pairs == {p \in fresh : p[1] = r /\ ~Cooling(r, p[2])}
  <2> DEFINE f == [p \in mine |-> Event(p[1], p[2], d, rules[p[1]].kind, p \in chosen)]
  <2>1. Cardinality(Eligible(events, r, date)) \in Nat
        /\ Cardinality(Eligible(events, r, date)) <= DailyLimit
    BY <1>4, FewerAreFewer DEF AlertInv, Sparing
  <2>2. CASE date # d
    <3>1. Eligible(found, r, date) = {}
      BY <2>2 DEF Eligible, Event
    <3>2. Cardinality(Eligible(found, r, date)) = 0
      BY <3>1, FS_EmptySet
    <3> QED
      BY <2>1, <3>2
  <2>3. CASE date = d
    <3>1. IsFiniteSet(mine) /\ Cardinality(mine) \in Nat
      <4>1. mine \subseteq fresh
        BY <1>0
      <4> QED
        BY <1>0, <4>1, FS_Subset, FS_CardinalityType
    <3>2. IsFiniteSet(pairs) /\ Cardinality(pairs) \in Nat
      <4>1. pairs \subseteq fresh
        OBVIOUS
      <4> QED
        BY <1>0, <4>1, FS_Subset, FS_CardinalityType
    <3>3. Eligible(found, r, date) = {f[p] : p \in mine}
      <4>1. ASSUME NEW e \in Eligible(found, r, date) PROVE e \in {f[p] : p \in mine}
        <5>1. PICK p \in fresh : e = Event(p[1], p[2], d, rules[p[1]].kind, p \in chosen)
          BY DEF Eligible
        <5>2. p \in mine
          BY <5>1 DEF Eligible, Event
        <5> QED
          BY <5>1, <5>2
      <4>2. ASSUME NEW p \in mine PROVE f[p] \in Eligible(found, r, date)
        BY <1>0, <2>3 DEF Eligible, Event
      <4> QED
        BY <4>1, <4>2
    <3>4. f = [x \in mine |-> f[x]] /\ DOMAIN f = mine
      OBVIOUS
    <3>5. IsFiniteSet(Eligible(found, r, date))
          /\ Cardinality(Eligible(found, r, date)) <= Cardinality(mine)
      <4> HIDE DEF f, mine
      <4> QED
        BY <3>1, <3>3, <3>4, Images
    <3>6. Notified(r, d) = Cardinality(Eligible(events, r, date))
      BY <2>3 DEF Notified, Eligible
    <3>7. LET left == IF Notified(r, d) < DailyLimit THEN DailyLimit - Notified(r, d) ELSE 0
          IN  Cardinality(mine) = IF Cardinality(pairs) < left THEN Cardinality(pairs) ELSE left
      BY DEF Notifiable
    <3>8. Cardinality(Eligible(found, r, date)) \in Nat
      BY <3>5, FS_CardinalityType
    <3> HIDE DEF mine, pairs
    <3> QED
      BY <2>1, <3>1, <3>2, <3>5, <3>6, <3>7, <3>8
  <2> QED
    BY <2>2, <2>3
<1>5. ASSUME NEW e \in found, NEW g \in events \cup found, e.rule = g.rule, e.stock = g.stock,
             e.eligible, g.eligible, e.recent, g.recent
      PROVE  e = g
  <2>1. PICK p \in fresh : e = Event(p[1], p[2], d, rules[p[1]].kind, p \in chosen)
    OBVIOUS
  <2>2. p \in chosen /\ ~Cooling(p[1], p[2]) /\ e.rule = p[1] /\ e.stock = p[2]
    BY <1>5, <2>1 DEF Event, Notifiable
  <2>3. g \notin events
    BY <1>5, <2>2 DEF Cooling
  <2>4. PICK q \in fresh : g = Event(q[1], q[2], d, rules[q[1]].kind, q \in chosen)
    BY <2>3
  <2>5. p = q
    <3>1. p[1] = q[1] /\ p[2] = q[2]
      BY <1>5, <2>1, <2>4 DEF Event
    <3> QED
      BY <1>1, <3>1
  <2> QED
    BY <2>1, <2>4, <2>5
<1> QED
  BY <1>2, <1>3, <1>4, <1>5 DEF Fits

-----------------------------------------------------------------------------
(* A run stays right when rules and stored events change around it.        *)
LEMMA Around ==
    ASSUME NEW row, NEW S \in SUBSET AllEvents, NEW T, NEW R, NEW Q,
           NEW o, NEW p, RunOK(row, S, R, o),
           \A r \in Rules : Q[r].exists => R[r].exists,
           \A x \in S : Q[x.rule].exists => \E e \in T : Same(e, x),
           ~p /\ row.phase = "evaluated" /\ ~row.late =>
              ~o /\ (Fits(S, row.found) => Fits(T, row.found))
    PROVE  RunOK(row, T, Q, p)
<1>1. ASSUME NEW found \in SUBSET AllEvents, \A h \in row.hit : h.rule \in Rules,
             Told(S \cup found, R, row)
      PROVE  Told(T \cup found, Q, row)
  <2> SUFFICES ASSUME NEW h \in row.hit, Q[h.rule].exists
               PROVE  \E e \in T \cup found : Same(e, Event(h.rule, h.stock, row.date, h.kind, FALSE))
    BY DEF Told
  <2>1. h.rule \in Rules /\ R[h.rule].exists
    BY <1>1
  <2>2. PICK e \in S \cup found : Same(e, Event(h.rule, h.stock, row.date, h.kind, FALSE))
    BY <1>1, <2>1 DEF Told
  <2>3. CASE e \in found
    BY <2>2, <2>3
  <2>4. CASE e \in S
    <3>1. Q[e.rule].exists
      BY <2>2 DEF Same, Event
    <3>2. PICK f \in T : Same(f, e)
      BY <2>4, <3>1
    <3> QED
      BY <2>2, <3>2 DEF Same, Event
  <2> QED
    BY <2>3, <2>4
<1>2. row.phase = "evaluated" /\ ~row.failed => Told(T \cup row.found, Q, row)
  BY <1>1 DEF RunOK
<1>3. row.phase = "stored" /\ ~row.failed => Told(T, Q, row)
  <2>1. S \cup {} = S /\ T \cup {} = T /\ {} \in SUBSET AllEvents
    OBVIOUS
  <2> QED
    BY <1>1, <2>1 DEF RunOK
<1> QED
  BY <1>2, <1>3 DEF RunOK

(* A run that has nothing to promise yet, or any more.                     *)
LEMMA Plain ==
    ASSUME NEW row, row.phase \in {"not started", "over"} \/ (row.phase = "started" /\ row.date \in Dates),
           NEW S, NEW R, NEW o
    PROVE  RunOK(row, S, R, o)
BY DEF RunOK, RunPhases, Active

(* Fewer or older events hold less back.                                   *)
LEMMA FewerFit ==
    ASSUME NEW S \in SUBSET AllEvents, IsFiniteSet(S), NEW F \in SUBSET AllEvents, IsFiniteSet(F),
           NEW T, T \subseteq S \/ T = Aged(S)
    PROVE  /\ T \subseteq AllEvents /\ IsFiniteSet(T)
           /\ Sparing(S) => Sparing(T)
           /\ Fits(S, F) => Fits(T, F)
<1>1. ASSUME NEW r \in Rules, NEW d \in Dates
      PROVE  /\ Cardinality(Eligible(S, r, d)) \in Nat /\ Cardinality(Eligible(T, r, d)) \in Nat
             /\ Cardinality(Eligible(F, r, d)) \in Nat
             /\ Cardinality(Eligible(T, r, d)) <= Cardinality(Eligible(S, r, d))
  BY FewerAreFewer, Aging
<1>2. T \subseteq AllEvents /\ IsFiniteSet(T)
  BY FewerAreFewer, Aging
<1>3. \A e \in T : e.recent => e \in S
  BY Aging
<1>4. Sparing(S) => Sparing(T)
  BY <1>1, <1>3, EodAlertsAssumption DEF Sparing
<1>5. Fits(S, F) => Fits(T, F)
  BY <1>1, <1>3, EodAlertsAssumption DEF Fits
<1> QED
  BY <1>2, <1>4, <1>5

(* What fits is stored.                                                    *)
LEMMA MoreFit ==
    ASSUME NEW S \in SUBSET AllEvents, IsFiniteSet(S), NEW F \in SUBSET AllEvents, IsFiniteSet(F)
    PROVE  /\ S \cup F \subseteq AllEvents /\ IsFiniteSet(S \cup F)
           /\ Sparing(S) /\ Fits(S, F) => Sparing(S \cup F)
<1>1. IsFiniteSet(S \cup F)
  BY FS_Union
<1>2. ASSUME NEW r \in Rules, NEW d \in Dates, Fits(S, F)
      PROVE  Cardinality(Eligible(S \cup F, r, d)) <= DailyLimit
  <2>1. /\ IsFiniteSet(Eligible(S, r, d)) /\ IsFiniteSet(Eligible(F, r, d))
        /\ Cardinality(Eligible(S, r, d)) \in Nat /\ Cardinality(Eligible(F, r, d)) \in Nat
    BY FewerAreFewer
  <2>2. Eligible(S \cup F, r, d) = Eligible(S, r, d) \cup Eligible(F, r, d)
    BY DEF Eligible
  <2>3. Cardinality(Eligible(S, r, d) \cap Eligible(F, r, d)) \in Nat
    BY <2>1, FS_Intersection, FS_CardinalityType
  <2>4. Cardinality(Eligible(S \cup F, r, d))
           <= Cardinality(Eligible(S, r, d)) + Cardinality(Eligible(F, r, d))
    <3> DEFINE A == Eligible(S, r, d)
    <3> DEFINE B == Eligible(F, r, d)
    <3>1. Cardinality(A \cup B) = Cardinality(A) + Cardinality(B) - Cardinality(A \cap B)
      BY <2>1, FS_Union
    <3>2. Cardinality(A) \in Nat /\ Cardinality(B) \in Nat /\ Cardinality(A \cap B) \in Nat
      BY <2>1, <2>3
    <3> HIDE DEF A, B
    <3>3. Cardinality(A \cup B) <= Cardinality(A) + Cardinality(B)
      BY <3>1, <3>2
    <3> QED
      BY <2>2, <3>3 DEF A, B
  <2>5. Cardinality(Eligible(S, r, d)) + Cardinality(Eligible(F, r, d)) <= DailyLimit
    BY <1>2 DEF Fits
  <2>6. Cardinality(Eligible(S \cup F, r, d)) \in Nat
    BY <1>1, FewerAreFewer
  <2> QED
    BY <2>1, <2>4, <2>5, <2>6, EodAlertsAssumption
<1>3. ASSUME Sparing(S), Fits(S, F), NEW e \in S \cup F, NEW g \in S \cup F,
             e.rule = g.rule, e.stock = g.stock, e.eligible, g.eligible, e.recent, g.recent
      PROVE  e = g
  <2>1. CASE e \in F
    BY <1>3, <2>1 DEF Fits
  <2>2. CASE g \in F
    BY <1>3, <2>2 DEF Fits
  <2>3. CASE e \in S /\ g \in S
    BY <1>3, <2>3 DEF Sparing
  <2> QED
    BY <2>1, <2>2, <2>3
<1> QED
  BY <1>1, <1>2, <1>3 DEF Sparing

-----------------------------------------------------------------------------
(* An action that leaves the runs alone, or ends or begins one.            *)
LEMMA TablesStep ==
    ASSUME AlertInv,
           \/ \E n \in Runs : StartRun(n) \/ FinishRun(n) \/ CrashRun(n)
           \/ \E r \in Rules : SaveRule(r) \/ ToggleRule(r) \/ DeleteRule(r)
           \/ CooldownPasses
           \/ UNCHANGED evars
    PROVE  AlertInv'
<1> DEFINE row(n) == run[n]
<1>1. RulesAreRules' /\ overtaken' = overtaken
      /\ \A r \in Rules : rules'[r].exists => rules[r].exists
  <2>1. ASSUME NEW r \in Rules, SaveRule(r) \/ ToggleRule(r) \/ DeleteRule(r)
        PROVE  RulesAreRules' /\ overtaken' = overtaken
               /\ \A q \in Rules : rules'[q].exists => rules[q].exists
    <3>1. PICK new \in [exists : BOOLEAN, enabled : BOOLEAN, kind : {"touch", "near"}] :
             rules' = [rules EXCEPT ![r] = new] /\ (new.exists => rules[r].exists)
      BY <2>1 DEF AlertInv, RulesAreRules, SaveRule, ToggleRule, DeleteRule, Edit
    <3>2. overtaken' = overtaken
      BY <2>1 DEF SaveRule, ToggleRule, DeleteRule, Edit
    <3> QED
      BY <3>1, <3>2 DEF AlertInv, RulesAreRules
  <2>2. CASE rules' = rules /\ overtaken' = overtaken
    BY <2>2 DEF AlertInv, RulesAreRules
  <2> QED
    BY <2>1, <2>2 DEF StartRun, FinishRun, CrashRun, CooldownPasses, evars
<1>2. events' \subseteq events \/ events' = Aged(events)
  BY DEF StartRun, FinishRun, CrashRun, SaveRule, ToggleRule, DeleteRule, CooldownPasses, evars, Aged
<1>3. /\ events' \subseteq AllEvents /\ IsFiniteSet(events')
      /\ ~overtaken' => Sparing(events')
      /\ \A F \in SUBSET AllEvents : IsFiniteSet(F) /\ Fits(events, F) => Fits(events', F)
  BY <1>1, <1>2, FewerFit DEF AlertInv
<1>4. \A x \in events : rules'[x.rule].exists => \E e \in events' : Same(e, x)
  <2>1. CASE events' = events
    BY <2>1 DEF Same
  <2>2. ASSUME NEW r \in Rules, DeleteRule(r)
        PROVE  \A x \in events : rules'[x.rule].exists => \E e \in events' : Same(e, x)
    <3>1. rules' = [rules EXCEPT ![r] = [rules[r] EXCEPT !.exists = FALSE]]
          /\ events' = {e \in events : e.rule # r}
      BY <2>2 DEF DeleteRule, Edit
    <3>2. rules'[r].exists = FALSE
      BY <3>1 DEF AlertInv, RulesAreRules
    <3> QED
      BY <3>1, <3>2 DEF Same
  <2>3. CASE CooldownPasses
    <3>1. events' = Aged(events)
      BY <2>3 DEF CooldownPasses, Aged
    <3> QED
      BY <3>1, Aging DEF AlertInv
  <2> QED
    BY <2>1, <2>2, <2>3 DEF StartRun, FinishRun, CrashRun, SaveRule, ToggleRule, evars
<1>5. ASSUME NEW m \in Runs, run'[m] = run[m]
      PROVE  RunOK(run'[m], events', rules', overtaken')
  <2>1. RunOK(run[m], events, rules, overtaken) /\ events \in SUBSET AllEvents
    BY DEF AlertInv
  <2>2. ~overtaken' /\ run[m].phase = "evaluated" /\ ~run[m].late =>
           ~overtaken /\ (Fits(events, run[m].found) => Fits(events', run[m].found))
    BY <1>1, <1>3, <2>1 DEF RunOK
  <2>3. RunOK(run[m], events', rules', overtaken')
    BY <1>1, <1>4, <2>1, <2>2, Around
  <2> QED
    BY <1>5, <2>3
<1>6. \/ run' = run
      \/ \E n \in Runs : \E new : /\ run' = [run EXCEPT ![n] = new]
                                  /\ (new.phase = "over" \/ (new.phase = "started" /\ new.date \in Dates))
  <2>1. ASSUME NEW n \in Runs, StartRun(n)
        PROVE  \E new : /\ run' = [run EXCEPT ![n] = new]
                       /\ (new.phase = "over" \/ (new.phase = "started" /\ new.date \in Dates))
    <3>1. PICK d \in Dates : run' = [run EXCEPT ![n] = [phase |-> "started", date |-> d]]
      BY <2>1 DEF StartRun
    <3> WITNESS [phase |-> "started", date |-> d]
    <3> QED
      BY <3>1
  <2>2. ASSUME NEW n \in Runs, FinishRun(n) \/ CrashRun(n)
        PROVE  \E new : /\ run' = [run EXCEPT ![n] = new]
                       /\ (new.phase = "over" \/ (new.phase = "started" /\ new.date \in Dates))
    <3>1. PICK s : run' = [run EXCEPT ![n] = Over(s)]
      BY <2>2 DEF FinishRun, CrashRun
    <3> WITNESS Over(s)
    <3> QED
      BY <3>1 DEF Over
  <2>3. CASE \/ \E r \in Rules : SaveRule(r) \/ ToggleRule(r) \/ DeleteRule(r)
             \/ CooldownPasses \/ UNCHANGED evars
    BY <2>3 DEF SaveRule, ToggleRule, DeleteRule, Edit, CooldownPasses, evars
  <2> QED
    BY <2>1, <2>2, <2>3
<1>7. run' = [n \in Runs |-> run'[n]]
      /\ \A n \in Runs : RunOK(run'[n], events', rules', overtaken')
  <2>1. CASE run' = run
    BY <1>5, <2>1 DEF AlertInv
  <2>2. ASSUME NEW n \in Runs, NEW new, run' = [run EXCEPT ![n] = new],
               new.phase = "over" \/ (new.phase = "started" /\ new.date \in Dates)
        PROVE  run' = [m \in Runs |-> run'[m]]
               /\ \A m \in Runs : RunOK(run'[m], events', rules', overtaken')
    <3>1. run = [m \in Runs |-> run[m]]
      BY DEF AlertInv
    <3>2. run' = [m \in Runs |-> run'[m]] /\ run'[n] = new
          /\ \A m \in Runs : m # n => run'[m] = run[m]
      BY <2>2, <3>1
    <3>3. RunOK(new, events', rules', overtaken')
      BY <2>2, Plain
    <3> QED
      BY <1>5, <3>2, <3>3
  <2> QED
    BY <1>6, <2>1, <2>2
<1> QED
  BY <1>1, <1>3, <1>7 DEF AlertInv

(* A run decides: its hits are events, stored before or found now.         *)
LEMMA EvaluateStep ==
    ASSUME AlertInv, NEW n \in Runs, ReadAndEvaluate(n)
    PROVE  AlertInv'
<1> DEFINE d == run[n].date
<1> DEFINE New(p) == ~\E e \in events : Same(e, Event(p[1], p[2], d, rules[p[1]].kind, FALSE))
<1>1. PICK hit \in SUBSET Evaluated, raising \in SUBSET Evaluated :
        /\ run[n].phase = "started"
        /\ \E chosen \in Notifiable({p \in hit \ raising : New(p)}, d) :
              run' = [run EXCEPT ![n] =
                [phase |-> "evaluated", date |-> d,
                 hit |-> {[rule |-> p[1], stock |-> p[2], kind |-> rules[p[1]].kind] : p \in hit},
                 failed |-> raising # {}, late |-> FALSE,
                 found |-> {Event(p[1], p[2], d, rules[p[1]].kind, p \in chosen)
                              : p \in {p \in hit \ raising : New(p)}}]]
  BY ZenonT(40) DEF ReadAndEvaluate
<1> DEFINE fresh == {p \in hit \ raising : New(p)}
<1> DEFINE hits == {[rule |-> p[1], stock |-> p[2], kind |-> rules[p[1]].kind] : p \in hit}
<1>2. PICK chosen \in Notifiable(fresh, d) :
        run' = [run EXCEPT ![n] =
                [phase |-> "evaluated", date |-> d, hit |-> hits,
                 failed |-> raising # {}, late |-> FALSE,
                 found |-> {Event(p[1], p[2], d, rules[p[1]].kind, p \in chosen) : p \in fresh}]]
  BY <1>1
<1> DEFINE found == {Event(p[1], p[2], d, rules[p[1]].kind, p \in chosen) : p \in fresh}
<1> DEFINE row == [phase |-> "evaluated", date |-> d, hit |-> hits,
                   failed |-> raising # {}, late |-> FALSE, found |-> found]
<1>3. d \in Dates /\ fresh \in SUBSET Evaluated
  BY <1>1 DEF AlertInv, RunOK, Active
<1>4. found \subseteq AllEvents /\ IsFiniteSet(found) /\ (~overtaken => Fits(events, found))
  <2> HIDE DEF fresh, d
  <2> QED
    BY <1>3, Chosen
<1>5. ASSUME NEW h \in hits, raising = {}
      PROVE  \E e \in events \cup found : Same(e, Event(h.rule, h.stock, d, h.kind, FALSE))
  <2>1. PICK p \in hit : h = [rule |-> p[1], stock |-> p[2], kind |-> rules[p[1]].kind]
    OBVIOUS
  <2>2. CASE New(p)
    <3>1. Event(p[1], p[2], d, rules[p[1]].kind, p \in chosen) \in found
      BY <1>5, <2>2
    <3>2. Same(Event(p[1], p[2], d, rules[p[1]].kind, p \in chosen),
               Event(h.rule, h.stock, d, h.kind, FALSE))
      BY <2>1 DEF Same, Event
    <3> HIDE DEF found
    <3> QED
      BY <3>1, <3>2
  <2>3. CASE ~New(p)
    BY <2>1, <2>3 DEF Same, Event
  <2> QED
    BY <2>2, <2>3
<1>6. \A h \in hits : h.rule \in Rules
  BY DEF Evaluated
<1>7. UNCHANGED <<rules, events, overtaken>>
  BY DEF ReadAndEvaluate
<1> HIDE DEF found, hits, d, fresh
<1>8. RunOK(row, events, rules, overtaken)
  <2>1. row.phase = "evaluated" /\ row.date = d /\ row.hit = hits
        /\ row.failed = (raising # {}) /\ row.late = FALSE /\ row.found = found
        /\ DOMAIN row = RunFields
    BY DEF RunFields
  <2>2. ~row.failed => Told(events \cup row.found, rules, row)
    BY <1>5, <2>1 DEF Told
  <2> HIDE DEF row
  <2> QED
    BY <1>3, <1>4, <1>6, <2>1, <2>2 DEF RunOK, RunPhases, Active
<1>9. run' = [run EXCEPT ![n] = row]
  BY <1>2 DEF found
<1> HIDE DEF row
<1>10. run' = [m \in Runs |-> run'[m]]
       /\ \A m \in Runs : RunOK(run'[m], events, rules, overtaken)
  BY <1>8, <1>9 DEF AlertInv
<1> QED
  BY <1>7, <1>10 DEF AlertInv, RulesAreRules

(* Its events are stored; whoever has read before is late.                 *)
LEMMA CommitStep ==
    ASSUME AlertInv, NEW n \in Runs, CommitEvents(n)
    PROVE  AlertInv'
<1> DEFINE found == run[n].found
<1>1. /\ RunOK(run[n], events, rules, overtaken) /\ run[n].phase = "evaluated"
      /\ found \subseteq AllEvents /\ IsFiniteSet(found) /\ rules' = rules
      /\ events \in SUBSET AllEvents /\ IsFiniteSet(events)
  BY DEF AlertInv, CommitEvents, RunOK
<1>2. CASE ~Storable(found)
  <2>1. run' = [run EXCEPT ![n] = Over("RUNNING")] /\ UNCHANGED <<rules, events, overtaken>>
    BY <1>2 DEF CommitEvents
  <2>2. RunOK(Over("RUNNING"), events, rules, overtaken)
    BY Plain DEF Over
  <2>3. run' = [m \in Runs |-> run'[m]]
        /\ \A m \in Runs : RunOK(run'[m], events, rules, overtaken)
    BY <2>1, <2>2 DEF AlertInv
  <2> QED
    BY <2>1, <2>3 DEF AlertInv, RulesAreRules
<1>3. CASE Storable(found)
  <2>1. /\ events' = events \cup found /\ overtaken' = (overtaken \/ run[n].late)
        /\ run' = [m \in Runs |->
              CASE m = n -> [run[m] EXCEPT !.phase = "stored", !.found = {}, !.late = FALSE]
                [] m # n /\ run[m].phase = "evaluated" /\ run[n].found # {} ->
                     [run[m] EXCEPT !.late = TRUE]
                [] OTHER -> run[m]]
    BY <1>3 DEF CommitEvents
  <2>2. overtaken' \in BOOLEAN
    BY <1>1, <2>1 DEF AlertInv, RunOK
  <2>3. events' \subseteq AllEvents /\ IsFiniteSet(events')
    BY <1>1, <2>1, MoreFit
  <2>4. ~overtaken' => Sparing(events')
    <3>1. ~overtaken' => Sparing(events) /\ Fits(events, found)
      BY <1>1, <2>1 DEF AlertInv, RunOK
    <3> QED
      BY <1>1, <2>1, <3>1, MoreFit
  <2>5. RunOK(run'[n], events', rules', overtaken')
    <3> DEFINE row == run'[n]
    <3>1. row = [run[n] EXCEPT !.phase = "stored", !.found = {}, !.late = FALSE]
      BY <2>1
    <3>2. DOMAIN run[n] = RunFields
      BY <1>1 DEF RunOK
    <3>3. DOMAIN row = RunFields
      BY <3>1, <3>2
    <3>4. row.phase = "stored" /\ row.found = {} /\ row.late = FALSE
      BY <3>1, <3>2 DEF RunFields
    <3>5. row.date = run[n].date /\ row.hit = run[n].hit /\ row.failed = run[n].failed
      BY <3>1, <3>2 DEF RunFields
    <3>6. row.date \in Dates /\ row.failed \in BOOLEAN /\ \A h \in row.hit : h.rule \in Rules
      BY <1>1, <3>5, SMTT(30) DEF RunOK, Active
    <3>7. ~row.failed => Told(events', rules', row)
      BY <1>1, <2>1, <3>5 DEF RunOK, Told
    <3> HIDE DEF row
    <3>8. RunOK(row, events', rules', overtaken')
      BY <3>3, <3>4, <3>6, <3>7, FS_EmptySet DEF RunOK, RunPhases
    <3> QED
      BY <3>8 DEF row
  <2>6. ASSUME NEW m \in Runs, m # n PROVE RunOK(run'[m], events', rules', overtaken')
    <3>1. RunOK(run[m], events, rules, overtaken)
      BY DEF AlertInv
    <3>2. \A x \in events : rules'[x.rule].exists => \E e \in events' : Same(e, x)
      BY <2>1 DEF Same
    <3>3. CASE run[m].phase = "evaluated" /\ found # {}
      <4> DEFINE row == run'[m]
      <4>1. row = [run[m] EXCEPT !.late = TRUE]
        BY <2>1, <2>6, <3>3
      <4>2. DOMAIN run[m] = RunFields
        BY <3>1, <3>3 DEF RunOK
      <4>3. DOMAIN row = RunFields /\ row.late = TRUE
        BY <4>1, <4>2 DEF RunFields
      <4>4. row.phase = "evaluated" /\ row.date = run[m].date /\ row.hit = run[m].hit
            /\ row.failed = run[m].failed /\ row.found = run[m].found
        BY <3>3, <4>1, <4>2 DEF RunFields
      <4>5. ~row.failed => Told(events \cup row.found, rules, row)
        BY <3>1, <3>3, <4>4 DEF RunOK, Told
      <4>6. row.date \in Dates /\ row.failed \in BOOLEAN /\ (\A h \in row.hit : h.rule \in Rules)
            /\ row.found \subseteq AllEvents /\ IsFiniteSet(row.found)
        BY <3>1, <3>3, <4>4 DEF RunOK, Active
      <4> HIDE DEF row
      <4>7. RunOK(row, events, rules, overtaken)
        BY <4>3, <4>4, <4>5, <4>6 DEF RunOK, RunPhases
      <4>8. RunOK(row, events', rules', overtaken')
        BY <1>1, <3>2, <4>3, <4>7, Around
      <4> QED
        BY <4>8 DEF row
    <3>4. CASE ~(run[m].phase = "evaluated" /\ found # {})
      <4>1. run'[m] = run[m]
        BY <2>1, <2>6, <3>4
      <4>2. ~overtaken' /\ run[m].phase = "evaluated" /\ ~run[m].late =>
               ~overtaken /\ (Fits(events, run[m].found) => Fits(events', run[m].found))
        <5>1. run[m].phase = "evaluated" => events' = events
          BY <2>1, <3>4
        <5>2. ~overtaken' => ~overtaken
          BY <2>1
        <5> QED
          BY <5>1, <5>2
      <4>3. RunOK(run[m], events', rules', overtaken')
        BY <1>1, <3>1, <3>2, <4>2, Around
      <4> QED
        BY <4>1, <4>3
    <3> QED
      BY <3>3, <3>4
  <2>7. run' = [m \in Runs |-> run'[m]]
    BY <2>1
  <2> QED
    BY <1>1, <2>2, <2>3, <2>4, <2>5, <2>6, <2>7 DEF AlertInv, RulesAreRules
<1> QED
  BY <1>2, <1>3

(* The invariant: what is stored is sparing, what is found fits it, and    *)
(* what is hit is told.                                                    *)
THEOREM AlertInvariant == AlertSpec => []AlertInv
<1>1. EInit => AlertInv
  <2> SUFFICES ASSUME EInit PROVE AlertInv
    OBVIOUS
  <2>1. \A r, d : Eligible({}, r, d) = {}
    BY DEF Eligible
  <2>2. Sparing(events)
    <3>1. \A r, d : Cardinality(Eligible(events, r, d)) = 0
      BY <2>1, FS_EmptySet DEF EInit
    <3> QED
      BY <3>1, EodAlertsAssumption DEF EInit, Sparing
  <2>3. RunOK(NotStarted, events, rules, overtaken)
    BY Plain DEF NotStarted
  <2>4. RulesAreRules
    BY DEF EInit, RulesAreRules
  <2> QED
    BY <2>2, <2>3, <2>4, FS_EmptySet DEF EInit, AlertInv
<1>2. AlertInv /\ [AlertNext]_evars => AlertInv'
  BY TablesStep, EvaluateStep, CommitStep DEF AlertNext
<1> QED
  BY <1>1, <1>2, PTL DEF AlertSpec

(* Rules notify sparingly: across runs, dates, edits and deletions, unless *)
(* a run commits on what it read before another committed, a rule keeps    *)
(* its daily limit and a stock's cooldown.                                 *)
THEOREM RulesNotifySparingly == AlertSpec => []NotifiedSparingly
<1>1. AlertInv => NotifiedSparingly
  BY DEF AlertInv, Sparing, Eligible, NotifiedSparingly, Notified
<1> QED
  BY <1>1, AlertInvariant, PTL

(* A run that is recorded as a SUCCESS has its events in the table.        *)
THEOREM SuccessesAreComplete == AlertSpec => SuccessIsComplete
<1> DEFINE Complete ==
      \A n \in Runs : run'[n] = Over("SUCCESS") /\ run[n].phase = "stored" =>
          \A h \in run[n].hit :
             rules[h.rule].exists =>
                \E e \in events : Same(e, Event(h.rule, h.stock, run[n].date, h.kind, FALSE))
<1>1. ASSUME AlertInv, [AlertNext]_evars, NEW n \in Runs, run'[n] = Over("SUCCESS"),
             run[n].phase = "stored"
      PROVE  ~run[n].failed
  <2>1. RunOK(run[n], events, rules, overtaken) /\ run = [m \in Runs |-> run[m]]
    BY <1>1 DEF AlertInv
  <2>2. Over("SUCCESS").phase = "over" /\ Over("SUCCESS").status = "SUCCESS"
    BY DEF Over
  <2>3. run'[n] # run[n]
    BY <1>1, <2>2
  <2>4. PICK m \in Runs :
           StartRun(m) \/ ReadAndEvaluate(m) \/ CommitEvents(m) \/ FinishRun(m) \/ CrashRun(m)
    BY <1>1, <2>3 DEF AlertNext, evars, SaveRule, ToggleRule, DeleteRule, Edit, CooldownPasses
  <2>5. CASE StartRun(m)
    BY <1>1, <2>1, <2>2, <2>3, <2>5 DEF StartRun
  <2>6. CASE ReadAndEvaluate(m)
    <3>1. PICK new : run' = [run EXCEPT ![m] = new] /\ run[m].phase = "started"
      BY <2>6 DEF ReadAndEvaluate
    <3> QED
      BY <1>1, <2>1, <2>3, <3>1
  <2>7. CASE CommitEvents(m)
    <3>1. run[m].phase = "evaluated"
      BY <2>7 DEF CommitEvents
    <3>2. m # n
      BY <1>1, <3>1
    <3>3. run'[n] = run[n]
      BY <1>1, <2>1, <2>7, <3>2 DEF CommitEvents
    <3> QED
      BY <2>3, <3>3
  <2>8. CASE CrashRun(m)
    <3>1. run' = [run EXCEPT ![m] = Over("RUNNING")]
      BY <2>8 DEF CrashRun
    <3> QED
      BY <1>1, <2>1, <2>2, <2>3, <3>1 DEF Over
  <2>9. CASE FinishRun(m)
    <3>1. run' = [run EXCEPT ![m] = Over(Outcome(run[m]))]
      BY <2>9 DEF FinishRun
    <3>2. m = n /\ Outcome(run[n]) = "SUCCESS"
      BY <1>1, <2>1, <2>3, <3>1 DEF Over
    <3> QED
      BY <3>2 DEF Outcome
  <2> QED
    BY <2>4, <2>5, <2>6, <2>7, <2>8, <2>9
<1>2. AlertInv /\ [AlertNext]_evars => [Complete]_evars
  <2> SUFFICES ASSUME AlertInv, [AlertNext]_evars, NEW n \in Runs, run'[n] = Over("SUCCESS"),
                      run[n].phase = "stored"
               PROVE  \A h \in run[n].hit :
                         rules[h.rule].exists =>
                            \E e \in events : Same(e, Event(h.rule, h.stock, run[n].date, h.kind, FALSE))
    OBVIOUS
  <2>1. ~run[n].failed
    BY <1>1
  <2> QED
    BY <2>1 DEF AlertInv, RunOK, Told
<1> QED
  BY <1>2, AlertInvariant, PTL DEF AlertSpec, SuccessIsComplete

-----------------------------------------------------------------------------
(*****************************************************************************)
(* Portfolios, watch lists and the change log, with the requests of all      *)
(* three in any order. The invariant says of a request that is about to      *)
(* commit what still holds of what it read, and of the numbers of the log    *)
(* that they have no gap while none was lost.                                *)
(*****************************************************************************)
(* The three kinds of request over one change log, in any order: the       *)
(* ledger, the lists, and the push of another device.                      *)
dvars == <<request, made, log, book, lists>>

DataNext ==
    \/ (ApiNext \/ ImportNext) /\ UNCHANGED lists
    \/ PushNext /\ UNCHANGED <<book, lists>>
    \/ ListNext /\ UNCHANGED book

DataSpec == DInit /\ PInit /\ WInit /\ [][DataNext]_dvars

(* A stored preview can be applied, late or not.                           *)
Stored(preview) ==
    /\ preview.op = "preview" /\ {"op", "file", "late"} \subseteq DOMAIN preview
    /\ preview.file \in Files
PreviewsInv ==
    /\ DOMAIN previews = Tokens
    /\ \A k \in Tokens : previews[k] = Idle \/ previews[k] = Gone \/ Stored(previews[k])

(* An import that is about to commit: of a preview, if that is still there,*)
(* the file; of lists, the groups that are to go, which still exist.       *)
Applies(what) ==
    /\ what.token \in Tokens /\ what.file \in Files
    /\ \/ previews[what.token] = Gone
       \/ Stored(previews[what.token]) /\ previews[what.token].file = what.file
Drops(what) ==
    /\ what.file \in ListFiles /\ IsFiniteSet(what.dropped)
    /\ \A id \in what.dropped : \E g \in groups : g.id = id /\ g.owner = Owner
RequestsInv ==
    /\ DOMAIN request = Requests
    /\ \A r \in Requests :
         /\ "op" \in DOMAIN request[r]
         /\ request[r].op = "apply" => Applies(request[r])
         /\ request[r].op = "import" => Drops(request[r])

GroupsInv ==
    /\ IsFiniteSet(groups)
    /\ \A g \in groups : {"id", "owner", "name", "live"} \subseteq DOMAIN g

(* The devices of the owner have been told of each of his transactions.    *)
LoggedInv ==
    \A t \in ledger : t.user = Owner => \E c \in changes : c.entity = t.id /\ c.user = Owner

(* While no number was lost the numbers have no gap, and no request counts *)
(* on from a greater one.                                                  *)
NumbersInv ==
    /\ lost \in Nat
    /\ lost = 0 => \E k \in Nat :
         /\ Taken = 1 .. k /\ identity \in 1 .. (k + 1)
         /\ \A r \in Requests : request[r].op \in {"apply", "import"} => request[r].from \in 0 .. k

DataInv == PreviewsInv /\ RequestsInv /\ GroupsInv /\ LoggedInv /\ NumbersInv

-----------------------------------------------------------------------------
(* The empty tables satisfy the invariant.                                 *)
LEMMA DataInit == DInit /\ PInit /\ WInit => DataInv
<1> SUFFICES ASSUME DInit, PInit, WInit PROVE DataInv
  OBVIOUS
<1>1. PreviewsInv
  BY DEF PInit, PreviewsInv
<1>2. RequestsInv
  BY DEF DInit, RequestsInv, Idle
<1>3. GroupsInv /\ LoggedInv
  BY FS_EmptySet DEF WInit, PInit, GroupsInv, LoggedInv
<1>4. NumbersInv
  <2>1. Taken = 1 .. 0
    BY DEF DInit, Taken
  <2> QED BY <2>1 DEF DInit, NumbersInv, Idle
<1> QED BY <1>1, <1>2, <1>3, <1>4 DEF DataInv

(* A request that is about to import was so before, or has just begun.     *)
LEMMA ImportsBegin ==
  ASSUME RequestsInv, DataNext, NEW r \in Requests, request'[r].op \in {"apply", "import"}
  PROVE  request'[r] = request[r] \/ ApplyBegin(r) \/ ImportBegin(r)
<1>1. ASSUME NEW what, "op" \in DOMAIN what, Late(what).op \in {"apply", "import"}
      PROVE  Late(what) = what
  BY <1>1 DEF Late
<1>2. CASE \E q \in Requests : CreateCommit(q) \/ DeleteCommit(q) \/ ApplyCommit(q)
  <2>1. PICK q \in Requests : Written(q) \/ request' = [request EXCEPT ![q] = Idle]
    BY <1>2 DEF CreateCommit, DeleteCommit, ApplyCommit
  <2> QED BY <1>1, <2>1 DEF Written, Idle, RequestsInv
<1>3. CASE \E q \in Requests : CreateBegin(q) \/ DeleteBegin(q) \/ AddBegin(q)
  <2>1. ASSUME NEW q \in Requests, NEW what, Begin(q, what), what.op \in {"create", "delete", "add"}
        PROVE  request'[r] = request[r]
    BY <2>1 DEF Begin, RequestsInv
  <2>2. ASSUME NEW q \in Requests, CreateBegin(q) PROVE request'[r] = request[r]
    BY <2>1, <2>2 DEF CreateBegin
  <2>3. ASSUME NEW q \in Requests, DeleteBegin(q) PROVE request'[r] = request[r]
    BY <2>1, <2>3 DEF DeleteBegin
  <2>4. ASSUME NEW q \in Requests, AddBegin(q) PROVE request'[r] = request[r]
    BY <2>1, <2>4 DEF AddBegin
  <2> QED BY <1>3, <2>2, <2>3, <2>4
<1>4. CASE \E q \in Requests : ApplyBegin(q) \/ ImportBegin(q)
  <2>1. PICK q \in Requests : ApplyBegin(q) \/ ImportBegin(q)
    BY <1>4
  <2>2. r # q => request'[r] = request[r]
    BY <2>1 DEF ApplyBegin, ImportBegin, Begin, RequestsInv
  <2> QED BY <2>1, <2>2
<1>5. CASE \E q \in Requests : AddCommit(q) \/ ImportCommit(q)
  <2>1. PICK q \in Requests : Done(q)
    BY <1>5 DEF AddCommit, ImportCommit
  <2> QED BY <2>1 DEF Done, Idle, RequestsInv
<1>6. CASE (\E k \in Tokens : Preview(k)) \/ PushNext \/ CreateGroup \/ RenameGroup
             \/ DeleteGroup \/ RemoveItem \/ ListPush
  BY <1>6 DEF Preview, PushNext, CreateGroup, RenameGroup, DeleteGroup, RemoveItem, ListPush, AtOnce
<1> QED
  BY <1>2, <1>3, <1>4, <1>5, <1>6 DEF DataNext, ApiNext, ImportNext, ListNext

(* A preview that changes is new, late or applied.                         *)
LEMMA PreviewMoves ==
  ASSUME PreviewsInv, RequestsInv, DataNext, NEW k \in Tokens
  PROVE  \/ previews'[k] = previews[k]
         \/ previews[k] = Idle /\ Stored(previews'[k])
         \/ Stored(previews[k]) /\ Stored(previews'[k]) /\ previews'[k].file = previews[k].file
         \/ /\ previews'[k] = Gone
            /\ \E r \in Requests : ApplyCommit(r) /\ request[r].token = k /\ previews' # previews
<1>1. ASSUME previews'[k] = Late(previews[k])
      PROVE  \/ previews'[k] = previews[k]
             \/ Stored(previews[k]) /\ Stored(previews'[k]) /\ previews'[k].file = previews[k].file
  <2>1. CASE previews[k] = Idle \/ previews[k] = Gone
    BY <1>1, <2>1 DEF Late, Idle, Gone
  <2>2. CASE Stored(previews[k])
    BY <1>1, <2>2 DEF Late, Stored
  <2> QED BY <2>1, <2>2 DEF PreviewsInv
<1>2. CASE \E r \in Requests : CreateCommit(r) \/ DeleteCommit(r)
  BY <1>1, <1>2 DEF CreateCommit, DeleteCommit
<1>3. ASSUME NEW r \in Requests, ApplyCommit(r)
      PROVE  \/ previews'[k] = Late(previews[k])
             \/ previews' = previews
             \/ previews'[k] = Gone /\ request[r].token = k
  BY <1>3 DEF ApplyCommit, AfterFailure
<1>4. ASSUME NEW j \in Tokens, Preview(j)
      PROVE  previews'[k] = previews[k] \/ (previews[k] = Idle /\ Stored(previews'[k]))
  <2>1. PICK file \in Files, named \in BOOLEAN, atOnce \in BOOLEAN : Preview(j)!(file, named, atOnce)
    BY <1>4 DEF Preview
  <2> DEFINE what == [op |-> "preview", file |-> file,
                      rejected |-> previews'[j].rejected,
                      warned |-> previews'[j].warned, late |-> previews'[j].late]
  <2>2. previews[j] = Idle /\ previews'[j] = what /\ (j # k => previews'[k] = previews[k])
    BY <2>1 DEF PreviewsInv
  <2>3. Stored(what)
    BY DEF Stored
  <2> HIDE DEF what
  <2> QED BY <2>2, <2>3
<1>5. ASSUME NEW r \in Requests, CreateBegin(r) \/ DeleteBegin(r) \/ ApplyBegin(r)
      PROVE  previews' = previews
  <2>1. CASE CreateBegin(r)
    BY <2>1 DEF CreateBegin
  <2>2. CASE DeleteBegin(r)
    BY <2>2 DEF DeleteBegin
  <2>3. CASE ApplyBegin(r)
    BY <2>3 DEF ApplyBegin
  <2> QED BY <1>5, <2>1, <2>2, <2>3
<1>6. CASE UNCHANGED book
  BY <1>6 DEF book
<1>7. CASE \E r \in Requests : ApplyCommit(r)
  BY <1>1, <1>3, <1>7, SMTT(30)
<1> QED
  BY <1>2, <1>4, <1>5, <1>6, <1>7 DEF DataNext, ApiNext, ImportNext

-----------------------------------------------------------------------------
(* A function maps a finite set to one that is no larger, and is finite.   *)
(* What an import of lists that is not refused stores.                     *)
TargetsOf(a) == [n \in DOMAIN a.file |-> Target(Kept(a.dropped), a.file[n])]
OpenedBy(a) == ToSet(TargetsOf(a)) \ Kept(a.dropped)
AddedBy(a) == Added(a.file, TargetsOf(a))
LoggedBy(a) == Cardinality(a.dropped) + Cardinality(OpenedBy(a)) + Cardinality(AddedBy(a))

(* What an import of lists that is not refused writes, its parts named.    *)
LEMMA ImportCommitted ==
  ASSUME NEW r \in Requests, ImportCommit(r)
  PROVE  /\ request[r].op = "import" /\ Done(r)
         /\ UNCHANGED <<identity, pushing, pushes, lost>>
         /\ \/ UNCHANGED <<groups, items, changes>>
            \/ /\ Free(request[r].from, LoggedBy(request[r]))
               /\ \A g \in OpenedBy(request[r]) : g.id \notin {x.id : x \in Kept(request[r].dropped)}
               /\ groups' = Kept(request[r].dropped) \cup OpenedBy(request[r])
               /\ items' = items \cup AddedBy(request[r])
               /\ changes' = changes \cup
                    {Change(Owner, c, OtherRow, "UPSERT") :
                       c \in Numbers(request[r].from, LoggedBy(request[r]))}
  BY DEF ImportCommit, LoggedBy, OpenedBy, AddedBy, TargetsOf

(* The groups of an import's session: those there were, without the ones   *)
(* it drops.                                                               *)
LEMMA KeptGroups ==
  ASSUME GroupsInv, NEW dropped
  PROVE  /\ IsFiniteSet(Kept(dropped))
         /\ \A g \in Kept(dropped) : {"id", "owner", "name", "live"} \subseteq DOMAIN g
         /\ \A g \in groups : \E h \in Kept(dropped) : h.id = g.id /\ h.owner = g.owner
         /\ \A h \in Kept(dropped) : h.id \in dropped => ~h.live
<1> DEFINE f == [g \in groups |-> [g EXCEPT !.live = @ /\ g.id \notin dropped]]
<1>1. DOMAIN f = groups /\ f = [g \in groups |-> f[g]] /\ Kept(dropped) = {f[g] : g \in groups}
  BY DEF Kept
<1>2. ASSUME NEW g \in groups
      PROVE  /\ f[g].id = g.id /\ f[g].owner = g.owner /\ DOMAIN f[g] = DOMAIN g
             /\ f[g].id \in dropped => ~f[g].live
  BY DEF GroupsInv
<1> HIDE DEF f
<1>3. IsFiniteSet(Kept(dropped))
  BY <1>1, Images DEF GroupsInv
<1> QED BY <1>1, <1>2, <1>3 DEF GroupsInv

(* The groups it opens are of its file.                                    *)
LEMMA OpenedGroups ==
  ASSUME NEW a, a.file \in ListFiles
  PROVE  /\ IsFiniteSet(OpenedBy(a)) /\ IsFiniteSet(AddedBy(a))
         /\ \A g \in OpenedBy(a) : \E n \in DOMAIN a.file : g = Group(a.file[n].id, Owner, a.file[n].name)
<1> DEFINE D == DOMAIN a.file
<1> DEFINE target == [n \in D |-> Target(Kept(a.dropped), a.file[n])]
<1> DEFINE T == {target[n] : n \in D}
<1>1. IsFiniteSet(D) /\ \A n \in D : a.file[n].stocks \subseteq Stocks
  BY ListAssumption
<1>2. IsFiniteSet(T)
  <2>1. DOMAIN target = D /\ target = [n \in D |-> target[n]] /\ T = {target[n] : n \in D}
    OBVIOUS
  <2> HIDE DEF target, T, D
  <2> QED BY <1>1, <2>1, Images
<1>3. OpenedBy(a) = T \ Kept(a.dropped)
  BY DEF OpenedBy, TargetsOf, ToSet
<1>4. IsFiniteSet(OpenedBy(a))
  BY <1>2, <1>3, FS_Subset
<1>5. IsFiniteSet(AddedBy(a))
  <2> DEFINE Pairs == T \X Stocks
  <2> DEFINE f == [p \in Pairs |-> Item(p[1].id, p[2], Owner)]
  <2> DEFINE I == {f[p] : p \in Pairs}
  <2>1. IsFiniteSet(Pairs)
    <3> HIDE DEF T
    <3> QED BY <1>2, ListAssumption, FS_Product
  <2>2. IsFiniteSet(I)
    <3>1. DOMAIN f = Pairs /\ f = [p \in Pairs |-> f[p]] /\ I = {f[p] : p \in Pairs}
      OBVIOUS
    <3> HIDE DEF f, Pairs, I
    <3> QED BY <2>1, <3>1, Images
  <2>3. AddedBy(a) \subseteq I
    <3>1. ASSUME NEW n \in D, NEW s \in Missing(target[n], a.file[n].stocks)
          PROVE  Item(target[n].id, s, Owner) \in I
      <4>1. s \in Stocks /\ target[n] \in T
        BY <1>1 DEF Missing
      <4> HIDE DEF T, target
      <4>2. <<target[n], s>> \in Pairs /\ f[<<target[n], s>>] = Item(target[n].id, s, Owner)
        BY <4>1
      <4> HIDE DEF f, Pairs
      <4> QED BY <4>2
    <3>2. AddedBy(a) = Added(a.file, target)
      BY DEF AddedBy, TargetsOf
    <3> HIDE DEF I, target
    <3> QED BY <3>1, <3>2 DEF Added
  <2> HIDE DEF I
  <2> QED BY <2>2, <2>3, FS_Subset
<1>6. ASSUME NEW n \in D, target[n] \notin Kept(a.dropped)
      PROVE  target[n] = Group(a.file[n].id, Owner, a.file[n].name)
  BY <1>6 DEF Target, Named
<1>7. ASSUME NEW g \in OpenedBy(a)
      PROVE  \E n \in DOMAIN a.file : g = Group(a.file[n].id, Owner, a.file[n].name)
  <2>1. PICK n \in D : g = target[n]
    BY <1>3
  <2> QED BY <1>3, <1>6, <2>1
<1> QED BY <1>4, <1>5, <1>7

(* A group of the owner is never removed, and stays his.                   *)
LEMMA GroupsMove ==
  ASSUME GroupsInv, RequestsInv, DataNext
  PROVE  /\ GroupsInv'
         /\ \A g \in groups : g.owner = Owner =>
              \E h \in groups' : h.id = g.id /\ h.owner = Owner
<1>1. ASSUME NEW g \in groups, NEW h, DOMAIN h = DOMAIN g, h.id = g.id, h.owner = g.owner,
             groups' = (groups \ {g}) \cup {h}
      PROVE  /\ GroupsInv'
             /\ \A x \in groups : \E y \in groups' : y.id = x.id /\ y.owner = x.owner
  <2>1. IsFiniteSet(groups')
    BY <1>1, FS_AddElement, FS_RemoveElement DEF GroupsInv
  <2> QED BY <1>1, <2>1 DEF GroupsInv
<1>2. ASSUME NEW id, NEW owner, NEW name, groups' = groups \cup {Group(id, owner, name)}
      PROVE  GroupsInv'
  <2>1. IsFiniteSet(groups')
    BY <1>2, FS_AddElement DEF GroupsInv
  <2> QED BY <1>2, <2>1 DEF GroupsInv, Group
<1>3. CASE CreateGroup
  BY <1>2, <1>3 DEF CreateGroup
<1>4. CASE RenameGroup
  <2>1. PICK g \in Open, n \in Names : groups' = (groups \ {g}) \cup {[g EXCEPT !.name = n]}
    BY <1>4 DEF RenameGroup
  <2>2. g \in groups /\ {"id", "owner", "name", "live"} \subseteq DOMAIN g
    BY DEF Open, GroupsInv
  <2> DEFINE h == [g EXCEPT !.name = n]
  <2>3. DOMAIN h = DOMAIN g /\ h.id = g.id /\ h.owner = g.owner
    BY <2>2
  <2> HIDE DEF h
  <2> QED BY <1>1, <2>1, <2>2, <2>3 DEF h
<1>5. CASE DeleteGroup
  <2>1. PICK g \in groups : g.owner = NoOne /\ groups' = groups \ {g}
    BY <1>5 DEF DeleteGroup, Open
  <2>2. IsFiniteSet(groups')
    BY <2>1, FS_RemoveElement DEF GroupsInv
  <2> QED BY <2>1, <2>2, PersonalDataAssumption DEF GroupsInv
<1>6. CASE ListPush
  <2>1. PICK after \in PushedGroups \cup PushedItems : groups' = after[1]
    BY <1>6 DEF ListPush
  <2>2. CASE groups' = groups
    BY <2>2 DEF GroupsInv
  <2>3. CASE \E id \in UnusedIds, n \in Names : groups' = groups \cup {Group(id, Owner, n)}
    BY <1>2, <2>3
  <2>4. CASE \E g \in groups : groups' = (groups \ {g}) \cup {[g EXCEPT !.live = FALSE]}
    <3>1. PICK g \in groups : groups' = (groups \ {g}) \cup {[g EXCEPT !.live = FALSE]}
      BY <2>4
    <3> DEFINE h == [g EXCEPT !.live = FALSE]
    <3>2. DOMAIN h = DOMAIN g /\ h.id = g.id /\ h.owner = g.owner
      BY DEF GroupsInv
    <3> HIDE DEF h
    <3> QED BY <1>1, <3>1, <3>2 DEF h
  <2> QED BY <2>1, <2>2, <2>3, <2>4 DEF PushedGroups, PushedItems
<1>7. ASSUME NEW r \in Requests, ImportCommit(r)
      PROVE  /\ GroupsInv'
             /\ \A g \in groups : \E h \in groups' : h.id = g.id /\ h.owner = g.owner
  <2> DEFINE a == request[r]
  <2>1. a.file \in ListFiles
    BY <1>7, ImportCommitted DEF RequestsInv, Drops
  <2>2. CASE groups' = groups
    BY <2>2 DEF GroupsInv
  <2>3. CASE groups' = Kept(a.dropped) \cup OpenedBy(a)
    <3>1. IsFiniteSet(Kept(a.dropped)) /\ IsFiniteSet(OpenedBy(a))
      BY <2>1, KeptGroups, OpenedGroups
    <3>2. IsFiniteSet(groups')
      BY <2>3, <3>1, FS_Union
    <3>3. \A g \in OpenedBy(a) : {"id", "owner", "name", "live"} \subseteq DOMAIN g
      BY <2>1, OpenedGroups DEF Group
    <3> HIDE DEF a
    <3>4. /\ \A g \in Kept(a.dropped) : {"id", "owner", "name", "live"} \subseteq DOMAIN g
          /\ \A g \in groups : \E h \in Kept(a.dropped) : h.id = g.id /\ h.owner = g.owner
      BY KeptGroups
    <3> QED BY <2>3, <3>2, <3>3, <3>4 DEF GroupsInv
  <2> QED BY <1>7, <2>2, <2>3, ImportCommitted
<1>8. CASE groups' = groups
  BY <1>8 DEF GroupsInv
<1>9. CASE RemoveItem \/ \E r \in Requests : AddBegin(r) \/ AddCommit(r) \/ ImportBegin(r)
  BY <1>8, <1>9 DEF RemoveItem, AddBegin, AddCommit, ImportBegin
<1> QED
  BY <1>2, <1>3, <1>4, <1>5, <1>6, <1>7, <1>8, <1>9 DEF DataNext, ListNext, lists, CreateGroup

-----------------------------------------------------------------------------
(* Of the numbers of one user the greatest is what Greatest says.          *)
LEMMA GreatestIs ==
  ASSUME NEW k \in Nat, Taken = 1 .. k, NEW u
  PROVE  Greatest(u) \in 0 .. k
<1> DEFINE S == {0} \cup {c.sequence : c \in {d \in changes : d.user = u}}
<1>1. S \subseteq 0 .. k /\ S # {}
  BY DEF Taken
<1>2. Greatest(u) = CHOOSE x \in S : \A y \in S : x >= y
  BY DEF Greatest, Max
<1> HIDE DEF S
<1>3. \E m \in S : \A n \in S : n <= m
  BY <1>1, GreatestOfSome
<1>4. \E m \in S : \A n \in S : m >= n
  BY <1>1, <1>3
<1> QED BY <1>1, <1>2, <1>4

(* The news of a file that are taken are counted through.                  *)
LEMMA CountedThrough ==
  ASSUME NEW n \in Nat, NEW S \in SUBSET (1 .. n)
  PROVE  /\ Cardinality(S) \in Nat
         /\ {UpTo(S, i) : i \in S} = 1 .. Cardinality(S)
<1> DEFINE f == [i \in S |-> UpTo(S, i)]
<1> DEFINE N == Cardinality(S)
<1>1. IsFiniteSet(S)
  <2>1. IsFiniteSet(1 .. n)
    BY FS_Interval
  <2> QED BY <2>1, FS_Subset
<1>2. N \in Nat
  BY <1>1, FS_CardinalityType
<1>3. ASSUME NEW i \in S PROVE UpTo(S, i) \in 1 .. N
  <2> DEFINE U == {j \in S : j <= i}
  <2>1. IsFiniteSet(U) /\ Cardinality(U) <= N
    BY <1>1, FS_Subset
  <2>2. U # {}
    OBVIOUS
  <2>3. Cardinality(U) \in Nat /\ Cardinality(U) # 0
    <3> HIDE DEF U
    <3> QED BY <2>1, <2>2, FS_CardinalityType, FS_EmptySet
  <2>4. UpTo(S, i) = Cardinality(U)
    BY DEF UpTo
  <2> HIDE DEF U
  <2> QED BY <1>2, <2>1, <2>3, <2>4
<1>4. ASSUME NEW i \in S, NEW j \in S, i < j PROVE UpTo(S, i) # UpTo(S, j)
  <2> DEFINE U == {l \in S : l <= i}
  <2> DEFINE V == {l \in S : l <= j}
  <2>0. i \in Nat /\ j \in Nat /\ \A l \in S : l \in Nat
    OBVIOUS
  <2>1. U \subseteq V /\ j \in V /\ j \notin U
    <3>1. ASSUME NEW l \in U PROVE l \in V
      BY <1>4, <2>0
    <3>2. j \in V /\ j \notin U
      BY <1>4, <2>0
    <3> QED BY <3>1, <3>2
  <2>2. IsFiniteSet(V)
    BY <1>1, FS_Subset
  <2>3. Cardinality(U) # Cardinality(V)
    <3> HIDE DEF U, V
    <3> QED BY <2>1, <2>2, FS_Subset
  <2> QED BY <2>3 DEF UpTo
<1>5. f \in Injection(S, 1 .. N)
  <2>1. f \in [S -> 1 .. N]
    BY <1>3
  <2>2. \A i, j \in S : i # j => f[i] # f[j]
    <3> SUFFICES ASSUME NEW i \in S, NEW j \in S, i # j PROVE f[i] # f[j]
      OBVIOUS
    <3>1. i < j \/ j < i
      OBVIOUS
    <3> QED BY <1>4, <3>1
  <2> HIDE DEF f
  <2> QED BY <2>1, <2>2 DEF Injection, IsInjective
<1>6. IsFiniteSet(1 .. N) /\ Cardinality(1 .. N) = N
  BY <1>2, FS_Interval
<1>7. f \in Surjection(S, 1 .. N)
  <2> HIDE DEF f
  <2> QED BY <1>5, <1>6, FS_Injection
<1>8. \A m \in 1 .. N : \E i \in S : UpTo(S, i) = m
  BY <1>7 DEF Surjection
<1> QED BY <1>2, <1>3, <1>8

(* How a step changes the log while no number is lost: not at all, by      *)
(* pushing, or by importing from where the request began.                  *)
Imports(r, n) ==
  /\ request[r].op \in {"apply", "import"} /\ Free(request[r].from, n)
  /\ identity' = identity /\ Taken' = Taken \cup Numbers(request[r].from, n)
  /\ \A c \in changes' \ changes : c.sequence \in Numbers(request[r].from, n)
LogStep ==
  /\ changes \subseteq changes'
  /\ lost' = lost \/ (lost' = lost + 1 /\ changes' = changes)
  /\ lost' = lost =>
       \/ changes' = changes /\ identity' = identity
       \/ changes' = changes /\ identity \in Taken /\ identity' = identity + 1
       \/ /\ identity \notin Taken /\ identity' = identity + 1
          /\ Taken' = Taken \cup {identity}
          /\ \A c \in changes' \ changes : c.sequence = identity
       \/ \E r \in Requests, n \in Nat : Imports(r, n)

(* Only four actions write into the log: the two pushes and the commits of *)
(* the two imports.                                                        *)
LEMMA WhoWritesTheLog ==
  ASSUME DataNext
  PROVE  \/ UNCHANGED log
         \/ PushNext \/ ListPush
         \/ \E r \in Requests : ApplyCommit(r) \/ ImportCommit(r)
<1>1. ASSUME NEW r \in Requests, CreateBegin(r) PROVE UNCHANGED log
  BY <1>1 DEF CreateBegin
<1>2. ASSUME NEW r \in Requests, CreateCommit(r) PROVE UNCHANGED log
  BY <1>2 DEF CreateCommit
<1>3. ASSUME NEW r \in Requests, DeleteBegin(r) \/ DeleteCommit(r) PROVE UNCHANGED log
  BY <1>3 DEF DeleteBegin, DeleteCommit
<1>4. ASSUME NEW r \in Requests, ApplyBegin(r) \/ AddBegin(r) \/ AddCommit(r) \/ ImportBegin(r)
      PROVE  UNCHANGED log
  BY <1>4 DEF ApplyBegin, AddBegin, AddCommit, ImportBegin
<1>5. CASE (\E k \in Tokens : Preview(k)) \/ CreateGroup \/ RenameGroup \/ DeleteGroup \/ RemoveItem
  <2>1. UNCHANGED log
    BY <1>5 DEF Preview, CreateGroup, RenameGroup, DeleteGroup, RemoveItem
  <2> QED BY <2>1
<1> QED
  BY <1>1, <1>2, <1>3, <1>4, <1>5 DEF DataNext, ApiNext, ImportNext, ListNext

(* Rows that are written take their numbers.                               *)
LEMMA TakenGrows ==
  ASSUME NEW X, changes' = changes \cup X, NEW N, N = {c.sequence : c \in X}
  PROVE  changes \subseteq changes' /\ Taken' = Taken \cup N /\ \A c \in changes' \ changes : c.sequence \in N
BY DEF Taken

(* What each of them takes of the numbers.                                 *)
LEMMA LogMoves ==
  ASSUME GroupsInv, RequestsInv, NumbersInv, lost = 0, DataNext PROVE LogStep
<1>1. CASE UNCHANGED log
  BY <1>1 DEF LogStep, log
<1>2. ASSUME NEW u, changes' = changes \cup {Change(u, identity, OtherRow, "UPSERT")},
             identity \notin Taken, identity' = identity + 1, lost' = lost
      PROVE  LogStep
  <2> DEFINE X == {Change(u, identity, OtherRow, "UPSERT")}
  <2>1. {identity} = {c.sequence : c \in X}
    BY DEF Change
  <2>2. changes' = changes \cup X
    BY <1>2
  <2> HIDE DEF X
  <2> QED BY <1>2, <2>1, <2>2, TakenGrows DEF LogStep
<1>3. CASE PushNext
  <2>1. CASE \E u \in Users : PushBegin(u)
    BY <2>1 DEF PushBegin, LogStep
  <2>2. CASE PushAttempt
    BY <1>2, <2>2 DEF PushAttempt, LogStep
  <2>3. CASE PushLost
    BY <2>3 DEF PushLost, LogStep
  <2> QED BY <1>3, <2>1, <2>2, <2>3 DEF PushNext
<1>4. CASE ListPush
  BY <1>2, <1>4 DEF ListPush
<1>5. ASSUME NEW r \in Requests, ImportCommit(r) PROVE LogStep
  <2> DEFINE a == request[r]
  <2> DEFINE n == LoggedBy(a)
  <2>1. a.op = "import" /\ a.file \in ListFiles /\ IsFiniteSet(a.dropped) /\ a.from \in Nat
    BY <1>5, ImportCommitted DEF RequestsInv, Drops, NumbersInv
  <2>2. n \in Nat
    BY <2>1, OpenedGroups, FS_CardinalityType DEF LoggedBy
  <2>3. CASE changes' = changes
    BY <1>5, <2>3, ImportCommitted DEF LogStep
  <2>4. CASE /\ Free(a.from, n)
             /\ changes' = changes \cup {Change(Owner, c, OtherRow, "UPSERT") : c \in Numbers(a.from, n)}
    <3> HIDE DEF n
    <3> DEFINE X == {Change(Owner, c, OtherRow, "UPSERT") : c \in Numbers(a.from, n)}
    <3>1. lost' = lost /\ identity' = identity
      BY <1>5, ImportCommitted
    <3>2. /\ changes \subseteq changes' /\ Taken' = Taken \cup Numbers(a.from, n)
          /\ \A c \in changes' \ changes : c.sequence \in Numbers(a.from, n)
      <4>0. \A m : Change(Owner, m, OtherRow, "UPSERT").sequence = m
        BY DEF Change
      <4>1. Numbers(a.from, n) = {c.sequence : c \in X}
        BY <4>0
      <4>2. changes' = changes \cup X
        BY <2>4
      <4> HIDE DEF X
      <4> QED BY <4>1, <4>2, TakenGrows
    <3> QED BY <2>1, <2>2, <2>4, <3>1, <3>2 DEF LogStep, Imports
  <2> QED BY <1>5, <2>3, <2>4, ImportCommitted
<1>6. ASSUME NEW r \in Requests, ApplyCommit(r) PROVE LogStep
  <2> DEFINE a == request[r]
  <2> DEFINE news == Unknown(a.file, Owner)
  <2> DEFINE n == Cardinality(news)
  <2>1. a.op = "apply" /\ a.file \in Files /\ a.from \in Nat
    BY <1>6 DEF ApplyCommit, RequestsInv, Applies, NumbersInv
  <2>2. n \in Nat /\ {UpTo(news, i) : i \in news} = 1 .. n
    <3>1. news \in SUBSET (1 .. Len(a.file)) /\ Len(a.file) \in Nat
      BY <2>1, PortfolioAssumption DEF Unknown
    <3> HIDE DEF news
    <3> QED BY <3>1, CountedThrough
  <2>3. lost' = lost /\ identity' = identity
    BY <1>6 DEF ApplyCommit
  <2>4. CASE changes' = changes
    BY <2>3, <2>4 DEF LogStep
  <2>5. CASE /\ Free(a.from, n)
             /\ changes' = changes \cup
                  {Change(Owner, a.from + UpTo(news, i), a.file[i].id, "UPSERT") : i \in news}
    <3> HIDE DEF news, n
    <3>1. {a.from + UpTo(news, i) : i \in news} = Numbers(a.from, n)
      <4>1. \A i \in news : a.from + UpTo(news, i) \in Numbers(a.from, n)
        BY <2>1, <2>2 DEF Numbers
      <4>2. ASSUME NEW c \in Numbers(a.from, n) PROVE \E i \in news : c = a.from + UpTo(news, i)
        <5>1. c - a.from \in 1 .. n /\ c \in Int
          BY <2>1, <2>2 DEF Numbers
        <5>2. PICK i \in news : UpTo(news, i) = c - a.from
          BY <2>2, <5>1
        <5> QED BY <2>1, <5>1, <5>2
      <4> QED BY <4>1, <4>2
    <3> DEFINE X == {Change(Owner, a.from + UpTo(news, i), a.file[i].id, "UPSERT") : i \in news}
    <3> DEFINE N == {a.from + UpTo(news, i) : i \in news}
    <3>2. /\ changes \subseteq changes' /\ Taken' = Taken \cup N
          /\ \A c \in changes' \ changes : c.sequence \in N
      <4>0. \A m, e : Change(Owner, m, e, "UPSERT").sequence = m
        BY DEF Change
      <4>1. N = {c.sequence : c \in X}
        <5>1. \A i \in news : Change(Owner, a.from + UpTo(news, i), a.file[i].id, "UPSERT").sequence
                               = a.from + UpTo(news, i)
          BY <4>0
        <5> QED BY <5>1
      <4>2. changes' = changes \cup X
        BY <2>5
      <4> HIDE DEF X, N
      <4> QED BY <4>1, <4>2, TakenGrows
    <3> QED BY <2>1, <2>2, <2>3, <2>5, <3>1, <3>2 DEF LogStep, Imports
  <2> QED BY <1>6, <2>4, <2>5 DEF ApplyCommit
<1> QED BY <1>1, <1>3, <1>4, <1>5, <1>6, WhoWritesTheLog

(* Rows of the log stay, and numbers that were lost stay lost.             *)
LEMMA LogGrows ==
  ASSUME DataNext PROVE changes \subseteq changes' /\ (lost' = lost \/ lost' = lost + 1)
<1>1. CASE PushNext
  BY <1>1 DEF PushNext, PushBegin, PushAttempt, PushLost
<1>2. CASE ListPush
  BY <1>2 DEF ListPush
<1>3. ASSUME NEW r \in Requests, ImportCommit(r) PROVE changes \subseteq changes' /\ lost' = lost
  BY <1>3, ImportCommitted
<1>4. ASSUME NEW r \in Requests, ApplyCommit(r) PROVE changes \subseteq changes' /\ lost' = lost
  BY <1>4 DEF ApplyCommit
<1>5. CASE UNCHANGED log
  BY <1>5 DEF log
<1> QED BY <1>1, <1>2, <1>3, <1>4, <1>5, WhoWritesTheLog

(* An import that applies a preview stores what the owner does not have.   *)
LEMMA ApplyCommitted ==
  ASSUME NEW r \in Requests, ApplyCommit(r)
  PROVE  \/ ledger' = ledger /\ changes' = changes /\ previews' = previews
         \/ /\ ledger' = ledger \cup {Row(request[r].file[i], request[r].file[i].id, Owner, clock) :
                                        i \in Unknown(request[r].file, Owner)}
            /\ \A i \in Unknown(request[r].file, Owner) :
                 \E c \in changes' : c.entity = request[r].file[i].id /\ c.user = Owner
<1> DEFINE news == Unknown(request[r].file, Owner)
<1>1. \A n, e : Change(Owner, n, e, "UPSERT").entity = e /\ Change(Owner, n, e, "UPSERT").user = Owner
  BY DEF Change
<1>2. CASE changes' = changes \cup {Change(Owner, request[r].from + UpTo(news, i),
                                            request[r].file[i].id, "UPSERT") : i \in news}
  <2>1. ASSUME NEW i \in news
        PROVE  \E c \in changes' : c.entity = request[r].file[i].id /\ c.user = Owner
    <3> DEFINE c == Change(Owner, request[r].from + UpTo(news, i), request[r].file[i].id, "UPSERT")
    <3>1. c \in changes' /\ c.entity = request[r].file[i].id /\ c.user = Owner
      BY <1>1, <1>2
    <3> HIDE DEF c
    <3> QED BY <3>1
  <2> QED BY <1>2, <2>1 DEF ApplyCommit, AfterFailure
<1> QED BY <1>2 DEF ApplyCommit, AfterFailure

(* A transaction gets into the ledger together with its row in the log.    *)
LEMMA LoggedStep ==
  ASSUME LoggedInv, DataNext PROVE LoggedInv'
<1>1. changes \subseteq changes'
  BY LogGrows
<1>2. CASE ledger' \subseteq ledger
  BY <1>1, <1>2 DEF LoggedInv
<1>3. ASSUME NEW r \in Requests, CreateCommit(r) PROVE LoggedInv'
  <2>1. PICK id : ledger' = ledger \cup {Row(request[r].trade, id, NoOne, clock)}
    BY <1>3 DEF CreateCommit
  <2>2. Row(request[r].trade, id, NoOne, clock).user # Owner
    BY PersonalDataAssumption DEF Row
  <2> QED BY <1>1, <2>1, <2>2 DEF LoggedInv
<1>4. ASSUME NEW r \in Requests, ApplyCommit(r) PROVE LoggedInv'
  <2> DEFINE news == Unknown(request[r].file, Owner)
  <2>1. CASE /\ ledger' = ledger \cup {Row(request[r].file[i], request[r].file[i].id, Owner, clock) : i \in news}
             /\ \A i \in news : \E c \in changes' : c.entity = request[r].file[i].id /\ c.user = Owner
    <3> HIDE DEF news
    <3>1. \A i : Row(request[r].file[i], request[r].file[i].id, Owner, clock).id = request[r].file[i].id
      BY DEF Row
    <3>2. ASSUME NEW t \in ledger', t.user = Owner PROVE \E c \in changes' : c.entity = t.id /\ c.user = Owner
      <4>1. CASE t \in ledger
        BY <1>1, <3>2, <4>1 DEF LoggedInv
      <4>2. CASE \E i \in news : t = Row(request[r].file[i], request[r].file[i].id, Owner, clock)
        BY <2>1, <3>1, <4>2
      <4> QED BY <2>1, <4>1, <4>2
    <3> QED BY <3>2 DEF LoggedInv
  <2> QED BY <1>2, <1>4, <2>1, ApplyCommitted
<1>5. ASSUME NEW r \in Requests, CreateBegin(r) PROVE ledger' = ledger
  BY <1>5 DEF CreateBegin
<1>6. ASSUME NEW r \in Requests, DeleteBegin(r) PROVE ledger' = ledger
  BY <1>6 DEF DeleteBegin
<1>7. ASSUME NEW r \in Requests, DeleteCommit(r) PROVE ledger' \subseteq ledger
  BY <1>7 DEF DeleteCommit
<1>8. ASSUME NEW r \in Requests, ApplyBegin(r) PROVE ledger' = ledger
  BY <1>8 DEF ApplyBegin
<1>9. ASSUME NEW k \in Tokens, Preview(k) PROVE ledger' = ledger
  BY <1>9 DEF Preview
<1>10. UNCHANGED book => ledger' = ledger
  BY DEF book
<1> QED
  BY <1>2, <1>3, <1>4, <1>5, <1>6, <1>7, <1>8, <1>9, <1>10 DEF DataNext, ApiNext, ImportNext

(* Where numbers have no gap, what is written gets the next ones.          *)
LEMMA NumbersFollow ==
  ASSUME LogStep, lost = 0, lost' = lost, NEW k \in Nat, Taken = 1 .. k, identity \in 1 .. (k + 1),
         \A r \in Requests : request[r].op \in {"apply", "import"} => request[r].from \in 0 .. k
  PROVE  /\ \A c \in changes' \ changes : c.sequence \in Nat /\ c.sequence > k
         /\ \E m \in Nat : m >= k /\ Taken' = 1 .. m /\ identity' \in 1 .. (m + 1)
<1>1. CASE changes' = changes
  <2>1. Taken' = Taken
    BY <1>1 DEF Taken
  <2>2. identity' = identity \/ (identity \in Taken /\ identity' = identity + 1) \/ identity \notin Taken
          \/ \E r \in Requests, n \in Nat : Imports(r, n)
    BY DEF LogStep
  <2>3. CASE identity' = identity
    BY <1>1, <2>1, <2>3
  <2>4. CASE identity \in Taken /\ identity' = identity + 1
    BY <1>1, <2>1, <2>4
  <2>5. CASE identity \notin Taken /\ Taken' = Taken \cup {identity}
    BY <2>1, <2>5
  <2>6. CASE \E r \in Requests, n \in Nat : Imports(r, n)
    BY <2>3, <2>6 DEF Imports
  <2> QED BY <2>3, <2>4, <2>5, <2>6 DEF LogStep
<1>2. CASE /\ identity \notin Taken /\ identity' = identity + 1 /\ Taken' = Taken \cup {identity}
           /\ \A c \in changes' \ changes : c.sequence = identity
  <2>1. identity = k + 1
    BY <1>2
  <2>2. Taken' = 1 .. (k + 1)
    BY <1>2, <2>1
  <2> QED BY <1>2, <2>1, <2>2
<1>3. ASSUME NEW r \in Requests, NEW n \in Nat, Imports(r, n)
      PROVE  /\ \A c \in changes' \ changes : c.sequence \in Nat /\ c.sequence > k
             /\ \E m \in Nat : m >= k /\ Taken' = 1 .. m /\ identity' \in 1 .. (m + 1)
  <2>1. request[r].from \in 0 .. k /\ Numbers(request[r].from, n) \cap (1 .. k) = {}
    BY <1>3 DEF Imports, Free
  <2>2. CASE n = 0
    <3>1. Numbers(request[r].from, n) = {}
      BY <2>1, <2>2 DEF Numbers
    <3> QED BY <1>3, <3>1 DEF Imports
  <2>3. CASE n > 0
    <3>1. request[r].from + 1 \in Numbers(request[r].from, n)
      BY <2>1, <2>3 DEF Numbers
    <3>2. request[r].from = k
      BY <2>1, <3>1
    <3>3. Numbers(request[r].from, n) = (k + 1) .. (k + n)
      BY <3>2 DEF Numbers
    <3>4. Taken' = 1 .. (k + n)
      BY <1>3, <3>3 DEF Imports
    <3>5. identity' \in 1 .. (k + n + 1) /\ k + n \in Nat /\ k + n >= k
      BY <1>3 DEF Imports
    <3>6. \A c \in changes' \ changes : c.sequence \in (k + 1) .. (k + n)
      BY <1>3, <3>3 DEF Imports
    <3> DEFINE m == k + n
    <3>7. m \in Nat /\ m >= k /\ Taken' = 1 .. m /\ identity' \in 1 .. (m + 1)
      BY <3>4, <3>5
    <3>8. \A c \in changes' \ changes : c.sequence \in Nat /\ c.sequence > k
      BY <3>6
    <3> HIDE DEF m
    <3> QED BY <3>7, <3>8
  <2> QED BY <2>2, <2>3
<1> QED BY <1>1, <1>2, <1>3 DEF LogStep

(* The numbers keep without a gap while none is lost.                      *)
LEMMA NumbersStep ==
  ASSUME GroupsInv, RequestsInv, NumbersInv, DataNext PROVE NumbersInv'
<1>1. lost' \in Nat /\ (lost' = 0 => lost = 0)
  BY LogGrows DEF NumbersInv
<1> SUFFICES ASSUME lost' = 0
             PROVE  \E m \in Nat :
                      /\ Taken' = 1 .. m /\ identity' \in 1 .. (m + 1)
                      /\ \A r \in Requests : request'[r].op \in {"apply", "import"} => request'[r].from \in 0 .. m
  BY <1>1 DEF NumbersInv
<1>2. lost = 0 /\ LogStep
  BY <1>1, LogMoves
<1>3. PICK k \in Nat :
        /\ Taken = 1 .. k /\ identity \in 1 .. (k + 1)
        /\ \A r \in Requests : request[r].op \in {"apply", "import"} => request[r].from \in 0 .. k
  BY <1>2 DEF NumbersInv
<1>4. PICK m \in Nat : m >= k /\ Taken' = 1 .. m /\ identity' \in 1 .. (m + 1)
  BY <1>2, <1>3, NumbersFollow
<1>5. ASSUME NEW r \in Requests, request'[r].op \in {"apply", "import"} PROVE request'[r].from \in 0 .. m
  <2>1. CASE request'[r] = request[r]
    BY <1>3, <1>4, <1>5, <2>1
  <2>2. Greatest(Owner) \in 0 .. m
    BY <1>3, <1>4, GreatestIs
  <2>3. CASE ApplyBegin(r)
    <3>1. PICK t \in Tokens : Begin(r, Apply(t, Greatest(Owner)))
      BY <2>3 DEF ApplyBegin
    <3>2. request'[r] = Apply(t, Greatest(Owner))
      BY <3>1 DEF Begin, RequestsInv
    <3> QED BY <2>2, <3>2 DEF Apply
  <2>4. CASE ImportBegin(r)
    <3>1. request'[r].from = Greatest(Owner)
      BY <2>4 DEF ImportBegin, Begin, RequestsInv
    <3> QED BY <2>2, <3>1
  <2> QED BY <1>5, <2>1, <2>3, <2>4, ImportsBegin
<1> QED BY <1>4, <1>5

(* What a request about to commit has read is still so.                    *)
LEMMA RequestsStep ==
  ASSUME PreviewsInv, RequestsInv, GroupsInv, DataNext PROVE PreviewsInv' /\ RequestsInv'
<1>1. PreviewsInv'
  <2>1. DOMAIN previews' = Tokens
    <3>1. \A k \in Tokens : Preview(k) => DOMAIN previews' = Tokens
      BY DEF Preview, PreviewsInv
    <3>2. \A r \in Requests : CreateBegin(r) \/ CreateCommit(r) => DOMAIN previews' = Tokens
      <4>1. \A r \in Requests : CreateBegin(r) => previews' = previews
        BY DEF CreateBegin
      <4>2. \A r \in Requests : CreateCommit(r) => DOMAIN previews' = Tokens
        BY DEF CreateCommit
      <4> QED BY <4>1, <4>2 DEF PreviewsInv
    <3>3. \A r \in Requests : DeleteBegin(r) \/ DeleteCommit(r) => DOMAIN previews' = Tokens
      <4>1. \A r \in Requests : DeleteBegin(r) => previews' = previews
        BY DEF DeleteBegin
      <4>2. \A r \in Requests : DeleteCommit(r) => DOMAIN previews' = Tokens
        BY DEF DeleteCommit
      <4> QED BY <4>1, <4>2 DEF PreviewsInv
    <3>4. \A r \in Requests : ApplyBegin(r) => previews' = previews
      BY DEF ApplyBegin
    <3>5. \A r \in Requests : ApplyCommit(r) => DOMAIN previews' = Tokens
      BY DEF ApplyCommit, AfterFailure, PreviewsInv
    <3>6. UNCHANGED book => previews' = previews
      BY DEF book
    <3> QED BY <3>1, <3>2, <3>3, <3>4, <3>5, <3>6 DEF DataNext, ApiNext, ImportNext, PreviewsInv
  <2>2. \A k \in Tokens : previews'[k] = Idle \/ previews'[k] = Gone \/ Stored(previews'[k])
    BY PreviewMoves DEF PreviewsInv
  <2> QED BY <2>1, <2>2 DEF PreviewsInv
<1>2. DOMAIN request' = Requests
  <2>1. \A r \in Requests : \A what : Begin(r, what) => DOMAIN request' = Requests
    BY DEF Begin, RequestsInv
  <2>2. \A r \in Requests : Written(r) \/ Done(r) => DOMAIN request' = Requests
    BY DEF Written, Done, RequestsInv
  <2>3. \A r \in Requests : CreateBegin(r) => DOMAIN request' = Requests
    BY <2>1 DEF CreateBegin
  <2>4. \A r \in Requests : DeleteBegin(r) => DOMAIN request' = Requests
    BY <2>1 DEF DeleteBegin
  <2>5. \A r \in Requests : ApplyBegin(r) \/ AddBegin(r) \/ ImportBegin(r) => DOMAIN request' = Requests
    BY <2>1 DEF ApplyBegin, AddBegin, ImportBegin
  <2>6. \A r \in Requests : CreateCommit(r) \/ DeleteCommit(r) \/ AddCommit(r) => DOMAIN request' = Requests
    BY <2>2 DEF CreateCommit, DeleteCommit, AddCommit
  <2>7. \A r \in Requests : ApplyCommit(r) => DOMAIN request' = Requests
    BY <2>2 DEF ApplyCommit, RequestsInv
  <2>8. \A r \in Requests : ImportCommit(r) => DOMAIN request' = Requests
    BY <2>2, ImportCommitted
  <2>9. (\E k \in Tokens : Preview(k)) \/ PushNext \/ CreateGroup \/ RenameGroup
          \/ DeleteGroup \/ RemoveItem \/ ListPush => request' = request
    BY DEF Preview, PushNext, CreateGroup, RenameGroup, DeleteGroup, RemoveItem, ListPush, AtOnce
  <2> QED
    BY <2>3, <2>4, <2>5, <2>6, <2>7, <2>8, <2>9 DEF DataNext, ApiNext, ImportNext, ListNext, RequestsInv
<1>3. ASSUME NEW r \in Requests PROVE "op" \in DOMAIN request'[r]
  <2>1. ASSUME NEW q \in Requests, NEW what, Begin(q, what), "op" \in DOMAIN what
        PROVE  "op" \in DOMAIN request'[r]
    BY <2>1 DEF Begin, RequestsInv
  <2>2. ASSUME NEW q \in Requests, Written(q) \/ Done(q) PROVE "op" \in DOMAIN request'[r]
    BY <2>2 DEF Written, Done, Late, Idle, RequestsInv
  <2>3. ASSUME NEW q \in Requests, CreateBegin(q) PROVE "op" \in DOMAIN request'[r]
    BY <2>1, <2>3 DEF CreateBegin
  <2>4. ASSUME NEW q \in Requests, DeleteBegin(q) PROVE "op" \in DOMAIN request'[r]
    BY <2>1, <2>4 DEF DeleteBegin
  <2>5. ASSUME NEW q \in Requests, ApplyBegin(q) PROVE "op" \in DOMAIN request'[r]
    BY <2>1, <2>5 DEF ApplyBegin, Apply
  <2>6. ASSUME NEW q \in Requests, AddBegin(q) PROVE "op" \in DOMAIN request'[r]
    BY <2>1, <2>6 DEF AddBegin
  <2>7. ASSUME NEW q \in Requests, ImportBegin(q) PROVE "op" \in DOMAIN request'[r]
    BY <2>1, <2>7 DEF ImportBegin
  <2>8. ASSUME NEW q \in Requests, CreateCommit(q) \/ DeleteCommit(q) \/ AddCommit(q)
        PROVE  "op" \in DOMAIN request'[r]
    BY <2>2, <2>8 DEF CreateCommit, DeleteCommit, AddCommit
  <2>9. ASSUME NEW q \in Requests, ApplyCommit(q) PROVE "op" \in DOMAIN request'[r]
    BY <2>2, <2>9 DEF ApplyCommit, Idle, RequestsInv
  <2>10. ASSUME NEW q \in Requests, ImportCommit(q) PROVE "op" \in DOMAIN request'[r]
    BY <2>2, <2>10, ImportCommitted
  <2>11. (\E k \in Tokens : Preview(k)) \/ PushNext \/ CreateGroup \/ RenameGroup
           \/ DeleteGroup \/ RemoveItem \/ ListPush => request' = request
    BY DEF Preview, PushNext, CreateGroup, RenameGroup, DeleteGroup, RemoveItem, ListPush, AtOnce
  <2> QED
    BY <2>3, <2>4, <2>5, <2>6, <2>7, <2>8, <2>9, <2>10, <2>11
       DEF DataNext, ApiNext, ImportNext, ListNext, RequestsInv
<1>4. ASSUME NEW r \in Requests, request'[r].op = "apply" PROVE Applies(request[r])'
  <2>1. CASE request'[r] = request[r]
    <3>1. Applies(request[r])
      BY <1>4, <2>1 DEF RequestsInv
    <3> QED BY <2>1, <3>1, PreviewMoves DEF Applies, Stored, Idle, Gone
  <2>2. CASE ApplyBegin(r)
    <3>1. PICK t \in Tokens :
            /\ previews[t].op = "preview" /\ previews' = previews
            /\ Begin(r, Apply(t, Greatest(Owner)))
      BY <2>2 DEF ApplyBegin
    <3>2. request'[r] = Apply(t, Greatest(Owner))
      BY <3>1 DEF Begin, RequestsInv
    <3>3. Stored(previews[t])
      BY <3>1 DEF PreviewsInv, Idle, Gone
    <3>4. request'[r].token = t /\ request'[r].file = previews[t].file
      BY <3>2 DEF Apply
    <3> QED BY <3>1, <3>3, <3>4 DEF Applies, Stored
  <2>3. CASE ImportBegin(r)
    BY <1>4, <2>3 DEF ImportBegin, Begin, RequestsInv
  <2> QED BY <1>4, <2>1, <2>2, <2>3, ImportsBegin
<1>5. ASSUME NEW r \in Requests, request'[r].op = "import" PROVE Drops(request[r])'
  <2>1. CASE request'[r] = request[r]
    BY <1>5, <2>1, GroupsMove DEF RequestsInv, Drops
  <2>2. CASE ImportBegin(r)
    <3>1. PICK f \in ListFiles, replace \in BOOLEAN : ImportBegin(r)!(f, replace)
      BY <2>2 DEF ImportBegin
    <3> DEFINE D == IF replace THEN {g.id : g \in {x \in groups : x.owner = Owner /\ x.live}} ELSE {}
    <3>2. request'[r].file = f /\ request'[r].dropped = D /\ groups' = groups
      BY <3>1 DEF Begin, RequestsInv
    <3>3. IsFiniteSet(D)
      <4> DEFINE S == {x \in groups : x.owner = Owner /\ x.live}
      <4> DEFINE ids == [g \in S |-> g.id]
      <4>1. IsFiniteSet(S)
        BY FS_Subset DEF GroupsInv
      <4>2. DOMAIN ids = S /\ ids = [g \in S |-> ids[g]] /\ {g.id : g \in S} = {ids[g] : g \in S}
        OBVIOUS
      <4>3. IsFiniteSet({g.id : g \in S})
        <5> HIDE DEF ids, S
        <5> QED BY <4>1, <4>2, Images
      <4> QED BY <4>3, FS_EmptySet
    <3>4. \A id \in D : \E g \in groups : g.id = id /\ g.owner = Owner
      OBVIOUS
    <3> HIDE DEF D
    <3> QED BY <3>2, <3>3, <3>4 DEF Drops
  <2>3. CASE ApplyBegin(r)
    <3>1. PICK t \in Tokens : Begin(r, Apply(t, Greatest(Owner)))
      BY <2>3 DEF ApplyBegin
    <3>2. request'[r] = Apply(t, Greatest(Owner))
      BY <3>1 DEF Begin, RequestsInv
    <3> QED BY <1>5, <3>2 DEF Apply
  <2> QED BY <1>5, <2>1, <2>2, <2>3, ImportsBegin
<1>6. RequestsInv'
  BY <1>2, <1>3, <1>4, <1>5 DEF RequestsInv
<1> QED BY <1>1, <1>6

(* Every step keeps the invariant.                                         *)
LEMMA DataStep == DataInv /\ [DataNext]_dvars => DataInv'
<1> SUFFICES ASSUME DataInv, [DataNext]_dvars PROVE DataInv'
  OBVIOUS
<1>1. CASE DataNext
  <2>1. PreviewsInv' /\ RequestsInv'
    BY <1>1, RequestsStep DEF DataInv
  <2>2. GroupsInv'
    BY <1>1, GroupsMove DEF DataInv
  <2>3. LoggedInv' /\ NumbersInv'
    BY <1>1, LoggedStep, NumbersStep DEF DataInv
  <2> QED BY <2>1, <2>2, <2>3 DEF DataInv
<1>2. CASE UNCHANGED dvars
  <2>1. UNCHANGED <<request, previews, ledger, groups, changes, identity, lost>>
    BY <1>2 DEF dvars, log, book, lists
  <2> QED BY <2>1 DEF DataInv, PreviewsInv, RequestsInv, Applies, Drops, GroupsInv, LoggedInv, NumbersInv,
                      Taken, Stored
<1> QED BY <1>1, <1>2

(* Whatever requests for the ledger, the lists and the change log overlap: *)
(* previews are whole until they are applied (import_export.py             *)
(* create_portfolio_preview), an import of lists drops groups that are     *)
(* still its owner's, every transaction of the owner is in the log, and    *)
(* its numbers have no gap until a push rolls back.                        *)
THEOREM DataInvariant == DataSpec => []DataInv
BY DataInit, DataStep, PTL DEF DataSpec

(* apply_portfolio_import is all or nothing: when a preview is used up,    *)
(* each of its news is in the ledger and each new one in the log.          *)
THEOREM ImportsAreStored == DataSpec => AppliedIsStored
<1> DEFINE Step == \A k \in Tokens : previews[k] # Gone /\ previews'[k] = Gone =>
          \A x \in ToSet(previews[k].file) :
             /\ \E t \in ledger' : t.id = x.id /\ t.user = Owner
             /\ \E c \in changes' : c.entity = x.id /\ c.user = Owner
<1>1. ASSUME DataInv, DataInv', DataNext PROVE Step
  <2> SUFFICES ASSUME NEW k \in Tokens, previews[k] # Gone, previews'[k] = Gone,
                      NEW x \in ToSet(previews[k].file)
               PROVE  /\ \E t \in ledger' : t.id = x.id /\ t.user = Owner
                      /\ \E c \in changes' : c.entity = x.id /\ c.user = Owner
    OBVIOUS
  <2>1. PICK r \in Requests : ApplyCommit(r) /\ request[r].token = k /\ previews' # previews
    BY <1>1, PreviewMoves DEF DataInv, Stored, Gone
  <2>2. request[r].op = "apply"
    BY <2>1 DEF ApplyCommit
  <2>3. previews[k].file = request[r].file
    BY <1>1, <2>1, <2>2 DEF DataInv, RequestsInv, Applies
  <2>4. PICK i \in DOMAIN request[r].file : x = request[r].file[i]
    BY <2>3 DEF ToSet
  <2> DEFINE news == Unknown(request[r].file, Owner)
  <2>5. /\ ledger' = ledger \cup {Row(request[r].file[j], request[r].file[j].id, Owner, clock) : j \in news}
        /\ \A j \in news : \E c \in changes' : c.entity = request[r].file[j].id /\ c.user = Owner
    BY <2>1, ApplyCommitted
  <2>6. CASE i \in news
    <3> DEFINE t == Row(request[r].file[i], request[r].file[i].id, Owner, clock)
    <3>1. t \in ledger' /\ t.id = x.id /\ t.user = Owner
      BY <2>4, <2>5, <2>6 DEF Row
    <3> HIDE DEF t, news
    <3> QED BY <2>4, <2>5, <2>6, <3>1
  <2>7. CASE i \notin news
    <3>1. PICK t \in ledger : t.id = x.id /\ t.user = Owner
      BY <2>4, <2>7 DEF Unknown
    <3>2. t \in ledger'
      BY <2>5
    <3> QED BY <1>1, <3>1, <3>2 DEF DataInv, LoggedInv
  <2> QED BY <2>6, <2>7
<1>2. UNCHANGED dvars => UNCHANGED <<book, request, log>>
  BY DEF dvars
<1>3. DataInv /\ DataInv' /\ [DataNext]_dvars => [Step]_<<book, request, log>>
  BY <1>1, <1>2
<1> QED BY <1>3, DataInvariant, PTL DEF DataSpec, AppliedIsStored

(* Nothing is committed below a number a device may already have pulled up *)
(* to, whoever draws numbers at the same time (import_export.py,           *)
(* cloud_sync.py: max + 1), as long as no push has rolled back after       *)
(* taking one.                                                             *)
THEOREM CursorsMissNothing == DataSpec => NothingBelowCursor
<1> DEFINE Step == lost = 0 => \A c \in changes' \ changes : c.sequence > Greatest(c.user)
<1>1. ASSUME DataInv, DataNext PROVE Step
  <2> SUFFICES ASSUME lost = 0, NEW c \in changes' \ changes PROVE c.sequence > Greatest(c.user)
    OBVIOUS
  <2>1. LogStep
    BY <1>1, LogMoves DEF DataInv
  <2>2. lost' = lost
    BY <2>1 DEF LogStep
  <2>3. PICK k \in Nat :
        /\ Taken = 1 .. k /\ identity \in 1 .. (k + 1)
        /\ \A r \in Requests : request[r].op \in {"apply", "import"} => request[r].from \in 0 .. k
    BY <1>1 DEF DataInv, NumbersInv
  <2>4. c.sequence \in Nat /\ c.sequence > k
    BY <2>1, <2>2, <2>3, NumbersFollow
  <2>5. Greatest(c.user) \in 0 .. k
    BY <2>3, GreatestIs
  <2> QED BY <2>4, <2>5
<1>2. UNCHANGED dvars => UNCHANGED log
  BY DEF dvars
<1>3. DataInv /\ [DataNext]_dvars => [Step]_log
  BY <1>1, <1>2
<1> QED BY <1>3, DataInvariant, PTL DEF DataSpec, NothingBelowCursor

(* apply_watchlist_import: an import that reports success has left each of *)
(* its stocks in a live group of the name its file gives, and none of the  *)
(* groups a replacing import was to drop is live.                          *)
THEOREM ImportedListsArrive == DataSpec => ImportedListsAreThere
<1> DEFINE Step == \A r \in Requests :
         LET a == request[r] IN
         a.op = "import" /\ request'[r] = Idle /\ changes' # changes =>
            /\ \A n \in DOMAIN a.file : \E g \in groups' :
                  /\ g.owner = Owner /\ g.live /\ g.name = a.file[n].name
                  /\ \A s \in a.file[n].stocks :
                        \E i \in items' : i.group = g.id /\ i.stock = s /\ i.live
            /\ \A g \in groups' : g.id \in a.dropped => ~g.live
<1>1. ASSUME DataInv, DataNext PROVE Step
  <2> SUFFICES ASSUME NEW r \in Requests, request[r].op = "import", request'[r] = Idle, changes' # changes
               PROVE  /\ \A n \in DOMAIN request[r].file : \E g \in groups' :
                            /\ g.owner = Owner /\ g.live /\ g.name = request[r].file[n].name
                            /\ \A s \in request[r].file[n].stocks :
                                  \E i \in items' : i.group = g.id /\ i.stock = s /\ i.live
                      /\ \A g \in groups' : g.id \in request[r].dropped => ~g.live
    OBVIOUS
  <2> DEFINE a == request[r]
  <2>1. ImportCommit(r)
    <3>1. request'[r] # request[r] /\ Late(request[r]) = request[r]
      BY DEF Idle, Late
    <3>2. CASE UNCHANGED log \/ PushNext \/ ListPush
      BY <3>1, <3>2 DEF log, PushNext, ListPush, AtOnce
    <3>3. ASSUME NEW q \in Requests, ApplyCommit(q) PROVE FALSE
      <4>1. q # r
        BY <3>3 DEF ApplyCommit
      <4>2. Written(q) \/ request' = [request EXCEPT ![q] = Idle]
        BY <3>3 DEF ApplyCommit
      <4> QED BY <1>1, <3>1, <4>1, <4>2 DEF Written, DataInv, RequestsInv
    <3>4. ASSUME NEW q \in Requests, ImportCommit(q) PROVE q = r
      <4>1. Done(q)
        BY <3>4, ImportCommitted
      <4> QED BY <1>1, <3>1, <4>1 DEF Done, DataInv, RequestsInv
    <3> QED BY <1>1, <3>2, <3>3, <3>4, WhoWritesTheLog
  <2>2. /\ \A g \in OpenedBy(a) : g.id \notin {x.id : x \in Kept(a.dropped)}
        /\ groups' = Kept(a.dropped) \cup OpenedBy(a)
        /\ items' = items \cup AddedBy(a)
    BY <2>1, ImportCommitted
  <2>3. Drops(a)
    BY <1>1 DEF DataInv, RequestsInv
  <2>4. ASSUME NEW n \in DOMAIN a.file
        PROVE  \E g \in groups' :
                  /\ g.owner = Owner /\ g.live /\ g.name = a.file[n].name
                  /\ \A s \in a.file[n].stocks : \E i \in items' : i.group = g.id /\ i.stock = s /\ i.live
    <3> DEFINE g == Target(Kept(a.dropped), a.file[n])
    <3>1. g \in groups'
      BY <2>2 DEF OpenedBy, TargetsOf, ToSet
    <3>2. g.owner = Owner /\ g.live /\ g.name = a.file[n].name
      BY DEF Target, Named, Group
    <3>3. ASSUME NEW s \in a.file[n].stocks PROVE \E i \in items' : i.group = g.id /\ i.stock = s /\ i.live
      <4>1. CASE s \in Missing(g, a.file[n].stocks)
        <5>1. Item(g.id, s, Owner) \in AddedBy(a)
          <6> DEFINE target == TargetsOf(a)
          <6>1. target[n] = g /\ AddedBy(a) = Added(a.file, target)
            BY DEF AddedBy, TargetsOf
          <6> HIDE DEF target, g
          <6> QED BY <4>1, <6>1 DEF Added
        <5>2. Item(g.id, s, Owner).group = g.id /\ Item(g.id, s, Owner).stock = s /\ Item(g.id, s, Owner).live
          BY DEF Item
        <5> HIDE DEF g
        <5> QED BY <2>2, <5>1, <5>2
      <4>2. CASE s \notin Missing(g, a.file[n].stocks)
        BY <2>2, <4>2 DEF Missing
      <4> QED BY <4>1, <4>2
    <3> HIDE DEF g
    <3> QED BY <3>1, <3>2, <3>3
  <2>5. ASSUME NEW g \in groups', g.id \in a.dropped PROVE ~g.live
    <3>1. CASE g \in Kept(a.dropped)
      BY <1>1, <2>5, <3>1, KeptGroups DEF DataInv
    <3>2. CASE g \in OpenedBy(a)
      <4>1. PICK h \in groups : h.id = g.id
        BY <2>3, <2>5 DEF Drops
      <4>2. \E x \in Kept(a.dropped) : x.id = g.id
        BY <1>1, <4>1, KeptGroups DEF DataInv
      <4> QED BY <2>2, <3>2, <4>2
    <3> QED BY <2>2, <3>1, <3>2
  <2> QED BY <2>4, <2>5
<1>2. UNCHANGED dvars => UNCHANGED <<lists, request, log>>
  BY DEF dvars
<1>3. DataInv /\ [DataNext]_dvars => [Step]_<<lists, request, log>>
  BY <1>1, <1>2
<1> QED BY <1>3, DataInvariant, PTL DEF DataSpec, ImportedListsAreThere

-----------------------------------------------------------------------------
(*****************************************************************************)
(* The ledger of a portfolio, replayed transaction by transaction: what is   *)
(* proved of the accounts is proved by induction along the ledger.           *)
(*****************************************************************************)
(* A transaction as the API stores it, and a ledger of them: no two rows   *)
(* are written at the same time.                                           *)
Entered(t) ==
    /\ t.side \in {"BUY", "SELL"} /\ t.quantity \in Nat \ {0}
    /\ t.executed \in Nat /\ t.created \in Nat /\ t.id \in Nat
    /\ t.price \in Nat /\ t.fee \in Nat
Ledger(txs) ==
    /\ IsFiniteSet(txs)
    /\ \A t \in txs : Entered(t)
    /\ \A t, u \in txs : t.created = u.created => t = u

Prior(txs, t) == {u \in txs : Before(u, t)}

(* The transactions of a ledger come one after the other: the numbers of   *)
(* rows before each run from none to all but one (portfolio.py replay).    *)
LEMMA OneByOne ==
  ASSUME NEW txs, Ledger(txs), NEW n, n = Cardinality(txs)
  PROVE  /\ n \in Nat
         /\ \A t \in txs : Cardinality(Prior(txs, t)) \in 0 .. n - 1
         /\ \A t, u \in txs : Cardinality(Prior(txs, t)) = Cardinality(Prior(txs, u)) => t = u
         /\ \A i \in 1 .. n : \E t \in txs : Cardinality(Prior(txs, t)) = i - 1
<1> DEFINE R == {p \in txs \X txs : Before(p[1], p[2])}
           place == [t \in txs |-> PlaceIn(txs, R, t)]
<1>1. n \in Nat /\ IsFiniteSet(txs)
  BY FS_CardinalityType DEF Ledger
<1>2. \A t, u \in txs : <<t, u>> \in R <=> Before(t, u)
  OBVIOUS
<1>3. ASSUME NEW t \in txs
      PROVE  /\ place[t] = 1 + Cardinality(Prior(txs, t))
             /\ IsFiniteSet(Prior(txs, t)) /\ Cardinality(Prior(txs, t)) \in Nat
  <2>1. {u \in txs : <<u, t>> \in R} = Prior(txs, t)
    BY <1>2 DEF Prior
  <2>2. IsFiniteSet(Prior(txs, t)) /\ Cardinality(Prior(txs, t)) \in Nat
    BY <1>1, FS_Subset, FS_CardinalityType DEF Prior
  <2> QED
    BY <2>1, <2>2 DEF PlaceIn
<1>4. Line(txs, R)
  <2> HIDE DEF R
  <2>1. \A t \in txs : <<t, t>> \notin R
    BY <1>2 DEF Before, Ledger, Entered
  <2>2. ASSUME NEW t \in txs, NEW u \in txs, t # u PROVE Before(t, u) \/ Before(u, t)
    BY <2>2 DEF Before, Ledger, Entered
  <2>3. \A t, u, v \in txs : <<t, u>> \in R /\ <<u, v>> \in R => <<t, v>> \in R
    BY <1>2 DEF Before, Ledger, Entered
  <2> QED
    BY <1>2, <2>1, <2>2, <2>3 DEF Line
<1>5. /\ \A t \in txs : place[t] \in 1 .. n
      /\ \A t, u \in txs : place[t] = place[u] => t = u
      /\ {place[t] : t \in txs} = 1 .. n
  <2>1. place = [t \in txs |-> PlaceIn(txs, R, t)]
    OBVIOUS
  <2> HIDE DEF place, R
  <2> QED
    BY <1>1, <1>4, <2>1, InALine
<1> HIDE DEF place, R
<1>6. \A t \in txs : Cardinality(Prior(txs, t)) \in 0 .. n - 1
  BY <1>1, <1>3, <1>5
<1>7. ASSUME NEW t \in txs, NEW u \in txs, Cardinality(Prior(txs, t)) = Cardinality(Prior(txs, u))
      PROVE  t = u
  BY <1>3, <1>5, <1>7
<1>8. ASSUME NEW i \in 1 .. n PROVE \E t \in txs : Cardinality(Prior(txs, t)) = i - 1
  <2>1. PICK t \in txs : place[t] = i
    BY <1>5
  <2> QED
    BY <1>1, <1>3, <2>1
<1> QED
  BY <1>1, <1>6, <1>7, <1>8

(* The ledger in its order, one transaction at each place.                 *)
LEMMA InTurn ==
  ASSUME NEW txs, Ledger(txs), NEW n, n = Cardinality(txs)
  PROVE  /\ \A i \in 1 .. n : /\ InOrder(txs)[i] \in txs
                              /\ Cardinality(Prior(txs, InOrder(txs)[i])) = i - 1
         /\ \A i \in 1 .. n, t \in txs : Cardinality(Prior(txs, t)) = i - 1 => InOrder(txs)[i] = t
         /\ \A i, j \in 1 .. n : InOrder(txs)[i] = InOrder(txs)[j] => i = j
         /\ \A t \in txs : \E i \in 1 .. n : InOrder(txs)[i] = t
<1>1. ASSUME NEW i \in 1 .. n
      PROVE  /\ InOrder(txs)[i] \in txs
             /\ Cardinality(Prior(txs, InOrder(txs)[i])) = i - 1
  <2>1. InOrder(txs)[i] = CHOOSE t \in txs : Cardinality(Prior(txs, t)) = i - 1
    BY DEF InOrder, Prior
  <2>2. \E t \in txs : Cardinality(Prior(txs, t)) = i - 1
    BY OneByOne
  <2> QED
    BY <2>1, <2>2
<1>2. ASSUME NEW i \in 1 .. n, NEW t \in txs, Cardinality(Prior(txs, t)) = i - 1
      PROVE  InOrder(txs)[i] = t
  BY <1>1, <1>2, OneByOne
<1>3. ASSUME NEW i \in 1 .. n, NEW j \in 1 .. n, InOrder(txs)[i] = InOrder(txs)[j] PROVE i = j
  <2>1. i - 1 = j - 1
    BY <1>1, <1>3
  <2> QED
    BY <2>1
<1>4. ASSUME NEW t \in txs PROVE \E i \in 1 .. n : InOrder(txs)[i] = t
  <2>1. Cardinality(Prior(txs, t)) \in 0 .. n - 1 /\ n \in Nat
    BY OneByOne
  <2>2. Cardinality(Prior(txs, t)) + 1 \in 1 .. n
        /\ (Cardinality(Prior(txs, t)) + 1) - 1 = Cardinality(Prior(txs, t))
    BY <2>1
  <2> QED
    BY <1>2, <2>2
<1> QED
  BY <1>1, <1>2, <1>3, <1>4

(* The accounts after each transaction of a ledger in turn.                *)
Opening(txs) == [oversold |-> FALSE, positions |-> [s \in Securities(txs) |-> NoPosition]]
Replayed(txs, a) ==
    a = [k \in 0 .. Cardinality(txs) |->
           IF k = 0 THEN Opening(txs) ELSE Posted(a[k - 1], InOrder(txs)[k])]

(* A replay starts from empty positions and posts each transaction in turn. *)
LEMMA ReplayIs ==
  ASSUME NEW txs, Cardinality(txs) \in Nat
  PROVE  \E a : Replayed(txs, a) /\ Replay(txs) = a[Cardinality(txs)]
<1> DEFINE n == Cardinality(txs)
           order == InOrder(txs)
           Good(k, g) == /\ DOMAIN g = 0 .. k
                         /\ \A i \in 0 .. k :
                              g[i] = IF i = 0 THEN Opening(txs) ELSE Posted(g[i - 1], order[i])
           Bad == {k \in Nat : ~ \E g : Good(k, g)}
<1>1. Bad = {}
  <2> SUFFICES ASSUME Bad # {} PROVE FALSE
    OBVIOUS
  <2>1. PICK m \in Bad : \A k \in Bad : m <= k
    <3> HIDE DEF Bad
    <3>1. Bad \in SUBSET Nat
      BY DEF Bad
    <3> QED BY <3>1, LeastOfSome
  <2>2. m \in Nat
    OBVIOUS
  <2>3. CASE m = 0
    <3>1. Good(0, [i \in 0 .. 0 |-> Opening(txs)])
      OBVIOUS
    <3> HIDE DEF Good
    <3> QED
      BY <2>3, <3>1
  <2>4. CASE m # 0
    <3>1. m - 1 \in Nat /\ ~ (m <= m - 1)
      BY <2>2, <2>4
    <3>2. m - 1 \notin Bad
      <4> HIDE DEF Bad
      <4> QED BY <2>1, <3>1
    <3>3. PICK g : Good(m - 1, g)
      <4> HIDE DEF Good
      <4> QED BY <3>1, <3>2
    <3> DEFINE h == [i \in 0 .. m |-> IF i = m THEN Posted(g[m - 1], order[m]) ELSE g[i]]
    <3>4. ASSUME NEW i \in 0 .. m
          PROVE  h[i] = IF i = 0 THEN Opening(txs) ELSE Posted(h[i - 1], order[i])
      <4>1. CASE i = m
        <5>1. h[i] = Posted(g[m - 1], order[m]) /\ h[m - 1] = g[m - 1]
          BY <2>2, <2>4, <4>1
        <5> QED
          BY <2>4, <4>1, <5>1
      <4>2. CASE i # m
        <5>1. h[i] = g[i] /\ i \in 0 .. m - 1
          BY <2>2, <4>2
        <5>2. i # 0 => h[i - 1] = g[i - 1]
          BY <2>2, <4>2
        <5> QED
          BY <3>3, <5>1, <5>2
      <4> QED
        BY <4>1, <4>2
    <3>5. Good(m, h)
      <4>1. DOMAIN h = 0 .. m
        OBVIOUS
      <4> HIDE DEF h
      <4> QED BY <3>4, <4>1
    <3> HIDE DEF Good, h
    <3> QED
      BY <3>5
  <2> QED
    BY <2>3, <2>4
<1>2. PICK g : Good(n, g)
  <2> HIDE DEF Good
  <2> QED BY <1>1
<1>3. Good(n, [k \in 0 .. n |-> g[k]])
  BY <1>2
<1>4. \E a : Replayed(txs, a)
  <2> DEFINE a == [k \in 0 .. n |-> g[k]]
  <2>1. \A i \in 0 .. n : a[i] = IF i = 0 THEN Opening(txs) ELSE Posted(a[i - 1], order[i])
    BY <1>3
  <2>2. a = [i \in 0 .. n |-> a[i]]
    OBVIOUS
  <2> HIDE DEF a
  <2>3. a = [k \in 0 .. n |-> IF k = 0 THEN Opening(txs) ELSE Posted(a[k - 1], order[k])]
    BY <2>1, <2>2
  <2> QED
    BY <2>3 DEF Replayed
<1> DEFINE after == CHOOSE a : a = [k \in 0 .. n |-> IF k = 0
                       THEN [oversold |-> FALSE,
                             positions |-> [s \in Securities(txs) |-> NoPosition]]
                       ELSE Posted(a[k - 1], order[k])]
<1>5. Replay(txs) = after[n]
  BY DEF Replay
<1>6. Replayed(txs, after)
  BY <1>4 DEF Replayed, Opening
<1> QED
  BY <1>5, <1>6

(* Rows that differ in no more than their id are replayed alike.           *)
Alike(a, b) ==
    /\ a.side = b.side /\ a.security = b.security /\ a.executed = b.executed
    /\ a.created = b.created /\ a.quantity = b.quantity /\ a.price = b.price /\ a.fee = b.fee

(* The candidate a request checks and the row it writes, which has an id of *)
(* its own, lead to the same positions (portfolio.py create_transaction).  *)
LEMMA SameReplay ==
  ASSUME NEW S, NEW a, NEW b, a \notin S, b \notin S, Alike(a, b),
         Ledger(S \cup {a}), Ledger(S \cup {b})
  PROVE  Replay(S \cup {a}) = Replay(S \cup {b})
<1> DEFINE A == S \cup {a}
           B == S \cup {b}
           n == Cardinality(A)
<1>1. IsFiniteSet(S) /\ n \in Nat /\ Cardinality(B) = n
  <2>1. IsFiniteSet(S)
    BY FS_Subset DEF Ledger
  <2>2. Cardinality(A) = Cardinality(S) + 1 /\ Cardinality(B) = Cardinality(S) + 1
    BY <2>1, FS_AddElement
  <2> QED
    BY <2>1, <2>2, FS_CardinalityType
<1>2. /\ Entered(a) /\ Entered(b)
      /\ \A t \in S : Entered(t) /\ t.created # a.created
  BY DEF Ledger
<1>3. /\ ~ Before(a, a) /\ ~ Before(b, b)
      /\ \A t \in S : (Before(a, t) <=> Before(b, t)) /\ (Before(t, a) <=> Before(t, b))
  BY <1>2 DEF Before, Alike, Entered
<1>4. ASSUME NEW t \in S PROVE Cardinality(Prior(A, t)) = Cardinality(Prior(B, t))
  <2> DEFINE Earlier == Prior(S, t)
  <2>1. IsFiniteSet(Earlier) /\ a \notin Earlier /\ b \notin Earlier
    BY <1>1, FS_Subset DEF Prior
  <2>2. CASE Before(a, t)
    <3>1. Prior(A, t) = Earlier \cup {a} /\ Prior(B, t) = Earlier \cup {b}
      BY <1>3, <2>2 DEF Prior
    <3> HIDE DEF Earlier
    <3>2. /\ Cardinality(Earlier \cup {a}) = Cardinality(Earlier) + 1
          /\ Cardinality(Earlier \cup {b}) = Cardinality(Earlier) + 1
      BY <2>1, FS_AddElement
    <3> QED
      BY <3>1, <3>2
  <2>3. CASE ~ Before(a, t)
    <3>1. Prior(A, t) = Earlier /\ Prior(B, t) = Earlier
      BY <1>3, <2>3 DEF Prior
    <3> QED
      BY <3>1
  <2> QED
    BY <2>2, <2>3
<1>5. Prior(A, a) = Prior(B, b)
  BY <1>3 DEF Prior
<1>6. ASSUME NEW i \in 1 .. n
      PROVE  InOrder(B)[i] = IF InOrder(A)[i] = a THEN b ELSE InOrder(A)[i]
  <2> DEFINE t == InOrder(A)[i]
             u == IF t = a THEN b ELSE t
  <2>1. t \in A /\ Cardinality(Prior(A, t)) = i - 1
    BY InTurn
  <2>2. u \in B /\ Cardinality(Prior(B, u)) = i - 1
    BY <1>4, <1>5, <2>1
  <2> HIDE DEF t, u
  <2>3. InOrder(B)[i] = u
    BY <1>1, <2>2, InTurn
  <2> QED
    BY <2>3 DEF t, u
<1>7. ASSUME NEW acc PROVE Posted(acc, a) = Posted(acc, b)
  BY DEF Posted, Bought, Sold, SoldBasis, Alike
<1>8. Opening(A) = Opening(B)
  <2>1. Securities(A) = Securities(B)
    BY DEF Securities, Alike
  <2> QED
    BY <2>1 DEF Opening
<1>9. PICK x : Replayed(A, x) /\ Replay(A) = x[n]
  BY <1>1, ReplayIs
<1>10. PICK y : Replayed(B, y) /\ Replay(B) = y[n]
  BY <1>1, ReplayIs
<1>11. /\ \A k \in 0 .. n : x[k] = IF k = 0 THEN Opening(A) ELSE Posted(x[k - 1], InOrder(A)[k])
       /\ \A k \in 0 .. n : y[k] = IF k = 0 THEN Opening(B) ELSE Posted(y[k - 1], InOrder(B)[k])
  BY <1>1, <1>9, <1>10 DEF Replayed
<1> DEFINE Bad == {k \in 0 .. n : x[k] # y[k]}
<1>12. Bad = {}
  <2> SUFFICES ASSUME Bad # {} PROVE FALSE
    OBVIOUS
  <2>1. PICK k \in Bad : \A m \in Bad : k <= m
    <3>1. Bad \in SUBSET Nat
      BY <1>1
    <3> HIDE DEF Bad
    <3> QED BY <3>1, LeastOfSome
  <2>2. k \in 0 .. n /\ x[k] # y[k]
    OBVIOUS
  <2>3. k # 0
    BY <1>8, <1>11, <2>2
  <2>4. k \in 1 .. n /\ k - 1 \in 0 .. n /\ ~ (k <= k - 1)
    BY <1>1, <2>2, <2>3
  <2>5. k - 1 \notin Bad
    <3> HIDE DEF Bad
    <3> QED BY <2>1, <2>4
  <2>6. x[k - 1] = y[k - 1]
    BY <2>4, <2>5
  <2>7. x[k] = Posted(x[k - 1], InOrder(A)[k]) /\ y[k] = Posted(y[k - 1], InOrder(B)[k])
    BY <1>11, <2>2, <2>3
  <2>8. Posted(x[k - 1], InOrder(A)[k]) = Posted(x[k - 1], InOrder(B)[k])
    BY <1>6, <1>7, <2>4
  <2> QED
    BY <2>2, <2>6, <2>7, <2>8
<1>13. x[n] = y[n]
  <2>1. n \in 0 .. n
    BY <1>1
  <2> QED BY <1>12, <2>1
<1> QED
  BY <1>9, <1>10, <1>13

(* What a security has gained, counting what is paid for the shares held.  *)
Gain(positions) == [s \in DOMAIN positions |-> positions[s].realized - positions[s].basis]
PaidBy(txs) == [t \in txs |-> CostScale * Paid(t)]

SoundPosition(pos) ==
    /\ pos.quantity \in Nat /\ pos.basis \in Int /\ pos.realized \in Int
    /\ pos.quantity = 0 => pos.basis = 0
Sound(positions) == \A s \in DOMAIN positions : SoundPosition(positions[s])

(* Selling all of a position takes all of its basis.                       *)
LEMMA WholePart ==
  ASSUME NEW x \in Int, NEW n \in Nat, n > 0
  PROVE  (x * n) \div n = x
OBVIOUS

(* What a sale takes out of the basis is a whole number.                   *)
LEMMA PartIsNumber ==
  ASSUME NEW x \in Int, NEW q \in Nat, NEW n \in Nat, n > 0
  PROVE  (x * q) \div n \in Int
<1>1. x * q \in Int
  OBVIOUS
<1> QED
  BY <1>1

(* A transaction that is accepted changes the gain by what it has paid.    *)
LEMMA PostedIs ==
  ASSUME NEW acc, acc = [oversold |-> FALSE, positions |-> acc.positions], Sound(acc.positions),
         NEW t, Entered(t), t.security \in DOMAIN acc.positions, ~ Posted(acc, t).oversold
  PROVE  LET new == Posted(acc, t)
         IN  /\ new = [oversold |-> FALSE, positions |-> new.positions]
             /\ DOMAIN new.positions = DOMAIN acc.positions
             /\ Sound(new.positions)
             /\ \A s \in DOMAIN acc.positions \ {t.security} :
                   Gain(new.positions)[s] = Gain(acc.positions)[s]
             /\ Gain(new.positions)[t.security]
                   = Gain(acc.positions)[t.security] + CostScale * Paid(t)
<1> DEFINE p == acc.positions
           c == t.security
           pos == p[c]
           moved == IF t.side = "BUY" THEN Bought(pos, t) ELSE Sold(pos, t)
           new == Posted(acc, t)
<1>1. t.side = "SELL" => t.quantity <= pos.quantity
  BY DEF Posted, Sound, SoundPosition, Entered
<1>2. new = [oversold |-> FALSE, positions |-> [p EXCEPT ![c] = moved]]
  <2>1. ~ (t.side = "SELL" /\ t.quantity > pos.quantity)
    BY <1>1 DEF Sound, SoundPosition, Entered
  <2>2. acc.oversold = FALSE
    OBVIOUS
  <2>3. new = [acc EXCEPT !.positions[c] = moved]
    BY <2>1, <2>2 DEF Posted
  <2> HIDE DEF moved, new
  <2>4. [acc EXCEPT !.positions[c] = moved] = [acc EXCEPT !.positions = [p EXCEPT ![c] = moved]]
    OBVIOUS
  <2>5. ASSUME NEW r, NEW q, NEW old, old = [oversold |-> FALSE, positions |-> r],
               NEW next, next = [old EXCEPT !.positions = q]
        PROVE  next = [oversold |-> FALSE, positions |-> q]
    BY <2>5
  <2>6. [acc EXCEPT !.positions = [p EXCEPT ![c] = moved]]
           = [oversold |-> FALSE, positions |-> [p EXCEPT ![c] = moved]]
    BY <2>5
  <2> QED
    BY <2>3, <2>4, <2>6
<1>3. /\ pos.quantity \in Nat /\ pos.basis \in Int /\ pos.realized \in Int
      /\ t.quantity \in Nat \ {0} /\ t.price \in Nat /\ t.fee \in Nat
      /\ pos.quantity = 0 => pos.basis = 0
  BY DEF Sound, SoundPosition, Entered
<1>4. SoundPosition(moved) /\ moved.realized - moved.basis = pos.realized - pos.basis + CostScale * Paid(t)
  <2>1. CASE t.side = "BUY"
    BY <1>3, <2>1 DEF Bought, SoundPosition, Paid, CostScale
  <2>2. CASE t.side # "BUY"
    <3> DEFINE taken == SoldBasis(pos, t)
               left == pos.quantity - t.quantity
    <3>1. t.side = "SELL" /\ t.quantity <= pos.quantity
      BY <1>1, <2>2 DEF Entered
    <3>2. taken \in Int /\ left \in Nat
      BY <1>3, <3>1, PartIsNumber DEF SoldBasis
    <3>3. left = 0 => taken = pos.basis
      <4>1. left = 0 => t.quantity = pos.quantity /\ pos.quantity > 0
        BY <1>3, <3>1
      <4> QED
        BY <1>3, <4>1, WholePart DEF SoldBasis
    <3>4. moved = [quantity |-> left,
                   basis |-> IF left = 0 THEN 0 ELSE pos.basis - taken,
                   realized |-> pos.realized + CostScale * (t.price * t.quantity - t.fee) - taken]
      BY <2>2 DEF Sold
    <3>5. Paid(t) = t.price * t.quantity - t.fee /\ t.price * t.quantity \in Int
      BY <1>3, <2>2 DEF Paid
    <3> HIDE DEF taken, left, moved, pos
    <3>6. CASE left = 0
      BY <1>3, <3>2, <3>3, <3>4, <3>5, <3>6 DEF SoundPosition, CostScale
    <3>7. CASE left # 0
      BY <1>3, <3>2, <3>4, <3>5, <3>7 DEF SoundPosition, CostScale
    <3> QED
      BY <3>6, <3>7
  <2> QED
    BY <2>1, <2>2
<1> HIDE DEF moved, new, pos
<1>5. new.positions = [p EXCEPT ![c] = moved]
  BY <1>2
<1>6. /\ DOMAIN new.positions = DOMAIN p /\ new.positions[c] = moved
      /\ \A s \in DOMAIN p \ {c} : new.positions[s] = p[s]
  BY <1>5
<1>7. new = [oversold |-> FALSE, positions |-> new.positions]
  BY <1>2, <1>5
<1>8. Sound(new.positions)
  BY <1>4, <1>6 DEF Sound
<1>9. \A s \in DOMAIN p \ {c} : Gain(new.positions)[s] = Gain(p)[s]
  BY <1>6 DEF Gain
<1>10. Gain(new.positions)[c] = moved.realized - moved.basis /\ Gain(p)[c] = pos.realized - pos.basis
  BY <1>6 DEF Gain, pos
<1> QED
  BY <1>4, <1>6, <1>7, <1>8, <1>9, <1>10 DEF new

(* The accounts of a ledger that can be replayed: the gains are what its   *)
(* transactions have paid.                                                 *)
LEMMA BooksBalance ==
  ASSUME NEW txs, Ledger(txs), Replays(txs)
  PROVE  LET positions == Replay(txs).positions
         IN  /\ DOMAIN positions = Securities(txs)
             /\ Sound(positions)
             /\ SumOver(Gain(positions), Securities(txs)) = SumOver(PaidBy(txs), txs)
<1> DEFINE n == Cardinality(txs)
           order == InOrder(txs)
           S == Securities(txs)
           Upto(k) == {order[i] : i \in 1 .. k}
<1>1. n \in Nat /\ IsFiniteSet(txs)
  BY OneByOne DEF Ledger
<1>2. PICK a : Replayed(txs, a) /\ Replay(txs) = a[n]
  BY <1>1, ReplayIs
<1>3. \A k \in 0 .. n : a[k] = IF k = 0 THEN Opening(txs) ELSE Posted(a[k - 1], order[k])
  BY <1>1, <1>2 DEF Replayed
<1>4. IsFiniteSet(S)
  <2> DEFINE f == [t \in txs |-> t.security]
  <2>1. f \in Surjection(txs, S)
    BY DEF Surjection, Securities
  <2> HIDE DEF f
  <2> QED
    BY <1>1, <2>1, FS_Surjection
<1>5. /\ \A t \in txs : PaidBy(txs)[t] = CostScale * Paid(t) /\ CostScale * Paid(t) \in Int
      /\ \A t \in txs : Entered(t) /\ t.security \in S
  BY DEF Ledger, Entered, PaidBy, Paid, CostScale, Securities
<1> DEFINE Balanced(k) ==
              /\ a[k] = [oversold |-> FALSE, positions |-> a[k].positions]
              /\ DOMAIN a[k].positions = S
              /\ Sound(a[k].positions)
              /\ SumOver(Gain(a[k].positions), S) = SumOver(PaidBy(txs), Upto(k))
           Bad == {k \in 0 .. n : ~ a[k].oversold /\ ~ Balanced(k)}
           Oversold == {m \in 0 .. n : a[n - m].oversold}
<1>6. \A k \in 0 .. n : ~ a[k].oversold
  <2>1. ASSUME NEW k \in 1 .. n, a[k - 1].oversold PROVE a[k].oversold
    <3>1. a[k] = Posted(a[k - 1], order[k])
      BY <1>3
    <3> QED
      BY <2>1, <3>1 DEF Posted
  <2>2. ~ a[n].oversold
    BY <1>2 DEF Replays
  <2> SUFFICES ASSUME Oversold # {} PROVE FALSE
    <3>1. ASSUME NEW k \in 0 .. n, a[k].oversold PROVE n - k \in Oversold
      <4>1. n - k \in 0 .. n /\ n - (n - k) = k
        BY <1>1
      <4> QED
        BY <3>1, <4>1
    <3> QED
      BY <3>1
  <2>3. PICK m \in Oversold : \A l \in Oversold : m <= l
    <3>1. Oversold \in SUBSET Nat
      BY <1>1
    <3> HIDE DEF Oversold
    <3> QED BY <3>1, LeastOfSome
  <2>4. m \in 0 .. n /\ a[n - m].oversold
    OBVIOUS
  <2>5. m # 0
    <3>1. n - 0 = n
      BY <1>1
    <3> QED
      BY <2>2, <2>4, <3>1
  <2>6. /\ n - m + 1 \in 1 .. n /\ (n - m + 1) - 1 = n - m
        /\ m - 1 \in 0 .. n /\ n - (m - 1) = n - m + 1 /\ ~ (m <= m - 1)
    BY <1>1, <2>4, <2>5
  <2>7. a[n - m + 1].oversold
    BY <2>1, <2>4, <2>6
  <2>8. m - 1 \in Oversold
    BY <2>6, <2>7
  <2> QED
    BY <2>3, <2>6, <2>8
<1>7. Bad = {}
  <2> SUFFICES ASSUME Bad # {} PROVE FALSE
    OBVIOUS
  <2>1. PICK k \in Bad : \A m \in Bad : k <= m
    <3>1. Bad \in SUBSET Nat
      BY <1>1
    <3> HIDE DEF Bad
    <3> QED BY <3>1, LeastOfSome
  <2>2. k \in 0 .. n /\ ~ Balanced(k) /\ ~ a[k].oversold
    OBVIOUS
  <2>3. CASE k = 0
    <3>1. a[0] = Opening(txs)
      BY <1>3, <2>2, <2>3
    <3>2. /\ a[0] = [oversold |-> FALSE, positions |-> a[0].positions]
          /\ a[0].positions = [s \in S |-> NoPosition]
      BY <3>1 DEF Opening
    <3>3. Sound(a[0].positions)
      BY <3>2 DEF Sound, SoundPosition, NoPosition
    <3>4. \A s \in S : Gain(a[0].positions)[s] = 0
      BY <3>2 DEF Gain, NoPosition
    <3>5. SumOver(Gain(a[0].positions), S) = 0
      <4>1. SumOver(Gain(a[0].positions), S) = SumOver(Gain(a[0].positions), {})
        BY <1>4, <3>4, SumOfPart
      <4>2. SumOver(Gain(a[0].positions), {}) = 0
        BY <1>4, <3>4, SumOverIs
      <4> QED
        BY <4>1, <4>2
    <3>6. Upto(0) = {}
      OBVIOUS
    <3>7. SumOver(PaidBy(txs), {}) = 0
      BY <1>1, <1>5, SumOverIs
    <3> QED
      BY <2>2, <2>3, <3>2, <3>3, <3>5, <3>6, <3>7
  <2>4. CASE k # 0
    <3> DEFINE old == a[k - 1]
               new == a[k]
               t == order[k]
    <3>1. k \in 1 .. n /\ k - 1 \in 0 .. n /\ ~ (k <= k - 1) /\ k \in Nat
      BY <1>1, <2>2, <2>4
    <3>2. new = Posted(old, t)
      BY <1>3, <2>2, <2>4
    <3>3. Balanced(k - 1)
      <4>1. k - 1 \notin Bad
        <5> HIDE DEF Bad
        <5> QED BY <2>1, <3>1
      <4>2. ~ old.oversold
        BY <1>6, <3>1
      <4> QED
        BY <3>1, <4>1, <4>2
    <3>4. t \in txs /\ \A i \in 1 .. k - 1 : order[i] # t /\ order[i] \in txs
      BY <1>1, <3>1, InTurn
    <3>5. /\ new = [oversold |-> FALSE, positions |-> new.positions]
          /\ DOMAIN new.positions = S
          /\ Sound(new.positions)
          /\ \A s \in S \ {t.security} : Gain(new.positions)[s] = Gain(old.positions)[s]
          /\ Gain(new.positions)[t.security]
                = Gain(old.positions)[t.security] + CostScale * Paid(t)
      <4>1. /\ old = [oversold |-> FALSE, positions |-> old.positions]
            /\ DOMAIN old.positions = S /\ Sound(old.positions)
        BY <3>3
      <4>2. Entered(t) /\ t.security \in S /\ ~ Posted(old, t).oversold
        BY <1>5, <2>2, <3>2, <3>4, SMTT(30)
      <4> HIDE DEF old, new, t
      <4> QED
        BY <3>2, <4>1, <4>2, PostedIs
    <3>6. \A s \in S : Gain(new.positions)[s] \in Int /\ Gain(old.positions)[s] \in Int
      <4>1. DOMAIN old.positions = S /\ Sound(old.positions)
        BY <3>3
      <4> HIDE DEF old, new
      <4> QED
        BY <3>5, <4>1 DEF Gain, Sound, SoundPosition
    <3>7. SumOver(Gain(new.positions), S) = SumOver(Gain(old.positions), S) + CostScale * Paid(t)
      <4> DEFINE f == Gain(old.positions)
                 e == Gain(new.positions)
                 c == t.security
      <4>1. /\ c \in S /\ CostScale * Paid(t) \in Int
            /\ \A s \in S : f[s] \in Int /\ e[s] \in Int
            /\ \A s \in S \ {c} : e[s] = f[s]
            /\ e[c] = f[c] + CostScale * Paid(t)
        BY <1>5, <3>4, <3>5, <3>6
      <4> HIDE DEF f, e, c
      <4>2. SumOver(e, S) = SumOver(f, S) + (e[c] - f[c])
        BY <1>4, <4>1, SumAfter
      <4>3. e[c] - f[c] = CostScale * Paid(t)
        BY <4>1
      <4> QED
        BY <4>2, <4>3 DEF f, e
    <3>8. Upto(k) = Upto(k - 1) \cup {t} /\ t \notin Upto(k - 1) /\ Upto(k) \subseteq txs
      <4>1. 1 .. k = (1 .. k - 1) \cup {k}
        BY <3>1
      <4> QED
        BY <3>4, <4>1
    <3>9. SumOver(PaidBy(txs), Upto(k)) = CostScale * Paid(t) + SumOver(PaidBy(txs), Upto(k - 1))
      <4> DEFINE U == Upto(k)
      <4>1. IsFiniteSet(U) /\ t \in U /\ U \ {t} = Upto(k - 1) /\ U \subseteq txs
        BY <1>1, <3>8, FS_Subset
      <4> HIDE DEF U, t
      <4>2. SumOver(PaidBy(txs), U) = PaidBy(txs)[t] + SumOver(PaidBy(txs), U \ {t})
        BY <1>5, <4>1, SumOverIs
      <4> QED
        BY <1>5, <3>4, <4>1, <4>2 DEF U
    <3>10. SumOver(PaidBy(txs), Upto(k - 1)) \in Int /\ CostScale * Paid(t) \in Int
      <4> DEFINE U == Upto(k - 1)
      <4>1. IsFiniteSet(U) /\ U \subseteq txs
        BY <1>1, <3>8, FS_Subset
      <4> HIDE DEF U
      <4> QED
        BY <1>5, <3>4, <4>1, SumOverIs DEF U
    <3>11. SumOver(Gain(new.positions), S) = SumOver(PaidBy(txs), Upto(k))
      <4>1. SumOver(Gain(old.positions), S) = SumOver(PaidBy(txs), Upto(k - 1))
        BY <3>3
      <4> HIDE DEF old, new, t, Upto
      <4> QED
        BY <3>7, <3>9, <3>10, <4>1
    <3> QED
      BY <2>2, <3>5, <3>11
  <2> QED
    BY <2>3, <2>4
<1>8. Upto(n) = txs
  <2>1. Upto(n) \subseteq txs /\ txs \subseteq Upto(n)
    BY InTurn
  <2> QED
    BY <2>1
<1>9. n \in 0 .. n
  BY <1>1
<1>10. Balanced(n)
  BY <1>6, <1>7, <1>9
<1> QED
  BY <1>2, <1>8, <1>10

(* The summary of a ledger that can be replayed adds up.                   *)
LEMMA AddsUp == ASSUME Ledger(ledger), Replays(ledger) PROVE SummaryAddsUp
<1> DEFINE p == Replay(ledger).positions
           S == Securities(ledger)
           H == {s \in S : p[s].quantity > 0}
           bases == [s \in S |-> p[s].basis]
           reals == [s \in S |-> p[s].realized]
           paid == [t \in ledger |-> Paid(t)]
<1>1. DOMAIN p = S /\ Sound(p) /\ SumOver(Gain(p), S) = SumOver(PaidBy(ledger), ledger)
  BY BooksBalance
<1>2. IsFiniteSet(ledger) /\ \A t \in ledger : Entered(t)
  BY DEF Ledger
<1>3. IsFiniteSet(S) /\ IsFiniteSet(H) /\ H \subseteq S
  <2> DEFINE f == [t \in ledger |-> t.security]
  <2>1. f \in Surjection(ledger, S)
    BY DEF Surjection, Securities
  <2>2. IsFiniteSet(S)
    <3> HIDE DEF f
    <3> QED BY <1>2, <2>1, FS_Surjection
  <2> QED
    BY <2>2, FS_Subset
<1> HIDE DEF p, S
<1>4. \A s \in S : /\ p[s].quantity \in Nat /\ p[s].basis \in Int /\ p[s].realized \in Int
                   /\ p[s].quantity = 0 => p[s].basis = 0
  BY <1>1 DEF Sound, SoundPosition
<1>5. SumOver(Gain(p), S) = SumOver(reals, S) - SumOver(bases, S)
  <2>1. \A s \in S : /\ reals[s] \in Int /\ bases[s] \in Int
                     /\ Gain(p)[s] = reals[s] - bases[s]
    BY <1>1, <1>4 DEF Gain
  <2> HIDE DEF reals, bases
  <2> QED
    BY <1>3, <2>1, SumOfDifferences
<1>6. SumOver(bases, S) = SumOver(bases, H)
  <2>1. /\ \A s \in S : bases[s] \in Int
        /\ \A s \in S \ H : bases[s] = 0
    BY <1>4
  <2> HIDE DEF bases, H
  <2> QED
    BY <1>3, <2>1, SumOfPart
<1>7. SumOver(PaidBy(ledger), ledger) = CostScale * SumOver(paid, ledger)
  <2>1. \A t \in ledger : paid[t] \in Int /\ PaidBy(ledger)[t] = CostScale * paid[t]
    BY <1>2 DEF Entered, Paid, PaidBy
  <2> HIDE DEF paid
  <2> QED
    BY <1>2, <2>1, SumOfScaled DEF CostScale
<1>8. Cash = CostScale * SumOver(paid, ledger)
  <2>1. [t \in ledger |-> paid[t]] = [t \in ledger |-> Paid(t)]
    OBVIOUS
  <2> HIDE DEF paid
  <2> QED
    BY <2>1 DEF Cash, SumOver
<1>9. SumOver(reals, S) \in Int /\ SumOver(bases, H) \in Int
  <2>1. \A s \in S : bases[s] \in Int /\ reals[s] \in Int
    BY <1>4
  <2> HIDE DEF bases, reals, H
  <2> QED
    BY <1>3, <2>1, SumOverIs
<1> DEFINE cost == SumOver(bases, H)
           realized == SumOver(reals, S)
<1>10. realized - cost = Cash
  BY <1>1, <1>5, <1>6, <1>7, <1>8
<1> SUFFICES ASSUME NEW close \in {NoClose, 2}
             PROVE  LET latest == [s \in S |-> [close |-> close, asOf |-> 1, status |-> "FINAL"]]
                        answer == Summary(p, Holdings(p, latest))
                    IN  IF answer.complete
                        THEN /\ answer.realized + answer.unrealized = answer.value + Cash
                             /\ answer.status = "FINAL"
                        ELSE close = NoClose /\ answer.status = "PARTIAL"
  BY DEF SummaryAddsUp, p, S
<1> DEFINE latest == [s \in S |-> [close |-> close, asOf |-> 1, status |-> "FINAL"]]
           h == Holdings(p, latest)
           answer == Summary(p, h)
           worth == [s \in H |-> h[s].value]
<1> SUFFICES IF answer.complete
             THEN /\ answer.realized + answer.unrealized = answer.value + Cash
                  /\ answer.status = "FINAL"
             ELSE close = NoClose /\ answer.status = "PARTIAL"
  OBVIOUS
<1>11. /\ DOMAIN h = H
       /\ \A s \in H : /\ h[s].basis = p[s].basis
                       /\ close = NoClose => /\ h[s].value = NoClose /\ h[s].asOf = NoClose
                                             /\ h[s].status = "UNAVAILABLE"
                       /\ close # NoClose => /\ h[s].value = CostScale * close * p[s].quantity
                                             /\ h[s].asOf = 1 /\ h[s].status = "FINAL"
  <2>1. \A s \in H : latest[s].close = close /\ latest[s].asOf = 1 /\ latest[s].status = "FINAL"
    BY <1>3
  <2>2. {x \in DOMAIN p : p[x].quantity > 0} = H
    BY <1>1
  <2> HIDE DEF latest, H
  <2>3. DOMAIN h = H
    BY <2>2 DEF Holdings
  <2>4. ASSUME NEW s \in H
        PROVE  h[s] = IF close = NoClose
                      THEN [basis |-> p[s].basis, value |-> NoClose, asOf |-> NoClose,
                            status |-> "UNAVAILABLE"]
                      ELSE [basis |-> p[s].basis, value |-> CostScale * close * p[s].quantity,
                            asOf |-> 1, status |-> "FINAL"]
    BY <2>1, <2>2 DEF Holdings
  <2> HIDE DEF h
  <2>5. ASSUME NEW s \in H, close = NoClose
        PROVE  /\ h[s].basis = p[s].basis /\ h[s].value = NoClose /\ h[s].asOf = NoClose
               /\ h[s].status = "UNAVAILABLE"
    <3>1. h[s] = [basis |-> p[s].basis, value |-> NoClose, asOf |-> NoClose,
                  status |-> "UNAVAILABLE"]
      BY <2>4, <2>5
    <3> QED
      BY <3>1
  <2>6. ASSUME NEW s \in H, close # NoClose
        PROVE  /\ h[s].basis = p[s].basis /\ h[s].value = CostScale * close * p[s].quantity
               /\ h[s].asOf = 1 /\ h[s].status = "FINAL"
    <3>1. h[s] = [basis |-> p[s].basis, value |-> CostScale * close * p[s].quantity,
                  asOf |-> 1, status |-> "FINAL"]
      BY <2>4, <2>6
    <3> QED
      BY <3>1
  <2> QED
    BY <2>3, <2>5, <2>6
<1> HIDE DEF h, latest
<1>12. /\ answer.realized = realized
       /\ answer.complete = (\A s \in H : h[s].value # NoClose)
       /\ answer.cost = cost
       /\ answer.value = IF answer.complete THEN SumFunction(worth) ELSE NoClose
       /\ answer.unrealized = IF answer.complete THEN SumFunction(worth) - cost ELSE NoClose
  <2>1. SumFunction([s \in H |-> h[s].basis]) = cost
    <3>1. [s \in H |-> h[s].basis] = [s \in H |-> bases[s]]
      <4>1. \A s \in H : h[s].basis = bases[s]
        BY <1>3, <1>11
      <4> HIDE DEF bases, H
      <4> QED
        BY <4>1
    <3> HIDE DEF bases, H
    <3> QED
      BY <3>1 DEF SumOver
  <2>2. SumFunction([s \in DOMAIN p |-> p[s].realized]) = realized
    <3>1. [s \in DOMAIN p |-> p[s].realized] = [s \in S |-> reals[s]]
      BY <1>1
    <3> HIDE DEF reals
    <3> QED
      BY <3>1 DEF SumOver
  <2> HIDE DEF cost, realized
  <2> QED
    BY <1>11, <2>1, <2>2 DEF Summary
<1>13. CASE close = 2
  <2>1. \A s \in H : h[s].value \in Int /\ h[s].value # NoClose
    <3> SUFFICES ASSUME NEW s \in H PROVE h[s].value \in Int /\ h[s].value # NoClose
      OBVIOUS
    <3>1. h[s].value = CostScale * 2 * p[s].quantity
      BY <1>11, <1>13 DEF NoClose
    <3>2. p[s].quantity \in Nat /\ p[s].quantity > 0
      BY <1>3, <1>4
    <3> QED
      BY <3>1, <3>2 DEF NoClose, CostScale
  <2>2. SumFunction(worth) \in Int
    <3>1. worth = [s \in H |-> worth[s]] /\ \A s \in H : worth[s] \in Int
      BY <2>1
    <3> HIDE DEF worth, H
    <3> QED
      BY <1>3, <3>1, SumOf
  <2>3. answer.complete
    BY <1>12, <2>1
  <2>4. answer.status = "FINAL"
    <3> DEFINE dates == {h[s].asOf : s \in H} \ {NoClose}
               statuses == {h[s].status : s \in H}
    <3>1. dates \subseteq {1} /\ statuses \subseteq {"FINAL"}
      <4>1. \A s \in H : h[s].asOf = 1 /\ h[s].status = "FINAL"
        BY <1>11, <1>13 DEF NoClose
      <4> HIDE DEF H
      <4> QED
        BY <4>1
    <3>2. Cardinality({1}) = 1 /\ Cardinality({"FINAL"}) = 1 /\ IsFiniteSet({1}) /\ IsFiniteSet({"FINAL"})
      BY FS_Singleton
    <3>3. /\ Cardinality(dates) \in Nat /\ Cardinality(dates) <= 1
          /\ Cardinality(statuses) \in Nat /\ Cardinality(statuses) <= 1
      <4> HIDE DEF dates, statuses
      <4>1. /\ IsFiniteSet(dates) /\ Cardinality(dates) <= Cardinality({1})
            /\ IsFiniteSet(statuses) /\ Cardinality(statuses) <= Cardinality({"FINAL"})
        BY <3>1, <3>2, FS_Subset
      <4> QED
        BY <3>2, <4>1, FS_CardinalityType
    <3> HIDE DEF dates, statuses
    <3>4. ~ (Cardinality(dates) > 1) /\ ~ (Cardinality(statuses) > 1) /\ "STALE" \notin statuses
      BY <3>1, <3>3
    <3>5. \A s \in H : h[s].value # NoClose
      BY <2>1
    <3> QED
      BY <1>11, <3>4, <3>5 DEF Summary, dates, statuses
  <2>5. answer.realized + answer.unrealized = answer.value + Cash
    <3>1. /\ answer.realized = realized /\ answer.value = SumFunction(worth)
          /\ answer.unrealized = SumFunction(worth) - cost
      BY <1>12, <2>3
    <3>2. realized \in Int /\ cost \in Int
      BY <1>9
    <3> HIDE DEF answer, realized, cost, worth
    <3> QED
      BY <1>10, <2>2, <3>1, <3>2
  <2> QED
    BY <2>3, <2>4, <2>5
<1>14. CASE close = NoClose
  <2>1. \A s \in H : h[s].value = NoClose /\ h[s].asOf = NoClose /\ h[s].status = "UNAVAILABLE"
    BY <1>11, <1>14
  <2>2. CASE H = {}
    <3>1. answer.complete
      BY <1>12, <2>2
    <3>2. SumFunction(worth) = 0
      <4>1. worth = [s \in H |-> worth[s]] /\ \A s \in H : worth[s] \in Int
        BY <2>2
      <4> HIDE DEF worth
      <4> QED
        BY <1>3, <2>2, <4>1, SumOf
    <3>3. /\ answer.realized = realized /\ answer.value = SumFunction(worth)
          /\ answer.unrealized = SumFunction(worth) - cost
          /\ realized \in Int /\ cost \in Int
      BY <1>9, <1>12, <3>1
    <3>4. answer.realized + answer.unrealized = answer.value + Cash
      <4> HIDE DEF answer, realized, cost, worth
      <4> QED
        BY <1>10, <3>2, <3>3
    <3>5. answer.status = "FINAL"
      <4> DEFINE dates == {h[s].asOf : s \in H} \ {NoClose}
                 statuses == {h[s].status : s \in H}
      <4>1. dates = {} /\ statuses = {}
        BY <2>2
      <4>2. Cardinality({}) = 0
        BY FS_EmptySet
      <4>3. \A s \in H : h[s].value # NoClose
        BY <2>2
      <4> HIDE DEF dates, statuses
      <4>4. ~ (Cardinality(dates) > 1) /\ ~ (Cardinality(statuses) > 1) /\ "STALE" \notin statuses
        BY <4>1, <4>2
      <4> HIDE DEF H
      <4> QED
        BY <1>11, <4>3, <4>4 DEF Summary, dates, statuses
    <3> QED
      BY <3>1, <3>4, <3>5
  <2>3. CASE H # {}
    <3>1. ~ answer.complete
      BY <1>12, <2>1, <2>3
    <3>2. answer.status = "PARTIAL"
      <4>1. {h[s].status : s \in H} = {"UNAVAILABLE"}
        BY <2>1, <2>3
      <4>2. ~ (\A s \in H : h[s].value # NoClose)
        BY <2>1, <2>3
      <4> HIDE DEF H
      <4> QED
        BY <1>11, <4>1, <4>2 DEF Summary
    <3> QED
      BY <1>14, <3>1, <3>2
  <2> QED
    BY <2>2, <2>3
<1> QED
  BY <1>13, <1>14 DEF h

-----------------------------------------------------------------------------
(*****************************************************************************)
(* The ledger while the portfolio API is used alone, for any number of       *)
(* requests: what is checked of a request stays true until it commits, or the *)
(* request is late.                                                          *)
(*****************************************************************************)
(* A request that is about to commit, and what was checked of it if the    *)
(* ledger has not changed since.                                           *)
Pending(what) ==
    /\ what.op = "create" => /\ what = [op |-> "create", trade |-> what.trade, late |-> what.late]
                             /\ what.trade \in Trades
    /\ what.op = "delete" => what = [op |-> "delete", id |-> what.id, late |-> what.late]
Without(id) == {t \in ledger : t.id # id}
Checked(what) ==
    /\ what.op = "create" /\ ~ what.late => Replays(ledger \cup {Candidate(what.trade)})
    /\ what.op = "delete" /\ ~ what.late => Replays(Without(what.id))

(* While the API is used alone and no two of its requests overlap.         *)
Guarded ==
    /\ Ledger(ledger)
    /\ \A t \in ledger : t.created < clock
    /\ \A t, u \in ledger : t.id = u.id => t = u
    /\ Replays(ledger)
    /\ \A r \in Requests : Checked(request[r])
LedgerInv ==
    /\ clock \in Nat
    /\ \A r \in Requests : Pending(request[r])
    /\ causes = {} => Guarded

(* A portfolio without transactions.                                       *)
LEMMA LedgerInitially == DInit /\ PInit => LedgerInv
<1> SUFFICES ASSUME DInit, PInit PROVE LedgerInv
  OBVIOUS
<1>1. ledger = {} /\ clock = 1 /\ \A r \in Requests : request[r] = [op |-> "idle"]
  BY DEF DInit, PInit, Idle
<1>2. Ledger(ledger)
  BY <1>1, FS_EmptySet DEF Ledger
<1>3. Replays(ledger)
  <2>1. Cardinality(ledger) = 0
    BY <1>1, FS_EmptySet
  <2>2. PICK a : Replayed(ledger, a) /\ Replay(ledger) = a[0]
    BY <2>1, ReplayIs
  <2>3. a[0] = Opening(ledger)
    BY <2>1, <2>2 DEF Replayed
  <2> QED
    BY <2>2, <2>3 DEF Opening, Replays
<1> QED
  BY <1>1, <1>2, <1>3 DEF LedgerInv, Guarded, Pending, Checked

(* The candidate of a new transaction is a row written after every other.  *)
LEMMA Enters ==
  ASSUME LedgerInv, Guarded, NEW t \in Trades, NEW id \in Nat,
         NEW row, row = Row(t, id, NoOne, clock)
  PROVE  /\ row \notin ledger /\ Ledger(ledger \cup {row}) /\ row.created = clock /\ row.id = id
<1>1. Entered(row) /\ row.created = clock /\ row.id = id
  BY PortfolioAssumption DEF Entered, Row, LedgerInv
<1>2. \A x \in ledger : x.created # clock
  BY DEF Guarded, LedgerInv, Ledger, Entered
<1>3. IsFiniteSet(ledger \cup {row})
  BY FS_AddElement DEF Guarded, Ledger
<1> HIDE DEF Row
<1> QED
  BY <1>1, <1>2, <1>3 DEF Guarded, Ledger

(* Requests that neither check nor change the ledger.                      *)
LEMMA LedgerStays ==
  ASSUME LedgerInv, UNCHANGED <<ledger, clock, causes>>,
         \A r \in Requests : request'[r] = request[r] \/ request'[r].op \notin {"create", "delete"}
  PROVE  LedgerInv'
<1>1. \A r \in Requests : Pending(request[r])' /\ (Checked(request[r]) => Checked(request[r])')
  BY DEF LedgerInv, Pending, Checked, Without, Candidate, Row
<1> QED
  BY <1>1 DEF LedgerInv, Guarded

(* What a request has written makes every other one late.                  *)
LEMMA OthersAreLate ==
  ASSUME RequestsInv, LedgerInv, NEW r \in Requests, Written(r)
  PROVE  \A x \in Requests : Pending(request[x])' /\ Checked(request[x])'
<1> SUFFICES ASSUME NEW x \in Requests PROVE Pending(request[x])' /\ Checked(request[x])'
  OBVIOUS
<1>1. CASE x = r
  <2>1. request'[x] = [op |-> "idle"]
    BY <1>1 DEF Written, Idle
  <2> QED
    BY <2>1 DEF Pending, Checked
<1>2. CASE x # r
  <2>1. request'[x] = Late(request[x])
    BY <1>2 DEF Written
  <2>2. CASE request[x].op = "create"
    <3>1. ASSUME NEW t, NEW l, NEW old, old = [op |-> "create", trade |-> t, late |-> l],
                 NEW new, new = [old EXCEPT !.late = TRUE]
          PROVE  new = [op |-> "create", trade |-> t, late |-> TRUE]
      BY <3>1
    <3>2. /\ request[x] = [op |-> "create", trade |-> request[x].trade, late |-> request[x].late]
          /\ request[x].trade \in Trades
          /\ request'[x] = [request[x] EXCEPT !.late = TRUE]
      BY <2>1, <2>2 DEF LedgerInv, Pending, Late
    <3>3. request'[x] = [op |-> "create", trade |-> request[x].trade, late |-> TRUE]
      BY <3>1, <3>2
    <3> QED
      BY <3>2, <3>3 DEF Pending, Checked
  <2>3. CASE request[x].op = "delete"
    <3>1. ASSUME NEW t, NEW l, NEW old, old = [op |-> "delete", id |-> t, late |-> l],
                 NEW new, new = [old EXCEPT !.late = TRUE]
          PROVE  new = [op |-> "delete", id |-> t, late |-> TRUE]
      BY <3>1
    <3>2. /\ request[x] = [op |-> "delete", id |-> request[x].id, late |-> request[x].late]
          /\ request'[x] = [request[x] EXCEPT !.late = TRUE]
      BY <2>1, <2>3 DEF LedgerInv, Pending, Late
    <3>3. request'[x] = [op |-> "delete", id |-> request[x].id, late |-> TRUE]
      BY <3>1, <3>2
    <3> QED
      BY <3>3 DEF Pending, Checked
  <2>4. CASE request[x].op \notin {"create", "delete"}
    <3>1. request'[x].op = request[x].op
      BY <2>1, <2>4 DEF Late, RequestsInv
    <3> QED
      BY <2>4, <3>1 DEF Pending, Checked
  <2> QED
    BY <2>2, <2>3, <2>4
<1> QED
  BY <1>1, <1>2

(* A request that has checked what it is about to do.                      *)
LEMMA LedgerBegins ==
  ASSUME RequestsInv, LedgerInv, NEW r \in Requests, CreateBegin(r) \/ DeleteBegin(r)
  PROVE  LedgerInv'
<1>1. CASE CreateBegin(r)
  <2>1. PICK t \in Trades : /\ Replays(ledger \cup {Candidate(t)})
                            /\ Begin(r, [op |-> "create", trade |-> t, late |-> FALSE])
                            /\ UNCHANGED <<ledger, clock, causes>>
    BY <1>1 DEF CreateBegin
  <2> DEFINE new == [op |-> "create", trade |-> t, late |-> FALSE]
  <2>2. request' = [request EXCEPT ![r] = new]
    BY <2>1 DEF Begin
  <2>3. /\ \A x \in Requests \ {r} : request'[x] = request[x]
        /\ request'[r] = new
    BY <2>2 DEF RequestsInv
  <2>4. Pending(new) /\ Checked(new)
    BY <2>1 DEF Pending, Checked
  <2>5. Checked(new) => Checked(request[r])'
    BY <2>1, <2>3 DEF Checked, Candidate, Row
  <2>6. \A x \in Requests \ {r} : Checked(request[x]) => Checked(request[x])'
    BY <2>1, <2>3 DEF Checked, Candidate, Row, Without
  <2>7. \A x \in Requests : Pending(request[x])'
    BY <2>3, <2>4 DEF LedgerInv, Pending
  <2> QED
    BY <2>1, <2>4, <2>5, <2>6, <2>7 DEF LedgerInv, Guarded
<1>2. CASE DeleteBegin(r)
  <2>1. PICK t \in ledger : /\ Replays(ledger \ {t})
                            /\ Begin(r, [op |-> "delete", id |-> t.id, late |-> FALSE])
                            /\ UNCHANGED <<ledger, clock, causes>>
    BY <1>2 DEF DeleteBegin
  <2> DEFINE new == [op |-> "delete", id |-> t.id, late |-> FALSE]
  <2>2. request' = [request EXCEPT ![r] = new]
    BY <2>1 DEF Begin
  <2>3. /\ \A x \in Requests \ {r} : request'[x] = request[x]
        /\ request'[r] = new
    BY <2>2 DEF RequestsInv
  <2>4. Pending(new)
    BY DEF Pending
  <2>5. Guarded => Checked(request[r])'
    <3> SUFFICES ASSUME Guarded PROVE Checked(request[r])'
      OBVIOUS
    <3>1. Without(t.id) = ledger \ {t}
      BY DEF Guarded, Without
    <3>2. Without(t.id)' = ledger \ {t}
      BY <2>1, <3>1 DEF Without
    <3> QED
      BY <2>1, <2>3, <3>2 DEF Checked
  <2>6. \A x \in Requests \ {r} : Checked(request[x]) => Checked(request[x])'
    BY <2>1, <2>3 DEF Checked, Candidate, Row, Without
  <2>7. \A x \in Requests : Pending(request[x])'
    BY <2>3, <2>4 DEF LedgerInv, Pending
  <2> QED
    BY <2>1, <2>5, <2>6, <2>7 DEF LedgerInv, Guarded
<1> QED
  BY <1>1, <1>2

(* A request that commits what it has checked.                             *)
LEMMA LedgerCommits ==
  ASSUME RequestsInv, LedgerInv, NEW r \in Requests, CreateCommit(r) \/ DeleteCommit(r)
  PROVE  LedgerInv'
<1>1. Written(r) /\ causes' = causes \cup Overlapping(request[r])
  BY DEF CreateCommit, DeleteCommit
<1>2. /\ \A x \in Requests : Pending(request[x])' /\ Checked(request[x])'
      /\ clock' = clock + 1 /\ clock' \in Nat /\ clock \in Nat
  BY <1>1, OthersAreLate DEF Written, LedgerInv
<1>3. ASSUME causes' = {} PROVE Guarded /\ ~ request[r].late
  BY <1>1, <1>3 DEF LedgerInv, Overlapping
<1> SUFFICES ASSUME causes' = {}
             PROVE  /\ Ledger(ledger')
                    /\ \A t \in ledger' : t.created < clock + 1
                    /\ \A t, u \in ledger' : t.id = u.id => t = u
                    /\ Replays(ledger')
  BY <1>2 DEF LedgerInv, Guarded
<1>4. Guarded /\ ~ request[r].late /\ Pending(request[r]) /\ Checked(request[r])
  BY <1>3 DEF Guarded, LedgerInv
<1>5. \A t \in ledger : t.created \in Nat /\ t.created < clock
  BY <1>4 DEF Guarded, Ledger, Entered
<1>6. CASE CreateCommit(r)
  <2> DEFINE t == request[r].trade
             a == Candidate(t)
  <2>1. PICK id \in ApiIds \ {u.id : u \in ledger} :
           request[r].op = "create" /\ ledger' = ledger \cup {Row(t, id, NoOne, clock)}
    BY <1>6 DEF CreateCommit
  <2> DEFINE b == Row(t, id, NoOne, clock)
  <2>2. t \in Trades /\ id \in Nat
    BY <1>4, <2>1, PortfolioAssumption DEF Pending
  <2>3. a \notin ledger /\ Ledger(ledger \cup {a})
    <3>1. 0 \in Nat
      OBVIOUS
    <3> QED
      BY <1>4, <2>2, <3>1, Enters DEF Candidate
  <2>4. b \notin ledger /\ Ledger(ledger \cup {b}) /\ b.created = clock /\ b.id = id
    <3>1. b = Row(t, id, NoOne, clock)
      OBVIOUS
    <3> HIDE DEF b, t
    <3> QED
      BY <1>4, <2>2, <3>1, Enters
  <2>5. Alike(a, b)
    BY DEF Alike, Candidate, Row
  <2>6. Replay(ledger \cup {a}) = Replay(ledger \cup {b})
    <3> HIDE DEF a, b
    <3> QED
      BY <2>3, <2>4, <2>5, SameReplay
  <2>7. Replays(ledger \cup {a})
    BY <1>4, <2>1 DEF Checked
  <2>8. Replays(ledger \cup {b})
    <3> HIDE DEF a, b
    <3> QED
      BY <2>6, <2>7 DEF Replays
  <2>9. ledger' = ledger \cup {b}
    BY <2>1
  <2> HIDE DEF a, b
  <2>10. \A u \in ledger' : u.created < clock + 1
    BY <1>2, <1>5, <2>4, <2>9
  <2>11. \A u, v \in ledger' : u.id = v.id => u = v
    BY <1>4, <2>1, <2>4, <2>9 DEF Guarded
  <2> QED
    BY <2>4, <2>8, <2>9, <2>10, <2>11
<1>7. CASE DeleteCommit(r)
  <2>1. request[r].op = "delete" /\ ledger' = Without(request[r].id)
    BY <1>7 DEF DeleteCommit, Without
  <2>2. ledger' \subseteq ledger
    BY <2>1 DEF Without
  <2>3. Replays(ledger')
    BY <1>4, <2>1 DEF Checked
  <2>4. Ledger(ledger')
    BY <1>4, <2>2, FS_Subset DEF Guarded, Ledger
  <2>5. \A u \in ledger' : u.created < clock + 1
    BY <1>2, <1>5, <2>2
  <2> QED
    BY <1>4, <2>2, <2>3, <2>4, <2>5 DEF Guarded
<1> QED
  BY <1>6, <1>7

(* A step of any user of the data, of the API or not.                      *)
LEMMA LedgerStep ==
  ASSUME RequestsInv, LedgerInv, DataNext PROVE LedgerInv'
<1>1. ASSUME NEW r \in Requests, NEW what, Begin(r, what), what.op \notin {"create", "delete"}
      PROVE  \A x \in Requests : request'[x] = request[x] \/ request'[x].op \notin {"create", "delete"}
  BY <1>1 DEF Begin, RequestsInv
<1>2. CASE ApiNext
  BY <1>2, LedgerBegins, LedgerCommits DEF ApiNext
<1>3. ASSUME NEW k \in Tokens, Preview(k) PROVE LedgerInv'
  BY <1>3, LedgerStays DEF Preview
<1>4. ASSUME NEW r \in Requests, ApplyBegin(r) PROVE LedgerInv'
  <2>1. PICK k \in Tokens : Begin(r, Apply(k, Greatest(Owner)))
    BY <1>4 DEF ApplyBegin
  <2>2. Apply(k, Greatest(Owner)).op = "apply"
    BY DEF Apply
  <2>3. UNCHANGED <<ledger, clock, causes>>
    BY <1>4 DEF ApplyBegin
  <2> QED
    BY <1>1, <2>1, <2>2, <2>3, LedgerStays
<1>5. ASSUME NEW r \in Requests, ApplyCommit(r) PROVE LedgerInv'
  <2>1. CASE UNCHANGED <<ledger, changes, causes, clock>>
    <3>1. request' = [request EXCEPT ![r] = Idle] \/ Written(r)
      BY <1>5 DEF ApplyCommit
    <3>2. ~ Written(r)
      BY <2>1 DEF Written, LedgerInv
    <3>3. \A x \in Requests : request'[x] = request[x] \/ request'[x].op \notin {"create", "delete"}
      BY <3>1, <3>2 DEF RequestsInv, Idle
    <3> QED
      BY <2>1, <3>3, LedgerStays
  <2>2. CASE ~ UNCHANGED <<ledger, changes, causes, clock>>
    <3>1. Written(r) /\ causes' # {}
      BY <1>5, <2>2 DEF ApplyCommit
    <3> QED
      BY <3>1, OthersAreLate DEF LedgerInv, Written
  <2> QED
    BY <2>1, <2>2
<1>6. CASE PushNext /\ UNCHANGED <<book, lists>>
  BY <1>6, LedgerStays DEF PushNext, book
<1>7. CASE ListNext /\ UNCHANGED book
  <2>1. UNCHANGED <<ledger, clock, causes>>
    BY <1>7 DEF book
  <2>2. \A x \in Requests : request'[x] = request[x] \/ request'[x].op \notin {"create", "delete"}
    <3>1. CASE CreateGroup \/ RenameGroup \/ DeleteGroup \/ RemoveItem \/ ListPush
      BY <3>1 DEF CreateGroup, RenameGroup, DeleteGroup, RemoveItem, ListPush, AtOnce
    <3>2. ASSUME NEW r \in Requests, AddBegin(r)
          PROVE  \A x \in Requests : request'[x] = request[x] \/ request'[x].op \notin {"create", "delete"}
      <4>1. PICK what : Begin(r, what) /\ what.op = "add"
        BY <3>2 DEF AddBegin
      <4> QED
        BY <1>1, <4>1
    <3>3. ASSUME NEW r \in Requests, ImportBegin(r)
          PROVE  \A x \in Requests : request'[x] = request[x] \/ request'[x].op \notin {"create", "delete"}
      <4>1. PICK what : Begin(r, what) /\ what.op = "import"
        BY <3>3 DEF ImportBegin
      <4> QED
        BY <1>1, <4>1
    <3>4. ASSUME NEW r \in Requests, AddCommit(r) \/ ImportCommit(r)
          PROVE  \A x \in Requests : request'[x] = request[x] \/ request'[x].op \notin {"create", "delete"}
      <4>1. Done(r)
        BY <3>4, ImportCommitted DEF AddCommit
      <4> QED
        BY <4>1 DEF Done, RequestsInv, Idle
    <3> QED
      BY <1>7, <3>1, <3>2, <3>3, <3>4 DEF ListNext
  <2> QED
    BY <2>1, <2>2, LedgerStays
<1> QED
  BY <1>2, <1>3, <1>4, <1>5, <1>6, <1>7 DEF DataNext, ImportNext

(* While the portfolio API is used alone and no two of its requests        *)
(* overlap, no two transactions are written at the same time or under one  *)
(* id, the ledger can be replayed, and so can what a request is about to   *)
(* make of it (portfolio.py create_transaction, delete_transaction).       *)
THEOREM LedgerInvariant == DataSpec => []LedgerInv
<1>1. DataInv /\ LedgerInv /\ [DataNext]_dvars => LedgerInv'
  <2> SUFFICES ASSUME DataInv, LedgerInv, [DataNext]_dvars PROVE LedgerInv'
    OBVIOUS
  <2>1. CASE DataNext
    BY <2>1, LedgerStep DEF DataInv
  <2>2. CASE UNCHANGED dvars
    BY <2>2, LedgerStays DEF dvars, book
  <2> QED
    BY <2>1, <2>2
<1>2. DInit /\ PInit /\ WInit => LedgerInv
  BY LedgerInitially
<1> QED
  BY <1>1, <1>2, DataInvariant, PTL DEF DataSpec

(* Whatever is entered out of order or deleted: positions, holdings and    *)
(* summary answer, and gains realized and not are what the shares held are *)
(* worth and the cash they have brought (portfolio.py replay, summary).    *)
THEOREM LedgerReplays == DataSpec => []GuardedLedgerReplays
<1>1. LedgerInv => GuardedLedgerReplays
  BY AddsUp DEF LedgerInv, Guarded, GuardedLedgerReplays
<1> QED
  BY <1>1, LedgerInvariant, PTL

-----------------------------------------------------------------------------
(*****************************************************************************)
(* The realtime client of a phone: its screen, its timers and its sockets,   *)
(* each a thread. The invariant says which socket is alive, who is on the    *)
(* way to connecting, and that the socket in use serves what the owners are  *)
(* subscribed to.                                                            *)
(*****************************************************************************)
StreamSpec == SInit /\ [][StreamNext]_stream

Socket == [phase : {"opening", "opened", "open", "failing", "failed"}, serves : SUBSET Streams]

(* What a thread is about to do, when n sockets have been opened.          *)
Connecting(streams, after, n) ==
    [step : {"connect", "open"}, stream : streams, then : after]
    \cup [step : {"assign"}, stream : streams, then : after, new : 1 .. n]
ScreenSteps(n) ==
    {AtRest} \cup Connecting(Streams, {"none", "subscribe"}, n)
    \cup [step : {"subscribe"}, stream : Streams, then : {"none", "connect"}]
TimerSteps(n) == {AtRest} \cup Connecting({"none"}, {"none"}, n)

ClientTypeOK ==
    /\ owned \subseteq Owners \X Streams /\ subscribed \subseteq Streams
    /\ refs \in [Streams -> Nat] /\ wants \in Nat /\ crossed \in BOOLEAN
    /\ link \in {"DISCONNECTED", "CONNECTING", "CONNECTED", "UNAVAILABLE", "RECONNECTING"}
    /\ sockets \in Seq(Socket) /\ socket \in 0 .. Len(sockets)
    /\ at = [t \in Threads |-> at[t]]
    /\ at[Screen] \in ScreenSteps(Len(sockets))
    /\ \A t \in Timers : at[t] \in TimerSteps(Len(sockets))

(* The counts are those of the owners, and what is counted is subscribed   *)
(* or about to be.                                                         *)
OwnersOf(s) == {o \in Owners : <<o, s>> \in owned}
Wants(s) ==
    /\ at[Screen] # AtRest /\ at[Screen].stream = s
    /\ at[Screen].step = "subscribe" \/ at[Screen].then = "subscribe"
Counted ==
    \A s \in Streams :
       /\ refs[s] = Cardinality(OwnersOf(s))
       /\ refs[s] > 0 <=> s \in subscribed \/ Wants(s)
       /\ refs[s] > 0 => wants > 0

(* The state of the link is that of the one socket that is alive.          *)
LinkIsTheSockets ==
    /\ \A m, n \in DOMAIN sockets : Alive(m) /\ Alive(n) => m = n
    /\ link = "CONNECTING" <=> \E n \in DOMAIN sockets : sockets[n].phase = "opening"
    /\ link = "CONNECTED" <=> \E n \in DOMAIN sockets : sockets[n].phase \in {"opened", "open"}

(* Whoever was asked to connect has, or something is on its way.           *)
Driven ==
    wants > 0 =>
       \/ link \in {"CONNECTED", "CONNECTING"}
       \/ \E t \in Threads : at[t].step \in {"connect", "open"}
       \/ at[Screen].step = "subscribe" /\ at[Screen].then = "connect"
       \/ \E n \in DOMAIN sockets : sockets[n].phase = "failing"

(* The socket in use serves what is subscribed, all of it once it has been *)
(* told again; one that is not yet in use serves nothing.                  *)
Served ==
    \A n \in DOMAIN sockets :
       /\ sockets[n].phase = "opening" => sockets[n].serves = {}
       /\ sockets[n].phase = "opened" =>
             IF socket = n THEN sockets[n].serves \subseteq subscribed ELSE sockets[n].serves = {}
       /\ sockets[n].phase = "open" => socket = n /\ sockets[n].serves = subscribed

ClientInv ==
    /\ ClientTypeOK
    /\ Counted
    /\ ~crossed => LinkIsTheSockets /\ Driven /\ Served

-----------------------------------------------------------------------------
LEMMA Shapes ==
    ASSUME NEW n \in Nat, NEW a
    PROVE  /\ a \in ScreenSteps(n) =>
                 /\ a.step \in {"none", "connect", "open", "assign", "subscribe"}
                 /\ a = AtRest <=> a.step = "none"
                 /\ a.step # "none" =>
                       /\ a.stream \in Streams
                       /\ a.then \in {"none", "subscribe", "connect"}
                       /\ a.then = "connect" => a.step = "subscribe"
                       /\ a.step = "subscribe" => a.then # "subscribe"
                       /\ a.step = "assign" => a.new \in 1 .. n
           /\ a \in TimerSteps(n) =>
                 /\ a.step \in {"none", "connect", "open", "assign"}
                 /\ a = AtRest <=> a.step = "none"
                 /\ a.step # "none" => a.stream = "none" /\ a.then = "none"
                 /\ a.step = "assign" => a.new \in 1 .. n
BY DEF ScreenSteps, TimerSteps, Connecting, AtRest

LEMMA Longer ==
    ASSUME NEW n \in Nat
    PROVE  ScreenSteps(n) \subseteq ScreenSteps(n + 1) /\ TimerSteps(n) \subseteq TimerSteps(n + 1)
<1>1. 1 .. n \subseteq 1 .. (n + 1)
  OBVIOUS
<1> QED
  BY <1>1 DEF ScreenSteps, TimerSteps, Connecting

LEMMA ThreadsAre == Threads = {Screen} \cup Timers /\ Screen \notin Timers
BY RealtimeClientAssumption DEF Threads, Screen, Timers

(* What a thread does next.                                                *)
LEMMA Continued ==
    ASSUME ClientTypeOK, NEW t \in Threads, at[t].step \in {"connect", "assign", "subscribe"}
    PROVE  /\ Continue(t) = [u \in Threads |-> Continue(t)[u]]
           /\ \A u \in Threads : u # t => Continue(t)[u] = at[u]
           /\ Continue(t)[t] = IF at[t].then = "none" THEN AtRest
                               ELSE [step |-> at[t].then, stream |-> at[t].stream, then |-> "none"]
           /\ t = Screen => Continue(t)[t] \in ScreenSteps(Len(sockets))
           /\ t # Screen => Continue(t)[t] = AtRest
<1>0. Len(sockets) \in Nat /\ DOMAIN at = Threads /\ at = [u \in Threads |-> at[u]]
  BY DEF ClientTypeOK
<1>1. /\ Continue(t) = [u \in Threads |-> Continue(t)[u]]
      /\ \A u \in Threads : u # t => Continue(t)[u] = at[u]
      /\ Continue(t)[t] = IF at[t].then = "none" THEN AtRest
                          ELSE [step |-> at[t].then, stream |-> at[t].stream, then |-> "none"]
  BY <1>0 DEF Continue
<1>2. ASSUME t = Screen PROVE Continue(t)[t] \in ScreenSteps(Len(sockets))
  <2>1. at[t] \in ScreenSteps(Len(sockets))
    BY <1>2 DEF ClientTypeOK
  <2>2. at[t].stream \in Streams /\ at[t].then \in {"none", "subscribe", "connect"}
    BY <1>0, <2>1, Shapes
  <2> QED
    BY <1>1, <2>2 DEF ScreenSteps, Connecting
<1>3. ASSUME t # Screen PROVE Continue(t)[t] = AtRest
  <2>1. at[t] \in TimerSteps(Len(sockets))
    BY <1>3, ThreadsAre DEF ClientTypeOK
  <2> QED
    BY <1>0, <1>1, <2>1, Shapes
<1> QED
  BY <1>1, <1>2, <1>3

(* What a message changes.                                                 *)
LEMMA SentIs ==
    ASSUME ClientTypeOK, NEW added \in SUBSET Streams, NEW ended \in SUBSET Streams
    PROVE  /\ Sent(added, ended) \in Seq(Socket) /\ Len(Sent(added, ended)) = Len(sockets)
           /\ \A n \in DOMAIN sockets :
                 /\ Sent(added, ended)[n].phase = sockets[n].phase
                 /\ Sent(added, ended)[n].serves =
                       IF Alive(socket) /\ n = socket THEN (sockets[n].serves \cup added) \ ended
                       ELSE sockets[n].serves
<1>1. sockets \in [1 .. Len(sockets) -> Socket] /\ Len(sockets) \in Nat
      /\ DOMAIN sockets = 1 .. Len(sockets)
  BY DEF ClientTypeOK
<1>2. CASE Alive(socket)
  <2> DEFINE new == [sockets EXCEPT ![socket].serves = (@ \cup added) \ ended]
  <2>1. Sent(added, ended) = new
    BY <1>2 DEF Sent
  <2>2. socket \in 1 .. Len(sockets)
    BY <1>2 DEF ClientTypeOK, Alive, NoSocket
  <2>3. sockets[socket] \in Socket
    BY <1>1, <2>2
  <2>4. new \in [1 .. Len(sockets) -> Socket]
    BY <1>1, <2>2, <2>3 DEF Socket
  <2>5. new \in Seq(Socket) /\ Len(new) = Len(sockets)
    BY <1>1, <2>4
  <2>6. \A n \in DOMAIN sockets :
           /\ new[n].phase = sockets[n].phase
           /\ new[n].serves = IF n = socket THEN (sockets[n].serves \cup added) \ ended
                              ELSE sockets[n].serves
    BY <1>1, <2>2, <2>3 DEF Socket
  <2> QED
    BY <1>2, <2>1, <2>5, <2>6
<1>3. CASE ~Alive(socket)
  BY <1>3 DEF Sent, ClientTypeOK
<1> QED
  BY <1>2, <1>3

(* A socket in another state.                                              *)
LEMMA SocketSet ==
    ASSUME NEW S \in Seq(Socket), NEW n \in DOMAIN S, NEW e \in Socket,
           NEW T, T = [S EXCEPT ![n] = e]
    PROVE  /\ T \in Seq(Socket) /\ Len(T) = Len(S) /\ DOMAIN T = DOMAIN S
           /\ \A m \in DOMAIN S : m # n => T[m] = S[m]
           /\ T[n] = e
<1>1. S \in [1 .. Len(S) -> Socket] /\ Len(S) \in Nat /\ DOMAIN S = 1 .. Len(S)
  OBVIOUS
<1>2. T \in [1 .. Len(S) -> Socket]
  BY <1>1
<1>3. T \in Seq(Socket) /\ Len(T) = Len(S) /\ DOMAIN T = DOMAIN S
  BY <1>1, <1>2
<1> QED
  BY <1>1, <1>3

LEMMA SocketTurns ==
    ASSUME NEW S \in Seq(Socket), NEW n \in DOMAIN S,
           NEW p \in {"opening", "opened", "open", "failing", "failed"},
           NEW T, T = [S EXCEPT ![n].phase = p]
    PROVE  /\ T \in Seq(Socket) /\ Len(T) = Len(S) /\ DOMAIN T = DOMAIN S
           /\ \A m \in DOMAIN S : m # n => T[m] = S[m]
           /\ T[n].phase = p /\ T[n].serves = S[n].serves
<1> DEFINE e == [S[n] EXCEPT !.phase = p]
<1>1. S[n] \in Socket
  OBVIOUS
<1>2. e \in Socket /\ e.phase = p /\ e.serves = S[n].serves
  BY <1>1 DEF Socket
<1>3. T = [S EXCEPT ![n] = e]
  OBVIOUS
<1> HIDE DEF e
<1>4. /\ T \in Seq(Socket) /\ Len(T) = Len(S) /\ DOMAIN T = DOMAIN S
      /\ \A m \in DOMAIN S : m # n => T[m] = S[m]
      /\ T[n] = e
  <2>1. e \in Socket
    BY <1>2
  <2> QED
    BY <2>1, <1>3, SocketSet
<1> QED
  BY <1>2, <1>4

LEMMA SocketsAre ==
    ASSUME ClientTypeOK
    PROVE  /\ Len(sockets) \in Nat /\ DOMAIN sockets = 1 .. Len(sockets)
           /\ \A n \in DOMAIN sockets :
                 /\ sockets[n] \in Socket /\ n # NoSocket
                 /\ sockets[n].phase \in {"opening", "opened", "open", "failing", "failed"}
                 /\ sockets[n].serves \subseteq Streams
<1>1. sockets \in [1 .. Len(sockets) -> Socket] /\ Len(sockets) \in Nat
      /\ DOMAIN sockets = 1 .. Len(sockets)
  BY DEF ClientTypeOK
<1> QED
  BY <1>1 DEF Socket, NoSocket

-----------------------------------------------------------------------------
(* Who wants a stream is counted.                                          *)
LEMMA OwnersCount ==
    ASSUME ClientTypeOK, NEW s \in Streams
    PROVE  IsFiniteSet(OwnersOf(s)) /\ Cardinality(OwnersOf(s)) \in Nat
<1>1. OwnersOf(s) \subseteq Owners
  BY DEF OwnersOf
<1> QED
  BY <1>1, RealtimeClientAssumption, FS_Subset, FS_CardinalityType

LEMMA AcquireStep ==
    ASSUME ClientInv, NEW o \in Owners, NEW s \in Streams, Acquire(o, s)
    PROVE  ClientInv'
<1> USE DEF ClientInv
<1>0. ClientTypeOK /\ Counted /\ Len(sockets) \in Nat
  BY SocketsAre
<1> DEFINE next == IF refs[s] > 0 THEN AtRest
          ELSE IF o \in ListOwners THEN [step |-> "subscribe", stream |-> s, then |-> "connect"]
          ELSE [step |-> "connect", stream |-> s, then |-> "subscribe"]
<1>1. /\ at' = [u \in Threads |-> at'[u]] /\ at'[Screen] = next
      /\ \A u \in Threads : u # Screen => at'[u] = at[u]
  BY ThreadsAre DEF Acquire, ClientTypeOK
<1>2. next \in ScreenSteps(Len(sockets))
  BY DEF ScreenSteps, Connecting
<1>3. ClientTypeOK'
  <2>1. refs' \in [Streams -> Nat] /\ wants' \in Nat /\ owned' \subseteq Owners \X Streams
    BY DEF Acquire, ClientTypeOK
  <2> HIDE DEF next
  <2> QED
    BY <1>1, <1>2, <2>1, ThreadsAre DEF Acquire, ClientTypeOK
<1>4. ASSUME NEW u \in Streams
      PROVE  /\ refs'[u] = Cardinality(OwnersOf(u)')
             /\ refs'[u] > 0 <=> u \in subscribed' \/ Wants(u)'
             /\ refs'[u] > 0 => wants' > 0
  <2>1. at[Screen] = AtRest /\ ~Wants(u)
    BY DEF Acquire, Wants
  <2>2. refs[u] = Cardinality(OwnersOf(u)) /\ (refs[u] > 0 <=> u \in subscribed)
        /\ (refs[u] > 0 => wants > 0) /\ refs[u] \in Nat /\ wants \in Nat
    BY <2>1 DEF Counted, ClientTypeOK
  <2>3. IsFiniteSet(OwnersOf(u)) /\ Cardinality(OwnersOf(u)) \in Nat
    BY OwnersCount
  <2>4. CASE u = s
    <3>1. OwnersOf(u)' = OwnersOf(u) \cup {o} /\ o \notin OwnersOf(u)
      BY <2>4 DEF Acquire, OwnersOf
    <3>2. refs'[u] = refs[u] + 1 /\ wants' = wants + 1 /\ subscribed' = subscribed
      BY <2>4 DEF Acquire, ClientTypeOK
    <3>3. Cardinality(OwnersOf(u)') = Cardinality(OwnersOf(u)) + 1
      BY <2>3, <3>1, FS_AddElement
    <3>4. ~(refs[u] > 0) => Wants(u)'
      BY <1>1, <2>4 DEF Wants, AtRest
    <3> QED
      BY <2>2, <3>2, <3>3, <3>4
  <2>5. CASE u # s
    <3>1. OwnersOf(u)' = OwnersOf(u)
      BY <2>5 DEF Acquire, OwnersOf
    <3>2. refs'[u] = refs[u] /\ wants' = wants + 1 /\ subscribed' = subscribed
      BY <2>5 DEF Acquire, ClientTypeOK
    <3>3. ~Wants(u)'
      BY <1>1, <2>5 DEF Wants, AtRest
    <3> QED
      BY <2>2, <3>1, <3>2, <3>3
  <2> QED
    BY <2>4, <2>5
<1>5. ASSUME ~crossed' PROVE (LinkIsTheSockets /\ Driven /\ Served)'
  <2>1. LinkIsTheSockets /\ Driven /\ Served
        /\ UNCHANGED <<link, sockets, socket, subscribed>>
    BY <1>5 DEF Acquire
  <2>2. LinkIsTheSockets' /\ Served'
    BY <2>1 DEF LinkIsTheSockets, Served, Alive
  <2>3. Driven'
    <3>1. CASE refs[s] > 0
      <4>1. wants > 0
        BY <1>0, <3>1 DEF Counted
      <4>2. \A u \in Threads : at'[u] = at[u]
        BY <1>1, <3>1 DEF Acquire
      <4> QED
        BY <2>1, <4>1, <4>2, ThreadsAre DEF Driven
    <3>2. CASE ~(refs[s] > 0)
      BY <1>1, <3>2, ThreadsAre DEF Driven
    <3> QED
      BY <3>1, <3>2
  <2> QED
    BY <2>2, <2>3
<1> QED
  BY <1>3, <1>4, <1>5 DEF Counted

LEMMA SubscribeStep ==
    ASSUME ClientInv, ~crossed, Subscribe
    PROVE  ClientInv'
<1> USE DEF ClientInv
<1>0. /\ ClientTypeOK /\ Counted /\ LinkIsTheSockets /\ Driven /\ Served
      /\ Screen \in Threads /\ at[Screen].step = "subscribe" /\ Len(sockets) \in Nat
  BY ThreadsAre, SocketsAre DEF Subscribe
<1> DEFINE s == at[Screen].stream
<1>1. /\ s \in Streams /\ at[Screen].then \in {"none", "connect"} /\ at[Screen] # AtRest
      /\ at' = Continue(Screen) /\ subscribed' = subscribed \cup {s}
      /\ UNCHANGED <<owned, refs, link, socket, wants, failures, crossed>>
  BY <1>0, Shapes DEF Subscribe, ClientTypeOK
<1>2. /\ at' = [u \in Threads |-> at'[u]] /\ at'[Screen] \in ScreenSteps(Len(sockets))
      /\ \A u \in Threads : u # Screen => at'[u] = at[u]
      /\ at'[Screen] = IF at[Screen].then = "none" THEN AtRest
                       ELSE [step |-> at[Screen].then, stream |-> s, then |-> "none"]
  BY <1>0, <1>1, Continued
<1>3. /\ sockets' \in Seq(Socket) /\ Len(sockets') = Len(sockets) /\ DOMAIN sockets' = DOMAIN sockets
      /\ \A n \in DOMAIN sockets :
            /\ sockets'[n].phase = sockets[n].phase
            /\ sockets'[n].serves = IF link = "CONNECTED" /\ Alive(socket) /\ n = socket
                                    THEN sockets[n].serves \cup {s} ELSE sockets[n].serves
  <2>1. {s} \in SUBSET Streams /\ {} \in SUBSET Streams
    BY <1>1
  <2>2. sockets' = IF link = "CONNECTED" THEN Sent({s}, {}) ELSE sockets
    BY DEF Subscribe
  <2>3. /\ Sent({s}, {}) \in Seq(Socket) /\ Len(Sent({s}, {})) = Len(sockets)
        /\ \A n \in DOMAIN sockets :
              /\ Sent({s}, {})[n].phase = sockets[n].phase
              /\ Sent({s}, {})[n].serves =
                    IF Alive(socket) /\ n = socket THEN (sockets[n].serves \cup {s}) \ {}
                    ELSE sockets[n].serves
    BY <1>0, <2>1, SentIs
  <2> HIDE DEF s
  <2>4. sockets \in Seq(Socket) /\ DOMAIN sockets = 1 .. Len(sockets)
    BY <1>0, SocketsAre DEF ClientTypeOK
  <2>5. CASE link = "CONNECTED"
    <3>1. sockets' = Sent({s}, {})
      BY <2>2, <2>5
    <3>2. sockets' \in Seq(Socket) /\ Len(sockets') = Len(sockets)
      BY <2>3, <3>1
    <3>3. DOMAIN sockets' = DOMAIN sockets
      BY <2>4, <3>2
    <3> QED
      BY <2>3, <2>5, <3>1, <3>2, <3>3
  <2>6. CASE link # "CONNECTED"
    BY <2>2, <2>4, <2>6
  <2> QED
    BY <2>5, <2>6
<1>4. ClientTypeOK'
  BY <1>0, <1>1, <1>2, <1>3, ThreadsAre DEF ClientTypeOK
<1>5. Counted'
  <2> SUFFICES ASSUME NEW u \in Streams
               PROVE  /\ refs'[u] = Cardinality(OwnersOf(u)')
                      /\ refs'[u] > 0 <=> u \in subscribed' \/ Wants(u)'
                      /\ refs'[u] > 0 => wants' > 0
    BY DEF Counted
  <2>1. OwnersOf(u)' = OwnersOf(u)
    BY <1>1 DEF OwnersOf
  <2>2. Wants(u) <=> u = s
    BY <1>0, <1>1 DEF Wants
  <2>3. ~Wants(u)'
    BY <1>1, <1>2 DEF Wants, AtRest
  <2> QED
    BY <1>0, <1>1, <2>1, <2>2, <2>3 DEF Counted
<1>6. LinkIsTheSockets'
  BY <1>0, <1>1, <1>3 DEF LinkIsTheSockets, Alive
<1>7. Driven'
  <2>1. CASE at[Screen].then = "connect"
    <3>1. at'[Screen].step = "connect"
      BY <1>2, <2>1
    <3> QED
      BY <1>0, <3>1 DEF Driven
  <2>2. CASE at[Screen].then = "none"
    <3>1. wants > 0 => \/ link \in {"CONNECTED", "CONNECTING"}
                       \/ \E t \in Threads : t # Screen /\ at[t].step \in {"connect", "open"}
                       \/ \E n \in DOMAIN sockets : sockets[n].phase = "failing"
      BY <1>0, <2>2 DEF Driven
    <3>2. wants' > 0 => \/ link' \in {"CONNECTED", "CONNECTING"}
                        \/ \E t \in Threads : at'[t].step \in {"connect", "open"}
                        \/ \E n \in DOMAIN sockets' : sockets'[n].phase = "failing"
      BY <1>1, <1>2, <1>3, <3>1
    <3> QED
      BY <3>2 DEF Driven
  <2> QED
    BY <1>1, <2>1, <2>2
<1>8. Served'
  <2> SUFFICES ASSUME NEW n \in DOMAIN sockets
               PROVE  /\ sockets'[n].phase = "opening" => sockets'[n].serves = {}
                      /\ sockets'[n].phase = "opened" =>
                            IF socket' = n THEN sockets'[n].serves \subseteq subscribed'
                            ELSE sockets'[n].serves = {}
                      /\ sockets'[n].phase = "open" =>
                            socket' = n /\ sockets'[n].serves = subscribed'
    BY <1>3 DEF Served
  <2>1. n # NoSocket
    BY <1>0, SocketsAre
  <2>2. sockets[n].phase \in {"opened", "open"} => link = "CONNECTED" /\ Alive(n)
    BY <1>0, <2>1 DEF LinkIsTheSockets, Alive
  <2>3. sockets[n].phase = "opening" => link = "CONNECTING"
    BY <1>0 DEF LinkIsTheSockets
  <2> QED
    BY <1>0, <1>1, <1>3, <2>2, <2>3 DEF Served
<1> QED
  BY <1>1, <1>4, <1>5, <1>6, <1>7, <1>8

LEMMA ReleaseStep ==
    ASSUME ClientInv, ~crossed, NEW o \in Owners, NEW s \in Streams, Release(o, s)
    PROVE  ClientInv'
<1> USE DEF ClientInv
<1>0. /\ ClientTypeOK /\ Counted /\ LinkIsTheSockets /\ Driven /\ Served
      /\ Len(sockets) \in Nat /\ at[Screen] = AtRest
      /\ UNCHANGED <<link, socket, at, wants, failures, crossed>>
      /\ owned' = owned \ {<<o, s>>} /\ refs' = [refs EXCEPT ![s] = refs[s] - 1]
      /\ <<o, s>> \in owned
  BY SocketsAre DEF Release, Remaining
<1>1. /\ IsFiniteSet(OwnersOf(s)) /\ Cardinality(OwnersOf(s)) \in Nat /\ o \in OwnersOf(s)
      /\ OwnersOf(s)' = OwnersOf(s) \ {o} /\ Cardinality(OwnersOf(s)') = Cardinality(OwnersOf(s)) - 1
  <2>1. IsFiniteSet(OwnersOf(s)) /\ Cardinality(OwnersOf(s)) \in Nat /\ o \in OwnersOf(s)
    BY <1>0, OwnersCount DEF OwnersOf
  <2>2. OwnersOf(s)' = OwnersOf(s) \ {o}
    BY <1>0 DEF OwnersOf
  <2> QED
    BY <2>1, <2>2, FS_RemoveElement
<1>2. /\ refs[s] \in Nat /\ refs[s] > 0 /\ refs'[s] = refs[s] - 1
      /\ refs[s] = Cardinality(OwnersOf(s))
      /\ s \in subscribed
  <2>1. Cardinality(OwnersOf(s)) # 0
    BY <1>1, FS_EmptySet
  <2>2. refs[s] = Cardinality(OwnersOf(s)) /\ refs[s] \in Nat /\ refs'[s] = refs[s] - 1
    BY <1>0 DEF Counted, ClientTypeOK
  <2>3. ~Wants(s)
    BY <1>0 DEF Wants
  <2> QED
    BY <1>0, <2>1, <2>2, <2>3 DEF Counted
<1> DEFINE ends == refs[s] - 1 = 0
<1>3. subscribed' = IF ends THEN subscribed \ {s} ELSE subscribed
  BY DEF Release, Remaining
<1>4. /\ sockets' \in Seq(Socket) /\ Len(sockets') = Len(sockets) /\ DOMAIN sockets' = DOMAIN sockets
      /\ \A n \in DOMAIN sockets :
            /\ sockets'[n].phase = sockets[n].phase
            /\ sockets'[n].serves = IF ends /\ link = "CONNECTED" /\ Alive(socket) /\ n = socket
                                    THEN sockets[n].serves \ {s} ELSE sockets[n].serves
  <2>2. sockets' = IF ends /\ link = "CONNECTED" THEN Sent({}, {s}) ELSE sockets
    BY DEF Release, Remaining
  <2>3. /\ Sent({}, {s}) \in Seq(Socket) /\ Len(Sent({}, {s})) = Len(sockets)
        /\ \A n \in DOMAIN sockets :
              /\ Sent({}, {s})[n].phase = sockets[n].phase
              /\ Sent({}, {s})[n].serves =
                    IF Alive(socket) /\ n = socket THEN (sockets[n].serves \cup {}) \ {s}
                    ELSE sockets[n].serves
    <3>1. {s} \in SUBSET Streams /\ {} \in SUBSET Streams
      OBVIOUS
    <3> QED
      BY <1>0, <3>1, SentIs
  <2>4. sockets \in Seq(Socket) /\ DOMAIN sockets = 1 .. Len(sockets)
    BY <1>0, SocketsAre DEF ClientTypeOK
  <2> HIDE DEF ends
  <2>5. CASE ends /\ link = "CONNECTED"
    <3>1. sockets' = Sent({}, {s})
      BY <2>2, <2>5
    <3>2. sockets' \in Seq(Socket) /\ Len(sockets') = Len(sockets)
      BY <2>3, <3>1
    <3>3. DOMAIN sockets' = DOMAIN sockets
      BY <2>4, <3>2
    <3> QED
      BY <2>3, <2>5, <3>1, <3>2, <3>3
  <2>6. CASE ~(ends /\ link = "CONNECTED")
    BY <2>2, <2>4, <2>6
  <2> QED
    BY <2>5, <2>6
<1>5. ClientTypeOK'
  <2>1. refs' \in [Streams -> Nat] /\ owned' \subseteq Owners \X Streams /\ subscribed' \subseteq Streams
    BY <1>0, <1>2, <1>3 DEF ClientTypeOK
  <2> QED
    BY <1>0, <1>4, <2>1 DEF ClientTypeOK
<1>6. Counted'
  <2> SUFFICES ASSUME NEW u \in Streams
               PROVE  /\ refs'[u] = Cardinality(OwnersOf(u)')
                      /\ refs'[u] > 0 <=> u \in subscribed' \/ Wants(u)'
                      /\ refs'[u] > 0 => wants' > 0
    BY DEF Counted
  <2>1. ~Wants(u) /\ ~Wants(u)'
    BY <1>0 DEF Wants
  <2>2. CASE u = s
    <3>1. OwnersOf(u)' = OwnersOf(s)'
      BY <2>2 DEF OwnersOf
    <3>2. refs'[u] = Cardinality(OwnersOf(u)')
      BY <1>1, <1>2, <2>2, <3>1
    <3> QED
      BY <1>0, <1>2, <1>3, <2>1, <2>2, <3>2 DEF Counted
  <2>3. CASE u # s
    <3>1. OwnersOf(u)' = OwnersOf(u) /\ refs'[u] = refs[u]
      BY <1>0, <2>3 DEF OwnersOf, ClientTypeOK
    <3> QED
      BY <1>0, <1>3, <2>1, <2>3, <3>1 DEF Counted
  <2> QED
    BY <2>2, <2>3
<1>7. LinkIsTheSockets'
  BY <1>0, <1>4 DEF LinkIsTheSockets, Alive
<1>8. Driven'
  BY <1>0, <1>4 DEF Driven
<1>9. Served'
  <2> SUFFICES ASSUME NEW n \in DOMAIN sockets
               PROVE  /\ sockets'[n].phase = "opening" => sockets'[n].serves = {}
                      /\ sockets'[n].phase = "opened" =>
                            IF socket' = n THEN sockets'[n].serves \subseteq subscribed'
                            ELSE sockets'[n].serves = {}
                      /\ sockets'[n].phase = "open" =>
                            socket' = n /\ sockets'[n].serves = subscribed'
    BY <1>4 DEF Served
  <2>1. n # NoSocket
    BY <1>0, SocketsAre
  <2>2. sockets[n].phase \in {"opened", "open"} => link = "CONNECTED" /\ Alive(n)
    BY <1>0, <2>1 DEF LinkIsTheSockets, Alive
  <2>3. sockets[n].phase = "opening" => link = "CONNECTING"
    BY <1>0 DEF LinkIsTheSockets
  <2> QED
    BY <1>0, <1>3, <1>4, <2>2, <2>3 DEF Served
<1> QED
  BY <1>0, <1>5, <1>6, <1>7, <1>8, <1>9

-----------------------------------------------------------------------------
(* Connecting changes nothing of what is wanted.                           *)
LEMMA CountedStays ==
    ASSUME Counted, UNCHANGED <<owned, refs, subscribed, wants>>,
           \A s \in Streams : Wants(s)' <=> Wants(s)
    PROVE  Counted'
<1>1. \A s : OwnersOf(s)' = OwnersOf(s)
  BY DEF OwnersOf
<1> QED
  BY <1>1 DEF Counted

LEMMA BeginStep ==
    ASSUME ClientInv, ~crossed, NEW t \in Threads, ConnectBegin(t)
    PROVE  ClientInv'
<1> USE DEF ClientInv
<1>0. /\ ClientTypeOK /\ Counted /\ LinkIsTheSockets /\ Driven /\ Served
      /\ Len(sockets) \in Nat /\ at[t].step = "connect"
      /\ UNCHANGED <<owned, refs, subscribed, link, socket, sockets, wants, failures, crossed>>
  BY SocketsAre DEF ConnectBegin
<1>1. CASE link \in {"CONNECTED", "CONNECTING"}
  <2>1. at' = Continue(t)
    BY <1>1 DEF ConnectBegin
  <2>2. /\ at' = [u \in Threads |-> at'[u]] /\ \A u \in Threads : u # t => at'[u] = at[u]
        /\ at'[t] = IF at[t].then = "none" THEN AtRest
                    ELSE [step |-> at[t].then, stream |-> at[t].stream, then |-> "none"]
        /\ t = Screen => at'[t] \in ScreenSteps(Len(sockets))
        /\ t # Screen => at'[t] = AtRest
    BY <1>0, <2>1, Continued
  <2>3. ClientTypeOK'
    BY <1>0, <2>2, ThreadsAre DEF ClientTypeOK, TimerSteps
  <2>4. \A s \in Streams : Wants(s)' <=> Wants(s)
    <3>1. CASE t # Screen
      BY <2>2, <3>1, ThreadsAre DEF Wants
    <3>2. CASE t = Screen
      <4>1. at[t] # AtRest /\ at[t].then \in {"none", "subscribe"}
        BY <1>0, <3>2, Shapes DEF ClientTypeOK
      <4> QED
        BY <1>0, <2>2, <3>2, <4>1 DEF Wants, AtRest
    <3> QED
      BY <3>1, <3>2
  <2>5. LinkIsTheSockets' /\ Served'
    BY <1>0 DEF LinkIsTheSockets, Served, Alive
  <2>6. Driven'
    BY <1>0, <1>1 DEF Driven
  <2> QED
    BY <1>0, <2>3, <2>4, <2>5, <2>6, CountedStays
<1>2. CASE link \notin {"CONNECTED", "CONNECTING"}
  <2>1. at' = [at EXCEPT ![t].step = "open"]
    BY <1>2 DEF ConnectBegin
  <2>2. /\ at' = [u \in Threads |-> at'[u]] /\ \A u \in Threads : u # t => at'[u] = at[u]
        /\ at'[t] = [at[t] EXCEPT !.step = "open"]
    BY <1>0, <2>1 DEF ClientTypeOK
  <2>3. /\ t = Screen => at'[t] \in ScreenSteps(Len(sockets))
        /\ t # Screen => at'[t] \in TimerSteps(Len(sockets))
        /\ at'[t].step = "open" /\ at'[t].then = at[t].then /\ at'[t].stream = at[t].stream
        /\ at[t] # AtRest /\ at'[t] # AtRest
    <3>1. at[t] \in Connecting(Streams, {"none", "subscribe"}, Len(sockets))
            \/ (t # Screen /\ at[t] \in Connecting({"none"}, {"none"}, Len(sockets)))
      BY <1>0, ThreadsAre DEF ClientTypeOK, ScreenSteps, TimerSteps, AtRest
    <3>2. t # Screen => at[t] \in Connecting({"none"}, {"none"}, Len(sockets))
      BY <1>0, ThreadsAre DEF ClientTypeOK, TimerSteps, AtRest
    <3> QED
      BY <1>0, <2>2, <3>1, <3>2 DEF Connecting, ScreenSteps, TimerSteps, AtRest
  <2>4. ClientTypeOK'
    BY <1>0, <2>2, <2>3, ThreadsAre DEF ClientTypeOK
  <2>5. \A s \in Streams : Wants(s)' <=> Wants(s)
    <3>1. CASE t # Screen
      BY <2>2, <3>1, ThreadsAre DEF Wants
    <3>2. CASE t = Screen
      BY <1>0, <2>3, <3>2 DEF Wants
    <3> QED
      BY <3>1, <3>2
  <2>6. LinkIsTheSockets' /\ Served'
    BY <1>0 DEF LinkIsTheSockets, Served, Alive
  <2>7. Driven'
    BY <2>3 DEF Driven
  <2> QED
    BY <1>0, <2>4, <2>5, <2>6, <2>7, CountedStays
<1> QED
  BY <1>1, <1>2

LEMMA OpenStep ==
    ASSUME ClientInv, ~crossed, NEW t \in Threads, ConnectOpen(t)
    PROVE  ClientInv'
<1> USE DEF ClientInv
<1> DEFINE n == Len(sockets)
<1> DEFINE next == [step |-> "assign", stream |-> at[t].stream, then |-> at[t].then, new |-> n + 1]
<1>0. /\ ClientTypeOK /\ Counted /\ LinkIsTheSockets /\ Driven /\ Served
      /\ n \in Nat /\ at[t].step = "open" /\ DOMAIN sockets = 1 .. n /\ sockets \in Seq(Socket)
      /\ link' = "CONNECTING" /\ crossed' = (crossed \/ SomeAlive)
      /\ UNCHANGED <<owned, refs, subscribed, socket, wants, failures>>
  BY SocketsAre DEF ConnectOpen, ClientTypeOK
<1>1. /\ sockets' \in Seq(Socket) /\ Len(sockets') = n + 1 /\ DOMAIN sockets' = 1 .. (n + 1)
      /\ sockets'[n + 1] = [phase |-> "opening", serves |-> {}]
      /\ \A m \in DOMAIN sockets : sockets'[m] = sockets[m]
  <2>1. [phase |-> "opening", serves |-> {}] \in Socket
    BY DEF Socket
  <2>2. sockets' = Append(sockets, [phase |-> "opening", serves |-> {}])
    BY DEF ConnectOpen
  <2> QED
    BY <1>0, <2>1, <2>2
<1>2. /\ at' = [u \in Threads |-> at'[u]] /\ \A u \in Threads : u # t => at'[u] = at[u]
      /\ at'[t] = next
  BY <1>0, <1>1 DEF ConnectOpen, ClientTypeOK
<1>3. /\ t = Screen => next \in ScreenSteps(n + 1)
      /\ t # Screen => next \in TimerSteps(n + 1)
      /\ at[t] # AtRest /\ next # AtRest
  <2>1. t = Screen => at[t] \in Connecting(Streams, {"none", "subscribe"}, n)
    BY <1>0 DEF ClientTypeOK, ScreenSteps, AtRest
  <2>2. t # Screen => at[t] \in Connecting({"none"}, {"none"}, n)
    BY <1>0, ThreadsAre DEF ClientTypeOK, TimerSteps, AtRest
  <2>3. n + 1 \in 1 .. (n + 1)
    BY <1>0
  <2>4. t = Screen => at[t].stream \in Streams /\ at[t].then \in {"none", "subscribe"}
    BY <2>1 DEF Connecting
  <2>5. t # Screen => at[t].stream = "none" /\ at[t].then = "none"
    BY <2>2 DEF Connecting
  <2>6. at[t] # AtRest /\ next # AtRest
    BY <1>0 DEF AtRest
  <2> HIDE DEF n
  <2> QED
    BY <2>3, <2>4, <2>5, <2>6 DEF Connecting, ScreenSteps, TimerSteps
<1>4. ClientTypeOK'
  <2>1. /\ at'[Screen] \in ScreenSteps(n + 1)
        /\ \A u \in Timers : at'[u] \in TimerSteps(n + 1)
    <3> HIDE DEF next
    <3> QED
      BY <1>0, <1>2, <1>3, ThreadsAre, Longer DEF ClientTypeOK
  <2>2. crossed' \in BOOLEAN
    BY <1>0 DEF SomeAlive
  <2> HIDE DEF n, next
  <2>3. socket' \in 0 .. Len(sockets')
    BY <1>0, <1>1 DEF ClientTypeOK, n
  <2> QED
    BY <1>0, <1>1, <1>2, <2>1, <2>2, <2>3 DEF ClientTypeOK
<1>5. \A s \in Streams : Wants(s)' <=> Wants(s)
  <2>1. CASE t # Screen
    BY <1>2, <2>1, ThreadsAre DEF Wants
  <2>2. CASE t = Screen
    BY <1>0, <1>2, <1>3, <2>2 DEF Wants
  <2> QED
    BY <2>1, <2>2
<1>6. ASSUME ~crossed' PROVE (LinkIsTheSockets /\ Driven /\ Served)'
  <2>1. \A m \in DOMAIN sockets : sockets[m].phase \notin {"opening", "opened", "open"}
    BY <1>0, <1>6, SocketsAre DEF SomeAlive, Alive
  <2>2. n + 1 \in DOMAIN sockets' /\ sockets'[n + 1].phase = "opening" /\ sockets'[n + 1].serves = {}
        /\ \A m \in DOMAIN sockets' : m # n + 1 =>
              sockets'[m].phase \notin {"opening", "opened", "open"}
    BY <1>0, <1>1, <2>1
  <2>3. LinkIsTheSockets'
    BY <1>0, <2>2 DEF LinkIsTheSockets, Alive
  <2>4. Driven'
    BY <1>0 DEF Driven
  <2>5. Served'
    BY <2>2 DEF Served
  <2> QED
    BY <2>3, <2>4, <2>5
<1> QED
  BY <1>0, <1>4, <1>5, <1>6, CountedStays

LEMMA AssignStep ==
    ASSUME ClientInv, ~crossed, NEW t \in Threads, ConnectAssign(t)
    PROVE  ClientInv'
<1> USE DEF ClientInv
<1>0. /\ ClientTypeOK /\ Counted /\ LinkIsTheSockets /\ Driven /\ Served
      /\ Len(sockets) \in Nat /\ at[t].step = "assign" /\ at' = Continue(t)
      /\ socket' = at[t].new
      /\ crossed' = (crossed \/ \E n \in DOMAIN sockets : Alive(n) /\ n # at[t].new)
      /\ UNCHANGED <<owned, refs, subscribed, link, sockets, wants, failures>>
  BY SocketsAre DEF ConnectAssign
<1>1. /\ at' = [u \in Threads |-> at'[u]] /\ \A u \in Threads : u # t => at'[u] = at[u]
      /\ at'[t] = IF at[t].then = "none" THEN AtRest
                  ELSE [step |-> at[t].then, stream |-> at[t].stream, then |-> "none"]
      /\ t = Screen => at'[t] \in ScreenSteps(Len(sockets))
      /\ t # Screen => at'[t] = AtRest
  BY <1>0, Continued
<1>2. at[t].new \in 1 .. Len(sockets)
  BY <1>0, ThreadsAre, Shapes DEF ClientTypeOK
<1>3. ClientTypeOK'
  <2>1. crossed' \in BOOLEAN
    BY <1>0
  <2>2. at'[Screen] \in ScreenSteps(Len(sockets)) /\ \A u \in Timers : at'[u] \in TimerSteps(Len(sockets))
    BY <1>0, <1>1, ThreadsAre DEF ClientTypeOK, TimerSteps
  <2>3. socket' \in 0 .. Len(sockets)
    BY <1>0, <1>2
  <2> QED
    BY <1>0, <1>1, <2>1, <2>2, <2>3 DEF ClientTypeOK
<1>4. \A s \in Streams : Wants(s)' <=> Wants(s)
  <2>1. CASE t # Screen
    BY <1>1, <2>1, ThreadsAre DEF Wants
  <2>2. CASE t = Screen
    <3>1. at[t] # AtRest /\ at[t].then \in {"none", "subscribe"}
      BY <1>0, <2>2, Shapes DEF ClientTypeOK
    <3> QED
      BY <1>0, <1>1, <2>2, <3>1 DEF Wants, AtRest
  <2> QED
    BY <2>1, <2>2
<1>5. ASSUME ~crossed' PROVE (LinkIsTheSockets /\ Driven /\ Served)'
  <2>1. LinkIsTheSockets'
    BY <1>0 DEF LinkIsTheSockets, Alive
  <2>2. Driven'
    <3>1. \A u \in Threads : at[u].step \in {"connect", "open"} => u # t /\ at'[u] = at[u]
      BY <1>0, <1>1
    <3>2. at[Screen].step = "subscribe" => at'[Screen] = at[Screen]
      BY <1>0, <1>1, ThreadsAre
    <3> QED
      BY <1>0, <3>1, <3>2 DEF Driven
  <2>3. Served'
    <3> SUFFICES ASSUME NEW n \in DOMAIN sockets
                 PROVE  /\ sockets[n].phase = "opening" => sockets[n].serves = {}
                        /\ sockets[n].phase = "opened" =>
                              IF socket' = n THEN sockets[n].serves \subseteq subscribed
                              ELSE sockets[n].serves = {}
                        /\ sockets[n].phase = "open" =>
                              socket' = n /\ sockets[n].serves = subscribed
      BY <1>0 DEF Served
    <3>1. n # NoSocket
      BY <1>0, SocketsAre
    <3>2. Alive(n) => socket' = n
      BY <1>0, <1>5
    <3>3. sockets[n].phase \in {"opened", "open"} => Alive(n)
      BY <3>1 DEF Alive
    <3> QED
      BY <1>0, <3>2, <3>3 DEF Served
  <2> QED
    BY <2>1, <2>2, <2>3
<1> QED
  BY <1>0, <1>3, <1>4, <1>5, CountedStays

-----------------------------------------------------------------------------
(* The callbacks of a socket.                                              *)
LEMMA OpenedStep ==
    ASSUME ClientInv, ~crossed, NEW n \in DOMAIN sockets, Opened(n)
    PROVE  ClientInv'
<1> USE DEF ClientInv
<1>0. /\ ClientTypeOK /\ Counted /\ LinkIsTheSockets /\ Driven /\ Served
      /\ sockets \in Seq(Socket) /\ n # NoSocket
      /\ sockets[n].phase = "opening" /\ link' = "CONNECTED"
      /\ sockets' = [sockets EXCEPT ![n].phase = "opened"]
      /\ UNCHANGED <<owned, refs, subscribed, socket, at, wants, failures, crossed>>
  BY SocketsAre DEF Opened, ClientTypeOK
<1>1. /\ sockets' \in Seq(Socket) /\ Len(sockets') = Len(sockets) /\ DOMAIN sockets' = DOMAIN sockets
      /\ \A m \in DOMAIN sockets : m # n => sockets'[m] = sockets[m]
      /\ sockets'[n].phase = "opened" /\ sockets'[n].serves = sockets[n].serves
  BY <1>0, SocketTurns
<1>2. ClientTypeOK'
  BY <1>0, <1>1 DEF ClientTypeOK
<1>3. Counted'
  BY <1>0, CountedStays DEF Wants
<1>4. \A m \in DOMAIN sockets : m # n => sockets'[m].phase \notin {"opening", "opened", "open"}
  <2>1. \A m \in DOMAIN sockets : m # NoSocket
    BY <1>0, SocketsAre
  <2> QED
    BY <1>0, <1>1, <2>1 DEF LinkIsTheSockets, Alive
<1>5. LinkIsTheSockets'
  BY <1>0, <1>1, <1>4 DEF LinkIsTheSockets, Alive
<1>6. Driven'
  BY <1>0 DEF Driven
<1>7. Served'
  BY <1>0, <1>1, <1>4 DEF Served
<1> QED
  BY <1>2, <1>3, <1>5, <1>6, <1>7

LEMMA ResubscribeStep ==
    ASSUME ClientInv, ~crossed, NEW n \in DOMAIN sockets, Resubscribe(n)
    PROVE  ClientInv'
<1> USE DEF ClientInv
<1> DEFINE told == Sent(subscribed, {})
<1>0. /\ ClientTypeOK /\ Counted /\ LinkIsTheSockets /\ Driven /\ Served
      /\ sockets \in Seq(Socket) /\ n # NoSocket /\ Len(sockets) \in Nat
      /\ DOMAIN sockets = 1 .. Len(sockets)
      /\ sockets[n].phase = "opened"
      /\ sockets' = [told EXCEPT ![n].phase = "open"]
      /\ crossed' = (crossed \/ socket # n)
      /\ UNCHANGED <<owned, refs, subscribed, link, socket, at, wants, failures>>
  BY SocketsAre DEF Resubscribe, ClientTypeOK, SubscribedAgain
<1>1. /\ told \in Seq(Socket) /\ Len(told) = Len(sockets) /\ DOMAIN told = DOMAIN sockets
      /\ \A m \in DOMAIN sockets :
            /\ told[m].phase = sockets[m].phase
            /\ told[m].serves = IF Alive(socket) /\ m = socket THEN sockets[m].serves \cup subscribed
                                ELSE sockets[m].serves
  <2>1. subscribed \in SUBSET Streams /\ {} \in SUBSET Streams
    BY <1>0 DEF ClientTypeOK
  <2>2. /\ told \in Seq(Socket) /\ Len(told) = Len(sockets)
        /\ \A m \in DOMAIN sockets :
            /\ told[m].phase = sockets[m].phase
            /\ told[m].serves = IF Alive(socket) /\ m = socket
                                THEN (sockets[m].serves \cup subscribed) \ {}
                                ELSE sockets[m].serves
    BY <1>0, <2>1, SentIs
  <2> HIDE DEF told
  <2>3. DOMAIN told = DOMAIN sockets
    BY <1>0, <2>2
  <2> QED
    BY <2>2, <2>3
<1> HIDE DEF told
<1>2. /\ sockets' \in Seq(Socket) /\ Len(sockets') = Len(sockets) /\ DOMAIN sockets' = DOMAIN sockets
      /\ \A m \in DOMAIN sockets : m # n => sockets'[m] = told[m]
      /\ sockets'[n].phase = "open" /\ sockets'[n].serves = told[n].serves
  <2>1. n \in DOMAIN told
    BY <1>1
  <2>2. /\ sockets' \in Seq(Socket) /\ Len(sockets') = Len(told) /\ DOMAIN sockets' = DOMAIN told
        /\ \A m \in DOMAIN told : m # n => sockets'[m] = told[m]
        /\ sockets'[n].phase = "open" /\ sockets'[n].serves = told[n].serves
    <3>1. told \in Seq(Socket) /\ sockets' = [told EXCEPT ![n].phase = "open"]
      BY <1>0, <1>1
    <3> QED
      BY <2>1, <3>1, SocketTurns
  <2> QED
    BY <1>1, <2>2
<1>3. ClientTypeOK'
  <2>1. crossed' \in BOOLEAN
    BY <1>0
  <2> QED
    BY <1>0, <1>2, <2>1 DEF ClientTypeOK
<1>4. Counted'
  BY <1>0, CountedStays DEF Wants
<1>5. ASSUME ~crossed' PROVE (LinkIsTheSockets /\ Driven /\ Served)'
  <2>1. socket = n /\ Alive(n)
    BY <1>0, <1>5 DEF Alive
  <2>2. \A m \in DOMAIN sockets : m # n => sockets'[m].phase \notin {"opening", "opened", "open"}
    <3>1. \A m \in DOMAIN sockets : m # NoSocket
      BY <1>0, SocketsAre
    <3> QED
      BY <1>0, <1>1, <1>2, <2>1, <3>1 DEF LinkIsTheSockets, Alive
  <2>3. sockets'[n].serves = subscribed
    <3>1. sockets[n].serves \subseteq subscribed
      BY <1>0, <2>1 DEF Served
    <3>2. sockets'[n].serves = sockets[n].serves \cup subscribed
      BY <1>1, <1>2, <2>1
    <3> QED
      BY <3>1, <3>2
  <2>4. link = "CONNECTED"
    BY <1>0 DEF LinkIsTheSockets
  <2>5. LinkIsTheSockets'
    BY <1>0, <1>2, <2>2, <2>4 DEF LinkIsTheSockets, Alive
  <2>6. Driven'
    BY <1>0, <2>4 DEF Driven
  <2>7. Served'
    BY <1>0, <1>2, <2>1, <2>2, <2>3 DEF Served
  <2> QED
    BY <2>5, <2>6, <2>7
<1> QED
  BY <1>3, <1>4, <1>5

LEMMA FailedStep ==
    ASSUME ClientInv, ~crossed, NEW n \in DOMAIN sockets, Failed(n)
    PROVE  ClientInv'
<1> USE DEF ClientInv
<1>0. /\ ClientTypeOK /\ Counted /\ LinkIsTheSockets /\ Driven /\ Served
      /\ sockets \in Seq(Socket) /\ n # NoSocket
      /\ sockets[n].phase \in {"opening", "open"} /\ link' = "UNAVAILABLE"
      /\ sockets' = [sockets EXCEPT ![n] = [phase |-> "failing", serves |-> {}]]
      /\ UNCHANGED <<owned, refs, subscribed, socket, at, wants, crossed>>
  BY SocketsAre DEF Failed, ClientTypeOK
<1>1. /\ sockets' \in Seq(Socket) /\ Len(sockets') = Len(sockets) /\ DOMAIN sockets' = DOMAIN sockets
      /\ \A m \in DOMAIN sockets : m # n => sockets'[m] = sockets[m]
      /\ sockets'[n].phase = "failing"
  <2> DEFINE e == [phase |-> "failing", serves |-> {}]
  <2>1. e \in Socket /\ e.phase = "failing"
    BY DEF Socket
  <2> QED
    BY <1>0, <2>1, SocketSet
<1>2. ClientTypeOK'
  BY <1>0, <1>1 DEF ClientTypeOK
<1>3. Counted'
  BY <1>0, CountedStays DEF Wants
<1>4. \A m \in DOMAIN sockets : sockets'[m].phase \notin {"opening", "opened", "open"}
  <2>1. \A m \in DOMAIN sockets : m # NoSocket
    BY <1>0, SocketsAre
  <2> QED
    BY <1>0, <1>1, <2>1 DEF LinkIsTheSockets, Alive
<1>5. LinkIsTheSockets'
  BY <1>0, <1>1, <1>4 DEF LinkIsTheSockets, Alive
<1>6. Driven'
  BY <1>0, <1>1 DEF Driven
<1>7. Served'
  BY <1>0, <1>1, <1>4 DEF Served
<1> QED
  BY <1>0, <1>2, <1>3, <1>5, <1>6, <1>7

LEMMA ScheduleStep ==
    ASSUME ClientInv, ~crossed, NEW n \in DOMAIN sockets, ScheduleReconnect(n)
    PROVE  ClientInv'
<1> USE DEF ClientInv
<1>0. PICK t \in Timers :
        /\ sockets[n].phase = "failing" /\ at[t] = AtRest
        /\ sockets' = [sockets EXCEPT ![n].phase = "failed"]
        /\ link' = "RECONNECTING"
        /\ at' = [at EXCEPT ![t] = [step |-> "connect", stream |-> "none", then |-> "none"]]
        /\ crossed' = (crossed \/ SomeAlive)
        /\ UNCHANGED <<owned, refs, subscribed, socket, wants, failures>>
  BY DEF ScheduleReconnect
<1>1. /\ ClientTypeOK /\ Counted /\ LinkIsTheSockets /\ Driven /\ Served
      /\ sockets \in Seq(Socket) /\ t \in Threads /\ t # Screen
  BY ThreadsAre DEF ClientTypeOK
<1>2. /\ sockets' \in Seq(Socket) /\ Len(sockets') = Len(sockets) /\ DOMAIN sockets' = DOMAIN sockets
      /\ \A m \in DOMAIN sockets : m # n => sockets'[m] = sockets[m]
      /\ sockets'[n].phase = "failed"
  <2> DEFINE e == [sockets[n] EXCEPT !.phase = "failed"]
  <2>1. sockets \in Seq(Socket) /\ sockets[n] \in Socket /\ sockets' = [sockets EXCEPT ![n] = e]
    BY <1>0, <1>1, SocketsAre
  <2>2. e \in Socket /\ e.phase = "failed"
    BY <2>1 DEF Socket
  <2> HIDE DEF e
  <2> QED
    BY <2>1, <2>2, SocketSet
<1>3. /\ at' = [u \in Threads |-> at'[u]] /\ \A u \in Threads : u # t => at'[u] = at[u]
      /\ at'[t] = [step |-> "connect", stream |-> "none", then |-> "none"]
  BY <1>0, <1>1 DEF ClientTypeOK
<1>4. at'[t] \in TimerSteps(Len(sockets))
  BY <1>3 DEF TimerSteps, Connecting
<1>5. ClientTypeOK'
  <2>1. crossed' \in BOOLEAN
    BY <1>0 DEF SomeAlive
  <2> QED
    BY <1>0, <1>1, <1>2, <1>3, <1>4, <2>1, ThreadsAre DEF ClientTypeOK
<1>6. Counted'
  <2>1. at'[Screen] = at[Screen]
    BY <1>1, <1>3, ThreadsAre
  <2>2. \A s \in Streams : Wants(s)' <=> Wants(s)
    BY <2>1 DEF Wants
  <2> QED
    BY <1>0, <1>1, <2>2, CountedStays
<1>7. ASSUME ~crossed' PROVE (LinkIsTheSockets /\ Driven /\ Served)'
  <2>1. \A m \in DOMAIN sockets : sockets'[m].phase \notin {"opening", "opened", "open"}
    BY <1>0, <1>1, <1>2, <1>7, SocketsAre DEF SomeAlive, Alive
  <2>2. LinkIsTheSockets'
    BY <1>0, <1>2, <2>1 DEF LinkIsTheSockets, Alive
  <2>3. Driven'
    BY <1>1, <1>3 DEF Driven
  <2>4. Served'
    BY <1>2, <2>1 DEF Served
  <2> QED
    BY <2>2, <2>3, <2>4
<1> QED
  BY <1>5, <1>6, <1>7

(* The counts are right and, until two sockets meet, the one in use is     *)
(* told what is counted.                                                   *)
THEOREM ClientInvariant == StreamSpec => []ClientInv
<1>1. SInit => ClientInv
  <2> SUFFICES ASSUME SInit PROVE ClientInv
    OBVIOUS
  <2>1. \A s \in Streams : OwnersOf(s) = {}
    BY DEF SInit, OwnersOf
  <2>2. Screen \in Threads /\ \A t \in Threads : at[t] = AtRest
    BY ThreadsAre DEF SInit
  <2>3. ClientTypeOK
    <3>1. sockets = <<>> /\ <<>> \in Seq(Socket) /\ Len(sockets) = 0 /\ socket \in 0 .. Len(sockets)
      BY DEF SInit, NoSocket
    <3>2. at[Screen] \in ScreenSteps(Len(sockets)) /\ \A t \in Timers : at[t] \in TimerSteps(Len(sockets))
      BY <2>2, ThreadsAre DEF ScreenSteps, TimerSteps
    <3>3. at = [t \in Threads |-> at[t]]
      BY DEF SInit
    <3> QED
      BY <3>1, <3>2, <3>3 DEF SInit, ClientTypeOK
  <2>4. Counted
    <3>1. \A s \in Streams : OwnersOf(s) = {} /\ ~Wants(s)
      BY <2>1, <2>2 DEF Wants
    <3> QED
      BY <3>1, FS_EmptySet DEF SInit, Counted
  <2>5. LinkIsTheSockets /\ Driven /\ Served
    BY DEF SInit, LinkIsTheSockets, Driven, Served
  <2> QED
    BY <2>3, <2>4, <2>5 DEF ClientInv
<1>2. ClientInv /\ [StreamNext]_stream => ClientInv'
  <2>1. CASE StreamNext
    BY <2>1, AcquireStep, ReleaseStep, SubscribeStep, BeginStep, OpenStep, AssignStep, OpenedStep,
       ResubscribeStep, FailedStep, ScheduleStep DEF StreamNext
  <2>2. CASE UNCHANGED stream
    <3> SUFFICES ASSUME ClientInv PROVE ClientInv'
      OBVIOUS
    <3>1. Counted'
      BY <2>2, CountedStays DEF ClientInv, stream, Wants
    <3> QED
      BY <2>2, <3>1 DEF ClientInv, stream, ClientTypeOK, LinkIsTheSockets, Driven, Served, Alive
  <2> QED
    BY <2>1, <2>2
<1> QED
  BY <1>1, <1>2, PTL DEF StreamSpec

(* The server serves what the app owns: however views and lists come and   *)
(* go while sockets fail and timers reconnect, once nothing is under way   *)
(* and unless two sockets have met.                                        *)
THEOREM OwnedIsServed == StreamSpec => []ServedAsOwned
<1>1. ClientInv => ServedAsOwned
  <2> SUFFICES ASSUME ClientInv, Quiet, ~crossed
               PROVE  /\ wants > 0 => link = "CONNECTED"
                      /\ \A s \in Streams :
                            LET wanted == \E o \in Owners : <<o, s>> \in owned
                            IN  /\ refs[s] > 0 <=> wanted
                                /\ \A n \in DOMAIN sockets : sockets[n].phase = "open" =>
                                      (s \in sockets[n].serves <=> wanted)
    BY DEF ServedAsOwned
  <2>1. ClientTypeOK /\ Counted /\ LinkIsTheSockets /\ Driven /\ Served
    BY DEF ClientInv
  <2>2. Screen \in Threads /\ (\A t \in Threads : at[t] = AtRest)
        /\ \A n \in DOMAIN sockets : sockets[n].phase \in {"open", "failed"}
    BY ThreadsAre DEF Quiet
  <2>3. wants > 0 => link = "CONNECTED"
    BY <2>1, <2>2 DEF Driven, LinkIsTheSockets, AtRest
  <2>4. ASSUME NEW s \in Streams
        PROVE  /\ refs[s] > 0 <=> \E o \in Owners : <<o, s>> \in owned
               /\ refs[s] > 0 <=> s \in subscribed
    <3>1. refs[s] = Cardinality(OwnersOf(s)) /\ IsFiniteSet(OwnersOf(s))
          /\ Cardinality(OwnersOf(s)) \in Nat
      BY <2>1, OwnersCount DEF Counted
    <3>2. refs[s] = 0 <=> OwnersOf(s) = {}
      BY <3>1, FS_EmptySet
    <3>3. ~Wants(s)
      BY <2>2 DEF Wants
    <3>4. refs[s] \in Nat /\ (refs[s] > 0 <=> s \in subscribed)
      BY <2>1, <3>3 DEF Counted, ClientTypeOK
    <3>5. OwnersOf(s) # {} <=> \E o \in Owners : <<o, s>> \in owned
      BY DEF OwnersOf
    <3> QED
      BY <3>2, <3>4, <3>5, SMTT(30)
  <2>5. \A n \in DOMAIN sockets : sockets[n].phase = "open" => sockets[n].serves = subscribed
    BY <2>1 DEF Served
  <2>6. ASSUME NEW s \in Streams, NEW n \in DOMAIN sockets, sockets[n].phase = "open"
        PROVE  s \in sockets[n].serves <=> \E o \in Owners : <<o, s>> \in owned
    BY <2>4, <2>5, <2>6
  <2> QED
    BY <2>3, <2>4, <2>6
<1> QED
  BY <1>1, ClientInvariant, PTL

-----------------------------------------------------------------------------
(*****************************************************************************)
(* Analyses, for any number of users, requests and questions, and any        *)
(* changes meanwhile. An answer may wait in Redis for any time, so the       *)
(* invariant has to say of every entry what it was written from.             *)
(*****************************************************************************)
(* The last word of a reader whose setting stands is what it says.         *)
SettingsAreSaid ==
    /\ setting \in [Readers -> [allow : BOOLEAN, deleted : BOOLEAN, stored : BOOLEAN]]
    /\ said \in [Readers -> BOOLEAN]
    /\ \A u \in Readers : Standing(u) => setting[u].allow = said[u]

ConsentCalls == {NoAnalysis} \cup [step : {"write"}, allow : BOOLEAN, found : BOOLEAN]

EntriesAreHonest ==
    \A e \in cached :
        e.answer = [user |-> e.key[2], type |-> e.key[1], of |-> e.key[3]]

Steps == {"idle", "ground", "look", "summarize", "answered", "failed"}
Made(post) == post.step \in {"ground", "look", "summarize", "answered"}

(* A request by its step: what it has, and that consent had been given.    *)
Request(post) ==
    /\ post.step \in Steps
    /\ "step" \in DOMAIN post
    /\ Made(post) => /\ {"user", "what", "said"} \subseteq DOMAIN post
                     /\ post.user \in Readers
                     /\ post.what.type = "PORTFOLIO" => post.said
    /\ post.step \in {"look", "summarize", "answered"} /\ post.what.type = "PORTFOLIO"
          => post.what.target = PortfolioOf[post.user]
    /\ post.step = "answered" =>
          post.answer = [user |-> post.user, type |-> post.what.type, of |-> post.facts]

AiInv ==
    /\ SettingsAreSaid
    /\ consentCall \in [Readers -> ConsentCalls]
    /\ EntriesAreHonest
    /\ DOMAIN analysis = AiCalls
    /\ analysis = [c \in AiCalls |-> analysis[c]]
    /\ \A c \in AiCalls : Request(analysis[c])

-----------------------------------------------------------------------------
LEMMA ConsentsAreSaid ==
    ASSUME SettingsAreSaid, NEW u \in Readers, Consents(u)
    PROVE  said[u] = TRUE
BY DEF SettingsAreSaid, Consents, Standing

(* Changes of consents on any device.                                      *)
LEMMA SettingsStep ==
    ASSUME SettingsAreSaid, consentCall \in [Readers -> ConsentCalls], [AiNext]_ai
    PROVE  SettingsAreSaid' /\ consentCall' \in [Readers -> ConsentCalls]
<1> USE DEF SettingsAreSaid, Standing
<1>1. ASSUME NEW u \in Readers, NEW allow \in BOOLEAN, ConsentRead(u, allow)
      PROVE  SettingsAreSaid' /\ consentCall' \in [Readers -> ConsentCalls]
  <2>1. [step |-> "write", allow |-> allow, found |-> Standing(u)] \in ConsentCalls
    BY DEF ConsentCalls
  <2> QED
    BY <1>1, <2>1 DEF ConsentRead
<1>2. ASSUME NEW u \in Readers, NEW allow \in BOOLEAN, SettingPushed(u, allow)
      PROVE  SettingsAreSaid' /\ consentCall' \in [Readers -> ConsentCalls]
  BY <1>2 DEF SettingPushed, Setting
<1>3. ASSUME NEW u \in Readers, ConsentWrite(u)
      PROVE  SettingsAreSaid' /\ consentCall' \in [Readers -> ConsentCalls]
  <2>1. consentCall[u] \in [step : {"write"}, allow : BOOLEAN, found : BOOLEAN]
    BY <1>3 DEF ConsentWrite, ConsentCalls, NoAnalysis
  <2>2. NoAnalysis \in ConsentCalls
    BY DEF ConsentCalls
  <2>3. consentCall' \in [Readers -> ConsentCalls]
    BY <1>3, <2>2 DEF ConsentWrite
  <2>4. CASE UNCHANGED <<setting, said>>
    BY <2>3, <2>4
  <2>5. CASE said' = [said EXCEPT ![u] = consentCall[u].allow]
             /\ setting' = [setting EXCEPT ![u] =
                    IF consentCall[u].found THEN [setting[u] EXCEPT !.allow = consentCall[u].allow]
                    ELSE Setting(consentCall[u].allow)]
    BY <2>1, <2>3, <2>5 DEF Setting
  <2> QED
    BY <1>3, <2>4, <2>5 DEF ConsentWrite
<1>4. ASSUME NEW u \in Readers, SettingDeleted(u)
      PROVE  SettingsAreSaid' /\ consentCall' \in [Readers -> ConsentCalls]
  BY <1>4 DEF SettingDeleted
<1>5. CASE UNCHANGED <<setting, said, consentCall>>
  BY <1>5
<1> QED
  BY <1>1, <1>2, <1>3, <1>4, <1>5
  DEF AiNext, ai, FirstTransaction, Analyze, Ground, LookHit, LookMiss, Summarize,
      SummarizeFails, Halt, AnswerExpires, SameSurroundings

-----------------------------------------------------------------------------
(* Facts about a portfolio that are no failure are the user's own.         *)
LEMMA PortfolioFactsAreOwn ==
    ASSUME NEW u, NEW what, what.type = "PORTFOLIO", Facts(u, what) \notin Broken
    PROVE  what.target = PortfolioOf[u]
<1>1. what.target # "none"
  BY DEF Facts, Broken
<1>2. Facts(u, what) = PortfolioFacts(u, what.target)
  BY <1>1 DEF Facts
<1> QED
  BY <1>2 DEF PortfolioFacts, Broken

LEMMA KeyParts ==
    ASSUME NEW post
    PROVE  /\ CacheKey(post)[1] = post.what.type
           /\ CacheKey(post)[2] = post.user
           /\ CacheKey(post)[3] = post.facts
BY DEF CacheKey

LEMMA RequestStep ==
    ASSUME AiInv, [AiNext]_ai
    PROVE  /\ EntriesAreHonest'
           /\ DOMAIN analysis' = AiCalls
           /\ analysis' = [c \in AiCalls |-> analysis'[c]]
           /\ \A c \in AiCalls : Request(analysis'[c])
<1> DEFINE Good == /\ EntriesAreHonest'
                   /\ DOMAIN analysis' = AiCalls
                   /\ analysis' = [c \in AiCalls |-> analysis'[c]]
                   /\ \A c \in AiCalls : Request(analysis'[c])
<1>1. ASSUME NEW c \in AiCalls, NEW new, analysis' = [analysis EXCEPT ![c] = new],
             Request(new), EntriesAreHonest'
      PROVE  Good
  BY <1>1 DEF AiInv
<1>2. ASSUME cached' \subseteq cached PROVE EntriesAreHonest'
  BY <1>2 DEF AiInv, EntriesAreHonest
<1>3. ASSUME NEW c \in AiCalls, NEW u \in Readers, NEW what \in Asked, Analyze(c, u, what) PROVE Good
  <2> DEFINE new == [step |-> IF what.type = "PORTFOLIO" /\ ~Consents(u) THEN "failed" ELSE "ground",
                     user |-> u, what |-> what, said |-> said[u]]
  <2>1. what.type = "PORTFOLIO" /\ Consents(u) => said[u] = TRUE
    BY ConsentsAreSaid DEF AiInv
  <2>2. Request(new)
    BY <2>1 DEF Request, Steps, Made
  <2>3. EntriesAreHonest' /\ analysis' = [analysis EXCEPT ![c] = new]
    BY <1>2, <1>3 DEF Analyze
  <2> HIDE DEF new
  <2> QED
    BY <1>1, <2>2, <2>3
<1>4. ASSUME NEW c \in AiCalls, Ground(c) PROVE Good
  <2> DEFINE post == analysis[c]
             facts == Facts(post.user, post.what)
             grounded == [step |-> "look", user |-> post.user, what |-> post.what,
                          said |-> post.said, facts |-> facts]
  <2>1. Request(post) /\ post.step = "ground"
    BY <1>4 DEF AiInv, Ground, At
  <2>2. Request([post EXCEPT !.step = "failed"])
    BY <2>1 DEF Request, Steps, Made
  <2>3. facts \notin Broken => Request(grounded)
    BY <2>1, PortfolioFactsAreOwn DEF Request, Steps, Made
  <2>4. EntriesAreHonest'
    BY <1>2, <1>4 DEF Ground
  <2>5. analysis' = [analysis EXCEPT ![c] =
                        IF facts \in Broken THEN [post EXCEPT !.step = "failed"] ELSE grounded]
    BY <1>4 DEF Ground
  <2> HIDE DEF grounded, facts
  <2> QED
    BY <1>1, <2>2, <2>3, <2>4, <2>5
<1>5. ASSUME NEW c \in AiCalls, LookHit(c) PROVE Good
  <2> DEFINE post == analysis[c]
  <2>1. Request(post) /\ post.step = "look"
    BY <1>5 DEF AiInv, LookHit, At
  <2>2. PICK entry \in cached : /\ entry.key = CacheKey(post)
                                /\ analysis' = [analysis EXCEPT ![c] = Answered(post, entry.answer)]
    BY <1>5 DEF LookHit
  <2>3. entry.answer = [user |-> post.user, type |-> post.what.type, of |-> post.facts]
    <3>1. entry.answer = [user |-> entry.key[2], type |-> entry.key[1], of |-> entry.key[3]]
      BY DEF AiInv, EntriesAreHonest
    <3>2. /\ entry.key[1] = post.what.type
          /\ entry.key[2] = post.user
          /\ entry.key[3] = post.facts
      BY <2>2, KeyParts
    <3> HIDE DEF post
    <3> QED
      BY <3>1, <3>2
  <2>4. Request(Answered(post, entry.answer))
    BY <2>1, <2>3 DEF Request, Steps, Made, Answered
  <2>5. EntriesAreHonest'
    BY <1>2, <1>5 DEF LookHit
  <2> QED
    BY <1>1, <2>2, <2>4, <2>5
<1>6. ASSUME NEW c \in AiCalls, NEW s \in {"summarize", "failed"}, Goes(c, s), UNCHANGED cached,
             analysis[c].step \in {"look", "summarize"}
      PROVE  Good
  <2>1. Request(analysis[c])
    BY DEF AiInv
  <2>2. Request([analysis[c] EXCEPT !.step = s])
    BY <1>6, <2>1 DEF Request, Steps, Made
  <2> QED
    BY <1>1, <1>2, <1>6, <2>2 DEF Goes
<1>7. ASSUME NEW c \in AiCalls, Summarize(c) PROVE Good
  <2> DEFINE post == analysis[c]
             answer == WrittenBy(post)
  <2>1. Request(post) /\ post.step = "summarize"
    BY <1>7 DEF AiInv, Summarize, At
  <2>2. answer = [user |-> post.user, type |-> post.what.type, of |-> post.facts]
    BY DEF WrittenBy
  <2>3. Request(Answered(post, answer))
    BY <2>1, <2>2 DEF Request, Steps, Made, Answered
  <2>4. EntriesAreHonest'
    <3> DEFINE entry == [key |-> CacheKey(post), answer |-> answer]
    <3>1. entry.answer = [user |-> entry.key[2], type |-> entry.key[1], of |-> entry.key[3]]
      <4>1. entry.key = CacheKey(post) /\ entry.answer = answer
        OBVIOUS
      <4> HIDE DEF entry, answer, post
      <4> QED
        BY <4>1, <2>2, KeyParts
    <3>2. \A e \in cached' : e \in cached \/ e = entry
      BY <1>7 DEF Summarize
    <3> HIDE DEF entry
    <3> QED
      BY <3>1, <3>2 DEF AiInv, EntriesAreHonest
  <2> QED
    BY <1>1, <1>7, <2>3, <2>4 DEF Summarize
<1>8. CASE UNCHANGED analysis /\ cached' \subseteq cached
  BY <1>2, <1>8 DEF AiInv
<1> QED
  <2>1. ASSUME NEW c \in AiCalls, LookMiss(c) \/ SummarizeFails(c) PROVE Good
    BY <1>6, <2>1 DEF LookMiss, SummarizeFails, At
  <2>2. AnswerExpires => Good
    BY <1>8 DEF AnswerExpires
  <2>3. ASSUME NEW u \in Readers, SettingDeleted(u) \/ ConsentWrite(u) \/ FirstTransaction(u) PROVE Good
    BY <1>8, <2>3 DEF SettingDeleted, ConsentWrite, FirstTransaction
  <2>4. ASSUME NEW u \in Readers, NEW allow \in BOOLEAN,
               ConsentRead(u, allow) \/ SettingPushed(u, allow)
        PROVE  Good
    BY <1>8, <2>4 DEF ConsentRead, SettingPushed
  <2>5. ASSUME NEW s \in KnownStocks, Halt(s) PROVE Good
    BY <1>8, <2>5 DEF Halt
  <2>6. UNCHANGED ai => Good
    BY <1>8 DEF ai
  <2> QED
    BY <1>3, <1>4, <1>5, <1>7, <2>1, <2>2, <2>3, <2>4, <2>5, <2>6 DEF AiNext

-----------------------------------------------------------------------------
LEMMA AiInvInitially == ASSUME GInit PROVE AiInv
BY DEF GInit, AiInv, SettingsAreSaid, Standing, NoSetting, NoAnalysis, ConsentCalls,
       EntriesAreHonest, Request, Steps, Made

(* Every entry of the cache was written from what its key names, and every *)
(* request under way was let through on a consent (ai_grounding.py         *)
(* _compute_cache_key 427, check_portfolio_consent 437).                   *)
THEOREM AiInvariant == AiSpec => []AiInv
<1>1. ASSUME AiInv, [AiNext]_ai PROVE AiInv'
  BY <1>1, SettingsStep, RequestStep DEF AiInv
<1> QED
  BY <1>1, AiInvInitially, PTL DEF AiSpec

(* What an analysis answers was written for this user from these very      *)
(* facts; what it tells of a portfolio is the user's own, and the user's   *)
(* last word when it was checked had been yes (docs/26).                   *)
THEOREM AnswersAreOfOwnFacts == AiSpec => []AnalysesAreOfOwnFacts
<1>1. AiInv => AnalysesAreOfOwnFacts
  BY DEF AiInv, AnalysesAreOfOwnFacts, Request, Made, At
<1> QED
  BY <1>1, AiInvariant, PTL
=============================================================================
