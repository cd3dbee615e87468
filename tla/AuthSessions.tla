----------------------------- MODULE AuthSessions -----------------------------
(***************************************************************************)
(* The account session of one phone: the table auth_sessions, whose rows   *)
(* are rotated, and the tokens the app keeps.  Several calls of the app    *)
(* are under way at once; one that is refused waits for the lock of the    *)
(* authenticator, and exchanges the refresh token unless another call has  *)
(* done so.  The user logs in and out next to them.  A session, its        *)
(* refresh token and its access token have one number.                     *)
(***************************************************************************)
EXTENDS Integers, Sequences, FiniteSets

CONSTANTS Accounts, Calls,
          MaxSessions,     \* bound: sessions issued
          MaxSent,         \* bound: calls made
          MaxFaults        \* bound: answers lost and processes killed

VARIABLES sess,            \* rows of auth_sessions, in the order they were issued
          store,           \* the tokens and the user the app keeps
          shown,           \* the app shows the account as logged in
          call,            \* [Calls -> what becomes of it]
          lock,            \* the call that holds the authenticator's lock, or Nobody
          leaving,         \* how far a logout is: "no", "asked", "revoked"
          sent, faults,
          raced            \* history: a logout met a refresh under way

auth == <<sess, store, shown, call, lock, leaving, sent, faults, raced>>

None == 0
Nobody == "nobody"
Empty == [access |-> None, refresh |-> None, user |-> Nobody]
Waiting == [phase |-> "none"]

ASSUME AuthAssumption == Nobody \notin Accounts /\ Nobody \notin Calls

AInit ==
    /\ sess = <<>> /\ store = Empty /\ shown = FALSE
    /\ call = [c \in Calls |-> Waiting] /\ lock = Nobody
    /\ leaving = "no" /\ sent = 0 /\ faults = 0 /\ raced = FALSE

(* "fresh" until the access token expires, "stale" until the refresh token *)
(* does, or "revoked".                                                     *)
Issued(user) == [user |-> user, state |-> "fresh"]

(* authenticate: the access token has not expired, its session is live.    *)
Accepted(n) == n # None /\ sess[n].state = "fresh"
Live(n) == sess[n].state \in {"fresh", "stale"}

(* Fifteen minutes or thirty days have passed: of a session that is live,  *)
(* a revoked one is refused either way.                                    *)
Expire(n) ==
    /\ n \in DOMAIN sess /\ Live(n)
    /\ sess' = [sess EXCEPT ![n].state = IF @ = "fresh" THEN "stale" ELSE "over"]
    /\ UNCHANGED <<store, shown, call, lock, leaving, sent, faults, raced>>

Login(u) ==
    /\ ~shown /\ leaving = "no" /\ Len(sess) < MaxSessions
    /\ sess' = Append(sess, Issued(u))
    /\ store' = [access |-> Len(sess'), refresh |-> Len(sess'), user |-> u]
    /\ shown' = TRUE
    /\ UNCHANGED <<call, lock, leaving, sent, faults, raced>>

(* The interceptor adds the access token there is.                         *)
Send(c) ==
    /\ call[c] = Waiting /\ sent < MaxSent
    /\ call' = [call EXCEPT ![c] = [phase |-> "sent", token |-> store.access, again |-> FALSE]]
    /\ sent' = sent + 1
    /\ UNCHANGED <<sess, store, shown, lock, leaving, faults, raced>>

(* A refused call is made again once.                                      *)
Answer(c) ==
    /\ call[c].phase = "sent"
    /\ call' = [call EXCEPT ![c] =
          IF Accepted(@.token) \/ @.again THEN Waiting ELSE [phase |-> "refused", token |-> @.token]]
    /\ UNCHANGED <<sess, store, shown, lock, leaving, sent, faults, raced>>

Again(token) == [phase |-> "sent", token |-> token, again |-> TRUE]

(* Variant: every refused call exchanges the token it was sent with.       *)
Authenticate_OwnToken(c) ==
    /\ call[c].phase = "refused" /\ lock = Nobody
    /\ IF call[c].token = None
       THEN call' = [call EXCEPT ![c] = Waiting] /\ UNCHANGED lock
       ELSE /\ call' = [call EXCEPT ![c] = [phase |-> "refreshing", with |-> call[c].token]]
            /\ lock' = c
    /\ UNCHANGED <<sess, store, shown, leaving, sent, faults, raced>>

(* Under the lock: another call has exchanged the token already, there is  *)
(* none, or it is exchanged now.                                           *)
Authenticate(c) ==
    /\ call[c].phase = "refused" /\ lock = Nobody
    /\ \/ /\ store.access \notin {None, call[c].token}
          /\ call' = [call EXCEPT ![c] = Again(store.access)]
          /\ UNCHANGED lock
       \/ /\ store.access \in {None, call[c].token} /\ store.refresh = None
          /\ call' = [call EXCEPT ![c] = Waiting]
          /\ UNCHANGED lock
       \/ /\ store.access \in {None, call[c].token} /\ store.refresh # None
          /\ call' = [call EXCEPT ![c] = [phase |-> "refreshing", with |-> store.refresh]]
          /\ lock' = c
    /\ UNCHANGED <<sess, store, shown, leaving, sent, faults, raced>>

Refused == [phase |-> "granted", new |-> None]

(* POST /auth/refresh reads the session without locking its row...         *)
RefreshRead(c) ==
    /\ call[c].phase = "refreshing"
    /\ call' = [call EXCEPT ![c] =
                  IF Live(call[c].with) THEN [@ EXCEPT !.phase = "read"] ELSE Refused]
    /\ UNCHANGED <<sess, store, shown, lock, leaving, sent, faults, raced>>

(* ... and revokes it and issues the next one in one commit.               *)
RefreshCommit(c) ==
    /\ call[c].phase = "read" /\ Len(sess) < MaxSessions
    /\ sess' = Append([sess EXCEPT ![call[c].with].state = "revoked"],
                      Issued(sess[call[c].with].user))
    /\ call' = [call EXCEPT ![c] = [phase |-> "granted", new |-> Len(sess')]]
    /\ UNCHANGED <<store, shown, lock, leaving, sent, faults, raced>>

(* The request or its answer is lost.                                      *)
RefreshLost(c) ==
    /\ faults < MaxFaults /\ faults' = faults + 1
    /\ call[c].phase = "refreshing" \/ (call[c].phase = "granted" /\ call[c].new # None)
    /\ call' = [call EXCEPT ![c] = Refused]
    /\ UNCHANGED <<sess, store, shown, lock, leaving, sent, raced>>

(* The new tokens replace the stored ones, next to the user stored now;    *)
(* without new tokens the store is cleared.                                *)
Rotate(c) ==
    /\ call[c].phase = "granted"
    /\ LET new == call[c].new IN
       IF new = None
       THEN store' = Empty /\ call' = [call EXCEPT ![c] = Waiting]
       ELSE /\ store' = [access |-> new, refresh |-> new, user |-> store.user]
            /\ call' = [call EXCEPT ![c] = Again(new)]
    /\ lock' = Nobody
    /\ UNCHANGED <<sess, shown, leaving, sent, faults, raced>>

(* Logging out: notifications are turned off first, over the network; then *)
(* the refresh token there is now is revoked, if the call gets through;    *)
(* then everything is cleared.  None of it takes the lock.                 *)
LogoutBegin ==
    /\ shown /\ leaving = "no" /\ leaving' = "asked"
    /\ UNCHANGED <<sess, store, shown, call, lock, sent, faults, raced>>

Met == raced' = (raced \/ lock # Nobody)

(* Variant: the session is cleared first, and there is no token to revoke. *)
LogoutRevoke_Cleared ==
    /\ leaving = "asked" /\ leaving' = "revoked"
    /\ store' = Empty
    /\ Met
    /\ UNCHANGED <<sess, shown, call, lock, sent, faults>>

LogoutRevoke ==
    /\ leaving = "asked" /\ leaving' = "revoked"
    /\ \/ /\ sess' = IF store.refresh = None THEN sess
                     ELSE [sess EXCEPT ![store.refresh].state = "revoked"]
          /\ UNCHANGED faults
       \/ faults < MaxFaults /\ faults' = faults + 1 /\ UNCHANGED sess
    /\ Met
    /\ UNCHANGED <<store, shown, call, lock, sent>>

LogoutClear ==
    /\ leaving = "revoked" /\ leaving' = "no"
    /\ store' = Empty /\ shown' = FALSE
    /\ Met
    /\ UNCHANGED <<sess, call, lock, sent, faults>>

(* The process is killed and started again.                                *)
Restart ==
    /\ faults < MaxFaults /\ faults' = faults + 1
    /\ call' = [c \in Calls |-> Waiting] /\ lock' = Nobody /\ leaving' = "no"
    /\ shown' = (store.access # None)
    /\ UNCHANGED <<sess, store, sent, raced>>

AuthNext ==
    \/ \E n \in 1 .. MaxSessions : Expire(n)
    \/ \E u \in Accounts : Login(u)
    \/ \E c \in Calls :
          \/ Send(c) \/ Answer(c) \/ Authenticate(c) \/ Rotate(c)
          \/ RefreshRead(c) \/ RefreshCommit(c) \/ RefreshLost(c)
    \/ LogoutBegin \/ LogoutRevoke \/ LogoutClear \/ Restart

AuthSpec == AInit /\ [][AuthNext]_auth

Undisturbed == faults = 0 /\ ~raced

(* Between two exchanges, and outside a logout, the phone and the server   *)
(* agree: the session the app keeps is live and of the user it shows, and  *)
(* no other session of the phone is, whatever was refused and exchanged    *)
(* and however often the user has changed (docs/22: rotated on use,        *)
(* revocable on logout).  A lost answer, a killed process and a logout     *)
(* that meets a refresh break the agreement.                               *)
SessionsAgree ==
    Undisturbed /\ lock = Nobody /\ leaving = "no" =>
       /\ \A n \in DOMAIN sess : Live(n) => n = store.refresh
       /\ store.access = store.refresh
       /\ store.refresh # None => sess[store.refresh].state # "revoked"
                                    /\ sess[store.refresh].user = store.user

(* However many calls are refused at once, only the end of the refresh     *)
(* token or a logout makes the app forget its session.                     *)
KeptWhileValid ==
    [][Undisturbed /\ store # Empty /\ store' = Empty /\ leaving' = leaving =>
          ~Live(store.refresh)]_auth
=============================================================================
