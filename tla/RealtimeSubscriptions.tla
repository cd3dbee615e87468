---------------------- MODULE RealtimeSubscriptions ----------------------
(***************************************************************************)
(* Who is subscribed to what: the web socket sessions of the hub and the   *)
(* alert policy are owners of (security, kind) identities at the manager,  *)
(* which asks the provider for an identity when its first owner comes and  *)
(* gives it up when its last one goes.  The provider keeps a registry of   *)
(* its own, replays it after every login, and calls the broker's blocking  *)
(* client in a thread, so that a call is one step to start and one to end. *)
(* The manager's lock is held from the one to the other; the replay after  *)
(* a login holds no lock.                                                  *)
(***************************************************************************)
EXTENDS Naturals, FiniteSets

CONSTANTS Sessions,       \* the web socket connections, each used once
          Policy,         \* P1_ALERT_OWNER
          Keys,           \* securities, "MARKET:CODE"
          Kinds,          \* RealtimeQuoteType
          Tick,           \* the kind the policy asks for
          Unknown,        \* keys the broker has no contract for
          Targets,        \* what a message asks for: a key and some kinds of it, tick by default
          Watched,        \* the memberships the alert rules come to
          Limit,          \* the subscription budget of the manager
          PerSession,     \* max_subscriptions of a session
          MaxFaults       \* bound: broker calls that fail, links that drop

ASSUME SubscriptionAssumption ==
    /\ Tick \in Kinds
    /\ Policy \notin Sessions
    /\ Unknown \subseteq Keys
    /\ Targets \subseteq Keys \X SUBSET Kinds
    /\ \A t \in Targets : t[2] # {}
    /\ Watched \subseteq SUBSET Keys
    /\ {Limit, PerSession, MaxFaults} \subseteq Nat

VARIABLES owners,     \* _subscription_owners of the manager
          held,       \* provider_subscriptions of a session, membership of the policy
          routes,     \* key_to_sessions of the hub
          task,       \* what each owner is doing
          call,       \* the broker call under the manager's lock
          registry,   \* identities the provider's registry holds
          connected,  \* _connected of the provider
          replay,     \* what _restore_subscriptions has still to subscribe
          broker,     \* what the broker streams
          faults,     \* faults so far
          failed,     \* history: the manager's last broker call about it failed
          overtaken   \* history: released while the replay still had it ahead

vars == <<owners, held, routes, task, call, registry, connected, replay,
          broker, faults, failed, overtaken>>

Owners == Sessions \cup {Policy}
Identities == Keys \X Kinds
NoCall == [who |-> Policy, id |-> <<>>, sub |-> FALSE]
Owned == {i \in Identities : owners[i] # {}}

\* Variant: one too many
Room_OffByOne == Cardinality(Owned) <= Limit
\* The manager's budget leaves room for another identity
Room == Cardinality(Owned) < Limit

\* A task: the step of its handler, the identities it has still to work off,
\* those it acquired (to undo), and what it acquires once it has released
Task(pc, todo, done, next) ==
    [pc |-> pc, todo |-> todo, done |-> done, next |-> next]
Idle == Task("idle", {}, {}, {})

TypeOK ==
    /\ owners \in [Identities -> SUBSET Owners]
    /\ held \in [Owners -> SUBSET Identities]
    /\ routes \in [Keys -> SUBSET Sessions]
    /\ \A o \in Owners : task[o] \in
          [pc: {"idle", "acquire", "release", "undo", "close", "gone", "broken"},
           todo: SUBSET Identities, done: SUBSET Identities, next: SUBSET Identities]
    /\ call \in {NoCall} \cup [who: Owners, id: Identities, sub: BOOLEAN]
    /\ registry \in SUBSET Identities
    /\ connected \in BOOLEAN
    /\ replay \in SUBSET Identities
    /\ broker \in SUBSET Identities
    /\ faults \in 0..MaxFaults
    /\ {failed, overtaken} \subseteq SUBSET Identities

Init ==
    /\ owners = [i \in Identities |-> {}]
    /\ held = [o \in Owners |-> {}]
    /\ routes = [k \in Keys |-> {}]
    /\ task = [o \in Owners |-> Idle]
    /\ call = NoCall
    /\ registry = {}
    /\ connected = FALSE
    /\ replay = {}
    /\ broker = {}
    /\ faults = 0
    /\ failed = {}
    /\ overtaken = {}

-----------------------------------------------------------------------------
(* How a handler goes on                                                   *)

\* Variant: whatever else the session holds of the security
Unrouted_Any(k, done, h) == k \in {i[1] : i \in done}
\* No identity of the key is left to the session that gave some up
Unrouted(k, done, h) == k \in {i[1] : i \in done} /\ \A q \in Kinds : <<k, q>> \notin h

\* The end of a handler's loop: a subscribed key is routed to its session, a
\* key without any identity left is not, a closed session is routed nothing.
\* After an unsubscription only the keys it was about lose their route.
Finish(o, pc, done, h) ==
    /\ task' = [task EXCEPT ![o] = IF pc = "close" THEN Task("gone", {}, {}, {}) ELSE Idle]
    /\ routes' = IF o = Policy THEN routes ELSE
          [k \in Keys |-> CASE pc = "acquire" /\ k \in {i[1] : i \in done} -> routes[k] \cup {o}
                            [] pc = "release" /\ Unrouted(k, done, h) -> routes[k] \ {o}
                            [] pc = "close" -> routes[k] \ {o}
                            [] OTHER -> routes[k]]

\* The manager has returned for identity i: the owner takes note and goes on
\* with the next one; the policy acquires after it has released.
Proceed(o, i, sub) ==
    LET t == task[o]
        h == IF sub THEN held[o] \cup {i} ELSE held[o] \ {i}
        todo == t.todo \ {i}
        done == IF t.pc = "undo" THEN t.done ELSE t.done \cup {i}
    IN  /\ held' = [held EXCEPT ![o] = h]
        /\ IF todo # {}
           THEN /\ task' = [task EXCEPT ![o] = [t EXCEPT !.todo = todo, !.done = done]]
                /\ UNCHANGED routes
           ELSE IF t.next # {}
           THEN /\ task' = [task EXCEPT ![o] = Task("acquire", t.next, {}, {})]
                /\ UNCHANGED routes
           ELSE Finish(o, t.pc, done, h)

\* The manager has raised a RealtimeSubscriptionError: the policy gives back what it
\* acquired; a session is unregistered, and when that fails too it is left as it is.
Raise(o) ==
    LET t == task[o] IN
    /\ task' = [task EXCEPT ![o] =
          CASE o = Policy /\ t.pc = "acquire" /\ t.done # {} -> Task("undo", t.done, {}, {})
            [] o = Policy /\ ~(t.pc = "acquire" /\ t.done # {}) -> Idle
            [] o # Policy /\ t.pc = "close" -> Task("broken", {}, {}, {})
            [] o # Policy /\ t.pc # "close" /\ held[o] # {} -> Task("close", held[o], {}, {})
            [] OTHER -> Task("gone", {}, {}, {})]
    /\ routes' = IF o # Policy /\ t.pc # "close" /\ held[o] = {}
                 THEN [k \in Keys |-> routes[k] \ {o}] ELSE routes
    /\ UNCHANGED held

-----------------------------------------------------------------------------
(* The handlers                                                            *)

\* handle_subscribe for one target.  A message with several targets is several of these:
\* what an earlier one got stays when a later one is refused.
Subscribe(s, k, kinds) ==
    LET new == ({k} \X kinds) \ held[s] IN
    /\ task[s].pc = "idle"
    /\ Cardinality({x \in Keys : s \in routes[x]}) < PerSession
    /\ IF new = {}
       THEN /\ routes' = [routes EXCEPT ![k] = @ \cup {s}]
            /\ UNCHANGED task
       ELSE /\ task' = [task EXCEPT ![s] = Task("acquire", new, {}, {})]
            /\ UNCHANGED routes
    /\ UNCHANGED <<owners, held, call, registry, connected, replay,
                   broker, faults, failed, overtaken>>

\* handle_unsubscribe for one target, for some kinds or for all the session has
Unsubscribe(s, k, kinds) ==
    LET old == ({k} \X kinds) \cap held[s] IN
    /\ task[s].pc = "idle"
    /\ old # {}
    /\ task' = [task EXCEPT ![s] = Task("release", old, {}, {})]
    /\ UNCHANGED <<owners, held, routes, call, registry, connected, replay,
                   broker, faults, failed, overtaken>>

\* The connection ends: unregister_connection
Close(s) ==
    /\ task[s].pc = "idle"
    /\ task' = [task EXCEPT ![s] = IF held[s] = {} THEN Task("gone", {}, {}, {})
                                   ELSE Task("close", held[s], {}, {})]
    /\ routes' = IF held[s] = {} THEN [k \in Keys |-> routes[k] \ {s}] ELSE routes
    /\ UNCHANGED <<owners, held, call, registry, connected, replay,
                   broker, faults, failed, overtaken>>

\* reconcile: what the rules no longer need is released, then the rest acquired
Reconcile(keys) ==
    LET want == keys \X {Tick}
        gone == held[Policy] \ want
        new == want \ held[Policy]
    IN  /\ task[Policy].pc = "idle"
        /\ gone \cup new # {}
        /\ task' = [task EXCEPT ![Policy] = IF gone # {} THEN Task("release", gone, {}, new)
                                            ELSE Task("acquire", new, {}, {})]
        /\ UNCHANGED <<owners, held, routes, call, registry, connected, replay,
                   broker, faults, failed, overtaken>>

-----------------------------------------------------------------------------
(* The manager, under its lock                                             *)

\* Another owner has the identity already, or the provider need not ask the broker
\* because it is not connected or its registry has the identity.
AcquireAtOnce(o, i) ==
    /\ call = NoCall
    /\ task[o].pc = "acquire" /\ i \in task[o].todo
    /\ \/ owners[i] # {}
       \/ Room /\ (~connected \/ i \in registry)
    /\ owners' = [owners EXCEPT ![i] = @ \cup {o}]
    /\ registry' = registry \cup {i}
    /\ Proceed(o, i, TRUE)
    /\ UNCHANGED <<call, connected, replay, broker, faults, failed, overtaken>>

\* RealtimeCapacityError: the policy skips the security, a session gives back what this
\* message acquired
AcquireRefused(o, i) ==
    LET t == task[o] IN
    /\ call = NoCall
    /\ t.pc = "acquire" /\ i \in t.todo
    /\ owners[i] = {} /\ ~Room
    /\ task' = [task EXCEPT ![o] =
          IF o = Policy /\ t.todo # {i} THEN [t EXCEPT !.todo = @ \ {i}]
          ELSE IF o # Policy /\ t.done # {} THEN Task("undo", t.done, {}, {})
          ELSE Idle]
    /\ UNCHANGED <<owners, held, routes, call, registry, connected, replay,
                   broker, faults, failed, overtaken>>

\* The first owner: the registry notes the identity, then the broker is asked
AcquireCall(o, i) ==
    /\ call = NoCall
    /\ task[o].pc = "acquire" /\ i \in task[o].todo
    /\ owners[i] = {} /\ Room
    /\ connected /\ i \notin registry
    /\ registry' = registry \cup {i}
    /\ IF i[1] \in Unknown
       THEN /\ Raise(o)
            /\ failed' = failed \cup {i}
            /\ UNCHANGED <<owners, call>>
       ELSE /\ owners' = [owners EXCEPT ![i] = {o}]
            /\ call' = [who |-> o, id |-> i, sub |-> TRUE]
            /\ UNCHANGED <<held, routes, task, failed>>
    /\ UNCHANGED <<connected, replay, broker, faults, overtaken>>

\* Not the last owner, or none that the registry knows, or no connection
ReleaseAtOnce(o, i) ==
    /\ call = NoCall
    /\ task[o].pc \in {"release", "undo", "close"} /\ i \in task[o].todo
    /\ \/ owners[i] # {o}
       \/ i \notin registry
       \/ ~connected
    /\ owners' = [owners EXCEPT ![i] = @ \ {o}]
    /\ registry' = IF owners[i] = {o} THEN registry \ {i} ELSE registry
    /\ overtaken' = IF owners[i] = {o} /\ i \in replay THEN overtaken \cup {i} ELSE overtaken
    /\ Proceed(o, i, FALSE)
    /\ UNCHANGED <<call, connected, replay, broker, faults, failed>>

\* The last owner: the registry forgets the identity, then the broker is asked
ReleaseCall(o, i) ==
    /\ call = NoCall
    /\ task[o].pc \in {"release", "undo", "close"} /\ i \in task[o].todo
    /\ owners[i] = {o}
    /\ connected /\ i \in registry
    /\ registry' = registry \ {i}
    /\ overtaken' = IF i \in replay THEN overtaken \cup {i} ELSE overtaken
    /\ IF i[1] \in Unknown
       THEN /\ Raise(o)
            /\ failed' = failed \cup {i}
            /\ UNCHANGED <<owners, call>>
       ELSE /\ owners' = [owners EXCEPT ![i] = {}]
            /\ call' = [who |-> o, id |-> i, sub |-> FALSE]
            /\ UNCHANGED <<held, routes, task, failed>>
    /\ UNCHANGED <<connected, replay, broker, faults>>

\* The broker's client returns.  It can only do so while the link is up.
CallReturns ==
    /\ call # NoCall
    /\ connected
    /\ broker' = IF call.sub THEN broker \cup {call.id} ELSE broker \ {call.id}
    /\ failed' = failed \ {call.id}
    /\ Proceed(call.who, call.id, call.sub)
    /\ call' = NoCall
    /\ UNCHANGED <<owners, registry, connected, replay, faults, overtaken>>

\* It raises: the manager takes back what it noted, the registry does not
CallRaises ==
    /\ call # NoCall
    /\ ~connected \/ faults < MaxFaults
    /\ faults' = IF connected THEN faults + 1 ELSE faults
    /\ owners' = [owners EXCEPT ![call.id] = IF call.sub THEN @ \ {call.who} ELSE @ \cup {call.who}]
    /\ failed' = failed \cup {call.id}
    /\ Raise(call.who)
    /\ call' = NoCall
    /\ UNCHANGED <<registry, connected, replay, broker, overtaken>>

-----------------------------------------------------------------------------
(* The provider's connection                                               *)

\* The subscriptions a login brings back
ToReplay == registry

\* connect: a login is a new broker session, and the registry is replayed
Connect ==
    /\ ~connected /\ replay = {}
    /\ connected' = TRUE
    /\ broker' = {}
    /\ replay' = ToReplay
    /\ overtaken' = {}
    /\ UNCHANGED <<owners, held, routes, task, call, registry, faults, failed>>

\* _restore_subscriptions: one identity, then the next
Restore(i) ==
    /\ connected /\ i \in replay /\ i[1] \notin Unknown
    /\ broker' = broker \cup {i}
    /\ replay' = replay \ {i}
    /\ UNCHANGED <<owners, held, routes, task, call, registry, connected,
                   faults, failed, overtaken>>

\* One failure ends the whole connect: a call that raises, or a key without a contract
RestoreFails ==
    /\ replay # {}
    /\ \/ connected /\ faults < MaxFaults /\ faults' = faults + 1
       \/ (~connected \/ \E i \in replay : i[1] \in Unknown) /\ faults' = faults
    /\ connected' = FALSE
    /\ replay' = {}
    /\ UNCHANGED <<owners, held, routes, task, call, registry, broker, failed, overtaken>>

\* _on_event, from the broker's thread
LinkDown ==
    /\ connected /\ faults < MaxFaults
    /\ connected' = FALSE
    /\ broker' = {}
    /\ faults' = faults + 1
    /\ UNCHANGED <<owners, held, routes, task, call, registry, replay,
                   failed, overtaken>>

-----------------------------------------------------------------------------
Client == \/ \E s \in Sessions, t \in Targets : Subscribe(s, t[1], t[2])
          \/ \E s \in Sessions, t \in Targets : Unsubscribe(s, t[1], t[2])
          \/ \E s \in Sessions : Close(s)
          \/ \E keys \in Watched : Reconcile(keys)

Work(o) == \E i \in Identities : \/ AcquireAtOnce(o, i)
                                 \/ AcquireRefused(o, i)
                                 \/ AcquireCall(o, i)
                                 \/ ReleaseAtOnce(o, i)
                                 \/ ReleaseCall(o, i)

Answer == CallReturns \/ CallRaises
\* Variant: a failure ends the stream loop
Provider_GivesUp == (faults = 0 /\ Connect) \/ RestoreFails \/ \E i \in Identities : Restore(i)
Provider == Connect \/ RestoreFails \/ \E i \in Identities : Restore(i)

Next == Client \/ (\E o \in Owners : Work(o)) \/ Answer \/ Provider \/ LinkDown

\* The stream loop reconnects for ever, and a broker call that is under way ends
Fairness == WF_vars(Provider) /\ WF_vars(Answer)

Spec == Init /\ [][Next]_vars /\ Fairness

-----------------------------------------------------------------------------
(* Correctness                                                             *)

Settled == call = NoCall /\ connected /\ replay = {}
Resting(o) == task[o].pc = "idle"

\* The manager never counts more identities than its budget, although it counts before
\* a call that is awaited and takes back after one that fails
\* (realtime_provider_manager.py acquire_subscription 50-74, release_subscription 80-93).
WithinBudget == Cardinality(Owned) <= Limit

BooksAgree ==
    /\ \A o \in Owners : Resting(o) => \A i \in Identities : o \in owners[i] <=> i \in held[o]
    /\ \A s \in Sessions : Resting(s) =>
          \A k \in Keys : s \in routes[k] <=> \E q \in Kinds : <<k, q>> \in held[s]
    /\ \A s \in Sessions : task[s].pc = "gone" =>
          /\ \A i \in Identities : s \notin owners[i]
          /\ \A k \in Keys : s \notin routes[k]
StreamsOwned ==
    Settled => /\ Owned \ broker \subseteq failed
               /\ broker \ Owned \subseteq failed \cup overtaken

\* What a session or the policy believes it holds is what the manager counts for it, and
\* a session gets a security's quotes exactly while it holds an identity of it; a session
\* that is gone owns nothing and gets nothing, unless the broker refused to let go while
\* it was being unregistered (realtime_hub.py unregister_connection 97-109, handle_subscribe
\* 152-173, handle_unsubscribe 254-268; realtime_alerts.py reconcile 167-193).
\* Once the link is up and replayed, the broker streams what somebody owns and nothing
\* else, except for identities whose last broker call failed and, the other way round, for
\* those released while the replay still had them ahead (shioaji_realtime_provider.py
\* acquire_subscription 204-209, release_subscription 211-223, _restore_subscriptions 246-248).
OwnersAgree == BooksAgree /\ StreamsOwned

\* The link comes back and every owner's identities with it, as long as no key without a
\* contract stays in the registry: that one key ends every connect
\* (shioaji_realtime_provider.py connect 140-160, stream_quotes 250-270).
Recovers == (<>[](\A i \in registry : i[1] \notin Unknown)) => <>[](connected /\ replay = {})
=============================================================================
