--------------------- MODULE RealtimeSubscriptionsProofs ---------------------
(***************************************************************************)
(* That the manager keeps to its budget, and that sessions, manager,       *)
(* registry and broker agree on the subscriptions, for any number of       *)
(* sessions, securities, failures and logins.                              *)
(***************************************************************************)
EXTENDS RealtimeSubscriptions, FiniteSetTheorems, TLAPS

Tasks == [pc: {"idle", "acquire", "release", "undo", "close", "gone", "broken"},
          todo: SUBSET Identities, done: SUBSET Identities, next: SUBSET Identities]

Types ==
    /\ owners \in [Identities -> SUBSET Owners]
    /\ held \in [Owners -> SUBSET Identities]
    /\ routes \in [Keys -> SUBSET Sessions]
    /\ task \in [Owners -> Tasks]
    /\ registry \in SUBSET Identities
    /\ replay \in SUBSET Identities
    /\ broker \in SUBSET Identities

Giving == {"release", "undo", "close"}
Taking == {"acquire"}

(* Under the lock, the owner is at the identity of the call, and manager   *)
(* and registry have noted what the call is for.                           *)
CallIsNoted ==
    call # NoCall =>
        /\ call.who \in Owners /\ call.id \in Identities /\ call.sub \in BOOLEAN
        /\ call.id \in task[call.who].todo
        /\ task[call.who].pc \in (IF call.sub THEN Taking ELSE Giving)
        /\ call.sub => owners[call.id] = {call.who} /\ call.id \in registry
        /\ ~call.sub => owners[call.id] = {} /\ call.id \notin registry

Asks(o, i) == call # NoCall /\ call.who = o /\ call.id = i

(* Owner and manager agree at once, except about the identity of a call.   *)
OwnersKnow ==
    \A o \in Owners, i \in Identities :
        IF Asks(o, i) THEN i \in held[o] <=> ~call.sub
        ELSE i \in held[o] <=> o \in owners[i]

Of(k, S) == \E q \in Kinds : <<k, q>> \in S
Routed(s, S) == \A k \in Keys : s \in routes[k] <=> Of(k, S)

(* A session's routes are those of what it held before its handler began,  *)
(* until the handler ends.                                                 *)
RoutedAsHeld(s) ==
    LET t == task[s]
    IN  /\ t.next = {}
        /\ t.pc = "idle" => Routed(s, held[s])
        /\ t.pc = "acquire" => /\ t.done \subseteq held[s] /\ t.todo \cap held[s] = {}
                               /\ Routed(s, held[s] \ t.done)
        /\ t.pc = "release" => t.todo \subseteq held[s] /\ Routed(s, held[s] \cup t.done)
        /\ t.pc = "undo" => t.todo \subseteq held[s] /\ Routed(s, held[s] \ t.todo)
        /\ t.pc = "close" => held[s] \subseteq t.todo
        /\ t.pc = "gone" => held[s] = {} /\ \A k \in Keys : s \notin routes[k]

BookInv == Types /\ CallIsNoted /\ OwnersKnow /\ \A s \in Sessions : RoutedAsHeld(s)

-----------------------------------------------------------------------------
LEMMA IdentitiesAreNoNone == ASSUME NEW i \in Identities PROVE i # <<>>
BY DEF Identities

LEMMA TaskType ==
    ASSUME NEW pc \in {"idle", "acquire", "release", "undo", "close", "gone", "broken"},
           NEW todo \in SUBSET Identities, NEW done \in SUBSET Identities,
           NEW next \in SUBSET Identities
    PROVE  Task(pc, todo, done, next) \in Tasks
BY DEF Task, Tasks

LEMMA BookInvInitially == ASSUME Init PROVE BookInv
<1>1. Idle \in Tasks
  BY TaskType DEF Idle
<1>2. Types
  BY <1>1 DEF Init, Types
<1>3. CallIsNoted /\ OwnersKnow
  BY DEF Init, CallIsNoted, OwnersKnow, Asks
<1>4. ASSUME NEW s \in Sessions PROVE RoutedAsHeld(s)
  BY DEF Init, RoutedAsHeld, Idle, Task, Routed, Of, Owners
<1> QED
  BY <1>2, <1>3, <1>4 DEF BookInv

(* What a handler makes of its task, its routes and its holdings, seen     *)
(* from the others.                                                        *)
LEMMA OthersRoutes ==
    ASSUME BookInv, NEW o \in Owners, NEW s \in Sessions, s # o,
           task'[s] = task[s], held'[s] = held[s],
           \A k \in Keys : s \in routes'[k] <=> s \in routes[k]
    PROVE  RoutedAsHeld(s)'
<1>1. RoutedAsHeld(s)
  BY DEF BookInv
<1>2. \A S : Routed(s, S) <=> Routed(s, S)'
  BY DEF Routed
<1> QED
  BY <1>1, <1>2 DEF RoutedAsHeld

LEMMA KeysOfSet ==
    ASSUME NEW done \in SUBSET Identities, NEW k \in Keys
    PROVE  k \in {j[1] : j \in done} <=> Of(k, done)
<1>1. ASSUME NEW j \in done, k = j[1] PROVE Of(k, done)
  <2>1. j = <<k, j[2]>> /\ j[2] \in Kinds
    BY <1>1 DEF Identities
  <2> QED
    BY <2>1 DEF Of
<1>2. ASSUME NEW q \in Kinds, <<k, q>> \in done PROVE \E j \in done : k = j[1]
  BY <1>2
<1> QED
  BY <1>1, <1>2 DEF Of

LEMMA OfUnion ==
    ASSUME NEW k, NEW A, NEW B PROVE Of(k, A \cup B) <=> Of(k, A) \/ Of(k, B)
BY DEF Of

(* A handler that ends leaves the routes of what the session holds.        *)
LEMMA RestsRouted ==
    ASSUME NEW s, task'[s] = Idle, \A k \in Keys : s \in routes'[k] <=> Of(k, held'[s])
    PROVE  RoutedAsHeld(s)'
<1>1. Idle.pc = "idle" /\ Idle.next = {}
  BY DEF Idle, Task
<1>2. Routed(s, held[s])'
  BY DEF Routed
<1> QED
  BY <1>1, <1>2 DEF RoutedAsHeld

LEMMA GoneUnrouted ==
    ASSUME NEW s, task'[s] = Task("gone", {}, {}, {}), held'[s] = {},
           \A k \in Keys : s \notin routes'[k]
    PROVE  RoutedAsHeld(s)'
<1>1. Task("gone", {}, {}, {}).pc = "gone" /\ Task("gone", {}, {}, {}).next = {}
  BY DEF Task
<1> QED
  BY <1>1 DEF RoutedAsHeld

(* The manager has done for identity i what the owner asked.               *)
LEMMA ProceedStep ==
    ASSUME BookInv, NEW o \in Owners, NEW sub \in BOOLEAN, NEW i \in task[o].todo,
           task[o].pc \in (IF sub THEN Taking ELSE Giving), Proceed(o, i, sub)
    PROVE  /\ held' = [held EXCEPT ![o] = IF sub THEN held[o] \cup {i} ELSE held[o] \ {i}]
           /\ held' \in [Owners -> SUBSET Identities]
           /\ routes' \in [Keys -> SUBSET Sessions]
           /\ task' \in [Owners -> Tasks]
           /\ \A s \in Sessions : RoutedAsHeld(s)'
<1> DEFINE t == task[o]
           h == IF sub THEN held[o] \cup {i} ELSE held[o] \ {i}
           todo == t.todo \ {i}
           done == IF t.pc = "undo" THEN t.done ELSE t.done \cup {i}
<1>1. /\ t \in Tasks /\ held[o] \in SUBSET Identities /\ i \in Identities
  BY DEF BookInv, Types, Tasks
<1>2. /\ h \in SUBSET Identities /\ todo \in SUBSET Identities /\ done \in SUBSET Identities
  BY <1>1 DEF Tasks
<1>3. held' = [held EXCEPT ![o] = h] /\ held' \in [Owners -> SUBSET Identities]
  BY <1>2 DEF Proceed, BookInv, Types
<1>4. PICK new \in Tasks : task' = [task EXCEPT ![o] = new]
  <2>1. [t EXCEPT !.todo = todo, !.done = done] \in Tasks
    BY <1>1, <1>2 DEF Tasks
  <2>2. Task("acquire", t.next, {}, {}) \in Tasks /\ Task("gone", {}, {}, {}) \in Tasks
        /\ Idle \in Tasks
    BY <1>1, TaskType DEF Idle, Tasks
  <2> QED
    BY <2>1, <2>2 DEF Proceed, Finish
<1>5. routes' \in [Keys -> SUBSET Sessions]
  BY DEF Proceed, Finish, BookInv, Types, Owners
<1>6. ASSUME NEW s \in Sessions, s # o PROVE RoutedAsHeld(s)'
  <2>1. task'[s] = task[s] /\ held'[s] = held[s]
    BY <1>3, <1>4, <1>6 DEF Owners, BookInv, Types
  <2>2. \A k \in Keys : s \in routes'[k] <=> s \in routes[k]
    BY <1>6 DEF Proceed, Finish, BookInv, Types
  <2> QED
    BY <1>6, <2>1, <2>2, OthersRoutes
<1>7. ASSUME o \in Sessions PROVE RoutedAsHeld(o)'
  <2>1. RoutedAsHeld(o) /\ o # Policy /\ t.next = {}
    BY <1>7, SubscriptionAssumption DEF BookInv, RoutedAsHeld
  <2>2. held'[o] = h
    BY <1>3 DEF BookInv, Types
  <2>3. CASE todo # {}
    <3>1. routes' = routes /\ task'[o] = [t EXCEPT !.todo = todo, !.done = done]
      BY <2>3 DEF Proceed, BookInv, Types
    <3>2. /\ task'[o].pc = t.pc /\ task'[o].todo = todo /\ task'[o].done = done
          /\ task'[o].next = t.next
      BY <1>1, <3>1 DEF Tasks
    <3>3. CASE t.pc = "acquire"
      <4>1. sub = TRUE /\ h = held[o] \cup {i} /\ done = t.done \cup {i} /\ i \notin held[o]
        BY <2>1, <3>3 DEF Giving, RoutedAsHeld
      <4>2. h \ done = held[o] \ t.done
        BY <4>1, <2>1, <3>3 DEF RoutedAsHeld
      <4> QED
        BY <2>1, <2>2, <3>1, <3>2, <3>3, <4>1, <4>2 DEF RoutedAsHeld, Routed
    <3>4. CASE t.pc \in Giving
      <4>1. h = held[o] \ {i}
        BY <3>4 DEF Giving, Taking
      <4>2. CASE t.pc = "release"
        <5>1. h \cup done = held[o] \cup t.done
          BY <2>1, <4>1, <4>2 DEF RoutedAsHeld
        <5> QED
          BY <2>1, <2>2, <3>1, <3>2, <4>1, <4>2, <5>1 DEF RoutedAsHeld, Routed
      <4>3. CASE t.pc = "undo"
        <5>1. h \ todo = held[o] \ t.todo
          BY <2>1, <4>1, <4>3 DEF RoutedAsHeld
        <5> QED
          BY <2>1, <2>2, <3>1, <3>2, <4>1, <4>3, <5>1 DEF RoutedAsHeld, Routed
      <4>4. CASE t.pc = "close"
        BY <2>1, <2>2, <3>1, <3>2, <4>1, <4>4 DEF RoutedAsHeld, Routed
      <4> QED
        BY <3>4, <4>2, <4>3, <4>4 DEF Giving
    <3> QED
      BY <3>3, <3>4 DEF Taking
  <2>4. CASE todo = {}
    <3>1. Finish(o, t.pc, done, h)
      BY <2>1, <2>4 DEF Proceed
    <3>2. task'[o] = IF t.pc = "close" THEN Task("gone", {}, {}, {}) ELSE Idle
      BY <3>1 DEF Finish, BookInv, Types
    <3>3. \A k \in Keys :
             o \in routes'[k] <=>
                CASE t.pc = "acquire" /\ k \in {j[1] : j \in done} -> TRUE
                  [] t.pc = "release" /\ Unrouted(k, done, h) -> FALSE
                  [] t.pc = "close" -> FALSE
                  [] OTHER -> o \in routes[k]
      BY <2>1, <3>1 DEF Finish
    <3>4. \A k \in Keys : k \in {j[1] : j \in done} <=> Of(k, done)
      BY <1>2, KeysOfSet
    <3>5. CASE t.pc = "acquire"
      <4>1. sub = TRUE /\ h = held[o] \cup {i} /\ done = t.done \cup {i} /\ i \notin held[o]
        BY <2>1, <3>5 DEF Giving, RoutedAsHeld
      <4>2. h = (held[o] \ t.done) \cup done /\ Routed(o, held[o] \ t.done)
        BY <2>1, <3>5, <4>1 DEF RoutedAsHeld
      <4>3. \A k \in Keys : Of(k, h) <=> Of(k, held[o] \ t.done) \/ Of(k, done)
        BY <4>2, OfUnion
      <4>4. \A k \in Keys : o \in routes'[k] <=> Of(k, h)
        BY <3>3, <3>4, <3>5, <4>2, <4>3 DEF Routed
      <4> QED
        BY <2>2, <3>2, <3>5, <4>4, RestsRouted
    <3>6. CASE t.pc = "release"
      <4>1. h = held[o] \ {i} /\ done = t.done \cup {i} /\ i \in held[o]
        BY <2>1, <3>6 DEF Taking, RoutedAsHeld
      <4>2. held[o] \cup t.done = h \cup done /\ Routed(o, held[o] \cup t.done)
        BY <2>1, <3>6, <4>1 DEF RoutedAsHeld
      <4>3. \A k \in Keys : o \in routes[k] <=> Of(k, h) \/ Of(k, done)
        BY <4>2, OfUnion DEF Routed
      <4>4. \A k \in Keys : Unrouted(k, done, h) <=> Of(k, done) /\ ~Of(k, h)
        BY <3>4 DEF Unrouted, Of
      <4>5. \A k \in Keys : o \in routes'[k] <=> Of(k, h)
        BY <3>3, <3>6, <4>3, <4>4
      <4> QED
        BY <2>2, <3>2, <3>6, <4>5, RestsRouted
    <3>7. CASE t.pc = "undo"
      <4>1. h = held[o] \ t.todo
        BY <2>1, <2>4, <3>7 DEF Taking, RoutedAsHeld
      <4>2. \A k \in Keys : o \in routes'[k] <=> Of(k, h)
        BY <2>1, <3>3, <3>7, <4>1 DEF RoutedAsHeld, Routed
      <4> QED
        BY <2>2, <3>2, <3>7, <4>2, RestsRouted
    <3>8. CASE t.pc = "close"
      <4>1. h = {}
        BY <2>1, <2>4, <3>8 DEF Taking, RoutedAsHeld
      <4> QED
        BY <2>2, <3>2, <3>3, <3>8, <4>1, GoneUnrouted
    <3> QED
      BY <3>5, <3>6, <3>7, <3>8 DEF Giving, Taking
  <2> QED
    BY <2>3, <2>4
<1> QED
  BY <1>3, <1>4, <1>5, <1>6, <1>7 DEF BookInv, Types

(* The manager has raised: holdings stay, and the handler begins to give   *)
(* up, or is at its end.                                                   *)
LEMMA RaiseStep ==
    ASSUME BookInv, NEW o \in Owners, task[o].pc \in Taking \cup Giving, Raise(o)
    PROVE  /\ held' = held
           /\ routes' \in [Keys -> SUBSET Sessions]
           /\ task' \in [Owners -> Tasks]
           /\ \A s \in Sessions : RoutedAsHeld(s)'
<1> DEFINE t == task[o]
<1>1. t \in Tasks /\ held[o] \in SUBSET Identities
  BY DEF BookInv, Types
<1>2. routes' \in [Keys -> SUBSET Sessions] /\ held' = held
  BY DEF Raise, BookInv, Types
<1>3. \A todo \in SUBSET Identities, pc \in {"close", "undo", "gone", "broken"} :
          Task(pc, todo, {}, {}) \in Tasks
  BY TaskType
<1>4. Idle \in Tasks
  BY TaskType DEF Idle
<1>5. t.done \in SUBSET Identities
  BY <1>1 DEF Tasks
<1>6. PICK new \in Tasks : task' = [task EXCEPT ![o] = new]
  <2>1. CASE o = Policy
    BY <1>3, <1>4, <1>5, <2>1 DEF Raise
  <2>2. CASE o # Policy
    BY <1>1, <1>3, <2>2 DEF Raise
  <2> QED
    BY <2>1, <2>2
<1>7. ASSUME NEW s \in Sessions, s # o PROVE RoutedAsHeld(s)'
  <2>1. task'[s] = task[s] /\ held'[s] = held[s]
    BY <1>2, <1>6, <1>7 DEF Owners, BookInv, Types
  <2>2. \A k \in Keys : s \in routes'[k] <=> s \in routes[k]
    BY <1>7 DEF Raise, BookInv, Types
  <2> QED
    BY <1>7, <2>1, <2>2, OthersRoutes
<1>8. ASSUME o \in Sessions PROVE RoutedAsHeld(o)'
  <2>1. o # Policy
    BY <1>8, SubscriptionAssumption
  <2>2. CASE t.pc = "close"
    <3>1. task'[o] = Task("broken", {}, {}, {})
      BY <2>1, <2>2 DEF Raise, BookInv, Types
    <3> QED
      BY <3>1 DEF RoutedAsHeld, Task
  <2>3. CASE t.pc # "close" /\ held[o] # {}
    <3>1. task'[o] = Task("close", held[o], {}, {})
      BY <2>1, <2>3 DEF Raise, BookInv, Types
    <3> QED
      BY <1>2, <3>1 DEF RoutedAsHeld, Task
  <2>4. CASE t.pc # "close" /\ held[o] = {}
    <3>1. task'[o] = Task("gone", {}, {}, {})
      BY <2>1, <2>4 DEF Raise, BookInv, Types
    <3>2. \A k \in Keys : o \notin routes'[k]
      BY <2>1, <2>4 DEF Raise
    <3> QED
      BY <1>2, <2>4, <3>1, <3>2, GoneUnrouted
  <2> QED
    BY <2>2, <2>3, <2>4
<1> QED
  BY <1>2, <1>6, <1>7, <1>8 DEF BookInv, Types

-----------------------------------------------------------------------------
(* A handler begins, maybe while the call of another is under way.         *)
LEMMA HandlerBegins ==
    ASSUME BookInv, NEW o \in Owners, task[o].pc = "idle", NEW new \in Tasks,
           task' = [task EXCEPT ![o] = new], routes' \in [Keys -> SUBSET Sessions],
           \A s \in Sessions \ {o}, k \in Keys : s \in routes'[k] <=> s \in routes[k],
           UNCHANGED <<owners, held, call, registry, replay, broker>>,
           o \in Sessions => RoutedAsHeld(o)'
    PROVE  BookInv'
<1>1. task'[o] = new /\ \A p \in Owners \ {o} : task'[p] = task[p]
  BY DEF BookInv, Types
<1>2. Types'
  BY DEF BookInv, Types
<1>3. call # NoCall => call.who # o
  BY DEF BookInv, CallIsNoted, Taking, Giving
<1>4. CallIsNoted'
  BY <1>1, <1>3 DEF BookInv, CallIsNoted
<1>5. OwnersKnow'
  BY DEF BookInv, OwnersKnow, Asks
<1>6. ASSUME NEW s \in Sessions, s # o PROVE RoutedAsHeld(s)'
  BY <1>1, <1>6, OthersRoutes DEF Owners
<1> QED
  BY <1>2, <1>4, <1>5, <1>6 DEF BookInv

LEMMA SubscribeStep ==
    ASSUME BookInv, NEW s \in Sessions, NEW target \in Targets,
           Subscribe(s, target[1], target[2])
    PROVE  BookInv'
<1> DEFINE k == target[1]
           new == ({k} \X target[2]) \ held[s]
<1>1. k \in Keys /\ target[2] \subseteq Kinds /\ target[2] # {}
  <2>1. target \in Keys \X SUBSET Kinds /\ target[2] # {}
    BY SubscriptionAssumption
  <2> QED
    BY <2>1
<1>2. s \in Owners /\ task[s].pc = "idle" /\ task[s] \in Tasks /\ held[s] \in SUBSET Identities
  BY DEF Subscribe, Owners, BookInv, Types
<1>3. RoutedAsHeld(s) /\ Routed(s, held[s])
  BY <1>2 DEF BookInv, RoutedAsHeld
<1>4. CASE new = {}
  <2>1. routes' = [routes EXCEPT ![k] = @ \cup {s}] /\ task' = task
    BY <1>4 DEF Subscribe
  <2>2. Of(k, held[s])
    BY <1>1, <1>4 DEF Of
  <2>3. \A x \in Keys : s \in routes'[x] <=> s \in routes[x]
    BY <1>1, <1>3, <2>1, <2>2 DEF BookInv, Types, Routed
  <2>4. routes' = routes
    BY <1>1, <2>1, <2>3 DEF BookInv, Types
  <2>5. task' = [task EXCEPT ![s] = task[s]]
    BY <2>1 DEF BookInv, Types
  <2>6. RoutedAsHeld(s)'
    BY <1>3, <2>1, <2>4 DEF RoutedAsHeld, Routed, Subscribe
  <2> QED
    BY <1>2, <2>4, <2>5, <2>6, HandlerBegins DEF Subscribe, BookInv, Types
<1>5. CASE new # {}
  <2>1. task' = [task EXCEPT ![s] = Task("acquire", new, {}, {})] /\ routes' = routes /\ held' = held
    BY <1>5 DEF Subscribe
  <2>2. Task("acquire", new, {}, {}) \in Tasks
    <3>1. new \in SUBSET Identities
      BY <1>1 DEF Identities
    <3> QED
      BY <3>1, TaskType
  <2>3. task'[s] = Task("acquire", new, {}, {})
    BY <1>2, <2>1 DEF BookInv, Types
  <2>4. /\ task'[s].pc = "acquire" /\ task'[s].todo = new
        /\ task'[s].done = {} /\ task'[s].next = {}
    BY <2>3 DEF Task
  <2>5. RoutedAsHeld(s)'
    BY <1>3, <2>1, <2>4, ZenonT(30) DEF RoutedAsHeld, Routed
  <2> QED
    BY <1>2, <2>1, <2>2, <2>5, HandlerBegins DEF Subscribe, BookInv, Types
<1> QED
  BY <1>4, <1>5

LEMMA UnsubscribeStep ==
    ASSUME BookInv, NEW s \in Sessions, NEW target \in Targets,
           Unsubscribe(s, target[1], target[2])
    PROVE  BookInv'
<1> DEFINE old == ({target[1]} \X target[2]) \cap held[s]
<1>1. s \in Owners /\ task[s].pc = "idle" /\ held[s] \in SUBSET Identities
  BY DEF Unsubscribe, Owners, BookInv, Types
<1>2. RoutedAsHeld(s) /\ Routed(s, held[s])
  BY <1>1 DEF BookInv, RoutedAsHeld
<1>3. task' = [task EXCEPT ![s] = Task("release", old, {}, {})] /\ routes' = routes /\ held' = held
  BY DEF Unsubscribe
<1>4. Task("release", old, {}, {}) \in Tasks
  BY <1>1, TaskType
<1>5. task'[s] = Task("release", old, {}, {})
  BY <1>1, <1>3 DEF BookInv, Types
<1>6. /\ task'[s].pc = "release" /\ task'[s].todo = old
      /\ task'[s].done = {} /\ task'[s].next = {}
  BY <1>5 DEF Task
<1>7. RoutedAsHeld(s)'
  BY <1>2, <1>3, <1>6 DEF RoutedAsHeld, Routed
<1> QED
  BY <1>1, <1>3, <1>4, <1>7, HandlerBegins DEF Unsubscribe, BookInv, Types

LEMMA CloseStep == ASSUME BookInv, NEW s \in Sessions, Close(s) PROVE BookInv'
<1>1. s \in Owners /\ task[s].pc = "idle" /\ held[s] \in SUBSET Identities
  BY DEF Close, Owners, BookInv, Types
<1>2. held' = held /\ routes' \in [Keys -> SUBSET Sessions]
      /\ \A x \in Sessions \ {s}, k \in Keys : x \in routes'[k] <=> x \in routes[k]
  BY DEF Close, BookInv, Types
<1>3. PICK new \in Tasks : task' = [task EXCEPT ![s] = new]
  BY <1>1, TaskType DEF Close
<1>4. RoutedAsHeld(s)'
  <2>1. CASE held[s] = {}
    <3>1. task'[s] = Task("gone", {}, {}, {}) /\ \A k \in Keys : s \notin routes'[k]
      BY <1>1, <2>1 DEF Close, BookInv, Types
    <3> QED
      BY <1>2, <2>1, <3>1, GoneUnrouted
  <2>2. CASE held[s] # {}
    <3>1. task'[s] = Task("close", held[s], {}, {})
      BY <1>1, <2>2 DEF Close, BookInv, Types
    <3> QED
      BY <1>2, <3>1 DEF RoutedAsHeld, Task
  <2> QED
    BY <2>1, <2>2
<1> QED
  BY <1>1, <1>2, <1>3, <1>4, HandlerBegins DEF Close

LEMMA ReconcileStep == ASSUME BookInv, NEW keys \in Watched, Reconcile(keys) PROVE BookInv'
<1> DEFINE want == keys \X {Tick}
<1>1. Policy \in Owners /\ Policy \notin Sessions /\ held[Policy] \in SUBSET Identities
  BY SubscriptionAssumption DEF Owners, BookInv, Types
<1>2. want \in SUBSET Identities
  BY SubscriptionAssumption DEF Identities
<1>3. PICK new \in Tasks : task' = [task EXCEPT ![Policy] = new]
  BY <1>1, <1>2, TaskType DEF Reconcile
<1> QED
  BY <1>1, <1>3, HandlerBegins DEF Reconcile, BookInv, Types

-----------------------------------------------------------------------------
(* Under the lock: what is asked about is one of the task's identities.    *)
LEMMA AtOnceStep ==
    ASSUME BookInv, NEW o \in Owners, NEW i \in Identities,
           AcquireAtOnce(o, i) \/ ReleaseAtOnce(o, i)
    PROVE  BookInv'
<1> DEFINE sub == task[o].pc = "acquire"
<1>1. /\ call = NoCall /\ call' = NoCall
      /\ sub \in BOOLEAN /\ i \in task[o].todo
      /\ task[o].pc \in (IF sub THEN Taking ELSE Giving)
      /\ Proceed(o, i, sub)
      /\ owners' = [owners EXCEPT ![i] = IF sub THEN @ \cup {o} ELSE @ \ {o}]
  <2>1. CASE AcquireAtOnce(o, i)
    <3>1. sub = TRUE
      BY <2>1 DEF AcquireAtOnce
    <3> QED
      BY <2>1, <3>1 DEF AcquireAtOnce, Taking
  <2>2. CASE ReleaseAtOnce(o, i)
    <3>1. sub = FALSE
      BY <2>2 DEF ReleaseAtOnce
    <3> QED
      BY <2>2, <3>1 DEF ReleaseAtOnce, Giving
  <2> QED
    BY <2>1, <2>2
<1>2. /\ held' = [held EXCEPT ![o] = IF sub THEN held[o] \cup {i} ELSE held[o] \ {i}]
      /\ held' \in [Owners -> SUBSET Identities]
      /\ routes' \in [Keys -> SUBSET Sessions]
      /\ task' \in [Owners -> Tasks]
      /\ \A s \in Sessions : RoutedAsHeld(s)'
  <2> HIDE DEF sub
  <2> QED
    BY <1>1, ProceedStep
<1>3. registry' \in SUBSET Identities /\ UNCHANGED <<replay, broker>>
  BY DEF AcquireAtOnce, ReleaseAtOnce, BookInv, Types
<1>4. Types'
  BY <1>1, <1>2, <1>3 DEF BookInv, Types
<1>5. CallIsNoted'
  BY <1>1 DEF CallIsNoted
<1>6. OwnersKnow'
  BY <1>1, <1>2 DEF OwnersKnow, Asks, BookInv, Types
<1> QED
  BY <1>2, <1>4, <1>5, <1>6 DEF BookInv

LEMMA RefusedStep ==
    ASSUME BookInv, NEW o \in Owners, NEW i \in Identities, AcquireRefused(o, i)
    PROVE  BookInv'
<1> DEFINE t == task[o]
<1>1. /\ t \in Tasks /\ t.pc = "acquire" /\ call = NoCall
      /\ UNCHANGED <<owners, held, routes, call, registry, replay, broker>>
  BY DEF AcquireRefused, BookInv, Types
<1>2. PICK new \in Tasks : task' = [task EXCEPT ![o] = new]
  <2>1. [t EXCEPT !.todo = @ \ {i}] \in Tasks /\ t.done \in SUBSET Identities
    BY <1>1 DEF Tasks
  <2>2. Task("undo", t.done, {}, {}) \in Tasks /\ Idle \in Tasks
    BY <2>1, TaskType DEF Idle
  <2> QED
    BY <2>1, <2>2 DEF AcquireRefused
<1>3. Types' /\ CallIsNoted' /\ OwnersKnow'
  BY <1>1, <1>2 DEF BookInv, Types, CallIsNoted, OwnersKnow, Asks
<1>4. ASSUME NEW s \in Sessions, s # o PROVE RoutedAsHeld(s)'
  <2>1. task'[s] = task[s]
    BY <1>2, <1>4 DEF BookInv, Types, Owners
  <2> QED
    BY <1>1, <1>4, <2>1, OthersRoutes
<1>5. ASSUME o \in Sessions PROVE RoutedAsHeld(o)'
  <2>1. /\ o # Policy /\ RoutedAsHeld(o)
        /\ t.done \subseteq held[o] /\ Routed(o, held[o] \ t.done)
    BY <1>1, <1>5, SubscriptionAssumption DEF BookInv, RoutedAsHeld
  <2>2. CASE t.done # {}
    <3>1. task'[o] = Task("undo", t.done, {}, {})
      BY <2>1, <2>2 DEF AcquireRefused, BookInv, Types
    <3>2. task'[o].pc = "undo" /\ task'[o].todo = t.done /\ task'[o].next = {}
      BY <3>1 DEF Task
    <3> QED
      BY <1>1, <2>1, <3>2 DEF RoutedAsHeld, Routed
  <2>3. CASE t.done = {}
    <3>1. task'[o] = Idle
      BY <2>1, <2>3 DEF AcquireRefused, BookInv, Types
    <3>2. held[o] \ t.done = held[o]
      BY <2>3
    <3> QED
      BY <1>1, <2>1, <3>1, <3>2, RestsRouted DEF Routed
  <2> QED
    BY <2>2, <2>3
<1> QED
  BY <1>3, <1>4, <1>5 DEF BookInv

(* The broker is asked, unless it has no contract for the key.             *)
LEMMA CallStep ==
    ASSUME BookInv, NEW o \in Owners, NEW i \in Identities,
           AcquireCall(o, i) \/ ReleaseCall(o, i)
    PROVE  BookInv'
<1> DEFINE sub == task[o].pc = "acquire"
<1>1. /\ call = NoCall /\ i \in task[o].todo
      /\ task[o].pc \in (IF sub THEN Taking ELSE Giving)
      /\ task[o].pc \in Taking \cup Giving
      /\ owners[i] = (IF sub THEN {} ELSE {o})
      /\ registry' = (IF sub THEN registry \cup {i} ELSE registry \ {i})
      /\ UNCHANGED <<replay, broker>>
  BY DEF AcquireCall, ReleaseCall, Taking, Giving
<1>2. CASE i[1] \in Unknown
  <2>1. Raise(o) /\ UNCHANGED <<owners, call>>
    BY <1>2 DEF AcquireCall, ReleaseCall
  <2>2. /\ held' = held
        /\ routes' \in [Keys -> SUBSET Sessions]
        /\ task' \in [Owners -> Tasks]
        /\ \A s \in Sessions : RoutedAsHeld(s)'
    BY <1>1, <2>1, RaiseStep
  <2>3. Types' /\ CallIsNoted' /\ OwnersKnow'
    BY <1>1, <2>1, <2>2 DEF BookInv, Types, CallIsNoted, OwnersKnow, Asks
  <2> QED
    BY <2>2, <2>3 DEF BookInv
<1>3. CASE i[1] \notin Unknown
  <2>1. /\ owners' = [owners EXCEPT ![i] = IF sub THEN {o} ELSE {}]
        /\ call' = [who |-> o, id |-> i, sub |-> sub]
        /\ UNCHANGED <<held, routes, task>>
    <3>1. CASE AcquireCall(o, i)
      <4>1. sub = TRUE
        BY <3>1 DEF AcquireCall
      <4> QED
        BY <1>3, <3>1, <4>1 DEF AcquireCall
    <3>2. CASE ReleaseCall(o, i)
      <4>1. sub = FALSE
        BY <3>2 DEF ReleaseCall
      <4> QED
        BY <1>3, <3>2, <4>1 DEF ReleaseCall
    <3> QED
      BY <3>1, <3>2
  <2>2. call'.who = o /\ call'.id = i /\ call'.sub = sub /\ call' # NoCall
    BY <2>1, IdentitiesAreNoNone DEF NoCall
  <2>3. Types'
    BY <1>1, <2>1 DEF BookInv, Types
  <2>4. CallIsNoted'
    BY <1>1, <2>1, <2>2 DEF BookInv, Types, CallIsNoted
  <2>5. OwnersKnow'
    BY <1>1, <2>1, <2>2, ZenonT(30) DEF BookInv, Types, OwnersKnow, Asks
  <2>6. \A s \in Sessions : RoutedAsHeld(s)'
    BY <2>1 DEF BookInv, RoutedAsHeld, Routed
  <2> QED
    BY <2>3, <2>4, <2>5, <2>6 DEF BookInv
<1> QED
  BY <1>2, <1>3

LEMMA AnswerStep == ASSUME BookInv, Answer PROVE BookInv'
<1> DEFINE o == call.who
           i == call.id
<1>1. /\ call # NoCall /\ call' = NoCall /\ UNCHANGED <<registry, replay>>
      /\ o \in Owners /\ i \in Identities /\ call.sub \in BOOLEAN /\ i \in task[o].todo
      /\ task[o].pc \in (IF call.sub THEN Taking ELSE Giving)
      /\ owners[i] = IF call.sub THEN {o} ELSE {}
  BY DEF Answer, CallReturns, CallRaises, BookInv, CallIsNoted
<1>2. CallIsNoted'
  BY <1>1 DEF CallIsNoted
<1>3. CASE CallReturns
  <2>1. Proceed(o, i, call.sub) /\ owners' = owners /\ broker' \in SUBSET Identities
    BY <1>1, <1>3 DEF CallReturns, BookInv, Types
  <2>2. /\ held' = [held EXCEPT ![o] = IF call.sub THEN held[o] \cup {i} ELSE held[o] \ {i}]
        /\ held' \in [Owners -> SUBSET Identities]
        /\ routes' \in [Keys -> SUBSET Sessions]
        /\ task' \in [Owners -> Tasks]
        /\ \A s \in Sessions : RoutedAsHeld(s)'
    BY <1>1, <2>1, ProceedStep
  <2>3. Types'
    BY <1>1, <2>1, <2>2 DEF BookInv, Types
  <2>4. OwnersKnow'
    BY <1>1, <2>1, <2>2 DEF BookInv, Types, OwnersKnow, Asks
  <2> QED
    BY <1>2, <2>2, <2>3, <2>4 DEF BookInv
<1>4. CASE CallRaises
  <2>1. /\ Raise(o) /\ broker' = broker
        /\ owners' = [owners EXCEPT ![i] = IF call.sub THEN {} ELSE {o}]
    BY <1>1, <1>4 DEF CallRaises
  <2>2. /\ held' = held
        /\ routes' \in [Keys -> SUBSET Sessions]
        /\ task' \in [Owners -> Tasks]
        /\ \A s \in Sessions : RoutedAsHeld(s)'
    BY <1>1, <2>1, RaiseStep
  <2>3. Types'
    BY <1>1, <2>1, <2>2 DEF BookInv, Types
  <2>4. OwnersKnow'
    BY <1>1, <2>1, <2>2 DEF BookInv, Types, OwnersKnow, Asks
  <2> QED
    BY <1>2, <2>2, <2>3, <2>4 DEF BookInv
<1> QED
  BY <1>3, <1>4 DEF Answer

(* Logins and lost links change none of the books.                         *)
LEMMA LinkStep ==
    ASSUME BookInv, Provider \/ LinkDown \/ UNCHANGED vars
    PROVE  BookInv'
<1>1. /\ UNCHANGED <<owners, held, routes, task, call, registry>>
      /\ replay' \in SUBSET Identities /\ broker' \in SUBSET Identities
  BY DEF Provider, Connect, ToReplay, Restore, RestoreFails, LinkDown, vars, BookInv, Types
<1>2. Types' /\ CallIsNoted' /\ OwnersKnow'
  BY <1>1 DEF BookInv, Types, CallIsNoted, OwnersKnow, Asks
<1>3. \A s \in Sessions : RoutedAsHeld(s)'
  BY <1>1 DEF BookInv, RoutedAsHeld, Routed
<1> QED
  BY <1>2, <1>3 DEF BookInv

LEMMA BookStep == ASSUME BookInv, [Next]_vars PROVE BookInv'
<1>1. ASSUME NEW o \in Owners, Work(o) PROVE BookInv'
  BY <1>1, AtOnceStep, RefusedStep, CallStep DEF Work
<1>2. CASE Client
  BY <1>2, SubscribeStep, UnsubscribeStep, CloseStep, ReconcileStep DEF Client
<1> QED
  BY <1>1, <1>2, AnswerStep, LinkStep DEF Next

-----------------------------------------------------------------------------
(* The budget: while a call gives up an identity, its place is kept, since *)
(* the manager counts it again if the call fails.                          *)
Kept == IF call # NoCall /\ ~call.sub THEN {call.id} ELSE {}

BudgetInv ==
    /\ IsFiniteSet(Owned)
    /\ Cardinality(Owned \cup Kept) <= Limit

LEMMA WithinBudgetByInv == ASSUME BudgetInv PROVE WithinBudget
<1>1. IsFiniteSet(Owned \cup Kept)
  BY FS_Singleton, FS_EmptySet, FS_Union DEF BudgetInv, Kept
<1>2. Cardinality(Owned) <= Cardinality(Owned \cup Kept)
  BY <1>1, FS_Subset
<1> QED
  BY <1>1, <1>2, FS_Subset, FS_CardinalityType, SubscriptionAssumption
  DEF BudgetInv, WithinBudget

(* It is enough that a step adds an identity when there is room, or to     *)
(* the place that was kept.                                                *)
LEMMA BudgetBySubset ==
    ASSUME BudgetInv, Owned' \cup Kept' \subseteq Owned \cup Kept
    PROVE  BudgetInv'
<1>1. IsFiniteSet(Owned \cup Kept)
  BY FS_Singleton, FS_EmptySet, FS_Union DEF BudgetInv, Kept
<1>2. /\ IsFiniteSet(Owned' \cup Kept') /\ IsFiniteSet(Owned')
      /\ Cardinality(Owned' \cup Kept') <= Cardinality(Owned \cup Kept)
  BY <1>1, FS_Subset
<1> QED
  BY <1>1, <1>2, FS_CardinalityType, SubscriptionAssumption DEF BudgetInv

LEMMA BudgetByRoom ==
    ASSUME BudgetInv, Room, NEW i, Owned' \cup Kept' = Owned \cup {i}, Owned' \subseteq Owned \cup {i}
    PROVE  BudgetInv'
<1> DEFINE more == Owned \cup {i}
<1>1. IsFiniteSet(Owned) /\ IsFiniteSet(more) /\ Cardinality(Owned) \in Nat
  BY FS_AddElement, FS_CardinalityType DEF BudgetInv
<1>2. IsFiniteSet(Owned')
  BY <1>1, FS_Subset
<1>3. Cardinality(more) = Cardinality(Owned) \/ Cardinality(more) = Cardinality(Owned) + 1
  BY <1>1, FS_AddElement
<1>4. Limit \in Nat
  BY SubscriptionAssumption
<1> HIDE DEF more
<1>5. Cardinality(more) <= Limit
  BY <1>1, <1>3, <1>4 DEF Room
<1> QED
  BY <1>2, <1>5 DEF BudgetInv, more

LEMMA BudgetStep == ASSUME BookInv, BudgetInv, [Next]_vars PROVE BudgetInv'
<1>1. ASSUME UNCHANGED <<owners, call>> PROVE BudgetInv'
  <2>1. Owned' = Owned /\ Kept' = Kept
    BY <1>1 DEF Owned, Kept
  <2> QED
    BY <2>1, BudgetBySubset
<1>2. ASSUME NEW o \in Owners, NEW i \in Identities, AcquireAtOnce(o, i) PROVE BudgetInv'
  <2>1. call = NoCall /\ Kept = {} /\ Kept' = {} /\ owners' = [owners EXCEPT ![i] = @ \cup {o}]
    BY <1>2 DEF AcquireAtOnce, Kept
  <2>2. Owned' = Owned \cup {i}
    BY <2>1 DEF Owned, BookInv, Types
  <2>3. CASE owners[i] # {}
    <3>1. i \in Owned
      BY <2>3 DEF Owned
    <3> QED
      BY <2>1, <2>2, <3>1, BudgetBySubset
  <2>4. CASE Room
    BY <2>1, <2>2, <2>4, BudgetByRoom
  <2> QED
    BY <1>2, <2>3, <2>4 DEF AcquireAtOnce
<1>3. ASSUME NEW o \in Owners, NEW i \in Identities, AcquireCall(o, i) PROVE BudgetInv'
  <2>1. CASE i[1] \in Unknown
    BY <1>1, <1>3, <2>1 DEF AcquireCall
  <2>2. CASE i[1] \notin Unknown
    <3>1. /\ Room /\ owners' = [owners EXCEPT ![i] = {o}]
          /\ call' = [who |-> o, id |-> i, sub |-> TRUE]
      BY <1>3, <2>2 DEF AcquireCall
    <3>2. Owned' = Owned \cup {i} /\ Kept' = {}
      BY <3>1 DEF Owned, Kept, BookInv, Types
    <3> QED
      BY <3>1, <3>2, BudgetByRoom
  <2> QED
    BY <2>1, <2>2
<1>4. ASSUME NEW o \in Owners, NEW i \in Identities, ReleaseAtOnce(o, i) PROVE BudgetInv'
  <2>1. call = NoCall /\ Kept = {} /\ Kept' = {} /\ owners' = [owners EXCEPT ![i] = @ \ {o}]
    BY <1>4 DEF ReleaseAtOnce, Kept
  <2>2. Owned' \subseteq Owned
    BY <2>1 DEF Owned, BookInv, Types
  <2> QED
    BY <2>1, <2>2, BudgetBySubset
<1>5. ASSUME NEW o \in Owners, NEW i \in Identities, ReleaseCall(o, i) PROVE BudgetInv'
  <2>1. CASE i[1] \in Unknown
    BY <1>1, <1>5, <2>1 DEF ReleaseCall
  <2>2. CASE i[1] \notin Unknown
    <3>1. /\ owners[i] = {o} /\ owners' = [owners EXCEPT ![i] = {}]
          /\ call' = [who |-> o, id |-> i, sub |-> FALSE]
      BY <1>5, <2>2 DEF ReleaseCall
    <3>2. i \in Owned /\ Owned' \subseteq Owned
      BY <3>1 DEF Owned, BookInv, Types
    <3>3. Kept' \subseteq {i}
      BY <3>1 DEF Kept
    <3> QED
      BY <3>2, <3>3, BudgetBySubset
  <2> QED
    BY <2>1, <2>2
<1>6. ASSUME Answer PROVE BudgetInv'
  <2>1. call # NoCall /\ call' = NoCall /\ Kept' = {}
    BY <1>6 DEF Answer, CallReturns, CallRaises, Kept
  <2>2. Owned' \subseteq Owned \cup Kept
    <3>1. CASE CallReturns
      BY <3>1 DEF CallReturns, Owned
    <3>2. CASE CallRaises
      <4>1. owners' = [owners EXCEPT ![call.id] = IF call.sub THEN @ \ {call.who}
                                                  ELSE @ \cup {call.who}]
        BY <3>2 DEF CallRaises
      <4>2. CASE call.sub
        BY <4>1, <4>2 DEF Owned, BookInv, Types
      <4>3. CASE ~call.sub
        BY <2>1, <4>1, <4>3 DEF Owned, Kept, BookInv, Types
      <4> QED
        BY <4>2, <4>3
    <3> QED
      BY <1>6, <3>1, <3>2 DEF Answer
  <2> QED
    BY <2>1, <2>2, BudgetBySubset
<1>7. ASSUME NEW o \in Owners, NEW i \in Identities, AcquireRefused(o, i) PROVE BudgetInv'
  BY <1>1, <1>7 DEF AcquireRefused
<1>8. ASSUME Client \/ Provider \/ LinkDown \/ UNCHANGED vars PROVE BudgetInv'
  BY <1>1, <1>8 DEF Client, Subscribe, Unsubscribe, Close, Reconcile, Provider, Connect, Restore,
     RestoreFails, LinkDown, vars
<1> QED
  BY <1>2, <1>3, <1>4, <1>5, <1>6, <1>7, <1>8 DEF Next, Work

-----------------------------------------------------------------------------
(* The streams: what manager and registry, and registry and broker, may    *)
(* disagree about.                                                         *)
UnderWay == IF call # NoCall THEN {call.id} ELSE {}

StreamInv ==
    /\ Owned \ registry \subseteq failed
    /\ registry \ Owned \subseteq failed
    /\ connected => /\ registry \ broker \subseteq replay \cup UnderWay \cup failed
                    /\ broker \ registry \subseteq UnderWay \cup failed \cup overtaken
    /\ replay \ registry \subseteq overtaken

LEMMA StreamsOwnedByInv == ASSUME BookInv, StreamInv PROVE StreamsOwned
BY DEF StreamInv, StreamsOwned, Settled, UnderWay

LEMMA StreamStep == ASSUME BookInv, StreamInv, [Next]_vars PROVE StreamInv'
<1>1. ASSUME UNCHANGED <<owners, call, registry, connected, replay, broker, failed, overtaken>>
      PROVE  StreamInv'
  BY <1>1 DEF StreamInv, Owned, UnderWay
<1>2. ASSUME NEW o \in Owners, NEW i \in Identities, AcquireAtOnce(o, i) PROVE StreamInv'
  <2>1. /\ Owned' = Owned \cup {i} /\ registry' = registry \cup {i}
        /\ call = NoCall /\ call' = NoCall
        /\ UNCHANGED <<connected, replay, broker, failed, overtaken>>
    BY <1>2 DEF AcquireAtOnce, Owned, BookInv, Types
  <2>2. connected => i \in registry \/ i \in Owned
    BY <1>2 DEF AcquireAtOnce, Owned
  <2> QED
    BY <2>1, <2>2 DEF StreamInv, UnderWay
<1>3. ASSUME NEW o \in Owners, NEW i \in Identities, AcquireCall(o, i) PROVE StreamInv'
  <2>1. /\ registry' = registry \cup {i} /\ call = NoCall /\ owners[i] = {}
        /\ UNCHANGED <<connected, replay, broker, overtaken>>
    BY <1>3 DEF AcquireCall
  <2>2. CASE i[1] \in Unknown
    <3>1. Owned' = Owned /\ call' = NoCall /\ failed' = failed \cup {i}
      BY <1>3, <2>1, <2>2 DEF AcquireCall, Owned
    <3> QED
      BY <2>1, <3>1 DEF StreamInv, UnderWay
  <2>3. CASE i[1] \notin Unknown
    <3>1. /\ Owned' = Owned \cup {i} /\ failed' = failed
          /\ call' = [who |-> o, id |-> i, sub |-> TRUE]
      BY <1>3, <2>3 DEF AcquireCall, Owned, BookInv, Types
    <3>2. UnderWay' = {i}
      BY <3>1, IdentitiesAreNoNone DEF UnderWay, NoCall
    <3> QED
      BY <2>1, <3>1, <3>2 DEF StreamInv, UnderWay
  <2> QED
    BY <2>2, <2>3
<1>4. ASSUME NEW o \in Owners, NEW i \in Identities, ReleaseAtOnce(o, i) PROVE StreamInv'
  <2>1. /\ call = NoCall /\ call' = NoCall
        /\ owners' = [owners EXCEPT ![i] = @ \ {o}]
        /\ UNCHANGED <<connected, replay, broker, failed>>
    BY <1>4 DEF ReleaseAtOnce
  <2>2. CASE owners[i] = {o}
    <3>1. /\ Owned' = Owned \ {i} /\ registry' = registry \ {i}
          /\ overtaken' = IF i \in replay THEN overtaken \cup {i} ELSE overtaken
          /\ i \notin registry \/ ~connected
      BY <1>4, <2>1, <2>2 DEF ReleaseAtOnce, Owned, BookInv, Types
    <3> QED
      BY <2>1, <3>1 DEF StreamInv, UnderWay
  <2>3. CASE owners[i] # {o}
    <3>1. Owned' = Owned /\ registry' = registry /\ overtaken' = overtaken
      BY <1>4, <2>1, <2>3 DEF ReleaseAtOnce, Owned, BookInv, Types
    <3> QED
      BY <2>1, <3>1 DEF StreamInv, UnderWay
  <2> QED
    BY <2>2, <2>3
<1>5. ASSUME NEW o \in Owners, NEW i \in Identities, ReleaseCall(o, i) PROVE StreamInv'
  <2>1. /\ registry' = registry \ {i} /\ call = NoCall /\ owners[i] = {o}
        /\ overtaken' = IF i \in replay THEN overtaken \cup {i} ELSE overtaken
        /\ UNCHANGED <<connected, replay, broker>>
    BY <1>5 DEF ReleaseCall
  <2>2. CASE i[1] \in Unknown
    <3>1. Owned' = Owned /\ call' = NoCall /\ failed' = failed \cup {i}
      BY <1>5, <2>1, <2>2 DEF ReleaseCall, Owned
    <3> QED
      BY <2>1, <3>1 DEF StreamInv, UnderWay
  <2>3. CASE i[1] \notin Unknown
    <3>1. /\ Owned' = Owned \ {i} /\ failed' = failed
          /\ call' = [who |-> o, id |-> i, sub |-> FALSE]
      BY <1>5, <2>3 DEF ReleaseCall, Owned, BookInv, Types
    <3>2. UnderWay' = {i}
      BY <3>1, IdentitiesAreNoNone DEF UnderWay, NoCall
    <3> QED
      BY <2>1, <3>1, <3>2 DEF StreamInv, UnderWay
  <2> QED
    BY <2>2, <2>3
<1>6. ASSUME CallReturns PROVE StreamInv'
  <2> DEFINE i == call.id
  <2>1. /\ call # NoCall /\ call' = NoCall /\ Owned' = Owned
        /\ broker' = (IF call.sub THEN broker \cup {i} ELSE broker \ {i})
        /\ failed' = failed \ {i}
        /\ UNCHANGED <<registry, connected, replay, overtaken>>
    BY <1>6 DEF CallReturns, Owned
  <2>2. IF call.sub THEN i \in Owned \cap registry ELSE i \notin Owned \cup registry
    BY <2>1 DEF BookInv, CallIsNoted, Owned
  <2> QED
    BY <2>1, <2>2 DEF StreamInv, UnderWay
<1>7. ASSUME CallRaises PROVE StreamInv'
  <2> DEFINE i == call.id
  <2>1. /\ call # NoCall /\ call' = NoCall
        /\ failed' = failed \cup {i}
        /\ UNCHANGED <<registry, connected, replay, broker, overtaken>>
    BY <1>7 DEF CallRaises
  <2>2. Owned' \subseteq Owned \cup {i} /\ Owned \subseteq Owned' \cup {i}
    <3>1. owners' = [owners EXCEPT ![i] = IF call.sub THEN @ \ {call.who} ELSE @ \cup {call.who}]
      BY <1>7 DEF CallRaises
    <3> QED
      BY <3>1 DEF Owned, BookInv, Types
  <2> QED
    BY <2>1, <2>2 DEF StreamInv, UnderWay
<1>8. ASSUME Connect \/ RestoreFails \/ LinkDown \/ \E i \in Identities : Restore(i)
      PROVE  StreamInv'
  <2>1. Owned' = Owned /\ registry' = registry /\ failed' = failed /\ UnderWay' = UnderWay
    BY <1>8 DEF Connect, RestoreFails, LinkDown, Restore, Owned, UnderWay
  <2>2. CASE Connect
    BY <2>1, <2>2 DEF Connect, ToReplay, StreamInv
  <2>3. CASE RestoreFails
    BY <2>1, <2>3 DEF RestoreFails, StreamInv
  <2>4. CASE LinkDown
    BY <2>1, <2>4 DEF LinkDown, StreamInv
  <2>5. ASSUME NEW i \in Identities, Restore(i) PROVE StreamInv'
    BY <2>1, <2>5 DEF Restore, StreamInv
  <2> QED
    BY <1>8, <2>2, <2>3, <2>4, <2>5
<1>9. ASSUME Client \/ UNCHANGED vars PROVE StreamInv'
  BY <1>1, <1>9 DEF Client, Subscribe, Unsubscribe, Close, Reconcile, vars
<1>10. ASSUME NEW o \in Owners, NEW i \in Identities, AcquireRefused(o, i) PROVE StreamInv'
  BY <1>1, <1>10 DEF AcquireRefused
<1> QED
  BY <1>2, <1>3, <1>4, <1>5, <1>6, <1>7, <1>8, <1>9, <1>10 DEF Next, Work, Answer, Provider

-----------------------------------------------------------------------------
(* Owners, manager and registry follow each other through every handler    *)
(* and call (realtime_hub.py 112-268, realtime_provider_manager.py 43-93,  *)
(* shioaji_realtime_provider.py 140-270).                                  *)
THEOREM BooksAndStreams == Spec => [](BookInv /\ StreamInv)
<1>1. Init => BookInv /\ StreamInv
  BY BookInvInitially DEF Init, StreamInv, Owned
<1>2. BookInv /\ StreamInv /\ [Next]_vars => BookInv' /\ StreamInv'
  BY BookStep, StreamStep
<1> QED
  BY <1>1, <1>2, PTL DEF Spec

(* What sessions and policy hold, what the manager counts for them, what   *)
(* sessions are routed and what the broker streams agree, whichever        *)
(* handlers, failing calls and logins overlap.                             *)
THEOREM EveryoneAgrees == Spec => []OwnersAgree
<1>1. BookInv => BooksAgree
  <2> SUFFICES ASSUME BookInv PROVE BooksAgree
    OBVIOUS
  <2>1. ASSUME NEW o \in Owners, task[o].pc \in {"idle", "gone"}, NEW i \in Identities
        PROVE  o \in owners[i] <=> i \in held[o]
    BY <2>1 DEF BookInv, OwnersKnow, CallIsNoted, Asks, Taking, Giving
  <2>2. ASSUME NEW s \in Sessions, Resting(s)
        PROVE  \A k \in Keys : s \in routes[k] <=> \E q \in Kinds : <<k, q>> \in held[s]
    BY <2>2 DEF BookInv, RoutedAsHeld, Routed, Of, Resting
  <2>3. ASSUME NEW s \in Sessions, task[s].pc = "gone"
        PROVE  (\A i \in Identities : s \notin owners[i]) /\ \A k \in Keys : s \notin routes[k]
    BY <2>1, <2>3 DEF BookInv, RoutedAsHeld, Owners
  <2> QED
    BY <2>1, <2>2, <2>3 DEF BooksAgree, Resting
<1>2. BookInv /\ StreamInv => OwnersAgree
  BY <1>1, StreamsOwnedByInv DEF OwnersAgree
<1> QED
  BY <1>2, BooksAndStreams, PTL

(* The manager stays within its budget, also while a call it counts ahead  *)
(* of, or has yet to take back, is under way.                              *)
THEOREM BudgetIsKept == Spec => []WithinBudget
<1>1. Init => BudgetInv
  <2> SUFFICES ASSUME Init PROVE BudgetInv
    OBVIOUS
  <2>1. Owned \cup Kept = {}
    BY DEF Init, Owned, Kept
  <2>2. IsFiniteSet({}) /\ Cardinality({}) = 0
    BY FS_EmptySet
  <2>3. Limit \in Nat
    BY SubscriptionAssumption
  <2> QED
    BY <2>1, <2>2, <2>3 DEF BudgetInv
<1>2. BookInv /\ BudgetInv /\ [Next]_vars => BudgetInv'
  BY BudgetStep
<1>3. BudgetInv => WithinBudget
  BY WithinBudgetByInv
<1> QED
  BY <1>1, <1>2, <1>3, BooksAndStreams, PTL DEF Spec
==============================================================================
