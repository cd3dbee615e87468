---------------------------- MODULE RealtimeClient ----------------------------
(***************************************************************************)
(* The realtime connection of the app: the manager that counts who wants   *)
(* which stream, the client that tells the server, and the WebSockets it   *)
(* opens.  The manager and the set of subscribed streams have each a lock, *)
(* connect has none: a screen, the reconnect timers and the callbacks of   *)
(* the sockets meet in it.  A stream is a security and a quote type; what  *)
(* is done with a quote is left out, and so is disconnect, which the app   *)
(* never calls.                                                            *)
(***************************************************************************)
EXTENDS Integers, Sequences, FiniteSets

CONSTANTS Streams,
          Owners,          \* views and membership lists: they own a stream once
          ListOwners,      \* those of them that subscribe before they connect
          MaxWants,        \* bound: streams acquired
          MaxFailures      \* bound: sockets that fail, each starting a timer

ASSUME RealtimeClientAssumption ==
    IsFiniteSet(Owners) /\ MaxWants \in Nat /\ MaxFailures \in Nat

VARIABLES owned,           \* <<owner, stream>> of ownerSubscriptions
          refs,            \* [Streams -> reference count]
          subscribed,      \* subscribedTargets of the client
          link,            \* connectionState
          socket,          \* the socket the client sends on, or NoSocket
          sockets,         \* the sockets opened: phase, and the streams the server serves on it
          at,              \* [Threads -> what it does next]
          wants, failures,
          crossed          \* history: a socket was opened or used next to another

stream == <<owned, refs, subscribed, link, socket, sockets, at, wants, failures, crossed>>

Screen == 0                \* the thread of the screens: it holds the manager's lock
Timers == 1 .. MaxFailures
Threads == {Screen} \cup Timers
NoSocket == 0
AtRest == [step |-> "none"]

SInit ==
    /\ owned = {} /\ refs = [s \in Streams |-> 0] /\ subscribed = {}
    /\ link = "DISCONNECTED" /\ socket = NoSocket /\ sockets = <<>>
    /\ at = [t \in Threads |-> AtRest]
    /\ wants = 0 /\ failures = 0 /\ crossed = FALSE

Alive(n) == n # NoSocket /\ sockets[n].phase \in {"opening", "opened", "open"}
SomeAlive == \E n \in DOMAIN sockets : Alive(n)

(* What a message changes at the server: a socket that is opening sends it *)
(* when it is open, one that has failed drops it.                          *)
Sent(added, ended) ==
    IF Alive(socket)
    THEN [sockets EXCEPT ![socket].serves = (@ \cup added) \ ended]
    ELSE sockets

(* A screen acquires a stream for an owner.  A view connects and then      *)
(* subscribes, a membership list the other way round; a stream that others *)
(* have needs neither.                                                     *)
Acquire(o, s) ==
    /\ at[Screen] = AtRest /\ wants < MaxWants /\ <<o, s>> \notin owned
    /\ owned' = owned \cup {<<o, s>>}
    /\ refs' = [refs EXCEPT ![s] = @ + 1]
    /\ wants' = wants + 1
    /\ at' = [at EXCEPT ![Screen] =
          IF refs[s] > 0 THEN AtRest
          ELSE IF o \in ListOwners THEN [step |-> "subscribe", stream |-> s, then |-> "connect"]
          ELSE [step |-> "connect", stream |-> s, then |-> "subscribe"]]
    /\ UNCHANGED <<subscribed, link, socket, sockets, failures, crossed>>

Continue(t) == [at EXCEPT ![t] =
    IF @.then = "none" THEN AtRest ELSE [step |-> @.then, stream |-> @.stream, then |-> "none"]]

(* client.subscribe, under the lock of the client.                         *)
Subscribe ==
    /\ at[Screen].step = "subscribe"
    /\ subscribed' = subscribed \cup {at[Screen].stream}
    /\ sockets' = IF link = "CONNECTED" THEN Sent({at[Screen].stream}, {}) ELSE sockets
    /\ at' = Continue(Screen)
    /\ UNCHANGED <<owned, refs, link, socket, wants, failures, crossed>>

(* Variant: the first owner to leave ends the stream.                      *)
Remaining_None(s) == 0

Remaining(s) == refs[s] - 1

(* The last owner of a stream ends it.                                     *)
Release(o, s) ==
    /\ at[Screen] = AtRest /\ <<o, s>> \in owned
    /\ owned' = owned \ {<<o, s>>}
    /\ refs' = [refs EXCEPT ![s] = Remaining(s)]
    /\ IF Remaining(s) = 0
       THEN /\ subscribed' = subscribed \ {s}
            /\ sockets' = IF link = "CONNECTED" THEN Sent({}, {s}) ELSE sockets
       ELSE UNCHANGED <<subscribed, sockets>>
    /\ UNCHANGED <<link, socket, at, wants, failures, crossed>>

(* connect, by the screen or by a timer whose delay is over: unless        *)
(* connected or connecting...                                              *)
ConnectBegin(t) ==
    /\ at[t].step = "connect"
    /\ at' = IF link \in {"CONNECTED", "CONNECTING"} THEN Continue(t)
             ELSE [at EXCEPT ![t].step = "open"]
    /\ UNCHANGED <<owned, refs, subscribed, link, socket, sockets, wants, failures, crossed>>

(* ... the state is set and a socket is opened...                          *)
ConnectOpen(t) ==
    /\ at[t].step = "open"
    /\ link' = "CONNECTING"
    /\ sockets' = Append(sockets, [phase |-> "opening", serves |-> {}])
    /\ crossed' = (crossed \/ SomeAlive)
    /\ at' = [at EXCEPT ![t] = [step |-> "assign", stream |-> @.stream, then |-> @.then,
                                new |-> Len(sockets')]]
    /\ UNCHANGED <<owned, refs, subscribed, socket, wants, failures>>

(* ... and then assigned.                                                  *)
ConnectAssign(t) ==
    /\ at[t].step = "assign"
    /\ socket' = at[t].new
    /\ crossed' = (crossed \/ \E n \in DOMAIN sockets : Alive(n) /\ n # at[t].new)
    /\ at' = Continue(t)
    /\ UNCHANGED <<owned, refs, subscribed, link, sockets, wants, failures>>

(* onOpen of a socket: the state...                                        *)
Opened(n) ==
    /\ sockets[n].phase = "opening"
    /\ sockets' = [sockets EXCEPT ![n].phase = "opened"]
    /\ link' = "CONNECTED"
    /\ UNCHANGED <<owned, refs, subscribed, socket, at, wants, failures, crossed>>

SubscribedAgain == subscribed

(* ... and then all streams, on the socket the client has.                 *)
Resubscribe(n) ==
    /\ sockets[n].phase = "opened"
    /\ sockets' = [Sent(SubscribedAgain, {}) EXCEPT ![n].phase = "open"]
    /\ crossed' = (crossed \/ socket # n)
    /\ UNCHANGED <<owned, refs, subscribed, link, socket, at, wants, failures>>

(* onFailure: the state, and then a reconnect is scheduled.                *)
Failed(n) ==
    /\ sockets[n].phase \in {"opening", "open"} /\ failures < MaxFailures
    /\ failures' = failures + 1
    /\ sockets' = [sockets EXCEPT ![n] = [phase |-> "failing", serves |-> {}]]
    /\ link' = "UNAVAILABLE"
    /\ UNCHANGED <<owned, refs, subscribed, socket, at, wants, crossed>>

ScheduleReconnect(n) == \E t \in Timers :
    /\ sockets[n].phase = "failing"
    /\ at[t] = AtRest
    /\ sockets' = [sockets EXCEPT ![n].phase = "failed"]
    /\ link' = "RECONNECTING"
    /\ at' = [at EXCEPT ![t] = [step |-> "connect", stream |-> "none", then |-> "none"]]
    /\ crossed' = (crossed \/ SomeAlive)
    /\ UNCHANGED <<owned, refs, subscribed, socket, wants, failures>>

(* A behaviour is followed until two sockets meet.                         *)
StreamNext ==
    /\ ~crossed
    /\ \/ \E o \in Owners, s \in Streams : Acquire(o, s) \/ Release(o, s)
       \/ Subscribe
       \/ \E t \in Threads : ConnectBegin(t) \/ ConnectOpen(t) \/ ConnectAssign(t)
       \/ \E n \in DOMAIN sockets :
             Opened(n) \/ Resubscribe(n) \/ Failed(n) \/ ScheduleReconnect(n)

(* Nothing of a connection is under way.                                   *)
Quiet == /\ at = [t \in Threads |-> AtRest]
         /\ \A n \in DOMAIN sockets : sockets[n].phase \in {"open", "failed"}

(* However views and lists come and go while the connection breaks and is  *)
(* made again: unless two sockets have met, once nothing is under way the  *)
(* app is connected if it ever was asked to be, and the server serves it   *)
(* exactly the streams that somebody owns.                                 *)
ServedAsOwned ==
    Quiet /\ ~crossed =>
       /\ wants > 0 => link = "CONNECTED"
       /\ \A s \in Streams :
             LET wanted == \E o \in Owners : <<o, s>> \in owned
             IN  /\ refs[s] > 0 <=> wanted
                 /\ \A n \in DOMAIN sockets : sockets[n].phase = "open" =>
                       (s \in sockets[n].serves <=> wanted)
=============================================================================
