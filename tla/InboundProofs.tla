--------------------------- MODULE InboundProofs ----------------------------
(***************************************************************************)
(* The inbound side.  For any finite sets of listeners and connections:    *)
(* the connection counter is exact, close() leaves nothing running, and    *)
(* ConnectionTasks::join loses no wake-up.  For any number of addresses    *)
(* and sessions: the tasks of a QUIC inbound have open servers under them. *)
(* For a connection of any protocol: replies tell what the dial did, only  *)
(* a genuine client reaches an outbound, a SOCKS association belongs to    *)
(* one address of its client, and no item of the client is lost, repeated  *)
(* or reordered on its way into the relay.  For any number of streams and  *)
(* any capacities: the AnyTLS multiplexer keeps every stream intact.  For  *)
(* any frames of any length, any early data and any length of the key: the *)
(* WebSocket layer loses and changes no byte in either direction.          *)
(***************************************************************************)
EXTENDS MCInbound, SeqFacts

(* The connections that hold a guard are finitely many.                    *)
LEMMA CountedFinite == IsFiniteSet(Counted)
  BY ConnsAssumption, FS_Subset DEF Counted

(* fetch_add on a fresh connection: the counted set gains one element.     *)
LEMMA CountOne ==
  ASSUME NEW c \in Conns, conn[c] = "none",
         conn \in [Conns -> {"none", "spawned", "live", "uncounted", "done"}],
         conn' = [conn EXCEPT ![c] = "spawned"]
  PROVE  Cardinality(Counted') = Cardinality(Counted) + 1
<1>1. Counted' = Counted \cup {c}  BY DEF Counted
<1>2. c \notin Counted  BY DEF Counted
<1> QED  BY <1>1, <1>2, CountedFinite, FS_AddElement

(* fetch_sub by a guard: the counted set loses one element.                *)
LEMMA UncountOne ==
  ASSUME NEW c \in Conns, conn[c] = "live",
         conn \in [Conns -> {"none", "spawned", "live", "uncounted", "done"}],
         conn' = [conn EXCEPT ![c] = "uncounted"]
  PROVE  Cardinality(Counted') = Cardinality(Counted) - 1
<1>1. Counted' = Counted \ {c}  BY DEF Counted
<1>2. c \in Counted  BY DEF Counted
<1> QED  BY <1>1, <1>2, CountedFinite, FS_RemoveElement

(* A counted task exists exactly when the counter's value is not zero.     *)
LEMMA CountedZero ==
  /\ Cardinality(Counted) \in Nat
  /\ Cardinality(Counted) = 0 <=> Counted = {}
  BY CountedFinite, FS_EmptySet, FS_CardinalityType

(* Counting is undisturbed by steps that keep every connection counted or  *)
(* uncounted as it was.                                                    *)
LEMMA CountSame ==
  ASSUME NEW c \in Conns, NEW v,
         conn \in [Conns -> {"none", "spawned", "live", "uncounted", "done"}],
         conn' = [conn EXCEPT ![c] = v],
         conn[c] \in {"spawned", "live"} <=> v \in {"spawned", "live"}
  PROVE  Counted' = Counted
  BY DEF Counted
-----------------------------------------------------------------------------
(* close() stands behind its listeners: once they have all been awaited,   *)
(* none of them accepts again, which is what keeps the counter from rising *)
(* behind the back of join().                                              *)
ListenersDone ==
    closer \in {"arm", "load", "wait", "returned"} =>
        \A l \in Listeners : listener[l] # "accepting"

(* A connection comes from a listener that was started: an inbound whose   *)
(* start() never ran has nothing to join.                                  *)
ConnsFromListeners ==
    (\A l \in Listeners : listener[l] = "idle") => Counted = {}

(* The inductive invariant.                                                *)
IInv ==
    /\ TypeOK
    /\ CounterExact
    /\ ListenersDone
    /\ ConnsFromListeners
    /\ CloseQuiescent
    /\ NoLostWakeup

(* An inbound that has not started satisfies the invariant.                *)
LEMMA InitIInv == Init => IInv
<1> SUFFICES ASSUME Init PROVE IInv  OBVIOUS
<1>1. Counted = {}  BY DEF Init, Counted
<1>2. Cardinality(Counted) = 0  BY <1>1, CountedZero
<1> QED
  BY <1>1, <1>2 DEF Init, IInv, TypeOK, CounterExact, ListenersDone,
                    ConnsFromListeners, CloseQuiescent, NoLostWakeup

(* Every step of the service keeps it.                                     *)
LEMMA NextIInv == IInv /\ [Next]_vars => IInv'
<1> SUFFICES ASSUME IInv, [Next]_vars PROVE IInv'  OBVIOUS
<1> USE DEF IInv, TypeOK, CounterExact, ListenersDone, ConnsFromListeners,
            CloseQuiescent, NoLostWakeup
<1>1. ASSUME NEW l \in Listeners, StartListener(l) PROVE IInv'
  BY <1>1 DEF StartListener, Counted
<1>2. ASSUME NEW l \in Listeners, ListenerBreak(l) PROVE IInv'
  BY <1>2 DEF ListenerBreak, Counted
<1>3. ASSUME NEW l \in Listeners, NEW c \in Conns, Accept(l, c) PROVE IInv'
  <2>1. active' = Cardinality(Counted')
    BY <1>3, CountOne DEF Accept
  <2>2. active \in Nat /\ active' = active + 1  BY <1>3 DEF Accept
  <2>3. closer \notin {"arm", "load", "wait", "returned"}  BY <1>3 DEF Accept
  <2> QED  BY <1>3, <2>1, <2>2, <2>3 DEF Accept
<1>4. ASSUME NEW c \in Conns, ConnRun(c) PROVE IInv'
  <2>1. Counted' = Counted  BY <1>4, CountSame DEF ConnRun
  <2> QED  BY <1>4, <2>1 DEF ConnRun
<1>5. ASSUME NEW c \in Conns, GuardDecrement(c) PROVE IInv'
  <2>1. Cardinality(Counted') = Cardinality(Counted) - 1
    BY <1>5, UncountOne DEF GuardDecrement
  <2>2. c \in Counted  BY <1>5 DEF GuardDecrement, Counted
  <2>3. active \in Nat \ {0}  BY <2>2, CountedZero
  <2>4. active' = active - 1 /\ active' \in Nat  BY <1>5, <2>3 DEF GuardDecrement
  <2>5. closer # "returned"  BY <2>2
  <2>6. conn'[c] = "uncounted"  BY <1>5 DEF GuardDecrement
  <2>7. ~ \A l \in Listeners : listener[l] = "idle"  BY <2>2
  <2> QED  BY <1>5, <2>1, <2>4, <2>5, <2>6, <2>7 DEF GuardDecrement
<1>6. ASSUME NEW c \in Conns, GuardNotify(c) PROVE IInv'
  <2>1. Counted' = Counted  BY <1>6, CountSame DEF GuardNotify
  <2>2. closer = "wait" => woken'  BY <1>6 DEF GuardNotify
  <2>3. woken' \in BOOLEAN  BY <1>6 DEF GuardNotify
  <2> QED  BY <1>6, <2>1, <2>2, <2>3 DEF GuardNotify
<1>7. CASE StoreRunning
  BY <1>7 DEF StoreRunning, Counted
<1>8. CASE CloseBegin
  BY <1>8 DEF CloseBegin, Counted
<1>9. CASE CloseNotRunning
  <2>1. \A l \in Listeners : listener[l] = "idle"  BY <1>9 DEF CloseNotRunning
  <2> QED  BY <1>9, <2>1 DEF CloseNotRunning, Counted
<1>10. CASE AwaitListeners
  BY <1>10 DEF AwaitListeners, Counted
<1>11. CASE JoinArm
  BY <1>11 DEF JoinArm, Counted
<1>12. CASE JoinLoad
  <2>1. Counted' = Counted  BY <1>12 DEF JoinLoad, Counted
  <2>2. active = 0 <=> Counted = {}  BY CountedZero
  <2>3. active # 0 => \E c \in Conns : conn[c] \in {"spawned", "live", "uncounted"}
    BY <2>2 DEF Counted
  <2> QED  BY <1>12, <2>1, <2>2, <2>3 DEF JoinLoad
<1>13. CASE JoinWake
  BY <1>13 DEF JoinWake, Counted
<1>14. CASE UNCHANGED vars
  BY <1>14 DEF vars, Counted
<1>15. CASE Quiesced
  BY <1>15, <1>14 DEF Quiesced
<1> QED
  BY <1>1, <1>2, <1>3, <1>4, <1>5, <1>6, <1>7, <1>8, <1>9, <1>10, <1>11,
     <1>12, <1>13, <1>14, <1>15 DEF Next
-----------------------------------------------------------------------------
(* The inductive invariant holds of every behaviour of an inbound.         *)
LEMMA IInvHolds == Spec => []IInv
  BY InitIInv, NextIInv, PTL DEF Spec

(* Every variable of the inbound stays in its type; in particular the      *)
(* AtomicUsize counter never goes below zero (TaskGuard::drop).            *)
THEOREM TypeCorrect == Spec => []TypeOK
<1>1. IInv => TypeOK  BY DEF IInv
<1> QED  BY IInvHolds, <1>1, PTL

(* TaskState.active counts exactly the outstanding guards, at every        *)
(* interleaving of spawn and drop.                                         *)
THEOREM CounterIsExact == Spec => []CounterExact
<1>1. IInv => CounterExact  BY DEF IInv
<1> QED  BY IInvHolds, <1>1, PTL

(* When close() has returned no listener accepts and no connection runs.   *)
THEOREM CloseIsQuiescent == Spec => []CloseQuiescent
<1>1. IInv => CloseQuiescent  BY DEF IInv
<1> QED  BY IInvHolds, <1>1, PTL

(* ConnectionTasks::join never sleeps past the last notify_waiters.        *)
THEOREM WakeupNeverLost == Spec => []NoLostWakeup
<1>1. IInv => NoLostWakeup  BY DEF IInv
<1> QED  BY IInvHolds, <1>1, PTL

(* The three together: what a closing inbound promises its engine, for     *)
(* any number of listeners and connections.                                *)
THEOREM ServiceIsSafe == Spec => []ServiceSafe
<1>1. IInv => ServiceSafe  BY DEF IInv, ServiceSafe
<1> QED  BY IInvHolds, <1>1, PTL
-----------------------------------------------------------------------------
(* The QUIC inbounds' inductive invariant.                                 *)
QuicTypes ==
    /\ phase \in {"idle", "bind", "running", "failed"}
    /\ server \in [Addresses -> {"none", "open", "skipped", "closed"}]
    /\ acceptor \in [Addresses -> {"off", "accepting", "done"}]
    /\ watcher \in {"off", "wait", "apply", "done"}
    /\ live \in Nat
    /\ stopping \in {"idle", "tasks", "servers", "join", "returned"}

(* Tasks exist from the end of start() on, and close() comes after it. *)
TasksAfterStart ==
    /\ phase # "running" =>
        /\ \A a \in Addresses : acceptor[a] = "off"
        /\ watcher = "off" /\ todo = {} /\ live = 0
        /\ stopping \in {"idle", "returned"}
    /\ phase \in {"idle", "bind"} => stopping = "idle"
    /\ phase \in {"idle", "failed"} => Quic!Open = {}

ServersUnderTasks ==
    /\ \A a \in Addresses : acceptor[a] = "accepting" => server[a] = "open"
    /\ todo \subseteq Quic!Open
    /\ todo # {} => watcher = "apply"

(* What close() has left behind it. *)
CloseInOrder ==
    /\ stopping \in {"servers", "join", "returned"} =>
        (\A a \in Addresses : acceptor[a] # "accepting") /\ watcher \in {"off", "done"}
    /\ stopping \in {"join", "returned"} => Quic!Open = {}
    /\ stopping = "returned" => live = 0

QuicInv == QuicTypes /\ TasksAfterStart /\ ServersUnderTasks /\ CloseInOrder
-----------------------------------------------------------------------------
(* The inductive invariant of a connection.                                *)
SocksPlaces == {"greeting", "request", "associate"}
VlessPlaces == {"hello", "handshake", "fallback", "http", "vless"}
BeforeDial == SocksPlaces \cup VlessPlaces \cup {"accepted", "connect", "connectPacket"}
Routed == {"connect", "connectPacket", "reply", "relay", "packets"}
Protocols == {"socks", "vless", "hysteria2", "shadowquic", "sunnyquic", "snell"}
Items == {"method", "unsupported", "ok", "failed", "bound", "cover", "405", "404", "101",
          "version", "data"}

SessionTypes ==
    /\ proto \in Protocols /\ reality \in BOOLEAN /\ dropped \in BOOLEAN
    /\ pc \in BeforeDial \cup Routed \cup {"ended"}
    /\ dial \in {"none", "ok", "failed"} /\ toClient \in Seq(Items)

(* Each handler stays in its own places and on its own kind of session. *)
Places ==
    /\ reality => proto = "vless"
    /\ pc \in SocksPlaces => proto = "socks"
    /\ pc \in VlessPlaces => proto = "vless"
    /\ pc = "accepted" => proto \notin {"socks", "vless"}
    /\ pc \in {"associate", "connectPacket", "packets"} => network = "udp"

(* How far the dial is. *)
DialSoFar ==
    /\ pc \in BeforeDial => dial = "none"
    /\ pc = "reply" => dial # "none"
    /\ pc \in {"relay", "packets"} => dial = "ok"

Told(reply) == \E i \in 1 .. Len(toClient) : toClient[i] = reply

(* What the client has been told of it. *)
ToldSoFar ==
    /\ Told("ok") => dial = "ok"
    /\ Told("failed") => dial = "failed"
    /\ pc \in BeforeDial \cup {"reply"} => ~Told("ok") /\ ~Told("failed")
    /\ proto \in {"socks", "hysteria2"} /\ network = "tcp" /\ dial = "failed"
         /\ pc = "ended" /\ ~dropped => Told("failed")

(* The greeting comes before the data. *)
DataGreeted ==
    \A i \in 1 .. Len(toClient) :
        toClient[i] = "data" /\ Session!Greeting # {} =>
            \E j \in 1 .. (i - 1) : toClient[j] \in Session!Greeting

GreetedFirst ==
    /\ pc = "relay" /\ proto \in {"socks", "hysteria2"} => Told("ok")
    /\ pc \in Routed /\ proto = "vless" => Told("version")
    /\ DataGreeted

OnlyCover == \A i \in 1 .. Len(toClient) : toClient[i] = "cover"

HelloFacts == {"key", "shortId", "name", "clock"}

(* What the client has shown where the handler is. *)
Shown ==
    /\ pc = "hello" => genuine = {} /\ toClient = << >>
    /\ pc \in Routed /\ proto # "socks" => "user" \in genuine
    /\ dial # "none" /\ proto # "socks" => "user" \in genuine
    /\ reality /\ pc \in {"handshake", "http", "vless"} \cup Routed => HelloFacts \subseteq genuine
    /\ reality /\ dial # "none" => HelloFacts \subseteq genuine
    /\ reality /\ ~(HelloFacts \subseteq genuine) => OnlyCover
    /\ pc = "fallback" => reality /\ ~(HelloFacts \subseteq genuine)
    /\ pc = "hello" => reality

(* The association of a SOCKS client. *)
Pinned ==
    /\ sent \in Seq(Own \cup {"client"}) /\ back \in Seq(Own \cup {"client"})
    /\ proto = "socks" =>
        /\ peer \in Own \cup {"none"}
        /\ \A i \in 1 .. Len(sent) : sent[i] = peer
        /\ \A i \in 1 .. Len(back) : back[i] = peer
        /\ peer = "none" => sent = << >> /\ back = << >>

SessionInv ==
    SessionTypes /\ Places /\ DialSoFar /\ ToldSoFar /\ GreetedFirst /\ Shown /\ Pinned
-----------------------------------------------------------------------------
(* Before start() nothing is open and nothing runs.                        *)
LEMMA QuicInitInv == Quic!QuicInit => QuicInv
<1> SUFFICES ASSUME Quic!QuicInit PROVE QuicInv  OBVIOUS
<1>1. /\ phase = "idle" /\ server = [a \in Addresses |-> "none"]
      /\ acceptor = [a \in Addresses |-> "off"] /\ watcher = "off" /\ todo = {} /\ live = 0
      /\ stopping = "idle"
  BY DEF Quic!QuicInit
<1>2. QuicTypes  BY <1>1 DEF QuicTypes
<1>3. Quic!Open = {}  BY <1>1 DEF Quic!Open
<1> QED  BY <1>1, <1>2, <1>3 DEF QuicInv, TasksAfterStart, ServersUnderTasks, CloseInOrder

(* start(): the binds, and the tasks once all of them succeeded.           *)
LEMMA StartInv ==
  ASSUME QuicInv, Quic!StartStep  PROVE QuicInv'
<1> USE DEF QuicInv, QuicTypes, TasksAfterStart, ServersUnderTasks, CloseInOrder
<1>1. CASE Quic!Hysteria2Start \/ Quic!ShadowQuicStart \/ Quic!SunnyQuicStart
  <2>1. /\ phase = "idle" /\ phase' \in {"bind", "failed"}
        /\ UNCHANGED <<server, acceptor, watcher, todo, live, stopping>>
    BY <1>1 DEF Quic!Hysteria2Start, Quic!ShadowQuicStart, Quic!SunnyQuicStart, Quic!Begin
  <2> QED  BY <2>1 DEF Quic!Open
<1>2. CASE Quic!Bind
  <2>1. /\ phase = "bind" /\ UNCHANGED <<acceptor, watcher, todo, live, stopping>>
        /\ Quic!BindOk \/ Quic!BindSkip \/ Quic!BindFails
    BY <1>2 DEF Quic!Bind, Quic!certVars
  <2>2. stopping = "idle" /\ todo = {} /\ \A a \in Addresses : acceptor[a] = "off"  BY <2>1
  <2>3. CASE Quic!BindOk \/ Quic!BindSkip
    <3>1. /\ phase' = phase
          /\ \E v \in {"open", "skipped"} : server' = [server EXCEPT ![bindNext] = v]
      BY <2>3 DEF Quic!BindOk, Quic!BindSkip
    <3>2. server' \in [Addresses -> {"none", "open", "skipped", "closed"}]  BY <3>1
    <3> QED  BY <2>1, <2>2, <3>1, <3>2
  <2>4. CASE Quic!BindFails
    <3>1. /\ phase' = "failed"
          /\ server' = [a \in Addresses |-> IF server[a] = "open" THEN "closed" ELSE server[a]]
      BY <2>4 DEF Quic!BindFails
    <3>2. server' \in [Addresses -> {"none", "open", "skipped", "closed"}]  BY <3>1
    <3>3. Quic!Open' = {}  BY <3>1 DEF Quic!Open
    <3> QED  BY <2>1, <2>2, <3>1, <3>2, <3>3
  <2> QED  BY <2>1, <2>3, <2>4
<1>3. CASE Quic!Spawn
  <2>1. /\ phase = "bind" /\ phase' = "running" /\ UNCHANGED <<server, todo, live, stopping>>
        /\ acceptor' = [a \in Addresses |-> IF server[a] = "open" THEN "accepting" ELSE "off"]
        /\ watcher' \in {"wait", "off"}
    BY <1>3 DEF Quic!Spawn
  <2>2. acceptor' \in [Addresses -> {"off", "accepting", "done"}]  BY <2>1
  <2>3. \A a \in Addresses : acceptor'[a] = "accepting" => server'[a] = "open"  BY <2>1
  <2>4. stopping = "idle" /\ todo = {}  BY <2>1
  <2> QED  BY <2>1, <2>2, <2>3, <2>4
<1> QED  BY <1>1, <1>2, <1>3 DEF Quic!StartStep

(* A new certificate goes to one server after the other.                   *)
LEMMA WatchInv ==
  ASSUME QuicInv, Quic!WatchStep \/ Quic!WatcherStops  PROVE QuicInv'
<1> USE DEF QuicInv, QuicTypes, TasksAfterStart, ServersUnderTasks, CloseInOrder
<1>1. CASE Quic!Hysteria2Changed \/ Quic!SunnyQuicChanged
  <2>1. /\ watcher = "wait" /\ todo' = Quic!Open /\ watcher' = "apply"
        /\ UNCHANGED <<phase, server, acceptor, live, stopping>>
    BY <1>1 DEF Quic!Hysteria2Changed, Quic!SunnyQuicChanged, Quic!Changed, Quic!startVars
  <2>2. Quic!Open' = Quic!Open  BY <2>1 DEF Quic!Open
  <2> QED  BY <2>1, <2>2
<1>2. CASE Quic!Apply
  <2>1. /\ watcher = "apply" /\ todo' \subseteq todo
        /\ UNCHANGED <<phase, server, watcher, acceptor, live, stopping>>
    BY <1>2 DEF Quic!Apply, Quic!startVars
  <2>2. Quic!Open' = Quic!Open  BY <2>1 DEF Quic!Open
  <2> QED  BY <2>1, <2>2
<1>3. CASE Quic!Applied \/ Quic!WatcherStops
  <2>1. /\ watcher \in {"apply", "wait"} /\ watcher' \in {"wait", "done"} /\ todo = {}
        /\ UNCHANGED <<phase, server, todo, acceptor, live, stopping>>
    BY <1>3 DEF Quic!Applied, Quic!WatcherStops, Quic!startVars
  <2>2. Quic!Open' = Quic!Open  BY <2>1 DEF Quic!Open
  <2>3. stopping \notin {"servers", "join", "returned"}  BY <2>1
  <2> QED  BY <2>1, <2>2, <2>3
<1> QED  BY <1>1, <1>2, <1>3 DEF Quic!WatchStep

(* Sessions come and go, and accept tasks end.                             *)
LEMMA AcceptInv ==
  ASSUME QuicInv, NEW b \in Addresses, Quic!AcceptStep(b) \/ Quic!AcceptorStops(b)
  PROVE  QuicInv'
<1> USE DEF QuicInv, QuicTypes, TasksAfterStart, ServersUnderTasks, CloseInOrder
<1>1. /\ acceptor[b] = "accepting" /\ UNCHANGED <<phase, server, watcher, todo, stopping>>
      /\ \/ live' = live + 1 /\ UNCHANGED acceptor
         \/ acceptor' = [acceptor EXCEPT ![b] = "done"] /\ UNCHANGED live
  BY DEF Quic!AcceptStep, Quic!Hysteria2Accept, Quic!ShadowQuicAccept, Quic!SunnyQuicAccept,
         Quic!RunServer, Quic!AcceptorStops, Quic!startVars, Quic!certVars
<1>2. Quic!Open' = Quic!Open  BY <1>1 DEF Quic!Open
<1>3. phase = "running" /\ stopping \in {"idle", "tasks"}  BY <1>1
<1>4. /\ acceptor' \in [Addresses -> {"off", "accepting", "done"}] /\ live' \in Nat
      /\ \A a \in Addresses : acceptor'[a] = "accepting" => acceptor[a] = "accepting"
  BY <1>1
<1> QED  BY <1>1, <1>2, <1>3, <1>4

(* close(): the tasks, then the servers, then the sessions.                *)
LEMMA CloseInv ==
  ASSUME QuicInv,
         Quic!Hysteria2Close \/ Quic!ShadowQuicClose \/ Quic!SunnyQuicClose \/ Quic!CloseStep
  PROVE  QuicInv'
<1> USE DEF QuicInv, QuicTypes, TasksAfterStart, ServersUnderTasks, CloseInOrder
<1>1. CASE Quic!Hysteria2Close \/ Quic!ShadowQuicClose \/ Quic!SunnyQuicClose
  <2>1. /\ phase \in {"running", "failed"} /\ stopping = "idle"
        /\ stopping' = IF phase = "running" THEN "tasks" ELSE "returned"
        /\ UNCHANGED <<phase, server, watcher, todo, acceptor, live>>
    BY <1>1 DEF Quic!Hysteria2Close, Quic!ShadowQuicClose, Quic!SunnyQuicClose, Quic!BeginClose,
                Quic!startVars, Quic!certVars
  <2>2. Quic!Open' = Quic!Open  BY <2>1 DEF Quic!Open
  <2>3. CASE phase = "running"  BY <2>1, <2>2, <2>3
  <2>4. CASE phase = "failed"  BY <2>1, <2>2, <2>4
  <2> QED  BY <2>1, <2>3, <2>4
<1>2. CASE Quic!AwaitTasks
  <2>1. /\ stopping = "tasks" /\ \A a \in Addresses : acceptor[a] # "accepting"
        /\ watcher \in {"off", "done"} /\ stopping' = "servers"
        /\ UNCHANGED <<phase, server, watcher, todo, acceptor, live>>
    BY <1>2 DEF Quic!AwaitTasks, Quic!startVars, Quic!certVars
  <2>2. Quic!Open' = Quic!Open  BY <2>1 DEF Quic!Open
  <2> QED  BY <2>1, <2>2
<1>3. CASE Quic!CloseServer
  <2>1. stopping = "servers" /\ UNCHANGED <<phase, watcher, todo, acceptor, live>>
    BY <1>3 DEF Quic!CloseServer, Quic!startVars, Quic!certVars
  <2>2. /\ phase = "running" /\ todo = {} /\ \A a \in Addresses : acceptor[a] # "accepting"
        /\ watcher \in {"off", "done"}
    BY <2>1
  <2>3. CASE UNCHANGED stopping /\ \E a \in Quic!Open : server' = [server EXCEPT ![a] = "closed"]
    <3>1. server' \in [Addresses -> {"none", "open", "skipped", "closed"}]  BY <2>3 DEF Quic!Open
    <3> QED  BY <2>1, <2>2, <2>3, <3>1
  <2>4. CASE Quic!Open = {} /\ stopping' = "join" /\ UNCHANGED server
    <3>1. Quic!Open' = {}  BY <2>4 DEF Quic!Open
    <3> QED  BY <2>1, <2>2, <2>4, <3>1
  <2> QED  BY <1>3, <2>3, <2>4 DEF Quic!CloseServer
<1>4. CASE Quic!Join
  <2>1. /\ stopping = "join" /\ live = 0 /\ stopping' = "returned"
        /\ UNCHANGED <<phase, server, watcher, todo, acceptor, live>>
    BY <1>4 DEF Quic!Join, Quic!startVars, Quic!certVars
  <2>2. Quic!Open' = Quic!Open  BY <2>1 DEF Quic!Open
  <2> QED  BY <2>1, <2>2
<1> QED  BY <1>1, <1>2, <1>3, <1>4 DEF Quic!CloseStep

(* Every step of a QUIC inbound keeps its invariant.                       *)
LEMMA QuicNextInv == QuicInv /\ [Quic!QuicNext]_qvars => QuicInv'
<1> SUFFICES ASSUME QuicInv, Quic!QuicNext \/ UNCHANGED qvars PROVE QuicInv'  OBVIOUS
<1>1. CASE Quic!Returned \/ Quic!Publish \/ UNCHANGED qvars
  <2>1. UNCHANGED <<phase, server, watcher, todo, acceptor, live, stopping>>
    BY <1>1 DEF Quic!Returned, Quic!Publish, Quic!startVars, Quic!qvars, qvars
  <2>2. Quic!Open' = Quic!Open  BY <2>1 DEF Quic!Open
  <2> QED  BY <2>1, <2>2 DEF QuicInv, QuicTypes, TasksAfterStart, ServersUnderTasks, CloseInOrder
<1>2. CASE Quic!SessionEnds
  <2>1. live > 0 /\ live' = live - 1 /\ UNCHANGED <<phase, server, watcher, todo, acceptor, stopping>>
    BY <1>2 DEF Quic!SessionEnds, Quic!startVars, Quic!certVars
  <2>2. Quic!Open' = Quic!Open  BY <2>1 DEF Quic!Open
  <2>3. live' \in Nat /\ live # 0  BY <2>1 DEF QuicInv, QuicTypes
  <2>4. phase = "running" /\ stopping # "returned"
    BY <2>3 DEF QuicInv, QuicTypes, TasksAfterStart, CloseInOrder
  <2> QED
    BY <2>1, <2>2, <2>3, <2>4 DEF QuicInv, QuicTypes, TasksAfterStart, ServersUnderTasks, CloseInOrder
<1> QED
  BY <1>1, <1>2, StartInv, WatchInv, AcceptInv, CloseInv DEF Quic!QuicNext
-----------------------------------------------------------------------------
(* What one more item to the client changes.                               *)
LEMMA SaysFacts ==
  ASSUME toClient \in Seq(Items), NEW x \in Items, toClient' = Append(toClient, x), UNCHANGED proto
  PROVE  /\ toClient' \in Seq(Items)
         /\ Told("ok")' <=> Told("ok") \/ x = "ok"
         /\ Told("failed")' <=> Told("failed") \/ x = "failed"
         /\ Told("version")' <=> Told("version") \/ x = "version"
         /\ DataGreeted /\ x # "data" => DataGreeted'
         /\ DataGreeted /\ Told("ok") /\ Session!Greeting = {"ok"} => DataGreeted'
         /\ DataGreeted /\ Told("version") /\ Session!Greeting = {"version"} => DataGreeted'
         /\ Session!Greeting = {} => DataGreeted'
         /\ OnlyCover /\ x = "cover" => OnlyCover'
<1> DEFINE n == Len(toClient)
<1>1. /\ toClient' \in Seq(Items) /\ n \in Nat /\ Len(toClient') = n + 1 /\ toClient'[n + 1] = x
      /\ \A i \in 1 .. n : toClient'[i] = toClient[i]
  OBVIOUS
<1>2. ASSUME NEW r  PROVE Told(r)' <=> Told(r) \/ r = x
  <2>1. ASSUME Told(r)  PROVE Told(r)'
    <3>1. PICK i \in 1 .. n : toClient[i] = r  BY <2>1 DEF Told
    <3>2. i \in 1 .. Len(toClient') /\ toClient'[i] = r  BY <1>1, <3>1
    <3> QED  BY <3>2 DEF Told
  <2>2. ASSUME r = x  PROVE Told(r)'
    <3>1. n + 1 \in 1 .. Len(toClient')  BY <1>1
    <3> QED  BY <1>1, <2>2, <3>1 DEF Told
  <2>3. ASSUME Told(r)', r # x  PROVE Told(r)
    <3>1. PICK i \in 1 .. Len(toClient') : toClient'[i] = r  BY <2>3 DEF Told
    <3>2. i # n + 1  BY <1>1, <2>3, <3>1
    <3>3. i \in 1 .. n  BY <1>1, <3>1, <3>2
    <3> QED  BY <1>1, <3>1, <3>3 DEF Told
  <2> QED  BY <2>1, <2>2, <2>3
<1>3. Session!Greeting' = Session!Greeting  BY DEF Session!Greeting
<1>4. ASSUME DataGreeted,
             x = "data" /\ Session!Greeting # {} => \E j \in 1 .. n : toClient[j] \in Session!Greeting
      PROVE  DataGreeted'
  <2> SUFFICES ASSUME NEW i \in 1 .. Len(toClient'), toClient'[i] = "data", Session!Greeting # {}
               PROVE  \E j \in 1 .. (i - 1) : toClient'[j] \in Session!Greeting
    BY <1>3 DEF DataGreeted
  <2>1. CASE i = n + 1
    <3>1. PICK j \in 1 .. n : toClient[j] \in Session!Greeting  BY <1>1, <1>4, <2>1
    <3>2. j \in 1 .. (i - 1) /\ toClient'[j] = toClient[j]  BY <1>1, <2>1, <3>1
    <3> QED  BY <3>1, <3>2
  <2>2. CASE i # n + 1
    <3>1. i \in 1 .. n  BY <1>1, <2>2
    <3>2. PICK j \in 1 .. (i - 1) : toClient[j] \in Session!Greeting
      BY <1>1, <1>4, <3>1 DEF DataGreeted
    <3>3. j \in 1 .. n  BY <1>1, <3>1, <3>2
    <3> QED  BY <1>1, <3>2, <3>3
  <2> QED  BY <2>1, <2>2
<1>5. \A r : Told(r) /\ Session!Greeting = {r} => \E j \in 1 .. n : toClient[j] \in Session!Greeting
  BY DEF Told
<1>6. Session!Greeting = {} => DataGreeted'  BY <1>3 DEF DataGreeted
<1>7. ASSUME OnlyCover, x = "cover"  PROVE OnlyCover'
  <2> SUFFICES ASSUME NEW i \in 1 .. Len(toClient')  PROVE toClient'[i] = "cover"  BY DEF OnlyCover
  <2>1. CASE i = n + 1  BY <1>1, <1>7, <2>1
  <2>2. CASE i # n + 1
    <3>1. i \in 1 .. n  BY <1>1, <2>2
    <3> QED  BY <1>1, <1>7, <3>1 DEF OnlyCover
  <2> QED  BY <2>1, <2>2
<1> QED  BY <1>1, <1>2, <1>4, <1>5, <1>6, <1>7

(* A step that says nothing leaves everything about the replies as it was. *)
LEMMA SilentFacts ==
  ASSUME UNCHANGED <<toClient, proto>>
  PROVE  /\ Told("ok")' = Told("ok") /\ Told("failed")' = Told("failed")
         /\ Told("version")' = Told("version") /\ DataGreeted' = DataGreeted /\ OnlyCover' = OnlyCover
  BY DEF Told, DataGreeted, OnlyCover, Session!Greeting

(* A client that was sent nothing was told nothing.                        *)
LEMMA NothingSaid ==
  ASSUME toClient = << >>
  PROVE  ~Told("ok") /\ ~Told("failed") /\ ~Told("version") /\ DataGreeted /\ OnlyCover
<1>1. Len(toClient) = 0  BY EmptySeq
<1> QED  BY <1>1 DEF Told, DataGreeted, OnlyCover

(* Which reply a protocol sends before the data.                           *)
LEMMA GreetingOf ==
  /\ proto \in {"socks", "hysteria2"} => Session!Greeting = {"ok"}
  /\ proto = "vless" => Session!Greeting = {"version"}
  /\ proto \in {"shadowquic", "sunnyquic", "snell"} => Session!Greeting = {}
  BY DEF Session!Greeting

(* Nobody has said or shown anything.                                      *)
LEMMA SessionInitInv ==
  ASSUME Session!SessionsInit \/ IdleSession  PROVE SessionInv
<1>1. /\ genuine = {} /\ network = "tcp" /\ dial = "none" /\ toClient = << >> /\ peer = "none"
      /\ sent = << >> /\ back = << >> /\ dropped = FALSE
  BY DEF Session!SessionsInit, IdleSession, Session!SessionInit
<1>2. /\ proto \in Protocols /\ reality \in BOOLEAN /\ (reality => proto = "vless")
      /\ \/ pc = "hello" /\ reality
         \/ pc = "greeting" /\ proto = "socks"
         \/ pc = "http" /\ proto = "vless" /\ ~reality
         \/ pc = "accepted" /\ proto \notin {"socks", "vless"}
         \/ pc = "ended"
  <2>1. CASE IdleSession  BY <2>1 DEF IdleSession, Protocols
  <2>2. CASE Session!SessionsInit
    <3>1. DOMAIN Session!Start = Protocols  BY DEF Session!Start, Protocols
    <3>2. /\ proto \in Protocols /\ reality \in (IF proto = "vless" THEN BOOLEAN ELSE {FALSE})
          /\ pc = IF reality THEN "hello" ELSE Session!Start[proto]
      BY <2>2, <3>1 DEF Session!SessionsInit
    <3>3. CASE reality  BY <3>2, <3>3
    <3>4. CASE ~reality
      <4>1. pc = Session!Start[proto]  BY <3>2, <3>4
      <4>2. /\ Session!Start["socks"] = "greeting" /\ Session!Start["vless"] = "http"
            /\ \A p \in Protocols \ {"socks", "vless"} : Session!Start[p] = "accepted"
        BY DEF Protocols, Session!Start
      <4> QED  BY <3>2, <3>4, <4>1, <4>2 DEF Protocols
    <3> QED  BY <3>3, <3>4
  <2> QED  BY <2>1, <2>2
<1>3. << >> \in Seq(Items) /\ << >> \in Seq(Own \cup {"client"}) /\ Len(<< >>) = 0  BY EmptySeq
<1>4. ~Told("ok") /\ ~Told("failed") /\ ~Told("version") /\ DataGreeted /\ OnlyCover
  BY <1>1, NothingSaid
<1>5. SessionTypes  BY <1>1, <1>2, <1>3 DEF SessionTypes, BeforeDial, SocksPlaces, VlessPlaces
<1>6. Places
  BY <1>2 DEF Places, SocksPlaces, VlessPlaces
<1>7. DialSoFar /\ ToldSoFar /\ GreetedFirst
  BY <1>1, <1>2, <1>4 DEF DialSoFar, ToldSoFar, GreetedFirst, Routed
<1>8. Shown  BY <1>1, <1>2, <1>4 DEF Shown, Routed
<1>9. Pinned  BY <1>1, <1>3 DEF Pinned
<1> QED  BY <1>5, <1>6, <1>7, <1>8, <1>9 DEF SessionInv

(* Only the packets of an association, or what is relayed, change.         *)
LEMMA QuietInv ==
  ASSUME SessionInv, UNCHANGED <<proto, reality, pc, genuine, network, dial, toClient>>,
         dropped' = dropped \/ dropped' = TRUE, Pinned'
  PROVE  SessionInv'
<1>1. /\ Told("ok")' = Told("ok") /\ Told("failed")' = Told("failed")
      /\ Told("version")' = Told("version") /\ DataGreeted' = DataGreeted /\ OnlyCover' = OnlyCover
  BY SilentFacts
<1>2. SessionTypes' /\ Places' /\ DialSoFar'
  BY DEF SessionInv, SessionTypes, Places, DialSoFar
<1>3. ToldSoFar' /\ GreetedFirst'  BY <1>1 DEF SessionInv, SessionTypes, ToldSoFar, GreetedFirst
<1>4. Shown'  BY <1>1 DEF SessionInv, Shown
<1> QED  BY <1>2, <1>3, <1>4 DEF SessionInv

(* The association is untouched.                                           *)
LEMMA PinnedSame ==
  ASSUME SessionInv, UNCHANGED <<proto, peer, sent, back>>  PROVE Pinned'
  BY DEF SessionInv, Pinned

(* The connection task ends, but not between the dial and its reply.       *)
LEMMA TaskEndsInv ==
  ASSUME SessionInv, pc' = "ended", pc # "reply" \/ dropped,
         UNCHANGED <<proto, reality, genuine, network, dial, toClient, peer, sent, back, dropped>>
  PROVE  SessionInv'
<1>1. /\ Told("ok")' = Told("ok") /\ Told("failed")' = Told("failed")
      /\ Told("version")' = Told("version") /\ DataGreeted' = DataGreeted /\ OnlyCover' = OnlyCover
  BY SilentFacts
<1>2. pc' \notin BeforeDial \cup Routed
  BY DEF BeforeDial, Routed, SocksPlaces, VlessPlaces
<1>3. SessionTypes' /\ Places' /\ DialSoFar'
  BY <1>2 DEF SessionInv, SessionTypes, Places, DialSoFar, SocksPlaces, VlessPlaces
<1>4. dial = "failed" => pc \in {"reply", "ended"}
  BY DEF SessionInv, SessionTypes, DialSoFar, Routed, BeforeDial
<1>5. ToldSoFar' /\ GreetedFirst'
  BY <1>1, <1>2, <1>4 DEF SessionInv, ToldSoFar, GreetedFirst
<1>6. Shown'  BY <1>1, <1>2 DEF SessionInv, Shown
<1> QED  BY <1>3, <1>5, <1>6, PinnedSame DEF SessionInv

(* A handler before the dial says x, or nothing, and goes on or gives up.  *)
LEMMA HandlerInv ==
  ASSUME SessionInv, UNCHANGED <<proto, reality, dial, dropped, peer, sent, back>>,
         pc \in BeforeDial, pc' \in BeforeDial \cup {"ended"},
         \/ UNCHANGED toClient
         \/ \E x \in Items \ {"ok", "failed", "data"} : toClient' = Append(toClient, x),
         Places', Shown', pc' \in Routed /\ proto = "vless" => Told("version")'
  PROVE  SessionInv'
<1>1. toClient \in Seq(Items) /\ dial = "none" /\ ~Told("ok") /\ ~Told("failed") /\ DataGreeted
  BY DEF SessionInv, SessionTypes, DialSoFar, ToldSoFar, GreetedFirst
<1>2. toClient' \in Seq(Items) /\ ~Told("ok")' /\ ~Told("failed")' /\ DataGreeted'
  <2>1. CASE UNCHANGED toClient  BY <1>1, <2>1, SilentFacts
  <2>2. ASSUME NEW x \in Items \ {"ok", "failed", "data"}, toClient' = Append(toClient, x)
        PROVE  toClient' \in Seq(Items) /\ ~Told("ok")' /\ ~Told("failed")' /\ DataGreeted'
    BY <1>1, <2>2, SaysFacts
  <2> QED  BY <2>1, <2>2
<1>3. SessionTypes'  BY <1>2 DEF SessionInv, SessionTypes
<1>4. pc' \notin {"reply", "relay", "packets"}
  BY DEF BeforeDial, SocksPlaces, VlessPlaces
<1>5. DialSoFar' /\ ToldSoFar' /\ GreetedFirst'
  BY <1>1, <1>2, <1>4 DEF DialSoFar, ToldSoFar, GreetedFirst
<1> QED  BY <1>3, <1>5, PinnedSame DEF SessionInv

(* Router::connect and Router::connect_packet.                             *)
LEMMA ConnectInv ==
  ASSUME SessionInv, Session!Connect \/ Session!ConnectPacket  PROVE SessionInv'
<1>1. /\ UNCHANGED <<proto, reality, genuine, network, toClient, peer, sent, back, dropped>>
      /\ dial' \in {"ok", "failed"}
      /\ \/ pc = "connect" /\ pc' = "reply"
         \/ pc = "connectPacket" /\ pc' = (IF dial' = "ok" THEN "packets" ELSE "ended")
  BY DEF Session!Connect, Session!ConnectPacket, Session!Answers, Session!BlockConnect,
         Session!DirectConnect, Session!packets
<1>2. /\ Told("ok")' = Told("ok") /\ Told("failed")' = Told("failed")
      /\ Told("version")' = Told("version") /\ DataGreeted' = DataGreeted /\ OnlyCover' = OnlyCover
  BY <1>1, SilentFacts
<1>3. pc \in Routed /\ pc \in BeforeDial /\ pc' \notin BeforeDial /\ pc' # "relay"
  BY <1>1 DEF Routed, BeforeDial, SocksPlaces, VlessPlaces
<1>4. SessionTypes'  BY <1>1 DEF SessionInv, SessionTypes, Routed
<1>5. Places'
  BY <1>1, <1>3 DEF SessionInv, Places, BeforeDial
<1>6. DialSoFar'  BY <1>1, <1>3 DEF DialSoFar
<1>7. ToldSoFar'  BY <1>1, <1>2, <1>3 DEF SessionInv, ToldSoFar, Places
<1>8. GreetedFirst'  BY <1>1, <1>2, <1>3 DEF SessionInv, GreetedFirst
<1>9. Shown'
  <2>1. pc' \notin {"hello", "fallback", "handshake", "http", "vless"}  BY <1>1
  <2> QED  BY <1>1, <1>2, <1>3, <2>1 DEF SessionInv, Shown
<1> QED  BY <1>1, <1>4, <1>5, <1>6, <1>7, <1>8, <1>9, PinnedSame DEF SessionInv

(* After the dial: the reply, where the protocol has one.                  *)
LEMMA RepliedInv ==
  ASSUME SessionInv, pc = "reply", pc' = IF dial = "ok" THEN "relay" ELSE "ended",
         UNCHANGED <<proto, reality, genuine, network, dial, peer, sent, back, dropped>>,
         \/ /\ proto \in {"socks", "hysteria2"}
            /\ toClient' = Append(toClient, IF dial = "ok" THEN "ok" ELSE "failed")
         \/ proto \notin {"socks", "hysteria2"} /\ UNCHANGED toClient
  PROVE  SessionInv'
<1>1. toClient \in Seq(Items) /\ dial \in {"ok", "failed"} /\ ~Told("ok") /\ ~Told("failed")
  BY DEF SessionInv, SessionTypes, DialSoFar, ToldSoFar
<1>2. PICK x \in {"ok", "failed"} : x = IF dial = "ok" THEN "ok" ELSE "failed"  BY <1>1
<1>3. /\ toClient' \in Seq(Items)
      /\ Told("ok")' => dial = "ok" /\ proto \in {"socks", "hysteria2"}
      /\ Told("failed")' => dial = "failed"
      /\ proto \in {"socks", "hysteria2"} /\ dial = "ok" => Told("ok")'
      /\ proto \in {"socks", "hysteria2"} /\ dial = "failed" => Told("failed")'
      /\ Told("version") => Told("version")'
      /\ DataGreeted'
  <2>1. DataGreeted  BY DEF SessionInv, GreetedFirst
  <2>2. CASE toClient' = Append(toClient, x) /\ proto \in {"socks", "hysteria2"}
    <3>1. x \in Items /\ x # "data"  BY <1>2 DEF Items
    <3> QED  BY <1>1, <1>2, <2>1, <2>2, <3>1, SaysFacts
  <2>3. CASE UNCHANGED toClient /\ proto \notin {"socks", "hysteria2"}
    BY <1>1, <2>1, <2>3, SilentFacts
  <2> QED  BY <1>2, <2>2, <2>3
<1>4. pc \in Routed /\ pc' \notin BeforeDial \cup {"reply", "packets"}
  BY DEF Routed, BeforeDial, SocksPlaces, VlessPlaces
<1>5. SessionTypes'  BY <1>3 DEF SessionInv, SessionTypes, Routed
<1>6. Places'  BY <1>4 DEF SessionInv, Places, BeforeDial
<1>7. DialSoFar' /\ ToldSoFar'  BY <1>1, <1>3, <1>4 DEF DialSoFar, ToldSoFar
<1>8. GreetedFirst'  BY <1>1, <1>3, <1>4 DEF SessionInv, GreetedFirst
<1>9. Shown'
  <2>1. pc' \notin {"hello", "fallback", "handshake", "http", "vless"}  OBVIOUS
  <2>2. reality => HelloFacts \subseteq genuine  BY <1>4 DEF SessionInv, Shown
  <2> QED  BY <1>4, <2>1, <2>2 DEF SessionInv, Shown
<1> QED  BY <1>5, <1>6, <1>7, <1>8, <1>9, PinnedSame DEF SessionInv

(* A byte of the destination.                                              *)
LEMMA RelayDownInv ==
  ASSUME SessionInv, Session!RelayDown  PROVE SessionInv'
<1>1. /\ pc = "relay" /\ toClient' = Append(toClient, "data")
      /\ UNCHANGED <<proto, reality, pc, genuine, network, dial, peer, sent, back, dropped>>
  BY DEF Session!RelayDown, Session!packets
<1>2. /\ toClient \in Seq(Items) /\ DataGreeted /\ "data" \in Items /\ pc \in Routed
      /\ proto \in Protocols
  BY <1>1 DEF SessionInv, SessionTypes, GreetedFirst, Items, Routed
<1>3. /\ toClient' \in Seq(Items) /\ (Told("ok")' <=> Told("ok"))
      /\ (Told("failed")' <=> Told("failed")) /\ (Told("version")' <=> Told("version"))
  BY <1>1, <1>2, SaysFacts
<1>4. DataGreeted'
  <2>1. CASE proto \in {"socks", "hysteria2"}
    <3>1. Told("ok")  BY <1>1, <2>1 DEF SessionInv, GreetedFirst
    <3> QED  BY <1>1, <1>2, <2>1, <3>1, SaysFacts, GreetingOf
  <2>2. CASE proto = "vless"
    <3>1. Told("version")  BY <1>2, <2>2 DEF SessionInv, GreetedFirst
    <3> QED  BY <1>1, <1>2, <2>2, <3>1, SaysFacts, GreetingOf
  <2>3. CASE proto \in {"shadowquic", "sunnyquic", "snell"}
    BY <1>1, <1>2, <2>3, SaysFacts, GreetingOf
  <2> QED  BY <1>2, <2>1, <2>2, <2>3 DEF Protocols
<1>5. SessionTypes' /\ Places' /\ DialSoFar'
  BY <1>1, <1>3 DEF SessionInv, SessionTypes, Places, DialSoFar
<1>6. ToldSoFar' /\ GreetedFirst'  BY <1>1, <1>3, <1>4 DEF SessionInv, ToldSoFar, GreetedFirst
<1>7. Shown'
  <2>1. reality => HelloFacts \subseteq genuine  BY <1>2 DEF SessionInv, Shown
  <2> QED  BY <1>1, <2>1 DEF SessionInv, Shown
<1> QED  BY <1>1, <1>5, <1>6, <1>7, PinnedSame DEF SessionInv

(* A datagram of an association.                                           *)
LEMMA PacketInv ==
  ASSUME SessionInv,
         \/ \E from \in Own \cup Foreign, datagram \in {"whole", "broken"} :
                Session!RecvDatagram(from, datagram)
         \/ Session!SendDatagram \/ Session!AdapterRecv \/ Session!AdapterSend
  PROVE  SessionInv'
<1> USE DEF Session!packets, Session!stream
<1>0. /\ sent \in Seq(Own \cup {"client"}) /\ back \in Seq(Own \cup {"client"})
      /\ proto = "socks" =>
            /\ peer \in Own \cup {"none"}
            /\ \A i \in 1 .. Len(sent) : sent[i] = peer
            /\ \A i \in 1 .. Len(back) : back[i] = peer
            /\ peer = "none" => sent = << >> /\ back = << >>
  BY DEF SessionInv, Pinned
<1>1. CASE /\ pc = "packets" /\ pc' = "ended"
           /\ UNCHANGED <<proto, reality, genuine, network, dial, toClient, peer, sent, back, dropped>>
  BY <1>1, TaskEndsInv
<1>2. ASSUME NEW from \in Own, proto = "socks", peer = "none" \/ peer = from, peer' = from,
             sent' = Append(sent, from), UNCHANGED <<proto, back>>
      PROVE  Pinned'
  <2>1. /\ sent' \in Seq(Own \cup {"client"}) /\ Len(sent) \in Nat /\ Len(sent') = Len(sent) + 1
        /\ sent'[Len(sent) + 1] = from /\ \A i \in 1 .. Len(sent) : sent'[i] = sent[i]
    BY <1>0, <1>2
  <2>2. (\A i \in 1 .. Len(sent) : sent[i] = from) /\ (\A i \in 1 .. Len(back) : back[i] = from)
    <3>1. CASE peer = from  BY <1>0, <1>2, <3>1
    <3>2. CASE peer = "none"
      <4>1. Len(sent) = 0 /\ Len(back) = 0  BY <1>0, <1>2, <3>2, EmptySeq
      <4> QED  BY <4>1
    <3> QED  BY <1>2, <3>1, <3>2
  <2>3. \A i \in 1 .. Len(sent') : sent'[i] = from
    <3> TAKE i \in 1 .. Len(sent')
    <3>1. CASE i = Len(sent) + 1  BY <2>1, <3>1
    <3>2. CASE i # Len(sent) + 1
      <4>1. i \in 1 .. Len(sent)  BY <2>1, <3>2
      <4> QED  BY <2>1, <2>2, <4>1
    <3> QED  BY <3>1, <3>2
  <2>4. from # "none"  BY InboundAssumption
  <2> QED  BY <1>0, <1>2, <2>1, <2>2, <2>3, <2>4 DEF Pinned
<1>3. ASSUME proto = "socks", peer # "none", back' = Append(back, peer), UNCHANGED <<proto, peer, sent>>
      PROVE  Pinned'
  <2>1. /\ back' \in Seq(Own \cup {"client"}) /\ Len(back) \in Nat /\ Len(back') = Len(back) + 1
        /\ back'[Len(back) + 1] = peer /\ \A i \in 1 .. Len(back) : back'[i] = back[i]
    BY <1>0, <1>3
  <2>2. \A i \in 1 .. Len(back') : back'[i] = peer
    <3> TAKE i \in 1 .. Len(back')
    <3>1. CASE i = Len(back) + 1  BY <2>1, <3>1
    <3>2. CASE i # Len(back) + 1
      <4>1. i \in 1 .. Len(back)  BY <2>1, <3>2
      <4> QED  BY <1>0, <1>3, <2>1, <4>1
    <3> QED  BY <3>1, <3>2
  <2> QED  BY <1>0, <1>3, <2>1, <2>2 DEF Pinned
<1>4. ASSUME proto # "socks", UNCHANGED proto,
             \/ sent' = Append(sent, "client") /\ UNCHANGED back
             \/ back' = Append(back, "client") /\ UNCHANGED sent
      PROVE  Pinned'
  <2>0. "client" \in Own \cup {"client"}  OBVIOUS
  <2>1. sent' \in Seq(Own \cup {"client"}) /\ back' \in Seq(Own \cup {"client"})
    <3>1. CASE sent' = Append(sent, "client") /\ UNCHANGED back
      BY <1>0, <2>0, <3>1, AppendProperties
    <3>2. CASE back' = Append(back, "client") /\ UNCHANGED sent
      BY <1>0, <2>0, <3>2, AppendProperties
    <3> QED  BY <1>4, <3>1, <3>2
  <2> QED  BY <1>4, <2>1 DEF Pinned
<1>5. ASSUME NEW from \in Own \cup Foreign, NEW datagram, Session!RecvDatagram(from, datagram)
      PROVE  SessionInv'
  <2>1. proto = "socks" /\ from \in Own /\ (peer = "none" \/ peer = from)
    BY <1>5 DEF Session!RecvDatagram, Session!Accepts
  <2>2. CASE peer' = from /\ Session!PacketUp(from)
    <3>1. /\ sent' = Append(sent, from)
          /\ UNCHANGED <<proto, reality, pc, genuine, network, dial, toClient, back, dropped>>
      BY <2>2 DEF Session!PacketUp
    <3>2. Pinned'  BY <1>2, <2>1, <2>2, <3>1
    <3> QED  BY <3>1, <3>2, QuietInv
  <2>3. CASE /\ pc = "packets" /\ Session!End
             /\ UNCHANGED <<proto, reality, genuine, network, dial, toClient, Session!stream,
                            Session!packets, dropped>>
    BY <1>1, <2>3 DEF Session!End
  <2> QED  BY <1>5, <2>2, <2>3 DEF Session!RecvDatagram
<1>6. CASE Session!SendDatagram
  <2>1. CASE peer # "none" /\ Session!PacketDown(peer)
    <3>1. /\ back' = Append(back, peer)
          /\ UNCHANGED <<proto, reality, pc, genuine, network, dial, toClient, peer, sent, dropped>>
      BY <2>1 DEF Session!PacketDown
    <3>2. Pinned'  BY <1>3, <1>6, <2>1, <3>1 DEF Session!SendDatagram
    <3> QED  BY <3>1, <3>2, QuietInv
  <2>2. CASE Session!Fail("packets")  BY <1>1, <2>2 DEF Session!Fail, Session!End
  <2> QED  BY <1>6, <2>1, <2>2 DEF Session!SendDatagram
<1>7. CASE Session!AdapterRecv \/ Session!AdapterSend
  <2>1. CASE Session!Fail("packets")  BY <1>1, <2>1 DEF Session!Fail, Session!End
  <2>2. CASE Session!PacketUp("client") \/ Session!PacketDown("client")
    <3>1. /\ UNCHANGED <<proto, reality, pc, genuine, network, dial, toClient, dropped>>
          /\ \/ sent' = Append(sent, "client") /\ UNCHANGED back
             \/ back' = Append(back, "client") /\ UNCHANGED sent
      BY <2>2 DEF Session!PacketUp, Session!PacketDown
    <3>2. proto # "socks"  BY <1>7 DEF Session!AdapterRecv, Session!AdapterSend
    <3>3. Pinned'  BY <1>4, <3>1, <3>2
    <3> QED  BY <3>1, <3>3, QuietInv
  <2> QED  BY <1>7, <2>1, <2>2 DEF Session!AdapterRecv, Session!AdapterSend
<1> QED  BY <1>5, <1>6, <1>7

(* The SOCKS handler.                                                      *)
LEMMA SocksInv ==
  ASSUME SessionInv, Session!SocksStep  PROVE SessionInv'
<1> USE DEF Session!packets, Session!stream, Session!Handshake, Session!End
<1> USE DEF SocksPlaces, VlessPlaces
<1>0. SessionTypes /\ Places /\ Shown  BY DEF SessionInv
<1>1. CASE Session!ReadGreeting
  <2>1. /\ pc = "greeting"
        /\ UNCHANGED <<proto, reality, genuine, network, dial, dropped, peer, sent, back>>
        /\ \/ toClient' = Append(toClient, "method") /\ pc' = "request"
           \/ UNCHANGED toClient /\ pc' = "ended"
    BY <1>1 DEF Session!ReadGreeting
  <2>2. proto = "socks" /\ ~reality  BY <1>0, <2>1 DEF Places
  <2>3. pc \in BeforeDial /\ pc' \in BeforeDial \cup {"ended"} /\ "method" \in Items \ {"ok", "failed", "data"}
    BY <2>1 DEF BeforeDial, Items
  <2>4. dial = "none"  BY <2>3 DEF SessionInv, DialSoFar
  <2>5. Places'  BY <2>1, <2>2 DEF Places
  <2>6. Shown'  BY <2>1, <2>2, <2>4 DEF Shown
  <2> QED  BY <2>1, <2>2, <2>3, <2>5, <2>6, HandlerInv
<1>2. CASE Session!ReadRequest
  <2>1. /\ pc = "request"
        /\ UNCHANGED <<proto, reality, genuine, dial, dropped, peer, sent, back>>
        /\ \/ UNCHANGED toClient
           \/ toClient' = Append(toClient, "unsupported")
        /\ pc' \in {"ended", "connect"} \/ (pc' = "associate" /\ network' = "udp")
    BY <1>2 DEF Session!ReadRequest
  <2>2. proto = "socks" /\ ~reality  BY <1>0, <2>1 DEF Places
  <2>3. pc \in BeforeDial /\ pc' \in BeforeDial \cup {"ended"} /\ "unsupported" \in Items \ {"ok", "failed", "data"}
    BY <2>1 DEF BeforeDial, Items
  <2>4. dial = "none"  BY <2>3 DEF SessionInv, DialSoFar
  <2>5. Places'  BY <2>1, <2>2 DEF Places
  <2>6. Shown'  BY <2>1, <2>2, <2>4 DEF Shown
  <2> QED  BY <2>1, <2>2, <2>3, <2>5, <2>6, HandlerInv
<1>3. CASE Session!HandleConnect
  BY <1>3, RepliedInv DEF Session!HandleConnect
<1>4. CASE Session!Associate
  <2>1. /\ pc = "associate" /\ pc' = "connectPacket" /\ toClient' = Append(toClient, "bound")
        /\ UNCHANGED <<proto, reality, genuine, network, dial, dropped, peer, sent, back>>
    BY <1>4 DEF Session!Associate
  <2>2. proto = "socks" /\ ~reality /\ network = "udp"  BY <1>0, <2>1 DEF Places
  <2>3. pc \in BeforeDial /\ pc' \in BeforeDial /\ "bound" \in Items \ {"ok", "failed", "data"}
    BY <2>1 DEF BeforeDial, Items
  <2>4. dial = "none"  BY <2>3 DEF SessionInv, DialSoFar
  <2>5. Places'  BY <2>1, <2>2 DEF Places
  <2>6. Shown'  BY <2>1, <2>2, <2>4 DEF Shown
  <2> QED  BY <2>1, <2>2, <2>3, <2>5, <2>6, HandlerInv
<1>5. CASE Session!ControlCloses
  BY <1>5, TaskEndsInv DEF Session!ControlCloses, Session!Associated
<1>6. CASE Session!ClientLeaves
  <2>1. UNCHANGED <<proto, reality, pc, genuine, network, dial, toClient, peer, sent, back, dropped>>
    BY <1>6 DEF Session!ClientLeaves, Session!packets
  <2> QED  BY <2>1, PinnedSame, QuietInv
<1>7. ASSUME NEW at \in {"greeting", "request", "associate"}, Session!Fail(at)  PROVE SessionInv'
  BY <1>7, TaskEndsInv DEF Session!Fail
<1> QED  BY <1>1, <1>2, <1>3, <1>4, <1>5, <1>6, <1>7, PacketInv DEF Session!SocksStep

(* A REALITY hello is authenticated exactly when it shows all four facts.  *)
LEMMA AuthenticAreGenuine ==
  ASSUME NEW hello \in Session!Hellos
  PROVE  Session!Authenticate(hello) <=> HelloFacts \subseteq Session!Facts(hello)
<1>1. hello.skew \in Nat  BY DEF Session!Hellos
<1>2. /\ "key" \in Session!Facts(hello) <=> hello.sealed /\ hello.sessionId = 32
      /\ "shortId" \in Session!Facts(hello) <=> hello.shortId
      /\ "name" \in Session!Facts(hello) <=> hello.name
      /\ "clock" \in Session!Facts(hello) <=>
            MaxTimeDifference = 0 \/ hello.skew \in 0 .. MaxTimeDifference
  BY DEF Session!Facts
<1>3. Session!InTime(hello.skew) <=> MaxTimeDifference = 0 \/ hello.skew \in 0 .. MaxTimeDifference
  BY <1>1, InboundAssumption DEF Session!InTime
<1> QED  BY <1>2, <1>3 DEF Session!Authenticate, HelloFacts

(* The VLESS handler.                                                      *)
LEMMA VlessInv ==
  ASSUME SessionInv, Session!VlessStep  PROVE SessionInv'
<1> USE DEF Session!packets, Session!stream, Session!Handshake, Session!End
<1> USE DEF SocksPlaces, VlessPlaces
<1>0. SessionTypes /\ Places /\ Shown /\ (pc \in BeforeDial => dial = "none")
  BY DEF SessionInv, DialSoFar
<1>1. CASE Session!ReadHello
  <2>1. PICK hello \in Session!Hellos :
          /\ genuine' = genuine \cup Session!Facts(hello)
          /\ pc' = IF Session!Authenticate(hello) THEN "handshake" ELSE "fallback"
    BY <1>1 DEF Session!ReadHello
  <2>2. /\ pc = "hello"
        /\ UNCHANGED <<proto, reality, network, dial, toClient, dropped, peer, sent, back>>
    BY <1>1 DEF Session!ReadHello
  <2>3. /\ genuine = {} /\ toClient = << >> /\ reality /\ proto = "vless" /\ dial = "none"
    BY <1>0, <2>2 DEF Shown, Places, BeforeDial
  <2>4. Session!Authenticate(hello) <=> HelloFacts \subseteq genuine'
    BY <2>1, <2>3, AuthenticAreGenuine
  <2>5. OnlyCover'  BY <2>2, <2>3, NothingSaid, SilentFacts
  <2>6. pc \in BeforeDial /\ pc' \in BeforeDial /\ pc' \in {"handshake", "fallback"}
    BY <2>1, <2>2 DEF BeforeDial
  <2>7. pc' \notin Routed  BY <2>6 DEF Routed
  <2>8. Places'  BY <2>2, <2>3, <2>6 DEF Places
  <2>9. Shown'  BY <2>1, <2>2, <2>3, <2>4, <2>5, <2>6, <2>7 DEF Shown
  <2> QED  BY <2>2, <2>6, <2>7, <2>8, <2>9, HandlerInv
<1>2. CASE Session!FinishHandshake
  <2>1. /\ pc = "handshake" /\ pc' = "http"
        /\ UNCHANGED <<proto, reality, genuine, network, dial, toClient, dropped, peer, sent, back>>
    BY <1>2 DEF Session!FinishHandshake
  <2>2. pc \in BeforeDial /\ pc' \in BeforeDial /\ pc' \notin Routed  BY <2>1 DEF BeforeDial, Routed
  <2>3. proto = "vless" /\ dial = "none" /\ (reality => HelloFacts \subseteq genuine)
    BY <1>0, <2>1, <2>2 DEF Places, Shown
  <2>4. Places'  BY <2>1, <2>3 DEF Places
  <2>5. Shown'  BY <2>1, <2>2, <2>3 DEF Shown
  <2> QED  BY <2>1, <2>2, <2>4, <2>5, HandlerInv
<1>3. CASE Session!RelayInvalid
  <2>1. UNCHANGED <<proto, reality, pc, genuine, network, dial, toClient, peer, sent, back, dropped>>
    BY <1>3 DEF Session!RelayInvalid
  <2> QED  BY <2>1, QuietInv, PinnedSame
<1>4. CASE Session!FallbackCopy
  <2>1. /\ pc = "fallback"
        /\ UNCHANGED <<proto, reality, pc, genuine, network, dial, peer, sent, back, dropped>>
        /\ UNCHANGED toClient \/ toClient' = Append(toClient, "cover")
    BY <1>4 DEF Session!FallbackCopy
  <2>2. pc \in BeforeDial /\ pc' \in BeforeDial /\ pc' \notin Routed /\ "cover" \in Items \ {"ok", "failed", "data"}
    BY <2>1 DEF BeforeDial, Routed, Items
  <2>3. /\ proto = "vless" /\ dial = "none" /\ reality /\ ~(HelloFacts \subseteq genuine) /\ OnlyCover
        /\ toClient \in Seq(Items)
    BY <1>0, <2>1, <2>2 DEF Places, Shown, SessionTypes
  <2>4. Places'  BY <2>1, <2>3 DEF Places
  <2>5. OnlyCover'
    <3>1. CASE UNCHANGED toClient  BY <2>1, <2>3, <3>1, SilentFacts
    <3>2. CASE toClient' = Append(toClient, "cover")  BY <2>1, <2>2, <2>3, <3>2, SaysFacts
    <3> QED  BY <2>1, <3>1, <3>2
  <2>6. Shown'  BY <2>1, <2>2, <2>3, <2>5 DEF Shown
  <2> QED  BY <2>1, <2>2, <2>4, <2>6, HandlerInv
<1>5. CASE Session!ReadHttpRequest
  <2>1. /\ pc = "http" /\ pc' \in {"vless", "ended"}
        /\ UNCHANGED <<proto, reality, genuine, network, dial, dropped, peer, sent, back>>
        /\ UNCHANGED toClient \/ \E x \in {"405", "404", "101"} : toClient' = Append(toClient, x)
    BY <1>5 DEF Session!ReadHttpRequest
  <2>2. pc \in BeforeDial /\ pc' \in BeforeDial \cup {"ended"} /\ pc' \notin Routed
    BY <2>1 DEF BeforeDial, Routed
  <2>3. proto = "vless" /\ dial = "none" /\ (reality => HelloFacts \subseteq genuine)
    BY <1>0, <2>1, <2>2 DEF Places, Shown
  <2>4. Places'  BY <2>1, <2>3 DEF Places
  <2>5. Shown'  BY <2>1, <2>2, <2>3 DEF Shown
  <2>6. {"405", "404", "101"} \subseteq Items \ {"ok", "failed", "data"}  BY DEF Items
  <2> QED  BY <2>1, <2>2, <2>4, <2>5, <2>6, HandlerInv
<1>6. CASE Session!ReadVlessRequest
  <2>1. PICK request \in [version : {0, 1}, user : BOOLEAN, command : {1, 2}, address : {1, 2, 3, 4}] :
          /\ genuine' = genuine \cup (IF request.user THEN {"user"} ELSE {})
          /\ \/ Session!Parses(request) /\ toClient' = Append(toClient, "version") /\ pc' = "connect"
             \/ ~Session!Parses(request) /\ UNCHANGED toClient /\ pc' = "ended"
    BY <1>6 DEF Session!ReadVlessRequest
  <2>2. /\ pc = "vless" /\ UNCHANGED <<proto, reality, network, dial, dropped, peer, sent, back>>
    BY <1>6 DEF Session!ReadVlessRequest
  <2>3. pc \in BeforeDial /\ pc' \in BeforeDial \cup {"ended"} /\ "version" \in Items \ {"ok", "failed", "data"}
    BY <2>1, <2>2 DEF BeforeDial, Items
  <2>4. /\ proto = "vless" /\ dial = "none" /\ (reality => HelloFacts \subseteq genuine)
        /\ toClient \in Seq(Items)
    BY <1>0, <2>2, <2>3 DEF Places, Shown, SessionTypes
  <2>5. /\ HelloFacts \subseteq genuine => HelloFacts \subseteq genuine'
        /\ pc' \in {"connect", "ended"}
        /\ pc' = "connect" => "user" \in genuine' /\ toClient' = Append(toClient, "version")
    BY <2>1 DEF Session!Parses
  <2>6. pc' = "connect" => Told("version")'  BY <2>2, <2>3, <2>4, <2>5, SaysFacts
  <2>7. pc' \in Routed => pc' = "connect"  BY <2>5 DEF Routed
  <2>8. Places'  BY <2>2, <2>4, <2>5 DEF Places
  <2>9. Shown'  BY <2>2, <2>4, <2>5, <2>7 DEF Shown
  <2> QED  BY <2>1, <2>2, <2>3, <2>6, <2>7, <2>8, <2>9, HandlerInv
<1>7. CASE Session!VlessReply
  BY <1>7, RepliedInv DEF Session!VlessReply, Session!RouteReply
<1>8. ASSUME NEW at \in VlessPlaces, Session!Fail(at)  PROVE SessionInv'
  BY <1>8, TaskEndsInv DEF Session!Fail
<1> QED  BY <1>1, <1>2, <1>3, <1>4, <1>5, <1>6, <1>7, <1>8 DEF Session!VlessStep

(* A session of a protocol library, already authenticated.                 *)
LEMMA AcceptedInv ==
  ASSUME SessionInv, pc = "accepted", "user" \in genuine',
         UNCHANGED <<proto, reality, dial, toClient, peer, sent, back, dropped>>,
         pc' \in {"ended", "connect", "accepted"} \/ (pc' = "connectPacket" /\ network' = "udp")
  PROVE  SessionInv'
<1>1. proto \notin {"socks", "vless"} /\ ~reality  BY DEF SessionInv, Places
<1>2. pc \in BeforeDial /\ pc' \in BeforeDial \cup {"ended"}  BY DEF BeforeDial
<1>3. dial = "none"  BY <1>2 DEF SessionInv, DialSoFar
<1>4. Places'  BY <1>1 DEF Places, SocksPlaces, VlessPlaces
<1>5. Shown'  BY <1>1, <1>3 DEF Shown
<1> QED  BY <1>1, <1>2, <1>4, <1>5, HandlerInv

(* The handlers of the protocol libraries' sessions.                       *)
LEMMA LibraryInv ==
  ASSUME SessionInv, Session!QuicStep  PROVE SessionInv'
<1> USE DEF Session!packets, Session!stream, Session!End
<1>1. ASSUME NEW protocol, NEW kind \in {"stream", "packet"}, Session!Accepted(protocol, kind)
      PROVE  SessionInv'
  <2>1. /\ pc = "accepted" /\ genuine' = {"user"}
        /\ UNCHANGED <<proto, reality, dial, toClient, peer, sent, back, dropped>>
    BY <1>1 DEF Session!Accepted
  <2>2. PICK destination \in {"valid", "invalid"} :
          pc' = IF destination = "invalid" THEN "ended"
                ELSE IF kind = "stream" THEN "connect" ELSE "connectPacket"
    BY <1>1 DEF Session!Accepted, Session!Destinations
  <2>3. network' = IF kind = "stream" THEN "tcp" ELSE "udp"  BY <1>1 DEF Session!Accepted
  <2>4. pc' \in {"ended", "connect", "accepted"} \/ (pc' = "connectPacket" /\ network' = "udp")
    BY <1>1, <2>2, <2>3
  <2> QED  BY <2>1, <2>4, AcceptedInv
<1>2. CASE Session!SnellAccept
  BY <1>2, AcceptedInv DEF Session!SnellAccept
<1>3. CASE Session!SnellAgain
  <2>1. /\ proto = "snell" /\ pc' = "accepted" /\ network' = "tcp" /\ dial' = "none"
        /\ toClient' = << >> /\ genuine' = {} /\ peer' = "none" /\ sent' = << >> /\ back' = << >>
        /\ UNCHANGED <<proto, reality, dropped>>
    BY <1>3 DEF Session!SnellAgain
  <2>2. ~reality  BY <2>1 DEF SessionInv, Places
  <2>3. Len(toClient') = 0 /\ << >> \in Seq(Items) /\ << >> \in Seq(Own \cup {"client"})
    BY <2>1, EmptySeq
  <2>4. ~Told("ok")' /\ ~Told("failed")' /\ DataGreeted' /\ OnlyCover'
    BY <2>3 DEF Told, DataGreeted, OnlyCover
  <2>5. pc' \in BeforeDial /\ pc' \notin Routed  BY <2>1 DEF BeforeDial, Routed
  <2>6. SessionTypes' /\ DialSoFar'  BY <2>1, <2>3, <2>5 DEF SessionInv, SessionTypes, DialSoFar
  <2>7. Places'  BY <2>1, <2>2 DEF Places, SocksPlaces, VlessPlaces
  <2>8. ToldSoFar' /\ GreetedFirst'  BY <2>1, <2>4 DEF ToldSoFar, GreetedFirst
  <2>9. Shown' /\ Pinned'  BY <2>1, <2>2, <2>3, <2>5 DEF Shown, Pinned
  <2> QED  BY <2>6, <2>7, <2>8, <2>9 DEF SessionInv
<1>4. CASE Session!HandshakeReply  BY <1>4, RepliedInv DEF Session!HandshakeReply
<1>5. CASE Session!QuicRoute  BY <1>5, RepliedInv DEF Session!QuicRoute, Session!RouteReply
<1>6. CASE Session!GoIdle
  <2>1. UNCHANGED <<proto, reality, pc, genuine, network, dial, toClient, peer, sent, back, dropped>>
    BY <1>6 DEF Session!GoIdle
  <2> QED  BY <2>1, QuietInv, PinnedSame
<1>7. CASE Session!WaitInactive  BY <1>7, TaskEndsInv DEF Session!WaitInactive
<1>8. CASE Session!Fail("accepted")  BY <1>8, TaskEndsInv DEF Session!Fail
<1> QED  BY <1>1, <1>2, <1>3, <1>4, <1>5, <1>6, <1>7, <1>8, PacketInv
         DEF Session!QuicStep, Session!Hysteria2Stream, Session!Hysteria2Packet,
             Session!ShadowQuicStream, Session!ShadowQuicPacket, Session!SunnyQuicStream,
             Session!SunnyQuicPacket

(* Every step of a connection.                                             *)
LEMMA SessionNextInv ==
  SessionInv /\ [Session!SessionsNext]_svars => SessionInv'
<1> SUFFICES ASSUME SessionInv, [Session!SessionsNext]_svars  PROVE SessionInv'
  OBVIOUS
<1> USE DEF Session!packets, Session!stream, Session!End
<1>1. CASE UNCHANGED <<proto, reality, pc, genuine, network, dial, toClient, peer, sent, back, dropped>>
  BY <1>1, QuietInv, PinnedSame
<1>2. CASE Session!Route
  <2>1. CASE Session!RelayUp  BY <1>1, <2>1 DEF Session!RelayUp
  <2>2. ASSUME NEW at \in {"relay", "packets"}, Session!Fail(at)  PROVE SessionInv'
    BY <2>2, TaskEndsInv DEF Session!Fail
  <2>3. ASSUME NEW direction, Session!RelayEof(direction)  PROVE SessionInv'
    <3>1. /\ pc = "relay" /\ pc' \in {pc, "ended"}
          /\ UNCHANGED <<proto, reality, genuine, network, dial, toClient, peer, sent, back, dropped>>
      BY <2>3 DEF Session!RelayEof
    <3> QED  BY <1>1, <3>1, TaskEndsInv
  <2> QED  BY <1>2, <2>1, <2>2, <2>3, ConnectInv, RelayDownInv DEF Session!Route
<1>3. CASE Session!CloseInbound
  <2>1. /\ UNCHANGED <<proto, reality, pc, genuine, network, dial, toClient, peer, sent, back>>
        /\ dropped' = TRUE
    BY <1>3 DEF Session!CloseInbound
  <2> QED  BY <2>1, QuietInv, PinnedSame
<1>4. CASE Session!Cancel  BY <1>4, TaskEndsInv DEF Session!Cancel
<1>5. CASE UNCHANGED svars \/ Session!Ended
  BY <1>1, <1>5 DEF svars, Session!Ended, Session!svars, Session!vars
<1> QED  BY <1>2, <1>3, <1>4, <1>5, SocksInv, VlessInv, LibraryInv DEF Session!SessionsNext
-----------------------------------------------------------------------------
(* The two invariants along every behaviour of the inbound side.           *)
LEMMA InboundInvHolds == MCSpec => [](QuicInv /\ SessionInv)
<1>1. MCInit => QuicInv /\ SessionInv
  <2> SUFFICES ASSUME MCInit  PROVE QuicInv /\ SessionInv  OBVIOUS
  <2>1. Quic!QuicInit  BY DEF MCInit, IdleQuic
  <2>2. Session!SessionsInit \/ IdleSession  BY DEF MCInit
  <2> QED  BY <2>1, <2>2, QuicInitInv, SessionInitInv
<1>2. ASSUME QuicInv /\ SessionInv, [MCNext]_<<part, vars, svars, qvars, wvars, mvars>>
      PROVE  (QuicInv /\ SessionInv)'
  <2>1. [Quic!QuicNext]_qvars  BY <1>2 DEF MCNext
  <2>2. [Session!SessionsNext]_svars  BY <1>2 DEF MCNext
  <2> QED  BY <1>2, <2>1, <2>2, QuicNextInv, SessionNextInv
<1> QED  BY <1>1, <1>2, PTL DEF MCSpec

(* No accept loop and no watcher of a QUIC inbound outlives the server it  *)
(* works on, a start() that failed keeps no server open, and a close()     *)
(* that returned has left none, for any addresses and any interleaving of  *)
(* start(), the watcher, the accept loops and close().                     *)
THEOREM TasksAlwaysBacked == MCSpec => []TasksAreBacked
<1>1. QuicInv => TasksAreBacked
  BY DEF QuicInv, QuicTypes, TasksAfterStart, ServersUnderTasks, CloseInOrder,
         TasksAreBacked, Quic!TasksAreBacked
<1> QED  BY InboundInvHolds, <1>1, PTL

(* Whatever a SOCKS, VLESS, Hysteria2, ShadowQUIC, SunnyQUIC or Snell      *)
(* handler does, the client is told "ok" only after a dial that succeeded, *)
(* "failed" only after one that failed, a failed dial is reported unless   *)
(* the inbound closes first, and data comes after the reply.               *)
THEOREM RepliesAlwaysHonest == MCSpec => []HonestReply
<1>1. SessionInv => HonestReply
  BY DEF SessionInv, ToldSoFar, Told, GreetedFirst, DataGreeted, HonestReply, Session!HonestReply,
         Session!Sent
<1> QED  BY InboundInvHolds, <1>1, PTL

(* No session of an authenticating inbound is dialled without a known      *)
(* user, none behind REALITY without a hello RealityAcceptor authenticates *)
(* for any clock limit, and who fails REALITY sees only the handshake      *)
(* server.                                                                 *)
THEOREM OnlyGenuineReach == MCSpec => []OnlyGenuine
<1>1. SessionInv => OnlyGenuine
  BY DEF SessionInv, Shown, HelloFacts, OnlyCover, OnlyGenuine, Session!OnlyGenuine
<1> QED  BY InboundInvHolds, <1>1, PTL

(* SocksPacketConnection forwards nothing but what one UDP address of the  *)
(* controlling host sent, and answers nobody else, for any sets of         *)
(* addresses and any number of datagrams.                                  *)
THEOREM AssociationsStayPrivate == MCSpec => []AssociationIsPrivate
<1>1. SessionInv => AssociationIsPrivate
  BY DEF SessionInv, Pinned, AssociationIsPrivate, Session!AssociationIsPrivate
<1> QED  BY InboundInvHolds, <1>1, PTL
-----------------------------------------------------------------------------
(* Where the items of a client are: delivered (up), read with its request  *)
(* (held), or still with the client (from next on).                        *)
Carried ==
    /\ next \in Nat \ {0} /\ up \in Seq(Nat) /\ held \in Seq(Nat)
    /\ \A i \in 1 .. Len(up) : i = up[i] + (IF dial = "none" THEN 1 ELSE 0)
    /\ "up" \in eofs => held = << >> /\ Len(up) = next - 1
    /\ pc \in (BeforeDial \ {"connectPacket"}) \cup {"reply"} => eofs = {}
    /\ proto = "socks" /\ pc \in {"connectPacket", "packets"} => held = << >>
    /\ pc \in (BeforeDial \ {"fallback"}) \cup {"reply", "packets"} => up = << >>
    /\ pc \in BeforeDial \ {"vless", "connect", "connectPacket"} => held = << >>
    /\ pc \in BeforeDial \ {"fallback", "vless", "connect", "connectPacket"} => next = 1
    /\ pc = "fallback" => next = IF up = << >> THEN 1 ELSE Len(up)
    /\ pc \in {"vless"} \cup Routed =>
          /\ next = Len(up) + Len(held) + 1
          /\ \A i \in 1 .. Len(held) : held[i] = Len(up) + i
-----------------------------------------------------------------------------
(* The inductive invariant of the AnyTLS multiplexer.                      *)
BeforeReply == {"none", "address", "connect", "connectPacket", "synack", "synackPacket"}
Relaying == {"relay", "downEof", "packets"}
StreamItems == Ids \X Nat

MuxTypes ==
    /\ loop \in {"tls", "auth", "read", "send", "push", "ended"} /\ writer \in {"none", "run", "ended"}
    /\ pushing \in {<< >>} \cup (Ids \X StreamItems)
    /\ told \in [Ids -> Seq({"ok", "failed", "data"})]
    /\ clientNext \in [Ids -> Nat] /\ answers \in [Ids -> Nat]
    /\ chan \in [Ids -> Seq(StreamItems)] /\ reached \in [Ids -> Seq(StreamItems)]
    /\ streamWriter \in [Ids -> {"none", "run", "ended"}]
    /\ pump \in [Ids -> {"none", "read", "send", "cleanup", "fin", "ended"}]
    /\ handler \in [Ids -> BeforeReply \cup Relaying \cup {"cleanup", "fin", "ended"}]
    /\ dialled \in [Ids -> {"none", "ok", "failed"}]

(* The loop hands over one item at a time; the writer is spawned after the *)
(* client has authenticated.                                               *)
LoopInOrder ==
    /\ loop # "push" /\ loop # "ended" => pushing = << >>
    /\ loop \in {"tls", "auth"} => writer = "none"
    /\ pushing # << >> => handler[pushing[1]] # "none"

(* The number of the next item a handler takes out of its queue. *)
Base(s) == IF handler[s] = "address" THEN 0 ELSE Len(reached[s]) + 1
InHand(s) == pushing # << >> /\ pushing[1] = s

(* As long as a handler takes items, its queue, the loop and the client    *)
(* hold the numbers that follow, without a hole.                           *)
QueuedInOrder(s) ==
    /\ handler[s] = "none" =>
          chan[s] = << >> /\ clientNext[s] = 0 /\ s \notin inMap /\ streamWriter[s] = "none"
    /\ handler[s] \in (BeforeReply \ {"none"}) \cup Relaying =>
          /\ \A i \in 1 .. Len(chan[s]) : chan[s][i] = <<s, Base(s) + i - 1>>
          /\ streamWriter[s] = "run" /\ InHand(s) => pushing[2] = <<s, Base(s) + Len(chan[s])>>
          /\ streamWriter[s] = "run" /\ s \in inMap =>
                clientNext[s] = Base(s) + Len(chan[s]) + (IF InHand(s) THEN 1 ELSE 0)

(* What has reached the destination of a stream, and over which dial. *)
ReachedInOrder(s) ==
    /\ \A i \in 1 .. Len(reached[s]) : reached[s][i] = <<s, i>>
    /\ handler[s] \in BeforeReply => reached[s] = << >>
    /\ handler[s] = "synack" => dialled[s] \in {"ok", "failed"}
    /\ handler[s] = "synackPacket" => dialled[s] = "ok"
    /\ handler[s] \in Relaying => dialled[s] = "ok"
    /\ reached[s] # << >> => dialled[s] = "ok"

\* The SYNACK is out, or nothing goes out any more.
Acknowledged(s) == writer = "ended" \/ (told[s] # << >> /\ told[s][1] = "ok")

(* The client of a stream is told one outcome, then data. *)
ToldInOrder(s) ==
    /\ told[s] # << >> => told[s][1] \in {"ok", "failed"} /\ told[s][1] = dialled[s]
    /\ \A i \in 2 .. Len(told[s]) : told[s][i] = "data"
    /\ Len(told[s]) > 1 => told[s][1] = "ok"
    /\ handler[s] \in BeforeReply => told[s] = << >> /\ answers[s] = 0 /\ pump[s] # "send"
    /\ handler[s] \in Relaying \/ answers[s] > 0 \/ pump[s] = "send" => Acknowledged(s)

MuxInv ==
    /\ MuxTypes /\ LoopInOrder
    /\ \A s \in Ids : QueuedInOrder(s) /\ ReachedInOrder(s) /\ ToldInOrder(s)
-----------------------------------------------------------------------------
(* Nothing is carried, only the handler moves on.                          *)
LEMMA CarriedMoves ==
  ASSUME Carried, UNCHANGED <<proto, held, next, up, eofs>>,
         \/ pc' \in {pc, "ended"} /\ UNCHANGED dial
         \/ /\ pc \in BeforeDial \ {"fallback", "vless", "connect", "connectPacket"}
            /\ UNCHANGED dial
         \/ /\ pc \in {"vless", "connect", "reply"}
            /\ pc' \in {"connect", "reply", "relay", "ended"}
         \/ pc = "connectPacket" /\ pc' \in {"packets", "ended"}
  PROVE  Carried'
<1>1. /\ next \in Nat \ {0} /\ up \in Seq(Nat) /\ held \in Seq(Nat) /\ Len(<< >>) = 0
      /\ \A i \in 1 .. Len(up) : i = up[i] + (IF dial = "none" THEN 1 ELSE 0)
      /\ "up" \in eofs => held = << >> /\ Len(up) = next - 1
  BY EmptySeq DEF Carried
<1>2. CASE pc' = pc /\ UNCHANGED dial  BY <1>2 DEF Carried
<1>3. CASE pc' = "ended"
  <2>1. pc' \notin BeforeDial \cup Routed \cup {"vless", "fallback"}
    BY <1>3 DEF BeforeDial, SocksPlaces, VlessPlaces, Routed
  <2>2. dial' = dial \/ up = << >>  BY DEF Carried, BeforeDial, VlessPlaces
  <2>3. \A i \in 1 .. Len(up) : i = up[i] + (IF dial' = "none" THEN 1 ELSE 0)  BY <1>1, <2>2
  <2> QED  BY <1>1, <2>1, <2>3 DEF Carried, Routed
<1>4. CASE pc \in BeforeDial \ {"fallback", "vless", "connect", "connectPacket"} /\ UNCHANGED dial
  <2>1. up = << >> /\ held = << >> /\ next = 1 /\ eofs = {}  BY <1>4 DEF Carried
  <2> QED  BY <1>1, <1>4, <2>1 DEF Carried
<1>5. CASE pc \in {"vless", "connect", "reply"} /\ pc' \in {"connect", "reply", "relay"}
  <2>1. /\ up = << >> /\ eofs = {} /\ next = Len(up) + Len(held) + 1
        /\ \A i \in 1 .. Len(held) : held[i] = Len(up) + i
    BY <1>5 DEF Carried, BeforeDial, SocksPlaces, VlessPlaces, Routed
  <2>2. pc' \notin BeforeDial \ {"connect", "connectPacket"} /\ pc' # "fallback"
    BY <1>5 DEF BeforeDial, SocksPlaces, VlessPlaces
  <2> QED  BY <1>1, <2>1, <2>2 DEF Carried
<1>6. CASE pc = "connectPacket" /\ pc' = "packets"
  <2>1. /\ up = << >> /\ next = Len(up) + Len(held) + 1
        /\ \A i \in 1 .. Len(held) : held[i] = Len(up) + i
    BY <1>6 DEF Carried, BeforeDial, Routed
  <2>2. pc' \notin BeforeDial \cup {"fallback", "vless", "reply"}
    BY <1>6 DEF BeforeDial, SocksPlaces, VlessPlaces
  <2> QED  BY <1>1, <1>6, <2>1, <2>2 DEF Carried
<1> QED  BY <1>2, <1>3, <1>4, <1>5, <1>6

(* Router::relay takes the next item.                                      *)
LEMMA CarriedUp ==
  ASSUME SessionInv, Carried, Session!RelayUp  PROVE Carried'
<1>1. /\ pc = "relay" /\ "up" \notin eofs /\ UNCHANGED <<pc, dial, eofs>>
      /\ \/ held # << >> /\ up' = Append(up, Head(held)) /\ held' = Tail(held) /\ UNCHANGED next
         \/ held = << >> /\ up' = Append(up, next) /\ next' = next + 1 /\ UNCHANGED held
  BY DEF Session!RelayUp
<1>2. pc \notin BeforeDial \cup {"reply", "packets", "vless", "fallback"} /\ pc \in Routed /\ dial = "ok"
  BY <1>1 DEF SessionInv, DialSoFar, BeforeDial, SocksPlaces, VlessPlaces, Routed
<1>3. /\ next \in Nat \ {0} /\ up \in Seq(Nat) /\ held \in Seq(Nat) /\ next = Len(up) + Len(held) + 1
      /\ Len(up) \in Nat /\ Len(held) \in Nat
      /\ \A i \in 1 .. Len(held) : held[i] = Len(up) + i
      /\ \A i \in 1 .. Len(up) : up[i] = i
  BY <1>2 DEF Carried
<1>4. PICK x \in Nat : x = Len(up) + 1  BY <1>3
<1>5. /\ up' = Append(up, x) /\ next' \in Nat \ {0} /\ held' \in Seq(Nat)
      /\ next' = Len(up) + 1 + Len(held') + 1
      /\ \A i \in 1 .. Len(held') : held'[i] = Len(up) + 1 + i
  <2>1. CASE held # << >> /\ up' = Append(up, Head(held)) /\ held' = Tail(held) /\ UNCHANGED next
    <3>1. Len(held) # 0 /\ Head(held) = held[1]  BY <1>3, <2>1, EmptySeq
    <3>2. /\ held' \in Seq(Nat) /\ Len(held') = Len(held) - 1
          /\ \A i \in 1 .. Len(held') : held'[i] = held[i + 1]
      BY <1>3, <2>1, <3>1, HeadTailProperties
    <3>3. held[1] = x  BY <1>3, <1>4, <3>1
    <3>4. ASSUME NEW i \in 1 .. Len(held')  PROVE held'[i] = Len(up) + 1 + i
      <4>1. i + 1 \in 1 .. Len(held)  BY <1>3, <3>2
      <4> QED  BY <1>3, <3>2, <4>1
    <3> QED  BY <1>3, <2>1, <3>1, <3>2, <3>3, <3>4
  <2>2. CASE held = << >> /\ up' = Append(up, next) /\ next' = next + 1 /\ UNCHANGED held
    <3>1. Len(held) = 0  BY <2>2, EmptySeq
    <3> QED  BY <1>3, <1>4, <2>2, <3>1
  <2> QED  BY <1>1, <2>1, <2>2
<1>6. /\ up' \in Seq(Nat) /\ Len(up') = Len(up) + 1 /\ up'[Len(up) + 1] = x
      /\ \A i \in 1 .. Len(up) : up'[i] = up[i]
  BY <1>3, <1>5
<1>7. \A i \in 1 .. Len(up') : up'[i] = i
  <2> TAKE i \in 1 .. Len(up')
  <2>1. CASE i = Len(up) + 1  BY <1>4, <1>6, <2>1
  <2>2. CASE i # Len(up) + 1
    <3>1. i \in 1 .. Len(up)  BY <1>3, <1>6, <2>2
    <3>2. up[i] = i  BY <1>3, <3>1
    <3> QED  BY <1>6, <3>1, <3>2
  <2> QED  BY <2>1, <2>2
<1>8. \A i \in 1 .. Len(up') : i = up'[i] + (IF dial' = "none" THEN 1 ELSE 0)
  BY <1>1, <1>2, <1>3, <1>6, <1>7
<1>9. /\ next' = Len(up') + Len(held') + 1
      /\ \A i \in 1 .. Len(held') : held'[i] = Len(up') + i
  BY <1>3, <1>5, <1>6
<1> QED  BY <1>1, <1>2, <1>5, <1>6, <1>8, <1>9 DEF Carried

(* The relayed hello, and what follows it to the handshake server.         *)
LEMMA CarriedAway ==
  ASSUME SessionInv, Carried, Session!RelayInvalid \/ Session!FallbackCopy  PROVE Carried'
<1>0. /\ pc = "fallback" /\ UNCHANGED <<pc, dial, held, eofs>>
  BY DEF Session!RelayInvalid, Session!FallbackCopy, Session!stream
<1>1. pc \in BeforeDial /\ pc \notin Routed \cup {"reply", "packets", "vless", "connect", "connectPacket"}
  BY <1>0 DEF BeforeDial, SocksPlaces, VlessPlaces, Routed
<1>2. /\ dial = "none" /\ held = << >> /\ eofs = {} /\ next \in Nat \ {0} /\ up \in Seq(Nat)
      /\ held \in Seq(Nat) /\ Len(up) \in Nat
      /\ next = (IF up = << >> THEN 1 ELSE Len(up)) /\ \A i \in 1 .. Len(up) : i = up[i] + 1
  BY <1>0, <1>1 DEF SessionInv, DialSoFar, Carried
<1>3. ASSUME up' \in Seq(Nat), next' \in Nat \ {0}, up' # << >>, next' = Len(up'),
             \A i \in 1 .. Len(up') : i = up'[i] + 1
      PROVE  Carried'
  BY <1>0, <1>1, <1>2, <1>3 DEF Carried
<1>4. CASE UNCHANGED <<up, next>>  BY <1>0, <1>4 DEF Carried
<1>5. ASSUME NEW x \in Nat, up' = Append(up, x), x = Len(up), next' = Len(up) + 1  PROVE Carried'
  <2>1. /\ up' \in Seq(Nat) /\ Len(up') = Len(up) + 1 /\ up'[Len(up) + 1] = x
        /\ \A i \in 1 .. Len(up) : up'[i] = up[i]
    BY <1>2, <1>5
  <2>2. ASSUME NEW i \in 1 .. Len(up')  PROVE i = up'[i] + 1
    <3>1. CASE i = Len(up) + 1  BY <1>2, <1>5, <2>1, <3>1
    <3>2. CASE i # Len(up) + 1
      <4>1. i \in 1 .. Len(up)  BY <1>2, <2>1, <3>2
      <4> QED  BY <1>2, <2>1, <4>1
    <3> QED  BY <3>1, <3>2
  <2>3. up' # << >>
    <3>1. Len(up') # 0  BY <1>2, <2>1
    <3> QED  BY <3>1, EmptySeq
  <2> QED  BY <1>2, <1>3, <1>5, <2>1, <2>2, <2>3
<1>6. CASE Session!RelayInvalid
  <2>1. up = << >> /\ up' = <<0>> /\ UNCHANGED next  BY <1>6 DEF Session!RelayInvalid
  <2>2. Len(up) = 0 /\ next = 1  BY <1>2, <2>1, EmptySeq
  <2>3. <<0>> \in Seq(Nat) /\ Len(<<0>>) = 1 /\ <<0>>[1] = 0 /\ <<0>> # << >>  OBVIOUS
  <2> QED  BY <1>2, <1>3, <2>1, <2>2, <2>3
<1>7. CASE Session!FallbackCopy
  <2>1. up # << >> /\ (UNCHANGED <<up, next>> \/ (up' = Append(up, next) /\ next' = next + 1))
    BY <1>7 DEF Session!FallbackCopy
  <2> QED  BY <1>2, <1>4, <1>5, <2>1
<1> QED  BY <1>6, <1>7

(* The WebSocket upgrade: early data, then the tail of the chunk.          *)
LEMMA CarriedHeld ==
  ASSUME Carried, Session!ReadHttpRequest  PROVE Carried'
<1>1. pc = "http" /\ UNCHANGED <<proto, dial, up, eofs>>  BY DEF Session!ReadHttpRequest
<1>2. pc \in BeforeDial \ {"fallback", "vless", "connect", "connectPacket"}
  BY <1>1 DEF BeforeDial, VlessPlaces
<1>3. up = << >> /\ held = << >> /\ next = 1 /\ eofs = {}  BY <1>2 DEF Carried
<1>4. CASE UNCHANGED <<held, next>>  BY <1>1, <1>2, <1>4, CarriedMoves
<1>5. ASSUME NEW request \in Session!Requests, held' = Session!Held(request), pc' = "vless",
             next' = next + request.earlyItems + request.tailItems
      PROVE  Carried'
  <2>1. PICK e \in 0 .. 1 : e = request.earlyItems  BY DEF Session!Requests
  <2>2. PICK t \in 0 .. 1 : t = request.tailItems  BY DEF Session!Requests
  <2> DEFINE first == [i \in 1 .. e |-> 1 + i - 1]
             then == [i \in 1 .. t |-> 1 + e + i - 1]
  <2>3. held' = first \o then  BY <1>3, <1>5, <2>1, <2>2 DEF Session!Held, Session!Items
  <2>4. first \in Seq(Nat) /\ then \in Seq(Nat) /\ Len(first) = e /\ Len(then) = t
    BY <2>1, <2>2
  <2>5. held' \in Seq(Nat) /\ Len(held') = e + t /\ \A i \in 1 .. e + t : held'[i] = i
    <3>1. (\A i \in 1 .. e : first[i] = i) /\ (\A i \in 1 .. t : then[i] = e + i)  BY <2>1, <2>2
    <3> HIDE DEF first, then
    <3>2. /\ held' \in Seq(Nat) /\ Len(held') = e + t
          /\ \A i \in 1 .. e + t : held'[i] = IF i <= e THEN first[i] ELSE then[i - e]
      BY <2>3, <2>4, ConcatProperties
    <3>3. ASSUME NEW i \in 1 .. e + t  PROVE held'[i] = i
      <4>1. CASE i <= e  BY <2>1, <2>2, <3>1, <3>2, <4>1
      <4>2. CASE i > e
        <5>1. i - e \in 1 .. t  BY <2>1, <2>2, <4>2
        <5> QED  BY SMTT(30), <2>1, <2>2, <3>1, <3>2, <4>2, <5>1
      <4> QED  BY <2>1, <2>2, <4>1, <4>2
    <3> QED  BY <3>2, <3>3
  <2>6. next' = e + t + 1  BY <1>3, <1>5, <2>1, <2>2
  <2>7. "vless" \in BeforeDial /\ Len(<< >>) = 0 /\ << >> \in Seq(Nat)  BY EmptySeq DEF BeforeDial, VlessPlaces
  <2> QED  BY <1>1, <1>3, <1>5, <2>5, <2>6, <2>7 DEF Carried
<1> QED  BY <1>4, <1>5 DEF Session!ReadHttpRequest

(* Every step of a connection keeps account of its items.                  *)
LEMMA CarriedNextInv ==
  ASSUME SessionInv, Carried, [Session!SessionsNext]_svars  PROVE Carried'
<1> USE DEF Session!packets, Session!stream, Session!Handshake, Session!End
<1>1. CASE pc' \in {pc, "ended"} /\ UNCHANGED <<proto, dial, held, next, up, eofs>>  BY <1>1, CarriedMoves
<1>2. CASE Session!Route
  <2>1. CASE Session!Connect \/ Session!ConnectPacket
    <3>1. /\ \/ pc = "connect" /\ pc' = "reply"
             \/ pc = "connectPacket" /\ pc' \in {"packets", "ended"}
          /\ UNCHANGED <<proto, held, next, up, eofs>>
      BY <2>1 DEF Session!Connect, Session!ConnectPacket
    <3> QED  BY <3>1, CarriedMoves
  <2>2. CASE Session!RelayDown  BY <1>1, <2>2 DEF Session!RelayDown
  <2>3. ASSUME NEW at, Session!Fail(at)  PROVE Carried'  BY <1>1, <2>3 DEF Session!Fail
  <2>4. ASSUME NEW direction \in {"up", "down"}, Session!RelayEof(direction)  PROVE Carried'
    <3>1. /\ pc = "relay" /\ pc' \in {"relay", "ended"} /\ eofs' = eofs \cup {direction}
          /\ (direction = "up" => held = << >>) /\ UNCHANGED <<dial, held, next, up>>
      BY <2>4 DEF Session!RelayEof
    <3>2. pc' \notin BeforeDial \cup {"reply", "packets", "vless", "fallback"} /\ pc \in Routed
      BY <3>1 DEF BeforeDial, SocksPlaces, VlessPlaces, Routed
    <3>3. next \in Nat /\ next = Len(up) + Len(held) + 1 /\ Len(up) \in Nat  BY <3>2 DEF Carried
    <3>4. "up" \in eofs' => held = << >> /\ Len(up) = next - 1
      <4>1. CASE direction = "up"
        <5>1. Len(held) = 0  BY <3>1, <4>1, EmptySeq
        <5> QED  BY <3>1, <3>3, <4>1, <5>1
      <4>2. CASE direction = "down"  BY <3>1, <4>2 DEF Carried
      <4> QED  BY <4>1, <4>2
    <3> QED  BY <3>1, <3>2, <3>4 DEF Carried
  <2> QED  BY <1>2, <2>1, <2>2, <2>3, <2>4, CarriedUp DEF Session!Route
<1>3. CASE Session!SocksStep
  <2>1. CASE Session!ReadGreeting \/ Session!ReadRequest \/ Session!Associate
    <3>1. /\ pc \in {"greeting", "request", "associate"} /\ UNCHANGED <<proto, dial, held, next, up, eofs>>
      BY <2>1 DEF Session!ReadGreeting, Session!ReadRequest, Session!Associate
    <3>2. pc \in BeforeDial \ {"fallback", "vless", "connect", "connectPacket"}
      BY <3>1 DEF BeforeDial, SocksPlaces
    <3> QED  BY <3>1, <3>2, CarriedMoves
  <2>2. CASE Session!HandleConnect
    <3>1. pc = "reply" /\ pc' \in {"relay", "ended"} /\ UNCHANGED <<proto, held, next, up, eofs>>
      BY <2>2 DEF Session!HandleConnect
    <3> QED  BY <3>1, CarriedMoves
  <2>3. CASE Session!ControlCloses  BY <1>1, <2>3 DEF Session!ControlCloses
  <2>4. ASSUME NEW at, Session!Fail(at)  PROVE Carried'  BY <1>1, <2>4 DEF Session!Fail
  <2>5. ASSUME NEW from, NEW datagram, Session!RecvDatagram(from, datagram)  PROVE Carried'
    BY <1>1, <2>5 DEF Session!RecvDatagram, Session!PacketUp
  <2>6. CASE Session!SendDatagram
    BY <1>1, <2>6 DEF Session!SendDatagram, Session!PacketDown, Session!Fail
  <2>7. CASE Session!ClientLeaves
    <3>1. /\ pc \in {"connectPacket", "packets"} /\ proto = "socks" /\ eofs' = {"up"}
          /\ UNCHANGED <<proto, pc, dial, held, next, up>>
      BY <2>7 DEF Session!ClientLeaves, Session!Associated
    <3>2. /\ held = << >> /\ Len(held) = 0 /\ next = Len(up) + Len(held) + 1 /\ next \in Nat
          /\ Len(up) \in Nat
      BY <3>1, EmptySeq DEF Carried, Routed
    <3>3. held = << >> /\ Len(up) = next - 1  BY <3>2
    <3>4. pc \notin (BeforeDial \ {"connectPacket"}) \cup {"reply", "vless", "fallback"}
      BY <3>1 DEF BeforeDial, SocksPlaces, VlessPlaces
    <3> QED  BY <3>1, <3>3, <3>4 DEF Carried
  <2> QED  BY <1>3, <2>1, <2>2, <2>3, <2>4, <2>5, <2>6, <2>7 DEF Session!SocksStep
<1>4. CASE Session!VlessStep
  <2>1. CASE Session!ReadHello \/ Session!FinishHandshake
    <3>1. pc \in {"hello", "handshake"} /\ UNCHANGED <<proto, dial, held, next, up, eofs>>
      BY <2>1 DEF Session!ReadHello, Session!FinishHandshake
    <3>2. pc \in BeforeDial \ {"fallback", "vless", "connect", "connectPacket"}
      BY <3>1 DEF BeforeDial, VlessPlaces
    <3> QED  BY <3>1, <3>2, CarriedMoves
  <2>2. CASE Session!ReadVlessRequest
    <3>1. pc = "vless" /\ pc' \in {"connect", "ended"} /\ UNCHANGED <<proto, held, next, up, eofs>>
      BY <2>2 DEF Session!ReadVlessRequest
    <3> QED  BY <3>1, CarriedMoves
  <2>3. CASE Session!VlessReply
    <3>1. pc = "reply" /\ pc' \in {"relay", "ended"} /\ UNCHANGED <<proto, held, next, up, eofs>>
      BY <2>3 DEF Session!VlessReply, Session!RouteReply
    <3> QED  BY <3>1, CarriedMoves
  <2>4. ASSUME NEW at, Session!Fail(at)  PROVE Carried'  BY <1>1, <2>4 DEF Session!Fail
  <2> QED  BY <1>4, <2>1, <2>2, <2>3, <2>4, CarriedAway, CarriedHeld DEF Session!VlessStep
<1>5. CASE Session!QuicStep
  <2>1. CASE (\E protocol, kind : Session!Accepted(protocol, kind)) \/ Session!SnellAccept
    <3>1. pc = "accepted" /\ UNCHANGED <<proto, dial, held, next, up, eofs>>
      BY <2>1 DEF Session!Accepted, Session!SnellAccept
    <3>2. pc \in BeforeDial \ {"fallback", "vless", "connect", "connectPacket"}
      BY <3>1 DEF BeforeDial
    <3> QED  BY <3>1, <3>2, CarriedMoves
  <2>2. CASE Session!SnellAgain
    <3>1. /\ pc' = "accepted" /\ held' = << >> /\ next' = 1 /\ up' = << >> /\ eofs' = {}
      BY <2>2 DEF Session!SnellAgain
    <3>2. << >> \in Seq(Nat) /\ Len(<< >>) = 0  BY EmptySeq
    <3>3. pc' \notin Routed \cup {"vless"}  BY <3>1 DEF Routed
    <3> QED  BY <3>1, <3>2, <3>3 DEF Carried
  <2>3. CASE Session!HandshakeReply \/ Session!QuicRoute
    <3>1. pc = "reply" /\ pc' \in {"relay", "ended"} /\ UNCHANGED <<proto, held, next, up, eofs>>
      BY <2>3 DEF Session!HandshakeReply, Session!QuicRoute, Session!RouteReply
    <3> QED  BY <3>1, CarriedMoves
  <2>4. CASE Session!AdapterRecv \/ Session!AdapterSend
    BY <1>1, <2>4 DEF Session!AdapterRecv, Session!AdapterSend, Session!PacketUp, Session!PacketDown,
                      Session!Fail
  <2>5. CASE Session!GoIdle \/ Session!WaitInactive \/ Session!Fail("accepted")
    BY <1>1, <2>5 DEF Session!GoIdle, Session!WaitInactive, Session!Fail
  <2> QED  BY <1>5, <2>1, <2>2, <2>3, <2>4, <2>5
           DEF Session!QuicStep, Session!Hysteria2Stream, Session!Hysteria2Packet,
               Session!ShadowQuicStream, Session!ShadowQuicPacket, Session!SunnyQuicStream,
               Session!SunnyQuicPacket
<1>6. CASE Session!CloseInbound \/ Session!Cancel \/ Session!Ended \/ UNCHANGED svars
  BY <1>1, <1>6 DEF Session!CloseInbound, Session!Cancel, Session!Ended, Session!svars, Session!vars,
                    svars
<1> QED  BY <1>2, <1>3, <1>4, <1>5, <1>6 DEF Session!SessionsNext

(* No item of a client is lost, repeated or reordered between its request  *)
(* and the destination, whatever was read together with the HTTP headers   *)
(* or came as early data, for any amount of data; a REALITY hello that     *)
(* fails is the first thing the handshake server sees.                     *)
THEOREM NothingIsSwallowed == MCSpec => []Session!NothingSwallowed
<1>1. MCInit => Carried
  <2> SUFFICES ASSUME MCInit  PROVE Carried  OBVIOUS
  <2>1. Session!SessionsInit \/ IdleSession  BY DEF MCInit
  <2>2. held = << >> /\ next = 1 /\ up = << >> /\ eofs = {}
    BY <2>1 DEF Session!SessionsInit, IdleSession, Session!SessionInit
  <2>3. << >> \in Seq(Nat) /\ Len(<< >>) = 0  BY EmptySeq
  <2> QED  BY <2>2, <2>3 DEF Carried
<1>2. ASSUME SessionInv, Carried, [MCNext]_<<part, vars, svars, qvars, wvars, mvars>>  PROVE Carried'
  <2>1. [Session!SessionsNext]_svars  BY <1>2 DEF MCNext
  <2> QED  BY <1>2, <2>1, CarriedNextInv
<1>3. Carried => Session!NothingSwallowed  BY DEF Carried, Session!NothingSwallowed
<1>4. SessionInv /\ Carried /\ [MCNext]_<<part, vars, svars, qvars, wvars, mvars>> => Carried'
  BY <1>2
<1> QED  BY <1>1, <1>3, <1>4, InboundInvHolds, PTL DEF MCSpec
-----------------------------------------------------------------------------
(* What the step of one task leaves of the account of a stream.            *)
LEMMA StreamKept ==
  ASSUME MuxInv, MuxTypes', NEW r \in Ids,
         told'[r] = told[r], chan'[r] = chan[r], reached'[r] = reached[r],
         clientNext'[r] = clientNext[r], dialled'[r] = dialled[r],
         \/ handler'[r] = handler[r]
         \/ handler[r] # "none" /\ handler'[r] \in {"cleanup", "fin", "ended"}
         \/ handler[r] = "relay" /\ handler'[r] = "downEof",
         \/ streamWriter'[r] = streamWriter[r]
         \/ streamWriter[r] = "run" /\ streamWriter'[r] = "ended",
         answers'[r] > 0 => answers[r] > 0 \/ handler[r] \in Relaying,
         pump'[r] = "send" => pump[r] = "send" \/ answers[r] > 0,
         r \in inMap' => r \in inMap,
         InHand(r)' <=> InHand(r),
         InHand(r) => pushing' = pushing,
         writer = "ended" => writer' = "ended"
  PROVE  (QueuedInOrder(r) /\ ReachedInOrder(r) /\ ToldInOrder(r))'
<1>1. QueuedInOrder(r) /\ ReachedInOrder(r) /\ ToldInOrder(r) /\ answers[r] \in Nat /\ answers'[r] \in Nat
  BY DEF MuxInv, MuxTypes
<1>2. /\ handler'[r] \in BeforeReply => handler'[r] = handler[r]
      /\ handler'[r] \in Relaying => handler[r] \in Relaying
      /\ handler'[r] = "address" <=> handler[r] = "address" /\ handler'[r] = handler[r]
  BY DEF BeforeReply, Relaying
<1>3. QueuedInOrder(r)'
  <2>1. CASE handler'[r] = "none"  BY <1>1, <1>2, <2>1 DEF QueuedInOrder, BeforeReply, Relaying
  <2>2. CASE handler'[r] \in (BeforeReply \ {"none"}) \cup Relaying
    <3>1. /\ handler[r] \in (BeforeReply \ {"none"}) \cup Relaying
          /\ handler'[r] = "address" <=> handler[r] = "address"
      BY <1>2, <2>2 DEF BeforeReply, Relaying
    <3>2. Base(r)' = Base(r)  BY <3>1 DEF Base
    <3> QED  BY <1>1, <2>2, <3>1, <3>2 DEF QueuedInOrder
  <2> QED  BY <2>1, <2>2 DEF QueuedInOrder
<1>4. ReachedInOrder(r)'
  BY <1>1, <1>2 DEF ReachedInOrder, BeforeReply
<1>5. ToldInOrder(r)'
  <2>1. Acknowledged(r) => Acknowledged(r)'  BY DEF Acknowledged
  <2>2. handler[r] \notin BeforeReply \/ handler[r] \notin Relaying  BY DEF BeforeReply, Relaying
  <2> QED  BY <1>1, <1>2, <2>1, <2>2 DEF ToldInOrder
<1> QED  BY <1>3, <1>4, <1>5

(* The steps that change no stream: the loop between two streams, the      *)
(* writer and the inbound.                                                 *)
LEMMA LoopInv ==
  ASSUME MuxInv,
         UNCHANGED <<told, chan, reached, clientNext, dialled, handler, streamWriter, answers, pump>>,
         MuxTypes', LoopInOrder', inMap' \subseteq inMap, UNCHANGED pushing,
         writer = "ended" => writer' = "ended"
  PROVE  MuxInv'
<1> SUFFICES ASSUME NEW r \in Ids  PROVE (QueuedInOrder(r) /\ ReachedInOrder(r) /\ ToldInOrder(r))'
  BY DEF MuxInv
<1>1. InHand(r)' <=> InHand(r)  BY DEF InHand
<1> QED  BY <1>1, StreamKept

(* A step of stream s is none of another stream.                           *)
LEMMA OneStreamInv ==
  ASSUME MuxInv, MuxTypes', LoopInOrder', NEW s \in Ids,
         \A r \in Ids \ {s} :
            /\ told'[r] = told[r] /\ chan'[r] = chan[r] /\ reached'[r] = reached[r]
            /\ clientNext'[r] = clientNext[r] /\ dialled'[r] = dialled[r] /\ handler'[r] = handler[r]
            /\ streamWriter'[r] = streamWriter[r] /\ answers'[r] = answers[r] /\ pump'[r] = pump[r],
         inMap' \subseteq inMap \cup {s}, UNCHANGED writer,
         \/ UNCHANGED pushing
         \/ /\ pushing = << >> \/ pushing[1] = s
            /\ pushing' = << >> \/ pushing'[1] = s,
         (QueuedInOrder(s) /\ ReachedInOrder(s) /\ ToldInOrder(s))'
  PROVE  MuxInv'
<1> SUFFICES ASSUME NEW r \in Ids, r # s
             PROVE  (QueuedInOrder(r) /\ ReachedInOrder(r) /\ ToldInOrder(r))'
  BY DEF MuxInv
<1>1. (InHand(r)' <=> InHand(r)) /\ (InHand(r) => pushing' = pushing)  BY DEF InHand
<1> QED  BY <1>1, StreamKept

(* An AnyTLS connection begins without a stream.                           *)
LEMMA MuxInitInv == IdleMux => MuxInv
<1> SUFFICES ASSUME Mux!ServerInit  PROVE MuxInv  BY DEF IdleMux
<1>1. << >> \in Seq({"ok", "failed", "data"}) /\ << >> \in Seq(StreamItems) /\ Len(<< >>) = 0
  BY EmptySeq
<1>2. MuxTypes  BY <1>1 DEF Mux!ServerInit, MuxTypes, BeforeReply
<1>3. LoopInOrder  BY DEF Mux!ServerInit, LoopInOrder
<1>4. ASSUME NEW s \in Ids  PROVE QueuedInOrder(s) /\ ReachedInOrder(s) /\ ToldInOrder(s)
  <2>1. /\ handler[s] = "none" /\ chan[s] = << >> /\ clientNext[s] = 0 /\ s \notin inMap
        /\ streamWriter[s] = "none" /\ reached[s] = << >> /\ told[s] = << >> /\ answers[s] = 0
        /\ pump[s] = "none"
    BY DEF Mux!ServerInit
  <2>2. QueuedInOrder(s)  BY <2>1 DEF QueuedInOrder, Relaying
  <2>3. ReachedInOrder(s)  BY <1>1, <2>1 DEF ReachedInOrder, Relaying
  <2>4. ToldInOrder(s)  BY <1>1, <2>1 DEF ToldInOrder, Relaying
  <2> QED  BY <2>2, <2>3, <2>4
<1> QED  BY <1>2, <1>3, <1>4 DEF MuxInv

(* The connection task, the writer, and the end of the inbound.            *)
LEMMA ConnectionInv ==
  ASSUME MuxInv,
         \/ Mux!Gone \/ Mux!Accept \/ Mux!ReadHeartbeat \/ Mux!LoopSends \/ Mux!ReadEnds
         \/ \E flag \in BOOLEAN : Mux!Authenticate(flag) \/ Mux!ReadSettings(flag)
         \/ Mux!OtherPush \/ Mux!OtherPushed \/ Mux!OtherSends \/ Mux!CloseInbound
         \/ Mux!LoopCancelled \/ Mux!WriterWrites \/ Mux!WriterFails \/ Mux!WriterCancelled
         \/ \E s \in Ids : Mux!ReadFin(s)
         \/ UNCHANGED mvars
  PROVE  MuxInv'
<1>0. MuxTypes /\ LoopInOrder  BY DEF MuxInv
<1>1. /\ UNCHANGED <<told, chan, reached, clientNext, dialled, handler, streamWriter, answers, pump>>
      /\ inMap' \subseteq inMap
  BY DEF Mux!Gone, Mux!Accept, Mux!ReadHeartbeat, Mux!LoopSends, Mux!ReadEnds, Mux!Authenticate,
         Mux!ReadSettings, Mux!OtherPush, Mux!OtherPushed, Mux!OtherSends, Mux!CloseInbound,
         Mux!LoopCancelled, Mux!WriterWrites, Mux!WriterFails, Mux!WriterCancelled, Mux!ReadFin,
         Mux!Remove, mvars, Mux!vars, Mux!connection, Mux!wires, Mux!tasks, Mux!flows
<1>2. /\ pushing' = pushing
      /\ \/ UNCHANGED <<loop, writer>>
         \/ loop' = "ended" /\ UNCHANGED writer
         \/ loop = "tls" /\ loop' = "auth" /\ UNCHANGED writer
         \/ loop = "auth" /\ loop' = "read" /\ writer' = "run"
         \/ loop \in {"read", "send"} /\ loop' \in {"read", "send"} /\ UNCHANGED writer
         \/ loop = "read" /\ loop' = "push" /\ UNCHANGED writer
         \/ loop = "push" /\ loop' = "read" /\ pushing = << >> /\ UNCHANGED writer
         \/ writer = "run" /\ writer' = "ended" /\ UNCHANGED loop
  BY <1>0 DEF LoopInOrder, Mux!Gone, Mux!Accept, Mux!ReadHeartbeat, Mux!LoopSends, Mux!ReadEnds, Mux!Authenticate,
         Mux!ReadSettings, Mux!OtherPush, Mux!OtherPushed, Mux!OtherSends, Mux!CloseInbound,
         Mux!LoopCancelled, Mux!WriterWrites, Mux!WriterFails, Mux!WriterCancelled, Mux!ReadFin,
         mvars, Mux!vars, Mux!connection, Mux!wires, Mux!tasks, Mux!flows
<1>3. MuxTypes'  BY <1>0, <1>1, <1>2 DEF MuxTypes
<1>4. LoopInOrder' /\ (writer = "ended" => writer' = "ended")
  BY <1>0, <1>1, <1>2 DEF LoopInOrder
<1> QED  BY <1>1, <1>2, <1>3, <1>4, LoopInv

(* A task of stream s waits, stops or cleans up.                           *)
LEMMA StreamTaskInv ==
  ASSUME MuxInv, NEW s \in Ids,
         \/ Mux!StreamWriterEnds(s) \/ Mux!PumpReads(s) \/ Mux!PumpStops(s) \/ Mux!PumpCleansUp(s)
         \/ Mux!PumpFin(s) \/ Mux!RelayDown(s) \/ Mux!RelayDownEof(s) \/ Mux!HandlerFails(s)
         \/ Mux!HandlerCancelled(s) \/ Mux!HandlerCleansUp(s) \/ Mux!HandlerFin(s)
  PROVE  MuxInv'
<1> USE DEF Mux!connection, Mux!wires, Mux!tasks, Mux!flows
<1>0. MuxTypes /\ LoopInOrder  BY DEF MuxInv
<1>1. /\ UNCHANGED <<told, chan, reached, clientNext, dialled, pushing, loop, writer>>
      /\ inMap' \subseteq inMap
  BY DEF Mux!StreamWriterEnds, Mux!PumpReads, Mux!PumpStops, Mux!PumpCleansUp, Mux!PumpFin,
         Mux!RelayDown, Mux!RelayDownEof, Mux!HandlerFails, Mux!HandlerCancelled, Mux!HandlerCleansUp,
         Mux!HandlerFin, Mux!Remove
<1> DEFINE H == BeforeReply \cup Relaying \cup {"cleanup", "fin", "ended"}
<1>2a. \/ UNCHANGED handler
       \/ \E to \in {"cleanup", "fin", "ended"} :
             handler' = [handler EXCEPT ![s] = to] /\ handler[s] # "none"
       \/ handler' = [handler EXCEPT ![s] = "downEof"] /\ handler[s] = "relay"
  BY DEF Mux!StreamWriterEnds, Mux!PumpReads, Mux!PumpStops, Mux!PumpCleansUp, Mux!PumpFin,
         Mux!RelayDown, Mux!RelayDownEof, Mux!HandlerFails, Mux!HandlerCancelled, Mux!HandlerCleansUp,
         Mux!HandlerFin, Mux!HandlerGoes
<1>2b. \/ UNCHANGED streamWriter
       \/ streamWriter' = [streamWriter EXCEPT ![s] = "ended"] /\ streamWriter[s] = "run"
  BY DEF Mux!StreamWriterEnds, Mux!PumpReads, Mux!PumpStops, Mux!PumpCleansUp, Mux!PumpFin,
         Mux!RelayDown, Mux!RelayDownEof, Mux!HandlerFails, Mux!HandlerCancelled, Mux!HandlerCleansUp,
         Mux!HandlerFin
<1>2c. \/ UNCHANGED answers
       \/ answers' = [answers EXCEPT ![s] = @ - 1] /\ answers[s] > 0
       \/ answers' = [answers EXCEPT ![s] = @ + 1] /\ handler[s] \in Relaying
  BY DEF Mux!StreamWriterEnds, Mux!PumpReads, Mux!PumpStops, Mux!PumpCleansUp, Mux!PumpFin,
         Mux!RelayDown, Mux!RelayDownEof, Mux!HandlerFails, Mux!HandlerCancelled, Mux!HandlerCleansUp,
         Mux!HandlerFin, Relaying
<1>2d. \/ UNCHANGED pump
       \/ pump' = [pump EXCEPT ![s] = "send"] /\ answers[s] > 0
       \/ \E to \in {"cleanup", "fin", "ended"} : pump' = [pump EXCEPT ![s] = to]
  BY DEF Mux!StreamWriterEnds, Mux!PumpReads, Mux!PumpStops, Mux!PumpCleansUp, Mux!PumpFin,
         Mux!RelayDown, Mux!RelayDownEof, Mux!HandlerFails, Mux!HandlerCancelled, Mux!HandlerCleansUp,
         Mux!HandlerFin
<1>3. /\ handler' \in [Ids -> H]
      /\ \A r \in Ids \ {s} : handler'[r] = handler[r]
      /\ \/ handler'[s] = handler[s]
         \/ handler[s] # "none" /\ handler'[s] \in {"cleanup", "fin", "ended"}
         \/ handler[s] = "relay" /\ handler'[s] = "downEof"
  <2>1. handler \in [Ids -> H] /\ {"cleanup", "fin", "ended", "downEof"} \subseteq H
    BY <1>0 DEF MuxTypes, Relaying
  <2> HIDE DEF H
  <2>2. CASE UNCHANGED handler  BY <2>1, <2>2
  <2>3. ASSUME NEW to \in {"cleanup", "fin", "ended"}, handler[s] # "none",
               handler' = [handler EXCEPT ![s] = to]
        PROVE  /\ handler' \in [Ids -> H] /\ \A r \in Ids \ {s} : handler'[r] = handler[r]
               /\ handler'[s] \in {"cleanup", "fin", "ended"}
    BY <2>1, <2>3
  <2>4. CASE handler' = [handler EXCEPT ![s] = "downEof"] /\ handler[s] = "relay"  BY <2>1, <2>4
  <2> QED  BY <1>2a, <2>2, <2>3, <2>4
<1>4. /\ streamWriter' \in [Ids -> {"none", "run", "ended"}]
      /\ \A r \in Ids \ {s} : streamWriter'[r] = streamWriter[r]
      /\ \/ streamWriter'[s] = streamWriter[s]
         \/ streamWriter[s] = "run" /\ streamWriter'[s] = "ended"
  BY <1>0, <1>2b DEF MuxTypes
<1>5. /\ answers' \in [Ids -> Nat]
      /\ \A r \in Ids \ {s} : answers'[r] = answers[r]
      /\ answers'[s] > 0 => answers[s] > 0 \/ handler[s] \in Relaying
  <2>1. answers \in [Ids -> Nat]  BY <1>0 DEF MuxTypes
  <2>2. CASE UNCHANGED answers  BY <2>1, <2>2
  <2>3. CASE answers' = [answers EXCEPT ![s] = @ - 1] /\ answers[s] > 0  BY <2>1, <2>3
  <2>4. CASE answers' = [answers EXCEPT ![s] = @ + 1] /\ handler[s] \in Relaying  BY <2>1, <2>4
  <2> QED  BY <1>2c, <2>2, <2>3, <2>4
<1>6. /\ pump' \in [Ids -> {"none", "read", "send", "cleanup", "fin", "ended"}]
      /\ \A r \in Ids \ {s} : pump'[r] = pump[r]
      /\ pump'[s] = "send" => pump[s] = "send" \/ answers[s] > 0
  <2>1. pump \in [Ids -> {"none", "read", "send", "cleanup", "fin", "ended"}]  BY <1>0 DEF MuxTypes
  <2>2. CASE UNCHANGED pump  BY <2>1, <2>2
  <2>3. CASE pump' = [pump EXCEPT ![s] = "send"] /\ answers[s] > 0  BY <2>1, <2>3
  <2>4. ASSUME NEW to \in {"cleanup", "fin", "ended"}, pump' = [pump EXCEPT ![s] = to]
        PROVE  /\ pump' \in [Ids -> {"none", "read", "send", "cleanup", "fin", "ended"}]
               /\ \A r \in Ids \ {s} : pump'[r] = pump[r]
               /\ pump'[s] # "send"
    BY <2>1, <2>4
  <2> QED  BY <1>2d, <2>2, <2>3, <2>4
<1>7. MuxTypes'  BY <1>0, <1>1, <1>3, <1>4, <1>5, <1>6 DEF MuxTypes
<1>8. LoopInOrder'
  <2>1. pushing # << >> => pushing[1] \in Ids  BY <1>0 DEF MuxTypes
  <2>2. \A r \in Ids : handler[r] # "none" => handler'[r] # "none"  BY <1>3
  <2> QED  BY <1>0, <1>1, <2>1, <2>2 DEF LoopInOrder
<1>9. (InHand(s)' <=> InHand(s)) /\ (InHand(s) => pushing' = pushing)  BY <1>1 DEF InHand
<1>10. (QueuedInOrder(s) /\ ReachedInOrder(s) /\ ToldInOrder(s))'
  BY <1>1, <1>3, <1>4, <1>5, <1>6, <1>7, <1>9, StreamKept
<1> QED  BY <1>1, <1>3, <1>4, <1>5, <1>6, <1>7, <1>8, <1>10, OneStreamInv

(* Of the functions on streams, only those of stream s change.             *)
Elsewhere(s) ==
    \A r \in Ids \ {s} :
        /\ told'[r] = told[r] /\ chan'[r] = chan[r] /\ reached'[r] = reached[r]
        /\ clientNext'[r] = clientNext[r] /\ dialled'[r] = dialled[r] /\ handler'[r] = handler[r]
        /\ streamWriter'[r] = streamWriter[r] /\ answers'[r] = answers[r] /\ pump'[r] = pump[r]

(* CMD_SYN: a stream begins with its address.                              *)
LEMMA SynInv ==
  ASSUME MuxInv, NEW s \in Ids, Mux!ReadSyn(s)  PROVE MuxInv'
<1> USE DEF Mux!connection, Mux!wires, Mux!flows
<1>0. MuxTypes /\ LoopInOrder /\ QueuedInOrder(s) /\ ReachedInOrder(s) /\ ToldInOrder(s)  BY DEF MuxInv
<1>1. /\ loop = "read" /\ handler[s] = "none" /\ inMap' = inMap \cup {s}
      /\ streamWriter' = [streamWriter EXCEPT ![s] = "run"]
      /\ pump' = [pump EXCEPT ![s] = "read"] /\ handler' = [handler EXCEPT ![s] = "address"]
      /\ UNCHANGED <<told, chan, reached, clientNext, dialled, answers, pushing, loop, writer>>
  BY DEF Mux!ReadSyn
<1>2. MuxTypes'
  <2>1. {"address"} \subseteq BeforeReply  BY DEF BeforeReply
  <2> QED  BY <1>0, <1>1, <2>1 DEF MuxTypes
<1>3. handler'[s] = "address" /\ streamWriter'[s] = "run" /\ pump'[s] = "read" /\ pushing = << >>
  BY <1>0, <1>1 DEF MuxTypes, LoopInOrder
<1>4. Elsewhere(s)  BY <1>0, <1>1 DEF MuxTypes, Elsewhere
<1>5. LoopInOrder'  BY <1>0, <1>1, <1>3 DEF LoopInOrder
<1>6. chan[s] = << >> /\ clientNext[s] = 0 /\ reached[s] = << >> /\ told[s] = << >> /\ answers[s] = 0
  BY <1>0, <1>1 DEF QueuedInOrder, ReachedInOrder, ToldInOrder, BeforeReply
<1>7. QueuedInOrder(s)'
  <2>1. Base(s)' = 0 /\ Len(<< >>) = 0  BY <1>3, EmptySeq DEF Base
  <2>2. ~InHand(s)'  BY <1>1, <1>3 DEF InHand
  <2> QED  BY <1>1, <1>3, <1>6, <2>1, <2>2 DEF QueuedInOrder
<1>8. ReachedInOrder(s)' /\ ToldInOrder(s)'
  <2>1. "address" \notin Relaying /\ Len(<< >>) = 0  BY EmptySeq DEF Relaying
  <2> QED  BY <1>1, <1>3, <1>6, <2>1 DEF ReachedInOrder, ToldInOrder
<1> QED  BY <1>1, <1>2, <1>3, <1>4, <1>5, <1>7, <1>8, OneStreamInv DEF Elsewhere

(* CMD_PSH: the loop takes the client's next item in hand.                 *)
LEMMA PushInv ==
  ASSUME MuxInv, NEW s \in Ids, Mux!ReadPush(s)  PROVE MuxInv'
<1> USE DEF Mux!wires, Mux!tasks, Mux!flows
<1>0. MuxTypes /\ LoopInOrder /\ QueuedInOrder(s) /\ ReachedInOrder(s) /\ ToldInOrder(s)  BY DEF MuxInv
<1>1. /\ loop = "read" /\ handler[s] # "none" /\ clientNext' = [clientNext EXCEPT ![s] = @ + 1]
      /\ UNCHANGED <<told, chan, reached, dialled, answers, handler, pump, streamWriter, inMap, writer>>
      /\ \/ s \in inMap /\ loop' = "push" /\ pushing' = <<s, <<s, clientNext[s]>>>>
         \/ s \notin inMap /\ UNCHANGED <<loop, pushing>>
  BY DEF Mux!ReadPush
<1>2. /\ pushing = << >> /\ clientNext[s] \in Nat /\ clientNext'[s] = clientNext[s] + 1
      /\ clientNext' \in [Ids -> Nat] /\ \A r \in Ids \ {s} : clientNext'[r] = clientNext[r]
  BY <1>0, <1>1 DEF MuxTypes, LoopInOrder
<1>3. Elsewhere(s)  BY <1>1, <1>2 DEF Elsewhere
<1>4. /\ pushing' = << >> \/ pushing'[1] = s
      /\ pushing' \in {<< >>} \cup (Ids \X StreamItems)
  BY <1>1, <1>2 DEF StreamItems
<1>5. MuxTypes'
  <2>1. loop' \in {"read", "push"}  BY <1>1
  <2> QED  BY <1>0, <1>1, <1>2, <1>4, <2>1 DEF MuxTypes
<1>6. LoopInOrder'  BY <1>0, <1>1, <1>2, <1>4 DEF LoopInOrder
<1>7. QueuedInOrder(s)'
  <2>1. Base(s)' = Base(s) /\ ~InHand(s)  BY <1>1, <1>2 DEF Base, InHand
  <2>2. CASE s \in inMap /\ pushing' = <<s, <<s, clientNext[s]>>>>
    <3>1. InHand(s)' /\ pushing'[2] = <<s, clientNext[s]>>  BY <2>2 DEF InHand
    <3>2. Base(s) \in Nat /\ Len(chan[s]) \in Nat
      <4>1. Len(reached[s]) \in Nat /\ Len(chan[s]) \in Nat  BY <1>0 DEF MuxTypes
      <4> QED  BY <4>1 DEF Base
    <3>3. CASE handler[s] \in (BeforeReply \ {"none"}) \cup Relaying
      <4>1. /\ \A i \in 1 .. Len(chan[s]) : chan[s][i] = <<s, Base(s) + i - 1>>
            /\ streamWriter[s] = "run" => clientNext[s] = Base(s) + Len(chan[s])
        BY <1>0, <2>1, <2>2, <3>2, <3>3 DEF QueuedInOrder
      <4>2. streamWriter[s] = "run" =>
              clientNext'[s] = Base(s) + Len(chan[s]) + (IF InHand(s)' THEN 1 ELSE 0)
        BY <1>2, <3>1, <3>2, <4>1
      <4> QED  BY <1>1, <2>1, <3>1, <3>3, <4>1, <4>2 DEF QueuedInOrder
    <3>4. CASE handler[s] \notin (BeforeReply \ {"none"}) \cup Relaying
      BY <1>1, <3>4 DEF QueuedInOrder
    <3> QED  BY <3>3, <3>4
  <2>3. CASE s \notin inMap /\ UNCHANGED pushing
    <3>1. ~InHand(s)'  BY <1>2, <2>3 DEF InHand
    <3> QED  BY <1>0, <1>1, <1>2, <2>1, <2>3, <3>1 DEF QueuedInOrder
  <2> QED  BY <1>1, <2>2, <2>3
<1>8. ReachedInOrder(s)' /\ ToldInOrder(s)'
  BY <1>0, <1>1 DEF ReachedInOrder, ToldInOrder, Acknowledged
<1> QED  BY <1>1, <1>2, <1>3, <1>4, <1>5, <1>6, <1>7, <1>8, OneStreamInv DEF Elsewhere

(* ... and hands it over, or drops it with the stream.                     *)
LEMMA HandOverInv ==
  ASSUME MuxInv, Mux!LoopPushes  PROVE MuxInv'
<1> USE DEF Mux!wires, Mux!tasks
<1>0. MuxTypes /\ LoopInOrder  BY DEF MuxInv
<1>1. /\ loop = "push" /\ pushing # << >> /\ loop' = "read" /\ pushing' = << >>
      /\ UNCHANGED <<told, reached, clientNext, dialled, answers, handler, pump, streamWriter, inMap, writer>>
  BY DEF Mux!LoopPushes
<1>2. pushing \in Ids \X StreamItems  BY <1>0, <1>1 DEF MuxTypes
<1>3. PICK s \in Ids : s = pushing[1]  BY <1>2
<1>4. PICK item \in StreamItems : item = pushing[2]  BY <1>2
<1>5. /\ \/ streamWriter[s] = "run" /\ chan' = [chan EXCEPT ![s] = Append(@, item)]
         \/ streamWriter[s] = "ended" /\ UNCHANGED chan
      /\ InHand(s) /\ ~InHand(s)'
  BY <1>1, <1>3, <1>4 DEF Mux!LoopPushes, InHand
<1>6. QueuedInOrder(s) /\ ReachedInOrder(s) /\ ToldInOrder(s)  BY DEF MuxInv
<1>7. /\ chan \in [Ids -> Seq(StreamItems)] /\ chan[s] \in Seq(StreamItems)  BY <1>0 DEF MuxTypes
<1>8. chan' \in [Ids -> Seq(StreamItems)] /\ \A r \in Ids \ {s} : chan'[r] = chan[r]
  <2>1. PICK more \in Seq(StreamItems) : more = Append(chan[s], item)  BY <1>4, <1>7, AppendProperties
  <2>2. CASE UNCHANGED chan  BY <1>7, <2>2
  <2>3. CASE chan' = [chan EXCEPT ![s] = Append(@, item)]
    <3>1. chan' = [chan EXCEPT ![s] = more]  BY <1>7, <2>1, <2>3
    <3> QED  BY <1>7, <3>1
  <2> QED  BY <1>5, <2>2, <2>3
<1>9. MuxTypes' /\ LoopInOrder'  BY <1>0, <1>1, <1>8 DEF MuxTypes, LoopInOrder
<1>10. Elsewhere(s)  BY <1>1, <1>8 DEF Elsewhere
<1>11. QueuedInOrder(s)'
  <2>1. handler'[s] = handler[s] /\ handler[s] # "none" /\ Base(s)' = Base(s)
    BY <1>0, <1>1, <1>3 DEF LoopInOrder, Base
  <2>2. CASE streamWriter[s] = "ended" /\ UNCHANGED chan
    BY <1>1, <1>5, <1>6, <2>1, <2>2 DEF QueuedInOrder
  <2>3. CASE /\ streamWriter[s] = "run" /\ chan' = [chan EXCEPT ![s] = Append(@, item)]
             /\ handler[s] \in (BeforeReply \ {"none"}) \cup Relaying
    <3>1. /\ item = <<s, Base(s) + Len(chan[s])>>
          /\ \A i \in 1 .. Len(chan[s]) : chan[s][i] = <<s, Base(s) + i - 1>>
          /\ s \in inMap => clientNext[s] = Base(s) + Len(chan[s]) + 1
      BY <1>4, <1>5, <1>6, <2>3 DEF QueuedInOrder
    <3>2. /\ chan'[s] = Append(chan[s], item) /\ Len(chan[s]) \in Nat /\ Len(chan'[s]) = Len(chan[s]) + 1
          /\ chan'[s][Len(chan[s]) + 1] = item
          /\ \A i \in 1 .. Len(chan[s]) : chan'[s][i] = chan[s][i]
      BY <1>7, <2>3
    <3>3. Base(s) \in Nat
      <4>1. Len(reached[s]) \in Nat  BY <1>0 DEF MuxTypes
      <4> QED  BY <4>1 DEF Base
    <3>4. ASSUME NEW i \in 1 .. Len(chan'[s])  PROVE chan'[s][i] = <<s, Base(s) + i - 1>>
      <4>1. CASE i = Len(chan[s]) + 1
        <5>1. Base(s) + i - 1 = Base(s) + Len(chan[s])  BY <3>2, <3>3, <4>1
        <5> QED  BY <3>1, <3>2, <4>1, <5>1
      <4>2. CASE i # Len(chan[s]) + 1
        <5>1. i \in 1 .. Len(chan[s])  BY <3>2, <4>2
        <5> QED  BY <3>1, <3>2, <5>1
      <4> QED  BY <4>1, <4>2
    <3>5. s \in inMap => clientNext[s] = Base(s) + Len(chan'[s]) + (IF InHand(s)' THEN 1 ELSE 0)
      <4>1. Base(s) + Len(chan[s]) + 1 = Base(s) + Len(chan'[s]) + 0  BY <3>2, <3>3
      <4>2. (IF InHand(s)' THEN 1 ELSE 0) = 0  BY <1>5
      <4> QED  BY <3>1, <4>1, <4>2
    <3> QED  BY <1>1, <1>5, <2>1, <3>4, <3>5 DEF QueuedInOrder
  <2>4. CASE handler[s] \notin (BeforeReply \ {"none"}) \cup Relaying
    BY <2>1, <2>4 DEF QueuedInOrder
  <2> QED  BY <1>5, <2>2, <2>3, <2>4
<1>12. ReachedInOrder(s)' /\ ToldInOrder(s)'
  BY <1>1, <1>6 DEF ReachedInOrder, ToldInOrder, Acknowledged
<1> QED  BY <1>1, <1>3, <1>9, <1>10, <1>11, <1>12, OneStreamInv DEF Elsewhere

(* The handler takes the address out of its queue.                         *)
LEMMA AddressInv ==
  ASSUME MuxInv, NEW s \in Ids, Mux!ReadAddress(s)  PROVE MuxInv'
<1> USE DEF Mux!connection, Mux!wires
<1>0. MuxTypes /\ LoopInOrder /\ QueuedInOrder(s) /\ ReachedInOrder(s) /\ ToldInOrder(s)  BY DEF MuxInv
<1>1. /\ handler[s] = "address" /\ chan[s] # << >> /\ chan' = [chan EXCEPT ![s] = Tail(@)]
      /\ \E to \in {"connect", "connectPacket", "cleanup"} : handler' = [handler EXCEPT ![s] = to]
      /\ UNCHANGED <<told, reached, clientNext, dialled, answers, pump, streamWriter, inMap,
                     pushing, loop, writer>>
  BY DEF Mux!ReadAddress, Mux!HandlerGoes
<1>2. PICK to \in {"connect", "connectPacket", "cleanup"} : handler' = [handler EXCEPT ![s] = to]
  BY <1>1
<1>3. chan \in [Ids -> Seq(StreamItems)] /\ chan[s] \in Seq(StreamItems) /\ Len(chan[s]) \in Nat \ {0}
  <2>1. chan \in [Ids -> Seq(StreamItems)] /\ chan[s] \in Seq(StreamItems)  BY <1>0 DEF MuxTypes
  <2> QED  BY <1>1, <2>1, EmptySeq
<1>4. PICK rest \in Seq(StreamItems) :
        /\ rest = Tail(chan[s]) /\ Len(rest) = Len(chan[s]) - 1
        /\ \A i \in 1 .. Len(rest) : rest[i] = chan[s][i + 1]
  <2>1. chan[s] # << >> /\ chan[s] \in Seq(StreamItems)  BY <1>1, <1>3
  <2>2. /\ Tail(chan[s]) \in Seq(StreamItems) /\ Len(Tail(chan[s])) = Len(chan[s]) - 1
        /\ \A i \in 1 .. Len(Tail(chan[s])) : Tail(chan[s])[i] = chan[s][i + 1]
    BY <2>1, HeadTailProperties
  <2> QED  BY <2>2
<1>5. chan' = [chan EXCEPT ![s] = rest]  BY <1>1, <1>3, <1>4
<1>6. /\ chan' \in [Ids -> Seq(StreamItems)] /\ chan'[s] = rest
      /\ \A r \in Ids \ {s} : chan'[r] = chan[r]
  BY <1>3, <1>4, <1>5
<1>7. /\ handler' \in [Ids -> BeforeReply \cup Relaying \cup {"cleanup", "fin", "ended"}]
      /\ handler'[s] = to /\ \A r \in Ids \ {s} : handler'[r] = handler[r]
  <2>1. to \in BeforeReply \cup Relaying \cup {"cleanup", "fin", "ended"}  BY DEF BeforeReply
  <2> QED  BY <1>0, <1>2, <2>1 DEF MuxTypes
<1>8. MuxTypes'  BY <1>0, <1>1, <1>6, <1>7 DEF MuxTypes
<1>9. LoopInOrder'
  <2>1. pushing # << >> => pushing[1] \in Ids  BY <1>0 DEF MuxTypes
  <2>2. \A r \in Ids : handler[r] # "none" => handler'[r] # "none"  BY <1>7
  <2> QED  BY <1>0, <1>1, <2>1, <2>2 DEF LoopInOrder
<1>10. Elsewhere(s)  BY <1>1, <1>6, <1>7 DEF Elsewhere
<1>11. reached[s] = << >> /\ told[s] = << >> /\ answers[s] = 0 /\ pump[s] # "send"
  BY <1>0, <1>1 DEF ReachedInOrder, ToldInOrder, BeforeReply
<1>12. QueuedInOrder(s)'
  <2>1. Base(s) = 0 /\ Base(s)' = 1  BY <1>1, <1>7, <1>11, EmptySeq DEF Base
  <2>2. InHand(s)' <=> InHand(s)  BY <1>1 DEF InHand
  <2>3. /\ \A i \in 1 .. Len(chan[s]) : chan[s][i] = <<s, i - 1>>
        /\ streamWriter[s] = "run" /\ InHand(s) => pushing[2] = <<s, Len(chan[s])>>
        /\ streamWriter[s] = "run" /\ s \in inMap =>
              clientNext[s] = Len(chan[s]) + (IF InHand(s) THEN 1 ELSE 0)
    <3>1. /\ \A i \in 1 .. Len(chan[s]) : chan[s][i] = <<s, 0 + i - 1>>
          /\ streamWriter[s] = "run" /\ InHand(s) => pushing[2] = <<s, 0 + Len(chan[s])>>
          /\ streamWriter[s] = "run" /\ s \in inMap =>
                clientNext[s] = 0 + Len(chan[s]) + (IF InHand(s) THEN 1 ELSE 0)
      BY <1>0, <1>1, <2>1 DEF QueuedInOrder, BeforeReply
    <3>2. 0 + Len(chan[s]) = Len(chan[s]) /\ \A i \in 1 .. Len(chan[s]) : 0 + i - 1 = i - 1
      BY <1>3
    <3> QED  BY <3>1, <3>2
  <2>4. ASSUME NEW i \in 1 .. Len(rest)  PROVE rest[i] = <<s, 1 + i - 1>>
    <3>1. i + 1 \in 1 .. Len(chan[s]) /\ i + 1 - 1 = 1 + i - 1  BY <1>3, <1>4
    <3> QED  BY <1>4, <2>3, <3>1
  <2>5. /\ streamWriter[s] = "run" /\ InHand(s) => pushing[2] = <<s, 1 + Len(rest)>>
        /\ streamWriter[s] = "run" /\ s \in inMap =>
              clientNext[s] = 1 + Len(rest) + (IF InHand(s) THEN 1 ELSE 0)
    <3>1. 1 + Len(rest) = Len(chan[s])  BY <1>3, <1>4
    <3> QED  BY <2>3, <3>1
  <2>6. handler'[s] # "none"  BY <1>7
  <2> QED  BY <1>1, <1>6, <2>1, <2>2, <2>4, <2>5, <2>6 DEF QueuedInOrder
<1>13. ReachedInOrder(s)' /\ ToldInOrder(s)'
  <2>1. handler'[s] \notin Relaying \cup {"synack", "synackPacket"} /\ Len(<< >>) = 0
    BY <1>7, EmptySeq DEF Relaying
  <2> QED  BY <1>1, <1>11, <2>1 DEF ReachedInOrder, ToldInOrder
<1> QED  BY <1>1, <1>8, <1>9, <1>10, <1>12, <1>13, OneStreamInv DEF Elsewhere

(* Router::connect and connect_packet for a stream.                        *)
LEMMA DialInv ==
  ASSUME MuxInv, NEW s \in Ids, Mux!HandlerConnects(s) \/ Mux!HandlerConnectsPacket(s)  PROVE MuxInv'
<1> USE DEF Mux!connection, Mux!wires
<1>0. MuxTypes /\ LoopInOrder /\ QueuedInOrder(s) /\ ReachedInOrder(s) /\ ToldInOrder(s)  BY DEF MuxInv
<1>1. /\ handler[s] \in {"connect", "connectPacket"}
      /\ UNCHANGED <<told, reached, chan, clientNext, answers, pump, streamWriter, inMap,
                     pushing, loop, writer>>
  BY DEF Mux!HandlerConnects, Mux!HandlerConnectsPacket
<1>2. PICK outcome \in {"ok", "failed"}, to \in {"synack", "synackPacket", "cleanup"} :
        /\ dialled' = [dialled EXCEPT ![s] = outcome] /\ handler' = [handler EXCEPT ![s] = to]
        /\ to = "synackPacket" => outcome = "ok"
  BY DEF Mux!HandlerConnects, Mux!HandlerConnectsPacket, Mux!HandlerGoes
<1>3. /\ handler' \in [Ids -> BeforeReply \cup Relaying \cup {"cleanup", "fin", "ended"}]
      /\ handler'[s] = to /\ \A r \in Ids \ {s} : handler'[r] = handler[r]
  <2>1. to \in BeforeReply \cup Relaying \cup {"cleanup", "fin", "ended"}  BY DEF BeforeReply
  <2> QED  BY <1>0, <1>2, <2>1 DEF MuxTypes
<1>4. /\ dialled' \in [Ids -> {"none", "ok", "failed"}]
      /\ dialled'[s] = outcome /\ \A r \in Ids \ {s} : dialled'[r] = dialled[r]
  BY <1>0, <1>2 DEF MuxTypes
<1>5. MuxTypes'  BY <1>0, <1>1, <1>3, <1>4 DEF MuxTypes
<1>6. LoopInOrder'
  <2>1. pushing # << >> => pushing[1] \in Ids  BY <1>0 DEF MuxTypes
  <2>2. \A r \in Ids : handler[r] # "none" => handler'[r] # "none"  BY <1>3
  <2> QED  BY <1>0, <1>1, <2>1, <2>2 DEF LoopInOrder
<1>7. Elsewhere(s)  BY <1>1, <1>3, <1>4 DEF Elsewhere
<1>8. handler[s] \in BeforeReply \ {"none"} /\ handler'[s] # "none"  BY <1>1, <1>3 DEF BeforeReply
<1>9. reached[s] = << >> /\ told[s] = << >> /\ answers[s] = 0 /\ pump[s] # "send"
  BY <1>0, <1>8 DEF ReachedInOrder, ToldInOrder
<1>10. QueuedInOrder(s)'
  <2>1. Base(s)' = Base(s) /\ (InHand(s)' <=> InHand(s))  BY <1>1, <1>3 DEF Base, InHand
  <2> QED  BY <1>0, <1>1, <1>8, <2>1 DEF QueuedInOrder
<1>11. ReachedInOrder(s)' /\ ToldInOrder(s)'
  <2>1. handler'[s] \notin Relaying /\ Len(<< >>) = 0  BY <1>3, EmptySeq DEF Relaying
  <2> QED  BY <1>1, <1>2, <1>3, <1>4, <1>9, <2>1 DEF ReachedInOrder, ToldInOrder
<1> QED  BY <1>1, <1>5, <1>6, <1>7, <1>10, <1>11, OneStreamInv DEF Elsewhere

(* The relay takes the next item of its stream.                            *)
LEMMA StreamUpInv ==
  ASSUME MuxInv, NEW s \in Ids, Mux!RelayUp(s)  PROVE MuxInv'
<1> USE DEF Mux!connection, Mux!wires, Mux!tasks
<1>0. MuxTypes /\ LoopInOrder /\ QueuedInOrder(s) /\ ReachedInOrder(s) /\ ToldInOrder(s)  BY DEF MuxInv
<1>1. /\ handler[s] \in Relaying /\ chan[s] # << >> /\ chan' = [chan EXCEPT ![s] = Tail(@)]
      /\ reached' = [reached EXCEPT ![s] = Append(@, Head(chan[s]))]
      /\ UNCHANGED <<told, handler, clientNext, dialled, answers, pump, streamWriter, inMap,
                     pushing, loop, writer>>
  BY DEF Mux!RelayUp, Relaying
<1>2. /\ chan \in [Ids -> Seq(StreamItems)] /\ chan[s] \in Seq(StreamItems) /\ Len(chan[s]) \in Nat \ {0}
      /\ reached \in [Ids -> Seq(StreamItems)] /\ reached[s] \in Seq(StreamItems)
      /\ Len(reached[s]) \in Nat
  <2>1. /\ chan \in [Ids -> Seq(StreamItems)] /\ chan[s] \in Seq(StreamItems)
        /\ reached \in [Ids -> Seq(StreamItems)] /\ reached[s] \in Seq(StreamItems)
    BY <1>0 DEF MuxTypes
  <2> QED  BY <1>1, <2>1, EmptySeq
<1>3. PICK rest \in Seq(StreamItems) :
        /\ rest = Tail(chan[s]) /\ Len(rest) = Len(chan[s]) - 1
        /\ \A i \in 1 .. Len(rest) : rest[i] = chan[s][i + 1]
  BY <1>1, <1>2, HeadTailProperties
<1>4. PICK item \in StreamItems : item = Head(chan[s]) /\ item = chan[s][1]  BY <1>1, <1>2
<1>5. PICK more \in Seq(StreamItems) :
        /\ more = Append(reached[s], item) /\ Len(more) = Len(reached[s]) + 1
        /\ more[Len(reached[s]) + 1] = item /\ \A i \in 1 .. Len(reached[s]) : more[i] = reached[s][i]
  <2>1. /\ Append(reached[s], item) \in Seq(StreamItems)
        /\ Len(Append(reached[s], item)) = Len(reached[s]) + 1
        /\ Append(reached[s], item)[Len(reached[s]) + 1] = item
        /\ \A i \in 1 .. Len(reached[s]) : Append(reached[s], item)[i] = reached[s][i]
    BY <1>2, <1>4
  <2> QED  BY <2>1
<1>6. chan' = [chan EXCEPT ![s] = rest] /\ reached' = [reached EXCEPT ![s] = more]
  BY <1>1, <1>2, <1>3, <1>4, <1>5
<1>7. /\ chan' \in [Ids -> Seq(StreamItems)] /\ chan'[s] = rest /\ \A r \in Ids \ {s} : chan'[r] = chan[r]
      /\ reached' \in [Ids -> Seq(StreamItems)] /\ reached'[s] = more
      /\ \A r \in Ids \ {s} : reached'[r] = reached[r]
  BY <1>2, <1>6
<1>8. MuxTypes' /\ LoopInOrder'  BY <1>0, <1>1, <1>7 DEF MuxTypes, LoopInOrder
<1>9. Elsewhere(s)  BY <1>1, <1>7 DEF Elsewhere
<1>10. handler[s] \notin BeforeReply /\ handler[s] # "address"  BY <1>1 DEF BeforeReply, Relaying
<1>11. Base(s) = Len(reached[s]) + 1 /\ Base(s)' = Len(reached[s]) + 2
  BY <1>1, <1>2, <1>5, <1>7, <1>10 DEF Base
<1>12. /\ \A i \in 1 .. Len(chan[s]) : chan[s][i] = <<s, Len(reached[s]) + 1 + i - 1>>
       /\ streamWriter[s] = "run" /\ InHand(s) => pushing[2] = <<s, Len(reached[s]) + 1 + Len(chan[s])>>
       /\ streamWriter[s] = "run" /\ s \in inMap =>
             clientNext[s] = Len(reached[s]) + 1 + Len(chan[s]) + (IF InHand(s) THEN 1 ELSE 0)
  BY <1>0, <1>1, <1>11 DEF QueuedInOrder
<1>13. QueuedInOrder(s)'
  <2>1. ASSUME NEW i \in 1 .. Len(rest)  PROVE rest[i] = <<s, Len(reached[s]) + 2 + i - 1>>
    <3>1. /\ i + 1 \in 1 .. Len(chan[s])
          /\ Len(reached[s]) + 1 + (i + 1) - 1 = Len(reached[s]) + 2 + i - 1
      BY <1>2, <1>3
    <3> QED  BY <1>3, <1>12, <3>1
  <2>2. Len(reached[s]) + 2 + Len(rest) = Len(reached[s]) + 1 + Len(chan[s])  BY <1>2, <1>3
  <2>3. InHand(s)' <=> InHand(s)  BY <1>1 DEF InHand
  <2>4. /\ streamWriter[s] = "run" /\ InHand(s) => pushing[2] = <<s, Len(reached[s]) + 2 + Len(rest)>>
        /\ streamWriter[s] = "run" /\ s \in inMap =>
              clientNext[s] = Len(reached[s]) + 2 + Len(rest) + (IF InHand(s) THEN 1 ELSE 0)
    BY <1>12, <2>2
  <2>5. handler'[s] # "none"  BY <1>1, <1>10 DEF BeforeReply
  <2> QED  BY <1>1, <1>7, <1>11, <2>1, <2>3, <2>4, <2>5 DEF QueuedInOrder
<1>14. ReachedInOrder(s)'
  <2>1. item = <<s, Len(reached[s]) + 1>>
    <3>1. 1 \in 1 .. Len(chan[s]) /\ Len(reached[s]) + 1 + 1 - 1 = Len(reached[s]) + 1  BY <1>2
    <3> QED  BY <1>4, <1>12, <3>1
  <2>2. ASSUME NEW i \in 1 .. Len(more)  PROVE more[i] = <<s, i>>
    <3>1. CASE i = Len(reached[s]) + 1  BY <1>5, <2>1, <3>1
    <3>2. CASE i # Len(reached[s]) + 1
      <4>1. i \in 1 .. Len(reached[s])  BY <1>2, <1>5, <3>2
      <4> QED  BY <1>0, <1>5, <4>1 DEF ReachedInOrder
    <3> QED  BY <3>1, <3>2
  <2> QED  BY <1>0, <1>1, <1>7, <1>10, <2>2 DEF ReachedInOrder, BeforeReply
<1>15. ToldInOrder(s)'  BY <1>0, <1>1 DEF ToldInOrder, Acknowledged
<1> QED  BY <1>1, <1>8, <1>9, <1>13, <1>14, <1>15, OneStreamInv DEF Elsewhere

(* One more frame to the client of a stream, the SYNACK or data.           *)
LEMMA SendsInv ==
  ASSUME MuxInv, NEW s \in Ids, NEW kind \in {"ok", "failed", "data"},
         \/ writer = "ended" /\ UNCHANGED told
         \/ writer # "ended" /\ told' = [told EXCEPT ![s] = Append(@, kind)],
         \/ kind = "data" /\ Acknowledged(s) /\ UNCHANGED handler
         \/ /\ kind = dialled[s] /\ handler[s] \in {"synack", "synackPacket"}
            /\ \E to \in Relaying \cup {"cleanup"} :
                  handler' = [handler EXCEPT ![s] = to] /\ (to \in Relaying => kind = "ok"),
         UNCHANGED <<chan, reached, clientNext, dialled, answers, streamWriter, inMap, pushing, loop, writer>>,
         \/ UNCHANGED pump
         \/ \E to \in {"cleanup", "read"} : pump' = [pump EXCEPT ![s] = to]
  PROVE  MuxInv'
<1>0. MuxTypes /\ LoopInOrder /\ QueuedInOrder(s) /\ ReachedInOrder(s) /\ ToldInOrder(s)  BY DEF MuxInv
<1> DEFINE Kinds == {"ok", "failed", "data"}
<1>1. told \in [Ids -> Seq(Kinds)] /\ told[s] \in Seq(Kinds) /\ Len(told[s]) \in Nat
  BY <1>0 DEF MuxTypes
<1>2. PICK more \in Seq(Kinds) :
        /\ more = Append(told[s], kind) /\ Len(more) = Len(told[s]) + 1
        /\ more[Len(told[s]) + 1] = kind /\ \A i \in 1 .. Len(told[s]) : more[i] = told[s][i]
  <2>1. told[s] \in Seq(Kinds) /\ kind \in Kinds  BY <1>1
  <2>2. /\ Append(told[s], kind) \in Seq(Kinds) /\ Len(Append(told[s], kind)) = Len(told[s]) + 1
        /\ Append(told[s], kind)[Len(told[s]) + 1] = kind
        /\ \A i \in 1 .. Len(told[s]) : Append(told[s], kind)[i] = told[s][i]
    BY <2>1
  <2> QED  BY <2>2
<1>3. /\ told' \in [Ids -> Seq(Kinds)] /\ \A r \in Ids \ {s} : told'[r] = told[r]
      /\ \/ writer = "ended" /\ told'[s] = told[s]
         \/ writer # "ended" /\ told'[s] = more
  <2>1. CASE UNCHANGED told /\ writer = "ended"  BY <1>1, <2>1
  <2>2. CASE writer # "ended" /\ told' = [told EXCEPT ![s] = Append(@, kind)]
    <3>1. told' = [told EXCEPT ![s] = more]  BY <1>1, <1>2, <2>2
    <3> QED  BY <1>1, <1>2, <3>1
  <2> QED  BY <2>1, <2>2
<1>4. /\ handler' \in [Ids -> BeforeReply \cup Relaying \cup {"cleanup", "fin", "ended"}]
      /\ \A r \in Ids \ {s} : handler'[r] = handler[r]
      /\ \/ kind = "data" /\ Acknowledged(s) /\ handler'[s] = handler[s]
         \/ /\ kind = dialled[s] /\ handler[s] \in {"synack", "synackPacket"}
            /\ handler'[s] \in Relaying \cup {"cleanup"} /\ (handler'[s] \in Relaying => kind = "ok")
  <2>1. handler \in [Ids -> BeforeReply \cup Relaying \cup {"cleanup", "fin", "ended"}]
    BY <1>0 DEF MuxTypes
  <2>2. CASE kind = "data" /\ Acknowledged(s) /\ UNCHANGED handler  BY <2>1, <2>2
  <2>3. ASSUME NEW to \in Relaying \cup {"cleanup"}, kind = dialled[s],
               handler[s] \in {"synack", "synackPacket"},
               handler' = [handler EXCEPT ![s] = to], to \in Relaying => kind = "ok"
        PROVE  /\ handler' \in [Ids -> BeforeReply \cup Relaying \cup {"cleanup", "fin", "ended"}]
               /\ \A r \in Ids \ {s} : handler'[r] = handler[r]
               /\ handler'[s] \in Relaying \cup {"cleanup"} /\ (handler'[s] \in Relaying => kind = "ok")
    BY <2>1, <2>3
  <2> QED  BY <2>2, <2>3
<1>5. /\ pump' \in [Ids -> {"none", "read", "send", "cleanup", "fin", "ended"}]
      /\ \A r \in Ids \ {s} : pump'[r] = pump[r]
      /\ pump'[s] = "send" => pump[s] = "send"
  <2>1. pump \in [Ids -> {"none", "read", "send", "cleanup", "fin", "ended"}]  BY <1>0 DEF MuxTypes
  <2>2. CASE UNCHANGED pump  BY <2>1, <2>2
  <2>3. ASSUME NEW to \in {"cleanup", "read"}, pump' = [pump EXCEPT ![s] = to]
        PROVE  /\ pump' \in [Ids -> {"none", "read", "send", "cleanup", "fin", "ended"}]
               /\ \A r \in Ids \ {s} : pump'[r] = pump[r]
               /\ pump'[s] # "send"
    BY <2>1, <2>3
  <2> QED  BY <2>2, <2>3
<1>6. MuxTypes'  BY <1>0, <1>3, <1>4, <1>5 DEF MuxTypes
<1>7. LoopInOrder'
  <2>1. pushing # << >> => pushing[1] \in Ids  BY <1>0 DEF MuxTypes
  <2>2. \A r \in Ids : handler[r] # "none" => handler'[r] # "none"  BY <1>4 DEF Relaying
  <2> QED  BY <1>0, <2>1, <2>2 DEF LoopInOrder
<1>8. Elsewhere(s)  BY <1>3, <1>4, <1>5 DEF Elsewhere
<1>9. QueuedInOrder(s)'
  <2>1. InHand(s)' <=> InHand(s)  BY DEF InHand
  <2>2. /\ handler'[s] = "none" <=> handler[s] = "none"
        /\ handler'[s] = "address" <=> handler[s] = "address"
        /\ handler'[s] \in (BeforeReply \ {"none"}) \cup Relaying =>
             handler[s] \in (BeforeReply \ {"none"}) \cup Relaying
    BY <1>4 DEF BeforeReply, Relaying
  <2>3. Base(s)' = Base(s)  BY <2>2 DEF Base
  <2> QED  BY <1>0, <2>1, <2>2, <2>3 DEF QueuedInOrder
<1>10. ReachedInOrder(s)'
  <2>1. handler'[s] \in Relaying => dialled[s] = "ok"
    <3>1. CASE handler'[s] = handler[s]  BY <1>0, <3>1 DEF ReachedInOrder
    <3>2. CASE handler'[s] # handler[s]  BY <1>4, <3>2
    <3> QED  BY <3>1, <3>2
  <2>2. handler'[s] \in BeforeReply => handler[s] \in BeforeReply /\ handler'[s] = handler[s]
    BY <1>4 DEF BeforeReply, Relaying
  <2>3. {"synack", "synackPacket"} \subseteq BeforeReply  BY DEF BeforeReply
  <2> QED  BY <1>0, <2>1, <2>2, <2>3 DEF ReachedInOrder
<1>11. ToldInOrder(s)'
  <2>1. CASE writer = "ended" /\ told'[s] = told[s]
    <3>1. Acknowledged(s)'  BY <2>1 DEF Acknowledged
    <3>2. handler'[s] \in BeforeReply => handler[s] \in BeforeReply
      BY <1>4 DEF BeforeReply, Relaying
    <3> QED  BY <1>0, <1>5, <2>1, <3>1, <3>2 DEF ToldInOrder
  <2>2. CASE told'[s] = more /\ kind = "data" /\ handler'[s] = handler[s] /\ writer # "ended"
    <3>1. told[s] # << >> /\ told[s][1] = "ok"  BY <1>4, <2>2 DEF Acknowledged, BeforeReply, ToldInOrder
    <3>2. Len(told[s]) # 0  BY <1>1, <3>1, EmptySeq
    <3>3. more[1] = told[s][1] /\ Len(more) # 0 /\ more # << >>
      <4>1. 1 \in 1 .. Len(told[s])  BY <1>1, <3>2
      <4>2. Len(more) # 0  BY <1>1, <1>2
      <4> QED  BY <1>2, <4>1, <4>2, EmptySeq
    <3>4. ASSUME NEW i \in 2 .. Len(more)  PROVE more[i] = "data"
      <4>1. CASE i = Len(told[s]) + 1  BY <1>2, <2>2, <4>1
      <4>2. CASE i # Len(told[s]) + 1
        <5>1. i \in 2 .. Len(told[s]) /\ i \in 1 .. Len(told[s])  BY <1>1, <1>2, <4>2
        <5> QED  BY <1>0, <1>2, <5>1 DEF ToldInOrder
      <4> QED  BY <4>1, <4>2
    <3>5. handler[s] \notin BeforeReply  BY <1>0, <3>1 DEF ToldInOrder
    <3>6. Acknowledged(s)'  BY <2>2, <3>1, <3>3 DEF Acknowledged
    <3> QED  BY <1>0, <2>2, <3>1, <3>3, <3>4, <3>5, <3>6 DEF ToldInOrder
  <2>3. CASE /\ told'[s] = more /\ kind = dialled[s] /\ handler[s] \in {"synack", "synackPacket"}
             /\ handler'[s] \in Relaying \cup {"cleanup"} /\ (handler'[s] \in Relaying => kind = "ok")
    <3>1. told[s] = << >> /\ answers[s] = 0 /\ pump[s] # "send" /\ dialled[s] \in {"ok", "failed"}
      BY <1>0, <2>3 DEF ToldInOrder, ReachedInOrder, BeforeReply
    <3>2. Len(told[s]) = 0  BY <3>1, EmptySeq
    <3>3. Len(more) = 1 /\ more[1] = kind  BY <1>2, <3>2
    <3>4. more # << >>
      <4>1. Len(<< >>) = 0  BY EmptySeq
      <4>2. Len(more) # 0  BY <3>3
      <4> QED  BY <4>1, <4>2
    <3>5. handler'[s] \in Relaying => Acknowledged(s)'  BY <2>3, <3>3, <3>4 DEF Acknowledged
    <3>6. handler'[s] \notin BeforeReply  BY <2>3 DEF BeforeReply, Relaying
    <3>7. \A i \in 2 .. Len(more) : FALSE  BY <3>3
    <3> QED  BY <1>5, <2>3, <3>1, <3>3, <3>4, <3>5, <3>6, <3>7 DEF ToldInOrder
  <2> QED  BY <1>3, <1>4, <2>1, <2>2, <2>3
<1> QED  BY <1>6, <1>7, <1>8, <1>9, <1>10, <1>11, OneStreamInv DEF Elsewhere

(* Every step of an AnyTLS connection.                                     *)
LEMMA MuxNextInv ==
  ASSUME MuxInv, [Mux!ServerNext]_mvars  PROVE MuxInv'
<1> USE DEF Mux!connection, Mux!wires, Mux!tasks, Mux!flows
<1>0. MuxTypes  BY DEF MuxInv
<1>1. ASSUME NEW s \in Ids, Mux!PumpSends(s)  PROVE MuxInv'
  <2>1. /\ pump[s] = "send"
        /\ \/ writer = "ended" /\ UNCHANGED told
           \/ writer # "ended" /\ told' = [told EXCEPT ![s] = Append(@, "data")]
        /\ UNCHANGED <<chan, reached, clientNext, dialled, answers, streamWriter, handler, inMap,
                       pushing, loop, writer>>
        /\ \E to \in {"cleanup", "read"} : pump' = [pump EXCEPT ![s] = to]
    BY <1>1 DEF Mux!PumpSends, Mux!Send
  <2>2. Acknowledged(s)  BY <2>1 DEF MuxInv, ToldInOrder
  <2> QED  BY <2>1, <2>2, SendsInv
<1>2. ASSUME NEW s \in Ids, Mux!SynAck(s)  PROVE MuxInv'
  <2>1. /\ handler[s] \in {"synack", "synackPacket"}
        /\ \/ writer = "ended" /\ UNCHANGED told
           \/ writer # "ended" /\ told' = [told EXCEPT ![s] = Append(@, dialled[s])]
        /\ UNCHANGED <<chan, reached, clientNext, dialled, answers, streamWriter, pump, inMap,
                       pushing, loop, writer>>
    BY <1>2 DEF Mux!SynAck, Mux!Send
  <2>2. PICK kind \in {"ok", "failed"} : kind = dialled[s]
    BY <2>1 DEF MuxInv, ReachedInOrder
  <2>3. \E to \in Relaying \cup {"cleanup"} :
          handler' = [handler EXCEPT ![s] = to] /\ (to \in Relaying => kind = "ok")
    <3>1. PICK to : to = IF dialled[s] = "failed" THEN "cleanup"
                         ELSE IF handler[s] = "synack" THEN "relay" ELSE "packets"
      OBVIOUS
    <3>2. handler' = [handler EXCEPT ![s] = to]  BY <1>2, <3>1 DEF Mux!SynAck, Mux!HandlerGoes
    <3>3. to \in Relaying \cup {"cleanup"} /\ (to \in Relaying => kind = "ok")
      <4>1. CASE dialled[s] = "failed"
        <5>1. to = "cleanup"  BY <3>1, <4>1
        <5> QED  BY <5>1 DEF Relaying
      <4>2. CASE dialled[s] = "ok"
        <5>1. to = IF handler[s] = "synack" THEN "relay" ELSE "packets"  BY <2>1, <3>1, <4>2
        <5> QED  BY <2>2, <4>2, <5>1 DEF Relaying
      <4> QED  BY <2>2, <4>1, <4>2
    <3> QED  BY <3>2, <3>3
  <2> QED  BY <2>1, <2>2, <2>3, SendsInv
<1>3. CASE \E s \in Ids : Mux!StreamStep(s)
  <2>1. PICK s \in Ids : Mux!StreamStep(s)  BY <1>3
  <2> QED  BY <1>1, <1>2, <2>1, SynInv, PushInv, ConnectionInv, StreamTaskInv, AddressInv, DialInv,
              StreamUpInv DEF Mux!StreamStep
<1> QED  BY <1>3, ConnectionInv, HandOverInv DEF Mux!ServerNext

(* What reaches the destination of an AnyTLS stream is the client's        *)
(* payload from its first item on, over a dial that succeeded; the client  *)
(* sees at most one SYNACK, the true one, and no data before it.  For any  *)
(* number of streams, items and any capacity of the queues between the     *)
(* connection task, the writer and the three tasks of each stream.         *)
THEOREM StreamsAlwaysIntact == MCSpec => []Mux!StreamsIntact
<1>1. MCInit => MuxInv  BY MuxInitInv DEF MCInit
<1>2. MuxInv /\ [MCNext]_<<part, vars, svars, qvars, wvars, mvars>> => MuxInv'
  <2> SUFFICES ASSUME MuxInv, [MCNext]_<<part, vars, svars, qvars, wvars, mvars>>  PROVE MuxInv'
    OBVIOUS
  <2>1. [Mux!ServerNext]_mvars  BY DEF MCNext
  <2> QED  BY <2>1, MuxNextInv
<1>3. MuxInv => Mux!StreamsIntact
  <2> SUFFICES ASSUME MuxInv, NEW s \in Ids
               PROVE  /\ \A i \in 1 .. Len(reached[s]) : reached[s][i] = <<s, i>>
                      /\ reached[s] # << >> => dialled[s] = "ok"
                      /\ \A i \in 1 .. Len(told[s]) :
                           /\ told[s][i] \in {"ok", "failed"} =>
                                told[s][i] = dialled[s] /\ ~Mux!Before(s, i, {"ok", "failed"})
                           /\ told[s][i] = "data" => Mux!Before(s, i, {"ok"})
    BY DEF Mux!StreamsIntact
  <2>1. ReachedInOrder(s) /\ ToldInOrder(s) /\ Len(told[s]) \in Nat  BY DEF MuxInv, MuxTypes
  <2>2. ASSUME NEW i \in 1 .. Len(told[s])
        PROVE  /\ told[s][i] \in {"ok", "failed"} =>
                    told[s][i] = dialled[s] /\ ~Mux!Before(s, i, {"ok", "failed"})
               /\ told[s][i] = "data" => Mux!Before(s, i, {"ok"})
    <3>0. told[s] # << >>
      <4>1. Len(told[s]) # 0  BY <2>1
      <4> QED  BY <4>1, EmptySeq
    <3>1. CASE i = 1
      <4>1. ~Mux!Before(s, i, {"ok", "failed"})  BY <3>1 DEF Mux!Before
      <4> QED  BY <2>1, <3>0, <3>1, <4>1 DEF ToldInOrder
    <3>2. CASE i # 1
      <4>1. i \in 2 .. Len(told[s]) /\ Len(told[s]) > 1 /\ 1 \in 1 .. (i - 1)  BY <2>1, <3>2
      <4>2. told[s][i] = "data" /\ told[s][1] = "ok"  BY <2>1, <4>1 DEF ToldInOrder
      <4>3. Mux!Before(s, i, {"ok"})  BY <4>1, <4>2 DEF Mux!Before
      <4> QED  BY <4>2, <4>3
    <3> QED  BY <3>1, <3>2
  <2> QED  BY <2>1, <2>2 DEF ReachedInOrder
<1> QED  BY <1>1, <1>2, <1>3, PTL DEF MCSpec
-----------------------------------------------------------------------------
(***************************************************************************)
(* The WebSocket layer (WebSocket).  Every cell the peer sends is parsed,  *)
(* in input, in the socket or cut off, in this order; so where the parser  *)
(* is - how many frames it has finished and how much of the next one it    *)
(* has taken - says which cells it will see, and what the application has  *)
(* been given.                                                             *)
(***************************************************************************)
WsCells == [kind : {"head"}, frame : Ws!Frames] \cup [kind : {"len"}]
             \cup [kind : {"byte"}, value : Nat, key : Nat]
ReadFrames == [op : {"continuation", "text", "binary", "close", "ping", "pong"},
               remaining : Nat, maskOffset : Nat, payload : Seq(Nat)]

Sent == Ws!AllCells(peerFrames)
Upto(n) == Len(Ws!AllCells(Ws!First(n)))
Given(n) == peerEarly \o Ws!DataOf(Ws!First(n))
IsClose(n) == n > 0 /\ peerFrames[n].op = "close"

\* The first p cells are parsed.
Parsed(p) ==
    /\ p + Len(input) + Len(incoming) = Len(Sent) - truncated
    /\ \A i \in 1..Len(input) : input[i] = Sent[p + i]
    /\ \A i \in 1..Len(incoming) : incoming[i] = Sent[p + Len(input) + i]

\* The parser is between two frames, n of them finished.
Between(n) ==
    /\ frame = Ws!NoFrame
    /\ Parsed(Upto(n))
    /\ delivered \o early = Given(n)
    /\ Ws!OpenFor(n - 1)
    /\ IsClose(n) => readClosed
    /\ readClosed => IsClose(n) \/ Upto(n) = Len(Sent) - truncated

\* It has taken some bytes of the frame after the first n.
Inside(n, taken) ==
    LET f == peerFrames[n + 1]
        had == SubSeq(f.payload, 1, taken)
    IN  /\ frame \in ReadFrames
        /\ frame.op = f.op
        /\ frame.remaining = Len(f.payload) - taken
        /\ frame.maskOffset = taken % MaskLen
        /\ Parsed(Upto(n) + 2 + taken)
        /\ early = << >>
        /\ delivered = Given(n) \o (IF Ws!IsControl(f.op) THEN << >> ELSE had)
        /\ Ws!OpenFor(n)
        /\ ~readClosed

ReadTyped ==
    /\ peerFrames \in Seq(Ws!Frames) /\ peerEarly \in Seq(Nat)
    /\ truncated \in Nat
    /\ input \in Seq(WsCells) /\ incoming \in Seq(WsCells)
    /\ early \in Seq(Nat) /\ delivered \in Seq(Nat)
    /\ early # << >> => ~reading /\ ~readClosed
    /\ result = "eof" => readClosed

ReadInv ==
    /\ ReadTyped
    /\ \/ \E n \in 0..Len(peerFrames) : Between(n)
       \/ \E n \in 0..(Len(peerFrames) - 1) :
            \E taken \in 0..Len(peerFrames[n + 1].payload) : Inside(n, taken)

WriteInv ==
    /\ wire \in Seq(WsCells) /\ buffer \in Seq(WsCells) /\ frames \in Seq(Ws!Frames)
    /\ accepted \in Nat /\ pending \in Nat
    /\ Ws!WriteIntact

WsInv == ReadInv /\ WriteInv
(* The cells of one frame: a header of two, then its payload.              *)
LEMMA CellFacts ==
  ASSUME NEW f \in Ws!Frames
  PROVE  /\ Ws!Cells(f) \in Seq(WsCells) /\ Len(Ws!Cells(f)) = 2 + Len(f.payload)
         /\ Ws!Cells(f)[1].frame = f
         /\ \A i \in 1..Len(f.payload) :
              /\ Ws!Cells(f)[2 + i].value = f.payload[i]
              /\ Ws!Cells(f)[2 + i].key = (i - 1) % MaskLen
         /\ f.payload \in Seq(Nat) /\ Ws!DataIn(f) \in Seq(Nat)
         /\ f.op \in {"continuation", "text", "binary", "close", "ping", "pong"}
<1> DEFINE head == <<[kind |-> "head", frame |-> f], [kind |-> "len"]>>
           body == [i \in 1..Len(f.payload) |->
                      [kind |-> "byte", value |-> f.payload[i], key |-> (i - 1) % MaskLen]]
<1>1. f.payload \in Seq(Nat) /\ Len(f.payload) \in Nat
      /\ f.op \in {"continuation", "text", "binary", "close", "ping", "pong"}
  BY DEF Ws!Frames
<1>2. Ws!DataIn(f) \in Seq(Nat)
  <2>1. << >> \in Seq(Nat)  OBVIOUS
  <2> QED  BY <1>1, <2>1 DEF Ws!DataIn
<1>3. head \in Seq(WsCells) /\ Len(head) = 2 /\ head[1].frame = f
  <2>1. [kind |-> "head", frame |-> f] \in WsCells  BY DEF WsCells
  <2>2. [kind |-> "len"] \in WsCells  BY DEF WsCells
  <2> QED  BY <2>1, <2>2
<1>4. \A i \in 1..Len(f.payload) : body[i] \in WsCells
  <2> TAKE i \in 1..Len(f.payload)
  <2>1. i - 1 \in Int /\ f.payload[i] \in Nat  BY <1>1
  <2>2. (i - 1) % MaskLen \in Nat  BY <2>1, ModFacts, WebSocketAssumption
  <2>3. PICK k \in Nat : k = (i - 1) % MaskLen  BY <2>2
  <2>4. body[i] = [kind |-> "byte", value |-> f.payload[i], key |-> k]  BY <2>3
  <2>5. [kind |-> "byte", value |-> f.payload[i], key |-> k] \in WsCells  BY <2>1, <2>3 DEF WsCells
  <2> QED  BY <2>4, <2>5
<1>5. body \in Seq(WsCells) /\ Len(body) = Len(f.payload)
  <2>1. PICK n \in Nat : n = Len(f.payload)  BY <1>1
  <2>2. body \in [1..n -> WsCells]  BY <1>4, <2>1
  <2> HIDE DEF body
  <2> QED  BY <2>1, <2>2
<1>6. \A i \in 1..Len(f.payload) : body[i].value = f.payload[i] /\ body[i].key = (i - 1) % MaskLen
  OBVIOUS
<1>7. Ws!Cells(f) = head \o body  BY DEF Ws!Cells
<1> HIDE DEF head, body
<1>8. PICK c, h, b : c = Ws!Cells(f) /\ h = head /\ b = body  OBVIOUS
<1>9. h \in Seq(WsCells) /\ b \in Seq(WsCells) /\ c = h \o b /\ Len(h) = 2 /\ Len(b) = Len(f.payload)
  BY <1>3, <1>5, <1>7, <1>8
<1>14. /\ c \in Seq(WsCells) /\ Len(c) = Len(h) + Len(b)
       /\ \A i \in 1..Len(h) : c[i] = h[i]
       /\ \A i \in 1..Len(b) : c[Len(h) + i] = b[i]
  <2>1. h \in Seq(WsCells) /\ b \in Seq(WsCells)  BY <1>9
  <2>2. /\ h \o b \in Seq(WsCells) /\ Len(h \o b) = Len(h) + Len(b)
        /\ \A i \in 1..Len(h) : (h \o b)[i] = h[i]
        /\ \A i \in 1..Len(b) : (h \o b)[Len(h) + i] = b[i]
    BY <2>1, ConcatFacts
  <2> QED  BY <1>9, <2>2, Zenon
<1>10. c \in Seq(WsCells) /\ Len(c) = 2 + Len(f.payload)  BY <1>9, <1>14, Zenon
<1>11. c[1] = h[1] /\ \A i \in 1..Len(b) : c[2 + i] = b[i]
  <2>1. 1 \in 1..2  OBVIOUS
  <2> QED  BY <1>9, <1>14, <2>1, Zenon
<1>12. \A i \in 1..Len(f.payload) : c[2 + i].value = f.payload[i] /\ c[2 + i].key = (i - 1) % MaskLen
  BY <1>6, <1>8, <1>9, <1>11
<1>13. c[1].frame = f  BY <1>3, <1>8, <1>11
<1> QED  BY <1>1, <1>2, <1>8, <1>10, <1>12, <1>13

\* The pieces AllCells and DataOf put together.
PiecesOf(fs) == [i \in 1..Len(fs) |-> Ws!Cells(fs[i])]
PortionsOf(fs) == [i \in 1..Len(fs) |-> Ws!DataIn(fs[i])]

(* Frames have pieces, as many as there are frames; a beginning of them    *)
(* has the beginning of the pieces; one frame more is one piece more.      *)
LEMMA PiecesFacts ==
  ASSUME NEW fs \in Seq(Ws!Frames)
  PROVE  /\ PiecesOf(fs) \in Seq(Seq(WsCells)) /\ PortionsOf(fs) \in Seq(Seq(Nat))
         /\ Len(PiecesOf(fs)) = Len(fs) /\ Len(PortionsOf(fs)) = Len(fs)
         /\ \A i \in 1..Len(fs) : PiecesOf(fs)[i] = Ws!Cells(fs[i]) /\ PortionsOf(fs)[i] = Ws!DataIn(fs[i])
         /\ Ws!AllCells(fs) = Ext!FlattenSeq(PiecesOf(fs))
         /\ Ws!DataOf(fs) = Ext!FlattenSeq(PortionsOf(fs))
<1>1. PICK n \in Nat : n = Len(fs)  OBVIOUS
<1>2. \A i \in 1..n : Ws!Cells(fs[i]) \in Seq(WsCells) /\ Ws!DataIn(fs[i]) \in Seq(Nat)
  <2> TAKE i \in 1..n
  <2>1. fs[i] \in Ws!Frames  BY <1>1
  <2> QED  BY <2>1, CellFacts
<1>3. PiecesOf(fs) \in [1..n -> Seq(WsCells)] /\ PortionsOf(fs) \in [1..n -> Seq(Nat)]
  BY <1>1, <1>2 DEF PiecesOf, PortionsOf
<1>4. \A i \in 1..Len(fs) : PiecesOf(fs)[i] = Ws!Cells(fs[i]) /\ PortionsOf(fs)[i] = Ws!DataIn(fs[i])
  BY DEF PiecesOf, PortionsOf
<1>5. Ws!AllCells(fs) = Ext!FlattenSeq(PiecesOf(fs))
  BY DEF Ws!AllCells, PiecesOf, Ws!FlattenSeq, Ext!FlattenSeq
<1>6. Ws!DataOf(fs) = Ext!FlattenSeq(PortionsOf(fs))
  BY DEF Ws!DataOf, PortionsOf, Ws!FlattenSeq, Ext!FlattenSeq
<1>7. PICK p, q : p = PiecesOf(fs) /\ q = PortionsOf(fs)  OBVIOUS
<1>8. p \in Seq(Seq(WsCells)) /\ q \in Seq(Seq(Nat)) /\ Len(p) = n /\ Len(q) = n  BY <1>3, <1>7
<1> QED  BY <1>1, <1>4, <1>5, <1>6, <1>7, <1>8

LEMMA PiecesSame ==
  ASSUME NEW fs \in Seq(Ws!Frames), NEW gs \in Seq(Ws!Frames), NEW n \in 0..Len(fs),
         Len(gs) = n, \A i \in 1..n : gs[i] = fs[i]
  PROVE  PiecesOf(gs) = SubSeq(PiecesOf(fs), 1, n) /\ PortionsOf(gs) = SubSeq(PortionsOf(fs), 1, n)
<1>1. PICK p, q, r, s : p = PiecesOf(fs) /\ q = PortionsOf(fs) /\ r = PiecesOf(gs) /\ s = PortionsOf(gs)
  OBVIOUS
<1>2. /\ p \in Seq(Seq(WsCells)) /\ q \in Seq(Seq(Nat)) /\ Len(p) = Len(fs) /\ Len(q) = Len(fs)
      /\ \A i \in 1..Len(fs) : p[i] = Ws!Cells(fs[i]) /\ q[i] = Ws!DataIn(fs[i])
  BY <1>1, PiecesFacts
<1>3. /\ r \in Seq(Seq(WsCells)) /\ s \in Seq(Seq(Nat)) /\ Len(r) = n /\ Len(s) = n
      /\ \A i \in 1..n : r[i] = Ws!Cells(gs[i]) /\ s[i] = Ws!DataIn(gs[i])
  BY <1>1, PiecesFacts
<1>4. n \in Nat /\ \A i \in 1..n : i \in 1..Len(fs)  OBVIOUS
<1>5. \A i \in 1..n : r[i] = p[i] /\ s[i] = q[i]  BY <1>2, <1>3, <1>4
<1>6. r = SubSeq(p, 1, n)  BY <1>2, <1>3, <1>4, <1>5
<1>7. s = SubSeq(q, 1, n)  BY <1>2, <1>3, <1>4, <1>5
<1> QED  BY <1>1, <1>6, <1>7

(* The first n of a sequence of frames.                                    *)
LEMMA FramesUpto ==
  ASSUME NEW fs \in Seq(Ws!Frames), NEW n \in 0..Len(fs)
  PROVE  LET gs == SubSeq(fs, 1, n)
         IN  /\ gs \in Seq(Ws!Frames) /\ Len(gs) = n
             /\ Ws!AllCells(gs) = Ext!FlattenSeq(SubSeq(PiecesOf(fs), 1, n))
             /\ Ws!DataOf(gs) = Ext!FlattenSeq(SubSeq(PortionsOf(fs), 1, n))
             /\ Ws!AllCells(gs) \in Seq(WsCells) /\ Ws!DataOf(gs) \in Seq(Nat)
<1>1. PICK gs : gs = SubSeq(fs, 1, n)  OBVIOUS
<1>2. gs \in Seq(Ws!Frames) /\ Len(gs) = n /\ \A i \in 1..n : gs[i] = fs[i]  BY <1>1
<1>3. PiecesOf(gs) = SubSeq(PiecesOf(fs), 1, n) /\ PortionsOf(gs) = SubSeq(PortionsOf(fs), 1, n)
  BY <1>2, PiecesSame
<1>4. /\ PiecesOf(gs) \in Seq(Seq(WsCells)) /\ PortionsOf(gs) \in Seq(Seq(Nat))
      /\ Ws!AllCells(gs) = Ext!FlattenSeq(PiecesOf(gs))
      /\ Ws!DataOf(gs) = Ext!FlattenSeq(PortionsOf(gs))
  BY <1>2, PiecesFacts
<1>5. Ws!AllCells(gs) \in Seq(WsCells) /\ Ws!DataOf(gs) \in Seq(Nat)  BY <1>4, FlattenType
<1> QED  BY <1>1, <1>2, <1>3, <1>4, <1>5

(* All of them, and none of them.                                          *)
LEMMA FramesEnds ==
  ASSUME NEW fs \in Seq(Ws!Frames)
  PROVE  /\ SubSeq(fs, 1, Len(fs)) = fs
         /\ Ws!AllCells(fs) \in Seq(WsCells) /\ Ws!DataOf(fs) \in Seq(Nat)
         /\ Ws!AllCells(SubSeq(fs, 1, 0)) = << >> /\ Ws!DataOf(SubSeq(fs, 1, 0)) = << >>
         /\ Ws!AllCells(<< >>) = << >> /\ Ws!DataOf(<< >>) = << >>
<1>1. SubSeq(fs, 1, Len(fs)) = fs /\ Len(fs) \in 0..Len(fs) /\ 0 \in 0..Len(fs)  OBVIOUS
<1>2. Ws!AllCells(fs) \in Seq(WsCells) /\ Ws!DataOf(fs) \in Seq(Nat)  BY <1>1, FramesUpto
<1>3. SubSeq(fs, 1, 0) = << >> /\ << >> \in Seq(Ws!Frames)  BY <1>1
<1>4. PiecesOf(<< >>) = << >> /\ PortionsOf(<< >>) = << >>
  <2>1. PICK p, q : p = PiecesOf(<< >>) /\ q = PortionsOf(<< >>)  OBVIOUS
  <2>2. p \in Seq(Seq(WsCells)) /\ q \in Seq(Seq(Nat)) /\ Len(p) = 0 /\ Len(q) = 0
    BY <1>3, <2>1, PiecesFacts
  <2> QED  BY <2>1, <2>2, EmptySeq
<1>5. Ws!AllCells(<< >>) = << >> /\ Ws!DataOf(<< >>) = << >>
  BY <1>3, <1>4, PiecesFacts, FlattenEmpty
<1> QED  BY <1>1, <1>2, <1>3, <1>5

(* One more of them: its cells come next in what all of them make.         *)
LEMMA FramesNext ==
  ASSUME NEW fs \in Seq(Ws!Frames), NEW n \in 0..(Len(fs) - 1)
  PROVE  LET old == SubSeq(fs, 1, n)
             new == SubSeq(fs, 1, n + 1)
             f == fs[n + 1]
             p == Len(Ws!AllCells(old))
         IN  /\ f \in Ws!Frames
             /\ Ws!DataOf(new) = Ws!DataOf(old) \o Ws!DataIn(f)
             /\ Len(Ws!AllCells(new)) = p + 2 + Len(f.payload)
             /\ p + 2 + Len(f.payload) <= Len(Ws!AllCells(fs))
             /\ \A i \in 1..(2 + Len(f.payload)) : Ws!AllCells(fs)[p + i] = Ws!Cells(f)[i]
<1>1. PICK f : f = fs[n + 1]  OBVIOUS
<1>2. f \in Ws!Frames /\ n \in 0..Len(fs) /\ n + 1 \in 0..Len(fs) /\ n + 1 \in 1..Len(fs)  BY <1>1
<1>3. PICK p, q : p = PiecesOf(fs) /\ q = PortionsOf(fs)  OBVIOUS
<1>4. /\ p \in Seq(Seq(WsCells)) /\ q \in Seq(Seq(Nat)) /\ Len(p) = Len(fs) /\ Len(q) = Len(fs)
      /\ \A i \in 1..Len(fs) : p[i] = Ws!Cells(fs[i]) /\ q[i] = Ws!DataIn(fs[i])
      /\ Ws!AllCells(fs) = Ext!FlattenSeq(p)
  BY <1>3, PiecesFacts
<1>5. n \in 0..(Len(p) - 1) /\ n \in 0..(Len(q) - 1)  BY <1>4
<1>6. p[n + 1] = Ws!Cells(f) /\ q[n + 1] = Ws!DataIn(f)  BY <1>1, <1>2, <1>4
<1>7. PICK c0, c1, d0, d1, all, c : /\ c0 = Ws!AllCells(SubSeq(fs, 1, n))
                                 /\ c1 = Ws!AllCells(SubSeq(fs, 1, n + 1))
                                 /\ d0 = Ws!DataOf(SubSeq(fs, 1, n))
                                 /\ d1 = Ws!DataOf(SubSeq(fs, 1, n + 1))
                                 /\ all = Ws!AllCells(fs)
                                 /\ c = Ws!Cells(f)
  OBVIOUS
<1>8. /\ c0 = Ext!FlattenSeq(SubSeq(p, 1, n)) /\ c1 = Ext!FlattenSeq(SubSeq(p, 1, n + 1))
      /\ d0 = Ext!FlattenSeq(SubSeq(q, 1, n)) /\ d1 = Ext!FlattenSeq(SubSeq(q, 1, n + 1))
      /\ c0 \in Seq(WsCells)
  BY <1>2, <1>3, <1>7, FramesUpto
<1>9. c1 = c0 \o c  BY <1>4, <1>5, <1>6, <1>7, <1>8, FlattenStep
<1>10. d1 = d0 \o Ws!DataIn(f)  BY <1>4, <1>5, <1>6, <1>8, FlattenStep
<1>11. /\ Len(c0) + Len(p[n + 1]) <= Len(Ext!FlattenSeq(p))
       /\ \A i \in 1..Len(p[n + 1]) : Ext!FlattenSeq(p)[Len(c0) + i] = p[n + 1][i]
  BY <1>4, <1>5, <1>8, FlattenPlace
<1>12. Len(c0) + Len(c) <= Len(all) /\ \A i \in 1..Len(c) : all[Len(c0) + i] = c[i]
  BY <1>4, <1>6, <1>7, <1>11, Zenon
<1>13. c \in Seq(WsCells) /\ Len(c) = 2 + Len(f.payload) /\ f.payload \in Seq(Nat)
  BY <1>2, <1>7, CellFacts
<1>14. Len(c1) = Len(c0) + Len(c) /\ Len(c0) \in Nat /\ Len(c) \in Nat
  <2>1. c0 \in Seq(WsCells) /\ c \in Seq(WsCells)  BY <1>8, <1>13
  <2>2. Len(c0 \o c) = Len(c0) + Len(c) /\ Len(c0) \in Nat /\ Len(c) \in Nat  BY <2>1, ConcatFacts
  <2> QED  BY <1>9, <2>2, Zenon
<1>15. Len(f.payload) \in Nat  BY <1>13
<1>16. /\ Len(c1) = Len(c0) + 2 + Len(f.payload)
       /\ Len(c0) + 2 + Len(f.payload) <= Len(all)
       /\ \A i \in 1..(2 + Len(f.payload)) : all[Len(c0) + i] = c[i]
  <2>1. PICK k \in Nat : k = Len(f.payload)  BY <1>15
  <2>2. PICK l \in Nat : l = Len(c0)  BY <1>14
  <2>3. l + (2 + k) = l + 2 + k  OBVIOUS
  <2> QED  BY <1>12, <1>13, <1>14, <2>1, <2>2, <2>3, Zenon
<1> QED  BY <1>1, <1>2, <1>7, <1>10, <1>16

(* One that is appended.                                                   *)
LEMMA FramesAppend ==
  ASSUME NEW fs \in Seq(Ws!Frames), NEW f \in Ws!Frames
  PROVE  /\ Append(fs, f) \in Seq(Ws!Frames) /\ Len(Append(fs, f)) = Len(fs) + 1
         /\ \A n \in 0..Len(fs) : SubSeq(Append(fs, f), 1, n) = SubSeq(fs, 1, n)
         /\ Ws!AllCells(Append(fs, f)) = Ws!AllCells(fs) \o Ws!Cells(f)
         /\ Ws!DataOf(Append(fs, f)) = Ws!DataOf(fs) \o Ws!DataIn(f)
<1>1. PICK gs : gs = Append(fs, f)  OBVIOUS
<1>2. gs \in Seq(Ws!Frames) /\ Len(gs) = Len(fs) + 1 /\ gs[Len(fs) + 1] = f /\ Len(fs) \in Nat
      /\ \A i \in 1..Len(fs) : gs[i] = fs[i]
  BY <1>1
<1>3. \A n \in 0..Len(fs) : SubSeq(gs, 1, n) = SubSeq(fs, 1, n)
  <2> TAKE n \in 0..Len(fs)
  <2>1. \A i \in 1..n : i \in 1..Len(fs) /\ gs[i] = fs[i]  BY <1>2
  <2>2. n \in 0..Len(gs)  BY <1>2
  <2> QED  BY <1>2, <2>1, <2>2
<1>4. PICK p, q, r, s : p = PiecesOf(fs) /\ q = PortionsOf(fs) /\ r = PiecesOf(gs) /\ s = PortionsOf(gs)
  OBVIOUS
<1>5. /\ p \in Seq(Seq(WsCells)) /\ q \in Seq(Seq(Nat)) /\ Len(p) = Len(fs) /\ Len(q) = Len(fs)
      /\ Ws!AllCells(fs) = Ext!FlattenSeq(p) /\ Ws!DataOf(fs) = Ext!FlattenSeq(q)
      /\ \A i \in 1..Len(fs) : p[i] = Ws!Cells(fs[i]) /\ q[i] = Ws!DataIn(fs[i])
  BY <1>4, PiecesFacts
<1>6. /\ r \in Seq(Seq(WsCells)) /\ s \in Seq(Seq(Nat)) /\ Len(r) = Len(gs) /\ Len(s) = Len(gs)
      /\ Ws!AllCells(gs) = Ext!FlattenSeq(r) /\ Ws!DataOf(gs) = Ext!FlattenSeq(s)
      /\ \A i \in 1..Len(gs) : r[i] = Ws!Cells(gs[i]) /\ s[i] = Ws!DataIn(gs[i])
  BY <1>2, <1>4, PiecesFacts
<1>7. Ws!Cells(f) \in Seq(WsCells) /\ Ws!DataIn(f) \in Seq(Nat)  BY CellFacts
<1>8. PICK c, d : c = Ws!Cells(f) /\ d = Ws!DataIn(f)  OBVIOUS
<1>9. \A i \in 1..Len(fs) : i \in 1..Len(gs) /\ r[i] = p[i] /\ s[i] = q[i]  BY <1>2, <1>5, <1>6
<1>10. Len(fs) + 1 \in 1..Len(gs)  BY <1>2
<1>11. r[Len(fs) + 1] = c /\ s[Len(fs) + 1] = d  BY <1>2, <1>6, <1>8, <1>10
<1>12. r = Append(p, c)
  <2>1. Append(p, c) \in Seq(Seq(WsCells)) /\ Len(Append(p, c)) = Len(fs) + 1
        /\ Append(p, c)[Len(fs) + 1] = c /\ \A i \in 1..Len(fs) : Append(p, c)[i] = p[i]
    BY <1>5, <1>7, <1>8
  <2>2. PICK t : t = Append(p, c)  OBVIOUS
  <2>3. \A i \in 1..(Len(fs) + 1) : i \in 1..Len(fs) \/ i = Len(fs) + 1  BY <1>2
  <2>4. \A i \in 1..(Len(fs) + 1) : r[i] = t[i]  BY <1>9, <1>11, <2>1, <2>2, <2>3
  <2> QED  BY SMTT(30), <1>2, <1>6, <2>1, <2>2, <2>4
<1>13. s = Append(q, d)
  <2>1. Append(q, d) \in Seq(Seq(Nat)) /\ Len(Append(q, d)) = Len(fs) + 1
        /\ Append(q, d)[Len(fs) + 1] = d /\ \A i \in 1..Len(fs) : Append(q, d)[i] = q[i]
    BY <1>5, <1>7, <1>8
  <2>2. PICK t : t = Append(q, d)  OBVIOUS
  <2>3. \A i \in 1..(Len(fs) + 1) : i \in 1..Len(fs) \/ i = Len(fs) + 1  BY <1>2
  <2>4. \A i \in 1..(Len(fs) + 1) : s[i] = t[i]  BY <1>9, <1>11, <2>1, <2>2, <2>3
  <2> QED  BY SMTT(40), <1>2, <1>6, <2>1, <2>2, <2>4
<1>14. Ext!FlattenSeq(Append(p, c)) = Ext!FlattenSeq(p) \o c  BY <1>5, <1>7, <1>8, FlattenAppend
<1>15. Ext!FlattenSeq(Append(q, d)) = Ext!FlattenSeq(q) \o d  BY <1>5, <1>7, <1>8, FlattenAppend
<1>16. Ws!AllCells(gs) = Ws!AllCells(fs) \o Ws!Cells(f)  BY <1>5, <1>6, <1>8, <1>12, <1>14, Zenon
<1>17. Ws!DataOf(gs) = Ws!DataOf(fs) \o Ws!DataIn(f)  BY <1>5, <1>6, <1>8, <1>13, <1>15, Zenon
<1> QED  BY <1>1, <1>2, <1>3, <1>16, <1>17

(* What the socket takes leaves the stream of cells as it is.              *)
LEMMA FlushFacts ==
  ASSUME WriteInv, NEW k \in 0..Len(buffer), Ws!Flush(k)
  PROVE  /\ wire' \in Seq(WsCells) /\ buffer' \in Seq(WsCells)
         /\ wire' \o buffer' = wire \o buffer
         /\ Len(wire) \in Nat /\ Len(wire') \in Nat /\ Len(wire) <= Len(wire')
         /\ k = Len(buffer) => wire' = wire \o buffer
<1>1. wire \in Seq(WsCells) /\ buffer \in Seq(WsCells)  BY DEF WriteInv
<1>2. PICK a, b : a = SubSeq(buffer, 1, k) /\ b = SubSeq(buffer, k + 1, Len(buffer))  OBVIOUS
<1>3. a \in Seq(WsCells) /\ b \in Seq(WsCells) /\ a \o b = buffer /\ (k = Len(buffer) => a = buffer)
  BY <1>1, <1>2, CutFacts
<1>4. wire' = wire \o a /\ buffer' = b  BY <1>2 DEF Ws!Flush
<1>5. wire \o a \in Seq(WsCells) /\ Len(wire) \in Nat /\ Len(a) \in Nat
      /\ Len(wire \o a) = Len(wire) + Len(a)
  <2>1. a \in Seq(WsCells)  BY <1>3
  <2> QED  BY <1>1, <2>1, ConcatFacts
<1>6. (wire \o a) \o b = wire \o (a \o b)
  <2>1. wire \in Seq(WsCells)  BY <1>1
  <2>2. a \in Seq(WsCells)  BY <1>3
  <2>3. b \in Seq(WsCells)  BY <1>3
  <2>4. \A st, tu : st = wire \o a /\ tu = a \o b
                   => st \o b = wire \o tu /\ st \o b \in Seq(WsCells)
    BY <2>1, <2>2, <2>3, ConcatAssoc, ZenonT(60)
  <2> QED  BY <2>4, Zenon
<1>7. Len(wire') \in Nat /\ Len(wire) <= Len(wire')  BY <1>4, <1>5
<1> QED  BY <1>3, <1>4, <1>5, <1>6, <1>7

(* The lengths of what the first n frames make.                            *)
LEMMA OutLengths ==
  ASSUME NEW fs \in Seq(Ws!Frames), NEW n \in 0..Len(fs)
  PROVE  Len(Ws!AllCells(SubSeq(fs, 1, n))) \in Nat /\ Len(Ws!DataOf(SubSeq(fs, 1, n))) \in Nat
<1>1. /\ Ws!AllCells(SubSeq(fs, 1, n)) \in Seq(WsCells) 
      /\ Ws!DataOf(SubSeq(fs, 1, n)) \in Seq(Nat)
  BY FramesUpto
<1> QED  BY <1>1

LEMMA WriteFlushed ==
  ASSUME WriteInv, NEW k \in 0..Len(buffer), Ws!Flush(k), UNCHANGED <<frames, accepted, pending>>
  PROVE  WriteInv'
<1>1. /\ frames \in Seq(Ws!Frames) /\ accepted \in Nat /\ pending \in Nat
      /\ wire \o buffer = Ws!AllCells(frames)
      /\ Ws!DataOf(frames) = [i \in 1..(accepted + pending) |-> i]
  BY DEF WriteInv, Ws!WriteIntact
<1>2. PICK n \in 0..Len(frames) : /\ Len(Ws!AllCells(SubSeq(frames, 1, n))) <= Len(wire)
                                  /\ Len(Ws!DataOf(SubSeq(frames, 1, n))) >= accepted
  BY DEF WriteInv, Ws!WriteIntact
<1>3. /\ wire' \in Seq(WsCells) /\ buffer' \in Seq(WsCells)
      /\ wire' \o buffer' = wire \o buffer
      /\ Len(wire) \in Nat /\ Len(wire') \in Nat /\ Len(wire) <= Len(wire')
  BY FlushFacts
<1>4. Len(Ws!AllCells(SubSeq(frames, 1, n))) \in Nat  BY <1>1, OutLengths
<1>5. Len(Ws!AllCells(SubSeq(frames, 1, n))) <= Len(wire')  BY <1>2, <1>3, <1>4
<1> QED  BY <1>1, <1>2, <1>3, <1>5 DEF WriteInv, Ws!WriteIntact, Ws!AllCells, Ws!DataOf

(* A frame that is out to its last cell is reported.                       *)
LEMMA WriteReported ==
  ASSUME WriteInv, Ws!Flush(Len(buffer)), frames' = frames, pending' = 0,
         accepted' = accepted + pending
  PROVE  WriteInv'
<1>1. /\ frames \in Seq(Ws!Frames) /\ accepted \in Nat /\ pending \in Nat
      /\ wire \o buffer = Ws!AllCells(frames)
      /\ Ws!DataOf(frames) = [i \in 1..(accepted + pending) |-> i]
      /\ wire \in Seq(WsCells) /\ buffer \in Seq(WsCells)
  BY DEF WriteInv, Ws!WriteIntact
<1>2. Len(buffer) \in 0..Len(buffer)  BY <1>1
<1>3. /\ wire' \in Seq(WsCells) /\ buffer' \in Seq(WsCells)
      /\ wire' \o buffer' = wire \o buffer /\ wire' = wire \o buffer /\ Len(wire') \in Nat
  BY <1>2, FlushFacts
<1>4. Len(frames) \in 0..Len(frames) /\ SubSeq(frames, 1, Len(frames)) = frames  BY <1>1
<1>5. Len(Ws!AllCells(frames)) <= Len(wire')  BY <1>1, <1>3
<1>6. accepted + pending \in Nat /\ Len(Ws!DataOf(frames)) >= accepted'
  <2>1. PICK m \in Nat : m = accepted + pending  BY <1>1
  <2>2. Len([i \in 1..m |-> i]) = m  BY <2>1
  <2> QED  BY <1>1, <2>1, <2>2
<1>7. Ws!DataOf(frames) = [i \in 1..(accepted' + pending') |-> i]
  <2>1. accepted' + pending' = accepted + pending  BY <1>1
  <2> QED  BY <1>1, <2>1
<1>8. \E n \in 0..Len(frames) : /\ Len(Ws!AllCells(SubSeq(frames, 1, n))) <= Len(wire')
                                /\ Len(Ws!DataOf(SubSeq(frames, 1, n))) >= accepted'
  BY <1>4, <1>5, <1>6
<1>9. accepted' \in Nat /\ pending' \in Nat /\ wire' \o buffer' = Ws!AllCells(frames)
  BY <1>1, <1>3, <1>6
<1>10. Ws!WriteIntact'
  <2>1. frames' = frames  OBVIOUS
  <2> QED  BY <1>7, <1>8, <1>9, <2>1, Zenon DEF Ws!WriteIntact
<1> QED  BY <1>1, <1>3, <1>9, <1>10 DEF WriteInv

(* The stream with one frame more, wherever its cells are.                 *)
LEMMA FrameAdded ==
  ASSUME WriteInv, NEW f \in Ws!Frames, frames' = Append(frames, f),
         wire' \in Seq(WsCells), buffer' \in Seq(WsCells),
         wire' \o buffer' = (wire \o buffer) \o Ws!Cells(f), Len(wire) <= Len(wire')
  PROVE  /\ frames' \in Seq(Ws!Frames)
         /\ wire' \o buffer' = Ws!AllCells(frames')
         /\ Ws!DataOf(frames') = Ws!DataOf(frames) \o Ws!DataIn(f)
         /\ \E n \in 0..Len(frames') :
              LET out == SubSeq(frames', 1, n)
              IN  Len(Ws!AllCells(out)) <= Len(wire') /\ Len(Ws!DataOf(out)) >= accepted
<1>1. /\ frames \in Seq(Ws!Frames) /\ wire \in Seq(WsCells)
      /\ wire \o buffer = Ws!AllCells(frames)
  BY DEF WriteInv, Ws!WriteIntact
<1>2. PICK n \in 0..Len(frames) : /\ Len(Ws!AllCells(SubSeq(frames, 1, n))) <= Len(wire)
                                  /\ Len(Ws!DataOf(SubSeq(frames, 1, n))) >= accepted
  BY DEF WriteInv, Ws!WriteIntact
<1>3. /\ frames' \in Seq(Ws!Frames) /\ Len(frames') = Len(frames) + 1
      /\ \A m \in 0..Len(frames) : SubSeq(frames', 1, m) = SubSeq(frames, 1, m)
      /\ Ws!AllCells(frames') = Ws!AllCells(frames) \o Ws!Cells(f)
      /\ Ws!DataOf(frames') = Ws!DataOf(frames) \o Ws!DataIn(f)
  BY <1>1, FramesAppend
<1>4. Len(Ws!AllCells(SubSeq(frames, 1, n))) \in Nat /\ Len(wire) \in Nat /\ Len(wire') \in Nat
  BY <1>1, OutLengths
<1>5. Len(Ws!AllCells(SubSeq(frames, 1, n))) <= Len(wire')  BY <1>2, <1>4
<1>6. n \in 0..Len(frames')  BY <1>1, <1>3
<1> QED  BY <1>1, <1>2, <1>3, <1>5, <1>6

(* A control frame at the end of the buffer changes no data.               *)
LEMMA WriteAppended ==
  ASSUME WriteInv, NEW f \in Ws!Frames, Ws!IsControl(f.op), Ws!AppendFrame(f),
         UNCHANGED <<wire, accepted, pending>>
  PROVE  WriteInv'
<1>1. /\ frames \in Seq(Ws!Frames) /\ wire \in Seq(WsCells) /\ buffer \in Seq(WsCells)
      /\ accepted \in Nat /\ pending \in Nat
      /\ Ws!DataOf(frames) = [i \in 1..(accepted + pending) |-> i]
  BY DEF WriteInv, Ws!WriteIntact
<1>2. buffer' = buffer \o Ws!Cells(f) /\ frames' = Append(frames, f) /\ wire' = wire
  BY DEF Ws!AppendFrame
<1>3. PICK c : c = Ws!Cells(f)  OBVIOUS
<1>4. c \in Seq(WsCells)  BY <1>3, CellFacts
<1>5. buffer \o c \in Seq(WsCells) /\ (wire \o buffer) \o c = wire \o (buffer \o c)
  <2>1. wire \in Seq(WsCells) /\ buffer \in Seq(WsCells)  BY <1>1
  <2>2. buffer \o c \in Seq(WsCells)  BY <1>4, <2>1, ConcatFacts
  <2>3. wire \in Seq(WsCells)  BY <2>1
  <2>4. buffer \in Seq(WsCells)  BY <2>1
  <2>5. \A st, tu : st = wire \o buffer /\ tu = buffer \o c
                   => st \o c = wire \o tu /\ st \o c \in Seq(WsCells)
    BY <1>4, <2>3, <2>4, ConcatAssoc, ZenonT(60)
  <2>6. (wire \o buffer) \o c = wire \o (buffer \o c)  BY <2>5, Zenon
  <2> QED  BY <2>2, <2>6
<1>6. Len(wire) <= Len(wire')
  <2>1. Len(wire) \in Nat  BY <1>1
  <2> QED  BY <1>2, <2>1
<1>7. buffer' \in Seq(WsCells) /\ wire' \in Seq(WsCells) /\ wire' \o buffer' = (wire \o buffer) \o Ws!Cells(f)
  BY <1>1, <1>2, <1>3, <1>5
<1>8. /\ frames' \in Seq(Ws!Frames)
      /\ wire' \o buffer' = Ws!AllCells(frames')
      /\ Ws!DataOf(frames') = Ws!DataOf(frames) \o Ws!DataIn(f)
      /\ \E n \in 0..Len(frames') :
           LET out == SubSeq(frames', 1, n)
           IN  Len(Ws!AllCells(out)) <= Len(wire') /\ Len(Ws!DataOf(out)) >= accepted
  BY <1>2, <1>6, <1>7, FrameAdded
<1>9. Ws!DataOf(frames') = Ws!DataOf(frames)
  <2>1. Ws!DataIn(f) = << >>  BY DEF Ws!DataIn
  <2>2. Ws!DataOf(frames) \in Seq(Nat)  BY <1>1, FramesEnds
  <2>3. Ws!DataOf(frames) \o << >> = Ws!DataOf(frames)  BY <2>2, ConcatNothing
  <2> QED  BY <1>8, <2>1, <2>3
<1> QED  BY <1>1, <1>7, <1>8, <1>9 DEF WriteInv, Ws!WriteIntact, Ws!AllCells, Ws!DataOf

(* poll_write: one frame more, of which the socket takes what it takes.    *)
LEMMA WriteWritten ==
  ASSUME WriteInv, NEW count \in 1..2, Ws!Write(count)
  PROVE  WriteInv'
<1> DEFINE f == [op |-> "binary", fin |-> TRUE, masked |-> FALSE, payload |-> Ws!Payload(count)]
           all == buffer \o Ws!Cells(f)
<1>1. /\ frames \in Seq(Ws!Frames) /\ wire \in Seq(WsCells) /\ buffer \in Seq(WsCells)
      /\ accepted \in Nat /\ pending \in Nat
      /\ Ws!DataOf(frames) = [i \in 1..(accepted + pending) |-> i]
  BY DEF WriteInv, Ws!WriteIntact
<1>2. pending = 0 /\ count \in Nat  BY DEF Ws!Write
<1>3. CASE (\E k \in 0..(Len(buffer) - 1) : Ws!Flush(k)) /\ UNCHANGED <<pending, accepted, frames>>
  <2>1. PICK k \in 0..(Len(buffer) - 1) : Ws!Flush(k)  BY <1>3
  <2>2. k \in 0..Len(buffer)  BY <1>1
  <2> QED  BY <1>3, <2>1, <2>2, WriteFlushed
<1>4. CASE \E k \in Len(buffer)..Len(all) :
             /\ wire' = wire \o SubSeq(all, 1, k)
             /\ buffer' = SubSeq(all, k + 1, Len(all))
             /\ frames' = Append(frames, f)
             /\ pending' = IF k = Len(all) THEN 0 ELSE count
             /\ accepted' = IF k = Len(all) THEN accepted + count ELSE accepted
  <2>1. PICK k \in Len(buffer)..Len(all) :
               /\ wire' = wire \o SubSeq(all, 1, k)
               /\ buffer' = SubSeq(all, k + 1, Len(all))
               /\ frames' = Append(frames, f)
               /\ pending' = IF k = Len(all) THEN 0 ELSE count
               /\ accepted' = IF k = Len(all) THEN accepted + count ELSE accepted
    BY <1>4
  <2>2. PICK p : p = Ws!Payload(count)  OBVIOUS
  <2>3. p = [i \in 1..count |-> accepted + i]  BY <2>2 DEF Ws!Payload
  <2>4. p \in Seq(Nat) /\ Len(p) = count
    <3>1. p \in [1..count -> Nat]  BY <1>1, <2>3
    <3> QED  BY <1>2, <2>3, <3>1
  <2>5. f \in Ws!Frames /\ f.op = "binary" /\ f.payload = p
    BY <2>2, <2>4 DEF Ws!Frames
  <2>6. Ws!DataIn(f) = p  BY <2>5 DEF Ws!DataIn, Ws!IsControl
  <2>7. PICK c : c = Ws!Cells(f)  OBVIOUS
  <2>8. c \in Seq(WsCells)  BY <2>5, <2>7, CellFacts
  <2>9. PICK t : t = all  OBVIOUS
  <2>10. t = buffer \o c /\ t \in Seq(WsCells) /\ Len(t) \in Nat
    BY <1>1, <2>7, <2>8, <2>9, ConcatFacts
  <2> HIDE DEF f, all
  <2>11. k \in 0..Len(t)  BY <1>1, <2>9, <2>10
  <2>12. PICK a, b : a = SubSeq(t, 1, k) /\ b = SubSeq(t, k + 1, Len(t))  OBVIOUS
  <2>13. a \in Seq(WsCells) /\ b \in Seq(WsCells) /\ a \o b = t
    <3>1. t \in Seq(WsCells)  BY <2>10
    <3>2. /\ SubSeq(t, 1, k) \in Seq(WsCells) /\ SubSeq(t, k + 1, Len(t)) \in Seq(WsCells)
          /\ SubSeq(t, 1, k) \o SubSeq(t, k + 1, Len(t)) = t
      BY <2>11, <3>1, CutFacts
    <3> QED  BY <2>12, <3>2, Zenon
  <2>14. wire' = wire \o a /\ buffer' = b  BY <2>1, <2>9, <2>12
  <2>15. /\ wire \o a \in Seq(WsCells) /\ Len(wire \o a) = Len(wire) + Len(a)
         /\ Len(wire) \in Nat /\ Len(a) \in Nat
    <3>1. wire \in Seq(WsCells) /\ a \in Seq(WsCells)  BY <1>1, <2>13
    <3> QED  BY <3>1, ConcatFacts
  <2>16. (wire \o a) \o b = wire \o t
    <3>1. wire \in Seq(WsCells)  BY <1>1
    <3>2. a \in Seq(WsCells)  BY <2>13
    <3>3. b \in Seq(WsCells)  BY <2>13
    <3>4. \A st, tu : st = wire \o a /\ tu = a \o b
                     => st \o b = wire \o tu /\ st \o b \in Seq(WsCells)
      BY <3>1, <3>2, <3>3, ConcatAssoc, ZenonT(60)
    <3> QED  BY <2>13, <3>4, Zenon
  <2>17. (wire \o buffer) \o c = wire \o t
    <3>1. wire \in Seq(WsCells)  BY <1>1
    <3>2. buffer \in Seq(WsCells)  BY <1>1
    <3>3. c \in Seq(WsCells)  BY <2>8
    <3>4. \A st, tu : st = wire \o buffer /\ tu = buffer \o c
                     => st \o c = wire \o tu /\ st \o c \in Seq(WsCells)
      BY <3>1, <3>2, <3>3, ConcatAssoc, ZenonT(60)
    <3> QED  BY <2>10, <3>4, Zenon
  <2>18. Len(wire) <= Len(wire')  BY <2>14, <2>15
  <2>19. wire' \in Seq(WsCells) /\ buffer' \in Seq(WsCells)
         /\ wire' \o buffer' = (wire \o buffer) \o Ws!Cells(f)
    BY <2>7, <2>13, <2>14, <2>15, <2>16, <2>17
  <2>20. /\ frames' \in Seq(Ws!Frames)
         /\ wire' \o buffer' = Ws!AllCells(frames')
         /\ Ws!DataOf(frames') = Ws!DataOf(frames) \o Ws!DataIn(f)
         /\ \E n \in 0..Len(frames') :
              LET out == SubSeq(frames', 1, n)
              IN  Len(Ws!AllCells(out)) <= Len(wire') /\ Len(Ws!DataOf(out)) >= accepted
    BY <2>1, <2>5, <2>18, <2>19, FrameAdded
  <2>21. PICK m \in Nat : m = accepted + count  BY <1>1, <1>2
  <2>22. accepted' \in Nat /\ pending' \in Nat /\ accepted' + pending' = m
    BY <1>1, <1>2, <2>1, <2>21
  <2>23. Ws!DataOf(frames') = [i \in 1..m |-> i]
    <3>1. PICK d : d = Ws!DataOf(frames)  OBVIOUS
    <3>2. d = [i \in 1..accepted |-> i] /\ d \in Seq(Nat) /\ Len(d) = accepted
      <4>1. accepted + pending = accepted  BY <1>1, <1>2
      <4>2. d = [i \in 1..accepted |-> i]  BY <1>1, <3>1, <4>1
      <4> QED  BY <1>1, <4>2
    <3>3. PICK e : e = d \o p  OBVIOUS
    <3>4. /\ e \in Seq(Nat) /\ Len(e) = Len(d) + Len(p)
          /\ \A i \in 1..Len(d) : e[i] = d[i]
          /\ \A i \in 1..Len(p) : e[Len(d) + i] = p[i]
      <4>1. d \in Seq(Nat) /\ p \in Seq(Nat)  BY <2>4, <3>2
      <4>2. /\ d \o p \in Seq(Nat) /\ Len(d \o p) = Len(d) + Len(p)
            /\ \A i \in 1..Len(d) : (d \o p)[i] = d[i]
            /\ \A i \in 1..Len(p) : (d \o p)[Len(d) + i] = p[i]
        BY <4>1, ConcatFacts
      <4> QED  BY <3>3, <4>2, Zenon
    <3>5. Len(e) = m  BY <2>4, <2>21, <3>2, <3>4
    <3>6. \A i \in 1..m : e[i] = i
      <4> TAKE i \in 1..m
      <4>1. CASE i <= accepted
        <5>1. i \in 1..accepted  BY <1>1, <4>1
        <5> QED  BY <3>2, <3>4, <5>1
      <4>2. CASE ~(i <= accepted)
        <5>1. i - accepted \in 1..count /\ accepted + (i - accepted) = i
          BY <1>1, <1>2, <2>21, <4>2
        <5>2. e[accepted + (i - accepted)] = p[i - accepted]  BY <2>4, <3>2, <3>4, <5>1
        <5>3. p[i - accepted] = accepted + (i - accepted)  BY <2>3, <5>1
        <5> QED  BY <5>1, <5>2, <5>3
      <4> QED  BY <4>1, <4>2
    <3>7. e = [i \in 1..m |-> i]  BY <3>4, <3>5, <3>6
    <3> QED  BY <2>6, <2>20, <3>1, <3>3, <3>7
  <2>24. \E n \in 0..Len(frames') :
              LET out == SubSeq(frames', 1, n)
              IN  Len(Ws!AllCells(out)) <= Len(wire') /\ Len(Ws!DataOf(out)) >= accepted'
    <3>1. CASE k # Len(all)
      <4>1. accepted' = accepted  BY <2>1, <3>1
      <4> QED  BY <2>20, <4>1, Zenon
    <3>2. CASE k = Len(all)
      <4>1. b = << >> /\ a = t
        <5>1. t \in Seq(WsCells) /\ k = Len(t)  BY <2>9, <2>10, <3>2
        <5>2. SubSeq(t, 1, k) = t /\ SubSeq(t, k + 1, Len(t)) = << >>
          BY <2>11, <5>1, CutFacts
        <5> QED  BY <2>12, <5>2, Zenon
      <4>2. wire' = wire' \o buffer'
        <5>1. PICK w : w = wire'  OBVIOUS
        <5>2. w \in Seq(WsCells)  BY <2>19, <5>1
        <5>3. w \o << >> = w  BY <5>2, ConcatNothing
        <5> QED  BY <2>14, <4>1, <5>1, <5>3
      <4>3. Len(Ws!AllCells(frames')) <= Len(wire')
        <5>1. Len(wire') \in Nat  BY <2>19
        <5> QED  BY <2>20, <4>2, <5>1
      <4>4. Len(Ws!DataOf(frames')) >= accepted'
        <5>1. Len([i \in 1..m |-> i]) = m  BY <2>21
        <5>2. accepted' = m  BY <2>1, <2>21, <3>2
        <5> QED  BY <2>21, <2>23, <5>1, <5>2
      <4>5. Len(frames') \in 0..Len(frames') /\ SubSeq(frames', 1, Len(frames')) = frames'
        BY <2>20
      <4> QED  BY <4>3, <4>4, <4>5
    <3> QED  BY <3>1, <3>2
  <2> QED  BY <2>19, <2>20, <2>22, <2>23, <2>24
           DEF WriteInv, Ws!WriteIntact, Ws!AllCells, Ws!DataOf
<1> QED  BY <1>3, <1>4 DEF Ws!Write

(* What the position of the parser means: lengths and contents.            *)
LEMMA PlaceFacts ==
  ASSUME ReadTyped, NEW n \in 0..Len(peerFrames)
  PROVE  /\ Len(peerFrames) \in Nat /\ Upto(n) \in Nat /\ Len(Sent) \in Nat
         /\ Ws!DataOf(Ws!First(n)) \in Seq(Nat) /\ Given(n) \in Seq(Nat)
         /\ n = Len(peerFrames) => Upto(n) = Len(Sent)
<1>1. peerFrames \in Seq(Ws!Frames) /\ peerEarly \in Seq(Nat)  BY DEF ReadTyped
<1>2. Ws!AllCells(Ws!First(n)) \in Seq(WsCells) /\ Ws!DataOf(Ws!First(n)) \in Seq(Nat)
  BY <1>1, FramesUpto DEF Ws!First
<1>3. Sent \in Seq(WsCells) /\ Ws!First(Len(peerFrames)) = peerFrames
  BY <1>1, FramesEnds DEF Sent, Ws!First
<1>4. Given(n) \in Seq(Nat)
  <2>1. PICK d : d = Ws!DataOf(Ws!First(n))  OBVIOUS
  <2>2. d \in Seq(Nat)  BY <1>2, <2>1
  <2>3. peerEarly \o d \in Seq(Nat)  BY <1>1, <2>2, ConcatFacts
  <2> QED  BY <2>1, <2>3 DEF Given
<1>5. n = Len(peerFrames) => Upto(n) = Len(Sent)  BY <1>3 DEF Upto, Sent
<1>6. Upto(n) \in Nat  BY <1>2 DEF Upto
<1>7. Len(Sent) \in Nat  BY <1>3
<1>8. Len(peerFrames) \in Nat  BY <1>1
<1> QED  BY <1>2, <1>4, <1>5, <1>6, <1>7, <1>8

(* The frame that comes next there.                                        *)
LEMMA NextFrame ==
  ASSUME ReadTyped, NEW n \in 0..(Len(peerFrames) - 1), NEW f, f = peerFrames[n + 1]
  PROVE  /\ f \in Ws!Frames /\ f.payload \in Seq(Nat) /\ Len(f.payload) \in Nat
         /\ f.op \in {"continuation", "text", "binary", "close", "ping", "pong"}
         /\ Upto(n) \in Nat /\ Upto(n + 1) = Upto(n) + 2 + Len(f.payload)
         /\ Upto(n) + 2 + Len(f.payload) <= Len(Sent)
         /\ Sent[Upto(n) + 1].frame = f
         /\ \A i \in 1..Len(f.payload) : /\ Sent[Upto(n) + 2 + i].value = f.payload[i]
                                         /\ Sent[Upto(n) + 2 + i].key = (i - 1) % MaskLen
         /\ Given(n) \in Seq(Nat) /\ Given(n + 1) = Given(n) \o Ws!DataIn(f)
<1>1. peerFrames \in Seq(Ws!Frames) /\ peerEarly \in Seq(Nat)  BY DEF ReadTyped
<1>2. n \in 0..Len(peerFrames)  OBVIOUS
<1>3. /\ f \in Ws!Frames
      /\ Ws!DataOf(Ws!First(n + 1)) = Ws!DataOf(Ws!First(n)) \o Ws!DataIn(f)
      /\ Upto(n + 1) = Upto(n) + 2 + Len(f.payload)
      /\ Upto(n) + 2 + Len(f.payload) <= Len(Sent)
      /\ \A i \in 1..(2 + Len(f.payload)) : Sent[Upto(n) + i] = Ws!Cells(f)[i]
  BY <1>1, FramesNext DEF Ws!First, Upto, Sent
<1>4. /\ Upto(n) \in Nat /\ Ws!DataOf(Ws!First(n)) \in Seq(Nat) /\ Given(n) \in Seq(Nat)
  BY <1>2, PlaceFacts
<1>5. /\ Ws!Cells(f)[1].frame = f
      /\ \A i \in 1..Len(f.payload) :
           /\ Ws!Cells(f)[2 + i].value = f.payload[i]
           /\ Ws!Cells(f)[2 + i].key = (i - 1) % MaskLen
      /\ f.payload \in Seq(Nat) /\ Ws!DataIn(f) \in Seq(Nat)
      /\ f.op \in {"continuation", "text", "binary", "close", "ping", "pong"}
  BY <1>3, CellFacts
<1>6. PICK l \in Nat : l = Len(f.payload)  BY <1>5
<1>7. Sent[Upto(n) + 1].frame = f
  <2>1. 1 \in 1..(2 + l)  BY <1>6
  <2> QED  BY <1>3, <1>5, <1>6, <2>1
<1>8. ASSUME NEW i \in 1..l
      PROVE  Sent[Upto(n) + 2 + i].value = f.payload[i] /\ Sent[Upto(n) + 2 + i].key = (i - 1) % MaskLen
  <2>1. 2 + i \in 1..(2 + l) /\ Upto(n) + (2 + i) = Upto(n) + 2 + i  BY SMTT(30), <1>4, <1>6
  <2>2. Sent[Upto(n) + 2 + i] = Ws!Cells(f)[2 + i]  BY <1>3, <1>6, <2>1
  <2> QED  BY <1>5, <1>6, <2>2
<1>9. Given(n + 1) = Given(n) \o Ws!DataIn(f)
  <2>1. PICK e, a, b : e = peerEarly /\ a = Ws!DataOf(Ws!First(n)) /\ b = Ws!DataIn(f)  OBVIOUS
  <2>2. e \in Seq(Nat) /\ a \in Seq(Nat) /\ b \in Seq(Nat)  BY <1>1, <1>4, <1>5, <2>1
  <2>3. e \in Seq(Nat)  BY <2>2
  <2>4. a \in Seq(Nat)  BY <2>2
  <2>5. b \in Seq(Nat)  BY <2>2
  <2>6. \A st, tu : st = e \o a /\ tu = a \o b => st \o b = e \o tu /\ st \o b \in Seq(Nat)
    BY <2>3, <2>4, <2>5, ConcatAssoc, ZenonT(60)
  <2>7. e \o (a \o b) = (e \o a) \o b  BY <2>6, Zenon
  <2> QED  BY <1>3, <2>1, <2>7, Zenon DEF Given
<1> QED  BY <1>3, <1>4, <1>5, <1>6, <1>7, <1>8, <1>9

\* What the peer sends and where the parser is in it stay as they are.
PeerSame == UNCHANGED <<peerFrames, peerEarly, truncated>>

LEMMA PeerStill ==
  ASSUME PeerSame
  PROVE  /\ Sent' = Sent /\ \A n : Upto(n)' = Upto(n) /\ Given(n)' = Given(n)
         /\ \A n : IsClose(n)' = IsClose(n) /\ Ws!OpenFor(n)' = Ws!OpenFor(n)
         /\ peerFrames' = peerFrames /\ peerEarly' = peerEarly /\ truncated' = truncated
<1>1. peerFrames' = peerFrames /\ peerEarly' = peerEarly /\ truncated' = truncated  BY DEF PeerSame
<1>2. Sent' = Sent  BY <1>1 DEF Sent, Ws!AllCells
<1>3. \A n : Upto(n)' = Upto(n)  BY <1>1 DEF Upto, Ws!First, Ws!AllCells
<1>4. \A n : Given(n)' = Given(n)  BY <1>1 DEF Given, Ws!First, Ws!DataOf
<1>5. \A n : IsClose(n)' = IsClose(n)  BY <1>1 DEF IsClose
<1>6. \A n : Ws!OpenFor(n)' = Ws!OpenFor(n)  BY <1>1 DEF Ws!OpenFor
<1> QED  BY <1>1, <1>2, <1>3, <1>4, <1>5, <1>6

(* A step that moves no cell and no byte.                                  *)
LEMMA ReadStill ==
  ASSUME ReadInv, PeerSame, UNCHANGED <<input, incoming, frame, readClosed, delivered, early>>,
         reading' => early = << >>, result' = "eof" => readClosed
  PROVE  ReadInv'
<1>1. ReadTyped'  BY DEF ReadInv, ReadTyped, PeerSame
<1>2. \A p : Parsed(p) => Parsed(p)'  BY PeerStill DEF Parsed
<1>3. ASSUME NEW n \in 0..Len(peerFrames), Between(n) PROVE Between(n)'
  <2>1. Parsed(Upto(n))'
    <3>1. Upto(n)' = Upto(n) /\ Sent' = Sent  BY PeerStill
    <3> QED  BY <1>3, <3>1, PeerStill DEF Between, Parsed
  <2> QED  BY <1>3, <2>1, PeerStill DEF Between
<1>4. ASSUME NEW n \in 0..(Len(peerFrames) - 1), NEW taken \in 0..Len(peerFrames[n + 1].payload),
             Inside(n, taken)
      PROVE  Inside(n, taken)'
  <2>1. Upto(n)' = Upto(n) /\ Sent' = Sent  BY PeerStill
  <2>2. Parsed(Upto(n) + 2 + taken)'  BY <1>4, <2>1, PeerStill DEF Inside, Parsed
  <2> QED  BY <1>4, <2>2, PeerStill DEF Inside
<1>5. peerFrames' = peerFrames  BY PeerStill
<1> QED  BY <1>1, <1>3, <1>4, <1>5 DEF ReadInv

(* A frame being read is no NoFrame.                                       *)
LEMMA FrameKinds == \A r \in ReadFrames : r # Ws!NoFrame
<1>1. Ws!NoFrame.op = "none"  BY DEF Ws!NoFrame
<1>2. \A r \in ReadFrames : r.op # "none"  BY DEF ReadFrames
<1> QED  BY <1>1, <1>2

(* The input has lost its first k cells to the parser.                     *)
LEMMA ParsedOn ==
  ASSUME ReadTyped, PeerSame, incoming' = incoming, NEW p \in Nat, NEW k \in 0..Len(input), Parsed(p),
         input' = SubSeq(input, k + 1, Len(input))
  PROVE  Parsed(p + k)' /\ input' \in Seq(WsCells) /\ incoming' \in Seq(WsCells)
<1>1. input \in Seq(WsCells) /\ incoming \in Seq(WsCells) /\ truncated \in Nat  BY DEF ReadTyped
<1>2. PICK l, m \in Nat : l = Len(input) /\ m = Len(incoming)  BY <1>1
<1>3. /\ input' \in Seq(WsCells) /\ Len(input') = l - k
      /\ \A i \in 1..(l - k) : input'[i] = input[k + i]
  BY <1>1, <1>2, CutFacts
<1>4. /\ p + l + m = Len(Sent) - truncated
      /\ \A i \in 1..l : input[i] = Sent[p + i]
      /\ \A i \in 1..m : incoming[i] = Sent[p + l + i]
  BY <1>2 DEF Parsed
<1>5. k \in Nat /\ k <= l  BY <1>2
<1>6. (p + k) + (l - k) + m = p + l + m  BY <1>5
<1>7. ASSUME NEW i \in 1..(l - k) PROVE input'[i] = Sent[(p + k) + i]
  <2>1. k + i \in 1..l /\ p + (k + i) = (p + k) + i  BY <1>5
  <2>2. input[k + i] = Sent[p + (k + i)]  BY <1>4, <2>1
  <2> QED  BY <1>3, <2>1, <2>2
<1>8. ASSUME NEW i \in 1..m PROVE incoming'[i] = Sent[(p + k) + (l - k) + i]
  <2>1. (p + k) + (l - k) + i = p + l + i  BY <1>5
  <2> QED  BY <1>4, <2>1
<1>9. Sent' = Sent /\ truncated' = truncated /\ Len(incoming') = m /\ incoming' \in Seq(WsCells)
  BY <1>1, <1>2, PeerStill
<1>10. Parsed(p + k)'
  <2>1. (p + k) + Len(input') + Len(incoming') = Len(Sent') - truncated'  BY <1>3, <1>4, <1>6, <1>9
  <2>2. \A i \in 1..Len(input') : input'[i] = Sent'[(p + k) + i]  BY <1>3, <1>7, <1>9
  <2>3. \A i \in 1..Len(incoming') : incoming'[i] = Sent'[(p + k) + Len(input') + i]
    BY <1>3, <1>8, <1>9
  <2> QED  BY <2>1, <2>2, <2>3 DEF Parsed
<1> QED  BY <1>3, <1>9, <1>10

(* poll_fill_input: the socket's next k cells join the input.              *)
LEMMA ParsedFill ==
  ASSUME ReadTyped, PeerSame, NEW p \in Nat, NEW k \in 0..Len(incoming), Parsed(p),
         input' = input \o SubSeq(incoming, 1, k),
         incoming' = SubSeq(incoming, k + 1, Len(incoming))
  PROVE  Parsed(p)' /\ input' \in Seq(WsCells) /\ incoming' \in Seq(WsCells)
<1>1. input \in Seq(WsCells) /\ incoming \in Seq(WsCells) /\ truncated \in Nat  BY DEF ReadTyped
<1>2. PICK l, m \in Nat : l = Len(input) /\ m = Len(incoming)  BY <1>1
<1>3. PICK a : a = SubSeq(incoming, 1, k)  OBVIOUS
<1>4. /\ a \in Seq(WsCells) /\ Len(a) = k /\ \A i \in 1..k : a[i] = incoming[i]
      /\ incoming' \in Seq(WsCells) /\ Len(incoming') = m - k
      /\ \A i \in 1..(m - k) : incoming'[i] = incoming[k + i]
  <2>1. /\ SubSeq(incoming, 1, k) \in Seq(WsCells) /\ Len(SubSeq(incoming, 1, k)) = k
        /\ \A i \in 1..k : SubSeq(incoming, 1, k)[i] = incoming[i]
        /\ SubSeq(incoming, k + 1, Len(incoming)) \in Seq(WsCells)
        /\ Len(SubSeq(incoming, k + 1, Len(incoming))) = Len(incoming) - k
        /\ \A i \in 1..(Len(incoming) - k) :
             SubSeq(incoming, k + 1, Len(incoming))[i] = incoming[k + i]
    BY <1>1, CutFacts
  <2> QED  BY <1>2, <1>3, <2>1, Zenon
<1>5. /\ input \o a \in Seq(WsCells) /\ Len(input \o a) = l + k
      /\ \A i \in 1..l : (input \o a)[i] = input[i]
      /\ \A i \in 1..k : (input \o a)[l + i] = a[i]
  <2>1. input \in Seq(WsCells) /\ a \in Seq(WsCells)  BY <1>1, <1>4
  <2>2. /\ input \o a \in Seq(WsCells) /\ Len(input \o a) = Len(input) + Len(a)
        /\ \A i \in 1..Len(input) : (input \o a)[i] = input[i]
        /\ \A i \in 1..Len(a) : (input \o a)[Len(input) + i] = a[i]
    BY <2>1, ConcatFacts
  <2> QED  BY <1>2, <1>4, <2>2, Zenon
<1>6. PICK new : new = input \o a  OBVIOUS
<1>7. /\ input' = new /\ new \in Seq(WsCells) /\ Len(new) = l + k
      /\ \A i \in 1..l : new[i] = input[i]
      /\ \A i \in 1..k : new[l + i] = a[i]
  BY <1>3, <1>5, <1>6, Zenon
<1>8. /\ p + l + m = Len(Sent) - truncated
      /\ \A i \in 1..l : input[i] = Sent[p + i]
      /\ \A i \in 1..m : incoming[i] = Sent[p + l + i]
  BY <1>2 DEF Parsed
<1>9. k \in Nat /\ k <= m  BY <1>2
<1>10. ASSUME NEW i \in 1..(l + k) PROVE new[i] = Sent[p + i]
  <2>1. CASE i <= l
    <3>1. i \in 1..l  BY <2>1, <1>9
    <3> QED  BY <1>7, <1>8, <3>1
  <2>2. CASE ~(i <= l)
    <3>1. i - l \in 1..k /\ i - l \in 1..m /\ l + (i - l) = i /\ p + l + (i - l) = p + i
      BY <1>9, <2>2
    <3>2. new[l + (i - l)] = a[i - l]  BY <1>7, <3>1
    <3>3. a[i - l] = incoming[i - l]  BY <1>4, <3>1
    <3>4. incoming[i - l] = Sent[p + l + (i - l)]  BY <1>8, <3>1
    <3> QED  BY <3>1, <3>2, <3>3, <3>4
  <2> QED  BY <2>1, <2>2
<1>11. ASSUME NEW i \in 1..(m - k) PROVE incoming'[i] = Sent[p + (l + k) + i]
  <2>1. k + i \in 1..m /\ p + l + (k + i) = p + (l + k) + i  BY <1>9
  <2>2. incoming[k + i] = Sent[p + l + (k + i)]  BY <1>8, <2>1
  <2> QED  BY <1>4, <2>1, <2>2
<1>12. p + (l + k) + (m - k) = p + l + m  BY <1>9
<1>13. Sent' = Sent /\ truncated' = truncated  BY PeerStill
<1>14. Parsed(p)'
  <2>1. p + Len(input') + Len(incoming') = Len(Sent') - truncated'
    BY <1>4, <1>7, <1>8, <1>12, <1>13
  <2>2. \A i \in 1..Len(input') : input'[i] = Sent'[p + i]  BY <1>7, <1>10, <1>13
  <2>3. \A i \in 1..Len(incoming') : incoming'[i] = Sent'[p + Len(input') + i]
    <3>1. Len(input') = l + k /\ Len(incoming') = m - k  BY <1>4, <1>7
    <3> QED  BY <1>11, <1>13, <3>1, Zenon
  <2> QED  BY <2>1, <2>2, <2>3 DEF Parsed
<1> QED  BY <1>4, <1>7, <1>14

(* start_frame sees the header of the frame that comes next, if there is   *)
(* one: a header of two cells is not found after the last frame.           *)
LEMMA HeaderSeen ==
  ASSUME ReadTyped, NEW n \in 0..Len(peerFrames), Between(n), Len(input) >= 2
  PROVE  n \in 0..(Len(peerFrames) - 1) /\ input[1].frame = peerFrames[n + 1]
<1>1. input \in Seq(WsCells) /\ incoming \in Seq(WsCells) /\ truncated \in Nat  BY DEF ReadTyped
<1>2. PICK l, m \in Nat : l = Len(input) /\ m = Len(incoming)  BY <1>1
<1>3. /\ Upto(n) + l + m = Len(Sent) - truncated
      /\ \A i \in 1..l : input[i] = Sent[Upto(n) + i]
  BY <1>2 DEF Between, Parsed
<1>4. /\ Len(peerFrames) \in Nat /\ Upto(n) \in Nat /\ Len(Sent) \in Nat
      /\ (n = Len(peerFrames) => Upto(n) = Len(Sent))
  BY PlaceFacts
<1>5. n \in 0..(Len(peerFrames) - 1)  BY <1>1, <1>2, <1>3, <1>4
<1>6. Sent[Upto(n) + 1].frame = peerFrames[n + 1]  BY <1>5, NextFrame
<1>7. 1 \in 1..l  BY <1>2
<1> QED  BY <1>3, <1>5, <1>6, <1>7

(* The states the parser may be in.                                        *)
LEMMA BetweenOrInside ==
  ASSUME ReadInv
  PROVE  /\ ReadTyped
         /\ frame = Ws!NoFrame => \E n \in 0..Len(peerFrames) : Between(n)
         /\ frame # Ws!NoFrame => \E n \in 0..(Len(peerFrames) - 1) :
                                    \E taken \in 0..Len(peerFrames[n + 1].payload) : Inside(n, taken)
<1>1. \A n, taken : Inside(n, taken) => frame # Ws!NoFrame  BY FrameKinds DEF Inside
<1>2. \A n : Between(n) => frame = Ws!NoFrame  BY DEF Between
<1> QED  BY <1>1, <1>2 DEF ReadInv

LEMMA StartFrameInv ==
  ASSUME ReadInv, Ws!StartFrame  PROVE ReadInv'
<1>1. /\ reading /\ ~readClosed /\ frame = Ws!NoFrame /\ Len(input) >= 2
      /\ PeerSame /\ incoming' = incoming /\ early' = early /\ readClosed' = readClosed
      /\ delivered' = delivered
  BY DEF Ws!StartFrame, Ws!CanParse, PeerSame
<1>2. ReadTyped /\ early = << >>  BY <1>1, BetweenOrInside DEF ReadTyped
<1>3. CASE ~Ws!HeaderOk(input[1].frame)
  <2>1. UNCHANGED <<frame, input>> /\ reading' = FALSE /\ result' = "error"
    BY <1>3 DEF Ws!StartFrame, Ws!Return
  <2> QED  BY <1>1, <2>1, ReadStill
<1>4. CASE Ws!HeaderOk(input[1].frame)
  <2>1. PICK n \in 0..Len(peerFrames) : Between(n)  BY <1>1, BetweenOrInside
  <2>2. n \in 0..(Len(peerFrames) - 1) /\ input[1].frame = peerFrames[n + 1]
    BY <1>1, <1>2, <2>1, HeaderSeen
  <2>3. PICK f : f = peerFrames[n + 1]  OBVIOUS
  <2>4. /\ f \in Ws!Frames /\ f.payload \in Seq(Nat) /\ Len(f.payload) \in Nat
        /\ f.op \in {"continuation", "text", "binary", "close", "ping", "pong"}
        /\ Upto(n) \in Nat /\ Given(n) \in Seq(Nat)
    BY <1>2, <2>2, <2>3, NextFrame
  <2>5. /\ frame' = [op |-> f.op, remaining |-> Len(f.payload), maskOffset |-> 0, payload |-> << >>]
        /\ input' = SubSeq(input, 3, Len(input)) /\ UNCHANGED <<reading, result>>
    BY <1>4, <2>2, <2>3 DEF Ws!StartFrame
  <2>14. PICK q \in Nat : q = Upto(n)  BY <2>4
  <2>6. Parsed(q + 2)' /\ input' \in Seq(WsCells) /\ incoming' \in Seq(WsCells)
    <3>1. 2 \in 0..Len(input) /\ 2 + 1 = 3
      <4>1. Len(input) \in Nat  BY <1>2 DEF ReadTyped
      <4> QED  BY <1>1, <4>1
    <3>2. Parsed(q)  BY <2>1, <2>14 DEF Between
    <3>3. input' = SubSeq(input, 2 + 1, Len(input))  BY <2>5, <3>1
    <3> QED  BY <1>1, <1>2, <3>1, <3>2, <3>3, ParsedOn
  <2>7. ReadTyped'
    <3>1. peerFrames' = peerFrames /\ peerEarly' = peerEarly /\ truncated' = truncated
      BY <1>1 DEF PeerSame
    <3> QED  BY <1>1, <1>2, <2>5, <2>6, <3>1 DEF ReadTyped
  <2>8. frame' \in ReadFrames
    <3>1. << >> \in Seq(Nat)  OBVIOUS
    <3> QED  BY <2>4, <2>5, <3>1 DEF ReadFrames
  <2>9. 0 % MaskLen = 0  BY WebSocketAssumption
  <2>10. delivered = Given(n) /\ Ws!OpenFor(n)
    <3>1. delivered \o << >> = Given(n)  BY <1>2, <2>1 DEF Between
    <3>2. delivered \in Seq(Nat)  BY <1>2 DEF ReadTyped
    <3>3. delivered \o << >> = delivered  BY <3>2, ConcatNothing
    <3>4. Ws!OpenFor(n - 1) /\ ~IsClose(n)  BY <1>1, <2>1 DEF Between
    <3>5. \A i \in 1..n : i \in 1..(n - 1) \/ (i = n /\ n > 0)  BY <2>2
    <3> QED  BY <3>1, <3>3, <3>4, <3>5 DEF Ws!OpenFor, IsClose
  <2>11. Given(n) \o (IF Ws!IsControl(f.op) THEN << >> ELSE SubSeq(f.payload, 1, 0)) = Given(n)
    <3>1. SubSeq(f.payload, 1, 0) = << >>  BY <2>4
    <3>2. Given(n) \o << >> = Given(n)  BY <2>4, ConcatNothing
    <3> QED  BY <3>1, <3>2, Zenon
  <2>12. Inside(n, 0)'
    <3>1. /\ Upto(n)' = Upto(n) /\ Given(n)' = Given(n) /\ Ws!OpenFor(n)' = Ws!OpenFor(n)
          /\ peerFrames'[n + 1] = f
      BY <1>1, <2>3, PeerStill
    <3>2. /\ frame'.op = f.op /\ frame'.remaining = Len(f.payload) - 0 /\ frame'.maskOffset = 0 % MaskLen
      BY <2>4, <2>5, <2>9
    <3>3. Parsed(Upto(n) + 2 + 0)'
      <4>1. Upto(n)' + 2 + 0 = q + 2  BY <2>14, <3>1
      <4> QED  BY <2>6, <4>1 DEF Parsed
    <3>4. early' = << >> /\ ~readClosed'
          /\ delivered' = Given(n) \o (IF Ws!IsControl(f.op) THEN << >> ELSE SubSeq(f.payload, 1, 0))
      BY <1>1, <1>2, <2>10, <2>11
    <3> QED  BY <2>8, <2>10, <3>1, <3>2, <3>3, <3>4, Zenon DEF Inside
  <2>13. n \in 0..(Len(peerFrames') - 1) /\ 0 \in 0..Len(peerFrames'[n + 1].payload)
    BY <1>1, <2>2, <2>3, <2>4, PeerStill
  <2> QED  BY <2>7, <2>12, <2>13, Zenon DEF ReadInv
<1> QED  BY <1>3, <1>4

(* A step that only moves the early data.                                  *)
LEMMA EarlyInv ==
  ASSUME ReadInv, Ws!ReadEarly  PROVE ReadInv'
<1>1. /\ ~reading /\ early # << >> /\ PeerSame
      /\ UNCHANGED <<incoming, input, frame, readClosed, reading, result>>
  BY DEF Ws!ReadEarly, PeerSame
<1>2. PICK k \in 1..Len(early) : /\ delivered' = delivered \o SubSeq(early, 1, k)
                                 /\ early' = SubSeq(early, k + 1, Len(early))
  BY DEF Ws!ReadEarly
<1>3. ReadTyped /\ early \in Seq(Nat) /\ delivered \in Seq(Nat) /\ ~readClosed
  BY <1>1, BetweenOrInside DEF ReadTyped
<1>4. PICK a, b : a = SubSeq(early, 1, k) /\ b = SubSeq(early, k + 1, Len(early))  OBVIOUS
<1>5. a \in Seq(Nat) /\ b \in Seq(Nat) /\ a \o b = early
  <2>1. k \in 0..Len(early) /\ early \in Seq(Nat)  BY <1>3
  <2>2. /\ SubSeq(early, 1, k) \in Seq(Nat) /\ SubSeq(early, k + 1, Len(early)) \in Seq(Nat)
        /\ SubSeq(early, 1, k) \o SubSeq(early, k + 1, Len(early)) = early
    BY <2>1, CutFacts
  <2> QED  BY <1>4, <2>2, Zenon
<1>6. PICK d : d = delivered  OBVIOUS
<1>7. d \in Seq(Nat)  BY <1>3, <1>6
<1>8. d \o a \in Seq(Nat) /\ (d \o a) \o b = d \o (a \o b)
  <2>1. d \o a \in Seq(Nat)  BY <1>5, <1>7, ConcatFacts
  <2>2. a \in Seq(Nat)  BY <1>5
  <2>3. b \in Seq(Nat)  BY <1>5
  <2>4. \A st, tu : st = d \o a /\ tu = a \o b => st \o b = d \o tu /\ st \o b \in Seq(Nat)
    BY <1>7, <2>2, <2>3, ConcatAssoc, ZenonT(60)
  <2>5. (d \o a) \o b = d \o (a \o b)  BY <2>4, Zenon
  <2> QED  BY <2>1, <2>5
<1>9. delivered' = d \o a /\ early' = b  BY <1>2, <1>4, <1>6
<1>10. delivered' \o early' = delivered \o early  BY <1>5, <1>6, <1>8, <1>9, Zenon
<1>11. ReadTyped'
  <2>1. peerFrames' = peerFrames /\ peerEarly' = peerEarly /\ truncated' = truncated
    BY <1>1 DEF PeerSame
  <2>2. delivered' \in Seq(Nat) /\ early' \in Seq(Nat)  BY <1>5, <1>8, <1>9
  <2> QED  BY <1>1, <1>3, <2>1, <2>2 DEF ReadTyped
<1>12. PICK n \in 0..Len(peerFrames) : Between(n)  BY <1>1 DEF ReadInv, Inside
<1>13. Between(n)'
  <2>1. Parsed(Upto(n))'  BY <1>1, <1>12, PeerStill DEF Between, Parsed
  <2> QED  BY <1>1, <1>10, <1>12, <2>1, PeerStill DEF Between
<1>14. n \in 0..Len(peerFrames')  BY <1>1, <1>12, PeerStill
<1> QED  BY <1>11, <1>13, <1>14 DEF ReadInv

(* The socket delivers.                                                    *)
LEMMA FillInv ==
  ASSUME ReadInv, Ws!Fill  PROVE ReadInv'
<1>1. /\ reading /\ PeerSame
      /\ UNCHANGED <<early, frame, readClosed, reading, result, delivered>>
  BY DEF Ws!Fill, Ws!NeedsInput, Ws!CanParse, PeerSame
<1>2. PICK k \in 1..Len(incoming) : /\ input' = input \o SubSeq(incoming, 1, k)
                                    /\ incoming' = SubSeq(incoming, k + 1, Len(incoming))
  BY DEF Ws!Fill
<1>3. ReadTyped  BY BetweenOrInside
<1>4. k \in 0..Len(incoming)  BY <1>2
<1>5. ASSUME NEW p \in Nat, Parsed(p)
      PROVE  Parsed(p)' /\ input' \in Seq(WsCells) /\ incoming' \in Seq(WsCells)
  BY <1>1, <1>2, <1>3, <1>4, <1>5, ParsedFill
<1>6. ASSUME input' \in Seq(WsCells), incoming' \in Seq(WsCells)  PROVE ReadTyped'
  <2>1. peerFrames' = peerFrames /\ peerEarly' = peerEarly /\ truncated' = truncated
    BY <1>1 DEF PeerSame
  <2> QED  BY <1>1, <1>3, <1>6, <2>1 DEF ReadTyped
<1>7. ASSUME NEW n \in 0..Len(peerFrames), Between(n)  PROVE ReadInv'
  <2>1. PICK p \in Nat : p = Upto(n)  BY <1>3, PlaceFacts
  <2>2. Parsed(p)' /\ input' \in Seq(WsCells) /\ incoming' \in Seq(WsCells)
    BY <1>5, <1>7, <2>1 DEF Between
  <2>3. Parsed(Upto(n))'
    <3>1. Upto(n)' = p  BY <1>1, <2>1, PeerStill
    <3> QED  BY <2>2, <3>1 DEF Parsed
  <2>4. Between(n)'  BY <1>1, <1>7, <2>3, PeerStill DEF Between
  <2>5. n \in 0..Len(peerFrames')  BY <1>1, PeerStill
  <2> QED  BY <1>6, <2>2, <2>4, <2>5 DEF ReadInv
<1>8. ASSUME NEW n \in 0..(Len(peerFrames) - 1), NEW taken \in 0..Len(peerFrames[n + 1].payload),
             Inside(n, taken)
      PROVE  ReadInv'
  <2>1. PICK p \in Nat : p = Upto(n) + 2 + taken
    <3>1. Upto(n) \in Nat /\ Len(peerFrames[n + 1].payload) \in Nat  BY <1>3, NextFrame
    <3> QED  BY <3>1
  <2>2. Parsed(p)' /\ input' \in Seq(WsCells) /\ incoming' \in Seq(WsCells)
    BY <1>5, <1>8, <2>1 DEF Inside
  <2>3. Parsed(Upto(n) + 2 + taken)'
    <3>1. Upto(n)' + 2 + taken = p  BY <1>1, <2>1, PeerStill
    <3> QED  BY <2>2, <3>1 DEF Parsed
  <2>4. Inside(n, taken)'  BY <1>1, <1>8, <2>3, PeerStill DEF Inside
  <2>5. n \in 0..(Len(peerFrames') - 1) /\ taken \in 0..Len(peerFrames'[n + 1].payload)
    BY <1>1, PeerStill
  <2> QED  BY <1>6, <2>2, <2>4, <2>5 DEF ReadInv
<1> QED  BY <1>7, <1>8 DEF ReadInv

(* The socket ends.                                                        *)
LEMMA FillEofInv ==
  ASSUME ReadInv, Ws!FillEof  PROVE ReadInv'
<1>1. /\ reading /\ ~readClosed /\ incoming = << >> /\ PeerSame
      /\ UNCHANGED <<incoming, input, early, frame, delivered>>
      /\ reading' = FALSE
  BY DEF Ws!FillEof, Ws!NeedsInput, Ws!CanParse, Ws!Return, PeerSame
<1>2. ReadTyped /\ early = << >>  BY <1>1, BetweenOrInside DEF ReadTyped
<1>3. CASE result' = "error" /\ readClosed' = readClosed  BY <1>1, <1>3, ReadStill
<1>4. CASE frame = Ws!NoFrame /\ input = << >> /\ readClosed' = TRUE /\ result' = "eof"
  <2>1. PICK n \in 0..Len(peerFrames) : Between(n)  BY <1>4, BetweenOrInside
  <2>2. Upto(n) = Len(Sent) - truncated
    <3>1. Upto(n) \in Nat /\ Len(Sent) \in Nat /\ truncated \in Nat
      BY <1>2, PlaceFacts DEF ReadTyped
    <3>2. Len(input) = 0 /\ Len(incoming) = 0  BY <1>1, <1>4, EmptySeq
    <3>3. Upto(n) + Len(input) + Len(incoming) = Len(Sent) - truncated
      BY <2>1 DEF Between, Parsed
    <3> QED  BY <3>1, <3>2, <3>3
  <2>3. Between(n)'
    <3>1. Parsed(Upto(n))'  BY <1>1, <2>1, PeerStill DEF Between, Parsed
    <3> QED  BY <1>1, <1>4, <2>1, <2>2, <3>1, PeerStill DEF Between
  <2>4. ReadTyped'
    <3>1. peerFrames' = peerFrames /\ peerEarly' = peerEarly /\ truncated' = truncated
      BY <1>1 DEF PeerSame
    <3> QED  BY <1>1, <1>2, <1>4, <3>1 DEF ReadTyped
  <2>5. n \in 0..Len(peerFrames')  BY <1>1, PeerStill
  <2> QED  BY <2>3, <2>4, <2>5 DEF ReadInv
<1> QED  BY <1>3, <1>4 DEF Ws!FillEof, Ws!Return

(* The key is the right one for every byte, wherever the chunks begin.     *)
LEMMA UnmaskFacts ==
  ASSUME ReadTyped, NEW n \in 0..(Len(peerFrames) - 1), NEW f, f = peerFrames[n + 1],
         NEW taken \in 0..Len(f.payload), Inside(n, taken),
         NEW k \in 1..Len(input), k <= frame.remaining
  PROVE  /\ taken + k \in 0..Len(f.payload)
         /\ \A i \in 1..k : Ws!Unmask(input[i], frame.maskOffset + i - 1) = f.payload[taken + i]
<1>1. /\ f.payload \in Seq(Nat) /\ Len(f.payload) \in Nat /\ Upto(n) \in Nat
      /\ \A i \in 1..Len(f.payload) : /\ Sent[Upto(n) + 2 + i].value = f.payload[i]
                                      /\ Sent[Upto(n) + 2 + i].key = (i - 1) % MaskLen
  BY SMTT(40), ZenonT(40), NextFrame
<1>2. /\ frame.remaining = Len(f.payload) - taken /\ frame.maskOffset = taken % MaskLen
      /\ \A i \in 1..Len(input) : input[i] = Sent[Upto(n) + 2 + taken + i]
  BY DEF Inside, Parsed
<1>3. PICK l \in Nat : l = Len(f.payload)  BY <1>1
<1>4. taken \in Nat /\ k \in Nat /\ taken + k <= l
  <2>1. Len(input) \in Nat  BY DEF ReadTyped
  <2> QED  BY <1>2, <1>3, <2>1
<1>5. ASSUME NEW i \in 1..k
      PROVE  Ws!Unmask(input[i], frame.maskOffset + i - 1) = f.payload[taken + i]
  <2>1. taken + i \in 1..l /\ Upto(n) + 2 + (taken + i) = Upto(n) + 2 + taken + i
        /\ (taken + i) - 1 = taken + (i - 1)
    BY <1>1, <1>4
  <2>2. i \in 1..Len(input)
    <3>1. Len(input) \in Nat  BY DEF ReadTyped
    <3> QED  BY <1>4, <3>1
  <2>3. PICK c : c = input[i]  OBVIOUS
  <2>4. c = Sent[Upto(n) + 2 + (taken + i)]  BY <1>2, <2>1, <2>2, <2>3
  <2>5. c.value = f.payload[taken + i] /\ c.key = (taken + (i - 1)) % MaskLen
    BY <1>1, <1>3, <2>1, <2>4
  <2>6. PICK r : r = taken % MaskLen  OBVIOUS
  <2>7. r \in Int  BY <1>4, <2>6, ModFacts, WebSocketAssumption
  <2>8. (r + (i - 1)) % MaskLen = (taken + (i - 1)) % MaskLen
    <3>1. taken \in Int /\ i - 1 \in Int  BY <1>4
    <3> QED  BY <2>6, <3>1, ModAdd, WebSocketAssumption
  <2>9. frame.maskOffset + i - 1 = r + (i - 1)  BY <1>2, <2>6, <2>7
  <2> QED  BY <2>3, <2>5, <2>8, <2>9 DEF Ws!Unmask
<1> QED  BY <1>3, <1>4, <1>5

(* Some bytes more of a sequence.                                          *)
LEMMA LongerPart ==
  ASSUME NEW s \in Seq(Nat), NEW m \in 0..Len(s), NEW k \in Nat, m + k \in 0..Len(s),
         NEW bytes, bytes = [i \in 1..k |-> s[m + i]]
  PROVE  /\ bytes \in Seq(Nat) /\ SubSeq(s, 1, m) \in Seq(Nat)
         /\ SubSeq(s, 1, m) \o bytes = SubSeq(s, 1, m + k)
<1>1. PICK l \in Nat : l = Len(s)  OBVIOUS
<1>2. \A i \in 1..k : m + i \in 1..l  BY <1>1
<1>3. bytes \in [1..k -> Nat]  BY <1>1, <1>2
<1>4. bytes \in Seq(Nat) /\ Len(bytes) = k  BY <1>3
<1>5. PICK a, b : a = SubSeq(s, 1, m) /\ b = SubSeq(s, 1, m + k)  OBVIOUS
<1>6. a \in Seq(Nat) /\ Len(a) = m /\ \A i \in 1..m : a[i] = s[i]  BY <1>1, <1>5
<1>7. b \in Seq(Nat) /\ Len(b) = m + k /\ \A i \in 1..(m + k) : b[i] = s[i]  BY <1>1, <1>5
<1>8. PICK c : c = a \o bytes  OBVIOUS
<1>9. /\ c \in Seq(Nat) /\ Len(c) = m + k
      /\ \A i \in 1..m : c[i] = a[i]
      /\ \A i \in 1..k : c[m + i] = bytes[i]
  <2>1. a \in Seq(Nat) /\ bytes \in Seq(Nat)  BY <1>4, <1>6
  <2>2. /\ a \o bytes \in Seq(Nat) /\ Len(a \o bytes) = Len(a) + Len(bytes)
        /\ \A i \in 1..Len(a) : (a \o bytes)[i] = a[i]
        /\ \A i \in 1..Len(bytes) : (a \o bytes)[Len(a) + i] = bytes[i]
    BY <2>1, ConcatFacts
  <2> QED  BY <1>4, <1>6, <1>8, <2>2, Zenon
<1>10. ASSUME NEW i \in 1..(m + k)  PROVE c[i] = b[i]
  <2>1. CASE i <= m
    <3>1. i \in 1..m  BY <1>1, <2>1
    <3> QED  BY <1>6, <1>7, <1>9, <3>1
  <2>2. CASE ~(i <= m)
    <3>1. i - m \in 1..k /\ m + (i - m) = i  BY <1>1, <2>2
    <3> QED  BY SMTT(40), ZenonT(40), <1>7, <1>9, <3>1
  <2> QED  BY <2>1, <2>2
<1>11. c = b  BY <1>7, <1>9, <1>10
<1> QED  BY <1>4, <1>5, <1>6, <1>8, <1>11

(* The payload of a frame, or a part of it.                                *)
LEMMA TakeInv ==
  ASSUME ReadInv, NEW k \in 1..Len(input), Ws!Take(k)  PROVE ReadInv'
<1>1. /\ reading /\ ~readClosed /\ frame # Ws!NoFrame /\ k <= frame.remaining /\ PeerSame
      /\ UNCHANGED <<incoming, early, readClosed, result>>
      /\ input' = SubSeq(input, k + 1, Len(input))
  BY DEF Ws!Take, Ws!CanParse, PeerSame
<1>2. ReadTyped /\ early = << >>  BY <1>1, BetweenOrInside DEF ReadTyped
<1>3. PICK n \in 0..(Len(peerFrames) - 1) : \E taken \in 0..Len(peerFrames[n + 1].payload) : Inside(n, taken)
  BY <1>1, BetweenOrInside
<1>4. PICK f : f = peerFrames[n + 1]  OBVIOUS
<1>5. PICK taken \in 0..Len(f.payload) : Inside(n, taken)  BY <1>3, <1>4
<1>6. /\ f.payload \in Seq(Nat) /\ Len(f.payload) \in Nat /\ Upto(n) \in Nat /\ Given(n) \in Seq(Nat)
      /\ f.op \in {"continuation", "text", "binary", "close", "ping", "pong"}
  BY <1>2, <1>4, NextFrame
<1>7. PICK bytes : bytes = [i \in 1..k |-> Ws!Unmask(input[i], frame.maskOffset + i - 1)]  OBVIOUS
<1>8. taken + k \in 0..Len(f.payload) /\ bytes = [i \in 1..k |-> f.payload[taken + i]]
  BY <1>1, <1>2, <1>4, <1>5, <1>7, UnmaskFacts
<1>9. k \in Nat /\ taken \in Nat /\ Len(input) \in Nat /\ k \in 0..Len(input)
  BY <1>2 DEF ReadTyped
<1>10. /\ bytes \in Seq(Nat) /\ SubSeq(f.payload, 1, taken) \in Seq(Nat)
       /\ SubSeq(f.payload, 1, taken) \o bytes = SubSeq(f.payload, 1, taken + k)
  BY SMTT(40), ZenonT(40), <1>6, <1>8, <1>9, LongerPart
<1>11. PICK p \in Nat : p = Upto(n) + 2 + taken  BY <1>6, <1>9
<1>12. Parsed(p + k)' /\ input' \in Seq(WsCells) /\ incoming' \in Seq(WsCells)
  <2>1. Parsed(p)  BY <1>5, <1>11 DEF Inside
  <2> QED  BY <1>1, <1>2, <1>9, <2>1, ParsedOn
<1>13. Parsed(Upto(n) + 2 + (taken + k))'
  <2>1. Upto(n)' + 2 + (taken + k) = p + k
    <3>1. Upto(n)' = Upto(n)  BY <1>1, PeerStill
    <3> QED  BY SMTT(40), <1>6, <1>9, <1>11, <3>1
  <2> QED  BY <1>12, <2>1 DEF Parsed
<1>14. /\ frame \in ReadFrames /\ frame.op = f.op /\ frame.remaining = Len(f.payload) - taken
       /\ frame.maskOffset = taken % MaskLen
       /\ delivered = Given(n) \o (IF Ws!IsControl(f.op) THEN << >> ELSE SubSeq(f.payload, 1, taken))
       /\ Ws!OpenFor(n)
  BY <1>4, <1>5 DEF Inside
<1>15. PICK offset \in Nat : offset = (frame.maskOffset + k) % MaskLen
  <2>1. frame.maskOffset + k \in Int  BY <1>9, <1>14 DEF ReadFrames
  <2>2. PICK x \in Int : x = frame.maskOffset + k  BY <2>1
  <2>3. x % MaskLen \in Nat
    <3>1. MaskLen \in Nat \ {0}  BY WebSocketAssumption
    <3>2. x % MaskLen \in 0..(MaskLen - 1)  BY <2>2, <3>1, ModFacts
    <3> QED  BY <3>1, <3>2
  <2> QED  BY <2>2, <2>3
<1>16. offset = (taken + k) % MaskLen
  <2>1. taken \in Int /\ k \in Int  BY <1>9
  <2> QED  BY <1>14, <1>15, <2>1, ModAdd, WebSocketAssumption
<1>17. Len(f.payload) - (taken + k) \in Nat
       /\ frame.remaining - k = Len(f.payload) - (taken + k)
  BY <1>6, <1>8, <1>9, <1>14
<1>18. /\ frame' \in ReadFrames /\ frame'.op = f.op
       /\ frame'.remaining = Len(f.payload) - (taken + k)
       /\ frame'.maskOffset = (taken + k) % MaskLen
       /\ delivered' = Given(n) \o (IF Ws!IsControl(f.op) THEN << >> ELSE SubSeq(f.payload, 1, taken + k))
       /\ delivered' \in Seq(Nat)
       /\ reading' => reading
  <2>1. PICK r \in Nat : r = frame.remaining - k  BY <1>17
  <2>2. CASE Ws!IsControl(f.op)
    <3>1. PICK kept : kept = frame.payload \o bytes  OBVIOUS
    <3>2. kept \in Seq(Nat)
      <4>1. PICK q : q = frame.payload  OBVIOUS
      <4>2. q \in Seq(Nat)  BY <1>14, <4>1 DEF ReadFrames
      <4>3. q \o bytes \in Seq(Nat)  BY <1>10, <4>2, ConcatFacts
      <4> QED  BY <3>1, <4>1, <4>3
    <3>3. /\ frame' = [frame EXCEPT !.remaining = r, !.payload = kept, !.maskOffset = offset]
          /\ UNCHANGED <<delivered, reading>>
      BY <1>7, <1>14, <1>15, <2>1, <2>2, <3>1 DEF Ws!Take
    <3>4. /\ frame' \in ReadFrames /\ frame'.op = frame.op /\ frame'.remaining = r
          /\ frame'.maskOffset = offset
      BY <1>14, <3>2, <3>3 DEF ReadFrames
    <3>5. delivered' \in Seq(Nat)  BY <1>2, <3>3 DEF ReadTyped
    <3>6. delivered' = Given(n) \o << >>  BY <1>14, <2>2, <3>3
    <3> QED  BY <1>14, <1>16, <1>17, <2>1, <2>2, <3>3, <3>4, <3>5, <3>6, Zenon
  <2>3. CASE ~Ws!IsControl(f.op)
    <3>1. /\ frame' = [frame EXCEPT !.remaining = r, !.maskOffset = offset]
          /\ delivered' = delivered \o bytes /\ reading' = FALSE
      BY <1>7, <1>14, <1>15, <2>1, <2>3 DEF Ws!Take
    <3>2. /\ frame' \in ReadFrames /\ frame'.op = frame.op /\ frame'.remaining = r
          /\ frame'.maskOffset = offset
      BY <1>14, <3>1 DEF ReadFrames
    <3>3. PICK g, a : g = Given(n) /\ a = SubSeq(f.payload, 1, taken)  OBVIOUS
    <3>4. g \in Seq(Nat) /\ a \in Seq(Nat) /\ bytes \in Seq(Nat)  BY <1>6, <1>10, <3>3
    <3>5. PICK x : x = SubSeq(f.payload, 1, taken + k)  OBVIOUS
    <3>6. x = a \o bytes  BY <1>10, <3>3, <3>5
    <3>7. PICK d : d = delivered  OBVIOUS
    <3>8. d = g \o a  BY <1>14, <2>3, <3>3, <3>7
    <3>11. d \o bytes = g \o x /\ d \o bytes \in Seq(Nat)
      <4>1. g \in Seq(Nat)  BY <3>4
      <4>2. a \in Seq(Nat)  BY <3>4
      <4>3. bytes \in Seq(Nat)  BY <3>4
      <4>4. \A d0, x0 : d0 = g \o a /\ x0 = a \o bytes
                        => d0 \o bytes = g \o x0 /\ d0 \o bytes \in Seq(Nat)
        BY <4>1, <4>2, <4>3, ConcatAssoc, ZenonT(60)
      <4> QED  BY <3>6, <3>8, <4>4, Zenon
    <3>9. delivered' \in Seq(Nat)  BY <3>1, <3>7, <3>11, Zenon
    <3>10. delivered' = Given(n) \o SubSeq(f.payload, 1, taken + k)
      BY <3>1, <3>3, <3>5, <3>7, <3>11, Zenon
    <3> QED  BY <1>14, <1>16, <1>17, <2>1, <2>3, <3>1, <3>2, <3>9, <3>10, Zenon
  <2> QED  BY <2>2, <2>3
<1>19. ReadTyped'
  <2>1. peerFrames' = peerFrames /\ peerEarly' = peerEarly /\ truncated' = truncated
    BY <1>1 DEF PeerSame
  <2> QED  BY <1>1, <1>2, <1>12, <1>18, <2>1 DEF ReadTyped
<1>20. Inside(n, taken + k)'
  <2>1. /\ Given(n)' = Given(n) /\ Ws!OpenFor(n)' = Ws!OpenFor(n) /\ peerFrames'[n + 1] = f
    BY <1>1, <1>4, PeerStill
  <2>2. early' = << >> /\ ~readClosed'  BY <1>1, <1>2
  <2> QED  BY <1>13, <1>14, <1>18, <2>1, <2>2, Zenon DEF Inside
<1>21. n \in 0..(Len(peerFrames') - 1) /\ taken + k \in 0..Len(peerFrames'[n + 1].payload)
  BY <1>1, <1>4, <1>8, PeerStill
<1> QED  BY <1>19, <1>20, <1>21, Zenon DEF ReadInv

(* The end of a frame: what was taken of it is all of it.                  *)
LEMMA FinishInv ==
  ASSUME ReadInv, WriteInv, Ws!FinishFrame  PROVE ReadInv' /\ WriteInv'
<1>1. /\ reading /\ ~readClosed /\ frame # Ws!NoFrame /\ frame.remaining = 0 /\ PeerSame
      /\ UNCHANGED <<incoming, input, early, result, reading, delivered, wire, pending, accepted>>
      /\ frame' = Ws!NoFrame
  BY DEF Ws!FinishFrame, Ws!CanParse, PeerSame
<1>2. ReadTyped /\ early = << >>  BY <1>1, BetweenOrInside DEF ReadTyped
<1>3. PICK n \in 0..(Len(peerFrames) - 1) : \E taken \in 0..Len(peerFrames[n + 1].payload) : Inside(n, taken)
  BY <1>1, BetweenOrInside
<1>4. PICK f : f = peerFrames[n + 1]  OBVIOUS
<1>5. PICK taken \in 0..Len(f.payload) : Inside(n, taken)  BY <1>3, <1>4
<1>6. /\ f.payload \in Seq(Nat) /\ Len(f.payload) \in Nat /\ Upto(n) \in Nat /\ Given(n) \in Seq(Nat)
      /\ f.op \in {"continuation", "text", "binary", "close", "ping", "pong"}
      /\ Upto(n + 1) = Upto(n) + 2 + Len(f.payload)
      /\ Given(n + 1) = Given(n) \o Ws!DataIn(f)
  BY <1>2, <1>4, NextFrame
<1>7. /\ frame \in ReadFrames /\ frame.op = f.op /\ frame.remaining = Len(f.payload) - taken
      /\ delivered = Given(n) \o (IF Ws!IsControl(f.op) THEN << >> ELSE SubSeq(f.payload, 1, taken))
      /\ Ws!OpenFor(n) /\ Parsed(Upto(n) + 2 + taken)
  BY <1>4, <1>5 DEF Inside
<1>8. taken = Len(f.payload)
  <2>1. PICK l \in Nat : l = Len(f.payload)  BY <1>6
  <2>2. l - taken = 0  BY <1>1, <1>7, <2>1
  <2> QED  BY <2>1, <2>2
<1>9. SubSeq(f.payload, 1, taken) = f.payload  BY <1>6, <1>8
<1>10. delivered = Given(n + 1)  BY <1>6, <1>7, <1>9, Zenon DEF Ws!DataIn
<1>11. delivered \o early = Given(n + 1)
  <2>1. PICK d : d = delivered  OBVIOUS
  <2>2. d \in Seq(Nat)  BY <1>2, <2>1 DEF ReadTyped
  <2>3. d \o << >> = d  BY <2>2, ConcatNothing
  <2> QED  BY <1>2, <1>10, <2>1, <2>3
<1>12. IF f.op = "close" THEN readClosed' = TRUE ELSE readClosed' = readClosed
  BY <1>7 DEF Ws!FinishFrame
<1>13. IsClose(n + 1) <=> f.op = "close"
  <2>1. n + 1 > 0  BY <1>3
  <2> QED  BY <1>4, <2>1 DEF IsClose
<1>14. Between(n + 1)'
  <2>1. /\ Upto(n + 1)' = Upto(n + 1) /\ Given(n + 1)' = Given(n + 1)
        /\ IsClose(n + 1)' = IsClose(n + 1) /\ Ws!OpenFor(n)' = Ws!OpenFor(n)
        /\ Sent' = Sent /\ truncated' = truncated
    BY <1>1, PeerStill
  <2>2. Parsed(Upto(n + 1))
    <3>1. Upto(n + 1) = Upto(n) + 2 + taken  BY <1>6, <1>8
    <3> QED  BY <1>7, <3>1
  <2>3. Parsed(Upto(n + 1))'  BY <1>1, <2>1, <2>2 DEF Parsed
  <2>4. (n + 1) - 1 = n  BY <1>3
  <2>5. Ws!OpenFor((n + 1) - 1)'  BY <1>7, <2>1, <2>4
  <2>6. delivered' \o early' = Given(n + 1)'  BY <1>1, <1>11, <2>1
  <2>7. IsClose(n + 1)' => readClosed'  BY <1>12, <1>13, <2>1
  <2>8. readClosed' => IsClose(n + 1)'  BY <1>1, <1>12, <1>13, <2>1
  <2> QED  BY <1>1, <2>3, <2>5, <2>6, <2>7, <2>8, Zenon DEF Between
<1>15. ReadTyped'
  <2>1. peerFrames' = peerFrames /\ peerEarly' = peerEarly /\ truncated' = truncated
    BY <1>1 DEF PeerSame
  <2> QED  BY <1>1, <1>2, <2>1 DEF ReadTyped
<1>16. n + 1 \in 0..Len(peerFrames')  
  <2>1. Len(peerFrames) \in Nat  BY <1>2 DEF ReadTyped
  <2> QED  BY <1>1, <1>3, <2>1, PeerStill
<1>17. ReadInv'  BY <1>14, <1>15, <1>16, Zenon DEF ReadInv
<1>18. WriteInv'
  <2>1. ASSUME NEW op \in {"close", "pong"},
               Ws!AppendFrame([op |-> op, fin |-> TRUE, masked |-> FALSE, payload |-> frame.payload])
        PROVE  WriteInv'
    <3>1. PICK g : g = [op |-> op, fin |-> TRUE, masked |-> FALSE, payload |-> frame.payload]  OBVIOUS
    <3>2. g \in Ws!Frames /\ Ws!IsControl(g.op)
      BY <1>7, <3>1 DEF Ws!Frames, ReadFrames, Ws!IsControl
    <3>3. Ws!AppendFrame(g)  BY <2>1, <3>1
    <3> QED  BY <1>1, <3>2, <3>3, WriteAppended
  <2>2. CASE frame.op = "close"  BY <2>1, <2>2 DEF Ws!FinishFrame
  <2>3. CASE frame.op = "ping"  BY <2>1, <2>3 DEF Ws!FinishFrame
  <2>4. CASE frame.op \notin {"close", "ping"}
    <3>1. buffer' = buffer /\ frames' = frames  BY <2>4 DEF Ws!FinishFrame
    <3> QED  BY SMTT(40), ZenonT(40), <1>1, <3>1 DEF WriteInv, Ws!WriteIntact, Ws!AllCells, Ws!DataOf
  <2> QED  BY <2>2, <2>3, <2>4
<1> QED  BY <1>17, <1>18

LEMMA WriteStill ==
  ASSUME WriteInv, UNCHANGED <<wire, buffer, frames, accepted, pending>>  PROVE WriteInv'
BY DEF WriteInv, Ws!WriteIntact, Ws!AllCells, Ws!DataOf

(* Every step of the WebSocket layer keeps both halves.                    *)
LEMMA WsNextInv == WsInv /\ [Ws!WsNext]_wvars => WsInv'
<1> SUFFICES ASSUME WsInv, [Ws!WsNext]_wvars  PROVE ReadInv' /\ WriteInv'  BY DEF WsInv
<1>1. ReadInv /\ WriteInv  BY DEF WsInv
<1>2. ReadTyped  BY <1>1 DEF ReadInv
<1>3. ASSUME UNCHANGED <<peerFrames, peerEarly, truncated, incoming, input, early, frame, readClosed,
                         reading, result, delivered>>
      PROVE  ReadInv'
  <2>1. PeerSame /\ (reading' => early = << >>) /\ (result' = "eof" => readClosed)
    BY <1>2, <1>3 DEF PeerSame, ReadTyped
  <2> QED  BY <1>1, <1>3, <2>1, ReadStill
<1>4. CASE UNCHANGED wvars
  <2>1. WriteInv'  BY <1>1, <1>4, WriteStill DEF wvars
  <2> QED  BY <1>3, <1>4, <2>1 DEF wvars
<1>5. CASE Ws!ReadEarly
  <2>1. WriteInv'  BY <1>1, <1>5, WriteStill DEF Ws!ReadEarly, Ws!writeVars
  <2> QED  BY <1>1, <1>5, <2>1, EarlyInv
<1>6. CASE Ws!PollRead \/ Ws!ReadDone \/ Ws!FillPending
  <2>1. /\ PeerSame /\ UNCHANGED <<input, incoming, frame, readClosed, delivered, early>>
        /\ UNCHANGED <<wire, buffer, frames, accepted, pending>>
        /\ reading' => early = << >>
        /\ result' = "eof" => readClosed
    BY <1>2, <1>6 DEF Ws!PollRead, Ws!ReadDone, Ws!FillPending, Ws!Return, Ws!writeVars, PeerSame, ReadTyped
  <2>2. ReadInv'  BY <1>1, <2>1, ReadStill
  <2>3. WriteInv'  BY <1>1, <2>1, WriteStill
  <2> QED  BY <2>2, <2>3
<1>7. CASE Ws!FlushControl
  <2>1. /\ PeerSame /\ UNCHANGED <<input, incoming, frame, readClosed, delivered, early>>
        /\ UNCHANGED <<frames, accepted, pending>>
        /\ reading' => early = << >>
        /\ result' = "eof" => readClosed
    BY <1>2, <1>7 DEF Ws!FlushControl, PeerSame, ReadTyped
  <2>2. ReadInv'  BY <1>1, <2>1, ReadStill
  <2>3. PICK k \in 0..Len(buffer) : Ws!Flush(k)  BY <1>7 DEF Ws!FlushControl
  <2>4. WriteInv'  BY <1>1, <2>1, <2>3, WriteFlushed
  <2> QED  BY <2>2, <2>4
<1>8. CASE Ws!StartFrame
  <2>1. WriteInv'  BY <1>1, <1>8, WriteStill DEF Ws!StartFrame, Ws!writeVars
  <2> QED  BY <1>1, <1>8, <2>1, StartFrameInv
<1>9. CASE Ws!Fill
  <2>1. WriteInv'  BY <1>1, <1>9, WriteStill DEF Ws!Fill, Ws!writeVars
  <2> QED  BY <1>1, <1>9, <2>1, FillInv
<1>10. CASE Ws!FillEof
  <2>1. WriteInv'  BY <1>1, <1>10, WriteStill DEF Ws!FillEof, Ws!writeVars
  <2> QED  BY <1>1, <1>10, <2>1, FillEofInv
<1>11. CASE Ws!FinishFrame  BY <1>1, <1>11, FinishInv
<1>12. CASE \E k \in 1..Len(input) : Ws!Take(k)
  <2>1. PICK k \in 1..Len(input) : Ws!Take(k)  BY <1>12
  <2>2. WriteInv'  BY <1>1, <2>1, WriteStill DEF Ws!Take, Ws!writeVars
  <2> QED  BY <1>1, <2>1, <2>2, TakeInv
<1>13. CASE Ws!WritePending
  <2>1. ReadInv'  BY <1>3, <1>13 DEF Ws!WritePending, Ws!readVars
  <2>2. PICK k \in 0..Len(buffer) :
          /\ Ws!Flush(k)
          /\ IF k = Len(buffer) THEN pending' = 0 /\ accepted' = accepted + pending
             ELSE UNCHANGED <<pending, accepted>>
    BY <1>13 DEF Ws!WritePending
  <2>3. frames' = frames  BY <1>13 DEF Ws!WritePending
  <2>4. CASE k = Len(buffer)  BY <1>1, <2>1, <2>2, <2>3, <2>4, WriteReported
  <2>5. CASE k # Len(buffer)  BY <1>1, <2>1, <2>2, <2>3, <2>5, WriteFlushed
  <2> QED  BY <2>4, <2>5
<1>14. CASE Ws!PollFlush
  <2>1. ReadInv'  BY <1>3, <1>14 DEF Ws!PollFlush, Ws!readVars
  <2>2. PICK k \in 1..Len(buffer) : Ws!Flush(k)  BY <1>14 DEF Ws!PollFlush
  <2>3. k \in 0..Len(buffer) /\ UNCHANGED <<frames, accepted, pending>>  BY <1>14 DEF Ws!PollFlush
  <2> QED  BY <1>1, <2>1, <2>2, <2>3, WriteFlushed
<1>15. CASE Ws!PollShutdown
  <2>1. ReadInv'  BY <1>3, <1>15 DEF Ws!PollShutdown, Ws!readVars
  <2>2. PICK g : g = [op |-> "close", fin |-> TRUE, masked |-> FALSE, payload |-> << >>]  OBVIOUS
  <2>3. g \in Ws!Frames /\ Ws!IsControl(g.op)
    <3>1. << >> \in Seq(Nat)  OBVIOUS
    <3> QED  BY <2>2, <3>1 DEF Ws!Frames, Ws!IsControl
  <2>4. Ws!AppendFrame(g) /\ UNCHANGED <<wire, accepted, pending>>
    BY <1>15, <2>2 DEF Ws!PollShutdown
  <2> QED  BY <1>1, <2>1, <2>3, <2>4, WriteAppended
<1>16. CASE \E count \in 1..2 : Ws!Write(count)
  <2>1. PICK count \in 1..2 : Ws!Write(count)  BY <1>16
  <2>2. ReadInv'  BY <1>3, <2>1 DEF Ws!Write, Ws!readVars
  <2> QED  BY <1>1, <2>1, <2>2, WriteWritten
<1>17. Ws!Finished => UNCHANGED wvars
  BY DEF Ws!Finished, Ws!wvars, Ws!readVars, Ws!writeVars, wvars
<1> QED  BY <1>4, <1>5, <1>6, <1>7, <1>8, <1>9, <1>10, <1>11, <1>12, <1>13, <1>14, <1>15, <1>16, <1>17
         DEF Ws!WsNext, Ws!ReadStep, Ws!WriteStep

(* Nothing is parsed, given or written at first.                           *)
LEMMA WsInitInv == Ws!WsInit => WsInv
<1> SUFFICES ASSUME Ws!WsInit  PROVE ReadInv /\ WriteInv  BY DEF WsInv
<1>1. /\ peerFrames \in Seq(Ws!Frames) /\ peerEarly \in Seq(Nat) /\ early = peerEarly
      /\ truncated \in 0..3 /\ truncated <= Len(Sent)
      /\ incoming = SubSeq(Sent, 1, Len(Sent) - truncated)
      /\ input = << >> /\ frame = Ws!NoFrame /\ readClosed = FALSE /\ reading = FALSE
      /\ result = "open" /\ delivered = << >>
      /\ buffer = << >> /\ wire = << >> /\ pending = 0 /\ accepted = 0 /\ frames = << >>
  BY WebSocketAssumption DEF Ws!WsInit, Sent
<1>2. Sent \in Seq(WsCells)  BY <1>1, FramesEnds DEF Sent
<1>3. PICK l \in Nat : l = Len(Sent)  BY <1>2
<1>4. l - truncated \in 0..l  BY <1>1, <1>3
<1>5. /\ incoming \in Seq(WsCells) /\ Len(incoming) = l - truncated
      /\ \A i \in 1..(l - truncated) : incoming[i] = Sent[i]
  BY <1>1, <1>2, <1>3, <1>4, CutFacts
<1>6. Upto(0) = 0 /\ Given(0) = peerEarly
  <2>1. Ws!AllCells(Ws!First(0)) = << >> /\ Ws!DataOf(Ws!First(0)) = << >>
    BY <1>1, FramesEnds DEF Ws!First
  <2>2. Upto(0) = 0  BY <2>1, EmptySeq DEF Upto
  <2>3. PICK e : e = peerEarly  OBVIOUS
  <2>4. e \in Seq(Nat)  BY <1>1, <2>3
  <2>5. e \o << >> = e  BY <2>4, ConcatNothing
  <2> QED  BY <2>1, <2>2, <2>3, <2>5 DEF Given
<1>7. << >> \in Seq(WsCells) /\ << >> \in Seq(Nat) /\ << >> \in Seq(Ws!Frames) /\ Len(<< >>) = 0
  OBVIOUS
<1>8. ReadTyped
  BY <1>1, <1>5, <1>7 DEF ReadTyped
<1>9. Between(0)
  <2>1. Parsed(Upto(0))
    <3>1. 0 + Len(input) + Len(incoming) = Len(Sent) - truncated  BY <1>1, <1>3, <1>5, <1>7, <1>4
    <3>2. \A i \in 1..Len(input) : input[i] = Sent[0 + i]  BY <1>1, <1>7
    <3>3. \A i \in 1..Len(incoming) : incoming[i] = Sent[0 + Len(input) + i]
      <4>1. \A i \in 1..(l - truncated) : 0 + 0 + i = i  BY <1>4
      <4> QED  BY <1>1, <1>5, <1>7, <4>1
    <3> QED  BY <1>6, <3>1, <3>2, <3>3 DEF Parsed
  <2>2. delivered \o early = Given(0)
    <3>1. PICK e : e = peerEarly  OBVIOUS
    <3>2. e \in Seq(Nat)  BY <1>1, <3>1
    <3>3. << >> \o e = e  BY <3>2, ConcatNothing
    <3> QED  BY <1>1, <1>6, <3>1, <3>3
  <2>3. Ws!OpenFor(0 - 1) /\ ~IsClose(0)  BY DEF Ws!OpenFor, IsClose
  <2> QED  BY <1>1, <2>1, <2>2, <2>3 DEF Between
<1>10. 0 \in 0..Len(peerFrames)  BY <1>1
<1>11. ReadInv  BY <1>8, <1>9, <1>10 DEF ReadInv
<1>12. WriteInv
  <2>1. Ws!AllCells(<< >>) = << >> /\ Ws!DataOf(<< >>) = << >>  BY <1>7, FramesEnds
  <2>2. wire \o buffer = << >>
    <3>1. << >> \o << >> = << >>  BY <1>7, ConcatNothing
    <3> QED  BY <1>1, <3>1
  <2>3. Ws!DataOf(frames) = [i \in 1..(accepted + pending) |-> i]
    <3>1. accepted + pending = 0  BY <1>1
    <3>2. [i \in 1..0 |-> i] = << >>  OBVIOUS
    <3> QED  BY <1>1, <2>1, <3>1, <3>2
  <2>4. \E n \in 0..Len(frames) : /\ Len(Ws!AllCells(SubSeq(frames, 1, n))) <= Len(wire)
                                  /\ Len(Ws!DataOf(SubSeq(frames, 1, n))) >= accepted
    <3>1. 0 \in 0..Len(frames)  BY <1>1, <1>7
    <3>2. Ws!AllCells(SubSeq(frames, 1, 0)) = << >> /\ Ws!DataOf(SubSeq(frames, 1, 0)) = << >>
      BY <1>1, <1>7, FramesEnds
    <3>3. Len(Ws!AllCells(SubSeq(frames, 1, 0))) = 0 /\ Len(Ws!DataOf(SubSeq(frames, 1, 0))) = 0
          /\ Len(wire) = 0
      BY <1>1, <1>7, <3>2
    <3> QED  BY <1>1, <3>1, <3>3
  <2> QED  BY <1>1, <1>7, <2>1, <2>2, <2>3, <2>4 DEF WriteInv, Ws!WriteIntact
<1> QED  BY <1>11, <1>12

(* A beginning is a prefix.                                                *)
LEMMA PrefixFacts ==
  ASSUME NEW a, NEW b, NEW c, a \in Seq(Nat), b \in Seq(Nat), c = a \o b
  PROVE  Ws!IsPrefix(a, c)
<1>1. /\ a \o b \in Seq(Nat) /\ Len(a) \in Nat /\ Len(b) \in Nat
      /\ Len(a \o b) = Len(a) + Len(b) /\ \A i \in 1..Len(a) : (a \o b)[i] = a[i]
  BY ConcatFacts
<1>2. c \in Seq(Nat) /\ Len(c) = Len(a) + Len(b) /\ \A i \in 1..Len(a) : c[i] = a[i]  BY <1>1, Zenon
<1>3. Len(a) <= Len(c)  BY <1>1, <1>2
<1>4. SubSeq(a, 1, Len(a)) = SubSeq(c, 1, Len(a))
  <2>1. PICK m \in Nat : m = Len(a)  BY <1>1
  <2>2. PICK d : d = SubSeq(c, 1, m)  OBVIOUS
  <2>3. d \in Seq(Nat) /\ Len(d) = m /\ \A i \in 1..m : d[i] = c[i]  BY <1>2, <1>3, <2>1, <2>2
  <2>4. \A i \in 1..m : d[i] = a[i]  BY <1>2, <2>1, <2>3
  <2>5. d = a
    <3>1. d = [i \in 1..m |-> d[i]]  BY <2>3
    <3>2. a = [i \in 1..m |-> a[i]]  BY <2>1
    <3>3. [i \in 1..m |-> d[i]] = [i \in 1..m |-> a[i]]  BY <2>4
    <3> QED  BY <3>1, <3>2, <3>3, Zenon
  <2>6. SubSeq(a, 1, Len(a)) = a  OBVIOUS
  <2> QED  BY <2>1, <2>2, <2>5, <2>6
<1> QED  BY <1>3, <1>4 DEF Ws!IsPrefix

(* So what the application has been given is what the peer wrote.          *)
LEMMA ReadIsIntact == ReadInv => Ws!ReadIntact
<1> SUFFICES ASSUME ReadInv  PROVE Ws!ReadIntact  OBVIOUS
<1>1. ReadTyped /\ delivered \in Seq(Nat) /\ early \in Seq(Nat)  BY DEF ReadInv, ReadTyped
<1>2. CASE \E n \in 0..Len(peerFrames) : Between(n)
  <2>1. PICK n \in 0..Len(peerFrames) : Between(n)  BY <1>2
  <2>2. delivered \o early = Given(n) /\ Ws!OpenFor(n - 1)  BY <2>1 DEF Between
  <2>3. Ws!IsPrefix(delivered, Given(n))  BY <1>1, <2>2, PrefixFacts
  <2>4. \E m \in 0..Len(peerFrames) : Ws!OpenFor(m) /\ Ws!IsPrefix(delivered, Given(m))
    <3>1. CASE IsClose(n)
      <4>1. n - 1 \in 0..(Len(peerFrames) - 1) /\ (n - 1) + 1 = n /\ n - 1 \in 0..Len(peerFrames)
        BY <2>1, <3>1 DEF IsClose
      <4>2. PICK f : f = peerFrames[(n - 1) + 1]  OBVIOUS
      <4>3. Given((n - 1) + 1) = Given(n - 1) \o Ws!DataIn(f) /\ Given(n - 1) \in Seq(Nat)
        BY SMTT(40), <1>1, <4>1, <4>2, NextFrame
      <4>4. Ws!DataIn(f) = << >>  BY <3>1, <4>1, <4>2 DEF IsClose, Ws!DataIn, Ws!IsControl
      <4>5. PICK g : g = Given(n - 1)  OBVIOUS
      <4>6. g \in Seq(Nat)  BY <4>3, <4>5
      <4>7. g \o << >> = g  BY <4>6, ConcatNothing
      <4>8. Given(n) = Given(n - 1)  BY <4>1, <4>3, <4>4, <4>5, <4>7, Zenon
      <4> QED  BY <2>2, <2>3, <4>1, <4>8
    <3>2. CASE ~IsClose(n)
      <4>1. \A i \in 1..n : i \in 1..(n - 1) \/ (i = n /\ n > 0)  BY <2>1
      <4>2. Ws!OpenFor(n)  BY <2>2, <3>2, <4>1 DEF Ws!OpenFor, IsClose
      <4> QED  BY <2>1, <2>3, <4>2
    <3> QED  BY <3>1, <3>2
  <2>5. result = "eof" =>
          \E m \in 0..Len(peerFrames) :
            /\ Ws!OpenFor(m - 1) /\ delivered = Given(m)
            /\ Upto(m) = Len(Sent) - truncated \/ (m > 0 /\ peerFrames[m].op = "close")
    <3> HAVE result = "eof"
    <3>1. readClosed /\ early = << >>  BY <1>1 DEF ReadTyped
    <3>2. PICK d : d = delivered  OBVIOUS
    <3>3. d \in Seq(Nat)  BY <1>1, <3>2
    <3>4. d \o << >> = d  BY <3>3, ConcatNothing
    <3>5. delivered = Given(n)  BY <2>2, <3>1, <3>2, <3>4
    <3>6. IsClose(n) \/ Upto(n) = Len(Sent) - truncated  BY <2>1, <3>1 DEF Between
    <3> QED  BY <2>1, <2>2, <3>5, <3>6 DEF IsClose
  <2> QED  BY <2>4, <2>5 DEF Ws!ReadIntact, Given, Upto, Sent
<1>3. CASE \E n \in 0..(Len(peerFrames) - 1) :
             \E taken \in 0..Len(peerFrames[n + 1].payload) : Inside(n, taken)
  <2>1. PICK n \in 0..(Len(peerFrames) - 1) :
          \E taken \in 0..Len(peerFrames[n + 1].payload) : Inside(n, taken)
    BY <1>3
  <2>2. PICK f : f = peerFrames[n + 1]  OBVIOUS
  <2>3. PICK taken \in 0..Len(f.payload) : Inside(n, taken)  BY <2>1, <2>2
  <2>4. /\ f.payload \in Seq(Nat) /\ Given(n) \in Seq(Nat)
        /\ Given(n + 1) = Given(n) \o Ws!DataIn(f)
    BY <1>1, <2>2, NextFrame
  <2>5. /\ delivered = Given(n) \o (IF Ws!IsControl(f.op) THEN << >> ELSE SubSeq(f.payload, 1, taken))
        /\ Ws!OpenFor(n) /\ ~readClosed
    BY <2>2, <2>3 DEF Inside
  <2>6. n \in 0..Len(peerFrames) /\ n + 1 \in 0..Len(peerFrames)
    <3>1. Len(peerFrames) \in Nat  BY <1>1 DEF ReadTyped
    <3> QED  BY <2>1, <3>1
  <2>7. result # "eof"  BY <1>1, <2>5 DEF ReadTyped
  <2>8. CASE Ws!IsControl(f.op)
    <3>1. PICK g : g = Given(n)  OBVIOUS
    <3>2. g \in Seq(Nat)  BY <2>4, <3>1
    <3>3. g \o << >> = g  BY <3>2, ConcatNothing
    <3>4. delivered = g /\ << >> \in Seq(Nat)  BY <2>5, <2>8, <3>1, <3>3
    <3>5. Ws!IsPrefix(delivered, Given(n))  BY <3>1, <3>2, <3>3, <3>4, PrefixFacts
    <3> QED  BY <2>5, <2>6, <2>7, <3>5 DEF Ws!ReadIntact, Given
  <2>9. CASE ~Ws!IsControl(f.op)
    <3>1. PICK g, a, b, x : /\ g = Given(n) /\ a = SubSeq(f.payload, 1, taken)
                            /\ b = SubSeq(f.payload, taken + 1, Len(f.payload)) /\ x = f.payload
      OBVIOUS
    <3>2. a \in Seq(Nat) /\ b \in Seq(Nat) /\ x = a \o b
      <4>1. x \in Seq(Nat) /\ taken \in 0..Len(x)  BY <2>3, <2>4, <3>1
      <4>2. /\ SubSeq(x, 1, taken) \in Seq(Nat) /\ SubSeq(x, taken + 1, Len(x)) \in Seq(Nat)
            /\ SubSeq(x, 1, taken) \o SubSeq(x, taken + 1, Len(x)) = x
        BY <4>1, CutFacts
      <4> QED  BY <3>1, <4>2, Zenon
    <3>3. g \in Seq(Nat)  BY <2>4, <3>1
    <3>4. PICK d : d = delivered  OBVIOUS
    <3>5. d = g \o a  BY <2>5, <2>9, <3>1, <3>4
    <3>6. \A d0, x0 : d0 = g \o a /\ x0 = a \o b => d0 \o b = g \o x0 /\ d0 \o b \in Seq(Nat)
      <4>1. a \in Seq(Nat)  BY <3>2
      <4>2. b \in Seq(Nat)  BY <3>2
      <4> QED  BY <3>3, <4>1, <4>2, ConcatAssoc, ZenonT(60)
    <3>7. d \o b = g \o x  BY <3>2, <3>5, <3>6, Zenon
    <3>8. Given(n + 1) = d \o b  BY <2>4, <2>9, <3>1, <3>7 DEF Ws!DataIn
    <3>9. Ws!IsPrefix(delivered, Given(n + 1))  BY <1>1, <3>2, <3>4, <3>8, PrefixFacts
    <3>10. Ws!OpenFor(n + 1)
      <4>1. \A i \in 1..(n + 1) : i \in 1..n \/ i = n + 1  BY <2>1
      <4>2. f.op # "close"  BY <2>9 DEF Ws!IsControl
      <4> QED  BY <2>2, <2>5, <4>1, <4>2 DEF Ws!OpenFor
    <3> QED  BY <2>6, <2>7, <3>9, <3>10 DEF Ws!ReadIntact, Given
  <2> QED  BY <2>8, <2>9
<1> QED  BY <1>2, <1>3 DEF ReadInv

(* The application reads what the peer wrote before its Close, and is told *)
(* the end only when all of it was there; the wire carries whole frames    *)
(* with the application's bytes once each, and a write is reported only    *)
(* when its frame is out.  For any frames of any length (WebSocketStream   *)
(* does not bound them), however the socket splits either direction.       *)
THEOREM WebSocketAlwaysIntact == MCSpec => [](Ws!ReadIntact /\ Ws!WriteIntact)
<1>1. MCInit => WsInv  BY WsInitInv DEF MCInit, IdleWs
<1>2. WsInv /\ [MCNext]_<<part, vars, svars, qvars, wvars, mvars>> => WsInv'
  <2> SUFFICES ASSUME WsInv, [MCNext]_<<part, vars, svars, qvars, wvars, mvars>>  PROVE WsInv'
    OBVIOUS
  <2>1. [Ws!WsNext]_wvars  BY DEF MCNext
  <2> QED  BY <2>1, WsNextInv
<1>3. WsInv => Ws!ReadIntact /\ Ws!WriteIntact  BY ReadIsIntact DEF WsInv, WriteInv
<1> QED  BY <1>1, <1>2, <1>3, PTL DEF MCSpec

(* Handlers, WebSocket layer and multiplexer together: no byte of a client *)
(* is lost, repeated or reordered.                                         *)
THEOREM BytesAlwaysIntact == MCSpec => []BytesIntact
<1>1. Session!NothingSwallowed /\ (Ws!ReadIntact /\ Ws!WriteIntact) /\ Mux!StreamsIntact => BytesIntact
  BY DEF BytesIntact
<1> QED  BY NothingIsSwallowed, WebSocketAlwaysIntact, StreamsAlwaysIntact, <1>1, PTL
=============================================================================
