---------------------------- MODULE QuicInbound -----------------------------
(***************************************************************************)
(* Start, certificate updates and close of the QUIC inbounds (Hysteria2,   *)
(* ShadowQUIC, SunnyQUIC): one server per listen address, an accept task   *)
(* per server, and a task that applies every certificate the provider      *)
(* publishes to all servers.  The three inbounds share the shape; they     *)
(* differ in whether a certificate provider takes part.                    *)
(***************************************************************************)
EXTENDS Naturals, FiniteSets

CONSTANTS Addresses,      \* listen addresses, numbered from 1
          MaxPublish,     \* certificates the provider publishes
          MaxLive         \* sessions at a time

VARIABLES
    inbound,    \* "hysteria2" | "shadowquic" | "sunnyquic"
    source,     \* "static" | "provider" | "none"
    wildcard,   \* the first address is the IPv6 wildcard
    prepared,   \* Option<PreparedServer> is Some
    phase,      \* of start(): "idle" | "bind" | "running" | "failed"
    bindNext,   \* the next address to bind
    server,     \* per address: "none" | "open" | "skipped" | "closed"
    published,  \* version in the provider's watch channel; 0 is None
    seen,       \* version the receiver has seen
    cert,       \* version each server presents
    good,       \* versions update_certificate accepts
    watcher,    \* "off" | "wait" | "apply" | "done"
    todo,       \* servers the current update has not reached
    applying,   \* version being applied
    acceptor,   \* per address: "off" | "accepting" | "done"
    live,       \* running connection tasks
    cancelled,
    closer      \* "idle" | "tasks" | "servers" | "join" | "returned"

qvars == <<inbound, source, wildcard, prepared, phase, bindNext, server, published, seen,
           cert, good, watcher, todo, applying, acceptor, live, cancelled, closer>>

startVars == <<inbound, source, wildcard, prepared, phase, bindNext>>
certVars == <<published, seen, good, watcher, todo, applying>>

QuicInit ==
    /\ inbound \in {"hysteria2", "shadowquic", "sunnyquic"}
    /\ source \in IF inbound = "shadowquic" THEN {"none"} ELSE {"static", "provider"}
    /\ wildcard \in BOOLEAN
    /\ prepared = TRUE /\ phase = "idle" /\ bindNext = 1
    /\ server = [a \in Addresses |-> "none"]
    /\ published \in 0..1 /\ seen \in 0..published
    /\ cert = [a \in Addresses |-> 0]
    /\ good \in {1..MaxPublish, (1..MaxPublish) \ {2}}
    /\ watcher = "off" /\ todo = {} /\ applying = 0
    /\ acceptor = [a \in Addresses |-> "off"]
    /\ live = 0 /\ cancelled = FALSE /\ closer = "idle"

Open == {a \in Addresses : server[a] = "open"}
-----------------------------------------------------------------------------
(* The ACME provider sends a certificate to its subscribers. *)
Publish ==
    /\ source = "provider" /\ published < MaxPublish
    /\ published' = published + 1
    /\ UNCHANGED <<startVars, server, seen, cert, good, watcher, todo, applying, acceptor, live, cancelled, closer>>

(* start(): prepared is taken once; a provider must have a certificate.    *)
Begin(which, ready) ==
    /\ inbound = which
    /\ phase = "idle" /\ closer = "idle" /\ prepared
    /\ prepared' = FALSE
    /\ phase' = IF ready THEN "bind" ELSE "failed"
    /\ applying' = published
    /\ UNCHANGED <<inbound, source, wildcard, bindNext, server, published, seen, good, watcher, todo,
                   cert, acceptor, live, cancelled, closer>>

CertificateReady == source = "provider" => published > 0

Hysteria2Start == Begin("hysteria2", CertificateReady)
ShadowQuicStart == Begin("shadowquic", TRUE)
SunnyQuicStart == Begin("sunnyquic", CertificateReady)

BindOk ==
    /\ server' = [server EXCEPT ![bindNext] = "open"]
    /\ cert' = [cert EXCEPT ![bindNext] = IF source = "provider" THEN applying ELSE 0]
    /\ bindNext' = bindNext + 1
    /\ UNCHANGED phase

(* AddrInUse behind a dual-stack wildcard: the first socket serves it too. *)
BindSkip ==
    /\ wildcard /\ bindNext > 1
    /\ server' = [server EXCEPT ![bindNext] = "skipped"]
    /\ bindNext' = bindNext + 1
    /\ UNCHANGED <<cert, phase>>

(* Mutant: the servers that are already bound stay open. *)
BindFailsOpen ==
    /\ phase' = "failed"
    /\ UNCHANGED <<server, cert, bindNext>>

(* Any other failure closes what is bound and fails the start. *)
BindFails ==
    /\ phase' = "failed"
    /\ server' = [a \in Addresses |-> IF server[a] = "open" THEN "closed" ELSE server[a]]
    /\ UNCHANGED <<cert, bindNext>>

(* The certificate was read once, before the first bind; a version that is *)
(* published meanwhile is still unseen by the receiver.                    *)
Bind ==
    /\ phase = "bind" /\ bindNext \in Addresses
    /\ BindOk \/ BindSkip \/ BindFails
    /\ UNCHANGED <<inbound, source, wildcard, prepared, certVars, acceptor, live, cancelled, closer>>

(* The accept tasks, the watcher if there is a provider, and Running. *)
Spawn ==
    /\ phase = "bind" /\ bindNext \notin Addresses
    /\ phase' = "running"
    /\ acceptor' = [a \in Addresses |-> IF server[a] = "open" THEN "accepting" ELSE "off"]
    /\ watcher' = IF source = "provider" THEN "wait" ELSE "off"
    /\ UNCHANGED <<inbound, source, wildcard, prepared, bindNext, server, published, seen, cert,
                   good, todo, applying, live, cancelled, closer>>

(* run_server: a session becomes a connection task ... *)
RunServer(which, a) ==
    /\ inbound = which /\ acceptor[a] = "accepting"
    /\ \/ live < MaxLive /\ live' = live + 1 /\ UNCHANGED acceptor
       \/ acceptor' = [acceptor EXCEPT ![a] = "done"] /\ UNCHANGED live
    /\ UNCHANGED <<startVars, server, certVars, cert, cancelled, closer>>

Hysteria2Accept(a) == RunServer("hysteria2", a)
ShadowQuicAccept(a) == RunServer("shadowquic", a)
SunnyQuicAccept(a) == RunServer("sunnyquic", a)

(* ... which ends by itself, or when it observes the token. *)
SessionEnds ==
    /\ live > 0
    /\ live' = live - 1
    /\ UNCHANGED <<startVars, server, certVars, cert, acceptor, cancelled, closer>>

(* The cancel arm of run_server. *)
AcceptorStops(a) ==
    /\ cancelled /\ acceptor[a] = "accepting"
    /\ acceptor' = [acceptor EXCEPT ![a] = "done"]
    /\ UNCHANGED <<startVars, server, certVars, cert, live, cancelled, closer>>

(* watch_certificate_updates: changed() and borrow_and_update(). *)
Changed(which) ==
    /\ inbound = which /\ watcher = "wait" /\ published # seen
    /\ seen' = published
    /\ applying' = published
    /\ todo' = Open
    /\ watcher' = "apply"
    /\ UNCHANGED <<startVars, server, published, good, cert, acceptor, live, cancelled, closer>>

Hysteria2Changed == Changed("hysteria2")
SunnyQuicChanged == Changed("sunnyquic")

(* Mutant: a server that refuses the certificate ends the update. *)
ApplyStops ==
    /\ watcher = "apply" /\ todo # {}
    /\ \E a \in todo :
         /\ cert' = [cert EXCEPT ![a] = IF applying \in good THEN applying ELSE @]
         /\ todo' = IF Cardinality(todo) = 2 THEN {} ELSE todo \ {a}
    /\ UNCHANGED <<startVars, server, published, seen, good, watcher, applying, acceptor, live, cancelled, closer>>

(* ... update_certificate for one server after the other; a refusal is     *)
(* logged and the server keeps what it has.                                *)
Apply ==
    /\ watcher = "apply" /\ todo # {}
    /\ \E a \in todo :
         /\ cert' = [cert EXCEPT ![a] = IF applying \in good THEN applying ELSE @]
         /\ todo' = todo \ {a}
    /\ UNCHANGED <<startVars, server, published, seen, good, watcher, applying, acceptor, live, cancelled, closer>>

Applied ==
    /\ watcher = "apply" /\ todo = {}
    /\ watcher' = "wait"
    /\ UNCHANGED <<startVars, server, published, seen, good, todo, applying, cert, acceptor, live, cancelled, closer>>

WatcherStops ==
    /\ cancelled /\ watcher = "wait"
    /\ watcher' = "done"
    /\ UNCHANGED <<startVars, server, published, seen, good, todo, applying, cert, acceptor, live, cancelled, closer>>
-----------------------------------------------------------------------------
(* close(): take Running and cancel.  The engine closes after start()      *)
(* returned; without Running there is nothing to do.                       *)
BeginClose(which) ==
    /\ inbound = which
    /\ phase \in {"running", "failed"} /\ closer = "idle"
    /\ cancelled' = (phase = "running")
    /\ closer' = IF phase = "running" THEN "tasks" ELSE "returned"
    /\ UNCHANGED <<startVars, server, certVars, cert, acceptor, live>>

Hysteria2Close == BeginClose("hysteria2")
ShadowQuicClose == BeginClose("shadowquic")
SunnyQuicClose == BeginClose("sunnyquic")

(* Mutant: the servers are closed before the tasks are awaited. *)
AwaitNothing ==
    /\ closer = "tasks"
    /\ closer' = "servers"
    /\ UNCHANGED <<startVars, server, certVars, cert, acceptor, live, cancelled>>

(* Every accept task and the watcher have returned ... *)
AwaitTasks ==
    /\ closer = "tasks"
    /\ \A a \in Addresses : acceptor[a] # "accepting"
    /\ watcher \in {"off", "done"}
    /\ closer' = "servers"
    /\ UNCHANGED <<startVars, server, certVars, cert, acceptor, live, cancelled>>

(* ... the servers are closed one by one ... *)
CloseServer ==
    /\ closer = "servers"
    /\ \/ /\ Open # {}
          /\ \E a \in Open : server' = [server EXCEPT ![a] = "closed"]
          /\ UNCHANGED closer
       \/ Open = {} /\ closer' = "join" /\ UNCHANGED server
    /\ UNCHANGED <<startVars, certVars, cert, acceptor, live, cancelled>>

(* ... and the connection tasks are joined (InboundService has the detail). *)
Join ==
    /\ closer = "join" /\ live = 0
    /\ closer' = "returned"
    /\ UNCHANGED <<startVars, server, certVars, cert, acceptor, live, cancelled>>

AcceptStep(a) == Hysteria2Accept(a) \/ ShadowQuicAccept(a) \/ SunnyQuicAccept(a)

StartStep == Hysteria2Start \/ ShadowQuicStart \/ SunnyQuicStart \/ Bind \/ Spawn
WatchStep == Hysteria2Changed \/ SunnyQuicChanged \/ Apply \/ Applied
CloseStep == AwaitTasks \/ CloseServer \/ Join

Returned == closer = "returned" /\ UNCHANGED qvars

QuicNext ==
    \/ Returned \/ Publish \/ StartStep \/ WatchStep \/ SessionEnds \/ WatcherStops
    \/ \E a \in Addresses : AcceptStep(a) \/ AcceptorStops(a)
    \/ Hysteria2Close \/ ShadowQuicClose \/ SunnyQuicClose \/ CloseStep

\* The tasks run; sessions observe a cancelled token.  Nothing makes the
\* provider publish, a session arrive, or the engine close.
QuicFairness ==
    /\ WF_qvars(WatchStep) /\ WF_qvars(CloseStep) /\ WF_qvars(WatcherStops)
    /\ WF_qvars(SessionEnds /\ cancelled)
    /\ \A a \in Addresses : WF_qvars(AcceptorStops(a))
-----------------------------------------------------------------------------
(* Tasks and servers agree: an accept task or an update in progress has an *)
(* open server under it (close() awaits the tasks first); a start that     *)
(* failed, and a close that returned, leave no server open; the latter     *)
(* leaves no session either.                                               *)
TasksAreBacked ==
    /\ \A a \in Addresses : acceptor[a] = "accepting" => server[a] = "open"
    /\ todo \subseteq Open
    /\ phase = "failed" => Open = {}
    /\ closer = "returned" => Open = {} /\ live = 0 /\ watcher \in {"off", "done"}

(* Every server that stays open ends up presenting the last certificate    *)
(* the provider published, unless update_certificate refuses it: changed() *)
(* and borrow() lose no publication, not even one between start()'s borrow *)
(* and the first changed().                                                *)
CertificateReaches ==
    \A a \in Addresses :
        (phase = "running" /\ source = "provider" /\ server[a] = "open")
            ~> (cancelled \/ published \notin good \/ cert[a] = published)
=============================================================================
