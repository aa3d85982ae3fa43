-------------------------- MODULE CloudflaredTunnel --------------------------
(* The Cloudflare tunnel inbound: CloudflaredInbound::start and close, one *)
(* supervise_connection thread per HA connection with its retries, its     *)
(* edge rotation and its protocol fallback, one connection attempt over    *)
(* QUIC or HTTP/2 from handshake to graceful shutdown, and the remote      *)
(* configuration all connections share.                                    *)
(*                                                                         *)
(* The edge is outside: it answers or breaks a connection at any moment.   *)
(* Time is abstracted to the one bit the supervisor reads of it (whether   *)
(* an attempt lived for 30 seconds) and to timers that fire eventually.    *)
EXTENDS Integers, FiniteSets

CONSTANTS
    Conns,       \* the indices 0 .. ha_connections - 1
    EdgeCount,   \* length of the discovered edge list
    U8Max,       \* where `retries` saturates (255 in the code)
    Versions,    \* remote configuration versions the edge may send
    Options,     \* the configurations to consider
    RetryAfter   \* a non-zero retry-after delay the edge may ask for

ASSUME ConnsAssumption == Conns \subseteq Nat /\ IsFiniteSet(Conns)
ASSUME EdgeCountAssumption == EdgeCount \in Nat \ {0}
ASSUME U8MaxAssumption == U8Max \in Nat /\ U8Max >= 3
ASSUME VersionsAssumption == Versions \subseteq Nat
ASSUME OptionsAssumption ==
    Options \subseteq [protocol : {"http2", "auto", "quic"},
                       post_quantum : BOOLEAN,
                       grace : BOOLEAN]   \* whether grace_period is not zero
ASSUME RetryAfterAssumption == RetryAfter \in Nat \ {0}

VARIABLES
    options,     \* the inbound's configuration
    inbound,     \* "new" | "running" | "closing" | "closed"
    cancelled,   \* Running.cancel
    pc,          \* where each supervise_connection stands
    protocol,    \* its `protocol`
    retries,     \* its `retries`
    edge,        \* its `edge_index`
    backoff,     \* the delay it sleeps for, in seconds
    control,     \* HTTP/2 only: the task that runs the control stream
    registered,  \* the current attempt holds a registration
    config,      \* RemoteConfigState.version
    \* history
    asked,       \* the delay the edge asked for during this attempt, 0 if none
    brief,       \* attempts in a row that lived less than 30 seconds, up to 2
    refused,     \* the edge rejected this connection for good, over QUIC
    unregister,  \* the unregister request was issued
    applied      \* versions acknowledged to the edge without an error

supervisor == <<protocol, retries, edge, backoff>>
attempt == <<control, registered, asked, unregister>>
shared == <<options, config, applied>>
vars == <<options, inbound, cancelled, pc, protocol, retries, edge, backoff,
          control, registered, config, asked, brief, refused, unregister, applied>>

Places == {"idle", "check", "connect", "register", "serve", "unregister",
           "grace", "backoff", "returned"}

(* The checks of start() that can fail for these options.                  *)
OptionsOk == ~(options.post_quantum /\ options.protocol = "http2")

Init ==
    /\ options \in Options
    /\ inbound = "new"
    /\ cancelled = FALSE
    /\ pc = [c \in Conns |-> "idle"]
    /\ protocol = [c \in Conns |-> IF options.protocol = "http2" THEN "http2" ELSE "quic"]
    /\ retries = [c \in Conns |-> 0]
    /\ edge = [c \in Conns |-> c % EdgeCount]
    /\ backoff = [c \in Conns |-> 0]
    /\ control = [c \in Conns |-> "none"]
    /\ registered = [c \in Conns |-> FALSE]
    /\ config = -1
    /\ asked = [c \in Conns |-> 0]
    /\ brief = [c \in Conns |-> 0]
    /\ refused = [c \in Conns |-> FALSE]
    /\ unregister = [c \in Conns |-> FALSE]
    /\ applied = {}
-----------------------------------------------------------------------------
(* CloudflaredInbound::start spawns the threads; bad options, a bad token  *)
(* or a failed discovery leave nothing running.                            *)
Start ==
    /\ inbound = "new"
    /\ OptionsOk
    /\ inbound' = "running"
    /\ pc' = [c \in Conns |-> "check"]
    /\ UNCHANGED <<cancelled, supervisor, attempt, shared, brief, refused>>

StartFails ==
    /\ inbound = "new"
    /\ inbound' = "closed"
    /\ UNCHANGED <<cancelled, pc, supervisor, attempt, shared, brief, refused>>

(* CloudflaredInbound::close cancels and then joins every thread.          *)
Close ==
    /\ inbound = "running"
    /\ inbound' = "closing"
    /\ cancelled' = TRUE
    /\ UNCHANGED <<pc, supervisor, attempt, shared, brief, refused>>

CloseReturns ==
    /\ inbound = "closing"
    /\ \A c \in Conns : pc[c] = "returned"
    /\ inbound' = "closed"
    /\ UNCHANGED <<cancelled, pc, supervisor, attempt, shared, brief, refused>>
-----------------------------------------------------------------------------
(* The head of the supervisor's loop.                                      *)
Goto(c, from, to) ==
    /\ pc[c] = from
    /\ pc' = [pc EXCEPT ![c] = to]

Leave(c) ==
    /\ cancelled
    /\ \/ Goto(c, "check", "returned")
       \/ Goto(c, "backoff", "returned")
    /\ UNCHANGED <<inbound, cancelled, supervisor, attempt, shared, brief, refused>>

Attempt(c) ==
    /\ ~cancelled
    /\ Goto(c, "check", "connect")
    /\ asked' = [asked EXCEPT ![c] = 0]
    /\ UNCHANGED <<inbound, cancelled, supervisor, control, registered, unregister,
                   shared, brief, refused>>

BackoffOver(c) ==
    /\ Goto(c, "backoff", "check")
    /\ UNCHANGED <<inbound, cancelled, supervisor, attempt, shared, brief, refused>>

(* What the supervisor does with an attempt that ended: the cancelled      *)
(* check, the permanent error, and otherwise a retry on the next edge.     *)
(* `delay` is the retry-after of the error, `long` whether it lived 30 s.  *)
CountForEver(c, long) ==   \* bug: a long service does not reset the count
    IF retries[c] = U8Max THEN U8Max ELSE retries[c] + 1

Count(c, long) ==
    LET before == IF long THEN 0 ELSE retries[c]
    IN  IF before = U8Max THEN U8Max ELSE before + 1

FallsBack(c, count) ==
    /\ options.protocol = "auto"
    /\ ~options.post_quantum
    /\ protocol[c] = "quic"
    /\ count >= 3

Delay(delay, count) ==
    IF delay # 0 THEN delay ELSE 2 ^ (IF count < 7 THEN count ELSE 7)

Retry(c, delay, long) ==
    LET falls == FallsBack(c, Count(c, long))
        count == IF falls THEN 0 ELSE Count(c, long)
    IN  /\ pc' = [pc EXCEPT ![c] = "backoff"]
        /\ retries' = [retries EXCEPT ![c] = count]
        /\ edge' = [edge EXCEPT ![c] = (@ + 1) % EdgeCount]
        /\ protocol' = [protocol EXCEPT ![c] = IF falls THEN "http2" ELSE @]
        /\ backoff' = [backoff EXCEPT ![c] = Delay(delay, count)]
        /\ brief' = [brief EXCEPT ![c] = IF long THEN 0 ELSE IF @ < 2 THEN @ + 1 ELSE 2]

Ends(c, delay, long) ==
    \/ /\ cancelled
       /\ pc' = [pc EXCEPT ![c] = "returned"]
       /\ UNCHANGED <<supervisor, brief>>
    \/ /\ ~cancelled
       /\ Retry(c, delay, long)
-----------------------------------------------------------------------------
(* One attempt.  Until the QUIC connection is registered, or the HTTP/2    *)
(* connection is up, nobody polls the shutdown channel.                    *)
Handshake(c) ==
    /\ Goto(c, "connect", IF protocol[c] = "quic" THEN "register" ELSE "serve")
    /\ UNCHANGED <<inbound, cancelled, supervisor, attempt, shared, brief, refused>>

HandshakeFails(c) ==
    /\ pc[c] = "connect"
    /\ \E long \in BOOLEAN : Ends(c, 0, long)
    /\ UNCHANGED <<inbound, cancelled, attempt, shared, refused>>

(* QuicConnection: register_connection and read_registration_result.       *)
QuicRegisters(c) ==
    /\ Goto(c, "register", "serve")
    /\ registered' = [registered EXCEPT ![c] = TRUE]
    /\ UNCHANGED <<inbound, cancelled, supervisor, control, asked, unregister,
                   shared, brief, refused>>

(* A retryable refusal, with or without a delay; a broken RPC and a tunnel *)
(* that is not remotely managed count as one without.                      *)
QuicRefused(c) ==
    /\ pc[c] = "register"
    /\ \E delay \in {0, RetryAfter}, long \in BOOLEAN :
        /\ Ends(c, delay, long)
        /\ asked' = [asked EXCEPT ![c] = delay]
    /\ UNCHANGED <<inbound, cancelled, control, registered, unregister, shared, refused>>

(* PermanentRegistrationError.                                             *)
QuicRejected(c) ==
    /\ Goto(c, "register", "returned")
    /\ refused' = [refused EXCEPT ![c] = TRUE]
    /\ UNCHANGED <<inbound, cancelled, supervisor, attempt, shared, brief>>

(* Http2Connection: the edge opens the control stream, whose task          *)
(* registers; its errors are logged and nothing else.                      *)
ControlOpens(c) ==
    /\ pc[c] = "serve" /\ protocol[c] = "http2"
    /\ control[c] = "none"
    /\ control' = [control EXCEPT ![c] = "calling"]
    /\ UNCHANGED <<inbound, cancelled, pc, supervisor, registered, asked, unregister,
                   shared, brief, refused>>

ControlRegisters(c) ==
    /\ pc[c] = "serve"
    /\ control[c] = "calling"
    /\ control' = [control EXCEPT ![c] = "held"]
    /\ registered' = [registered EXCEPT ![c] = TRUE]
    /\ UNCHANGED <<inbound, cancelled, pc, supervisor, asked, unregister,
                   shared, brief, refused>>

ControlRefused(c) ==
    /\ pc[c] = "serve"
    /\ control[c] = "calling"
    /\ control' = [control EXCEPT ![c] = "ended"]
    /\ \E delay \in {0, RetryAfter} : asked' = [asked EXCEPT ![c] = delay]
    /\ UNCHANGED <<inbound, cancelled, pc, supervisor, registered, unregister,
                   shared, brief, refused>>

(* The RPC system of the control stream stops first.                       *)
ControlEnds(c) ==
    /\ pc[c] = "serve"
    /\ control[c] = "held"
    /\ control' = [control EXCEPT ![c] = "ended"]
    /\ UNCHANGED <<inbound, cancelled, pc, supervisor, registered, asked, unregister,
                   shared, brief, refused>>

(* Returning drops the LocalSet with the control task in it.               *)
Drop(c) ==
    /\ control' = [control EXCEPT ![c] = "none"]
    /\ registered' = [registered EXCEPT ![c] = FALSE]

(* Bug: the Ok result of a connection that had registered ends the thread. *)
ConnectionEndsForGood(c) ==
    /\ pc[c] = "serve"
    /\ \/ registered[c] /\ pc' = [pc EXCEPT ![c] = "returned"] /\ UNCHANGED <<supervisor, brief>>
       \/ ~registered[c] /\ \E long \in BOOLEAN : Ends(c, 0, long)
    /\ Drop(c)
    /\ UNCHANGED <<inbound, cancelled, asked, unregister, shared, refused>>

(* The edge closes or breaks the connection while it is served.            *)
ConnectionEnds(c) ==
    /\ pc[c] = "serve"
    /\ \E long \in BOOLEAN : Ends(c, 0, long)
    /\ Drop(c)
    /\ UNCHANGED <<inbound, cancelled, asked, unregister, shared, refused>>

(* The shutdown arm of the two connection loops.  QUIC unregisters first,  *)
(* for at most five seconds; HTTP/2 leaves that to the control task, which *)
(* only runs while the connection sleeps through its grace period.         *)
AfterUnregister == IF options.grace THEN "grace" ELSE "returned"

(* Bug: QUIC closes without unregistering.                                 *)
ShutdownAtOnce(c) ==
    /\ cancelled
    /\ Goto(c, "serve", AfterUnregister)
    /\ UNCHANGED <<inbound, cancelled, supervisor, attempt, shared, brief, refused>>

(* Bug: only a registered connection listens for the shutdown.             *)
ShutdownRegistered(c) ==
    /\ cancelled /\ registered[c]
    /\ Goto(c, "serve", "unregister")
    /\ unregister' = [unregister EXCEPT ![c] = TRUE]
    /\ UNCHANGED <<inbound, cancelled, supervisor, control, registered, asked,
                   shared, brief, refused>>

Shutdown(c) ==
    /\ cancelled
    /\ IF protocol[c] = "quic"
       THEN /\ Goto(c, "serve", "unregister")
            /\ unregister' = [unregister EXCEPT ![c] = TRUE]
       ELSE /\ Goto(c, "serve", AfterUnregister)
            /\ UNCHANGED unregister
    /\ UNCHANGED <<inbound, cancelled, supervisor, control, registered, asked,
                   shared, brief, refused>>

ControlUnregisters(c) ==
    /\ pc[c] = "grace"
    /\ control[c] = "held"
    /\ control' = [control EXCEPT ![c] = "ended"]
    /\ unregister' = [unregister EXCEPT ![c] = TRUE]
    /\ UNCHANGED <<inbound, cancelled, pc, supervisor, registered, asked,
                   shared, brief, refused>>

UnregisterOver(c) ==
    /\ Goto(c, "unregister", AfterUnregister)
    /\ UNCHANGED <<inbound, cancelled, supervisor, attempt, shared, brief, refused>>

GraceOver(c) ==
    /\ Goto(c, "grace", "returned")
    /\ UNCHANGED <<inbound, cancelled, supervisor, attempt, shared, brief, refused>>
-----------------------------------------------------------------------------
(* A configuration that parses, over an RPC stream or an HTTP/2 request of *)
(* any connection whose tasks still run; one that does not parse is        *)
(* answered with an error and changes nothing.                             *)
UpdateLast(version) ==   \* bug: the last configuration to arrive wins
    /\ config' = version
    /\ applied' = applied \union {version}

Update(version) ==
    /\ config' = IF version > config THEN version ELSE config
    /\ applied' = applied \union {version}

Configure(c) ==
    /\ \/ pc[c] = "serve"
       \/ pc[c] \in {"unregister", "grace"} /\ protocol[c] = "quic"
    /\ \E version \in Versions : Update(version)
    /\ UNCHANGED <<options, inbound, cancelled, pc, supervisor, attempt, brief, refused>>
-----------------------------------------------------------------------------
(* Steps the program takes by itself, and the answers of the edge.         *)
ThreadStep(c) ==
    \/ Leave(c) \/ Attempt(c) \/ BackoffOver(c)
    \/ Shutdown(c) \/ UnregisterOver(c) \/ GraceOver(c)

EdgeStep(c) ==
    \/ Handshake(c) \/ HandshakeFails(c)
    \/ QuicRegisters(c) \/ QuicRefused(c) \/ QuicRejected(c)
    \/ ControlOpens(c) \/ ControlRegisters(c) \/ ControlRefused(c) \/ ControlEnds(c)
    \/ ControlUnregisters(c)
    \/ ConnectionEnds(c)
    \/ Configure(c)

Next ==
    \/ Start \/ StartFails \/ Close \/ CloseReturns
    \/ \E c \in Conns : ThreadStep(c) \/ EdgeStep(c)

Spec == Init /\ [][Next]_vars

(* The runtime of each thread polls its timers and the shutdown channel,   *)
(* and quinn gives up a handshake after its idle timeout; nothing bounds   *)
(* a TLS handshake or a registration call.                                 *)
Fairness ==
    /\ WF_vars(CloseReturns)
    /\ \A c \in Conns :
        /\ WF_vars(ThreadStep(c))
        /\ WF_vars(protocol[c] = "quic" /\ (Handshake(c) \/ HandshakeFails(c)))

FairSpec == Spec /\ Fairness
-----------------------------------------------------------------------------
(* The variables keep their types; `retries` stays within its u8.          *)
TypeOK ==
    /\ options \in Options
    /\ inbound \in {"new", "running", "closing", "closed"}
    /\ cancelled \in BOOLEAN
    /\ pc \in [Conns -> Places]
    /\ protocol \in [Conns -> {"quic", "http2"}]
    /\ retries \in [Conns -> 0 .. U8Max]
    /\ edge \in [Conns -> 0 .. EdgeCount - 1]
    /\ backoff \in [Conns -> Nat]
    /\ control \in [Conns -> {"none", "calling", "held", "ended"}]
    /\ registered \in [Conns -> BOOLEAN]
    /\ config \in Int
    /\ asked \in [Conns -> Nat]
    /\ brief \in [Conns -> 0 .. 2]
    /\ refused \in [Conns -> BOOLEAN]
    /\ unregister \in [Conns -> BOOLEAN]
    /\ applied \subseteq Versions
-----------------------------------------------------------------------------
(* supervise_connection: a connection changes its protocol only from QUIC  *)
(* to HTTP/2, only in "auto" without post_quantum, and only when its last  *)
(* two attempts at least were short: serving for 30 seconds starts the     *)
(* count of failures afresh.                                               *)
FallbackIsEarned ==
    [][\A c \in Conns :
        protocol'[c] # protocol[c] =>
            /\ protocol[c] = "quic"
            /\ options.protocol = "auto" /\ ~options.post_quantum
            /\ brief'[c] = 2]_vars

(* A connection thread ends because close() was called or because the edge *)
(* rejected it over QUIC, never because of the errors it retries.          *)
GivesUpForCause ==
    \A c \in Conns : pc[c] = "returned" => cancelled \/ refused[c]

(* supervise_connection leaves its protocol, or its loop, only for the     *)
(* causes it has: both of the above.                                       *)
StaysForCause == []GivesUpForCause /\ FallbackIsEarned

(* QuicConnection: a registered connection that is shut down has asked the *)
(* edge to forget it before it waits out the grace period and closes.      *)
QuicUnregisters ==
    \A c \in Conns :
        protocol[c] = "quic" /\ registered[c] /\ pc[c] \in {"grace", "returned"} =>
            unregister[c]

(* configuration_store: whichever connections deliver them and in whatever *)
(* order, the newest configuration acknowledged to the edge is active.     *)
NewestConfigStays ==
    /\ config \in applied \union {-1}
    /\ \A version \in applied : version <= config

(* A thread that has to return after close(): it waits neither for a TLS   *)
(* handshake nor for an answer to its registration, which nothing bounds.  *)
Lingers(c) ==
    /\ cancelled
    /\ pc[c] \notin {"returned", "register"}
    /\ ~(pc[c] = "connect" /\ protocol[c] = "http2")
-----------------------------------------------------------------------------
(* README.md: "Cloudflared supports [...] HTTP/2 and QUIC transports, HA   *)
(* connection rotation, retry-after backoff, graceful unregister": when    *)
(* the edge asked for a delay, the next attempt waits for it.              *)
RetryAfterIsHonoured ==
    \A c \in Conns : pc[c] = "backoff" /\ asked[c] # 0 => backoff[c] = asked[c]
=============================================================================
