---------------------------- MODULE MCCloudflared ---------------------------
(***************************************************************************)
(* The Cloudflare tunnel in three parts that share one run: the supervisor *)
(* and its connections (CloudflaredTunnel), the UDP sessions of a QUIC     *)
(* connection (CloudflaredDatagrams), and a request served from an origin  *)
(* (CloudflaredOrigin).  A behaviour plays one part; the others stay as    *)
(* they began.                                                             *)
(***************************************************************************)
EXTENDS MCCloudflaredTunnel

CONSTANTS Ids, MaxFlows, MaxPayloads, IncomingQueue, OutboundQueue, MaxBody, BodyLimit

\* Lengths of bodies are usize.
ASSUME BodyAssumption == MaxBody \in Nat /\ BodyLimit \in Nat

VARIABLES part,
    version, loop, sessions, flows, accepted, outbound, udp, payloads, stop,
    request, reply, place, body, origin, held, rest, shut, chunk, seen

Datagrams == INSTANCE CloudflaredDatagrams WITH edge <- udp
Origin == INSTANCE CloudflaredOrigin WITH edge <- seen

datagramVars == <<version, loop, sessions, flows, accepted, outbound, udp, payloads, stop>>
originVars == <<request, reply, place, body, origin, held, rest, shut, chunk, seen>>

\* The state of a part that is not played: nothing fair is enabled in it.
IdleTunnel ==
    /\ options = CHOOSE o \in Options : TRUE
    /\ inbound = "new" /\ cancelled = FALSE /\ config = -1 /\ applied = {}
    /\ pc = [c \in Conns |-> "idle"] /\ protocol = [c \in Conns |-> "http2"]
    /\ retries = [c \in Conns |-> 0] /\ edge = [c \in Conns |-> 0]
    /\ backoff = [c \in Conns |-> 0] /\ control = [c \in Conns |-> "none"]
    /\ registered = [c \in Conns |-> FALSE] /\ asked = [c \in Conns |-> 0]
    /\ brief = [c \in Conns |-> 0] /\ refused = [c \in Conns |-> FALSE]
    /\ unregister = [c \in Conns |-> FALSE]

IdleDatagrams == Datagrams!DatagramInit("idle") /\ version = "v2"

IdleOrigin ==
    /\ Origin!OriginInit("idle")
    /\ request = CHOOSE r \in Origin!Requests : r.kind = "tcp" /\ r.declared = -1 /\ r.bodyless /\ r.bytes = 0
    /\ reply = CHOOSE a \in Origin!Answers : a.size = 0

MCInit ==
    \/ part = "tunnel" /\ Init /\ IdleDatagrams /\ IdleOrigin
    \/ part = "datagrams" /\ IdleTunnel /\ Datagrams!DatagramInit("select") /\ IdleOrigin
    \/ part = "origin" /\ IdleTunnel /\ IdleDatagrams /\ Origin!OriginInit("new")

MCNext ==
    \/ part = "tunnel" /\ Next /\ UNCHANGED <<part, datagramVars, originVars>>
    \/ part = "datagrams" /\ Datagrams!DatagramNext /\ UNCHANGED <<part, vars, originVars>>
    \/ part = "origin" /\ Origin!OriginNext /\ UNCHANGED <<part, vars, datagramVars>>

MCSpec ==
    /\ MCInit
    /\ [][MCNext]_<<part, vars, datagramVars, originVars>>
    /\ Fairness
    /\ Datagrams!DatagramFairness
    /\ Origin!OriginFairness
-----------------------------------------------------------------------------
(* What the edge sends and the origin answers arrives whole: a UDP flow's  *)
(* payloads through the bounded channels (CloudflaredDatagrams), request   *)
(* and response bodies across the piece that came with the head and the    *)
(* chunks (CloudflaredOrigin).                                             *)
FlowsIntact == Datagrams!FlowsIntact /\ Origin!BodiesIntact

(* A request of the edge gets one answer: see CloudflaredOrigin.           *)
OneAnswer == Origin!OneAnswer

Waiting == (\E c \in Conns : Lingers(c)) \/ Datagrams!DatagramWaits \/ Origin!OriginWaits

(* Whoever waits gets an answer.  After close() a connection's thread      *)
(* returns unless it waits for a handshake or a registration; the datagram *)
(* loop gets out of a full channel, expired flows end and the loop obeys   *)
(* the shutdown; a request ends although the origin keeps its connection   *)
(* open.                                                                   *)
WaitsEnd == Waiting ~> ~Waiting

(* README.md: "QUIC Datagram v2 and v3 UDP sessions include registration   *)
(* responses": every registration the edge makes is answered.              *)
RegistrationsAreAnswered == Datagrams!RegistrationsAreAnswered
=============================================================================
