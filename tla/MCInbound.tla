------------------------------ MODULE MCInbound -----------------------------
(***************************************************************************)
(* The inbound side, checked in five parts that share one run: the service *)
(* of listeners and connection tasks (InboundService), one connection of   *)
(* any protocol (InboundSessions), the AnyTLS multiplexer (AnyTlsServer),  *)
(* the life of a QUIC inbound (QuicInbound), and the WebSocket layer       *)
(* (WebSocket).  A behaviour plays one part; the variables of the others   *)
(* stay as they began.                                                     *)
(***************************************************************************)
EXTENDS InboundService, Sequences, TLC

CONSTANTS MaxData, MaxPackets, Own, Foreign, MaxTimeDifference, MaxSessions,
          Addresses, MaxPublish, MaxLive, Arrivals, EarlyData, MaskLen, MaxWrites,
          Ids, MaxItems, QueueCap, PipeCap

\* A peer that is not pinned is no address (Option::None); the limit on the
\* clock is a number of seconds (u64).
ASSUME InboundAssumption == "none" \notin Own /\ MaxTimeDifference \in Nat

VARIABLES part,
    proto, reality, pc, genuine, network, dial, toClient, held, next, up, eofs,
    peer, sent, back, idle, dropped, sessions,
    inbound, source, wildcard, prepared, phase, bindNext, server, published, seen, cert,
    good, watcher, todo, applying, acceptor, live, stopped, stopping,
    peerFrames, peerEarly, truncated, incoming, input, early, frame, fragmented, readClosed,
    controlPending, closeQueued, reading, result, delivered, buffer, wire, pending, accepted, frames,
    loop, settings, sending, pushing, inboundCancel, queue, writer, told, clientNext, inMap, cancel,
    streamWriter, pump, handler, chan, dialled, reached, answers

Session == INSTANCE InboundSessions WITH cancelled <- dropped
Quic == INSTANCE QuicInbound WITH cancelled <- stopped, closer <- stopping
Ws == INSTANCE WebSocket
Mux == INSTANCE AnyTlsServer

\* What a peer sends is frames of bytes; the masking key is not empty
\* ([u8; 4]).
ASSUME WebSocketAssumption ==
    /\ Arrivals \subseteq Seq(Ws!Frames) /\ EarlyData \subseteq Seq(Nat)
    /\ MaskLen \in Nat \ {0}

svars == <<proto, reality, pc, genuine, network, dial, toClient, held, next, up, eofs,
           peer, sent, back, idle, dropped, sessions>>
qvars == <<inbound, source, wildcard, prepared, phase, bindNext, server, published, seen, cert,
           good, watcher, todo, applying, acceptor, live, stopped, stopping>>
wvars == <<peerFrames, peerEarly, truncated, incoming, input, early, frame, fragmented, readClosed,
           controlPending, closeQueued, reading, result, delivered, buffer, wire, pending, accepted, frames>>
mvars == <<loop, settings, sending, pushing, inboundCancel, queue, writer, told, clientNext, inMap, cancel,
           streamWriter, pump, handler, chan, dialled, reached, answers>>

Frame(op, fin, payload) == [op |-> op, fin |-> fin, masked |-> TRUE, payload |-> payload]

MCArrivals ==
    {<<Frame("binary", FALSE, <<11, 12>>), Frame("ping", TRUE, <<101>>),
       Frame("continuation", TRUE, <<13>>), Frame("close", TRUE, << >>)>>,
     <<Frame("binary", TRUE, <<11, 12, 13>>), Frame("binary", TRUE, << >>)>>,
     <<Frame("continuation", TRUE, <<11>>)>>,
     <<Frame("binary", FALSE, <<11>>), Frame("binary", TRUE, <<12>>)>>,
     <<[Frame("binary", TRUE, <<11>>) EXCEPT !.masked = FALSE]>>,
     <<Frame("ping", FALSE, <<101>>)>>, <<Frame("text", TRUE, <<11>>)>>}

MCEarlyData == {<< >>, <<21, 22>>}

\* The first initial state of the parts a behaviour does not play.
IdleSession ==
    /\ proto = "socks" /\ reality = FALSE /\ pc = "ended" /\ sessions = 0
    /\ Session!SessionInit

IdleQuic ==
    /\ Quic!QuicInit
    /\ inbound = "shadowquic" /\ wildcard = FALSE /\ published = 0 /\ good = 1..MaxPublish

IdleWs == Ws!WsInit /\ peerFrames = <<Frame("text", TRUE, <<11>>)>> /\ truncated = 0 /\ early = << >>

IdleMux == Mux!ServerInit

MCInit ==
    /\ Init
    /\ IdleMux
    /\ \/ part \in {"service", "mux"} /\ IdleSession /\ IdleQuic /\ IdleWs
       \/ part = "session" /\ Session!SessionsInit /\ IdleQuic /\ IdleWs
       \/ part = "quic" /\ IdleSession /\ Quic!QuicInit /\ IdleWs
       \/ part = "websocket" /\ IdleSession /\ IdleQuic /\ Ws!WsInit

MCNext ==
    \/ part = "service" /\ Next /\ UNCHANGED <<part, svars, qvars, wvars, mvars>>
    \/ part = "session" /\ Session!SessionsNext /\ UNCHANGED <<part, vars, qvars, wvars, mvars>>
    \/ part = "quic" /\ Quic!QuicNext /\ UNCHANGED <<part, vars, svars, wvars, mvars>>
    \/ part = "websocket" /\ Ws!WsNext /\ UNCHANGED <<part, vars, svars, qvars, mvars>>
    \/ part = "mux" /\ Mux!ServerNext /\ UNCHANGED <<part, vars, svars, qvars, wvars>>

\* No fair action of a part is enabled in its idle state.
MCSpec ==
    /\ MCInit
    /\ [][MCNext]_<<part, vars, svars, qvars, wvars, mvars>>
    /\ Fairness
    /\ Session!SessionsFairness
    /\ Quic!QuicFairness
    /\ Mux!ServerFairness
-----------------------------------------------------------------------------
(* Replies tell what the dial did (see InboundSessions). *)
HonestReply == Session!HonestReply

(* Only a genuine client reaches an outbound (see InboundSessions). *)
OnlyGenuine == Session!OnlyGenuine

(* No byte of a client is lost, repeated or reordered on its way through a *)
(* handler into the relay (InboundSessions), through the WebSocket layer   *)
(* in either direction (WebSocket), or through the AnyTLS multiplexer,     *)
(* whose SYNACKs tell what the dial did (AnyTlsServer).                    *)
BytesIntact ==
    /\ Session!NothingSwallowed
    /\ Ws!ReadIntact /\ Ws!WriteIntact
    /\ Mux!StreamsIntact

(* A UDP association belongs to one client (see InboundSessions). *)
AssociationIsPrivate == Session!AssociationIsPrivate

(* Tasks of a QUIC inbound have open servers under them (see QuicInbound). *)
TasksAreBacked == Quic!TasksAreBacked

(* QUIC servers get the last certificate (see QuicInbound). *)
CertificateReaches == Quic!CertificateReaches

\* Something that must come to an end has not done so yet.
Waiting ==
    \/ closer \notin {"idle", "returned"}
    \/ Session!SessionLingers
    \/ stopping \notin {"idle", "returned"}
    \/ Mux!Orphans

(* close() of an inbound returns, whatever its connections do; every       *)
(* connection of an inbound that closes ends, and so do a SOCKS            *)
(* association whose control connection has ended and an idle Hysteria2    *)
(* UDP session; close() of a QUIC inbound returns; and AnyTLS leaves no    *)
(* task of an ended connection behind, whatever full queue it waits at.    *)
WaitsEnd == Waiting ~> ~Waiting
=============================================================================
