---------------------------- MODULE RoutedSession ---------------------------
(***************************************************************************)
(* What happens to one accepted connection once a handler has a session:   *)
(* Router::connect and Router::relay for a stream, Router::connect_packet  *)
(* and Router::relay_packet for datagrams.  The handlers of the protocols  *)
(* (SocksSession, VlessSession, QuicSession) extend this module; they set  *)
(* pc to "connect" or "connectPacket" and act again at "reply".            *)
(*                                                                         *)
(* Bytes are items numbered in the order the client writes them.  A        *)
(* handler may have read items beyond its own request (held); the relay    *)
(* takes those first.                                                      *)
(***************************************************************************)
EXTENDS Naturals, Sequences

CONSTANTS MaxData,    \* items a client writes, and items a destination answers
          MaxPackets  \* datagrams per direction

VARIABLES
    proto,     \* which inbound accepted the connection
    reality,   \* the inbound's TLS is REALITY
    pc,        \* where the connection task is
    genuine,   \* what the client has shown so far: its REALITY hello, its credentials
    network,   \* session.network
    dial,      \* outcome of Router::connect or connect_packet: "none" | "ok" | "failed"
    toClient,  \* what was written to the client: replies and "data"
    held,      \* items read together with the request and not yet relayed
    next,      \* the next item the client writes
    up,        \* items delivered to the destination
    eofs,      \* directions copy_bidirectional has finished; with a SOCKS association
               \* "up" is the end of its control connection
    peer,      \* SOCKS: the pinned UDP address; "none" before the first datagram
    sent,      \* sources of the datagrams passed to the outbound
    back,      \* addresses answers were sent to
    idle,      \* no datagram since the last one, long enough for wait_inactive
    cancelled  \* the inbound's CancellationToken

stream == <<held, next, up, eofs>>
packets == <<peer, sent, back, idle>>
vars == <<proto, reality, pc, genuine, network, dial, toClient, stream, packets, cancelled>>

SessionInit ==
    /\ genuine = {}
    /\ network = "tcp"
    /\ dial = "none"
    /\ toClient = << >>
    /\ held = << >> /\ next = 1 /\ up = << >> /\ eofs = {}
    /\ peer = "none" /\ sent = << >> /\ back = << >> /\ idle = FALSE
    /\ cancelled = FALSE

End == pc' = "ended"

(* An await of a handler that fails: end of stream, a reset, a malformed   *)
(* field.  The error ends the connection task.                             *)
Fail(at) ==
    /\ pc = at
    /\ End
    /\ UNCHANGED <<proto, reality, genuine, network, dial, toClient, stream, packets, cancelled>>

\* Nothing but pc, what the client showed and what it was sent changes.
Handshake == UNCHANGED <<proto, reality, network, dial, stream, packets, cancelled>>
-----------------------------------------------------------------------------
(* BlockOutbound: every connection fails. *)
BlockConnect == {"failed"}

(* DirectOutbound: resolve, connect to the addresses in order. *)
DirectConnect == {"ok", "failed"}

(* What Router::connect may answer: select() rejects, the outbound is      *)
(* missing, or it is there and dials.                                      *)
Answers(outbound) ==
    CASE outbound \in {"rejected", "missing"} -> {"failed"}
      [] outbound = "block" -> BlockConnect
      [] outbound = "direct" -> DirectConnect

(* Router::connect *)
Connect ==
    /\ pc = "connect"
    /\ \E outbound \in {"rejected", "missing", "block", "direct"} :
          dial' \in Answers(outbound)
    /\ pc' = "reply"
    /\ UNCHANGED <<proto, reality, genuine, network, toClient, stream, packets, cancelled>>

(* Router::connect_packet, followed by relay_packet when it succeeds. *)
ConnectPacket ==
    /\ pc = "connectPacket"
    /\ \E outbound \in {"rejected", "missing", "block", "direct"} :
          dial' \in Answers(outbound)
    /\ pc' = IF dial' = "ok" THEN "packets" ELSE "ended"
    /\ UNCHANGED <<proto, reality, genuine, network, toClient, stream, packets, cancelled>>

(* Router::route relays as soon as it is connected; there is no reply. *)
RouteReply ==
    /\ pc' = IF dial = "ok" THEN "relay" ELSE "ended"
    /\ UNCHANGED <<proto, reality, genuine, network, dial, toClient, stream, packets, cancelled>>

(* Mutant: what was read with the request is forgotten. *)
RelayUpFresh ==
    /\ pc = "relay" /\ "up" \notin eofs
    /\ next <= MaxData
    /\ up' = Append(up, next)
    /\ next' = next + 1
    /\ UNCHANGED <<proto, reality, pc, genuine, network, dial, toClient, held, eofs, packets, cancelled>>

(* Router::relay, client to destination: first what a handler already has. *)
RelayUp ==
    /\ pc = "relay" /\ "up" \notin eofs
    /\ \/ /\ held # << >>
          /\ up' = Append(up, Head(held))
          /\ held' = Tail(held)
          /\ UNCHANGED next
       \/ /\ held = << >> /\ next <= MaxData
          /\ up' = Append(up, next)
          /\ next' = next + 1
          /\ UNCHANGED held
    /\ UNCHANGED <<proto, reality, pc, genuine, network, dial, toClient, eofs, packets, cancelled>>

Answered == Len(SelectSeq(toClient, LAMBDA item : item = "data"))

(* Router::relay, destination to client. *)
RelayDown ==
    /\ pc = "relay" /\ "down" \notin eofs
    /\ Answered < MaxData
    /\ toClient' = Append(toClient, "data")
    /\ UNCHANGED <<proto, reality, pc, genuine, network, dial, stream, packets, cancelled>>

(* copy_bidirectional: one side ends, the other direction goes on; when    *)
(* both have ended the relay returns.                                      *)
RelayEof(direction) ==
    /\ pc = "relay" /\ direction \notin eofs
    /\ direction = "up" => held = << >>
    /\ eofs' = eofs \cup {direction}
    /\ pc' = IF eofs' = {"up", "down"} THEN "ended" ELSE pc
    /\ UNCHANGED <<proto, reality, genuine, network, dial, toClient, held, next, up, packets, cancelled>>

(* relay_packet, upload: the datagram reached the outbound; `from` is its  *)
(* source, or the association's own peer where the transport authenticates *)
(* it.                                                                     *)
PacketUp(from) ==
    /\ pc = "packets"
    /\ Len(sent) < MaxPackets
    /\ sent' = Append(sent, from)
    /\ idle' = FALSE
    /\ UNCHANGED <<proto, reality, pc, genuine, network, dial, toClient, stream, back, cancelled>>

(* relay_packet, download. *)
PacketDown(to) ==
    /\ pc = "packets"
    /\ Len(back) < MaxPackets
    /\ back' = Append(back, to)
    /\ idle' = FALSE
    /\ UNCHANGED <<proto, reality, pc, genuine, network, dial, toClient, stream, peer, sent, cancelled>>

(* Close of the inbound, and the select! arm of the connection task that   *)
(* observes it at whatever await the handler is.                           *)
CloseInbound ==
    /\ ~cancelled
    /\ cancelled' = TRUE
    /\ UNCHANGED <<proto, reality, pc, genuine, network, dial, toClient, stream, packets>>

Cancel ==
    /\ cancelled /\ pc # "ended"
    /\ End
    /\ UNCHANGED <<proto, reality, genuine, network, dial, toClient, stream, packets, cancelled>>

Route ==
    \/ Connect \/ ConnectPacket
    \/ RelayUp \/ RelayDown \/ Fail("relay") \/ Fail("packets")
    \/ \E direction \in {"up", "down"} : RelayEof(direction)
=============================================================================
