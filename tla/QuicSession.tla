---------------------------- MODULE QuicSession -----------------------------
(***************************************************************************)
(* Sessions the protocol libraries hand over already authenticated: the    *)
(* Hysteria2, ShadowQUIC and SunnyQUIC servers, and Snell's, which may     *)
(* hand over several sessions of one connection, one after the other.      *)
(***************************************************************************)
EXTENDS RoutedSession

CONSTANT MaxSessions   \* Snell sessions on one connection

VARIABLE sessions      \* sessions of the Snell connection so far

(* Address::new(accepted.destination...) on what the library decoded. *)
Destinations == {"valid", "invalid"}

Accepted(protocol, kind) ==
    /\ proto = protocol /\ pc = "accepted"
    /\ \E destination \in Destinations :
         pc' = IF destination = "invalid" THEN "ended"
               ELSE IF kind = "stream" THEN "connect" ELSE "connectPacket"
    /\ network' = IF kind = "stream" THEN "tcp" ELSE "udp"
    /\ genuine' = {"user"}
    /\ UNCHANGED <<proto, reality, dial, toClient, stream, packets, cancelled, sessions>>

Hysteria2Stream == Accepted("hysteria2", "stream")
Hysteria2Packet == Accepted("hysteria2", "packet")
ShadowQuicStream == Accepted("shadowquic", "stream")
ShadowQuicPacket == Accepted("shadowquic", "packet")
SunnyQuicStream == Accepted("sunnyquic", "stream")
SunnyQuicPacket == Accepted("sunnyquic", "packet")

(* Mutant: the failure is not reported to the client. *)
HandshakeReplySilent ==
    /\ proto = "hysteria2" /\ pc = "reply"
    /\ pc' = IF dial = "ok" THEN "relay" ELSE "ended"
    /\ toClient' = IF dial = "ok" THEN Append(toClient, "ok") ELSE toClient
    /\ UNCHANGED <<proto, reality, genuine, network, dial, stream, packets, cancelled, sessions>>

(* handshake_success before the relay, handshake_failure with the error.   *)
HandshakeReply ==
    /\ proto = "hysteria2" /\ pc = "reply"
    /\ toClient' = Append(toClient, IF dial = "ok" THEN "ok" ELSE "failed")
    /\ pc' = IF dial = "ok" THEN "relay" ELSE "ended"
    /\ UNCHANGED <<proto, reality, genuine, network, dial, stream, packets, cancelled, sessions>>

(* ShadowQUIC and SunnyQUIC route the stream without a reply of their own. *)
QuicRoute ==
    /\ proto \in {"shadowquic", "sunnyquic", "snell"} /\ pc = "reply"
    /\ RouteReply
    /\ UNCHANGED sessions

(* The adapters' recv: a destination Address::new refuses is an error, and *)
(* one error ends both directions of relay_packet.                         *)
AdapterRecv ==
    /\ proto # "socks"
    /\ \E destination \in Destinations :
         \/ destination = "valid" /\ PacketUp("client") /\ UNCHANGED peer
         \/ destination = "invalid" /\ Fail("packets")
    /\ UNCHANGED sessions

(* The adapters' send. *)
AdapterSend ==
    /\ proto # "socks"
    /\ \E destination \in Destinations :
         \/ destination = "valid" /\ PacketDown("client")
         \/ destination = "invalid" /\ Fail("packets")
    /\ UNCHANGED sessions

(* Time passes without a datagram ... *)
GoIdle ==
    /\ proto # "socks" /\ pc = "packets" /\ ~idle
    /\ idle' = TRUE
    /\ UNCHANGED <<proto, reality, pc, genuine, network, dial, toClient, stream, peer, sent, back, cancelled, sessions>>

(* ... and Hysteria2's wait_inactive(DEFAULT_UDP_TIMEOUT) wins its select!. *)
WaitInactive ==
    /\ proto = "hysteria2" /\ pc = "packets" /\ idle
    /\ End
    /\ UNCHANGED <<proto, reality, genuine, network, dial, toClient, stream, packets, cancelled, sessions>>
-----------------------------------------------------------------------------
(* Snell: the next session of the connection; a pong is no session. *)
SnellAccept ==
    /\ proto = "snell" /\ pc = "accepted"
    /\ sessions < MaxSessions
    /\ sessions' = sessions + 1
    /\ genuine' = {"user"}
    /\ \/ network' = "tcp" /\ pc' \in {"connect", "accepted"}
       \/ network' = "udp" /\ pc' = "connectPacket"
    /\ UNCHANGED <<proto, reality, dial, toClient, stream, packets, cancelled>>

(* The session ended; the loop awaits the next one, with nothing of the    *)
(* old session left.                                                       *)
SnellAgain ==
    /\ proto = "snell" /\ pc = "ended" /\ ~cancelled
    /\ sessions < MaxSessions
    /\ pc' = "accepted"
    /\ network' = "tcp" /\ dial' = "none" /\ toClient' = << >> /\ genuine' = {}
    /\ held' = << >> /\ next' = 1 /\ up' = << >> /\ eofs' = {}
    /\ peer' = "none" /\ sent' = << >> /\ back' = << >> /\ idle' = FALSE
    /\ UNCHANGED <<proto, reality, cancelled, sessions>>

QuicStep ==
    \/ Hysteria2Stream \/ Hysteria2Packet \/ ShadowQuicStream \/ ShadowQuicPacket
    \/ SunnyQuicStream \/ SunnyQuicPacket \/ SnellAccept \/ SnellAgain
    \/ HandshakeReply \/ QuicRoute \/ AdapterRecv \/ AdapterSend \/ GoIdle \/ WaitInactive
    \/ Fail("accepted") /\ UNCHANGED sessions
=============================================================================
