---------------------------- MODULE SocksSession ----------------------------
(***************************************************************************)
(* The SOCKS inbound's handler (socks.rs): greeting, request, CONNECT with *)
(* a reply that follows the dial, and UDP ASSOCIATE, whose reply comes     *)
(* before the outbound is connected and whose association ends with the    *)
(* control connection.                                                     *)
(***************************************************************************)
EXTENDS RoutedSession

CONSTANTS Own,     \* UDP addresses at the address of the control connection
          Foreign  \* UDP addresses of other hosts

(* Version 5 and the no-auth method; nothing else of the greeting matters. *)
ReadGreeting ==
    /\ pc = "greeting"
    /\ \E greeting \in [version : {4, 5}, methods : {{}, {2}, {0, 2}}] :
         IF greeting.version = 5 /\ 0 \in greeting.methods
         THEN toClient' = Append(toClient, "method") /\ pc' = "request"
         ELSE UNCHANGED toClient /\ End
    /\ UNCHANGED genuine
    /\ Handshake

(* read_address: a type the code knows, and a domain that is UTF-8. *)
AddressReads(address) == address \in {"ipv4", "ipv6", "domain"}

(* The request and its address, then the branch on the command. *)
ReadRequest ==
    /\ pc = "request"
    /\ \E request \in [version : {4, 5}, command : {1, 2, 3},
                       address : {"ipv4", "ipv6", "domain", "domain-bytes", "other"}] :
         \/ /\ request.version # 5 \/ ~AddressReads(request.address)
            /\ End
            /\ UNCHANGED <<network, toClient>>
         \/ /\ request.version = 5 /\ AddressReads(request.address)
            /\ \/ request.command = 1 /\ pc' = "connect" /\ UNCHANGED <<network, toClient>>
               \/ request.command = 3 /\ pc' = "associate" /\ network' = "udp" /\ UNCHANGED toClient
               \/ /\ request.command = 2
                  /\ toClient' = Append(toClient, "unsupported")
                  /\ End
                  /\ UNCHANGED network
    /\ UNCHANGED <<proto, reality, genuine, dial, stream, packets, cancelled>>

(* Mutant: the success reply is written before the dial is looked at. *)
HandleConnectEarly ==
    /\ proto = "socks" /\ pc = "reply"
    /\ toClient' = Append(toClient, "ok")
    /\ pc' = IF dial = "ok" THEN "relay" ELSE "ended"
    /\ UNCHANGED genuine
    /\ Handshake

(* handle_connect after Router::connect: the reply says what the dial did. *)
HandleConnect ==
    /\ proto = "socks" /\ pc = "reply"
    /\ toClient' = Append(toClient, IF dial = "ok" THEN "ok" ELSE "failed")
    /\ pc' = IF dial = "ok" THEN "relay" ELSE "ended"
    /\ UNCHANGED genuine
    /\ Handshake

(* handle_udp_associate: the socket, the reply with its address, and the   *)
(* select! of route_packet with the control connection.                    *)
Associate ==
    /\ pc = "associate"
    /\ toClient' = Append(toClient, "bound")
    /\ pc' = "connectPacket"
    /\ UNCHANGED genuine
    /\ Handshake

Associated == proto = "socks" /\ network = "udp" /\ pc \in {"connectPacket", "packets"}

(* The client ends its control connection, or it breaks. *)
ClientLeaves ==
    /\ Associated
    /\ "up" \notin eofs
    /\ eofs' = {"up"}
    /\ UNCHANGED <<proto, reality, pc, genuine, network, dial, toClient, held, next, up, packets,
                   cancelled>>

(* Mutant: only the dial is watched together with the control connection. *)
ControlClosesDialling ==
    /\ Associated /\ pc = "connectPacket"
    /\ "up" \in eofs
    /\ End
    /\ UNCHANGED <<proto, reality, genuine, network, dial, toClient, stream, packets, cancelled>>

(* The copy of the control connection returns: the other arm is dropped.   *)
ControlCloses ==
    /\ Associated
    /\ "up" \in eofs
    /\ End
    /\ UNCHANGED <<proto, reality, genuine, network, dial, toClient, stream, packets, cancelled>>

(* decode_address and the checks before it: length, reserved bytes,        *)
(* fragment number, address type and length, UTF-8, port.                  *)
Decodes(datagram) == datagram = "whole"

(* Mutants: the sender is pinned before the datagram is checked; any host  *)
(* may use the association; any port of the client may.                    *)
AcceptsAnyHost(from) == peer = "none" \/ peer = from
AcceptsAnyPort(from) == from \in Own

(* SocksPacketConnection::recv passes over datagrams of other hosts, and   *)
(* of other ports once a peer is pinned.                                   *)
Accepts(from) ==
    /\ from \in Own
    /\ peer = "none" \/ peer = from

(* ... a malformed one from the client itself is an error, which ends the  *)
(* association; a good one pins the peer and goes to the outbound.         *)
RecvDatagram(from, datagram) ==
    /\ proto = "socks"
    /\ Accepts(from)
    /\ \/ /\ Decodes(datagram)
          /\ peer' = from
          /\ PacketUp(from)
       \/ /\ ~Decodes(datagram)
          /\ pc = "packets"
          /\ End
          /\ UNCHANGED <<proto, reality, genuine, network, dial, toClient, stream, packets, cancelled>>

(* SocksPacketConnection::send: without a peer it is an error. *)
SendDatagram ==
    /\ proto = "socks"
    /\ \/ peer # "none" /\ PacketDown(peer)
       \/ peer = "none" /\ Fail("packets")

SocksStep ==
    \/ ReadGreeting \/ ReadRequest \/ HandleConnect \/ Associate \/ ClientLeaves \/ ControlCloses
    \/ \E at \in {"greeting", "request", "associate"} : Fail(at)
    \/ \E from \in Own \cup Foreign, datagram \in {"whole", "broken"} : RecvDatagram(from, datagram)
    \/ SendDatagram
=============================================================================
