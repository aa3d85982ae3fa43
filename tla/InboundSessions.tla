--------------------------- MODULE InboundSessions --------------------------
(***************************************************************************)
(* One connection of any of the inbounds, from the accept to the end of    *)
(* its relay: the handlers of SocksSession, VlessSession and QuicSession   *)
(* around Router::connect and the relays of RoutedSession.                 *)
(***************************************************************************)
EXTENDS SocksSession, VlessSession, QuicSession

svars == <<vars, sessions>>

(* Where each handler starts. *)
Start ==
    [socks |-> "greeting", vless |-> "http", hysteria2 |-> "accepted", shadowquic |-> "accepted",
     sunnyquic |-> "accepted", snell |-> "accepted"]

SessionsInit ==
    /\ proto \in DOMAIN Start
    /\ reality \in IF proto = "vless" THEN BOOLEAN ELSE {FALSE}
    /\ pc = IF reality THEN "hello" ELSE Start[proto]
    /\ SessionInit
    /\ sessions = 0

(* The task has returned. *)
Ended == pc = "ended" /\ UNCHANGED svars

SessionsNext ==
    \/ Ended
    \/ (Route \/ SocksStep \/ VlessStep \/ CloseInbound \/ Cancel) /\ UNCHANGED sessions
    \/ QuicStep

SessionsFairness ==
    /\ WF_svars(Cancel /\ UNCHANGED sessions)
    /\ WF_svars(ControlCloses /\ UNCHANGED sessions)
    /\ WF_svars(WaitInactive)
-----------------------------------------------------------------------------
Sent(reply) == \E i \in 1..Len(toClient) : toClient[i] = reply

\* The reply that must come before the first byte of the destination.
Greeting == CASE proto \in {"socks", "hysteria2"} -> {"ok"}
              [] proto = "vless" -> {"version"}
              [] OTHER -> {}

(* A client is told that it is connected only when it is, and that it is   *)
(* not only when it is not (SOCKS handle_connect, Hysteria2 run_server); a *)
(* failed dial is reported unless the inbound closes first; and no byte of *)
(* the destination comes before the reply.                                 *)
HonestReply ==
    /\ Sent("ok") => dial = "ok"
    /\ Sent("failed") => dial = "failed"
    /\ proto \in {"socks", "hysteria2"} /\ network = "tcp" /\ dial = "failed"
         /\ pc = "ended" /\ ~cancelled => Sent("failed")
    /\ \A i \in 1..Len(toClient) :
         toClient[i] = "data" /\ Greeting # {} => \E j \in 1..(i - 1) : toClient[j] \in Greeting

(* A session of an authenticating inbound reaches an outbound only with a  *)
(* known user, and behind REALITY only after a hello with the server's     *)
(* key, a configured short id, the server's name and a clock within the    *)
(* limit.  A client that fails REALITY sees only the handshake server: not *)
(* one reply of ours.  Conversely a genuine hello is never relayed away.   *)
OnlyGenuine ==
    LET hello == {"key", "shortId", "name", "clock"}
    IN  /\ dial # "none" /\ proto # "socks" => "user" \in genuine
        /\ dial # "none" /\ reality => hello \subseteq genuine
        /\ reality /\ ~(hello \subseteq genuine) => \A i \in 1..Len(toClient) : toClient[i] = "cover"
        /\ pc = "fallback" => ~(hello \subseteq genuine)

(* Everything the client wrote behind its request reaches the destination  *)
(* in order and once, what was read together with the HTTP headers or came *)
(* as early data included; a relayed hello is the first thing the          *)
(* handshake server sees.                                                  *)
NothingSwallowed ==
    /\ \A i \in 1..Len(up) : i = up[i] + (IF dial = "none" THEN 1 ELSE 0)
    /\ "up" \in eofs => Len(up) = next - 1

(* A SOCKS association belongs to one UDP address of the host that holds   *)
(* the control connection: nothing from elsewhere is forwarded and answers *)
(* go nowhere else.                                                        *)
AssociationIsPrivate ==
    proto = "socks" =>
        /\ peer \in Own \cup {"none"}
        /\ \A i \in 1..Len(sent) : sent[i] = peer
        /\ \A i \in 1..Len(back) : back[i] = peer

(* A connection of an inbound that closes has not ended yet, a SOCKS       *)
(* association has outlived its control connection, or a Hysteria2 UDP     *)
(* session stays idle.                                                     *)
SessionLingers ==
    \/ cancelled /\ pc # "ended"
    \/ proto = "socks" /\ network = "udp" /\ "up" \in eofs /\ pc # "ended"
    \/ proto = "hysteria2" /\ pc = "packets" /\ idle
=============================================================================
