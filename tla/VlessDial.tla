------------------------------ MODULE VlessDial -----------------------------
(***************************************************************************)
(* VlessOutbound::connect against the VLESS inbound's                      *)
(* handle_connection_inner: upgrade, early data, request and response.     *)
(* Both ends wait for each other without a timeout.  Bytes are items:      *)
(* "request" is the VLESS request, the others payload.  TCP may join what   *)
(* the server writes in one read (the tail of the response headers).       *)
(***************************************************************************)
EXTENDS Naturals, Sequences

CONSTANTS RequestSize, MaxEarlyData   \* bytes of the request; values of max_early_data

VARIABLES
    maxEarly, name,    \* outbound: max_early_data, and whether early_data_header_name is set
    serverName,        \* inbound: whether it has the same early_data_header_name
    client,            \* "dial" | "upgrade" | "request" | "response" | "connected" | "failed"
    acceptor,          \* the inbound: "http" | "request" | "reply" | "routed" | "failed"
    header,            \* items in the early data header of the upgrade
    toServer,          \* frames the outbound has written and the inbound not read
    toOutbound,        \* what the inbound has written and the outbound not read
    routed             \* items the inbound hands to its destination

vars == <<maxEarly, name, serverName, client, acceptor, header, toServer, toOutbound, routed>>
config == <<maxEarly, name, serverName>>

DialInit ==
    /\ maxEarly \in MaxEarlyData
    /\ name \in BOOLEAN /\ serverName \in BOOLEAN
    /\ client = "dial" /\ acceptor = "http"
    /\ header = << >> /\ toServer = << >> /\ toOutbound = << >> /\ routed = << >>

(* Mutant: the request may be longer than the limit by one. *)
UsesEarlyDataLong == maxEarly > 0 /\ name /\ RequestSize <= maxEarly + 1

(* max_early_data > 0, a header name, and the request fits. *)
UsesEarlyData == maxEarly > 0 /\ name /\ RequestSize <= maxEarly

(* Transport and TLS; then the GET with its headers. *)
Upgrade ==
    /\ client = "dial"
    /\ \/ client' = "failed" /\ UNCHANGED header
       \/ client' = "upgrade" /\ header' = IF UsesEarlyData THEN <<"request">> ELSE << >>
    /\ UNCHANGED <<config, acceptor, toServer, toOutbound, routed>>

(* read_http_request and the 101; the header is decoded when the inbound   *)
(* has a name for it.                                                      *)
ServeUpgrade ==
    /\ acceptor = "http" /\ client = "upgrade"
    /\ \/ /\ acceptor' = "failed"
          /\ toOutbound' = <<"refused">>
          /\ UNCHANGED routed
       \/ /\ acceptor' = "request"
          /\ toOutbound' = <<"101">>
          /\ routed' = IF serverName THEN header ELSE << >>
    /\ UNCHANGED <<config, client, header, toServer>>

(* Mutant: the request always goes out in a frame, too. *)
ReadUpgradeTwice ==
    /\ client = "upgrade" /\ toOutbound # << >>
    /\ toOutbound' = Tail(toOutbound)
    /\ IF Head(toOutbound) = "101"
       THEN client' = "response" /\ toServer' = <<"request">>
       ELSE client' = "failed" /\ UNCHANGED toServer
    /\ UNCHANGED <<config, acceptor, header, routed>>

(* read_http_response; the request follows unless it went as early data.   *)
ReadUpgrade ==
    /\ client = "upgrade" /\ toOutbound # << >>
    /\ toOutbound' = Tail(toOutbound)
    /\ IF Head(toOutbound) = "101"
       THEN client' = "response" /\ toServer' = IF UsesEarlyData THEN << >> ELSE <<"request">>
       ELSE client' = "failed" /\ UNCHANGED toServer
    /\ UNCHANGED <<config, acceptor, header, routed>>

(* read_vless_request: early data first, then frames.  An unknown user or  *)
(* a malformed request ends the connection.                                *)
ServeRequest ==
    /\ acceptor = "request" /\ routed \o toServer # << >>
    /\ routed' = Tail(routed \o toServer) /\ toServer' = << >>
    /\ \/ acceptor' = "routed" /\ toOutbound' = Append(toOutbound, "version")
       \/ acceptor' = "failed" /\ toOutbound' = Append(toOutbound, "eof")
    /\ UNCHANGED <<config, client, header>>

(* read_exact of the two bytes of the response. *)
ReadResponse ==
    /\ client = "response" /\ toOutbound # << >>
    /\ toOutbound' = Tail(toOutbound)
    /\ client' = IF Head(toOutbound) = "version" THEN "connected" ELSE "failed"
    /\ UNCHANGED <<config, acceptor, header, toServer, routed>>

(* The caller's payload, after connect has returned. *)
Payload ==
    /\ client = "connected" /\ acceptor = "routed" /\ toServer = << >> /\ Len(routed) < 1
    /\ routed' = Append(routed, "payload")
    /\ UNCHANGED <<config, client, acceptor, header, toServer, toOutbound>>

(* connect has failed, the payload is through, or the two ends disagree on *)
(* the header and both wait.                                               *)
Settled ==
    /\ \/ client = "failed"
       \/ client = "connected" /\ routed # << >>
       \/ client = "response" /\ acceptor = "request" /\ name /\ ~serverName
    /\ UNCHANGED vars

DialNext ==
    \/ Settled
    \/ Upgrade \/ ServeUpgrade \/ ReadUpgrade \/ ServeRequest \/ ReadResponse \/ Payload

\* Each end goes on as soon as it has something to read.
DialFairness ==
    /\ WF_vars(ServeUpgrade) /\ WF_vars(ReadUpgrade)
    /\ WF_vars(ServeRequest) /\ WF_vars(ReadResponse)
-----------------------------------------------------------------------------
(* The request crosses once, as early data or as the first frame, and is   *)
(* consumed as the request: nothing of it is left for the destination to   *)
(* read as payload; early data stays within its limit.                     *)
RequestOnce ==
    /\ acceptor = "routed" => "request" \notin {routed[i] : i \in 1..Len(routed)}
                                  \cup {toServer[i] : i \in 1..Len(toServer)}
    /\ header # << >> => RequestSize <= maxEarly

(* The outbound waits for an inbound it agrees with on the early data      *)
(* header.  (Where they disagree both may wait for ever.)                  *)
DialWaits == name = serverName /\ client \in {"upgrade", "response"}
=============================================================================
