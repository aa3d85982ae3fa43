---------------------------- MODULE VlessSession ----------------------------
(***************************************************************************)
(* The VLESS inbound's handler: REALITY where configured (RealityAcceptor  *)
(* in sing-box-tls), the WebSocket upgrade with early data, the VLESS      *)
(* request, and Router::route.  The response header is written before the  *)
(* session is routed.                                                      *)
(***************************************************************************)
EXTENDS RoutedSession

CONSTANT MaxTimeDifference   \* seconds; zero is no limit, as in the option

Hellos == [sessionId : {16, 32}, name : BOOLEAN, sealed : BOOLEAN, shortId : BOOLEAN,
           skew : {0, 60, 61}]

(* Mutant: the limit itself is refused as well. *)
InTimeStrict(skew) == MaxTimeDifference = 0 \/ skew < MaxTimeDifference

(* now.abs_diff(timestamp) <= max_difference, when there is a limit. *)
InTime(skew) == MaxTimeDifference = 0 \/ skew <= MaxTimeDifference

(* Mutant: a sealed session id is enough, whatever short id is in it. *)
AuthenticateSealed(hello) ==
    hello.sessionId = 32 /\ hello.name /\ hello.sealed /\ InTime(hello.skew)

(* RealityAcceptor::authenticate: the session id has its length, the SNI   *)
(* is the configured one, the session id opens under the shared key, the   *)
(* short id in it is configured and the clock is near enough.              *)
Authenticate(hello) ==
    /\ hello.sessionId = 32
    /\ hello.name
    /\ hello.sealed
    /\ hello.shortId
    /\ InTime(hello.skew)

\* What a holder of the server's public key and a short id shows in time.
Facts(hello) ==
    {fact \in {"key", "shortId", "name", "clock"} :
        \/ fact = "key" /\ hello.sealed /\ hello.sessionId = 32
        \/ fact = "shortId" /\ hello.shortId
        \/ fact = "name" /\ hello.name
        \/ fact = "clock" /\ (MaxTimeDifference = 0 \/ hello.skew \in 0..MaxTimeDifference)}

(* RealityAcceptor::accept: read the ClientHello and authenticate it. *)
ReadHello ==
    /\ pc = "hello"
    /\ \E hello \in Hellos :
         /\ genuine' = genuine \cup Facts(hello)
         /\ pc' = IF Authenticate(hello) THEN "handshake" ELSE "fallback"
    /\ UNCHANGED toClient
    /\ Handshake

(* server_config and into_stream: the TLS handshake under the temporary    *)
(* certificate signed with the shared key.                                 *)
FinishHandshake ==
    /\ pc = "handshake"
    /\ pc' = "http"
    /\ UNCHANGED <<genuine, toClient>>
    /\ Handshake

(* relay_invalid: the addresses of the handshake server in order; the      *)
(* ClientHello (item 0) is written before the copy starts.                 *)
RelayInvalid ==
    /\ pc = "fallback" /\ up = << >>
    /\ up' = <<0>>
    /\ UNCHANGED <<proto, reality, pc, genuine, network, dial, toClient, held, next, eofs, packets, cancelled>>

(* ... and copy_bidirectional with the handshake server. *)
FallbackCopy ==
    /\ pc = "fallback" /\ up # << >>
    /\ \/ /\ next <= MaxData
          /\ up' = Append(up, next)
          /\ next' = next + 1
          /\ UNCHANGED toClient
       \/ /\ Len(toClient) < MaxData
          /\ toClient' = Append(toClient, "cover")
          /\ UNCHANGED <<up, next>>
    /\ UNCHANGED <<proto, reality, pc, genuine, network, dial, held, eofs, packets, cancelled>>
-----------------------------------------------------------------------------
Requests == [method : {"GET", "POST"}, path : BOOLEAN, upgrade : BOOLEAN,
             early : {"none", "undecodable", "request"}, earlyItems : 0..1, tailItems : 0..1]

(* ensure_websocket_request: upgrade, connection and key headers. *)
EnsureWebsocketRequest(request) == request.upgrade

Items(first, count) == [i \in 1..count |-> first + i - 1]

(* Mutant: what came behind the headers is read before the early data. *)
HeldTailFirst(request) ==
    Items(next + request.earlyItems, request.tailItems) \o Items(next, request.earlyItems)

(* WebSocketStream::new(stream, request.tail, early_data, ..): the early   *)
(* data is read first, then the tail of the chunk the headers came in.     *)
Held(request) ==
    Items(next, request.earlyItems)
      \o Items(next + request.earlyItems, request.tailItems)

(* read_http_request and the checks of handle_connection_inner.            *)
ReadHttpRequest ==
    /\ pc = "http"
    /\ \E request \in Requests :
         \/ /\ request.method # "GET"
            /\ toClient' = Append(toClient, "405")
            /\ End
            /\ UNCHANGED <<held, next>>
         \/ /\ request.method = "GET" /\ ~request.path
            /\ toClient' = Append(toClient, "404")
            /\ End
            /\ UNCHANGED <<held, next>>
         \/ /\ request.method = "GET" /\ request.path
            /\ ~EnsureWebsocketRequest(request) \/ request.early = "undecodable"
            /\ End
            /\ UNCHANGED <<toClient, held, next>>
         \/ /\ request.method = "GET" /\ request.path
            /\ EnsureWebsocketRequest(request) /\ request.early # "undecodable"
            /\ request.early = "none" => request.earlyItems = 0
            /\ next + request.earlyItems + request.tailItems <= MaxData + 1
            /\ toClient' = Append(toClient, "101")
            /\ held' = Held(request)
            /\ next' = next + request.earlyItems + request.tailItems
            /\ pc' = "vless"
    /\ UNCHANGED <<proto, reality, genuine, network, dial, up, eofs, packets, cancelled>>

(* Mutant: the user table is not consulted. *)
ParsesUnchecked(request) ==
    request.version = 0 /\ request.command = 1 /\ request.address \in {1, 2, 3}

(* read_vless_request: version 0, a known UUID, the TCP command, a known   *)
(* address type.                                                           *)
Parses(request) ==
    /\ request.version = 0
    /\ request.user
    /\ request.command = 1
    /\ request.address \in {1, 2, 3}

(* The response header is written as soon as the request is read. *)
ReadVlessRequest ==
    /\ pc = "vless"
    /\ \E request \in [version : {0, 1}, user : BOOLEAN, command : {1, 2}, address : {1, 2, 3, 4}] :
         /\ genuine' = genuine \cup (IF request.user THEN {"user"} ELSE {})
         /\ \/ Parses(request) /\ toClient' = Append(toClient, "version") /\ pc' = "connect"
            \/ ~Parses(request) /\ UNCHANGED toClient /\ End
    /\ Handshake

VlessReply ==
    /\ proto = "vless" /\ pc = "reply"
    /\ RouteReply

VlessStep ==
    \/ ReadHello \/ FinishHandshake \/ RelayInvalid \/ FallbackCopy
    \/ ReadHttpRequest \/ ReadVlessRequest \/ VlessReply
    \/ \E at \in {"hello", "handshake", "fallback", "http", "vless"} : Fail(at)
=============================================================================
