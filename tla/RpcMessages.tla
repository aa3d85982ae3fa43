---------------------------- MODULE RpcMessages -----------------------------
(***************************************************************************)
(* Cloudflare's messages: the layout tunnelrpc_capnp.rs gives every        *)
(* struct, what registration.rs, protocol.rs and quic.rs write into them   *)
(* and read out of them, and how a call finds its method.                  *)
(*                                                                         *)
(* A message is the bits of its data section, each knowing which bit of    *)
(* which number it is (0 where nothing was written), and its pointers, by  *)
(* number.  A sender may know an older, shorter struct.                    *)
(***************************************************************************)
EXTENDS Integers, Sequences, FiniteSets, SequencesExt, TLC

Refused == [ok |-> FALSE]
Done(value) == [ok |-> TRUE, value |-> value]
-----------------------------------------------------------------------------
(* The accessors count in units of their own width: <<first bit, width>>.  *)
(* Mutant: in bytes.                                                       *)
DataFieldInBytes(width, offset) == <<8 * offset, width>>

DataField(width, offset) == <<width * offset, width>>

BoolField(offset) == <<offset, 1>>

Struct(data, pointers, numbers, refs) ==
    [data |-> data, pointers |-> pointers, numbers |-> numbers, refs |-> refs]

ClientInfo ==
    Struct(0, 4, << >>, "clientId" :> 0 @@ "features" :> 1 @@ "version" :> 2 @@ "arch" :> 3)

ConnectionOptions ==
    Struct(1, 2, "replaceExisting" :> BoolField(0) @@ "compressionQuality" :> DataField(8, 1)
                 @@ "numPreviousAttempts" :> DataField(8, 2),
           "client" :> 0 @@ "originLocalIp" :> 1)

ConnectionResponse == Struct(1, 1, "which" :> DataField(16, 0), "result" :> 0)

ConnectionError ==
    Struct(2, 1, "retryAfter" :> DataField(64, 0) @@ "shouldRetry" :> BoolField(64), "cause" :> 0)

ConnectionDetails ==
    Struct(1, 2, "tunnelIsRemotelyManaged" :> BoolField(0), "uuid" :> 0 @@ "locationName" :> 1)

TunnelAuth == Struct(0, 2, << >>, "accountTag" :> 0 @@ "tunnelSecret" :> 1)

RegisterConnectionParams ==
    Struct(1, 3, "connIndex" :> DataField(8, 0), "auth" :> 0 @@ "tunnelId" :> 1 @@ "options" :> 2)

RegisterConnectionResults == Struct(0, 1, << >>, "result" :> 0)

UnregisterConnectionParams == Struct(0, 0, << >>, << >>)
UnregisterConnectionResults == Struct(0, 0, << >>, << >>)

UpdateLocalConfigurationParams == Struct(0, 1, << >>, "config" :> 0)
UpdateLocalConfigurationResults == Struct(0, 0, << >>, << >>)

RegisterUdpSessionResponse == Struct(0, 2, << >>, "err" :> 0 @@ "spans" :> 1)

RegisterUdpSessionParams ==
    Struct(2, 3, "dstPort" :> DataField(16, 0) @@ "closeAfterIdleHint" :> DataField(64, 1),
           "sessionId" :> 0 @@ "dstIp" :> 1 @@ "traceContext" :> 2)

RegisterUdpSessionResults == Struct(0, 1, << >>, "result" :> 0)

UnregisterUdpSessionParams == Struct(0, 2, << >>, "sessionId" :> 0 @@ "message" :> 1)
UnregisterUdpSessionResults == Struct(0, 0, << >>, << >>)

UpdateConfigurationResponse == Struct(1, 1, "latestAppliedVersion" :> DataField(32, 0), "err" :> 0)

UpdateConfigurationParams == Struct(1, 1, "version" :> DataField(32, 0), "config" :> 0)

UpdateConfigurationResults == Struct(0, 1, << >>, "result" :> 0)

ConnectRequest == Struct(1, 2, "type" :> DataField(16, 0), "dest" :> 0 @@ "metadata" :> 1)

Metadata == Struct(0, 2, << >>, "key" :> 0 @@ "val" :> 1)

ConnectResponse == Struct(0, 2, << >>, "error" :> 0 @@ "metadata" :> 1)

Structs ==
    {ClientInfo, ConnectionOptions, ConnectionResponse, ConnectionError, ConnectionDetails, TunnelAuth,
     RegisterConnectionParams, RegisterConnectionResults, UnregisterConnectionParams, UnregisterConnectionResults,
     UpdateLocalConfigurationParams, UpdateLocalConfigurationResults, RegisterUdpSessionResponse,
     RegisterUdpSessionParams, RegisterUdpSessionResults, UnregisterUdpSessionParams, UnregisterUdpSessionResults,
     UpdateConfigurationResponse, UpdateConfigurationParams, UpdateConfigurationResults,
     ConnectRequest, Metadata, ConnectResponse}
-----------------------------------------------------------------------------
(* The runtime: a field beyond what the sender knew reads as zero or null. *)
Zero == <<0, 0>>

Blank(struct) == [data |-> [b \in 0 .. 64 * struct.data - 1 |-> Zero], refs |-> << >>]

SetNumber(struct, message, field, value) ==
    LET first == struct.numbers[field][1]
        bits == first .. first + struct.numbers[field][2] - 1
    IN  [message EXCEPT !.data = [b \in DOMAIN @ |-> IF b \in bits
                                     THEN IF value = 0 THEN Zero ELSE <<value, b - first>> ELSE @[b]]]

GetNumber(struct, message, field) ==
    LET first == struct.numbers[field][1]
        last == first + struct.numbers[field][2] - 1
        value == IF last \in DOMAIN message.data THEN message.data[first][1] ELSE 0
    IN  IF value = 0 \/ \A b \in first .. last : message.data[b] = <<value, b - first>> THEN value ELSE -99

SetRef(struct, message, field, value) ==
    [message EXCEPT !.refs = (struct.refs[field] :> value) @@ @]

Has(struct, message, field) == struct.refs[field] \in DOMAIN message.refs
GetRef(struct, message, field, default) ==
    IF Has(struct, message, field) THEN message.refs[struct.refs[field]] ELSE default

Build(struct, numbers, refs) ==
    LET named == SetToSeq(DOMAIN numbers)
        pointed == SetToSeq(DOMAIN refs)
        filled == FoldLeft(LAMBDA m, f : SetNumber(struct, m, f, numbers[f]), Blank(struct), named)
    IN  FoldLeft(LAMBDA m, f : SetRef(struct, m, f, refs[f]), filled, pointed)

\* What a peer of an older schema would have sent.
Shortened(message, words) ==
    [message EXCEPT !.data = [b \in {x \in DOMAIN @ : x < 64 * words} |-> @[b]]]
-----------------------------------------------------------------------------
(* set_register_connection *)
SetRegisterConnection(credentials, index, options) ==
    Build(RegisterConnectionParams, "connIndex" :> index,
       "auth" :> Build(TunnelAuth, << >>, "accountTag" :> credentials.account @@ "tunnelSecret" :> credentials.secret)
       @@ "tunnelId" :> credentials.tunnel
       @@ "options" :> Build(ConnectionOptions,
             "replaceExisting" :> options.replace @@ "compressionQuality" :> options.quality
             @@ "numPreviousAttempts" :> options.attempts,
             "client" :> Build(ClientInfo, << >>, "clientId" :> options.connector @@ "features" :> options.features
                                                  @@ "version" :> "v" @@ "arch" :> "os")
             @@ (IF options.origin = "none" THEN << >> ELSE "originLocalIp" :> options.origin)))

(* which(): the union's tag. *)
Which(response) ==
    LET tag == GetNumber(ConnectionResponse, response, "which") IN
    CASE tag = 0 -> "error" [] tag = 1 -> "connectionDetails" [] OTHER -> "notInSchema"

(* Mutant: a negative delay is taken as it stands. *)
DelaySigned(after) == after

Delay(after) == IF after > 0 THEN after ELSE 0

(* read_registration_result, and register_connection's last check. *)
ReadRegistrationResult(response) ==
    LET error == GetRef(ConnectionResponse, response, "result", Blank(ConnectionError))
        details == GetRef(ConnectionResponse, response, "result", Blank(ConnectionDetails))
    IN  CASE Which(response) = "error" ->
               IF GetNumber(ConnectionError, error, "shouldRetry") = 1
               THEN [result |-> "retry", delay |-> Delay(GetNumber(ConnectionError, error, "retryAfter"))]
               ELSE [result |-> "permanent"]
          [] Which(response) = "connectionDetails" ->
               IF GetRef(ConnectionDetails, details, "uuid", "") # "uuid" THEN [result |-> "failed"]
               ELSE IF GetNumber(ConnectionDetails, details, "tunnelIsRemotelyManaged") = 0
               THEN [result |-> "failed"] ELSE [result |-> "registered"]
          [] OTHER -> [result |-> "failed"]
-----------------------------------------------------------------------------
(* encode_connect_request, handle_stream and read_connect_frame, and       *)
(* decode_connect_request.                                                 *)
ConnectionTypes == <<"http", "websocket", "tcp">>
TypeNumber(kind) == (CHOOSE i \in 1 .. 3 : ConnectionTypes[i] = kind) - 1
TypeOf(number) == IF number \in 0 .. 2 THEN Done(ConnectionTypes[number + 1]) ELSE Refused

DataSignature == "data"
RpcSignature == "rpc"
ProtocolVersion == "01"

EncodeConnectRequest(request) ==
    <<DataSignature, ProtocolVersion,
      Build(ConnectRequest, "type" :> TypeNumber(request.kind),
            "dest" :> request.destination
            @@ "metadata" :> [i \in 1 .. Len(request.metadata) |->
                  Build(Metadata, << >>, "key" :> request.metadata[i].key @@ "val" :> request.metadata[i].value)])>>

DecodeConnectRequest(message) ==
    LET kind == TypeOf(GetNumber(ConnectRequest, message, "type"))
        list == GetRef(ConnectRequest, message, "metadata", << >>)
    IN  IF ~kind.ok THEN Refused
        ELSE Done([destination |-> GetRef(ConnectRequest, message, "dest", ""), kind |-> kind.value,
                   metadata |-> [i \in 1 .. Len(list) |->
                       [key |-> GetRef(Metadata, list[i], "key", ""), value |-> GetRef(Metadata, list[i], "val", "")]]])

HandleStream(wire) ==
    CASE wire[1] = DataSignature ->
           IF wire[2] # ProtocolVersion THEN Refused
           ELSE LET request == DecodeConnectRequest(wire[3]) IN
                IF request.ok THEN Done([request |-> request.value, rest |-> SubSeq(wire, 4, Len(wire))]) ELSE Refused
      [] wire[1] = RpcSignature -> Done([rpc |-> Tail(wire)])
      [] OTHER -> Refused

(* CloudflaredRpcServer::register_udp_session, up to the registration. *)
DefaultIdle == 210

ReadUdpSession(params) ==
    LET idle == GetNumber(RegisterUdpSessionParams, params, "closeAfterIdleHint")
        id == GetRef(RegisterUdpSessionParams, params, "sessionId", "")
        ip == GetRef(RegisterUdpSessionParams, params, "dstIp", "")
    IN  IF id # "uuid" \/ ip \notin {"ipv4", "ipv6"} THEN Refused
        ELSE Done([id |-> id, ip |-> ip, port |-> GetNumber(RegisterUdpSessionParams, params, "dstPort"),
                   idle |-> IF idle > 0 THEN idle ELSE DefaultIdle])
-----------------------------------------------------------------------------
(* The methods of an interface in the order of their numbers; what the     *)
(* client calls and what dispatch_call makes of it.                        *)
RegistrationServer == <<"registerConnection", "unregisterConnection", "updateLocalConfiguration">>
SessionManager == <<"registerUdpSession", "unregisterUdpSession">>
ConfigurationManager == <<"updateConfiguration">>

Call(method) ==
    CASE method = "registerConnection"       -> <<"registration", 0>>
      [] method = "unregisterConnection"     -> <<"registration", 1>>
      [] method = "updateLocalConfiguration" -> <<"registration", 2>>
      [] method = "registerUdpSession"       -> <<"session", 0>>
      [] method = "unregisterUdpSession"     -> <<"session", 1>>
      [] method = "updateConfiguration"      -> <<"configuration", 0>>

At(methods, number) == IF number < Len(methods) THEN methods[number + 1] ELSE "unimplemented"

(* Mutant: the server of the inherited interfaces knows only the first. *)
CloudflaredDispatchFirst(call) ==
    IF call[1] = "session" THEN At(SessionManager, call[2]) ELSE "unimplemented"

CloudflaredDispatch(call) ==
    CASE call[1] = "session" -> At(SessionManager, call[2])
      [] call[1] = "configuration" -> At(ConfigurationManager, call[2])
      [] OTHER -> "unimplemented"

RegistrationDispatch(call) ==
    IF call[1] = "registration" THEN At(RegistrationServer, call[2]) ELSE "unimplemented"
-----------------------------------------------------------------------------
(* In every struct all fields lie inside it and no two share a bit or a    *)
(* pointer: whatever is written, in any order, nothing else changes.       *)
LayoutIsSound(struct) ==
    LET bits(f) == struct.numbers[f][1] .. struct.numbers[f][1] + struct.numbers[f][2] - 1
        fields == DOMAIN struct.numbers
    IN  /\ \A f \in fields : bits(f) \subseteq 0 .. 64 * struct.data - 1
        /\ \A f, g \in fields : f # g => bits(f) \cap bits(g) = {}
        /\ \A f, g \in DOMAIN struct.refs : struct.refs[f] < struct.pointers /\ (struct.refs[f] = struct.refs[g] => f = g)

(* What the edge means by its answer is what the tunnel makes of it: only  *)
(* details of a remotely managed tunnel register it, only an error that    *)
(* says so is retried, never before now; a sender too old to know a field  *)
(* never turns a refusal into a success.                                   *)
AnswerOf(case) ==
    IF case.tag = 0
    THEN Build(ConnectionResponse, "which" :> 0,
               "result" :> Shortened(Build(ConnectionError, "retryAfter" :> case.after @@ "shouldRetry" :> case.flag, << >>),
                                     case.words))
    ELSE Build(ConnectionResponse, "which" :> case.tag,
               "result" :> Shortened(Build(ConnectionDetails, "tunnelIsRemotelyManaged" :> case.flag, "uuid" :> case.uuid),
                                     case.words))

AnswerIsRead(case) ==
    LET read == ReadRegistrationResult(AnswerOf(case)) IN
    /\ read.result = "registered" <=> case.tag = 1 /\ case.flag = 1 /\ case.uuid = "uuid" /\ case.words >= 1
    /\ read.result = "retry" <=> case.tag = 0 /\ case.flag = 1 /\ case.words >= 2
    /\ read.result = "retry" => read.delay >= 0 /\ (case.after > 0 => read.delay = case.after)
    /\ read.result = "permanent" => case.tag = 0
    /\ ReadRegistrationResult(Blank(ConnectionResponse)).result = "permanent"

(* The edge reads the credentials, the index and the options it was sent.  *)
ParamsAreRead(credentials, index, options) ==
    LET message == SetRegisterConnection(credentials, index, options)
        sent == GetRef(RegisterConnectionParams, message, "options", "")
        auth == GetRef(RegisterConnectionParams, message, "auth", "")
    IN  /\ GetNumber(RegisterConnectionParams, message, "connIndex") = index
        /\ GetRef(TunnelAuth, auth, "tunnelSecret", "") = credentials.secret
        /\ <<GetNumber(ConnectionOptions, sent, "replaceExisting"), GetNumber(ConnectionOptions, sent, "compressionQuality"),
             GetNumber(ConnectionOptions, sent, "numPreviousAttempts")>>
             = <<options.replace, options.quality, options.attempts>>
        /\ GetRef(ConnectionOptions, sent, "originLocalIp", "none") = options.origin

(* A connect request comes back as it was encoded and leaves the payload   *)
(* behind it alone; a type from a later schema is refused.                 *)
ConnectIsRead(request, payload, number) ==
    LET wire == EncodeConnectRequest(request)
        later == SetNumber(ConnectRequest, wire[3], "type", number)
    IN  /\ HandleStream(wire \o payload) = Done([request |-> request, rest |-> payload])
        /\ DecodeConnectRequest(later).ok <=> number <= 2

(* A UDP registration keeps its port apart from its idle hint. *)
UdpIsRead(numbers, id, ip) ==
    LET read == ReadUdpSession(Build(RegisterUdpSessionParams, numbers, "sessionId" :> id @@ "dstIp" :> ip)) IN
    /\ read.ok <=> id = "uuid" /\ ip # "short"
    /\ read.ok => /\ read.value.port = numbers["dstPort"]
                  /\ read.value.idle = IF numbers["closeAfterIdleHint"] > 0 THEN numbers["closeAfterIdleHint"] ELSE DefaultIdle

(* A call arrives at the method of its name, at the end that has it. *)
CallArrives(method) ==
    /\ RegistrationDispatch(Call(method)) \in {method, "unimplemented"}
    /\ CloudflaredDispatch(Call(method)) \in {method, "unimplemented"}
    /\ method \in {RegistrationDispatch(Call(method)), CloudflaredDispatch(Call(method))}
-----------------------------------------------------------------------------
MessageCases ==
    [about : {"layout"}, struct : Structs]
    \cup [about : {"answer"}, tag : 0 .. 2, flag : {0, 1}, after : {-1, 0, 5}, uuid : {"uuid", "short"}, words : 0 .. 2]
    \cup [about : {"params"}, credentials : {[account |-> "a", secret |-> "s", tunnel |-> "t"]}, index : {0, 3},
          options : [connector : {"c"}, features : {<<"f">>}, origin : {"none", "ipv4"}, replace : {0, 1},
                     quality : {0, 2}, attempts : {0, 255}]]
    \cup [about : {"connect"}, number : 0 .. 3, payload : {<< >>, <<DataSignature>>},
          request : [destination : {"d"}, kind : {"http", "websocket", "tcp"},
                     metadata : {<< >>, <<[key |-> "k", value |-> "v"], [key |-> "k", value |-> "w"]>>}]]
    \cup [about : {"udp"}, id : {"uuid", "short"}, ip : {"ipv4", "ipv6", "short"},
          numbers : {"dstPort" :> p @@ "closeAfterIdleHint" :> i : p \in {0, 53}, i \in {-1, 0, 7}}]
    \cup [about : {"call"}, method : ToSet(RegistrationServer) \cup ToSet(SessionManager) \cup ToSet(ConfigurationManager)]

(* What goes into a message of the tunnel's RPC comes out of it: see the   *)
(* properties above.                                                       *)
MessagesAgree(case) ==
    CASE case.about = "layout" -> LayoutIsSound(case.struct)
      [] case.about = "answer" -> AnswerIsRead(case)
      [] case.about = "params" -> ParamsAreRead(case.credentials, case.index, case.options)
      [] case.about = "connect" -> ConnectIsRead(case.request, case.payload, case.number)
      [] case.about = "udp" -> UdpIsRead(case.numbers, case.id, case.ip)
      [] case.about = "call" -> CallArrives(case.method)
=============================================================================
