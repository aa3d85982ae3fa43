-------------------------- MODULE CloudflaredOrigin -------------------------
(***************************************************************************)
(* One request of the Cloudflare edge, from the data stream to the origin  *)
(* and back: over QUIC (serve_quic_http_origin) or HTTP/2                  *)
(* (serve_http_origin), HTTP, WebSocket or a raw TCP stream.  The origin   *)
(* sends its head and its body in pieces, so the read that ends the head   *)
(* may bring any part of the body, and it may close at any time; the edge  *)
(* sends its body in pieces and may reset the stream.                      *)
(*                                                                         *)
(* A body is a sequence of numbered bytes; a chunked one also has chunk    *)
(* sizes (-k announces k bytes) and ends in a 0 chunk.                     *)
(***************************************************************************)
EXTENDS Integers, Sequences

CONSTANTS MaxBody,      \* length of the bodies
          BodyLimit     \* MAX_HTTP_REQUEST_BODY

VARIABLES
    request,    \* [transport, kind, target, declared, bodyless, bytes]
    reply,      \* what the origin will send: [framing, length, wire, size]
    place,      \* where the handler is
    body,       \* request bytes read
    origin,     \* what the origin has received: [declared, body]
    held,       \* already_read: what came with the head
    rest,       \* what the origin has not yet delivered
    shut,       \* the origin has closed its side
    chunk,      \* bytes of the current chunk still to come
    edge        \* what the edge has seen: [heads, body, end]

vars == <<request, reply, place, body, origin, held, rest, shut, chunk, edge>>

NoLength == -1
Bytes(n) == [i \in 1 .. n |-> i]

(* The ways n bytes may be framed; a length the origin does not keep is    *)
(* one of them.                                                            *)
Chunked(n) ==
    IF n < 2 THEN (IF n = 0 THEN << >> ELSE << -1, 1 >>) \o <<0>>
    ELSE << -1, 1, -(n - 1) >> \o SubSeq(Bytes(n), 2, n) \o <<0>>

Answers ==
    UNION {{[framing |-> "chunked", length |-> NoLength, wire |-> Chunked(n), size |-> n],
            [framing |-> "close", length |-> NoLength, wire |-> Bytes(n), size |-> n],
            [framing |-> "length", length |-> n, wire |-> Bytes(n), size |-> n],
            [framing |-> "length", length |-> n + 1, wire |-> Bytes(n), size |-> n]}
           : n \in 0 .. MaxBody}

Requests ==
    [transport : {"quic", "h2"}, kind : {"http", "websocket", "tcp"},
     target : {"origin", "status", "unmatched"},
     declared : {NoLength} \cup 0 .. BodyLimit + 1, bodyless : BOOLEAN, bytes : 0 .. MaxBody]

Simple(r) == r.kind # "http" \/ r.target # "origin"

OriginInit(start) ==
    /\ request \in {r \in Requests :
                        Simple(r) => r.declared = NoLength /\ r.bodyless /\ r.bytes = 0}
    /\ reply \in Answers
    /\ place = start
    /\ body = << >> /\ held = << >> /\ rest = reply.wire /\ shut = FALSE /\ chunk = 0
    /\ origin = [declared |-> NoLength, body |-> << >>]
    /\ edge = [heads |-> << >>, body |-> << >>, end |-> "open"]
-----------------------------------------------------------------------------
(* Http2RequestStream::send_response takes `respond`, QuicRequestStream's  *)
(* checks `response_sent`: a second head is refused.                       *)
CanAnswer == edge.heads = << >>

Ends(how) ==
    /\ place' = "end"
    /\ edge' = [edge EXCEPT !.end = how]

Answered(head, how) ==
    /\ place' = "end"
    /\ edge' = [edge EXCEPT !.heads = Append(@, head), !.end = how]

(* An error: serve_quic_http_origin tells the edge about one it meets      *)
(* before the head, http_router_handler answers 502 if it still can.       *)
(* Mutant: the 502 goes out whatever has been sent.                        *)
FailAlways == Answered("error", "eof")

Fail == IF CanAnswer THEN Answered("error", "eof") ELSE Ends("dropped")

(* Over QUIC a stream starts with a signature, a version and one Cap'n     *)
(* Proto message (handle_stream, read_connect_frame); over HTTP/2 the      *)
(* request is put together from the headers (build_connect_request).       *)
ReadFrame ==
    /\ place = "new" /\ request.transport = "quic"
    /\ \/ place' = "begin" /\ UNCHANGED edge
       \/ Ends("dropped")
    /\ UNCHANGED <<request, reply, body, origin, held, rest, shut, chunk>>

BuildConnectRequest ==
    /\ place = "new" /\ request.transport = "h2"
    /\ \/ place' = "begin" /\ UNCHANGED edge
       \/ Ends("dropped")
    /\ UNCHANGED <<request, reply, body, origin, held, rest, shut, chunk>>

(* handle_data_stream: HTTP and WebSocket have a handler of their own; for *)
(* TCP the empty error goes out before the destination is dialled.         *)
Begin ==
    /\ place = "begin"
    /\ IF request.kind = "tcp"
       THEN /\ place' = "route"
            /\ edge' = [edge EXCEPT !.heads = <<"ok">>]
       ELSE /\ place' = "resolve"
            /\ UNCHANGED edge
    /\ UNCHANGED <<request, reply, body, origin, held, rest, shut, chunk>>

(* router_handler: route() fails or relays; its bytes are RoutedSession's. *)
RouteTcp ==
    /\ place = "route"
    /\ \E how \in {"eof", "dropped"} : Ends(how)
    /\ UNCHANGED <<request, reply, body, origin, held, rest, shut, chunk>>

(* resolve_remote_request: a rule's service, a fixed status, or no rule,   *)
(* which over QUIC ends the stream without a word (`?`).                   *)
Resolve ==
    /\ place = "resolve"
    /\ \/ request.target = "origin" /\ place' = "dial" /\ UNCHANGED edge
       \/ request.target = "status" /\ Answered("status", "eof")
       \/ request.target = "unmatched" /\ request.transport = "h2" /\ Fail
       \/ request.target = "unmatched" /\ request.transport = "quic" /\ Ends("dropped")
    /\ UNCHANGED <<request, reply, body, origin, held, rest, shut, chunk>>

(* prepare_origin_request: router.connect, and tls_origin for https.       *)
Dial ==
    /\ place = "dial"
    /\ \/ place' = "body" /\ UNCHANGED edge
       \/ Fail
    /\ UNCHANGED <<request, reply, body, origin, held, rest, shut, chunk>>
-----------------------------------------------------------------------------
(* read_http_request_body: whether there is one, and when it is complete.  *)
HasBody ==
    /\ request.kind = "http" /\ request.declared # 0
    /\ ~(request.declared = NoLength /\ request.bodyless)

TooLong == request.declared > BodyLimit

BodyComplete ==
    IF request.declared # NoLength THEN Len(body) = request.declared
    ELSE Len(body) = request.bytes

(* Another piece arrives; read_limited_generic gives up beyond the limit.  *)
ReadBody ==
    /\ place = "body" /\ HasBody /\ ~TooLong /\ ~BodyComplete
    /\ Len(body) < request.bytes
    /\ IF Len(body) + 1 > BodyLimit
       THEN Fail /\ UNCHANGED body
       ELSE body' = Append(body, Len(body) + 1) /\ UNCHANGED <<place, edge>>
    /\ UNCHANGED <<request, reply, origin, held, rest, shut, chunk>>

(* read_exact meets the end of the stream, or the length is refused.       *)
BodyFails ==
    /\ place = "body" /\ HasBody
    /\ TooLong \/ (~BodyComplete /\ Len(body) = request.bytes)
    /\ Fail
    /\ UNCHANGED <<request, reply, body, origin, held, rest, shut, chunk>>

(* build_origin_request writes its own Content-Length, the one of the body *)
(* that was read; write_all, flush.                                        *)
WriteRequest ==
    /\ place = "body" /\ (~HasBody \/ (~TooLong /\ BodyComplete))
    /\ origin' = [declared |-> Len(body), body |-> body]
    /\ place' = "head"
    /\ UNCHANGED <<request, reply, body, held, rest, shut, chunk, edge>>
-----------------------------------------------------------------------------
Upgraded == request.kind = "websocket" /\ reply.framing = "close"

(* read_http_response_head: the bytes after the empty line are kept.       *)
(* Mutant: they are dropped with the buffer.                               *)
AlreadyReadLost(k) == << >>

AlreadyRead(k) == SubSeq(rest, 1, k)

(* Then the head goes to the edge. *)
ReadHead ==
    /\ place = "head" /\ ~shut
    /\ \E k \in 0 .. Len(rest) :
        /\ held' = AlreadyRead(k)
        /\ rest' = SubSeq(rest, k + 1, Len(rest))
    /\ IF CanAnswer
       THEN /\ edge' = [edge EXCEPT !.heads = Append(@, "origin")]
            /\ place' = IF Upgraded THEN "join" ELSE "copy"
       ELSE Ends("dropped")
    /\ UNCHANGED <<request, reply, body, origin, shut, chunk>>

HeadFails ==
    /\ place = "head"
    /\ Fail
    /\ UNCHANGED <<request, reply, body, origin, held, rest, shut, chunk>>

(* What copy_response_body reads next: already_read, then the origin.      *)
Ready == held # << >> \/ rest # << >>
Next1 == IF held # << >> THEN Head(held) ELSE Head(rest)
Drop1 ==
    IF held # << >> THEN held' = Tail(held) /\ UNCHANGED rest
    ELSE rest' = Tail(rest) /\ UNCHANGED held

(* response.write_all(already_read), then at most length - already_read    *)
(* bytes; without a length, all until the origin closes.                   *)
(* Mutant: one byte too many is waited for.                                *)
RemainingOneMore == held # << >> \/ reply.framing = "close" \/ Len(edge.body) <= reply.length

Remaining == held # << >> \/ reply.framing = "close" \/ Len(edge.body) < reply.length

CopyPlain ==
    /\ place = "copy" /\ reply.framing # "chunked"
    /\ Remaining /\ Ready
    /\ edge' = [edge EXCEPT !.body = Append(@, Next1)]
    /\ Drop1
    /\ UNCHANGED <<request, reply, place, body, origin, shut, chunk>>

(* copy_chunked_response_body: a size line, or a byte of the chunk.        *)
CopyChunked ==
    /\ place = "copy" /\ reply.framing = "chunked" /\ Ready
    /\ Drop1
    /\ \/ /\ chunk = 0 /\ Next1 < 0
          /\ chunk' = -Next1
          /\ UNCHANGED <<place, edge>>
       \/ /\ chunk = 0 /\ Next1 = 0
          /\ Ends("eof")
          /\ UNCHANGED chunk
       \/ /\ chunk > 0
          /\ chunk' = chunk - 1
          /\ edge' = [edge EXCEPT !.body = Append(@, Next1)]
          /\ UNCHANGED place
    /\ UNCHANGED <<request, reply, body, origin, shut>>

(* The copy is over: the length is reached, or the origin has closed.  An  *)
(* origin that closes early is an error only inside a chunked body.        *)
CopyEnds ==
    /\ place = "copy" /\ reply.framing # "chunked"
    /\ ~Remaining \/ (~Ready /\ shut)
    /\ Ends("eof")
    /\ UNCHANGED <<request, reply, body, origin, held, rest, shut, chunk>>

ChunkBreaks ==
    /\ place = "copy" /\ reply.framing = "chunked" /\ ~Ready /\ shut
    /\ IF request.transport = "h2" THEN Fail ELSE Ends("dropped")
    /\ UNCHANGED <<request, reply, body, origin, held, rest, shut, chunk>>

(* After 101 two copies are joined; the end of one direction is not passed *)
(* on before both are over, so the edge has to close on its own.           *)
Join ==
    /\ place = "join" /\ Ready
    /\ edge' = [edge EXCEPT !.body = Append(@, Next1)]
    /\ Drop1
    /\ UNCHANGED <<request, reply, place, body, origin, shut, chunk>>

JoinEnds ==
    /\ place = "join" /\ ~Ready /\ shut
    /\ Ends("eof")
    /\ UNCHANGED <<request, reply, body, origin, held, rest, shut, chunk>>
-----------------------------------------------------------------------------
(* The origin closes its side, with or without having sent everything; the *)
(* edge resets the stream.                                                 *)
OriginCloses(complete) ==
    /\ place \in {"copy", "join"} /\ ~shut
    /\ complete = (rest = << >>)
    /\ shut' = TRUE
    /\ rest' = << >>
    /\ UNCHANGED <<request, reply, place, body, origin, held, chunk, edge>>

EdgeResets ==
    /\ place \notin {"idle", "new", "end"}
    /\ Ends("reset")
    /\ UNCHANGED <<request, reply, body, origin, held, rest, shut, chunk>>
-----------------------------------------------------------------------------
HandlerStep ==
    \/ ReadFrame \/ BuildConnectRequest \/ Begin \/ RouteTcp \/ Resolve \/ Dial
    \/ ReadBody \/ BodyFails \/ WriteRequest
    \/ CopyPlain \/ CopyChunked \/ CopyEnds \/ ChunkBreaks \/ Join

OriginNext ==
    \/ HandlerStep \/ ReadHead \/ HeadFails \/ JoinEnds \/ EdgeResets
    \/ \E complete \in BOOLEAN : OriginCloses(complete)

(* The edge sends what it announced or ends its side, the origin answers   *)
(* and sends what it announced, and closes only where nothing else tells   *)
(* the end: a connection the origin keeps open must not be waited for.     *)
MustClose == reply.framing = "close" \/ reply.length > reply.size

OriginFairness ==
    /\ WF_vars(HandlerStep)
    /\ WF_vars(ReadHead \/ HeadFails)
    /\ WF_vars(MustClose /\ OriginCloses(TRUE))
-----------------------------------------------------------------------------
(* The edge gets one answer to a request.  A stream that ends properly has *)
(* had one head, and the text of an error is never sent after, or as part  *)
(* of, an origin's response.                                               *)
OneAnswer ==
    /\ Len(edge.heads) <= 1
    /\ edge.end = "eof" => edge.heads # << >>
    /\ edge.body # << >> => edge.heads = <<"origin">>

(* Nothing is lost or doubled between the piece that came with the head    *)
(* and what follows, and sizes are never taken for content: the edge has a *)
(* prefix of the origin's bytes, all of them when a body that the origin   *)
(* completed ends.  The origin receives as many bytes as it is told, those *)
(* the edge sent.                                                          *)
BodiesIntact ==
    /\ edge.body = Bytes(Len(edge.body)) /\ Len(edge.body) <= reply.size
    /\ edge.end = "eof" /\ edge.heads = <<"origin">>
        /\ reply.framing # "close" /\ reply.length <= reply.size
        => Len(edge.body) = reply.size \/ (shut /\ reply.framing = "length")
    /\ origin.declared # NoLength =>
        /\ origin.declared = Len(origin.body)
        /\ origin.body = Bytes(Len(origin.body)) /\ Len(origin.body) <= request.bytes

(* A request that waits for its end. *)
OriginWaits == place \notin {"idle", "join", "end"}
=============================================================================
