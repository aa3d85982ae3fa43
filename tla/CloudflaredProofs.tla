-------------------------- MODULE CloudflaredProofs --------------------------
(***************************************************************************)
(* The Cloudflare tunnel for any number of connections, edges, versions    *)
(* and options: a connection leaves its protocol or its loop only for      *)
(* cause, unregisters before it closes and keeps the newest configuration. *)
(* For any number of flows, payloads and bytes, and channels of any size:  *)
(* a UDP flow gets its payloads once and in order, a request gets one      *)
(* answer, and bodies arrive whole however the origin frames them and      *)
(* whatever part of them comes with the head.                              *)
(***************************************************************************)
EXTENDS MCCloudflared, SequenceTheorems, TLAPS

(* The part of the type invariant the arguments below rest on.             *)
Typed ==
    /\ cancelled \in BOOLEAN
    /\ pc \in [Conns -> Places]
    /\ protocol \in [Conns -> {"quic", "http2"}]
    /\ retries \in [Conns -> 0 .. U8Max]
    /\ registered \in [Conns -> BOOLEAN]
    /\ config \in Int
    /\ brief \in [Conns -> 0 .. 2]
    /\ refused \in [Conns -> BOOLEAN]
    /\ unregister \in [Conns -> BOOLEAN]
    /\ applied \subseteq Versions

(* `retries` never runs ahead of the short attempts it stands for.         *)
RetriesAreBrief ==
    \A c \in Conns : retries[c] >= 2 => brief[c] >= 1

(* A registration lives from the register call to the end of the attempt,  *)
(* only QUIC connections that asked to unregister wait for the answer, and *)
(* only after close().                                                     *)
RegistrationPlace ==
    \A c \in Conns :
        /\ registered[c] = TRUE => pc[c] \in {"serve", "unregister", "grace", "returned"}
        /\ pc[c] = "unregister" => unregister[c] = TRUE
        /\ pc[c] \in {"unregister", "grace"} => cancelled = TRUE

(* Threads exist only once start() has succeeded.                          *)
NotStarted == inbound = "new" => \A c \in Conns : pc[c] = "idle"

Inv ==
    /\ Typed
    /\ NotStarted
    /\ RetriesAreBrief
    /\ RegistrationPlace
    /\ GivesUpForCause
    /\ QuicUnregisters
    /\ NewestConfigStays
-----------------------------------------------------------------------------
(* The supervisor starts in its invariant.                                 *)
LEMMA InitInv == Init => Inv
<1> SUFFICES ASSUME Init PROVE Inv
  OBVIOUS
<1>1. Typed
  <2>1. protocol \in [Conns -> {"quic", "http2"}] /\ config \in Int /\ applied \subseteq Versions
    BY DEF Init
  <2>2. pc \in [Conns -> Places] /\ retries \in [Conns -> 0 .. U8Max] /\ brief \in [Conns -> 0 .. 2]
    BY U8MaxAssumption DEF Init, Places
  <2>3. /\ cancelled \in BOOLEAN /\ registered \in [Conns -> BOOLEAN]
        /\ refused \in [Conns -> BOOLEAN] /\ unregister \in [Conns -> BOOLEAN]
    BY DEF Init
  <2> QED BY <2>1, <2>2, <2>3 DEF Typed
<1>2. RetriesAreBrief /\ RegistrationPlace /\ NotStarted
  BY DEF Init, RetriesAreBrief, RegistrationPlace, NotStarted
<1>3. GivesUpForCause /\ QuicUnregisters
  BY DEF Init, GivesUpForCause, QuicUnregisters
<1>4. NewestConfigStays
  BY DEF Init, NewestConfigStays
<1> QED BY <1>1, <1>2, <1>3, <1>4 DEF Inv

(* What the count of failures does in one retry.                           *)
LEMMA CountFacts ==
    ASSUME Typed, NEW c \in Conns, NEW long \in BOOLEAN
    PROVE  /\ Count(c, long) \in 0 .. U8Max
           /\ long = TRUE => Count(c, long) = 1
           /\ long = FALSE /\ Count(c, long) >= 3 => retries[c] >= 2
  BY U8MaxAssumption DEF Typed, Count

(* The supervisor's handling of an ended attempt.                          *)
LEMMA EndsFacts ==
    ASSUME Typed, RetriesAreBrief, NEW c \in Conns, NEW delay, NEW long \in BOOLEAN,
           Ends(c, delay, long)
    PROVE  /\ protocol' \in [Conns -> {"quic", "http2"}]
           /\ retries' \in [Conns -> 0 .. U8Max]
           /\ brief' \in [Conns -> 0 .. 2]
           /\ pc' \in [Conns -> Places]
           /\ RetriesAreBrief'
           /\ \A d \in Conns : d # c => pc'[d] = pc[d] /\ protocol'[d] = protocol[d]
           /\ pc'[c] = "backoff" \/ (pc'[c] = "returned" /\ cancelled /\ UNCHANGED protocol)
           /\ \A d \in Conns :
                protocol'[d] # protocol[d] =>
                    /\ protocol[d] = "quic"
                    /\ options.protocol = "auto" /\ ~options.post_quantum
                    /\ brief'[d] = 2
<1>1. CASE /\ cancelled
           /\ pc' = [pc EXCEPT ![c] = "returned"]
           /\ UNCHANGED <<supervisor, brief>>
  BY <1>1 DEF Typed, supervisor, RetriesAreBrief, Places
<1>2. CASE ~cancelled /\ Retry(c, delay, long)
  <2>1. /\ Count(c, long) \in 0 .. U8Max
        /\ long = TRUE => Count(c, long) = 1
        /\ long = FALSE /\ Count(c, long) >= 3 => retries[c] >= 2
    BY CountFacts
  <2> DEFINE falls == FallsBack(c, Count(c, long))
             count == IF falls THEN 0 ELSE Count(c, long)
  <2>2. /\ pc' = [pc EXCEPT ![c] = "backoff"]
        /\ retries' = [retries EXCEPT ![c] = count]
        /\ protocol' = [protocol EXCEPT ![c] = IF falls THEN "http2" ELSE @]
        /\ brief' = [brief EXCEPT ![c] = IF long THEN 0 ELSE IF @ < 2 THEN @ + 1 ELSE 2]
    BY <1>2 DEF Retry
  <2>3. pc' \in [Conns -> Places] /\ pc'[c] = "backoff"
    BY <2>2 DEF Typed, Places
  <2>4. count \in 0 .. U8Max /\ retries' \in [Conns -> 0 .. U8Max]
    BY <2>1, <2>2, U8MaxAssumption DEF Typed
  <2>5. protocol' \in [Conns -> {"quic", "http2"}]
    BY <2>2 DEF Typed
  <2>6. /\ brief' \in [Conns -> 0 .. 2]
        /\ \A d \in Conns : d # c => brief'[d] = brief[d] /\ retries'[d] = retries[d]
        /\ long = FALSE => brief'[c] >= 1
        /\ long = FALSE /\ brief[c] >= 1 => brief'[c] = 2
    BY <2>2 DEF Typed
  <2>7. RetriesAreBrief'
    <3> SUFFICES ASSUME NEW d \in Conns, retries'[d] >= 2
                 PROVE  brief'[d] >= 1
      BY DEF RetriesAreBrief
    <3>1. CASE d # c
      BY <3>1, <2>6 DEF RetriesAreBrief
    <3>2. CASE d = c
      <4>1. retries'[c] = count
        BY <2>2 DEF Typed
      <4>2. long = FALSE
        BY <2>1, <3>2, <4>1
      <4> QED BY <3>2, <4>2, <2>6
    <3> QED BY <3>1, <3>2
  <2>8. ASSUME NEW d \in Conns, protocol'[d] # protocol[d]
        PROVE  /\ protocol[d] = "quic"
               /\ options.protocol = "auto" /\ ~options.post_quantum
               /\ brief'[d] = 2
    <3>1. d = c /\ falls
      BY <2>2, <2>8 DEF Typed
    <3>2. /\ protocol[c] = "quic" /\ options.protocol = "auto" /\ ~options.post_quantum
          /\ Count(c, long) >= 3
      BY <3>1 DEF FallsBack
    <3>3. long = FALSE /\ brief[c] >= 1
      BY <3>2, <2>1 DEF RetriesAreBrief
    <3> QED BY <3>1, <3>2, <3>3, <2>6
  <2>9. \A d \in Conns : d # c => pc'[d] = pc[d] /\ protocol'[d] = protocol[d]
    BY <2>2 DEF Typed
  <2> HIDE DEF falls, count
  <2> QED BY <2>3, <2>4, <2>5, <2>6, <2>7, <2>8, <2>9
<1> QED BY <1>1, <1>2 DEF Ends
-----------------------------------------------------------------------------
(* The steps a connection takes by itself.                                 *)
LEMMA ThreadStepInv ==
    ASSUME Inv, NEW c \in Conns, ThreadStep(c)
    PROVE  Inv'
<1> USE DEF Inv, supervisor, attempt, shared
<1>1. \/ Leave(c) \/ Attempt(c) \/ BackoffOver(c)
      \/ Shutdown(c) \/ UnregisterOver(c) \/ GraceOver(c)
  BY DEF ThreadStep
<1> USE <1>1 DEF Leave, Attempt, BackoffOver, Shutdown, UnregisterOver, GraceOver, Goto,
    AfterUnregister
<1>2. Typed'
  BY DEF Typed, Places
<1>3. RegistrationPlace'
  BY DEF Typed, RegistrationPlace
<1>4. NotStarted'
  BY DEF NotStarted
<1>5. RetriesAreBrief' /\ NewestConfigStays'
  BY DEF RetriesAreBrief, NewestConfigStays
<1>6. GivesUpForCause'
  BY DEF Typed, RegistrationPlace, GivesUpForCause
<1>7. QuicUnregisters'
  BY DEF Typed, RegistrationPlace, QuicUnregisters
<1> QED BY <1>2, <1>3, <1>4, <1>5, <1>6, <1>7

(* The steps of the edge.                                                  *)
LEMMA EdgeStepInv ==
    ASSUME Inv, NEW c \in Conns, EdgeStep(c)
    PROVE  Inv'
<1> USE DEF Inv, supervisor, attempt, shared
<1>1. CASE Handshake(c) \/ QuicRegisters(c) \/ QuicRejected(c)
  <2> USE <1>1 DEF Handshake, QuicRegisters, QuicRejected, Goto
  <2>1. Typed'
    BY DEF Typed, Places
  <2>2. RegistrationPlace'
    BY DEF Typed, RegistrationPlace
  <2>3. NotStarted' /\ RetriesAreBrief' /\ NewestConfigStays'
    BY DEF NotStarted, RetriesAreBrief, NewestConfigStays
  <2>4. GivesUpForCause'
    BY DEF Typed, GivesUpForCause
  <2>5. QuicUnregisters'
    BY DEF Typed, RegistrationPlace, QuicUnregisters
  <2> QED BY <2>1, <2>2, <2>3, <2>4, <2>5
<1>2. CASE ControlOpens(c) \/ ControlRegisters(c) \/ ControlRefused(c) \/ ControlEnds(c)
           \/ ControlUnregisters(c)
  <2> USE <1>2 DEF ControlOpens, ControlRegisters, ControlRefused, ControlEnds,
      ControlUnregisters
  <2>1. Typed'
    BY DEF Typed, Places
  <2>2. RegistrationPlace'
    BY DEF Typed, RegistrationPlace
  <2>3. NotStarted' /\ RetriesAreBrief' /\ NewestConfigStays' /\ GivesUpForCause'
    BY DEF NotStarted, RetriesAreBrief, NewestConfigStays, GivesUpForCause
  <2>4. QuicUnregisters'
    BY DEF Typed, QuicUnregisters
  <2> QED BY <2>1, <2>2, <2>3, <2>4
<1>3. CASE HandshakeFails(c) \/ QuicRefused(c) \/ ConnectionEnds(c)
  <2>1. PICK delay \in {0, RetryAfter}, long \in BOOLEAN : Ends(c, delay, long)
    BY <1>3 DEF HandshakeFails, QuicRefused, ConnectionEnds
  <2>2. /\ protocol' \in [Conns -> {"quic", "http2"}]
        /\ retries' \in [Conns -> 0 .. U8Max]
        /\ brief' \in [Conns -> 0 .. 2]
        /\ pc' \in [Conns -> Places]
        /\ RetriesAreBrief'
        /\ \A d \in Conns : d # c => pc'[d] = pc[d] /\ protocol'[d] = protocol[d]
        /\ pc'[c] = "backoff" \/ (pc'[c] = "returned" /\ cancelled)
    BY <2>1, EndsFacts
  <2>3. /\ pc[c] \in {"connect", "register", "serve"}
        /\ UNCHANGED <<inbound, cancelled, refused, unregister, config, applied>>
        /\ registered' \in [Conns -> BOOLEAN]
        /\ registered'[c] = FALSE
        /\ \A d \in Conns : d # c => registered'[d] = registered[d]
    BY <1>3 DEF HandshakeFails, QuicRefused, ConnectionEnds, Drop, Typed, RegistrationPlace
  <2>4. Typed'
    BY <2>2, <2>3 DEF Typed
  <2>5. RegistrationPlace'
    BY <2>2, <2>3 DEF RegistrationPlace
  <2>6. NotStarted' /\ NewestConfigStays'
    BY <2>3 DEF NotStarted, NewestConfigStays
  <2>7. GivesUpForCause'
    BY <2>2, <2>3 DEF GivesUpForCause
  <2>8. QuicUnregisters'
    BY <2>2, <2>3 DEF QuicUnregisters
  <2> QED BY <2>2, <2>4, <2>5, <2>6, <2>7, <2>8
<1>4. CASE Configure(c)
  <2>1. PICK v \in Versions : Update(v)
    BY <1>4 DEF Configure
  <2>2. /\ config' = IF v > config THEN v ELSE config
        /\ applied' = applied \union {v}
    BY <2>1 DEF Update
  <2>3. UNCHANGED <<inbound, cancelled, pc, protocol, retries, registered, brief, refused,
                    unregister>>
    BY <1>4 DEF Configure
  <2>4. config' \in Int /\ applied' \subseteq Versions
    <3>1. v \in Int /\ config \in Int  BY VersionsAssumption DEF Typed
    <3>2. applied \subseteq Versions  BY DEF Typed
    <3> QED  BY <2>2, <3>1, <3>2
  <2>5. NewestConfigStays'
    BY <2>2, VersionsAssumption DEF Typed, NewestConfigStays
  <2>6. Typed'
    BY <2>3, <2>4 DEF Typed
  <2>7. RegistrationPlace' /\ NotStarted' /\ RetriesAreBrief'
    BY <2>3 DEF RegistrationPlace, NotStarted, RetriesAreBrief
  <2>8. GivesUpForCause' /\ QuicUnregisters'
    BY <2>3 DEF GivesUpForCause, QuicUnregisters
  <2> QED BY <2>5, <2>6, <2>7, <2>8
<1> QED BY <1>1, <1>2, <1>3, <1>4 DEF EdgeStep

(* Every step of the supervisor, a connection or the edge keeps it.        *)
LEMMA StepInv ==
    ASSUME Inv, [Next]_vars
    PROVE  Inv'
<1> USE DEF Inv
<1>1. CASE UNCHANGED vars
  BY <1>1 DEF vars, Typed, RetriesAreBrief, RegistrationPlace, NotStarted,
      GivesUpForCause, QuicUnregisters, NewestConfigStays
<1>2. CASE Start
  <2>1. Typed'
    BY <1>2 DEF Start, Typed, Places, supervisor, attempt, shared
  <2>2. RegistrationPlace' /\ NotStarted'
    BY <1>2 DEF Start, Typed, RegistrationPlace, NotStarted, attempt
  <2>4. GivesUpForCause'
    BY <1>2 DEF Start, GivesUpForCause
  <2>5. QuicUnregisters'
    BY <1>2 DEF Start, QuicUnregisters
  <2>3. RetriesAreBrief' /\ NewestConfigStays'
    BY <1>2 DEF Start, RetriesAreBrief, NewestConfigStays, supervisor, attempt, shared
  <2> QED BY <2>1, <2>2, <2>3, <2>4, <2>5
<1>3. CASE StartFails \/ Close \/ CloseReturns
  BY ZenonT(30), <1>3 DEF StartFails, Close, CloseReturns, Typed, RetriesAreBrief, RegistrationPlace, NotStarted,
      GivesUpForCause, QuicUnregisters, NewestConfigStays, supervisor, attempt, shared
<1>4. ASSUME NEW c \in Conns, ThreadStep(c) PROVE Inv'
  BY <1>4, ThreadStepInv
<1>5. ASSUME NEW c \in Conns, EdgeStep(c) PROVE Inv'
  BY <1>5, EdgeStepInv
<1> QED BY <1>1, <1>2, <1>3, <1>4, <1>5 DEF Next
-----------------------------------------------------------------------------
(* The supervisor's invariant holds in every reachable state.              *)
LEMMA InvHolds == Spec => []Inv
<1>1. Inv /\ [Next]_vars => Inv'
  BY StepInv
<1> QED BY InitInv, <1>1, PTL DEF Spec

(* A thread ends only because of close() or of a rejection over QUIC.      *)
THEOREM GivesUpOnlyForCause == Spec => []GivesUpForCause
<1>1. Inv => GivesUpForCause
  BY DEF Inv
<1> QED BY InvHolds, <1>1, PTL

(* A registered QUIC connection unregisters before it closes.              *)
THEOREM QuicAlwaysUnregisters == Spec => []QuicUnregisters
<1>1. Inv => QuicUnregisters
  BY DEF Inv
<1> QED BY InvHolds, <1>1, PTL

(* The newest acknowledged configuration is the active one.                *)
THEOREM NewestConfigIsKept == Spec => []NewestConfigStays
<1>1. Inv => NewestConfigStays
  BY DEF Inv
<1> QED BY InvHolds, <1>1, PTL

(* The fallback to HTTP/2 is one-way, allowed, and follows brief attempts. *)
THEOREM FallbackAlwaysEarned == Spec => FallbackIsEarned
<1> DEFINE A == \A c \in Conns :
                  protocol'[c] # protocol[c] =>
                      /\ protocol[c] = "quic"
                      /\ options.protocol = "auto" /\ ~options.post_quantum
                      /\ brief'[c] = 2
<1>1. Inv /\ [Next]_vars => [A]_vars
  <2> SUFFICES ASSUME Inv, Next PROVE A
    BY DEF vars
  <2> USE DEF supervisor, attempt, shared
  <2>1. CASE UNCHANGED protocol
    BY <2>1
  <2>2. CASE \E c \in Conns, delay \in {0, RetryAfter}, long \in BOOLEAN : Ends(c, delay, long)
    BY <2>2, EndsFacts DEF Inv
  <2>3. \/ UNCHANGED protocol
        \/ \E c \in Conns, delay \in {0, RetryAfter}, long \in BOOLEAN : Ends(c, delay, long)
    BY DEF Next, Start, StartFails, Close, CloseReturns, ThreadStep, EdgeStep,
        Leave, Attempt, BackoffOver, Shutdown, UnregisterOver, GraceOver,
        Handshake, HandshakeFails, QuicRegisters, QuicRefused, QuicRejected,
        ControlOpens, ControlRegisters, ControlRefused, ControlEnds, ControlUnregisters,
        ConnectionEnds, Configure
  <2> QED BY <2>1, <2>2, <2>3
<1> QED BY InvHolds, <1>1, PTL DEF Spec, FallbackIsEarned

(* A supervisor leaves its protocol or its loop only for the causes it     *)
(* has, with any number of connections, edges and retries.                 *)
THEOREM StaysOnlyForCause == Spec => StaysForCause
  BY GivesUpOnlyForCause, FallbackAlwaysEarned, PTL DEF StaysForCause
-----------------------------------------------------------------------------
(* The UDP sessions' inductive invariant.                                  *)
FlowRecord ==
    [id : Ids, task : {"dialing", "relaying", "over"}, incoming : Seq(Nat), got : Seq(Nat),
     idle : BOOLEAN, replied : BOOLEAN]

FlowTypes ==
    /\ flows \in Seq(FlowRecord)
    /\ accepted \in Seq(Seq(Nat)) /\ Len(accepted) = Len(flows)
    /\ sessions \in [Ids -> 0 .. Len(flows)]
    /\ payloads \in Nat

(* A flow has one session, the one it was made for. *)
OneSession == \A id \in Ids : sessions[id] # 0 => flows[sessions[id]].id = id

(* While the loop hands a payload over, the session cannot go away. *)
InDelivery ==
    loop.at = "deliver" =>
        loop.id \in Ids /\ sessions[loop.id] # 0 /\ loop.payload \in Nat

Prefix(s, t) == Len(s) <= Len(t) /\ \A i \in 1 .. Len(s) : s[i] = t[i]

(* What a flow has got and what is on its way to it. *)
Received ==
    \A f \in 1 .. Len(flows) :
        IF flows[f].task = "over"
        THEN Prefix(flows[f].got, accepted[f])
        ELSE flows[f].got \o flows[f].incoming \o Datagrams!InHand(f) = accepted[f]

DatagramInv == FlowTypes /\ OneSession /\ InDelivery /\ Received
-----------------------------------------------------------------------------
(* The inductive invariant of a request that is served from an origin.     *)
Early == {"idle", "new", "begin", "resolve", "dial", "body", "head"}

(* How far the edge's answer is at each place of the handler. *)
AnswerSoFar ==
    /\ place \in Early \cup {"route", "copy", "join", "end"}
    /\ place # "end" => seen.end = "open"
    /\ place \in Early => seen.heads = << >>
    /\ place = "route" => seen.heads = <<"ok">>
    /\ place \in {"copy", "join"} => seen.heads = <<"origin">>
    /\ seen.heads \in {<< >>, <<"ok">>, <<"origin">>, <<"error">>, <<"status">>}
    /\ seen.end = "eof" => seen.heads # << >>
    /\ seen.body # << >> => seen.heads = <<"origin">>

HeadSet == {"ok", "origin", "error", "status"}
EndSet == {"open", "eof", "dropped", "reset"}
SeenRecord == [heads : Seq(HeadSet), body : Seq(Nat), end : EndSet]

SeenTypes ==
    /\ seen \in SeenRecord
    /\ request \in Origin!Requests /\ reply \in Origin!Answers
    /\ held \in Seq(Int) /\ rest \in Seq(Int) /\ shut \in BOOLEAN /\ chunk \in Nat

(* Where in a chunked body of n bytes the reader of position p is, when it *)
(* has passed on b bytes and expects c more of the chunk.                  *)
ChunkPlace(p, b, c, n) ==
    \/ p = 0 /\ b = 0 /\ c = 0
    \/ p = 1 /\ b = 0 /\ c = 1 /\ n >= 1
    \/ p = 2 /\ b = 1 /\ c = 0 /\ n >= 1
    \/ p \in 3 .. n + 2 /\ b = p - 2 /\ c = n + 2 - p /\ n >= 2

(* p pieces of the origin's answer have been read; what came with the head *)
(* and what is still to come follow them.                                  *)
Unread(p) ==
    /\ p + Len(held) + Len(rest) <= Len(reply.wire)
    /\ ~shut => p + Len(held) + Len(rest) = Len(reply.wire)
    /\ \A i \in 1 .. Len(held) : held[i] = reply.wire[p + i]
    /\ \A i \in 1 .. Len(rest) : rest[i] = reply.wire[p + Len(held) + i]

PassedOn(p) ==
    IF reply.framing = "chunked"
    THEN ChunkPlace(p, Len(seen.body), chunk, reply.size)
    ELSE p = Len(seen.body) /\ chunk = 0

ReadUpTo(p) == Unread(p) /\ PassedOn(p)

Copied ==
    /\ seen.body = Origin!Bytes(Len(seen.body)) /\ Len(seen.body) <= reply.size
    /\ place \in Early => held = << >> /\ rest = reply.wire /\ ~shut /\ chunk = 0
    /\ place \in {"copy", "join"} => \E p \in Nat : ReadUpTo(p)
    /\ place = "join" => reply.framing = "close"

(* The request's bytes, and what the origin is told of them. *)
Forwarded ==
    /\ body \in Seq(Nat) /\ body = Origin!Bytes(Len(body)) /\ Len(body) <= request.bytes
    /\ origin.declared # -1 =>
        /\ origin.declared = Len(origin.body)
        /\ origin.body = Origin!Bytes(Len(origin.body)) /\ Len(origin.body) <= request.bytes

(* A body whose end is known and that ended well is complete. *)
EndedWell ==
    seen.end = "eof" /\ seen.heads = <<"origin">>
        /\ reply.framing # "close" /\ reply.length <= reply.size
        => Len(seen.body) = reply.size \/ (shut /\ reply.framing = "length")

OriginInv == SeenTypes /\ AnswerSoFar /\ Copied /\ Forwarded /\ EndedWell
-----------------------------------------------------------------------------
(* How the pieces a sequence is put together from may move.                *)
LEMMA PieceFacts ==
  ASSUME NEW g \in Seq(Nat), NEW i \in Seq(Nat), NEW h \in Seq(Nat), NEW n \in Nat
  PROVE  /\ Prefix(g, g \o i \o h)
         /\ g \o Append(i, n) \o << >> = g \o i \o <<n>>
         /\ g \o i \o <<n>> = Append(g \o i \o << >>, n)
         /\ (g \o i \o << >>) \o h = g \o i \o h
         /\ i # << >> => Append(g, Head(i)) \o Tail(i) \o h = g \o i \o h
<1>1. Prefix(g, g \o i \o h)  BY DEF Prefix
<1>2. g \o i \in Seq(Nat) /\ g \o i \o << >> = g \o i  BY ConcatEmptySeq
<1>3. g \o Append(i, n) \o << >> = g \o Append(i, n)
  <2>1. g \o Append(i, n) \in Seq(Nat)  OBVIOUS
  <2> QED  BY <2>1, ConcatEmptySeq
<1>4. g \o Append(i, n) = Append(g \o i, n)  OBVIOUS
<1>5. g \o i \o <<n>> = Append(g \o i, n)  OBVIOUS
<1>6. ASSUME i # << >> PROVE Append(g, Head(i)) \o Tail(i) = g \o i
  <2> DEFINE s == Append(g, Head(i)) \o Tail(i)
             t == g \o i
  <2>1. /\ Head(i) \in Nat /\ Tail(i) \in Seq(Nat) /\ Len(Tail(i)) = Len(i) - 1
        /\ Len(i) \in Nat /\ Len(i) >= 1 /\ Len(g) \in Nat /\ Head(i) = i[1]
        /\ \A k \in 1 .. Len(Tail(i)) : Tail(i)[k] = i[k + 1]
    BY <1>6
  <2>2. /\ s \in Seq(Nat) /\ Len(s) = Len(g) + Len(i)
        /\ \A k \in 1 .. (Len(g) + Len(i)) :
             s[k] = IF k <= Len(g) + 1 THEN Append(g, Head(i))[k] ELSE Tail(i)[k - (Len(g) + 1)]
    BY <2>1
  <2>3. /\ t \in Seq(Nat) /\ Len(t) = Len(g) + Len(i)
        /\ \A k \in 1 .. (Len(g) + Len(i)) :
             t[k] = IF k <= Len(g) THEN g[k] ELSE i[k - Len(g)]
    OBVIOUS
  <2>4. ASSUME NEW k \in 1 .. (Len(g) + Len(i)) PROVE s[k] = t[k]
    <3>1. CASE k <= Len(g)
      <4>1. Append(g, Head(i))[k] = g[k]  BY <2>1, <3>1
      <4> QED  BY <2>1, <2>2, <2>3, <3>1, <4>1
    <3>2. CASE k = Len(g) + 1
      <4>1. Append(g, Head(i))[k] = i[1] /\ k - Len(g) = 1  BY <2>1, <3>2
      <4> QED  BY <2>1, <2>2, <2>3, <3>2, <4>1
    <3>3. CASE k > Len(g) + 1
      <4>1. /\ k - (Len(g) + 1) \in 1 .. Len(Tail(i))
            /\ (k - (Len(g) + 1)) + 1 = k - Len(g)
        BY <2>1, <3>3
      <4>2. s[k] = Tail(i)[k - (Len(g) + 1)] /\ t[k] = i[k - Len(g)]
        BY <2>1, <2>2, <2>3, <3>3
      <4> QED  BY <2>1, <4>1, <4>2
    <3> QED  BY <2>1, <3>1, <3>2, <3>3
  <2> HIDE DEF s, t
  <2>5. s = t  BY <2>2, <2>3, <2>4, SeqEqual
  <2> QED  BY <2>5 DEF s, t
<1> QED  BY <1>1, <1>2, <1>3, <1>4, <1>5, <1>6

(* What is a prefix stays one when more arrives.                           *)
LEMMA PrefixGrows ==
  ASSUME NEW s \in Seq(Nat), NEW t \in Seq(Nat), NEW u \in Seq(Nat), Prefix(s, t)
  PROVE  Prefix(s, t \o u)
  BY DEF Prefix

(* One element of a sequence is replaced.                                  *)
LEMMA UpdateFacts ==
  ASSUME NEW S, NEW s \in Seq(S), NEW f \in 1 .. Len(s), NEW e \in S,
         NEW t, t = [s EXCEPT ![f] = e]
  PROVE  /\ t \in Seq(S) /\ Len(t) = Len(s)
         /\ \A k \in 1 .. Len(s) : t[k] = IF k = f THEN e ELSE s[k]
  OBVIOUS

(* No flow, no session.                                                    *)
LEMMA DatagramInitInv ==
  ASSUME NEW p \in {"idle", "select"}, Datagrams!DatagramInit(p)
  PROVE  DatagramInv
<1>1. /\ loop.at = p /\ flows = << >> /\ accepted = << >> /\ sessions = [id \in Ids |-> 0]
      /\ payloads = 0 /\ Len(flows) = 0 /\ Len(accepted) = 0
  BY DEF Datagrams!DatagramInit, Datagrams!At
<1>2. FlowTypes  BY <1>1 DEF FlowTypes
<1> QED  BY <1>1, <1>2 DEF DatagramInv, OneSession, InDelivery, Received

(* One flow moves, or its session is found idle.                           *)
LEMMA OneFlowInv ==
  ASSUME DatagramInv, NEW f \in 1 .. Len(flows), NEW r \in FlowRecord,
         flows' = [flows EXCEPT ![f] = r], r.id = flows[f].id,
         UNCHANGED <<loop, sessions, accepted, payloads>>,
         IF r.task = "over" THEN Prefix(r.got, accepted[f])
         ELSE r.got \o r.incoming \o Datagrams!InHand(f) = accepted[f]
  PROVE  DatagramInv'
<1> USE DEF DatagramInv, FlowTypes
<1>1. flows' \in Seq(FlowRecord) /\ Len(flows') = Len(flows)  OBVIOUS
<1>2. \A k \in 1 .. Len(flows) : flows'[k] = IF k = f THEN r ELSE flows[k]  OBVIOUS
<1>3. FlowTypes'  BY <1>1
<1>4. OneSession'  BY <1>1, <1>2 DEF OneSession
<1>5. InDelivery'  BY DEF InDelivery
<1>6. Received'
  <2> SUFFICES ASSUME NEW k \in 1 .. Len(flows)
               PROVE  IF flows'[k].task = "over" THEN Prefix(flows'[k].got, accepted[k])
                      ELSE flows'[k].got \o flows'[k].incoming \o Datagrams!InHand(k) = accepted[k]
    BY <1>1 DEF Received, Datagrams!InHand
  <2>1. CASE k = f  BY <1>2, <2>1
  <2>2. CASE k # f  BY <1>2, <2>2 DEF Received
  <2> QED  BY <2>1, <2>2
<1> QED  BY <1>3, <1>4, <1>5, <1>6

(* A flow's own steps: dialling, relaying, a reply, a failure, time.       *)
LEMMA FlowNextInv ==
  ASSUME DatagramInv, NEW f \in 1 .. Len(flows),
         \/ Datagrams!FlowStep(f) \/ Datagrams!Reply(f) \/ Datagrams!FlowFails(f)
         \/ Datagrams!Elapse(f)
  PROVE  DatagramInv'
<1> USE DEF DatagramInv, FlowTypes
<1> DEFINE g == flows[f]
           h == Datagrams!InHand(f)
<1>1. /\ g \in FlowRecord /\ g.got \in Seq(Nat) /\ g.incoming \in Seq(Nat)
      /\ accepted[f] \in Seq(Nat)
  <2>1. g \in FlowRecord /\ accepted[f] \in Seq(Nat)  OBVIOUS
  <2> QED  BY <2>1 DEF FlowRecord
<1>0. << >> \in Seq(Nat)  BY EmptySeq
<1>2. h \in Seq(Nat)  BY DEF InDelivery, Datagrams!InHand
<1>3. g.task = "over" => Prefix(g.got, accepted[f])  BY DEF Received
<1>4. g.task # "over" => g.got \o g.incoming \o h = accepted[f]  BY DEF Received
<1>5. Prefix(g.got, accepted[f])
  <2>1. CASE g.task # "over"
    <3>1. g.got \o g.incoming \o h = accepted[f]  BY <1>4, <2>1
    <3> HIDE DEF g, h
    <3>2. Prefix(g.got, g.got \o g.incoming \o h)  BY <1>1, <1>2, <1>2, PieceFacts
    <3> QED  BY <3>1, <3>2
  <2> QED  BY <1>3, <2>1
<1>6. CASE Datagrams!Dialled(f)
  <2>1. PICK ok \in BOOLEAN :
          flows' = [flows EXCEPT ![f].task = IF ok THEN "relaying" ELSE "over",
                                 ![f].incoming = IF ok THEN @ ELSE << >>]
    BY <1>6 DEF Datagrams!Dialled
  <2>2. UNCHANGED <<loop, sessions, accepted, payloads>> /\ g.task = "dialing"
    BY <1>6 DEF Datagrams!Dialled, Datagrams!Step
  <2>3. CASE ok
    <3> DEFINE r == [g EXCEPT !.task = "relaying"]
    <3>1. flows' = [flows EXCEPT ![f] = r]  BY <2>1, <2>3 DEF FlowRecord
    <3>2. r \in FlowRecord /\ r.id = g.id /\ r.task # "over" /\ r.got = g.got
          /\ r.incoming = g.incoming
      BY <1>1 DEF FlowRecord
    <3> HIDE DEF r
    <3> QED  BY <1>4, <2>2, <3>1, <3>2, OneFlowInv
  <2>4. CASE ~ok
    <3> DEFINE r == [g EXCEPT !.task = "over", !.incoming = << >>]
    <3>1. flows' = [flows EXCEPT ![f] = r]  BY <2>1, <2>4 DEF FlowRecord
    <3>2. r \in FlowRecord /\ r.id = g.id /\ r.task = "over" /\ r.got = g.got
      BY <1>0, <1>1 DEF FlowRecord
    <3> HIDE DEF r
    <3> QED  BY <1>5, <2>2, <3>1, <3>2, OneFlowInv
  <2> QED  BY <2>3, <2>4
<1>7. CASE Datagrams!Upload(f)
  <2> DEFINE r == [g EXCEPT !.incoming = Tail(@), !.got = Append(@, Head(g.incoming)),
                            !.idle = FALSE]
  <2>1. /\ UNCHANGED <<loop, sessions, accepted, payloads>> /\ g.task = "relaying"
        /\ g.incoming # << >>
        /\ flows' = [flows EXCEPT ![f].incoming = Tail(@),
                                  ![f].got = Append(@, Head(flows[f].incoming)),
                                  ![f].idle = FALSE]
    BY <1>7 DEF Datagrams!Upload, Datagrams!Step
  <2>2. flows' = [flows EXCEPT ![f] = r]  BY <2>1 DEF FlowRecord
  <2>3. Head(g.incoming) \in Nat /\ Tail(g.incoming) \in Seq(Nat)
        /\ Append(g.got, Head(g.incoming)) \in Seq(Nat)
    BY SMTT(30), <1>1, <2>1
  <2>4. r \in FlowRecord /\ r.id = g.id /\ r.task = g.task
        /\ r.got = Append(g.got, Head(g.incoming)) /\ r.incoming = Tail(g.incoming)
    BY <1>1, <2>3 DEF FlowRecord
  <2>5. r.got \o r.incoming \o h = accepted[f]
    <3>1. g.got \o g.incoming \o h = accepted[f]  BY <1>4, <2>1
    <3> HIDE DEF g, h, r
    <3>2. Append(g.got, Head(g.incoming)) \o Tail(g.incoming) \o h = g.got \o g.incoming \o h
      BY ZenonT(30), <1>1, <1>2, <2>1, PieceFacts
    <3> QED  BY <2>4, <3>1, <3>2
  <2> HIDE DEF r
  <2> QED  BY <2>1, <2>2, <2>4, <2>5, OneFlowInv
<1>8. CASE Datagrams!FlowEnds(f) \/ Datagrams!FlowFails(f)
  <2>1. /\ UNCHANGED <<loop, sessions, accepted, payloads>>
        /\ \/ flows' = [flows EXCEPT ![f].task = "over"]
           \/ flows' = [flows EXCEPT ![f].task = "over", ![f].incoming = << >>]
    BY <1>8 DEF Datagrams!FlowEnds, Datagrams!FlowFails
  <2>2. PICK r \in FlowRecord :
          flows' = [flows EXCEPT ![f] = r] /\ r.id = g.id /\ r.task = "over" /\ r.got = g.got
    <3>1. CASE flows' = [flows EXCEPT ![f].task = "over"]
      <4> DEFINE r == [g EXCEPT !.task = "over"]
      <4>1. r \in FlowRecord /\ flows' = [flows EXCEPT ![f] = r]
            /\ r.id = g.id /\ r.task = "over" /\ r.got = g.got
        BY <1>1, <3>1 DEF FlowRecord
      <4> HIDE DEF r
      <4> QED  BY <4>1
    <3>2. CASE flows' = [flows EXCEPT ![f].task = "over", ![f].incoming = << >>]
      <4> DEFINE r == [g EXCEPT !.task = "over", !.incoming = << >>]
      <4>1. r \in FlowRecord /\ flows' = [flows EXCEPT ![f] = r]
            /\ r.id = g.id /\ r.task = "over" /\ r.got = g.got
        BY <1>0, <1>1, <3>2 DEF FlowRecord
      <4> HIDE DEF r
      <4> QED  BY <4>1
    <3> QED  BY <2>1, <3>1, <3>2
  <2> QED  BY <1>5, <2>1, <2>2, OneFlowInv
<1>9. CASE Datagrams!Reply(f) \/ Datagrams!Elapse(f)
  <2>1. /\ UNCHANGED <<loop, sessions, accepted, payloads>>
        /\ \/ flows' = [flows EXCEPT ![f].idle = FALSE, ![f].replied = TRUE]
           \/ flows' = [flows EXCEPT ![f].idle = TRUE]
    BY <1>9 DEF Datagrams!Reply, Datagrams!Elapse
  <2>2. PICK r \in FlowRecord :
          flows' = [flows EXCEPT ![f] = r] /\ r.id = g.id /\ r.task = g.task
          /\ r.got = g.got /\ r.incoming = g.incoming
    <3>1. CASE flows' = [flows EXCEPT ![f].idle = FALSE, ![f].replied = TRUE]
      <4> DEFINE r == [g EXCEPT !.idle = FALSE, !.replied = TRUE]
      <4>1. r \in FlowRecord /\ flows' = [flows EXCEPT ![f] = r]
            /\ r.id = g.id /\ r.task = g.task /\ r.got = g.got /\ r.incoming = g.incoming
        BY <1>1, <3>1 DEF FlowRecord
      <4> HIDE DEF r
      <4> QED  BY <4>1
    <3>2. CASE flows' = [flows EXCEPT ![f].idle = TRUE]
      <4> DEFINE r == [g EXCEPT !.idle = TRUE]
      <4>1. r \in FlowRecord /\ flows' = [flows EXCEPT ![f] = r]
            /\ r.id = g.id /\ r.task = g.task /\ r.got = g.got /\ r.incoming = g.incoming
        BY <1>1, <3>2 DEF FlowRecord
      <4> HIDE DEF r
      <4> QED  BY <4>1
    <3> QED  BY <2>1, <3>1, <3>2
  <2> QED  BY <1>3, <1>4, <2>1, <2>2, OneFlowInv
<1> QED  BY <1>6, <1>7, <1>8, <1>9 DEF Datagrams!FlowStep

(* What a registration or a payload for flow f brings is what the loop     *)
(* then hands over.                                                        *)
Brings(id, bundle) ==
    \/ bundle = << >> /\ UNCHANGED <<loop, payloads>>
    \/ /\ payloads' = payloads + 1 /\ bundle = <<payloads + 1>>
       /\ loop' = [at |-> "deliver", id |-> id, payload |-> payloads + 1]

(* The payload in hand belongs to the flow it is delivered to.             *)
LEMMA BringsFacts ==
  ASSUME DatagramInv, loop.at = "select", NEW id \in Ids, NEW bundle, Brings(id, bundle)
  PROVE  /\ bundle \in Seq(Nat) /\ payloads' \in Nat
         /\ loop'.at = "deliver" => loop'.id = id /\ loop'.payload \in Nat
         /\ \A k : Datagrams!InHand(k)' = IF sessions'[id] = k THEN bundle ELSE << >>
         /\ \A k : Datagrams!InHand(k) = << >>
<1>0. payloads \in Nat /\ << >> \in Seq(Nat)  BY EmptySeq DEF DatagramInv, FlowTypes
<1>1. CASE bundle = << >> /\ UNCHANGED <<loop, payloads>>
  BY <1>0, <1>1 DEF Datagrams!InHand
<1>2. CASE /\ payloads' = payloads + 1 /\ bundle = <<payloads + 1>>
           /\ loop' = [at |-> "deliver", id |-> id, payload |-> payloads + 1]
  BY <1>0, <1>2 DEF Datagrams!InHand
<1> QED  BY <1>1, <1>2 DEF Brings

(* A new flow.                                                             *)
LEMMA NewFlowInv ==
  ASSUME DatagramInv, loop.at = "select", NEW id \in Ids, NEW bundle, Brings(id, bundle),
         sessions[id] = 0,
         flows' = Append(flows, Datagrams!NewFlow(id)),
         accepted' = Append(accepted, bundle),
         sessions' = [sessions EXCEPT ![id] = Len(flows) + 1]
  PROVE  DatagramInv'
<1> USE DEF DatagramInv, FlowTypes
<1> DEFINE n == Len(flows)
           g == Datagrams!NewFlow(id)
<1>1. /\ bundle \in Seq(Nat) /\ payloads' \in Nat
      /\ loop'.at = "deliver" => loop'.id = id /\ loop'.payload \in Nat
      /\ \A k : Datagrams!InHand(k)' = IF sessions'[id] = k THEN bundle ELSE << >>
      /\ \A k : Datagrams!InHand(k) = << >>
  BY BringsFacts
<1>2. << >> \in Seq(Nat)  BY EmptySeq
<1>3. /\ g \in FlowRecord /\ g.id = id /\ g.task = "dialing" /\ g.got = << >>
      /\ g.incoming = << >>
  BY <1>2 DEF Datagrams!NewFlow, FlowRecord
<1> HIDE DEF g
<1>4. /\ n \in Nat /\ flows' \in Seq(FlowRecord) /\ Len(flows') = n + 1
      /\ flows'[n + 1] = g /\ \A k \in 1 .. n : flows'[k] = flows[k]
  BY <1>3 DEF g
<1>5. /\ accepted' \in Seq(Seq(Nat)) /\ Len(accepted') = n + 1
      /\ accepted'[n + 1] = bundle /\ \A k \in 1 .. n : accepted'[k] = accepted[k]
  BY <1>1
<1>6. /\ sessions' \in [Ids -> 0 .. (n + 1)] /\ sessions'[id] = n + 1
      /\ \A d \in Ids : d # id => sessions'[d] = sessions[d]
  BY <1>4
<1>7. FlowTypes'  BY <1>1, <1>4, <1>5, <1>6
<1>8. OneSession'
  <2> SUFFICES ASSUME NEW d \in Ids, sessions'[d] # 0 PROVE flows'[sessions'[d]].id = d
    BY DEF OneSession
  <2>1. CASE d = id  BY <1>3, <1>4, <1>6, <2>1
  <2>2. CASE d # id
    <3>1. sessions[d] \in 1 .. n  BY <1>4, <1>6, <2>2
    <3> QED  BY <1>4, <1>6, <2>2, <3>1 DEF OneSession
  <2> QED  BY <2>1, <2>2
<1>9. InDelivery'  BY <1>1, <1>4, <1>6 DEF InDelivery
<1>10. Received'
  <2> SUFFICES ASSUME NEW k \in 1 .. (n + 1)
               PROVE  IF flows'[k].task = "over" THEN Prefix(flows'[k].got, accepted'[k])
                      ELSE flows'[k].got \o flows'[k].incoming \o Datagrams!InHand(k)'
                           = accepted'[k]
    BY <1>4 DEF Received
  <2>1. CASE k = n + 1
    <3>1. << >> \o << >> \o bundle = bundle
      BY <1>1, <1>2, ConcatEmptySeq
    <3>2. Datagrams!InHand(k)' = bundle  BY <1>1, <1>6, <2>1
    <3> QED  BY ZenonT(30), <1>3, <1>4, <1>5, <2>1, <3>1, <3>2
  <2>2. CASE k \in 1 .. n
    <3>1. Datagrams!InHand(k)' = << >> /\ Datagrams!InHand(k) = << >>
      BY <1>1, <1>4, <1>6, <2>2
    <3>2. IF flows[k].task = "over" THEN Prefix(flows[k].got, accepted[k])
          ELSE flows[k].got \o flows[k].incoming \o Datagrams!InHand(k) = accepted[k]
      BY <2>2 DEF Received
    <3>3. flows'[k] = flows[k] /\ accepted'[k] = accepted[k]  BY <1>4, <1>5, <2>2
    <3>4. CASE flows[k].task = "over"  BY <3>2, <3>3, <3>4
    <3>5. CASE flows[k].task # "over"
      <4>1. flows[k].got \o flows[k].incoming \o << >> = accepted[k]  BY <3>1, <3>2, <3>5
      <4> QED  BY <3>1, <3>3, <3>5, <4>1
    <3> QED  BY <3>4, <3>5
  <2>3. k = n + 1 \/ k \in 1 .. n  BY <1>4
  <2> QED  BY <2>1, <2>2, <2>3
<1> QED  BY <1>7, <1>8, <1>9, <1>10

(* A payload for a flow that is there.                                     *)
MoreFor(f, bundle, b) ==
    /\ flows' = [flows EXCEPT ![f].idle = b]
    /\ accepted' = [accepted EXCEPT ![f] = @ \o bundle]
    /\ UNCHANGED sessions

(* The loop goes into delivery for an existing flow.                       *)
LEMMA MoreForFlowInv ==
  ASSUME DatagramInv, loop.at = "select", NEW id \in Ids, NEW bundle, Brings(id, bundle),
         sessions[id] # 0, NEW b \in BOOLEAN, MoreFor(sessions[id], bundle, b)
  PROVE  DatagramInv'
<1> USE DEF DatagramInv, FlowTypes
<1> DEFINE f == sessions[id]
<1>0. sessions' = sessions  BY DEF MoreFor
<1>1. /\ bundle \in Seq(Nat) /\ payloads' \in Nat
      /\ loop'.at = "deliver" => loop'.id = id /\ loop'.payload \in Nat
      /\ \A k : Datagrams!InHand(k)' = IF f = k THEN bundle ELSE << >>
      /\ \A k : Datagrams!InHand(k) = << >>
  BY <1>0, BringsFacts
<1>2. f \in 1 .. Len(flows)  OBVIOUS
<1> HIDE DEF f
<1>3. /\ flows' = [flows EXCEPT ![f].idle = b] /\ accepted' = [accepted EXCEPT ![f] = @ \o bundle]
  BY DEF f, MoreFor
<1>4. /\ flows[f] \in FlowRecord /\ accepted[f] \in Seq(Nat) /\ accepted[f] \o bundle \in Seq(Nat)
  BY <1>1, <1>2
<1>5. /\ flows' \in Seq(FlowRecord) /\ Len(flows') = Len(flows)
      /\ \A k \in 1 .. Len(flows) :
           /\ flows'[k].id = flows[k].id /\ flows'[k].task = flows[k].task
           /\ flows'[k].got = flows[k].got /\ flows'[k].incoming = flows[k].incoming
  <2> DEFINE r == [flows[f] EXCEPT !.idle = b]
  <2>1. /\ r \in FlowRecord /\ r.id = flows[f].id /\ r.task = flows[f].task
        /\ r.got = flows[f].got /\ r.incoming = flows[f].incoming
        /\ flows' = [flows EXCEPT ![f] = r]
    BY <1>3, <1>4 DEF FlowRecord
  <2> HIDE DEF r
  <2>2. /\ flows' \in Seq(FlowRecord) /\ Len(flows') = Len(flows)
        /\ \A k \in 1 .. Len(flows) : flows'[k] = IF k = f THEN r ELSE flows[k]
    <3>1. flows \in Seq(FlowRecord)  OBVIOUS
    <3> QED  BY <1>2, <2>1, <3>1, UpdateFacts
  <2>3. ASSUME NEW k \in 1 .. Len(flows)
        PROVE  /\ flows'[k].id = flows[k].id /\ flows'[k].task = flows[k].task
               /\ flows'[k].got = flows[k].got /\ flows'[k].incoming = flows[k].incoming
    <3>1. CASE k = f  BY <2>1, <2>2, <3>1
    <3>2. CASE k # f
      <4>1. flows'[k] = flows[k]  BY <2>2, <3>2
      <4> QED  BY <4>1
    <3> QED  BY <3>1, <3>2
  <2> QED  BY <2>2, <2>3
<1>6. /\ accepted' \in Seq(Seq(Nat)) /\ Len(accepted') = Len(flows)
      /\ \A k \in 1 .. Len(flows) : accepted'[k] = IF k = f THEN accepted[k] \o bundle
                                                  ELSE accepted[k]
  <2> DEFINE a == accepted[f] \o bundle
  <2>1. accepted' = [accepted EXCEPT ![f] = a] /\ a \in Seq(Nat)  BY <1>3, <1>4
  <2> HIDE DEF a
  <2>2. /\ accepted' \in Seq(Seq(Nat)) /\ Len(accepted') = Len(accepted)
        /\ \A k \in 1 .. Len(accepted) : accepted'[k] = IF k = f THEN a ELSE accepted[k]
    <3>1. accepted \in Seq(Seq(Nat)) /\ f \in 1 .. Len(accepted)  BY <1>2
    <3> QED  BY <2>1, <3>1, UpdateFacts
  <2> QED  BY <2>2 DEF a
<1>7. FlowTypes'  BY <1>0, <1>1, <1>5, <1>6
<1>8. OneSession'
  <2> SUFFICES ASSUME NEW d \in Ids, sessions[d] # 0 PROVE flows'[sessions[d]].id = d
    BY <1>0 DEF OneSession
  <2>1. sessions[d] \in 1 .. Len(flows) /\ flows[sessions[d]].id = d  BY DEF OneSession
  <2> QED  BY <1>5, <2>1
<1>9. InDelivery'  BY <1>0, <1>1, <1>2 DEF InDelivery, f
<1>10. Received'
  <2> SUFFICES ASSUME NEW k \in 1 .. Len(flows)
               PROVE  IF flows[k].task = "over" THEN Prefix(flows[k].got, accepted'[k])
                      ELSE flows[k].got \o flows[k].incoming \o Datagrams!InHand(k)'
                           = accepted'[k]
    BY <1>5 DEF Received
  <2>1. IF flows[k].task = "over" THEN Prefix(flows[k].got, accepted[k])
        ELSE flows[k].got \o flows[k].incoming \o << >> = accepted[k]
    BY <1>1 DEF Received
  <2>2. CASE k # f  BY <1>1, <1>6, <2>1, <2>2
  <2>3. CASE k = f
    <3>1. /\ flows[f].got \in Seq(Nat) /\ flows[f].incoming \in Seq(Nat)
      BY <1>4 DEF FlowRecord
    <3>2. CASE flows[f].task = "over"
      BY <1>1, <1>4, <1>6, <2>1, <2>3, <3>1, <3>2, PrefixGrows
    <3>3. CASE flows[f].task # "over"
      <4>1. (flows[f].got \o flows[f].incoming \o << >>) \o bundle
              = flows[f].got \o flows[f].incoming \o bundle
        BY <1>1, <3>1, PieceFacts
      <4> QED  BY <1>1, <1>6, <2>1, <2>3, <3>3, <4>1
    <3> QED  BY <3>2, <3>3
  <2> QED  BY <2>2, <2>3
<1> QED  BY <1>7, <1>8, <1>9, <1>10

(* The loop hands the payload over.                                        *)
LEMMA DeliverInv ==
  ASSUME DatagramInv, Datagrams!Deliver
  PROVE  DatagramInv'
<1> USE DEF DatagramInv, FlowTypes
<1> DEFINE f == sessions[loop.id]
<1>1. /\ loop.at = "deliver" /\ loop'.at = "select"
      /\ UNCHANGED <<sessions, accepted, payloads>>
      /\ \/ flows[f].task = "over" /\ flows' = flows
         \/ /\ flows[f].task # "over"
            /\ flows' = [flows EXCEPT ![f].incoming = Append(@, loop.payload)]
  BY DEF Datagrams!Deliver, Datagrams!At
<1>2. f \in 1 .. Len(flows) /\ loop.payload \in Nat  BY <1>1 DEF InDelivery
<1>3. \A k : /\ Datagrams!InHand(k) = IF k = f THEN <<loop.payload>> ELSE << >>
             /\ Datagrams!InHand(k)' = << >>
  BY <1>1 DEF Datagrams!InHand
<1> HIDE DEF f
<1>4. flows[f] \in FlowRecord /\ flows[f].got \in Seq(Nat) /\ flows[f].incoming \in Seq(Nat)
  <2>1. flows[f] \in FlowRecord  BY <1>2
  <2> QED  BY <2>1 DEF FlowRecord
<1>5. InDelivery'  BY <1>1 DEF InDelivery
<1>6. CASE flows[f].task = "over" /\ flows' = flows
  <2>1. FlowTypes' /\ OneSession'  BY <1>1, <1>6 DEF OneSession
  <2>2. Received'
    <3> SUFFICES ASSUME NEW k \in 1 .. Len(flows)
                 PROVE  IF flows[k].task = "over" THEN Prefix(flows[k].got, accepted[k])
                        ELSE flows[k].got \o flows[k].incoming \o << >> = accepted[k]
      BY <1>1, <1>3, <1>6 DEF Received
    <3>1. CASE k = f  BY <1>6, <3>1 DEF Received
    <3>2. CASE k # f  BY <1>3, <3>2 DEF Received
    <3> QED  BY <3>1, <3>2
  <2> QED  BY <1>5, <2>1, <2>2
<1>7. CASE flows[f].task # "over"
  <2> DEFINE r == [flows[f] EXCEPT !.incoming = Append(@, loop.payload)]
  <2>1. /\ r \in FlowRecord /\ r.id = flows[f].id /\ r.task = flows[f].task
        /\ r.got = flows[f].got /\ r.incoming = Append(flows[f].incoming, loop.payload)
    <3>1. Append(flows[f].incoming, loop.payload) \in Seq(Nat)  BY <1>2, <1>4
    <3> QED  BY <1>4, <3>1 DEF FlowRecord
  <2>2. flows' = [flows EXCEPT ![f] = r]  BY <1>1, <1>7, <1>4 DEF FlowRecord
  <2> HIDE DEF r
  <2>3. /\ flows' \in Seq(FlowRecord) /\ Len(flows') = Len(flows)
        /\ \A k \in 1 .. Len(flows) : flows'[k] = IF k = f THEN r ELSE flows[k]
    BY <1>2, <2>1, <2>2
  <2>4. FlowTypes'  BY <1>1, <2>3
  <2>5. OneSession'  BY <1>1, <2>1, <2>3 DEF OneSession
  <2>6. Received'
    <3> SUFFICES ASSUME NEW k \in 1 .. Len(flows)
                 PROVE  IF flows'[k].task = "over" THEN Prefix(flows'[k].got, accepted[k])
                        ELSE flows'[k].got \o flows'[k].incoming \o << >> = accepted[k]
      BY <1>1, <1>3, <2>3 DEF Received
    <3>1. CASE k = f
      <4>1. flows[f].got \o flows[f].incoming \o <<loop.payload>> = accepted[f]
        BY <1>2, <1>3, <1>7 DEF Received
      <4>2. flows[f].got \o Append(flows[f].incoming, loop.payload) \o << >>
              = flows[f].got \o flows[f].incoming \o <<loop.payload>>
        BY ZenonT(30), <1>2, <1>4, PieceFacts
      <4> QED  BY <1>7, <2>1, <2>3, <3>1, <4>1, <4>2
    <3>2. CASE k # f  BY <1>3, <2>3, <3>2 DEF Received
    <3> QED  BY <3>1, <3>2
  <2> QED  BY <1>5, <2>4, <2>5, <2>6
<1> QED  BY <1>1, <1>6, <1>7

(* The LocalSet ends, and every flow with it.                              *)
AllOver ==
    /\ loop'.at # "deliver"
    /\ sessions' = [id \in Ids |-> 0]
    /\ flows' = [f \in 1 .. Len(flows) |->
                    [flows[f] EXCEPT !.task = "over", !.incoming = << >>]]
    /\ UNCHANGED <<accepted, payloads>>

(* Every session is dropped, every task ends.                              *)
LEMMA AllOverInv ==
  ASSUME DatagramInv, AllOver
  PROVE  DatagramInv'
<1> USE DEF DatagramInv, FlowTypes
<1> DEFINE over(f) == [flows[f] EXCEPT !.task = "over", !.incoming = << >>]
<1>0. /\ \A f \in 1 .. Len(flows) : flows'[f] = over(f)
      /\ flows' = [f \in 1 .. Len(flows) |-> over(f)]
      /\ loop'.at # "deliver" /\ sessions' = [id \in Ids |-> 0]
      /\ UNCHANGED <<accepted, payloads>>
  BY DEF AllOver
<1>1. ASSUME NEW f \in 1 .. Len(flows)
      PROVE  /\ flows'[f] \in FlowRecord /\ flows'[f].task = "over"
             /\ Prefix(flows'[f].got, accepted[f])
  <2>1. flows[f] \in FlowRecord  OBVIOUS
  <2>2. << >> \in Seq(Nat)  BY EmptySeq
  <2>3. flows[f].got \in Seq(Nat) /\ flows[f].incoming \in Seq(Nat)  BY <2>1 DEF FlowRecord
  <2>4. over(f) \in FlowRecord /\ over(f).task = "over" /\ over(f).got = flows[f].got
    BY <2>1, <2>2 DEF FlowRecord
  <2>5. Datagrams!InHand(f) \in Seq(Nat)  BY <2>2 DEF InDelivery, Datagrams!InHand
  <2>6. Prefix(flows[f].got, accepted[f])
    <3>1. CASE flows[f].task = "over"  BY <3>1 DEF Received
    <3>2. CASE flows[f].task # "over"
      <4>1. flows[f].got \o flows[f].incoming \o Datagrams!InHand(f) = accepted[f]
        BY <3>2 DEF Received
      <4>2. Prefix(flows[f].got, flows[f].got \o flows[f].incoming \o Datagrams!InHand(f))
        BY <2>3, <2>5, PieceFacts
      <4> QED  BY <4>1, <4>2
    <3> QED  BY <3>1, <3>2
  <2> HIDE DEF over
  <2> QED  BY <1>0, <2>4, <2>6
<1> HIDE DEF over
<1>2. flows' \in Seq(FlowRecord) /\ Len(flows') = Len(flows)
  <2>1. \A f \in 1 .. Len(flows) : over(f) \in FlowRecord  BY <1>0, <1>1
  <2> QED  BY <1>0, <2>1
<1>3. FlowTypes'  BY <1>0, <1>2
<1>4. OneSession' /\ InDelivery'  BY <1>0 DEF OneSession, InDelivery
<1>5. Received'  BY <1>0, <1>1, <1>2 DEF Received
<1> QED  BY <1>3, <1>4, <1>5

(* Every step of the datagram loop and its flows keeps the invariant.      *)
LEMMA DatagramNextInv ==
  DatagramInv /\ [Datagrams!DatagramNext]_datagramVars => DatagramInv'
<1> SUFFICES ASSUME DatagramInv, [Datagrams!DatagramNext]_datagramVars PROVE DatagramInv'
  OBVIOUS
<1>1. ASSUME NEW id \in Ids, Datagrams!Register(id) PROVE DatagramInv'
  <2>1. loop.at = "select"  BY <1>1 DEF Datagrams!Register
  <2>2. PICK bundle : Datagrams!Admit(id, bundle) /\ Brings(id, bundle)
    BY <1>1 DEF Datagrams!Register, Datagrams!BeginDeliver, Brings
  <2>3. CASE sessions[id] = 0
    BY <2>1, <2>2, <2>3, NewFlowInv DEF Datagrams!Admit
  <2>4. CASE sessions[id] # 0
    <3>1. /\ flows' = [flows EXCEPT ![sessions[id]].idle = @ /\ bundle = << >>]
          /\ accepted' = [accepted EXCEPT ![sessions[id]] = @ \o bundle]
          /\ sessions' = sessions
      BY <2>2, <2>4 DEF Datagrams!Admit
    <3> DEFINE b == flows[sessions[id]].idle /\ bundle = << >>
    <3>2. flows' = [flows EXCEPT ![sessions[id]].idle = b] /\ b \in BOOLEAN  BY <3>1
    <3> HIDE DEF b
    <3>3. MoreFor(sessions[id], bundle, b)  BY <3>1, <3>2 DEF MoreFor
    <3> QED  BY <2>1, <2>2, <2>4, <3>2, <3>3, MoreForFlowInv
  <2> QED  BY <2>3, <2>4
<1>2. ASSUME NEW id \in Ids, Datagrams!ReadPayload(id) PROVE DatagramInv'
  <2> DEFINE bundle == <<payloads + 1>>
  <2>1. /\ loop.at = "select" /\ sessions[id] # 0 /\ Brings(id, bundle) /\ sessions' = sessions
        /\ flows' = [flows EXCEPT ![sessions[id]].idle = FALSE]
        /\ accepted' = [accepted EXCEPT ![sessions[id]] = Append(@, payloads + 1)]
    BY <1>2 DEF Datagrams!ReadPayload, Datagrams!BeginDeliver, Brings
  <2>2. accepted[sessions[id]] \in Seq(Nat) /\ payloads + 1 \in Nat
    BY <2>1 DEF DatagramInv, FlowTypes
  <2>3. Append(accepted[sessions[id]], payloads + 1) = accepted[sessions[id]] \o bundle
    BY <2>2, AppendIsConcat
  <2>4. accepted' = [accepted EXCEPT ![sessions[id]] = @ \o bundle]  BY <2>1, <2>3
  <2> HIDE DEF bundle
  <2>5. MoreFor(sessions[id], bundle, FALSE)  BY <2>1, <2>4 DEF MoreFor
  <2> QED  BY <2>1, <2>5, MoreForFlowInv
<1>3. CASE Datagrams!ReadMalformed \/ Datagrams!Return
  <2>1. loop'.at # "deliver"
    <3>1. loop' = Datagrams!At("failed") \/ loop' = Datagrams!At("returned")
      BY <1>3, Zenon DEF Datagrams!ReadMalformed, Datagrams!Return
    <3> QED  BY <3>1 DEF Datagrams!At
  <2>2. /\ sessions' = [id \in Ids |-> 0] /\ UNCHANGED <<accepted, payloads>>
        /\ flows' = [f \in 1 .. Len(flows) |->
                        [flows[f] EXCEPT !.task = "over", !.incoming = << >>]]
    BY <1>3, Zenon DEF Datagrams!ReadMalformed, Datagrams!Return, Datagrams!Flows
  <2>3. AllOver  BY <2>1, <2>2, Zenon DEF AllOver
  <2> QED  BY <2>3, AllOverInv
<1>4. CASE Datagrams!Tick
  <2>1. /\ UNCHANGED <<loop, flows, accepted, payloads>> /\ loop.at = "select"
        /\ sessions' = [id \in Ids |-> IF sessions[id] # 0 /\ flows[sessions[id]].idle
                                       THEN 0 ELSE sessions[id]]
    BY <1>4 DEF Datagrams!Tick
  <2>2. FlowTypes'  BY <2>1 DEF DatagramInv, FlowTypes
  <2>3. \A id \in Ids : sessions'[id] # 0 => sessions'[id] = sessions[id]  BY <2>1
  <2>4. OneSession'  BY <2>1, <2>3 DEF DatagramInv, OneSession
  <2>5. InDelivery'  BY <2>1 DEF InDelivery
  <2>6. Received'  BY <2>1 DEF DatagramInv, Received, Datagrams!InHand
  <2> QED  BY <2>2, <2>4, <2>5, <2>6 DEF DatagramInv
<1>5. CASE Datagrams!Shutdown
  <2>1. UNCHANGED <<sessions, flows, accepted, payloads>> /\ loop.at = "select" /\ loop'.at = "grace"
    BY <1>5 DEF Datagrams!Shutdown, Datagrams!At
  <2>2. Received'  BY <2>1 DEF DatagramInv, Received, Datagrams!InHand
  <2> QED  BY <2>1, <2>2 DEF DatagramInv, FlowTypes, OneSession, InDelivery
<1>6. CASE \/ Datagrams!SendReply \/ Datagrams!RequestStop \/ UNCHANGED datagramVars
           \/ \E id \in Ids : Datagrams!V2Register(id) \/ Datagrams!V2Payload(id)
  <2>1. /\ UNCHANGED <<loop, sessions, flows, accepted>>
        /\ payloads' = payloads \/ payloads' = payloads + 1
    BY <1>6 DEF Datagrams!SendReply, Datagrams!RequestStop, Datagrams!V2Register,
                Datagrams!V2Payload, datagramVars
  <2>2. Received'  BY <2>1 DEF DatagramInv, Received, Datagrams!InHand
  <2> QED  BY <2>1, <2>2 DEF DatagramInv, FlowTypes, OneSession, InDelivery
<1>7. ASSUME NEW f \in 1 .. Len(flows),
             \/ Datagrams!FlowStep(f) \/ Datagrams!Reply(f) \/ Datagrams!FlowFails(f)
             \/ Datagrams!Elapse(f)
      PROVE  DatagramInv'
  BY <1>7, FlowNextInv
<1> QED
  BY <1>1, <1>2, <1>3, <1>4, <1>5, <1>6, <1>7, DeliverInv
  DEF Datagrams!DatagramNext, Datagrams!LoopStep, Datagrams!Flows
-----------------------------------------------------------------------------
(* A body of numbered bytes.                                               *)
LEMMA BytesFacts ==
  ASSUME NEW n \in Nat
  PROVE  /\ Origin!Bytes(n) \in Seq(Nat) /\ Origin!Bytes(n) \in Seq(Int)
         /\ Len(Origin!Bytes(n)) = n
         /\ \A i \in 1 .. n : Origin!Bytes(n)[i] = i
         /\ Append(Origin!Bytes(n), n + 1) = Origin!Bytes(n + 1)
         /\ << >> = Origin!Bytes(0)
<1>1. /\ Origin!Bytes(n) \in Seq(Nat) /\ Origin!Bytes(n) \in Seq(Int) /\ Len(Origin!Bytes(n)) = n
      /\ \A i \in 1 .. n : Origin!Bytes(n)[i] = i
  BY DEF Origin!Bytes
<1>2. /\ Origin!Bytes(n + 1) \in Seq(Nat) /\ Len(Origin!Bytes(n + 1)) = n + 1
      /\ \A i \in 1 .. (n + 1) : Origin!Bytes(n + 1)[i] = i
  BY DEF Origin!Bytes
<1> DEFINE s == Append(Origin!Bytes(n), n + 1)
<1>3. s \in Seq(Nat) /\ Len(s) = n + 1 /\ \A i \in 1 .. (n + 1) : s[i] = i
  BY <1>1
<1> HIDE DEF s
<1>4. s = Origin!Bytes(n + 1)  BY <1>2, <1>3, SeqEqual
<1>5. << >> = Origin!Bytes(0)  BY DEF Origin!Bytes
<1> QED  BY <1>1, <1>4, <1>5 DEF s

(* Two sequences one after the other.                                      *)
LEMMA ConcatFacts ==
  ASSUME NEW s \in Seq(Int), NEW t \in Seq(Int)
  PROVE  /\ s \o t \in Seq(Int) /\ Len(s \o t) = Len(s) + Len(t)
         /\ \A i \in 1 .. Len(s) : (s \o t)[i] = s[i]
         /\ \A i \in 1 .. Len(t) : (s \o t)[Len(s) + i] = t[i]
<1>1. /\ s \o t \in Seq(Int) /\ Len(s \o t) = Len(s) + Len(t)
      /\ \A i \in 1 .. Len(s) + Len(t) :
            (s \o t)[i] = IF i <= Len(s) THEN s[i] ELSE t[i - Len(s)]
  BY ConcatProperties
<1>2. Len(s) \in Nat /\ Len(t) \in Nat  OBVIOUS
<1>3. ASSUME NEW i \in 1 .. Len(t)  PROVE (s \o t)[Len(s) + i] = t[i]
  <2>1. /\ Len(s) + i \in 1 .. Len(s) + Len(t) /\ ~(Len(s) + i <= Len(s))
        /\ (Len(s) + i) - Len(s) = i
    BY <1>2
  <2> QED  BY <1>1, <2>1
<1>4. ASSUME NEW i \in 1 .. Len(s)  PROVE (s \o t)[i] = s[i]
  <2>1. i \in 1 .. Len(s) + Len(t) /\ i <= Len(s)  BY <1>2
  <2> QED  BY <1>1, <2>1
<1> QED  BY <1>1, <1>3, <1>4

(* A chunked body of n bytes: sizes, content and the last chunk.           *)
ChunkedShape(w, n) ==
    /\ w \in Seq(Int)
    /\ n = 0 => Len(w) = 1 /\ w[1] = 0
    /\ n = 1 => Len(w) = 3 /\ w[1] = -1 /\ w[2] = 1 /\ w[3] = 0
    /\ n >= 2 => /\ Len(w) = n + 3 /\ w[1] = -1 /\ w[2] = 1 /\ w[3] = -(n - 1)
                 /\ \A i \in 4 .. (n + 2) : w[i] = i - 2
                 /\ w[n + 3] = 0

(* Chunked has that shape.                                                 *)
LEMMA ChunkedFacts ==
  ASSUME NEW n \in Nat
  PROVE  ChunkedShape(Origin!Chunked(n), n)
<1> DEFINE w == Origin!Chunked(n)
           z == <<0>>
<1>z. z \in Seq(Int) /\ Len(z) = 1 /\ z[1] = 0  OBVIOUS
<1>1. CASE n = 0
  <2>1. w = << >> \o z  BY <1>1 DEF Origin!Chunked
  <2>2. w = z  BY <1>z, <2>1, ConcatEmptySeq
  <2> HIDE DEF w, z
  <2> QED  BY <1>1, <1>z, <2>2 DEF ChunkedShape, w
<1>2. CASE n = 1
  <2> DEFINE a == << -1, 1 >>
  <2>1. w = a \o z  BY <1>2 DEF Origin!Chunked
  <2>2. a \in Seq(Int) /\ Len(a) = 2 /\ a[1] = -1 /\ a[2] = 1  OBVIOUS
  <2> HIDE DEF a, z, w
  <2>3. /\ w \in Seq(Int) /\ Len(w) = Len(a) + Len(z)
        /\ \A i \in 1 .. Len(a) : w[i] = a[i]
        /\ \A i \in 1 .. Len(z) : w[Len(a) + i] = z[i]
    BY <1>z, <2>1, <2>2, ConcatFacts
  <2>4. w \in Seq(Int) /\ Len(w) = 3 /\ w[1] = -1 /\ w[2] = 1 /\ w[3] = 0
    BY <1>z, <2>2, <2>3
  <2> QED  BY <1>2, <2>4 DEF ChunkedShape, w
<1>3. CASE n >= 2
  <2> DEFINE a == << -1, 1, -(n - 1) >>
             b == SubSeq(Origin!Bytes(n), 2, n)
             ab == a \o b
  <2>1. w = ab \o z  BY <1>3 DEF Origin!Chunked
  <2>2. a \in Seq(Int) /\ Len(a) = 3 /\ a[1] = -1 /\ a[2] = 1 /\ a[3] = -(n - 1)
    <3>1. -(n - 1) \in Int /\ -1 \in Int /\ 1 \in Int  OBVIOUS
    <3> QED  BY <3>1
  <2>3. b \in Seq(Int) /\ Len(b) = n - 1 /\ \A i \in 1 .. (n - 1) : b[i] = i + 1
    <3>1. /\ Origin!Bytes(n) \in Seq(Int) /\ Len(Origin!Bytes(n)) = n
          /\ \A i \in 1 .. n : Origin!Bytes(n)[i] = i
      BY BytesFacts
    <3>2. /\ b \in Seq(Int) /\ Len(b) = n - 1
          /\ \A i \in 1 .. n - 2 + 1 : b[i] = Origin!Bytes(n)[2 + i - 1]
      BY <1>3, <3>1, SubSeqProperties
    <3> HIDE DEF b
    <3>3. ASSUME NEW i \in 1 .. (n - 1)  PROVE b[i] = i + 1
      <4>1. /\ i \in 1 .. n - 2 + 1 /\ 2 + i - 1 \in 1 .. n /\ 2 + i - 1 = i + 1  BY <1>3
      <4> QED  BY <3>1, <3>2, <4>1
    <3> QED  BY <3>2, <3>3
  <2> HIDE DEF a, b, z, w, ab
  <2>4. /\ ab \in Seq(Int) /\ Len(ab) = Len(a) + Len(b)
        /\ \A i \in 1 .. Len(a) : ab[i] = a[i]
        /\ \A i \in 1 .. Len(b) : ab[Len(a) + i] = b[i]
    BY <2>2, <2>3, ConcatFacts DEF ab
  <2>5. /\ w \in Seq(Int) /\ Len(w) = Len(ab) + Len(z)
        /\ \A i \in 1 .. Len(ab) : w[i] = ab[i]
        /\ \A i \in 1 .. Len(z) : w[Len(ab) + i] = z[i]
    BY <1>z, <2>1, <2>4, ConcatFacts
  <2>6. Len(ab) = n + 2  BY <1>3, <2>2, <2>3, <2>4
  <2>7. Len(w) = n + 3 /\ w[n + 3] = 0
    <3>1. (n + 2) + 1 = n + 3 /\ 1 \in 1 .. Len(z)  BY <1>z
    <3> QED  BY <1>z, <2>5, <2>6, <3>1
  <2>8. ASSUME NEW i \in 4 .. (n + 2)  PROVE w[i] = i - 2
    <3>1. i - 3 \in 1 .. Len(b) /\ (i - 3) + 1 = i - 2 /\ 3 + (i - 3) = i /\ i \in 1 .. Len(ab)
      BY <1>3, <2>3, <2>6
    <3>2. ab[3 + (i - 3)] = b[i - 3] /\ b[i - 3] = (i - 3) + 1  BY <2>2, <2>3, <2>4, <3>1
    <3> QED  BY <2>5, <3>1, <3>2
  <2>9. w[1] = -1 /\ w[2] = 1 /\ w[3] = -(n - 1)
    <3>1. 1 \in 1 .. Len(ab) /\ 2 \in 1 .. Len(ab) /\ 3 \in 1 .. Len(ab)  BY <1>3, <2>6
    <3>2. 1 \in 1 .. Len(a) /\ 2 \in 1 .. Len(a) /\ 3 \in 1 .. Len(a)  BY <2>2
    <3> QED  BY <2>2, <2>4, <2>5, <3>1, <3>2
  <2> QED  BY <1>3, <2>5, <2>7, <2>8, <2>9 DEF ChunkedShape, w
<1>4. n = 0 \/ n = 1 \/ n >= 2  OBVIOUS
<1> QED  BY <1>1, <1>2, <1>3, <1>4

(* What an origin may answer.                                              *)
LEMMA AnswerFacts ==
  ASSUME SeenTypes
  PROVE  /\ reply.size \in Nat /\ reply.length \in Int /\ reply.wire \in Seq(Int)
         /\ reply.framing \in {"chunked", "close", "length"}
         /\ reply.framing = "chunked" => reply.wire = Origin!Chunked(reply.size)
         /\ reply.framing # "chunked" => reply.wire = Origin!Bytes(reply.size)
         /\ reply.framing = "length" => reply.length \in {reply.size, reply.size + 1}
<1>1. reply \in Origin!Answers  BY DEF SeenTypes
<1>2. PICK n \in 0 .. MaxBody :
        reply \in {[framing |-> "chunked", length |-> -1, wire |-> Origin!Chunked(n), size |-> n],
                   [framing |-> "close", length |-> -1, wire |-> Origin!Bytes(n), size |-> n],
                   [framing |-> "length", length |-> n, wire |-> Origin!Bytes(n), size |-> n],
                   [framing |-> "length", length |-> n + 1, wire |-> Origin!Bytes(n), size |-> n]}
  BY <1>1 DEF Origin!Answers, Origin!NoLength
<1>3. n \in Nat  BY BodyAssumption
<1>4. Origin!Chunked(n) \in Seq(Int) /\ Origin!Bytes(n) \in Seq(Int)
  BY <1>3, ChunkedFacts, BytesFacts DEF ChunkedShape
<1>5. CASE reply = [framing |-> "chunked", length |-> -1, wire |-> Origin!Chunked(n), size |-> n]
  BY <1>3, <1>4, <1>5
<1>6. CASE reply = [framing |-> "close", length |-> -1, wire |-> Origin!Bytes(n), size |-> n]
  BY <1>3, <1>4, <1>6
<1>7. CASE reply = [framing |-> "length", length |-> n, wire |-> Origin!Bytes(n), size |-> n]
  BY <1>3, <1>4, <1>7
<1>8. CASE reply = [framing |-> "length", length |-> n + 1, wire |-> Origin!Bytes(n), size |-> n]
  BY <1>3, <1>4, <1>8
<1> QED  BY <1>2, <1>5, <1>6, <1>7, <1>8

(* The length of a request body.                                           *)
LEMMA RequestFacts ==
  ASSUME SeenTypes
  PROVE  request.bytes \in Nat
<1>1. request.bytes \in 0 .. MaxBody  BY DEF SeenTypes, Origin!Requests
<1> QED  BY <1>1, BodyAssumption

USE DEF SeenRecord, HeadSet, EndSet

(* Nothing read, nothing answered.                                         *)
LEMMA OriginInitInv ==
  ASSUME NEW p \in {"idle", "new"}, Origin!OriginInit(p)
  PROVE  OriginInv
<1>1. /\ request \in Origin!Requests /\ reply \in Origin!Answers /\ place = p
      /\ body = << >> /\ held = << >> /\ rest = reply.wire /\ shut = FALSE /\ chunk = 0
      /\ origin = [declared |-> -1, body |-> << >>]
      /\ seen = [heads |-> << >>, body |-> << >>, end |-> "open"]
  BY DEF Origin!OriginInit, Origin!NoLength
<1>2. SeenTypes
  <2>1. PICK n \in Nat : reply.wire = Origin!Chunked(n) \/ reply.wire = Origin!Bytes(n)
    <3>1. PICK n \in 0 .. MaxBody : reply.wire = Origin!Chunked(n) \/ reply.wire = Origin!Bytes(n)
      BY <1>1 DEF Origin!Answers
    <3> QED  BY <3>1, BodyAssumption
  <2>2. reply.wire \in Seq(Int)  BY <2>1, ChunkedFacts, BytesFacts DEF ChunkedShape
  <2>3. << >> \in Seq(Nat) /\ << >> \in Seq(HeadSet) /\ << >> \in Seq(Int)  BY EmptySeq
  <2>4. seen \in SeenRecord
    <3>1. seen = [heads |-> << >>, body |-> << >>, end |-> "open"]  BY <1>1
    <3> QED  BY <2>3, <3>1
  <2> QED  BY <1>1, <2>2, <2>3, <2>4 DEF SeenTypes
<1>3. reply.size \in Nat /\ request.bytes \in Nat  BY <1>2, AnswerFacts, RequestFacts
<1>4. << >> = Origin!Bytes(0) /\ << >> \in Seq(Nat) /\ Len(<< >>) = 0
  BY BytesFacts, EmptySeq
<1>5. AnswerSoFar  BY <1>1 DEF AnswerSoFar, Early
<1>6. Copied  BY <1>1, <1>3, <1>4 DEF Copied, Early
<1>7. Forwarded  BY <1>1, <1>3, <1>4 DEF Forwarded
<1>8. EndedWell  BY <1>1 DEF EndedWell
<1> QED  BY <1>2, <1>5, <1>6, <1>7, <1>8 DEF OriginInv

(* One more piece of a chunked body.                                       *)
LEMMA ChunkStep ==
  ASSUME NEW n \in Nat, NEW w, ChunkedShape(w, n), NEW p \in Nat, NEW b \in Nat, NEW c \in Nat,
         ChunkPlace(p, b, c, n), p + 1 <= Len(w)
  PROVE  /\ c = 0 /\ w[p + 1] < 0 => -w[p + 1] \in Nat /\ ChunkPlace(p + 1, b, -w[p + 1], n)
         /\ c = 0 /\ w[p + 1] = 0 => b = n
         /\ c > 0 => w[p + 1] = b + 1 /\ b + 1 <= n /\ ChunkPlace(p + 1, b + 1, c - 1, n)
<1> USE DEF ChunkedShape
<1>1. CASE p = 0 /\ b = 0 /\ c = 0
  <2>1. w[p + 1] = w[1] /\ (w[1] = 0 => n = 0) /\ (w[1] # 0 => w[1] = -1 /\ n >= 1)
    BY <1>1
  <2>2. p + 1 = 1 /\ (w[1] # 0 => -w[1] = 1)  BY <1>1, <2>1
  <2> QED  BY <1>1, <2>1, <2>2 DEF ChunkPlace
<1>2. CASE p = 1 /\ b = 0 /\ c = 1 /\ n >= 1
  <2>1. w[p + 1] = w[2] /\ w[2] = 1  BY <1>2
  <2> QED  BY <1>2, <2>1 DEF ChunkPlace
<1>3. CASE p = 2 /\ b = 1 /\ c = 0 /\ n >= 1
  <2>1. w[p + 1] = w[3] /\ (n = 1 => w[3] = 0) /\ (n >= 2 => w[3] = -(n - 1))  BY <1>3
  <2>2. CASE n = 1  BY <1>3, <2>1, <2>2
  <2>3. CASE n >= 2
    <3>1. -w[p + 1] = n - 1 /\ w[p + 1] < 0  BY <2>1, <2>3
    <3>2. p + 1 \in 3 .. n + 2 /\ b = (p + 1) - 2 /\ n - 1 = n + 2 - (p + 1)  BY <1>3, <2>3
    <3>3. ChunkPlace(p + 1, b, n - 1, n)  BY <2>3, <3>2 DEF ChunkPlace
    <3> QED  BY <1>3, <2>3, <3>1, <3>3
  <2> QED  BY <1>3, <2>2, <2>3
<1>4. CASE p \in 3 .. n + 2 /\ b = p - 2 /\ c = n + 2 - p /\ n >= 2
  <2>1. CASE c = 0
    <3>1. p + 1 = n + 3 /\ b = n  BY <1>4, <2>1
    <3>2. w[p + 1] = 0  BY <1>4, <3>1
    <3> QED  BY <2>1, <3>1, <3>2
  <2>2. CASE c > 0
    <3>1. p + 1 \in 4 .. n + 2 /\ (p + 1) - 2 = b + 1 /\ b + 1 <= n /\ c - 1 = n + 2 - (p + 1)
      BY <1>4, <2>2
    <3>2. w[p + 1] = b + 1  BY <1>4, <3>1
    <3>3. p + 1 \in 3 .. n + 2  BY <3>1
    <3>4. ChunkPlace(p + 1, b + 1, c - 1, n)  BY <1>4, <3>1, <3>3 DEF ChunkPlace
    <3> QED  BY <2>2, <3>1, <3>2, <3>4
  <2> QED  BY <2>1, <2>2
<1> QED  BY <1>1, <1>2, <1>3, <1>4 DEF ChunkPlace

(* The next piece is the one that follows what has been read.              *)
LEMMA DropFacts ==
  ASSUME SeenTypes, NEW p \in Nat, Unread(p), Origin!Ready, Origin!Drop1, UNCHANGED <<reply, shut>>
  PROVE  /\ held' \in Seq(Int) /\ rest' \in Seq(Int)
         /\ p + 1 <= Len(reply.wire) /\ Origin!Next1 = reply.wire[p + 1]
         /\ Unread(p + 1)'
<1>0. held \in Seq(Int) /\ rest \in Seq(Int) /\ reply.wire \in Seq(Int)  BY AnswerFacts DEF SeenTypes
<1>u. Len(held) \in Nat /\ Len(rest) \in Nat /\ Len(reply.wire) \in Nat  BY <1>0
<1>1. CASE held # << >>
  <2>1. held' = Tail(held) /\ rest' = rest /\ Origin!Next1 = Head(held)
    BY <1>1 DEF Origin!Drop1, Origin!Next1
  <2>2. /\ Len(held) >= 1 /\ Head(held) = held[1] /\ held' \in Seq(Int) /\ Len(held') = Len(held) - 1
        /\ \A i \in 1 .. Len(held) - 1 : held'[i] = held[i + 1]
    BY <1>0, <1>1, <2>1, HeadTailProperties
  <2>3. 1 \in 1 .. Len(held)  BY <1>u, <2>2
  <2>4. p + 1 <= Len(reply.wire) /\ Origin!Next1 = reply.wire[p + 1]
    BY <1>u, <2>1, <2>2, <2>3 DEF Unread
  <2>5. ASSUME NEW i \in 1 .. Len(held')  PROVE held'[i] = reply.wire[p + 1 + i]
    <3>1. i \in 1 .. Len(held) - 1 /\ i + 1 \in 1 .. Len(held) /\ p + (i + 1) = p + 1 + i
      BY <1>u, <2>2
    <3> QED  BY <2>2, <3>1 DEF Unread
  <2>6. ASSUME NEW i \in 1 .. Len(rest')  PROVE rest'[i] = reply.wire[p + 1 + Len(held') + i]
    <3>1. p + 1 + Len(held') + i = p + Len(held) + i  BY <1>u, <2>2
    <3> QED  BY <2>1, <3>1 DEF Unread
  <2>7. p + 1 + Len(held') + Len(rest') = p + Len(held) + Len(rest)  BY <1>u, <2>1, <2>2
  <2> QED  BY <1>0, <2>1, <2>2, <2>4, <2>5, <2>6, <2>7 DEF Unread
<1>2. CASE held = << >>
  <2>1. held' = held /\ rest' = Tail(rest) /\ Origin!Next1 = Head(rest) /\ rest # << >>
    BY <1>2 DEF Origin!Drop1, Origin!Next1, Origin!Ready
  <2>2. /\ Len(rest) >= 1 /\ Head(rest) = rest[1] /\ rest' \in Seq(Int) /\ Len(rest') = Len(rest) - 1
        /\ \A i \in 1 .. Len(rest) - 1 : rest'[i] = rest[i + 1]
    BY <1>0, <2>1, HeadTailProperties
  <2>h. Len(held) = 0  BY <1>2
  <2>3. 1 \in 1 .. Len(rest)  BY <1>u, <2>2
  <2>4. p + 1 <= Len(reply.wire) /\ Origin!Next1 = reply.wire[p + 1]
    <3>1. p + Len(held) + 1 = p + 1  BY <2>h
    <3> QED  BY <1>u, <2>1, <2>2, <2>3, <2>h, <3>1 DEF Unread
  <2>5. ASSUME NEW i \in 1 .. Len(rest')  PROVE rest'[i] = reply.wire[p + 1 + Len(held') + i]
    <3>1. /\ i \in 1 .. Len(rest) - 1 /\ i + 1 \in 1 .. Len(rest)
          /\ p + Len(held) + (i + 1) = p + 1 + Len(held') + i
      BY <1>u, <2>1, <2>2, <2>h
    <3> QED  BY <2>2, <3>1 DEF Unread
  <2>6. p + 1 + Len(held') + Len(rest') = p + Len(held) + Len(rest)  BY <1>u, <2>1, <2>2
  <2>7. \A i \in 1 .. Len(held') : held'[i] = reply.wire[p + 1 + i]  BY <2>1, <2>h
  <2> QED  BY <1>0, <2>1, <2>2, <2>4, <2>5, <2>6, <2>7 DEF Unread
<1> QED  BY <1>1, <1>2

(* A stream that is over, one way or another.                              *)
LEMMA OverInv ==
  ASSUME OriginInv, place' = "end", UNCHANGED <<request, reply, body, origin, shut>>,
         held' \in Seq(Int), rest' \in Seq(Int), chunk' \in Nat,
         seen' \in SeenRecord, seen'.body = seen.body,
         seen'.heads \in {<< >>, <<"ok">>, <<"origin">>, <<"error">>, <<"status">>},
         seen'.end = "eof" => seen'.heads # << >>,
         seen'.body # << >> => seen'.heads = <<"origin">>,
         EndedWell'
  PROVE  OriginInv'
<1>1. SeenTypes'  BY DEF OriginInv, SeenTypes
<1>2. AnswerSoFar'  BY DEF AnswerSoFar, Early
<1>3. Copied'  BY DEF OriginInv, Copied, Early
<1>4. Forwarded'  BY DEF OriginInv, Forwarded
<1> QED  BY <1>1, <1>2, <1>3, <1>4 DEF OriginInv

(* A stream ends with what it has had.                                     *)
LEMMA EndsInv ==
  ASSUME OriginInv, place # "end", NEW how \in EndSet, Origin!Ends(how),
         UNCHANGED <<request, reply, body, origin, shut>>,
         held' \in Seq(Int), rest' \in Seq(Int), chunk' \in Nat,
         how = "eof" =>
            /\ seen.heads # << >>
            /\ seen.heads = <<"origin">> /\ reply.framing # "close" /\ reply.length <= reply.size
                => Len(seen.body) = reply.size \/ (shut /\ reply.framing = "length")
  PROVE  OriginInv'
<1>1. seen \in SeenRecord  BY DEF OriginInv, SeenTypes
<1>2. place' = "end" /\ seen' = [seen EXCEPT !.end = how]  BY DEF Origin!Ends
<1>3. /\ seen' \in SeenRecord
      /\ seen'.heads = seen.heads /\ seen'.body = seen.body /\ seen'.end = how
  BY <1>1, <1>2
<1>4. /\ seen.heads \in {<< >>, <<"ok">>, <<"origin">>, <<"error">>, <<"status">>}
      /\ seen.body # << >> => seen.heads = <<"origin">>
  BY DEF OriginInv, AnswerSoFar
<1>5. EndedWell'  BY <1>3 DEF EndedWell
<1> QED  BY <1>2, <1>3, <1>4, <1>5, OverInv

(* A stream ends with its only head.                                       *)
LEMMA AnsweredInv ==
  ASSUME OriginInv, seen.heads = << >>, NEW head \in {"error", "status"}, Origin!Answered(head, "eof"),
         UNCHANGED <<request, reply, body, origin, held, rest, shut, chunk>>
  PROVE  OriginInv'
<1>1. seen \in SeenRecord /\ seen.body = << >>
  BY DEF OriginInv, SeenTypes, AnswerSoFar
<1>2. place' = "end" /\ seen' = [seen EXCEPT !.heads = Append(@, head), !.end = "eof"]
  BY DEF Origin!Answered
<1>3. <<head>> \in Seq(HeadSet) /\ Append(seen.heads, head) = <<head>>
  <2>1. head \in HeadSet /\ << >> \in Seq(HeadSet)  BY EmptySeq
  <2>2. Append(<< >>, head) = << >> \o <<head>> /\ <<head>> \in Seq(HeadSet)  BY <2>1, AppendIsConcat
  <2>3. << >> \o <<head>> = <<head>>  BY <2>2, ConcatEmptySeq
  <2> QED  BY <2>2, <2>3
<1>4. /\ seen' \in SeenRecord
      /\ seen'.heads = <<head>> /\ seen'.body = << >> /\ seen'.end = "eof"
  <2>1. seen' = [seen EXCEPT !.heads = <<head>>, !.end = "eof"]  BY <1>2, <1>3
  <2>2. "eof" \in EndSet  OBVIOUS
  <2> QED  BY <1>1, <1>3, <2>1, <2>2
<1>5. <<head>> \in {<<"error">>, <<"status">>} /\ <<head>> # << >> /\ <<head>> # <<"origin">>
  OBVIOUS
<1>6. EndedWell'  BY <1>4, <1>5 DEF EndedWell
<1>7. held' \in Seq(Int) /\ rest' \in Seq(Int) /\ chunk' \in Nat  BY DEF OriginInv, SeenTypes
<1> QED  BY <1>1, <1>2, <1>4, <1>5, <1>6, <1>7, OverInv

(* An error is told if it still can be, or the stream is dropped.          *)
LEMMA FailInv ==
  ASSUME OriginInv, place # "end", Origin!Fail,
         UNCHANGED <<request, reply, body, origin, held, rest, shut, chunk>>
  PROVE  OriginInv'
<1>1. CASE seen.heads = << >>
  BY <1>1, AnsweredInv DEF Origin!Fail, Origin!CanAnswer
<1>2. CASE seen.heads # << >>
  <2>1. Origin!Ends("dropped")  BY <1>2 DEF Origin!Fail, Origin!CanAnswer
  <2>2. held' \in Seq(Int) /\ rest' \in Seq(Int) /\ chunk' \in Nat  BY DEF OriginInv, SeenTypes
  <2>3. "dropped" \in EndSet /\ "dropped" # "eof"  OBVIOUS
  <2> QED  BY <2>1, <2>2, <2>3, EndsInv
<1> QED  BY <1>1, <1>2

(* Before the head nothing of the answer is touched.                       *)
LEMMA EarlyInv ==
  ASSUME OriginInv, place \in Early, place' \in Early, Forwarded',
         UNCHANGED <<request, reply, held, rest, shut, chunk, seen>>
  PROVE  OriginInv'
<1>1. SeenTypes'  BY DEF OriginInv, SeenTypes
<1>2. AnswerSoFar'  BY DEF OriginInv, AnswerSoFar, Early
<1>3. Copied'  BY DEF OriginInv, Copied, Early
<1>4. EndedWell'  BY DEF OriginInv, EndedWell
<1> QED  BY <1>1, <1>2, <1>3, <1>4 DEF OriginInv

(* A piece of the origin's answer is passed on, or only taken note of.     *)
LEMMA CopyInv ==
  ASSUME OriginInv, place \in {"copy", "join"}, NEW p \in Nat, Unread(p)', PassedOn(p)',
         UNCHANGED <<request, reply, place, body, origin>>, shut' \in BOOLEAN,
         held' \in Seq(Int), rest' \in Seq(Int), chunk' \in Nat,
         \/ seen' = seen
         \/ /\ seen' = [seen EXCEPT !.body = Append(@, Len(seen.body) + 1)]
            /\ Len(seen.body) + 1 <= reply.size
  PROVE  OriginInv'
<1>1. /\ seen \in SeenRecord /\ seen.end = "open"
      /\ seen.heads = <<"origin">> /\ seen.body \in Seq(Nat) /\ Len(seen.body) \in Nat
      /\ seen.body = Origin!Bytes(Len(seen.body)) /\ Len(seen.body) <= reply.size
  BY SMTT(30) DEF OriginInv, SeenTypes, AnswerSoFar, Copied
<1>2. /\ seen' \in SeenRecord
      /\ seen'.end = "open" /\ seen'.heads = <<"origin">>
      /\ seen'.body = Origin!Bytes(Len(seen'.body)) /\ Len(seen'.body) <= reply.size
  <2>1. CASE seen' = seen  BY <1>1, <2>1
  <2>2. CASE /\ seen' = [seen EXCEPT !.body = Append(@, Len(seen.body) + 1)]
             /\ Len(seen.body) + 1 <= reply.size
    <3>1. PICK m \in Nat : m = Len(seen.body)  BY <1>1
    <3>2. Append(seen.body, m + 1) \in Seq(Nat) /\ Len(Append(seen.body, m + 1)) = m + 1
      BY <1>1, <3>1
    <3>3. Append(seen.body, m + 1) = Origin!Bytes(m + 1)  BY <1>1, <3>1, BytesFacts
    <3>4. seen' = [seen EXCEPT !.body = Append(seen.body, m + 1)]  BY <2>2, <3>1
    <3>5. /\ seen' \in SeenRecord
          /\ seen'.end = "open" /\ seen'.heads = <<"origin">> /\ seen'.body = Append(seen.body, m + 1)
      BY <1>1, <3>2, <3>4
    <3> QED  BY <2>2, <3>1, <3>2, <3>3, <3>5
  <2> QED  BY <2>1, <2>2
<1>3. SeenTypes'  BY <1>2 DEF OriginInv, SeenTypes
<1>4. AnswerSoFar'  BY <1>2 DEF OriginInv, AnswerSoFar, Early
<1>5. ReadUpTo(p)'  BY DEF ReadUpTo
<1>6. Copied'
  <2>1. (\E q \in Nat : ReadUpTo(q))'  BY <1>5
  <2>2. place' \notin Early /\ (place' = "join" => reply'.framing = "close")
    BY DEF OriginInv, Copied, Early
  <2>3. seen'.body = Origin!Bytes(Len(seen'.body)) /\ Len(seen'.body) <= reply'.size  BY <1>2
  <2> QED  BY <2>1, <2>2, <2>3 DEF Copied
<1>7. Forwarded'  BY DEF OriginInv, Forwarded
<1>8. EndedWell'  BY <1>2 DEF EndedWell
<1> QED  BY <1>3, <1>4, <1>6, <1>7, <1>8 DEF OriginInv

(* A byte of a body without chunks.                                        *)
LEMMA CopyPlainInv ==
  ASSUME OriginInv, Origin!CopyPlain \/ Origin!Join  PROVE OriginInv'
<1>1. /\ place \in {"copy", "join"} /\ reply.framing # "chunked"
      /\ seen' = [seen EXCEPT !.body = Append(@, Origin!Next1)]
      /\ Origin!Ready /\ Origin!Drop1 /\ UNCHANGED <<request, reply, place, body, origin, shut, chunk>>
  BY DEF Origin!CopyPlain, Origin!Join, OriginInv, Copied
<1>2. SeenTypes /\ seen.body \in Seq(Nat)  BY DEF OriginInv, SeenTypes
<1>3. PICK p \in Nat : Unread(p) /\ PassedOn(p)  BY <1>1 DEF OriginInv, Copied, ReadUpTo
<1>4. p = Len(seen.body) /\ chunk = 0  BY <1>1, <1>3 DEF PassedOn
<1>5. /\ held' \in Seq(Int) /\ rest' \in Seq(Int) /\ p + 1 <= Len(reply.wire)
      /\ Origin!Next1 = reply.wire[p + 1] /\ Unread(p + 1)'
  BY <1>1, <1>2, <1>3, DropFacts
<1>6. reply.size \in Nat /\ reply.wire = Origin!Bytes(reply.size)  BY <1>1, <1>2, AnswerFacts
<1>7. Len(reply.wire) = reply.size /\ \A i \in 1 .. reply.size : reply.wire[i] = i
  BY <1>6, BytesFacts
<1>8. p + 1 <= reply.size /\ Origin!Next1 = p + 1
  <2>1. p + 1 \in 1 .. reply.size  BY <1>5, <1>6, <1>7
  <2> QED  BY <1>5, <1>7, <2>1
<1>9. seen' = [seen EXCEPT !.body = Append(@, Len(seen.body) + 1)] /\ Len(seen.body) + 1 <= reply.size
  BY <1>1, <1>4, <1>8
<1>10. PassedOn(p + 1)'
  <2>1. seen'.body = Append(seen.body, p + 1)  BY <1>2, <1>4, <1>9 DEF SeenTypes
  <2>2. Len(seen'.body) = p + 1  BY <1>2, <1>4, <2>1
  <2> QED  BY <1>1, <1>4, <2>2 DEF PassedOn
<1>11. p + 1 \in Nat /\ chunk' \in Nat /\ shut' \in BOOLEAN  BY <1>1, <1>2 DEF SeenTypes
<1> QED  BY <1>1, <1>5, <1>9, <1>10, <1>11, CopyInv

(* A size line, a byte of a chunk, or the last chunk.                      *)
LEMMA CopyChunkedInv ==
  ASSUME OriginInv, Origin!CopyChunked  PROVE OriginInv'
<1>1. /\ place = "copy" /\ reply.framing = "chunked" /\ Origin!Ready /\ Origin!Drop1
      /\ UNCHANGED <<request, reply, body, origin, shut>>
  BY DEF Origin!CopyChunked
<1>2. SeenTypes /\ seen.body \in Seq(Nat) /\ chunk \in Nat /\ shut' \in BOOLEAN
  BY <1>1 DEF OriginInv, SeenTypes
<1>3. PICK p \in Nat : Unread(p) /\ PassedOn(p)  BY <1>1 DEF OriginInv, Copied, ReadUpTo
<1>4. PICK b \in Nat, n \in Nat, w \in Seq(Int) : b = Len(seen.body) /\ n = reply.size /\ w = reply.wire
  BY <1>2, AnswerFacts
<1>5. ChunkPlace(p, b, chunk, n) /\ ChunkedShape(w, n)
  <2>1. w = Origin!Chunked(n)  BY <1>1, <1>2, <1>4, AnswerFacts
  <2> QED  BY <1>1, <1>3, <1>4, <2>1, ChunkedFacts DEF PassedOn
<1>6. /\ held' \in Seq(Int) /\ rest' \in Seq(Int) /\ p + 1 <= Len(w)
      /\ Origin!Next1 = w[p + 1] /\ Unread(p + 1)'
  BY <1>1, <1>2, <1>3, <1>4, DropFacts
<1>7. /\ chunk = 0 /\ w[p + 1] < 0 => -w[p + 1] \in Nat /\ ChunkPlace(p + 1, b, -w[p + 1], n)
      /\ chunk = 0 /\ w[p + 1] = 0 => b = n
      /\ chunk > 0 => w[p + 1] = b + 1 /\ b + 1 <= n /\ ChunkPlace(p + 1, b + 1, chunk - 1, n)
  BY <1>2, <1>5, <1>6, ChunkStep
<1>8. CASE chunk = 0 /\ Origin!Next1 < 0 /\ chunk' = -Origin!Next1 /\ UNCHANGED <<place, seen>>
  <2>1. chunk' \in Nat /\ ChunkPlace(p + 1, b, chunk', n)  BY <1>6, <1>7, <1>8
  <2>2. PassedOn(p + 1)'  BY <1>1, <1>4, <1>8, <2>1 DEF PassedOn
  <2>3. place \in {"copy", "join"} /\ p + 1 \in Nat  BY <1>1
  <2> QED  BY <1>1, <1>2, <1>6, <1>8, <2>1, <2>2, <2>3, CopyInv
<1>9. CASE chunk = 0 /\ Origin!Next1 = 0 /\ Origin!Ends("eof") /\ UNCHANGED chunk
  <2>1. Len(seen.body) = reply.size  BY <1>4, <1>6, <1>7, <1>9
  <2>2. seen.heads = <<"origin">>  BY <1>1 DEF OriginInv, AnswerSoFar
  <2>3. seen.heads # << >> /\ "eof" \in EndSet /\ place # "end" /\ chunk' \in Nat
    BY <1>1, <1>2, <1>9, <2>2
  <2> QED  BY <1>1, <1>6, <1>9, <2>1, <2>3, EndsInv
<1>10. CASE /\ chunk > 0 /\ chunk' = chunk - 1 /\ UNCHANGED place
            /\ seen' = [seen EXCEPT !.body = Append(@, Origin!Next1)]
  <2>1. Origin!Next1 = b + 1 /\ b + 1 <= n /\ ChunkPlace(p + 1, b + 1, chunk', n)
    BY <1>6, <1>7, <1>10
  <2>2. seen' = [seen EXCEPT !.body = Append(@, Len(seen.body) + 1)]
        /\ Len(seen.body) + 1 <= reply.size
    BY <1>4, <1>10, <2>1
  <2>3. seen'.body = Append(seen.body, b + 1)  BY <1>2, <1>4, <2>2 DEF SeenTypes
  <2>4. Len(seen'.body) = b + 1  BY <1>2, <1>4, <2>3
  <2>5. PassedOn(p + 1)'  BY <1>1, <1>4, <2>1, <2>4 DEF PassedOn
  <2>6. place \in {"copy", "join"} /\ p + 1 \in Nat /\ chunk' \in Nat  BY <1>1, <1>2, <1>10
  <2> QED  BY <1>1, <1>2, <1>6, <1>10, <2>2, <2>5, <2>6, CopyInv
<1> QED  BY <1>8, <1>9, <1>10 DEF Origin!CopyChunked

(* The end of a body without chunks.                                       *)
LEMMA CopyEndsInv ==
  ASSUME OriginInv, Origin!CopyEnds \/ Origin!JoinEnds  PROVE OriginInv'
<1>1. /\ place \in {"copy", "join"} /\ reply.framing # "chunked" /\ Origin!Ends("eof")
      /\ UNCHANGED <<request, reply, body, origin, held, rest, shut, chunk>>
  BY DEF Origin!CopyEnds, Origin!JoinEnds, OriginInv, Copied
<1>2. SeenTypes /\ held' \in Seq(Int) /\ rest' \in Seq(Int) /\ chunk' \in Nat
  BY <1>1 DEF OriginInv, SeenTypes
<1>3. seen.heads = <<"origin">> /\ seen.heads # << >>  BY <1>1 DEF OriginInv, AnswerSoFar
<1>4. ASSUME reply.framing # "close", reply.length <= reply.size
      PROVE  Len(seen.body) = reply.size \/ (shut /\ reply.framing = "length")
  <2>1. reply.framing = "length" /\ reply.size \in Nat /\ reply.length \in {reply.size, reply.size + 1}
    BY <1>1, <1>2, <1>4, AnswerFacts
  <2>2. reply.length = reply.size  BY <1>4, <2>1
  <2>3. Origin!CopyEnds  BY <1>4 DEF Origin!JoinEnds, OriginInv, Copied
  <2>4. CASE shut  BY <2>1, <2>4
  <2>5. CASE ~Origin!Remaining
    <3>1. ~(Len(seen.body) < reply.size)  BY <2>2, <2>5 DEF Origin!Remaining
    <3>2. Len(seen.body) <= reply.size /\ Len(seen.body) \in Nat  BY <1>2 DEF OriginInv, Copied, SeenTypes
    <3> QED  BY <2>1, <3>1, <3>2
  <2> QED  BY <2>3, <2>4, <2>5 DEF Origin!CopyEnds
<1>5. place # "end" /\ "eof" \in EndSet  BY <1>1
<1> QED  BY <1>1, <1>2, <1>3, <1>4, <1>5, EndsInv

(* What the origin had not sent is not missed in what it had.              *)
LEMMA OriginClosesInv ==
  ASSUME OriginInv, NEW complete \in BOOLEAN, Origin!OriginCloses(complete)  PROVE OriginInv'
<1>1. /\ place \in {"copy", "join"} /\ shut' = TRUE /\ rest' = << >>
      /\ UNCHANGED <<request, reply, place, body, origin, held, chunk, seen>>
  BY DEF Origin!OriginCloses
<1>2. /\ SeenTypes /\ held \in Seq(Int) /\ rest \in Seq(Int) /\ chunk' \in Nat
      /\ rest' \in Seq(Int) /\ Len(rest') = 0
  BY <1>1, EmptySeq DEF OriginInv, SeenTypes
<1>3. PICK p \in Nat : Unread(p) /\ PassedOn(p)  BY <1>1 DEF OriginInv, Copied, ReadUpTo
<1>4. Unread(p)'
  <2>1. p + Len(held) + Len(rest) <= Len(reply.wire) /\ Len(held) \in Nat /\ Len(rest) \in Nat
        /\ Len(reply.wire) \in Nat
    BY <1>2, <1>3, AnswerFacts DEF Unread
  <2>2. p + Len(held') + Len(rest') <= Len(reply'.wire)  BY <1>1, <1>2, <2>1
  <2>3. \A i \in 1 .. Len(held') : held'[i] = reply'.wire[p + i]  BY <1>1, <1>3 DEF Unread
  <2> QED  BY <1>1, <1>2, <2>2, <2>3 DEF Unread
<1>5. PassedOn(p)'  BY <1>1, <1>3 DEF PassedOn
<1>6. shut' \in BOOLEAN /\ held' \in Seq(Int)  BY <1>1, <1>2
<1> QED  BY <1>1, <1>2, <1>4, <1>5, <1>6, CopyInv

(* The head ends anywhere in what the origin has sent.                     *)
LEMMA ReadHeadInv ==
  ASSUME OriginInv, Origin!ReadHead  PROVE OriginInv'
<1>1. PICK k \in 0 .. Len(rest) :
        held' = SubSeq(rest, 1, k) /\ rest' = SubSeq(rest, k + 1, Len(rest))
  BY DEF Origin!ReadHead, Origin!AlreadyRead
<1>2. /\ place = "head" /\ seen.heads = << >> /\ seen.body = << >> /\ seen.end = "open"
      /\ rest = reply.wire /\ chunk = 0 /\ ~shut
      /\ UNCHANGED <<request, reply, body, origin, shut, chunk>>
  <2>1. place = "head" /\ UNCHANGED <<request, reply, body, origin, shut, chunk>>
    BY DEF Origin!ReadHead
  <2>2. "head" \in Early  BY DEF Early
  <2>3. seen.heads = << >> /\ seen.end = "open" /\ (seen.body # << >> => seen.heads = <<"origin">>)
    BY <2>1, <2>2 DEF OriginInv, AnswerSoFar
  <2>4. rest = reply.wire /\ chunk = 0 /\ ~shut  BY <2>1, <2>2 DEF OriginInv, Copied
  <2> QED  BY <2>1, <2>3, <2>4
<1>3. /\ seen' = [seen EXCEPT !.heads = Append(@, "origin")]
      /\ place' = IF Origin!Upgraded THEN "join" ELSE "copy"
  BY <1>2 DEF Origin!ReadHead, Origin!CanAnswer
<1>4. /\ seen \in SeenRecord /\ SeenTypes
      /\ reply.wire \in Seq(Int) /\ reply.size \in Nat
  BY AnswerFacts DEF OriginInv, SeenTypes
<1>5. /\ seen' \in SeenRecord
      /\ seen'.heads = <<"origin">> /\ seen'.body = << >> /\ seen'.end = "open"
  <2>1. "origin" \in HeadSet /\ << >> \in Seq(HeadSet)  BY EmptySeq
  <2>2. Append(<< >>, "origin") = << >> \o <<"origin">> /\ <<"origin">> \in Seq(HeadSet)
    BY <2>1, AppendIsConcat
  <2>3. << >> \o <<"origin">> = <<"origin">>  BY <2>2, ConcatEmptySeq
  <2>4. Append(seen.heads, "origin") = <<"origin">>  BY <1>2, <2>2, <2>3
  <2>5. seen' = [seen EXCEPT !.heads = <<"origin">>]  BY <1>3, <2>4
  <2> QED  BY <1>2, <1>4, <2>2, <2>5
<1>6. PICK m \in Nat : m = Len(rest)  BY <1>2, <1>4
<1>7. /\ held' \in Seq(Int) /\ Len(held') = k
      /\ \A i \in 1 .. k : held'[i] = rest[i]
  <2>1. k \in 0 .. m  BY <1>1, <1>6
  <2>2. CASE k = 0
    <3>1. held' = << >>  BY <1>1, <1>2, <1>4, <2>2, SubSeqProperties
    <3> QED  BY <2>2, <3>1, EmptySeq
  <2>3. CASE k # 0
    <3>1. rest \in Seq(Int) /\ 1 \in 1 .. k + 1 /\ 1 \in 1 .. m /\ k \in 1 .. m  BY <1>2, <1>4, <2>1, <2>3
    <3>2. held' \in Seq(Int) /\ Len(held') = k /\ \A i \in 1 .. k : held'[i] = rest[1 + i - 1]
      BY <1>1, <1>6, <3>1, SubSeqProperties
    <3>3. \A i \in 1 .. k : 1 + i - 1 = i  OBVIOUS
    <3> QED  BY <3>2, <3>3
  <2> QED  BY <2>2, <2>3
<1>8. /\ rest' \in Seq(Int) /\ Len(rest') = m - k
      /\ \A i \in 1 .. m - k : rest'[i] = rest[k + i]
  <2>1. k \in 0 .. m /\ rest \in Seq(Int)  BY <1>1, <1>2, <1>4, <1>6
  <2>2. CASE k = m
    <3>1. rest' = << >>  BY <1>1, <1>6, <2>1, <2>2, SubSeqProperties
    <3> QED  BY <2>2, <3>1, EmptySeq
  <2>3. CASE k # m
    <3>1. k + 1 \in 1 .. m /\ m \in 1 .. m /\ k + 1 <= m  BY <2>1, <2>3
    <3>2. /\ rest' \in Seq(Int) /\ Len(rest') = m - (k + 1) + 1
          /\ \A i \in 1 .. m - (k + 1) + 1 : rest'[i] = rest[(k + 1) + i - 1]
      BY <1>1, <1>6, <2>1, <3>1, SubSeqProperties
    <3>3. m - (k + 1) + 1 = m - k /\ \A i \in 1 .. m - k : (k + 1) + i - 1 = k + i  BY <2>1
    <3> QED  BY <3>2, <3>3
  <2> QED  BY <2>2, <2>3
<1>9. k \in Nat /\ k <= m  BY <1>1, <1>6
<1>10. ReadUpTo(0)'
  <2>1. Unread(0)'
    <3>1. 0 + Len(held') + Len(rest') = Len(reply'.wire)  BY <1>2, <1>6, <1>7, <1>8, <1>9
    <3>2. \A i \in 1 .. Len(held') : held'[i] = reply'.wire[0 + i]  BY <1>2, <1>7, <1>9
    <3>3. \A i \in 1 .. Len(rest') : rest'[i] = reply'.wire[0 + Len(held') + i]
      BY <1>2, <1>7, <1>8, <1>9
    <3>4. Len(reply'.wire) \in Nat  BY <1>2, <1>4
    <3> QED  BY <3>1, <3>2, <3>3, <3>4 DEF Unread
  <2>2. PassedOn(0)'  BY <1>2, <1>5 DEF PassedOn, ChunkPlace
  <2> QED  BY <2>1, <2>2 DEF ReadUpTo
<1>11. place' \in {"copy", "join"} /\ (place' = "join" => reply'.framing = "close")
  BY <1>2, <1>3 DEF Origin!Upgraded
<1>12. SeenTypes'  BY <1>2, <1>4, <1>5, <1>7, <1>8 DEF SeenTypes
<1>13. AnswerSoFar'  BY <1>5, <1>11 DEF AnswerSoFar, Early
<1>14. Copied'
  <2>1. (\E p \in Nat : ReadUpTo(p))'  BY <1>10
  <2>2. seen'.body = Origin!Bytes(Len(seen'.body)) /\ Len(seen'.body) <= reply'.size
    <3>1. Len(seen'.body) = 0 /\ Origin!Bytes(0) = << >>  BY <1>5, BytesFacts
    <3> QED  BY <1>2, <1>4, <1>5, <3>1
  <2>3. place' \notin Early  BY <1>11 DEF Early
  <2> QED  BY <1>11, <2>1, <2>2, <2>3 DEF Copied
<1>15. Forwarded'  BY <1>2 DEF OriginInv, Forwarded
<1>16. EndedWell'  BY <1>5 DEF EndedWell
<1> QED  BY <1>12, <1>13, <1>14, <1>15, <1>16 DEF OriginInv

(* Every step of the handler, the origin and the edge keeps the request's  *)
(* invariant.                                                              *)
LEMMA OriginNextInv ==
  OriginInv /\ [Origin!OriginNext]_originVars => OriginInv'
<1> SUFFICES ASSUME OriginInv, Origin!OriginNext \/ UNCHANGED originVars  PROVE OriginInv'
  OBVIOUS
<1>t. held \in Seq(Int) /\ rest \in Seq(Int) /\ chunk \in Nat  BY DEF OriginInv, SeenTypes
<1>1. CASE Origin!ReadFrame \/ Origin!BuildConnectRequest
  <2>1. /\ place = "new" /\ UNCHANGED <<request, reply, body, origin, held, rest, shut, chunk>>
        /\ (place' = "begin" /\ UNCHANGED seen) \/ Origin!Ends("dropped")
    BY <1>1 DEF Origin!ReadFrame, Origin!BuildConnectRequest
  <2>2. CASE Origin!Ends("dropped")
    <3>1. "dropped" \in EndSet /\ "dropped" # "eof" /\ place # "end"  BY <2>1
    <3> QED  BY <1>t, <2>1, <2>2, <3>1, EndsInv
  <2>3. CASE place' = "begin" /\ UNCHANGED seen
    <3>1. Forwarded'  BY <2>1 DEF OriginInv, Forwarded
    <3> QED  BY <2>1, <2>3, <3>1, EarlyInv DEF Early
  <2> QED  BY <2>1, <2>2, <2>3
<1>2. CASE Origin!Begin
  <2>1. place = "begin" /\ UNCHANGED <<request, reply, body, origin, held, rest, shut, chunk>>
    BY <1>2 DEF Origin!Begin
  <2>f. Forwarded'  BY <2>1 DEF OriginInv, Forwarded
  <2>2. CASE place' = "resolve" /\ UNCHANGED seen
    BY <2>1, <2>2, <2>f, EarlyInv DEF Early
  <2>3. CASE place' = "route" /\ seen' = [seen EXCEPT !.heads = <<"ok">>]
    <3>1. seen \in SeenRecord /\ seen.body = << >> /\ seen.end = "open"
      <4>1. seen.heads = << >> /\ seen.end = "open"  BY <2>1 DEF OriginInv, AnswerSoFar, Early
      <4>2. seen.body # << >> => seen.heads = <<"origin">>  BY DEF OriginInv, AnswerSoFar
      <4>3. seen \in SeenRecord  BY DEF OriginInv, SeenTypes
      <4> QED  BY <4>1, <4>2, <4>3
    <3>2. "ok" \in HeadSet /\ <<"ok">> \in Seq(HeadSet)  OBVIOUS
    <3>3. seen' \in SeenRecord /\ seen'.heads = <<"ok">> /\ seen'.body = << >> /\ seen'.end = "open"
      BY <2>3, <3>1, <3>2
    <3>4. SeenTypes'  BY <2>1, <3>3 DEF OriginInv, SeenTypes
    <3>5. AnswerSoFar'  BY <2>3, <3>3 DEF AnswerSoFar, Early
    <3>6. Copied'  BY <2>1, <2>3, <3>1, <3>3 DEF OriginInv, Copied, Early
    <3>7. EndedWell'  BY <3>3 DEF EndedWell
    <3> QED  BY <2>f, <3>4, <3>5, <3>6, <3>7 DEF OriginInv
  <2> QED  BY <1>2, <2>2, <2>3 DEF Origin!Begin
<1>3. CASE Origin!RouteTcp
  <2>1. PICK how \in {"eof", "dropped"} : Origin!Ends(how)  BY <1>3 DEF Origin!RouteTcp
  <2>2. place = "route" /\ UNCHANGED <<request, reply, body, origin, held, rest, shut, chunk>>
    BY <1>3 DEF Origin!RouteTcp
  <2>3. seen.heads = <<"ok">>  BY <2>2 DEF OriginInv, AnswerSoFar
  <2>4. seen.heads # << >> /\ seen.heads # <<"origin">> /\ how \in EndSet  BY <2>3
  <2> QED  BY <1>t, <2>1, <2>2, <2>4, EndsInv
<1>4. CASE Origin!Resolve
  <2>1. place = "resolve" /\ UNCHANGED <<request, reply, body, origin, held, rest, shut, chunk>>
    BY <1>4 DEF Origin!Resolve
  <2>2. CASE place' = "dial" /\ UNCHANGED seen
    <3>1. Forwarded'  BY <2>1 DEF OriginInv, Forwarded
    <3> QED  BY <2>1, <2>2, <3>1, EarlyInv DEF Early
  <2>3. CASE Origin!Answered("status", "eof")
    <3>1. seen.heads = << >>  BY <2>1 DEF OriginInv, AnswerSoFar, Early
    <3> QED  BY <2>1, <2>3, <3>1, AnsweredInv
  <2>4. CASE Origin!Fail  BY <2>1, <2>4, FailInv
  <2>5. CASE Origin!Ends("dropped")
    <3>1. "dropped" \in EndSet /\ "dropped" # "eof" /\ place # "end"  BY <2>1
    <3> QED  BY <1>t, <2>1, <2>5, <3>1, EndsInv
  <2> QED  BY <1>4, <2>2, <2>3, <2>4, <2>5 DEF Origin!Resolve
<1>5. CASE Origin!Dial
  <2>1. place = "dial" /\ UNCHANGED <<request, reply, body, origin, held, rest, shut, chunk>>
    BY <1>5 DEF Origin!Dial
  <2>2. CASE place' = "body" /\ UNCHANGED seen
    <3>1. Forwarded'  BY <2>1 DEF OriginInv, Forwarded
    <3> QED  BY <2>1, <2>2, <3>1, EarlyInv DEF Early
  <2>3. CASE Origin!Fail  BY <2>1, <2>3, FailInv
  <2> QED  BY <1>5, <2>2, <2>3 DEF Origin!Dial
<1>6. CASE Origin!ReadBody
  <2>1. /\ place = "body" /\ Len(body) < request.bytes
        /\ UNCHANGED <<request, reply, origin, held, rest, shut, chunk>>
    BY <1>6 DEF Origin!ReadBody
  <2>2. CASE Origin!Fail /\ UNCHANGED body  BY <2>1, <2>2, FailInv
  <2>3. CASE body' = Append(body, Len(body) + 1) /\ UNCHANGED <<place, seen>>
    <3>1. PICK m \in Nat : m = Len(body)  BY DEF OriginInv, Forwarded
    <3>2. body \in Seq(Nat) /\ body = Origin!Bytes(m) /\ request.bytes \in Nat
      BY <3>1, RequestFacts DEF OriginInv, Forwarded
    <3>3. body' \in Seq(Nat) /\ Len(body') = m + 1 /\ body' = Append(body, m + 1)
      BY <2>3, <3>1, <3>2
    <3>4. Append(Origin!Bytes(m), m + 1) = Origin!Bytes(m + 1)  BY BytesFacts
    <3>5. body' = Origin!Bytes(Len(body'))  BY <3>2, <3>3, <3>4
    <3>6. Len(body') <= request'.bytes
      <4>1. m < request.bytes /\ request' = request  BY <2>1, <3>1
      <4>2. m + 1 <= request.bytes  BY <3>2, <4>1
      <4> QED  BY <3>3, <4>1, <4>2
    <3>7. Forwarded'  BY <2>1, <3>3, <3>5, <3>6 DEF OriginInv, Forwarded
    <3> QED  BY <2>1, <2>3, <3>7, EarlyInv DEF Early
  <2> QED  BY <1>6, <2>2, <2>3 DEF Origin!ReadBody
<1>7. CASE Origin!BodyFails \/ Origin!HeadFails
  <2>1. /\ place # "end" /\ Origin!Fail
        /\ UNCHANGED <<request, reply, body, origin, held, rest, shut, chunk>>
    BY <1>7 DEF Origin!BodyFails, Origin!HeadFails
  <2> QED  BY <2>1, FailInv
<1>8. CASE Origin!WriteRequest
  <2>1. /\ place = "body" /\ place' = "head" /\ origin' = [declared |-> Len(body), body |-> body]
        /\ UNCHANGED <<request, reply, body, held, rest, shut, chunk, seen>>
    BY <1>8 DEF Origin!WriteRequest
  <2>2. origin'.declared = Len(origin'.body) /\ origin'.body = body  BY <2>1
  <2>3. Forwarded'  BY <2>1, <2>2 DEF OriginInv, Forwarded
  <2> QED  BY <2>1, <2>3, EarlyInv DEF Early
<1>9. CASE Origin!ChunkBreaks
  <2>1. place = "copy" /\ UNCHANGED <<request, reply, body, origin, held, rest, shut, chunk>>
    BY <1>9 DEF Origin!ChunkBreaks
  <2>2. CASE Origin!Fail  BY <2>1, <2>2, FailInv
  <2>3. CASE Origin!Ends("dropped")
    <3>1. "dropped" \in EndSet /\ "dropped" # "eof" /\ place # "end"  BY <2>1
    <3> QED  BY <1>t, <2>1, <2>3, <3>1, EndsInv
  <2> QED  BY <1>9, <2>2, <2>3 DEF Origin!ChunkBreaks
<1>10. CASE Origin!EdgeResets
  <2>1. /\ place # "end" /\ Origin!Ends("reset")
        /\ UNCHANGED <<request, reply, body, origin, held, rest, shut, chunk>>
    BY <1>10 DEF Origin!EdgeResets
  <2>2. "reset" \in EndSet /\ "reset" # "eof"  OBVIOUS
  <2> QED  BY <1>t, <2>1, <2>2, EndsInv
<1>11. CASE UNCHANGED originVars
  <2>1. UNCHANGED <<request, reply, place, body, origin, held, rest, shut, chunk, seen>>
    BY <1>11 DEF originVars
  <2>2. SeenTypes'  BY <2>1 DEF OriginInv, SeenTypes
  <2>3. AnswerSoFar'  BY <2>1 DEF OriginInv, AnswerSoFar
  <2>4. Copied'  BY <2>1 DEF OriginInv, Copied, ReadUpTo, Unread, PassedOn
  <2>5. Forwarded'  BY <2>1 DEF OriginInv, Forwarded
  <2>6. EndedWell'  BY <2>1 DEF OriginInv, EndedWell
  <2> QED  BY <2>2, <2>3, <2>4, <2>5, <2>6 DEF OriginInv
<1> QED
  BY <1>1, <1>2, <1>3, <1>4, <1>5, <1>6, <1>7, <1>8, <1>9, <1>10, <1>11,
     CopyPlainInv, CopyChunkedInv, CopyEndsInv, OriginClosesInv, ReadHeadInv
  DEF Origin!OriginNext, Origin!HandlerStep
-----------------------------------------------------------------------------
(* The parts together.                                                     *)
PartsInv == DatagramInv /\ OriginInv

(* Both invariants hold in every reachable state.                          *)
LEMMA PartsInvHolds == MCSpec => []PartsInv
<1>1. MCInit => PartsInv
  <2> SUFFICES ASSUME MCInit PROVE PartsInv  OBVIOUS
  <2>1. \E p \in {"idle", "select"} : Datagrams!DatagramInit(p)
    BY DEF MCInit, IdleDatagrams
  <2>2. \E p \in {"idle", "new"} : Origin!OriginInit(p)
    BY DEF MCInit, IdleOrigin
  <2> QED  BY <2>1, <2>2, DatagramInitInv, OriginInitInv DEF PartsInv
<1>2. PartsInv /\ [MCNext]_<<part, vars, datagramVars, originVars>> => PartsInv'
  <2>1. [MCNext]_<<part, vars, datagramVars, originVars>> =>
            [Datagrams!DatagramNext]_datagramVars /\ [Origin!OriginNext]_originVars
    BY DEF MCNext
  <2> QED  BY <2>1, DatagramNextInv, OriginNextInv DEF PartsInv
<1> QED  BY <1>1, <1>2, PTL DEF MCSpec

(* A flow gets the payloads of its session, each once and in order, and    *)
(* request and response bodies arrive whole, for every number of flows,    *)
(* payloads and bytes and every size of the channels.                      *)
THEOREM FlowsAlwaysIntact == MCSpec => []FlowsIntact
<1>1. ASSUME DatagramInv  PROVE Datagrams!FlowsIntact
  <2> SUFFICES ASSUME NEW f \in 1 .. Len(flows), flows[f].task = "over"
               PROVE  flows[f].got = SubSeq(accepted[f], 1, Len(flows[f].got))
    BY <1>1 DEF DatagramInv, Received, Datagrams!FlowsIntact, Datagrams!Flows
  <2>1. PICK g, a : g = flows[f].got /\ a = accepted[f]  OBVIOUS
  <2>2. g \in Seq(Nat) /\ a \in Seq(Nat)
    <3>1. /\ flows \in Seq(FlowRecord) /\ accepted \in Seq(Seq(Nat)) /\ Len(accepted) = Len(flows)
      BY <1>1 DEF DatagramInv, FlowTypes
    <3>2. flows[f] \in FlowRecord  BY <3>1
    <3>3. accepted[f] \in Seq(Nat)  BY <3>1
    <3> QED  BY <2>1, <3>2, <3>3 DEF FlowRecord
  <2>3. Len(g) <= Len(a) /\ \A i \in 1 .. Len(g) : g[i] = a[i]
    BY <1>1, <2>1 DEF DatagramInv, Received, Prefix
  <2> DEFINE s == SubSeq(a, 1, Len(g))
  <2>4. s \in Seq(Nat) /\ Len(s) = Len(g) /\ \A i \in 1 .. Len(g) : s[i] = a[i]
    <3>1. CASE Len(g) = 0
      <4>1. s = << >>  BY <2>2, <3>1, SubSeqProperties
      <4> QED  BY <3>1, <4>1, EmptySeq
    <3>2. CASE Len(g) # 0
      <4>1. Len(g) \in Nat /\ Len(a) \in Nat /\ 1 \in 1 .. Len(a) /\ Len(g) \in 1 .. Len(a)
        BY <2>2, <2>3, <3>2
      <4>2. s \in Seq(Nat) /\ Len(s) = Len(g) /\ \A i \in 1 .. Len(g) : s[i] = a[1 + i - 1]
        BY <2>2, <4>1, SubSeqProperties
      <4>3. \A i \in 1 .. Len(g) : 1 + i - 1 = i  BY <4>1
      <4> HIDE DEF s
      <4> QED  BY <4>2, <4>3
    <3> QED  BY <3>1, <3>2
  <2> HIDE DEF s
  <2>5. s = g  BY <2>2, <2>3, <2>4, SeqEqual
  <2> QED  BY <2>1, <2>5 DEF s
<1>2. ASSUME OriginInv  PROVE Origin!BodiesIntact
  BY <1>2 DEF OriginInv, Copied, EndedWell, Forwarded, Origin!BodiesIntact, Origin!NoLength
<1>3. PartsInv => FlowsIntact  BY <1>1, <1>2 DEF PartsInv, FlowsIntact
<1> QED  BY <1>3, PartsInvHolds, PTL

(* A request gets one answer: whatever fails and whenever the edge or the  *)
(* origin goes away, no second head and no error text follows a response.  *)
THEOREM AlwaysOneAnswer == MCSpec => []OneAnswer
<1>1. ASSUME OriginInv  PROVE OneAnswer
  <2>1. /\ seen.heads \in {<< >>, <<"ok">>, <<"origin">>, <<"error">>, <<"status">>}
        /\ seen.end = "eof" => seen.heads # << >>
        /\ seen.body # << >> => seen.heads = <<"origin">>
    BY <1>1 DEF OriginInv, AnswerSoFar
  <2>2. Len(seen.heads) <= 1
    <3>1. \A x : Len(<<x>>) = 1  OBVIOUS
    <3>2. Len(<< >>) = 0  BY EmptySeq
    <3>3. Len(seen.heads) = 0 \/ Len(seen.heads) = 1  BY <2>1, <3>1, <3>2, Zenon
    <3>4. 0 <= 1 /\ 1 <= 1  OBVIOUS
    <3> QED  BY <3>3, <3>4, Zenon
  <2> QED  BY <2>1, <2>2 DEF OneAnswer, Origin!OneAnswer
<1>2. PartsInv => OneAnswer  BY <1>1 DEF PartsInv
<1> QED  BY <1>2, PartsInvHolds, PTL
=============================================================================
