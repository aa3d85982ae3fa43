------------------------- MODULE CloudflaredRouting -------------------------
(***************************************************************************)
(* Where a tunnel and its requests go: discover_edges finds the edge's     *)
(* addresses by SRV, resolve_remote_request turns a request into one for   *)
(* the service of the first ingress rule that matches, and                 *)
(* build_origin_request writes its header.                                 *)
(*                                                                         *)
(* A host is its labels, upper-case ones quoted apart; a path is a         *)
(* sequence of slashes and letters; an address is <<version, host, port>>. *)
(***************************************************************************)
EXTENDS Integers, Sequences, FiniteSets, SequencesExt, TLC

Refused == [ok |-> FALSE]
Done(value) == [ok |-> TRUE, value |-> value]
-----------------------------------------------------------------------------
(* parse_srv_response: a response to this query without an error; answers  *)
(* of another type or class are passed over, the others sorted by          *)
(* priority, heavier ones first.                                           *)
Before(a, b) == a.priority < b.priority \/ (a.priority = b.priority /\ a.weight > b.weight)

\* Stable, like sort_by_key.
Insert(list, x) ==
    SelectSeq(list, LAMBDA y : ~Before(x, y)) \o <<x>> \o SelectSeq(list, LAMBDA y : Before(x, y))

ParseSrvResponse(packet, id) ==
    IF ~packet.whole \/ packet.id # id \/ ~packet.response \/ packet.code # 0 THEN Refused
    ELSE Done(FoldLeft(Insert, << >>, SelectSeq(packet.answers, LAMBDA a : a.srv)))

(* lookup_srv_system asks the first nameserver and waits for one datagram; *)
(* lookup_srv_dot has a connection of its own.                             *)
LookupSrvSystem(net) ==
    IF net.nameservers = << >> \/ net.datagram = "lost" \/ ~net.fromServer THEN Refused
    ELSE ParseSrvResponse(net.packet, net.query)

LookupSrvDot(net) == IF net.dot = "down" THEN Refused ELSE ParseSrvResponse(net.dotPacket, net.query + 1)

(* Mutant: only a failure, not an empty answer, leads to the fallback. *)
FallsBackOnError(system) == ~system.ok

FallsBack(system) == ~system.ok \/ system.value = << >>

Lexical(a, b) ==
    \E i \in 1 .. 3 : a[i] < b[i] /\ \A j \in 1 .. i - 1 : a[j] = b[j]

Dedup(list) == [i \in {j \in 1 .. Len(list) : j = 1 \/ list[j] # list[j - 1]} |-> list[i]]

Compact(f) == [i \in 1 .. Cardinality(DOMAIN f) |->
                  f[CHOOSE k \in DOMAIN f : Cardinality({j \in DOMAIN f : j <= k}) = i]]

(* Mutant: equal addresses are removed before they stand together. *)
ArrangeLate(list) == SortSeq(Compact(Dedup(list)), Lexical)

Arrange(list) == Compact(Dedup(SortSeq(list, Lexical)))

(* discover_edges: one target that does not resolve is an error for all. *)
DiscoverEdges(net, version) ==
    LET system == LookupSrvSystem(net)
        records == IF FallsBack(system) THEN LookupSrvDot(net) ELSE system
        resolved(record) == [i \in 1 .. Len(net.hosts[record.target]) |->
                               Append(net.hosts[record.target][i], record.port)]
        found == FlattenSeq([i \in 1 .. Len(records.value) |-> resolved(records.value[i])])
        edges == Arrange(SelectSeq(found, LAMBDA a : version \in {0, a[1]}))
    IN  IF ~records.ok \/ (\E i \in 1 .. Len(records.value) : records.value[i].target \notin DOMAIN net.hosts)
        THEN Refused
        ELSE IF edges = << >> THEN Refused ELSE Done(edges)
-----------------------------------------------------------------------------
(* normalize_host: brackets and a port are dropped, letters made small. *)
Small(label) == IF label = "A" THEN "a" ELSE label

NormalizeHost(host) == [i \in 1 .. Len(host.labels) |-> Small(host.labels[i])]

(* Mutant: the wildcard also stands for nothing. *)
WildcardCovers(labels, host) == IsSuffix(labels, host)

Wildcard(labels, host) == IsSuffix(labels, host) /\ labels # host

HostMatches(rule, host) ==
    LET labels == [i \in 1 .. Len(rule.labels) |-> Small(rule.labels[i])] IN
    CASE rule.host = "any"   -> TRUE       \* empty or "*"
      [] rule.host = "exact" -> labels = host
      [] rule.host = "wild"  -> Wildcard(labels, host)

(* The anchors of a path pattern are dropped, the rest is a prefix. *)
RuleMatches(rule, host, path) == HostMatches(rule, host) /\ IsPrefix(rule.path, path)

RECURSIVE TrimEnd(_)
TrimEnd(path) == IF path # << >> /\ Last(path) = "/" THEN TrimEnd(Front(path)) ELSE path

(* Mutant: the service's path keeps its last slash. *)
ServicePathWhole(path) == path

ServicePath(path) == TrimEnd(path)

JoinedPath(service, request) ==
    IF ServicePath(service) \in {<< >>, <<"/">>} THEN request
    ELSE IF request = <<"/">> THEN ServicePath(service)
    ELSE ServicePath(service) \o request

(* resolve_remote_request *)
ResolveRemoteRequest(ingress, request) ==
    LET host == IF request.header.labels # << >> THEN NormalizeHost(request.header) ELSE NormalizeHost(request.authority)
        hits == {i \in 1 .. Len(ingress) : RuleMatches(ingress[i], host, request.path)}
        rule == ingress[CHOOSE i \in hits : \A j \in hits : i <= j]
    IN  IF ingress = << >> THEN Done([request EXCEPT !.status = 0])
        ELSE IF hits = {} THEN Refused
        ELSE CASE rule.service.kind = "status" -> Done([request EXCEPT !.status = rule.service.status])
               [] rule.service.kind = "url" ->
                    Done([request EXCEPT !.authority = rule.service.authority, !.scheme = rule.service.scheme,
                                         !.path = JoinedPath(rule.service.path, @)])
               [] rule.service.kind = "other" -> Refused

(* destination_for_request *)
DestinationFor(request) ==
    [labels |-> request.authority.labels,
     port |-> IF request.authority.port # 0 THEN request.authority.port
              ELSE IF request.scheme \in {"https", "wss"} THEN 443 ELSE 80]
-----------------------------------------------------------------------------
(* build_origin_request.  A name is <<word, spelling>>; the check of names *)
(* is by word.  Mutant: it is by the usual spelling.                       *)
Own == {"host", "content-length", "connection", "transfer-encoding",
        "cf-cloudflared-proxy-connection-upgrade"}

OwnsSpelled(name, websocket) ==
    /\ name[2] = "usual"
    /\ name[1] \in Own \cup {"upgrade"} \cup (IF websocket THEN {"sec-websocket-version"} ELSE {})

Owns(name, websocket) ==
    name[1] \in Own \cup {"upgrade"} \cup (IF websocket THEN {"sec-websocket-version"} ELSE {})

Line(word) == [name |-> <<word, "usual">>, value |-> "ours"]

BuildOriginRequest(headers, websocket) ==
    LET passed == SelectSeq(headers, LAMBDA h : ~Owns(h.name, websocket))
    IN  IF \E i \in 1 .. Len(passed) : passed[i].value = "broken" THEN Refused
        ELSE Done(<<Line("host")>> \o passed \o <<Line("content-length")>>
                  \o (IF websocket THEN <<Line("upgrade"), Line("sec-websocket-version")>> ELSE << >>)
                  \o <<Line("connection")>>)

(* source_for_request: three headers, each as metadata of its own or among *)
(* the headers; the first of them that is an address.  metadata_value      *)
(* compares names letter by letter, so that of the headers those in the    *)
(* spelling of this list are found and the lower-case ones of HTTP/2 not.  *)
SourceHeaders == <<"Cf-Connecting-IP", "X-Real-IP", "X-Forwarded-For">>

SourceFor(metadata) ==
    LET header(k) == IF metadata.spelling = "listed" THEN metadata.header[k] ELSE "absent"
        value(k) == IF metadata.own[k] # "absent" THEN metadata.own[k] ELSE header(k)
        usable == {k \in 1 .. Len(SourceHeaders) : value(k) \notin {"absent", "garbage"}}
    IN  IF usable = {} THEN "unspecified" ELSE value(CHOOSE k \in usable : \A j \in usable : k <= j)
-----------------------------------------------------------------------------
(* The edges are exactly the addresses of the right version behind one     *)
(* good answer, the system's if it has any record, each once and in order, *)
(* and there is one.                                                       *)
EdgesAreRight(net, version) ==
    LET good(packet, id) == packet.whole /\ packet.response /\ packet.code = 0 /\ packet.id = id
        useful(packet) == \E i \in 1 .. Len(packet.answers) : packet.answers[i].srv
        system == /\ net.nameservers # << >> /\ net.datagram = "arrives" /\ net.fromServer
                  /\ good(net.packet, net.query) /\ useful(net.packet)
        packet == IF system THEN net.packet ELSE net.dotPacket
        targets == {packet.answers[i] : i \in {j \in 1 .. Len(packet.answers) : packet.answers[j].srv}}
        wanted == UNION {{<<a[1], a[2], t.port>> : a \in {b \in ToSet(net.hosts[t.target]) : version \in {0, b[1]}}}
                         : t \in targets}
        answer == DiscoverEdges(net, version)
        answered == system \/ (net.dot = "up" /\ good(net.dotPacket, net.query + 1))
    IN  /\ answer.ok <=> /\ answered
                         /\ \A t \in targets : t.target \in DOMAIN net.hosts
                         /\ wanted # {}
        /\ answer.ok => /\ ToSet(answer.value) = wanted
                        /\ \A i \in 2 .. Len(answer.value) : Lexical(answer.value[i - 1], answer.value[i])

Segments(path) == SelectSeq(path, LAMBDA c : c # "/")

(* A request that a rule takes goes to that rule's service, host, port and *)
(* path, whoever it was addressed to; no earlier rule would have had it;   *)
(* and under a last rule for everything every request is taken.            *)
IngressIsRight(ingress, request) ==
    LET answer == ResolveRemoteRequest(ingress, request)
        asked == IF request.header.labels # << >> THEN request.header.labels ELSE request.authority.labels
        host == [i \in 1 .. Len(asked) |-> Small(asked[i])]
        under(labels) == \E n \in 2 .. Len(host) : SubSeq(host, n, Len(host)) = labels
        takes(rule) ==
          /\ \/ rule.host = "any"
             \/ rule.host = "exact" /\ [i \in 1 .. Len(rule.labels) |-> Small(rule.labels[i])] = host
             \/ rule.host = "wild" /\ under([i \in 1 .. Len(rule.labels) |-> Small(rule.labels[i])])
          /\ Len(rule.path) <= Len(request.path)
          /\ \A k \in 1 .. Len(rule.path) : rule.path[k] = request.path[k]
        first(i) == takes(ingress[i]) /\ \A j \in 1 .. i - 1 : ~takes(ingress[j])
    IN  /\ ingress = << >> => answer = Done(request)
        /\ ingress # << >> /\ answer.ok =>
             \E i \in 1 .. Len(ingress) :
                LET service == ingress[i].service IN
                /\ first(i)
                /\ service.kind = "status" => answer.value.status = service.status
                /\ service.kind = "url" =>
                     /\ DestinationFor(answer.value).labels = service.authority.labels
                     /\ DestinationFor(answer.value).port \in {service.authority.port, 80, 443}
                     /\ Segments(answer.value.path) = Segments(service.path) \o Segments(request.path)
                     /\ Head(answer.value.path) = "/"
                     /\ \A k \in 2 .. Len(answer.value.path) :
                          <<answer.value.path[k - 1], answer.value.path[k]>> # <<"/", "/">>
        /\ ~answer.ok => \/ \A i \in 1 .. Len(ingress) : ~takes(ingress[i])
                         \/ \E i \in 1 .. Len(ingress) : first(i) /\ ingress[i].service.kind = "other"

(* Whatever headers the visitor sends, in whatever spelling, the framing   *)
(* of the origin's request is the tunnel's own: one host, one length, one  *)
(* connection header, an upgrade only for a websocket; and every other     *)
(* header goes through in order.                                           *)
FramingIsOurs(headers, websocket) ==
    LET answer == BuildOriginRequest(headers, websocket)
        count(word) == Cardinality({i \in 1 .. Len(answer.value) : answer.value[i].name[1] = word})
        foreign == SelectSeq(headers, LAMBDA h : h.name[1] = "accept")
    IN  answer.ok =>
          /\ \A word \in {"host", "content-length", "connection"} : count(word) = 1
          /\ count("transfer-encoding") = 0
          /\ count("upgrade") = IF websocket THEN 1 ELSE 0
          /\ SelectSeq(answer.value, LAMBDA h : h.name[1] = "accept") = foreign

(* The source a rule sees is the visitor's address as the edge wrote it,   *)
(* when it did, whatever else the visitor claims.                          *)
SourceIsTheEdges(metadata) ==
    /\ metadata.own[1] \notin {"absent", "garbage"} => SourceFor(metadata) = metadata.own[1]
    /\ SourceFor(metadata) # "unspecified" =>
         SourceFor(metadata) \in {metadata.own[k] : k \in 1 .. 3} \cup {metadata.header[k] : k \in 1 .. 3}
-----------------------------------------------------------------------------
Srv(priority, weight, port, target) ==
    [srv |-> TRUE, priority |-> priority, weight |-> weight, port |-> port, target |-> target]
OtherAnswer == [srv |-> FALSE]
Packet(id, code, answers) == [whole |-> TRUE, id |-> id, response |-> TRUE, code |-> code, answers |-> answers]
Packets(id) ==
    {Packet(id, 0, answers) : answers \in
       {<< >>, <<OtherAnswer>>, <<Srv(1, 1, 7, "e1"), Srv(0, 1, 7, "e2")>>,
        <<OtherAnswer, Srv(1, 1, 7, "e2"), Srv(1, 2, 7, "e1")>>,
        <<Srv(1, 1, 8, "e1"), Srv(1, 1, 7, "gone")>>}}
    \cup {Packet(id, 3, << >>), Packet(id + 5, 0, <<Srv(1, 1, 7, "e1")>>),
          [Packet(id, 0, << >>) EXCEPT !.whole = FALSE], [Packet(id, 0, << >>) EXCEPT !.response = FALSE]}
EdgeHosts == "e1" :> << <<6, 1>>, <<4, 2>>, <<4, 1>> >> @@ "e2" :> << <<4, 1>>, <<4, 2>> >>

Host(labels) == [labels |-> labels, port |-> 0]
Rule(kind, labels, path, service) == [host |-> kind, labels |-> labels, path |-> path, service |-> service]
Services ==
    {[kind |-> "status", status |-> 404], [kind |-> "other"]}
    \cup {[kind |-> "url", scheme |-> s, authority |-> [labels |-> <<"o">>, port |-> p], path |-> path] :
            s \in {"http", "wss"}, p \in {0, 81}, path \in {<<"/">>, <<"/", "b">>, <<"/", "b", "/">>}}
Plain == [kind |-> "url", scheme |-> "http", authority |-> [labels |-> <<"p">>, port |-> 0], path |-> <<"/">>]
Ingresses ==
    {<< >>} \cup
    {<<Rule(kind, labels, path, service)>> \o rest :
        kind \in {"exact", "wild", "any"}, labels \in {<<"A", "c">>, <<"c">>}, path \in {<< >>, <<"/", "x">>},
        service \in Services, rest \in {<< >>, <<Rule("any", << >>, << >>, Plain)>>}}
TunnelRequests ==
    [authority : {Host(<<"c">>), Host(<<"a", "c">>)}, header : {Host(<< >>), Host(<<"A", "c">>), Host(<<"z">>)},
     scheme : {"http"}, path : {<<"/">>, <<"/", "x">>, <<"/", "y", "/">>}, status : {0}]

Header(name, value) == [name |-> name, value |-> value]
Headers ==
    {Header(<<word, spelling>>, "theirs") :
        word \in {"host", "content-length", "connection", "transfer-encoding", "upgrade",
                  "sec-websocket-version", "accept"}, spelling \in {"usual", "odd"}}
    \cup {Header(<<"accept", "usual">>, "broken")}

TunnelCases ==
    [about : {"edge"}, version : {0, 4, 6},
     net : [nameservers : {<<"n">>, << >>}, datagram : {"arrives", "lost"}, fromServer : BOOLEAN, query : {1},
            packet : Packets(1), dot : {"up", "down"}, dotPacket : Packets(2), hosts : {EdgeHosts}]]
    \cup [about : {"ingress"}, ingress : Ingresses, request : TunnelRequests]
    \cup [about : {"header"}, headers : UNION {[1 .. n -> Headers] : n \in 0 .. 2}, websocket : BOOLEAN]
    \cup [about : {"source"}, metadata : [own : [1 .. 3 -> {"absent", "garbage", "edge"}],
                                          header : [1 .. 3 -> {"absent", "garbage", "visitor"}],
                                          spelling : {"listed", "lower"}]]

(* Tunnels and requests go where discovery and the ingress rules say: see  *)
(* the properties above.                                                   *)
TunnelsAreRouted(case) ==
    CASE case.about = "edge" -> EdgesAreRight(case.net, case.version)
      [] case.about = "ingress" -> IngressIsRight(case.ingress, case.request)
      [] case.about = "header" -> FramingIsOurs(case.headers, case.websocket)
      [] case.about = "source" -> SourceIsTheEdges(case.metadata)
=============================================================================
