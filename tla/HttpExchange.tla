---------------------------- MODULE HttpExchange ----------------------------
(***************************************************************************)
(* One HTTP/1.1 exchange of the program's own client code: a rule-set      *)
(* download (HttpRuleSetFetcher::fetch, which follows redirects), a        *)
(* request of the certificate provider (HttpClient::execute), or a         *)
(* request the Hysteria2 masquerade passes on (proxy_request).  All three  *)
(* send "Connection: close", read until the server closes, and only then   *)
(* take the response apart.                                                *)
(*                                                                         *)
(* The server (external) may close early or not at all, and its document   *)
(* changes while it is fetched.  A body is a sequence of cells, each the   *)
(* number of the version it belongs to; the version is its entity tag.     *)
(***************************************************************************)
EXTENDS Integers, Sequences, SequencesExt

CONSTANTS Sites,         \* page -> the page it redirects to, or itself
          MaxRedirects,  \* MAX_REDIRECTS
          MaxResponse,   \* MAX_RESPONSE_SIZE, in cells
          MaxVersion     \* bound on the changes of the document

\* What ParsedUrl holds; a port of 0 is one that was left out.
Urls == [scheme : {"http", "https"}, host : STRING, port : Nat, path : Seq(STRING) \ {<< >>}]

ASSUME SitesAssumption ==
    \A s \in Sites : \A page \in DOMAIN s :
        page \in Urls /\ page.port # 0 /\ s[page] \in Urls /\ s[page].port # 0
ASSUME MaxRedirectsAssumption == MaxRedirects \in Nat

VARIABLES
    job,        \* [kind, method, etag]: etag of the snapshot in use, 0: none
    site,
    version,    \* of the document now
    exchange,   \* "idle" | "request" | "read" | "parse" | "done"
    url,        \* where the next request goes
    redirects,
    head,       \* of the response
    wire,       \* cells the server still has to send
    got,        \* cells read
    result,
    goal,       \* history: the page the last redirect names
    since       \* history: versions during the exchange

exchangeVars == <<job, site, version, exchange, url, redirects, head, wire, got, result, goal, since>>

NoHead == [status |-> 0]
Failed == [kind |-> "error", status |-> 0]

Jobs ==
    [kind : {"fetch"}, method : {"GET"}, etag : 0 .. 1]
    \cup [kind : {"execute"}, method : {"HEAD", "POST"}, etag : {0}]
    \cup [kind : {"proxy"}, method : {"GET", "HEAD"}, etag : 0 .. 1]
-----------------------------------------------------------------------------
(* ParsedUrl::parse with parse_authority: the port is the scheme's unless  *)
(* the authority names one.  Mutant: it is always the plain one.           *)
ParsePlainPort(u) == [u EXCEPT !.port = IF @ = 0 THEN 80 ELSE @]

Parse(u) == [u EXCEPT !.port = IF @ # 0 THEN @ ELSE IF u.scheme = "https" THEN 443 ELSE 80]

(* ParsedUrl::resolve.  Mutant: a relative location starts at the root.    *)
ResolveAtRoot(base, location) ==
    IF location.form = "absolute" THEN location.url
    ELSE [base EXCEPT !.path = location.url.path]

Resolve(base, location) ==
    LET named == location.url IN
    CASE location.form = "absolute" -> named
      [] location.form = "network"  -> [named EXCEPT !.scheme = base.scheme]
      [] location.form = "path"     -> [base EXCEPT !.path = named.path]
      [] location.form = "relative" -> [base EXCEPT !.path = Front(@) \o named.path]

(* The ways a server may spell a redirect from one page to another: a part *)
(* left out is the page's own, and so is a port that is the scheme's.      *)
Implied(page) == page.port = Parse([page EXCEPT !.port = 0]).port

Spellings(page, target) ==
    LET written == IF Implied(target) THEN [target EXCEPT !.port = 0] ELSE target
        here == page.host = target.host /\ page.port = target.port /\ page.scheme = target.scheme
        sibling == here /\ Front(page.path) = Front(target.path)
        as(form, u) == [form |-> form, url |-> u]
    IN  {as("absolute", target), as("absolute", written)}
        \cup (IF page.scheme = target.scheme THEN {as("network", written)} ELSE {})
        \cup (IF here THEN {as("path", target)} ELSE {})
        \cup (IF sibling THEN {as("relative", [target EXCEPT !.path = <<Last(@)>>])} ELSE {})
-----------------------------------------------------------------------------
\* What is on the wire besides the cells of the body.
SizeLine == -1
LineEnd == -2
LastChunk == -3
Junk == -4

Body(v) == [i \in 1 .. v |-> v]

(* The body on the wire: after a Content-Length, with something behind it, *)
(* in chunks of one cell, or up to the close.                              *)
Framed(framing, body) ==
    CASE framing = "length"  -> body \o <<Junk>>
      [] framing = "chunked" -> FlattenSeq([i \in 1 .. Len(body) |-> <<SizeLine, body[i], LineEnd>>]) \o <<LastChunk>>
      [] framing = "close"   -> body

(* decode_chunked: a size line, as many cells, a line end, until size 0.   *)
(* Mutant: the end of the input ends the body as well.                     *)
ChunksEndAnywhere(cells) == TRUE

ChunksEnd(cells) == \E i \in 1 .. Len(cells) : cells[i] = LastChunk

DecodeChunked(cells) == [i \in 1 .. Len(cells) \div 3 |-> cells[3 * i - 1]]

(* body.len() >= length.  Mutant: not looked at. *)
LongEnoughAlways(cells, length) == TRUE

LongEnough(cells, length) == Len(cells) >= length

(* HttpResponse::parse, parse_proxy_response: which responses have no body *)
(* differs, the rest is the same.                                          *)
NoBody == job.method = "HEAD" \/ (job.kind = "proxy" /\ head.status \in {204, 304})

ParseOk ==
    \/ NoBody
    \/ /\ head.framing = "chunked" => ChunksEnd(got)
       /\ head.framing = "length" => LongEnough(got, head.length)

ParsedBody ==
    IF NoBody THEN << >>
    ELSE CASE head.framing = "chunked" -> DecodeChunked(got)
           [] head.framing = "length"  -> SubSeq(got, 1, IF Len(got) < head.length THEN Len(got) ELSE head.length)
           [] OTHER                    -> got

(* remove_hop_by_hop_headers, and Content-Length unless the body was only  *)
(* asked about.                                                            *)
PassedHeaders ==
    (IF head.framing = "length" /\ job.method = "HEAD" THEN {"content-length"} ELSE {})
    \cup (IF head.status = 302 THEN {"location"} ELSE {})
-----------------------------------------------------------------------------
ExchangeInit(start) ==
    /\ job \in Jobs
    /\ site \in Sites
    /\ version = 1
    /\ exchange = start
    /\ url \in DOMAIN site
    /\ redirects = 0
    /\ head = NoHead
    /\ wire = << >> /\ got = << >>
    /\ result = Failed
    /\ goal = Parse(url)
    /\ since = {1}

Finish(answer) == exchange' = "done" /\ result' = answer

\* An error; the masquerade's client is answered 502.
Error == [Failed EXCEPT !.status = IF job.kind = "proxy" THEN 502 ELSE 0]

(* What the server answers, by what it is asked. *)
Respond(page, status, framing) ==
    LET body == IF status = 200 THEN Body(version) ELSE << >>
        sent == IF job.method = "HEAD" THEN << >> ELSE Framed(framing, body)
    IN  \E location \in IF status = 302 THEN Spellings(page, site[page]) ELSE {<< >>} :
          /\ head' = [status |-> status, framing |-> framing, length |-> Len(body),
                      etag |-> IF status = 200 THEN version ELSE 0, location |-> location]
          /\ wire' = sent

StatusOf(page) ==
    IF page \notin DOMAIN site THEN {404}
    ELSE IF site[page] # page THEN {302}
    ELSE IF job.etag = version THEN {304} ELSE {200, 204, 500}

(* HttpClient::request, proxy_request: dial, TLS, send. *)
Ask ==
    /\ exchange = "request"
    /\ LET page == Parse(url) IN
       \E status \in StatusOf(page), framing \in {"length", "chunked", "close"} :
          Respond(page, status, framing)
    /\ exchange' = "read"
    /\ got' = << >>
    /\ UNCHANGED <<job, site, version, url, redirects, result, goal, since>>

AskFails ==
    /\ exchange \in {"request", "read"}
    /\ Finish(Error)
    /\ UNCHANGED <<job, site, version, url, redirects, head, wire, got, goal, since>>

(* take(MAX + 1).read_to_end(..) *)
Read ==
    /\ exchange = "read"
    /\ wire # << >> /\ Len(got) <= MaxResponse
    /\ got' = Append(got, Head(wire))
    /\ wire' = Tail(wire)
    /\ UNCHANGED <<job, site, version, exchange, url, redirects, head, result, goal, since>>

ReadTooMuch ==
    /\ exchange = "read"
    /\ Len(got) > MaxResponse
    /\ Finish(Error)
    /\ UNCHANGED <<job, site, version, url, redirects, head, wire, got, goal, since>>

(* The server closes, with or without the rest sent. *)
Eof ==
    /\ exchange = "read"
    /\ Len(got) <= MaxResponse
    /\ exchange' = "parse"
    /\ UNCHANGED <<job, site, version, url, redirects, head, wire, got, result, goal, since>>

ParseFails ==
    /\ exchange = "parse"
    /\ ~ParseOk
    /\ Finish(Error)
    /\ UNCHANGED <<job, site, version, url, redirects, head, wire, got, goal, since>>

(* fetch_inner's match on the status. *)
FetchModified ==
    /\ exchange = "parse" /\ ParseOk
    /\ job.kind = "fetch" /\ head.status = 200
    /\ Finish([kind |-> "modified", status |-> 200, body |-> ParsedBody, etag |-> head.etag,
               exact |-> head.framing # "close"])
    /\ UNCHANGED <<job, site, version, url, redirects, head, wire, got, goal, since>>

FetchNotModified ==
    /\ exchange = "parse" /\ ParseOk
    /\ job.kind = "fetch" /\ head.status = 304
    /\ Finish([kind |-> "not modified", status |-> 304])
    /\ UNCHANGED <<job, site, version, url, redirects, head, wire, got, goal, since>>

(* Mutant: one redirect too many. *)
FollowsOneMore == redirects <= MaxRedirects

Follows == redirects < MaxRedirects

FetchRedirected ==
    /\ exchange = "parse" /\ ParseOk
    /\ job.kind = "fetch" /\ head.status = 302
    /\ \/ /\ Follows
          /\ url' = Resolve(Parse(url), head.location)
          /\ redirects' = redirects + 1
          /\ goal' = site[goal]
          /\ exchange' = "request"
          /\ UNCHANGED result
       \/ /\ ~Follows
          /\ Finish(Error)
          /\ UNCHANGED <<url, redirects, goal>>
    /\ UNCHANGED <<job, site, version, head, wire, got, since>>

FetchRefused ==
    /\ exchange = "parse" /\ ParseOk
    /\ job.kind = "fetch" /\ head.status \notin {200, 302, 304}
    /\ Finish(Error)
    /\ UNCHANGED <<job, site, version, url, redirects, head, wire, got, goal, since>>

(* The other two hand the response on whatever its status. *)
PassOn ==
    /\ exchange = "parse" /\ ParseOk
    /\ job.kind # "fetch"
    /\ Finish([kind |-> "response", status |-> head.status, body |-> ParsedBody, etag |-> head.etag,
               headers |-> IF job.kind = "proxy" THEN PassedHeaders ELSE {},
               exact |-> head.framing # "close"])
    /\ UNCHANGED <<job, site, version, url, redirects, head, wire, got, goal, since>>

(* tokio::time::timeout around the whole exchange; the masquerade turns    *)
(* its errors into 502 and 504.                                            *)
Timeout ==
    /\ exchange \in {"request", "read", "parse"}
    /\ Finish([Failed EXCEPT !.status = IF job.kind = "proxy" THEN 504 ELSE 0])
    /\ UNCHANGED <<job, site, version, url, redirects, head, wire, got, goal, since>>

(* Someone publishes a new document. *)
Publish ==
    /\ exchange \in {"request", "read"}
    /\ version < MaxVersion
    /\ version' = version + 1
    /\ since' = since \cup {version'}
    /\ UNCHANGED <<job, site, exchange, url, redirects, head, wire, got, result, goal>>

ExchangeNext ==
    \/ Ask \/ AskFails \/ Read \/ ReadTooMuch \/ Eof
    \/ ParseFails \/ FetchModified \/ FetchNotModified \/ FetchRedirected \/ FetchRefused \/ PassOn
    \/ Timeout \/ Publish

ExchangeSpec == ExchangeInit("request") /\ [][ExchangeNext]_exchangeVars
-----------------------------------------------------------------------------
Whole(answer) ==
    \/ \E v \in since : answer.body = Body(v) /\ answer.etag = v
    \/ ~answer.exact /\ \E v \in since : IsPrefix(answer.body, Body(v)) /\ answer.etag = v

ReportIsTrue ==
    /\ result.kind = "modified" => Whole(result)
    /\ result.kind = "not modified" => job.etag \in since
    /\ result.kind = "response" =>
         /\ result.status = 200 /\ job.method # "HEAD" => Whole(result)
         /\ "content-length" \in result.headers => job.method = "HEAD" /\ result.body = << >>

(* What the client code reports is what the server had.  The request goes  *)
(* to the page the redirects name, after at most MaxRedirects of them.  A  *)
(* body with a length or in chunks is one version of the document, whole   *)
(* and with that version's tag, although the connection may break at any   *)
(* cell; "not modified" is only said of the version in use; a response     *)
(* handed to a masquerade client says nothing of how it was framed.        *)
ExchangeIsWhole ==
    /\ exchange = "request" => Parse(url) = goal
    /\ redirects <= MaxRedirects
    /\ ReportIsTrue
=============================================================================
