# A formal model of sing-box-rs

TLA+ models of the parts of sing-box-rs that carry its own logic, the TLC
configurations that check them on small instances, and TLAPS proofs of their
main invariants for every instance. `PROJECT.json` maps each definition to the
lines of source it models, each run to its properties, and each hazard to the
properties that would catch it.

```
tlc -workers 2 -config MCInbound.cfg MCInbound    # one run
tlapm InboundProofs.tla                           # one proof
```

## The system

sing-box-rs is a proxy platform: inbounds accept connections, a router selects
an outbound by rules, outbounds reach the destination. One engine owns them.

| Component | State it keeps | Operations | Talks to |
|---|---|---|---|
| Engine (`core/engine.rs`, `manager.rs`) | the three managers, the router | `new`, `start` (4 stages), `shutdown` | calls `start`/`close` of every component |
| Outbound manager (`manager.rs`) | outbounds in insertion order, dependencies | `add`, `ordered`, `start`, `close` | engine, router |
| Connection tasks (`tasks.rs`) and inbound services (`socks.rs` and all stream inbounds) | a counter, a notifier, listener tasks, a token | `start`, accept, `close`, `join` | router per connection |
| Router (`router.rs`) | compiled rules, rule-set snapshots, background tasks | `build`, `start`, `select`, `route`, `close` | inbounds call it, it calls outbounds |
| Rule-sets (`router.rs`, `cli/rule_set_fetcher.rs`) | active snapshot, fingerprint or ETag | load, watch, fetch, replace | file system, HTTP server |
| AnyTLS outbound (`protocol-anytls`) | session pool, stream map and counter per session | acquire, open, remove, read, reap, `close` | TLS server |
| AnyTLS inbound (`protocol-anytls`) | a stream map per connection, bounded frame and stream queues, a padding scheme | settings, SYN, PSH, FIN, heartbeat; a writer, and per stream a writer, a pump and a handler | router |
| SOCKS, VLESS, Snell, Hysteria2, ShadowQUIC, SunnyQUIC inbounds | listeners or QUIC servers, sessions, what was read ahead | handshake, authenticate, reply, relay, associate, close | router; ACME provider for certificates |
| WebSocket layer (`protocol-vless`) | read and write buffers, the frame under way | `poll_read`, `poll_write`, control frames | VLESS ends |
| Snell and VLESS outbounds | reused sessions behind one lock; none | dial, reuse, close; upgrade, early data | servers |
| Cloudflare tunnel (`protocol-cloudflared`) | a supervisor per connection, the remote configuration, UDP sessions, requests | discover, connect, register, serve, retry, fall back, unregister, configure | Cloudflare edge, origins, router |
| Hysteria2 masquerade (`masquerade.rs`) | the canonical root | serve a file, list, redirect, proxy | file system, HTTP server |
| HTTP client code (`rule_set_fetcher.rs`, `acme.rs`, `masquerade.rs`) | one exchange | request, read, parse, follow | HTTP servers |
| ACME provider (`cli/acme.rs`) | certificate cache, account, DNS records | load, issue, renew, publish | ACME server, DNS provider, TLS inbounds |
| SRS decoder, wire formats, RPC messages, configuration loader | none | encode, decode, merge | - |
| Listeners, buffers, NTP, logging, command line | none or little | start-up | operating system |

What is hard in it, and what would make each part correct:

* **Tasks against close().** Listener tasks accept in a `select!` against a
  cancellation token, connection tasks are counted by guards, and `join` loads
  the counter and then waits for a notification. Correct means that `close()`
  returns, that nothing runs afterwards, and that no wake-up is lost.
* **Order and partial failure.** Components start in stages and dependency order
  and may fail anywhere. Correct means that what serves is backed by what it
  uses, everything is closed once, and the first error survives.
* **The outside world between two system calls.** A rule-set file changes between
  `stat`, read and replace; an HTTP server changes between two conditional
  requests. Correct means that the active snapshot is always one that was
  published and valid, and that updates are eventually loaded.
* **Replacement during evaluation.** A rule-set is replaced while the router
  walks its rules. Correct means one-snapshot decisions and fail-closed policies.
* **One resource, several owners.** Connections, reader, reaper and `close()`
  compete for a multiplexed session. Correct means exclusive use and exact counts.
* **Retries and timeouts.** Tunnel connections fail, back off, fall back and are
  cancelled at any point; several connections deliver configurations out of
  order. Correct means that they give up only for cause, that a fallback is
  earned, and that an old configuration never replaces a newer one.
* **Crashes between two effects.** The ACME provider creates accounts and DNS
  records elsewhere, writes two files and publishes a certificate. Correct means
  that what is served survives a crash, that nothing is left behind on an error
  path, and that renewal starts in time.
* **Bytes across layers.** What a client sent along with its request, as early
  data, in half a frame or behind a response head is held by a handler and must
  reach the other side once and in order. Correct means that no buffer, short
  write or queue loses, repeats or reorders anything, and that a reply tells what
  the dial did.
* **Full queues and mutual waits.** Tasks wait at bounded channels, locks are held
  across dials, two ends wait for each other. Correct means that whoever waits
  gets an answer, and that an ended connection leaves no task behind.
* **Formats at their edges.** Address ranges that end at the last address, padding
  that cuts frames, messages from an older schema. Correct means that a reader
  gets back what a writer meant, or refuses.

## Modules

| Module | Models | Run |
|---|---|---|
| `InboundService` | `ConnectionTasks` with the listener loops and `close()`, the shape all stream inbounds share | `Inbound` |
| `RoutedSession` | `Router::connect`, `relay`, `connect_packet`, `relay_packet` for one connection | `Inbound` |
| `SocksSession`, `VlessSession`, `QuicSession` | the handlers around it: SOCKS; REALITY, upgrade and VLESS; the sessions Hysteria2, ShadowQUIC, SunnyQUIC and Snell hand over | `Inbound` |
| `InboundSessions` | composes them: one connection of any protocol | `Inbound` |
| `AnyTlsServer` | the AnyTLS inbound's multiplexer and its tasks | `Inbound` |
| `QuicInbound` | start, certificate updates and close of the QUIC inbounds | `Inbound` |
| `WebSocket` | `WebSocketStream`, poll by poll | `Inbound` |
| `OutboundOrder` | `OutboundManager::ordered`, step by step | `Engine` |
| `EngineComponents` | the components an engine is built from, and `ordered` as a function of them | `Engine` |
| `EngineLifecycle` | `Engine::new`, `start`, `shutdown` and the managers' loops | `Engine` |
| `RuleSetSnapshot` | abstract: what a rule-set promises the router | refined below |
| `RuleSetLocal` | `prepare_rule_set` for files and `watch_local_rule_set` | `RuleSets`, `RuleSetLocalLoad` |
| `RuleSetRemote` | the first download and `update_remote_rule_set` | `RuleSets` |
| `AnyTlsPool` | the AnyTLS outbound's session pool | `Outbounds`, `AnyTlsPoolLookUp` |
| `SnellPool` | the Snell outbound's reused sessions | `Outbounds` |
| `VlessDial` | a VLESS outbound against a VLESS inbound | `Outbounds` |
| `SeqRetain` | `Vec::retain`, as both pools use it | `Outbounds` |
| `RouteSelect` | `Router::build` checks and `Router::select` | `Decisions` |
| `RuleSetFile` | the binary rule-set decoder and the evaluation of headless rules | `Decisions` |
| `HttpExchange` | one HTTP exchange of the program's own clients | `Decisions` |
| `MasqueradeFiles` | `serve_file` of the masquerade | `Decisions` |
| `WireCodecs` | addresses, AnyTLS frames and padding, text encodings, varints, DNS names, datagram and connect frames | `Decisions` |
| `RpcMessages` | the Cap'n Proto messages of the tunnel and their dispatch | `Decisions` |
| `ConfigLoad` | arguments, file order, comments, `merge_value` | `Decisions` |
| `CloudflaredRouting` | edge discovery, ingress rules, the origin request | `Decisions` |
| `CloudflaredTunnel` | tunnel supervisors, connection attempts, configuration store | `Cloudflared`, `CloudflaredTunnelRetry` |
| `CloudflaredDatagrams` | the UDP sessions of a QUIC connection | `Cloudflared`, `CloudflaredDatagramV2` |
| `CloudflaredOrigin` | one request served from an origin | `Cloudflared` |
| `AcmeProvider` | certificate cache, account, issuing, renewal, crash and restart | `AcmeProvider` |

`MC*` modules hold the constants of a run, and those named after a side of the
system (`MCInbound`, `MCEngine`, `MCRuleSets`, `MCOutbounds`, `MCDecisions`, `MCCloudflared`)
put several components into one run: a behaviour plays one `part`, the variables
of the others stay as they began, and no fair action of theirs is enabled. The
parts are alternatives and not interleaved; parts that do interact are composed
in a module of their own (`InboundSessions`, `EngineLifecycle` with
`EngineComponents`, `VlessDial`). A property of such a run is the conjunction of what
it says about the parts. `*Proofs` modules hold theorems. A definition named after
a bug (`AcceptUncounted`, `RemoveAlways`, `CountForEver`...) is a mutant: the
definition as a plausible mistake would have written it, used to see that a
property can fail; conjunctions have several, for the different parts.

### How states and actions correspond to the code

*InboundService.* `listener[l]` and `conn[c]` are task states, `active` is
`TaskState.active`, `closer` is the position inside `close()` and `join()`. The
`select!` of a listener may take its accept arm after the cancellation, as tokio
polls the arms in random order. Dropping a guard is two steps (`fetch_sub`, then
`notify_waiters`), and `join` is three (create the `Notified`, load, await); a
`Notified` receives the notifications sent from its creation on.

*OutboundOrder / EngineComponents.* `remaining`, `resolved`, `result` and
`progressed` are the locals of `ordered`; `pos` is the iterator of the inner
loop. Insertion order and dependencies are arbitrary, missing tags and
self-dependencies included.

*EngineLifecycle.* `queue` is what the loop of the current manager has left,
`reached` the last stage each component has completed, `closes` how often it was
closed. Any component may fail to start or to close. The engine is driven as
`main.rs` drives it: one `start`, then one `shutdown`.

*RuleSetLocal.* `file` is the version on disk, `content` the bytes in hand,
`fingerprint` what the watcher compares. Each system call is a step, and writes
and deletions come between any two. `missed` records why the watcher has
overlooked a version.

*RuleSetRemote.* `server` is what is published, `etag` the tag the updater sends,
`reply` the answer on its way. The server may roll back, omit tags and publish
content that does not decode.

*RouteSelect.* A session walks the table one condition group at a time, reading
each rule-set under its own lock, while `Replace` installs new contents.
Conditions are reduced to inbound, source, destination and rule-sets; they are
combined, inverted and evaluated in the order of `matches` and `matches_base`.

*AnyTlsPool.* Each request is a connection task with a program counter through
`acquire_session` and `open_stream`; a step is what happens between two awaits or
under one lock. `stuck` says what a blocked reader waits for: the full channel of
a stream, the frame channel (`"queue"`), or the frame channel of a writer whose
write waits for a server that has stopped reading (`"server"`). `close()` ends the
first two waits and not the third.

*RoutedSession and its handlers.* `pc` is the position of the connection task,
from the handshake of its protocol over `connect` or `connectPacket` and `reply` to
the relay. Bytes of the client are numbered in the order they were written; `held`
is what a handler has read beyond its request, `up` what reached the destination,
`toClient` the replies and data sent back. The dial ends in any way the outbounds
can end it. `genuine` is the set of the credentials the client really has (user,
REALITY key, short id, server name, clock): REALITY sees only those. `cancelled` is
the token of the inbound, `peer` the UDP address an association has accepted. A SOCKS
client ends the control connection of its association at any time (`ClientLeaves`).

*AnyTlsServer.* One variable per task: the frame loop (`loop`), the writer, and per
stream the stream writer, pump and handler. The frame channel is FIFO and has one
consumer, so `queue` is its length and `told` logs what enters it; the channel and
the pipe of a stream are one bounded queue `chan`. `cancel` is the token of a
stream.

*QuicInbound.* `server` is what is open per address, `published` and `seen` are the
watch channel of the certificate provider, `todo` the servers the update in
progress has still to reach, `cert` what each server uses. `good` is the set of
publications the library accepts.

*WebSocket.* A frame is a header of two cells and one cell per payload byte. The
socket delivers and takes any number of cells at a time. `input` and `buffer` are
the two buffers of the struct, `frame` the header under way, `reading` and
`pending` the operations half done. `frames` records what was put into the buffer,
`delivered` what the application read.

*SnellPool.* `mutex` and `waiters` are the tokio mutex with its FIFO queue; `step`
is the position of a caller in `connect_reuse`, `session` the state of a transport
(the library's `is_busy`, `is_closed`).

*VlessDial.* `client` and `acceptor` are the positions of the two ends, `toServer`
and `toOutbound` the two directions of the connection, `header` the early data.

*RuleSetFile.* A pure function: source rules go through the compiler (external,
modelled from the format) into the items of a file, through `Decode` and
`Compile`, and `FileMeansTheSame` compares the evaluation of the result with the
source rules for every session tried. Characters and addresses are small numbers;
`Width` is the number of address bits.

*HttpExchange.* `wire` is what the server has sent, `got` what was read, `goal` the
page the redirects lead to and `since` the versions the document had during the
exchange. Jobs are the three callers.

*MasqueradeFiles.* `root` is the release the directory links to, `tree` the
contents of the releases, `moments` everything the world was during the request.
A listing is read entry by entry (`listing`): names that go meanwhile may still be
given, names that come may be, a failing `next_entry` is taken for the end, and the
two limits of `directory_listing` are checked where the code checks them. The length
of a page is a rising function of the sum of its names' lengths (`HtmlSize`).

*WireCodecs, RpcMessages, ConfigLoad, CloudflaredRouting.* Pure functions; their
`*Cases` sets enumerate the inputs, and the properties compare a decoder with the
encoder of the other side, or the result with a direct definition of what was
meant. A message of `RpcMessages` is the bits of its data section and its pointers,
at the offsets of the generated accessors; a sender may use a shorter struct.

*CloudflaredDatagrams.* `loop` is the position of the datagram loop (`select`,
`deliver` at a full channel, `grace`), `sessions` the map from identifiers to flows,
`flows` the tasks with their incoming channels, `accepted` what was sent to each.

*CloudflaredOrigin.* `place` is the position of the handler, `held` what the read of
the head brought along, `rest` what the origin has still to send, `seen` what the
edge got: heads, body and end.

*CloudflaredTunnel.* `pc[c]` is the position of thread `c` in
`supervise_connection` and inside the attempt it runs. The edge may answer,
refuse with or without a delay, reject, or break the connection at any moment.
`control[c]` is the HTTP/2 control-stream task. Time is one bit, chosen freely:
whether the attempt lived for 30 seconds.

*AcmeProvider.* `phase` is the position in `start`, in the renewal loop or in the
`issue_certificate` either of them called (`caller`). `certFile` and `accountFile`
are the two files of the data directory, which `atomic_write` replaces in one step;
`dns` and `accounts` are what exists at the DNS provider and at the authority.
Every request may succeed, fail, or take effect with its answer lost. `ProcessEnds`
may come at any step and keeps only files, records and accounts; the next `Start`
may have other domains. `strayRecords` and `strayAccounts` record what was lost to
a crash, a lost answer or a failed removal or write. Time passes in every
phase, also inside `issue_certificate`, whose waits for the propagation have no upper
bound in the configuration; the unit of the model is `RENEW_RETRY`, an hour.
`failures` counts the attempts of the loop that failed since a certificate was taken
up, `spent` the time that passed inside its attempts. A sleeping loop wakes up on
time. Waiting for the propagation, `set_ready`, the polls and the finalisation change
nothing the provider keeps, so each is one step that succeeds or fails.

## Runs

| Run | Instance | Shows |
|---|---|---|
| `Inbound` | 2 listeners and 3 connections; one connection of each of six protocols with 2 data items and 2 packets; 1 multiplexed stream with queues of 1; 2 QUIC addresses and 3 publications; 7 frame sequences under every chunking | `ServiceSafe`: the count is exact, no wake-up is lost, nothing runs after `close()`. `HonestReply`, `OnlyGenuine`, `AssociationIsPrivate`: replies tell what the dial did, only genuine clients reach an outbound, an association has one client. `BytesIntact`: nothing is lost, repeated or reordered in handlers, WebSocket and multiplexer. `TasksAreBacked`, `CertificateReaches`: tasks of a QUIC inbound have servers, every server gets the last certificate. `WaitsEnd`: `close()` returns, a UDP association ends with its control connection, and no task lingers |
| `Engine` | 1 provider, 3 outbounds with every dependency relation, 2 inbounds, any failures; every insertion order and relation of 3 tags | `RunsBacked`: what serves is backed by what it uses. `ClosesRight`: each component is closed once and the first error reported. `OrderIsRight`, `SweepAgrees`: the order is topological and complete, errors are justified, both forms agree. `CallsAnswer` |
| `RuleSets` | 4 versions of a watched file, 3 versions at a URL in any order, with or without tags; any subset valid | `SnapshotIsSafe`, `RemoteSnapshotPromise`: the snapshot is always a valid published version, and a file's only advances. `StaleIsNoticed`; `NotModifiedMeansActive`: a 304 confirms the active snapshot. `UpdatesArrive`: updates recover and end |
| `RuleSetLocalLoad` | 3 versions | **violated**: a write between the initial read and the initial fingerprint is never loaded |
| `Outbounds` | 2 AnyTLS sessions and 2 requests; 2 Snell transports and 3 callers; every early data limit around the request size | `SessionsAreOwned`, `BooksAreRight`: one owner per session, exact counts, one keeper. `DialsAreClean`: one stream per reused session, the VLESS request crosses once. `WaitsEnd` |
| `AnyTlsPoolLookUp` | 2 sessions, 2 connections | **violated**: a stream can vanish between its insertion and the `expect` that looks it up |
| `Decisions` | 25 tables with 2 rule-sets and 2 replacements; 2 sites of 4 pages and 3 versions; 2 releases, 2 edits, 2 requests; addresses of 3 bits; all inputs of the `*Cases` sets | `RoutingIsSound`, `ExchangeIsWhole`, `AnswersAreGrounded`, `FileMeansTheSame`, `WireAgrees`, `ConfigIsGathered`, `TunnelsAreRouted`: each decision is the one its reference definition gives |
| `Cloudflared` | 2 connections in 5 option sets with 2 configuration versions; 2 UDP sessions with queues of 1; bodies of up to 2 bytes in every framing | `StaysForCause`, `QuicUnregisters`, `NewestConfigStays` for the supervisor; `FlowsIntact`, `OneAnswer` for datagrams and requests; `WaitsEnd` |
| `CloudflaredTunnelRetry` | 1 connection, 2 edges | **violated**: over HTTP/2 the retry-after delay never reaches the supervisor |
| `CloudflaredDatagramV2` | one connection with datagram version 2 | **violated**: a registration is never answered |
| `AcmeProvider` | 2 domains, 2 records, 2 accounts, lifetimes 1 and 3, 4 units of time | what is published is stored and covers the domains, and what start() takes from disk has not expired; nothing is left behind without a recorded cause; a certificate that was good when it was taken up only expires once failed attempts, an hour apart, and the time inside attempts take up the renewal window; `close()` returns |

`Cloudflared` does not check deadlock: a tunnel whose threads have all ended, and a
request that was served, stop for good.

### Bounds

Two or three actors are enough for the races in question: each involves a pair
(a task and the joiner, two connections for one session, a writer and a reader).
Three tags include the chain, the diamond minus one, the cycle and the
self-dependency. `MaxVersion` bounds writes: four let a version be overlooked,
replaced and replaced again. `MaxReplace` is two, because a decision reads at most
two rule-sets. `UsizeMax` stands for the wrapped counter and lies above every
count that can occur. `U8Max`, where `retries` saturates, is three: the fallback
threshold, and saturation is reached. Edge rotation is independent of the other
state, so the two-connection run uses one edge. In `AcmeProvider` the renewal window
is two retries long; one lifetime lies below it, so that renewal is due at once, and
one above it. `MaxClock` lets the longer one run out after two failures, after one slow
attempt, and during the first attempt, and leaves time for a restart. A pool of records or accounts that is used up makes the request
fail, as a quota would. Channels have room for one item, where the code has
32, 64 or more: every wait at a full channel then happens, and a larger one only
delays it. Two data items show loss, repetition and exchange. `MaskLen` is two, so
that an offset in the mask can be wrong. Three address bits contain every shape of
range: one that ends at the last address, one that needs several blocks, the full
width. A body of two bytes can be cut before, inside and after. `MaxSize` of the
masquerade is three: a listing may then fit, be too long by its names, and be too long
only as a page.

### Fairness

* A spawned task that can run is polled (weak fairness of each task step); tokio's
  scheduler does not starve ready tasks.
* `select!` polls its arms in random order, so an arm that is ready again and
  again is taken eventually: strong fairness for the cancellation arms. The ACME
  loop needs it: with a short-lived certificate its timer is always due.
* Timers fire. The five-second limit of `unregister`, grace periods, backoffs,
  rule-set ticks and quinn's idle timeout (for the QUIC handshake) are fair.
* The outside world is not fair: no write, publication, interruption, TLS
  handshake or registration answer is assumed to happen. The remote half of `UpdatesArrive`
  is the exception: it assumes that a server asked again and
  again answers again and again.
* Inbound: a cancelled token is observed, a task that is not waiting runs, and the
  idle timer of a Hysteria2 UDP session fires. No client and no destination has to
  do anything for `WaitsEnd` of the run `Inbound`; nobody has to publish a
  certificate or close for `CertificateReaches`.
* HTTP exchanges: the code's timeout is an action of the model, and no liveness
  property rests on it.
* Inbound: when the client has ended the control connection of a SOCKS association,
  the `copy` that reads it returns (weak fairness of `ControlCloses`); a client may
  keep it open for ever.
* AnyTLS pool: a cancelled reader leaves its `select!`, and it is released from a
  stream that was cleared and from the channel of a frame writer that gets its writes
  through. It is not released from a frame writer whose server has stopped reading:
  `WaitsEnd` exempts a `close()` that awaits such a session, since the code has no end
  for this wait.
* Three assumptions about the other side, where the code has no timeout of its own:
  a Snell dial ends one way or the other (the lock is held until then; the tokio
  mutex is FIFO); in a VLESS dial each end answers what it can read; in the tunnel
  the origin sends what it announced, closing only where nothing else tells the end
  of a body, the edge sends its own body, and the dial and the destination of a UDP
  flow take what they are given. What remains to be shown is that the program waits
  for nothing else: an origin that keeps its connection open, an expired flow, or
  its own full channels.

## Proofs

TLAPS proves the following for every value of the constants. Where a run puts
several components together, the theorem is about that run's specification
(`MCSpec`), so that it states the very property the run checks; each component's
next-state relation is treated by a lemma of its own. In `RuleSetProofs` and
`DecisionsProofs`, where a property is about one part alone, it is about the
specification of that component. Type correctness is part of every invariant.

* `InboundProofs`
  * `TypeCorrect`, `CounterIsExact`, `CloseIsQuiescent`, `WakeupNeverLost`, together
    `ServiceIsSafe`. Quiescence is not inductive: the invariant adds that the
    listeners close() has passed are done and that every connection came from a
    listener, so that `active = 0` after the listeners is final. The counter is
    related to a set (`Counted`) by cardinality lemmas.
  * `TasksAlwaysBacked` (QUIC inbounds). `QuicInv` says that tasks exist only after
    `start()`, that an accepting task and a pending certificate update have an open
    server under them, and what each position of `close()` has left behind.
  * `RepliesAlwaysHonest`, `OnlyGenuineReach`, `AssociationsStayPrivate`, from one
    invariant of a connection, `SessionInv`: in which places each handler can be, how
    far the dial is there (`DialSoFar`) and what the client has been told of it
    (`ToldSoFar`), that a greeting precedes data (`GreetedFirst`), what the client has
    shown (`Shown`: past the REALITY handshake everything has been, and a client that
    has not only ever saw the cover), and that an association has one peer (`Pinned`).
  * `NothingIsSwallowed`: every item of a client is delivered, held by the handler or
    still with the client, in this order and without a hole (`Carried`).
  * `StreamsAlwaysIntact` (AnyTLS inbound). `MuxInv` says for each stream that its
    queue, the item in the loop's hand and the client's next number are consecutive
    from what the handler takes next (`QueuedInOrder`), and that data goes to a client
    only after the SYNACK is out or nothing goes out any more (`ToldInOrder`).
  * `WebSocketAlwaysIntact`. `WsInv` says where the parser is: the cells taken from
    the socket so far are the cells of the first n frames (`Between`) or these and a
    part of frame n + 1 (`Inside`), and what was handed over is early data and payload
    up to there, the offset in the mask included. For the writer, wire and buffer
    together are the cells of all frames written (`WriteInv`).
  * `BytesAlwaysIntact` puts the last three together into `BytesIntact`.
* `EngineProofs`
  * `DependenciesFirst`, `NothingIsLost`, `VerdictIsSound`, together
    `OrderIsAlwaysRight`. The strengthening says what a sweep without progress has
    seen: every tag before the cursor that is still unresolved has an unresolved
    dependency.
  * `SweepAlwaysAgrees`: the loop computes what the function says. The invariant is
    that each outbound of the result was the first ready one the sweeps met
    (`Greedy`), that no other choice of stops has this property (`NoChoice`), and that
    nothing ready has been passed since the last one (`Passed`).
  * `RunsAlwaysBacked`, `AlwaysClosesRight`. `LifeInv` relates the queue of the current
    manager to what every component has reached or how often it was closed
    (`Starting`, `Closing`), keeps the dependency order of the queue in both
    directions, and says that the error found first in the order the results are
    looked at is the first failure (`Blamed`).
* `OutboundsProofs`
  * `SessionsAlwaysOwned`, `BooksAlwaysRight` (AnyTLS pool). Neither is inductive.
    `PoolInv` adds that the counter of an open session is 1 exactly when one request
    reserves it or has its stream in the map (`Counted`), that a retired session has no
    owner nor a request that may become one (`Spared`), that pool, reaper and closer
    never keep the same session (`Keepers`), that a session on its way into the pool
    is known to its dialler only (`Pushing`), and that streams are cleared of closed
    sessions only (`Closings`).
  * `DialsAlwaysClean` (Snell and VLESS). For Snell: who waits for the lock, who holds
    it, and that a busy session has exactly one caller. For VLESS: the request is in
    one place at a time, and which one early data decides.
* `RuleSetProofs`
  * `StaleAlwaysNoticed`, `SnapshotNeverGoesBack`, `LocalKeepsPromise` (refinement of
    `RuleSetSnapshot`), together `SnapshotIsAlwaysSafe`. The invariant relates file,
    fingerprint, content in hand and snapshot at each program counter.
  * `NotModifiedIsSound`, `RemoteKeepsPromise` (the same refinement for downloads).
    The invariant says that the stored ETag names the active snapshot and that an
    answer on its way was published.
* `DecisionsProofs`
  * `RoutingAlwaysSound`. `RouteInv` keeps the walk of the documentation next to the
    one of the code: past the rules before `index` there is a walk with the
    destination reached, under every snapshot of the evaluation while no rule-set has
    been read, and under the one that was read afterwards; what a half evaluated rule
    still needs is what its remaining conditions say. `RoutingIsAtomic` compares with
    a reference that is a statement about such walks and not a recursion.
  * `AnswersAlwaysGrounded`. `FilesInv` says what each position of `serve_file` has
    learnt of the tree (which entry was there, what size it had, which release was
    canonical) as a fact about some moment of the request. Of an open listing it says
    that every name was there at some moment and that, unless a name came or went, the
    size is the one of a set of names (`Counted`); a refusal is then one of all that
    could be listed.
  * `ExchangesAlwaysWhole` (`ExchangeIsWhole`). `ExchangeInv` says
    that what was read and what is still to come make up one version of the document
    in its framing (`Sent`), that the head is the server's answer for the page the
    redirects lead to, and that the next request goes there. Two lemmas carry it:
    however a server spells a redirect, `Resolve` and `Parse` find the page it means
    (`RedirectFound`), and a response that parses gives back the body, or with neither
    length nor chunks a prefix of it (`ParsedIsWhole`).
* `CloudflaredProofs`
  * `GivesUpOnlyForCause`, `QuicAlwaysUnregisters`, `NewestConfigIsKept`,
    `FallbackAlwaysEarned`, `StaysOnlyForCause`. The fallback needs `RetriesAreBrief`: a
    count of two failures implies that the last attempt was brief. The other parts say
    at which places a registration can exist and that nobody waits to unregister
    before close().
  * `FlowsAlwaysIntact`: what a flow has got, what its channel holds and what the loop
    has in hand are together what was accepted for it (`Received`); a flow has one
    session, which cannot go away while the loop delivers.
  * `AlwaysOneAnswer`: how far the answer is at each place of the handler
    (`AnswerSoFar`), and that the reader is at some position of the origin's wire that
    accounts for all it has passed on, also inside a chunk (`Unread`, `ChunkPlace`).
* `AcmeProviderProofs` - `TypeCorrect`, `LeavesNothingBehind`,
  `ExpiryOnlyByAttempts`, `PublishesOnlyStored`. The invariant says who answers for
  each record and account (`RecordsTracked`, `AccountsTracked`), that a certificate
  at hand after the write is the one on disk (`IssuedIsGood`), and that the clock
  shows, during an attempt of the loop, the time the renewal became due plus one
  `RENEW_RETRY` for each failed attempt plus the time spent inside attempts, and never
  passes the wake-up time while the loop sleeps (`OnSchedule`), from which the bound
  on expiry follows. `ExpiryOnlyByAttempts` does not bound how long an attempt takes:
  the code does not.

`SeqFacts` holds the lemmas about sequences that several of these need: members and
length under `Tail`, `Append`, `\o` and `SubSeq`, that `Retain` keeps exactly the
members that pass its test, in order and without repetition, and what `FlattenSeq` of
a prefix, of one more element and at a position is. The last are inductions. The
library states induction with an operator as parameter, which the provers cannot
instantiate; `Smallest`, that a nonempty set of natural numbers has a least member,
says the same of a set, and the set of counterexamples is such a set.

The assumptions are those the modules name: finite sets of actors, at least one
edge, a `u8` of at least three, versions, limits and bounds that are natural numbers,
positive lifetimes and a positive retry delay, component names that are distinct
strings (a manager refuses a duplicate tag, `manager.rs:28` and `140`; components of
different managers are told apart by name in the model), and model values such as "none" that are
not also the name of a session, caller, component, release or address. Route tables and
sessions are records of the types the parsed configuration has (`ConfigsAssumption`,
`SessionsAssumption`: any sequence of rules, any sets of names); what a WebSocket peer
sends is a sequence of frames of bytes, and its masking key is not empty
(`WebSocketAssumption`); the pages of a web site and their targets are parsed URLs with
a port (`SitesAssumption`). All invariants listed here were checked with TLC before they
were proved.

Only model-checked:

* the liveness properties (`WaitsEnd`, `CallsAnswer`, `UpdatesArrive`,
  `CertificateReaches`, `CloseReturns`), since the prover does not handle fairness;
* `FileMeansTheSame`, `WireAgrees`, `ConfigIsGathered` and `TunnelsAreRouted` of the
  run `Decisions`: decoders, encoders and merges whose definitions are RECURSIVE
  operators, which leave the prover without its SMT backend, or rest on one.

## Findings

1. `prepare_rule_set` fingerprints a file after reading it (`router.rs:494`), so a
   change in between is taken for loaded. `README.md` promises that changes are
   picked up.
2. `open_stream` looks its stream up a second time with `expect`
   (`protocol-anytls/src/lib.rs:1251`) after an await during which the reader may
   clear the map.
3. The HTTP/2 tunnel transport only logs a failed registration
   (`transport.rs:149`), so the retry-after backoff `README.md` lists works over
   QUIC only.

4. `V2State::register` takes a tokio mutex with `blocking_lock` on the async runtime
   (`quic.rs:224`), which panics. Version 2 is the default, and its registrations
   are never answered, although `README.md` lists them.

Seen while modelling and not stated as properties, since nothing in the repository
promises otherwise:

* Rule-sets: `watch_local_rule_set` stores the new fingerprint before a read that may
  fail (`router.rs:653`; `StaleIsNoticed` names the exception). The fetcher sends its
  ETag to every page of a redirect chain, and a body that ends with the connection
  may be cut unnoticed.
* Tunnel: the HTTP/2 transport queues its unregister request on a connection that
  nobody polls any more (`transport.rs:109`), and `H2Writer` waits for capacity it has
  never reserved (`transport.rs:606`). An ended UDP flow stays in the session map
  until it expires; a malformed version 3 registration ends the whole connection. A
  request without an ingress rule is answered with 502 over HTTP/2 and not at all
  over QUIC; a body the origin cuts short is passed on as complete; what was read
  beyond a Content-Length is passed on; a TCP stream is acknowledged before the dial.
  An empty registration response reads as a permanent rejection. In
  `discover_edges` one target that does not resolve fails all of them, and the sort
  of the addresses undoes the priorities of the SRV records. Path patterns of
  ingress rules are prefixes. `source_for_request` looks for `Cf-Connecting-IP` and
  the like letter by letter (`inbound.rs:872`), and HTTP/2 has lower-case names
  (`transport.rs:443`): over HTTP/2 the visitor's address is never found.
* AnyTLS: a stream may end with two FINs, a failed `connect_packet` sends no SYNACK,
  and a FIN drops what its stream has still queued. `close()` of the outbound waits for
  the reader of each session (`lib.rs:440`); the reader may wait in the answer to a
  heartbeat (`lib.rs:1405`) for a frame writer whose write no cancellation interrupts
  (`lib.rs:1444`), so a server that stops reading holds up `close()` for as long as its
  connection lives. A dial in flight pushes its session after the pool was drained.
* VLESS: two ends that disagree on `early_data_header_name` wait for ever; the
  WebSocket layer may send two Close frames.
* Masquerade: the canonical root is kept when the link moves to another release, and
  then every file is "not found". A listing may mix the names of two moments, give a
  name twice, and ends without notice where reading the directory fails; a directory
  may be refused with 413 as a file is.
* Configuration: an array in a later file is dropped when an earlier one has a scalar
  there; a file named by both `-c` and `-C` is loaded twice; a bare path is taken
  before `-c` and refused after it.
* ACME: `renewal_delay` is zero for a certificate that lives for 30 days or less
  (`acme.rs:463`), so the loop then issues certificates back to back until the
  authority refuses. An attempt may outlast the renewal window, since
  `propagation_timeout` has no upper bound: the old certificate is then served past its
  end, without a failure. A certificate just issued is published without a look at its
  end (`acme.rs:224`, `477`).

## Not modelled

* External libraries: TLS, QUIC, HTTP/2 flow control, the Snell, ShadowQUIC and
  Hysteria2 protocol crates, the ACME client, compression.
* Most of the generated Cap'n Proto file: accessors of the same form as the ones
  `RpcMessages` models, and reflection data.
* The schema of the configuration (`config.rs`) and the table of constructors
  (`registry.rs`): declarations without behaviour of their own.
* Listeners, the buffer pool, NTP, the DNS adapter, logging and the command line
  beyond its arguments: they forward to the operating system.
* CIDR, port and domain conditions of inline route rules: `RouteSelect` reduces them
  to sets, `RuleSetFile` has the same matchers in full.
* Percent-decoding, media types and other text formats no property is about.

## Plan

What would come next:

1. `CloudflaredRouting` and the decoders of `WireCodecs` with recursive functions in
   place of RECURSIVE operators; then `Smallest` serves for the inductions.
2. Two multiplexed streams in `AnyTlsServer`, and the relay of `InboundSessions` on
   top of `WebSocket` as one composition.
