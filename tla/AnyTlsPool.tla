----------------------------- MODULE AnyTlsPool -----------------------------
(***************************************************************************)
(* The AnyTLS outbound's pool of multiplexed sessions: acquire_session and *)
(* open_stream run by concurrent connections, the reader task of every     *)
(* session, the reaper of idle sessions, and close().                      *)
(*                                                                         *)
(* A step is what happens between two awaits or under one lock.  Frames    *)
(* are reduced to what they do to a session: a FIN or a blocked PSH of a   *)
(* stream, and anything that ends the reader.  Time is a choice: an idle   *)
(* session may have reached idle_session_timeout at any tick.              *)
(***************************************************************************)
EXTENDS Naturals, Sequences, FiniteSets, SequencesExt, SeqRetain

CONSTANTS Sessions,     \* identities of the TLS sessions a run may dial
          Requests,     \* connect() calls; each opens at most one stream
          MinIdle,      \* min_idle_session
          UsizeMax      \* what fetch_sub makes of 0

NoSession == "no session"

ASSUME PoolAssumption ==
    /\ IsFiniteSet(Sessions) /\ IsFiniteSet(Requests)
    /\ NoSession \notin Sessions
    /\ MinIdle \in Nat
    /\ UsizeMax \in Nat /\ UsizeMax > Cardinality(Requests)

VARIABLES
    pool,       \* AnyTlsOutbound.sessions
    reader,     \* reader task: "none" | "run" | "blocked" | "clear" | "notify" | "done"
    closed,     \* ClientSession.closed, and its cancellation token
    active,     \* ClientSession.active
    streams,    \* ClientSession.streams: the requests whose stream is in the map
    stuck,      \* what the reader waits for: a stream's full incoming channel, the frame
                \* channel of a writer at work ("queue"), or of one that waits ("server")
    permit,     \* ClientSession.done holds a permit
    pc,         \* per request, see Steps
    at,         \* per request: its session
    reaper,     \* "idle" | "close" | "clear" | "stopped"
    retired,    \* sessions the reaper has taken out and not yet closed
    closer,     \* close(): "idle" | "join" | "drain" | "close" | "clear" | "await" | "returned"
    drained     \* sessions close() has still to close

vars == <<pool, reader, closed, active, streams, stuck, permit, pc, at,
          reaper, retired, closer, drained>>
sessionVars == <<reader, closed, active, streams, stuck, permit>>
requestVars == <<pc, at>>
reaperVars == <<reaper, retired>>
closerVars == <<closer, drained>>

Steps == {"acquire", "dial", "push", "open", "insert", "touch", "syn", "live",
          "over", "dropped", "panicked"}

Init ==
    /\ pool = << >>
    /\ reader = [s \in Sessions |-> "none"]
    /\ closed = [s \in Sessions |-> FALSE]
    /\ active = [s \in Sessions |-> 0]
    /\ streams = [s \in Sessions |-> {}]
    /\ stuck = [s \in Sessions |-> "none"]
    /\ permit = [s \in Sessions |-> FALSE]
    /\ pc = [r \in Requests |-> "acquire"]
    /\ at = [r \in Requests |-> NoSession]
    /\ reaper = "idle"
    /\ retired = << >>
    /\ closer = "idle"
    /\ drained = << >>
-----------------------------------------------------------------------------
(* Mutant: a session is reserved although a stream uses it. *)
CanReserveBusy(s) == ~closed[s]

(* try_reserve: not closed, and active goes from 0 to 1. *)
CanReserve(s) == ~closed[s] /\ active[s] = 0

OpenSessions == {s \in Sessions : ~closed[s]}

Goto(r, step) == pc' = [pc EXCEPT ![r] = step]

(* The request ends, with a result or an error. *)
Leave(r) == Goto(r, "over") /\ at' = [at EXCEPT ![r] = NoSession]

(* acquire_session under the pool's lock: forget closed sessions, then the *)
(* newest one that can be reserved.                                        *)
AcquireIdle(r) ==
    /\ pc[r] = "acquire"
    /\ pool' = Retain(pool, OpenSessions)
    /\ \E i \in 1..Len(pool') :
         /\ CanReserve(pool'[i])
         /\ \A j \in (i + 1)..Len(pool') : ~CanReserve(pool'[j])
         /\ active' = [active EXCEPT ![pool'[i]] = 1]
         /\ at' = [at EXCEPT ![r] = pool'[i]]
    /\ Goto(r, "open")
    /\ UNCHANGED <<reader, closed, streams, stuck, permit, reaperVars, closerVars>>

AcquireNone(r) ==
    /\ pc[r] = "acquire"
    /\ pool' = Retain(pool, OpenSessions)
    /\ \A i \in 1..Len(pool') : ~CanReserve(pool'[i])
    /\ Goto(r, "dial")
    /\ UNCHANGED <<sessionVars, at, reaperVars, closerVars>>

(* ClientSession::connect, and the reservation of the fresh session before *)
(* anyone else can see it.                                                 *)
Dial(r, s) ==
    /\ pc[r] = "dial"
    /\ reader[s] = "none"
    /\ reader' = [reader EXCEPT ![s] = "run"]
    /\ active' = [active EXCEPT ![s] = 1]
    /\ at' = [at EXCEPT ![r] = s]
    /\ Goto(r, "push")
    /\ UNCHANGED <<pool, closed, streams, stuck, permit, reaperVars, closerVars>>

DialFails(r) ==
    /\ pc[r] = "dial"
    /\ Leave(r)
    /\ UNCHANGED <<pool, sessionVars, reaperVars, closerVars>>

(* The session enters the pool whatever has happened meanwhile. *)
Push(r) ==
    /\ pc[r] = "push"
    /\ pool' = Append(pool, at[r])
    /\ Goto(r, "open")
    /\ UNCHANGED <<sessionVars, at, reaperVars, closerVars>>

(* open_stream: the check, ... *)
OpenCheck(r) ==
    /\ pc[r] = "open"
    /\ IF closed[at[r]] THEN Leave(r) ELSE Goto(r, "insert") /\ UNCHANGED at
    /\ UNCHANGED <<pool, sessionVars, reaperVars, closerVars>>

(* ... the entry in the stream map, ... *)
Insert(r) ==
    /\ pc[r] = "insert"
    /\ streams' = [streams EXCEPT ![at[r]] = @ \cup {r}]
    /\ Goto(r, "touch")
    /\ UNCHANGED <<pool, reader, closed, active, stuck, permit, at, reaperVars, closerVars>>

(* ... and, after an await for last_used, the same entry looked up again:  *)
(* expect("inserted AnyTLS stream").                                       *)
LookUp(r) ==
    /\ pc[r] = "touch"
    /\ Goto(r, IF r \in streams[at[r]] THEN "syn" ELSE "panicked")
    /\ UNCHANGED <<pool, sessionVars, at, reaperVars, closerVars>>

(* Mutant: every caller decrements. *)
RemoveAlways(s, r) ==
    /\ streams' = [streams EXCEPT ![s] = @ \ {r}]
    /\ active' = [active EXCEPT ![s] = @ - 1]

(* remove_stream: only the caller that still finds the entry decrements. *)
RemoveStream(s, r) ==
    IF r \in streams[s]
    THEN /\ streams' = [streams EXCEPT ![s] = @ \ {r}]
         /\ active' = [active EXCEPT ![s] = IF @ = 0 THEN UsizeMax ELSE @ - 1]
    ELSE UNCHANGED <<streams, active>>

(* SYN, the address and, for a v2 peer, the SYNACK. *)
SynOk(r) ==
    /\ pc[r] = "syn"
    /\ Goto(r, "live")
    /\ UNCHANGED <<pool, sessionVars, at, reaperVars, closerVars>>

(* The session is gone, the peer refused, or no SYNACK came in time. *)
SynFails(r) ==
    /\ pc[r] = "syn"
    /\ RemoveStream(at[r], r)
    /\ Leave(r)
    /\ UNCHANGED <<pool, reader, closed, stuck, permit, reaperVars, closerVars>>

(* The stream's pump ends: its local half is closed or it was cancelled.   *)
Finish(r) ==
    /\ pc[r] = "live"
    /\ RemoveStream(at[r], r)
    /\ Leave(r)
    /\ UNCHANGED <<pool, reader, closed, stuck, permit, reaperVars, closerVars>>

(* The connection's future is dropped at an await of open_stream that has  *)
(* no task to clean up behind it yet.                                      *)
DropRequest(r) ==
    /\ pc[r] \in {"push", "insert", "touch"}
    /\ Goto(r, "dropped")
    /\ UNCHANGED <<pool, sessionVars, at, reaperVars, closerVars>>
-----------------------------------------------------------------------------
(* client_reader: FIN of a stream the peer knows.                          *)
PeerFin(s, r) ==
    /\ reader[s] = "run"
    /\ pc[r] \in {"syn", "live"} /\ r \in streams[s]
    /\ RemoveStream(s, r)
    /\ UNCHANGED <<pool, reader, closed, stuck, permit, requestVars, reaperVars, closerVars>>

(* PSH into a full channel: stream.send(...).await has no cancelled arm.   *)
(* It takes 33 unread frames to fill one, and each frame read after the    *)
(* cancellation has to win against the cancelled arm of the reader's       *)
(* select!: a channel does not fill up after the session is closed.        *)
ReaderBlocks(s, r) ==
    /\ reader[s] = "run"
    /\ ~closed[s]
    /\ pc[r] = "live" /\ r \in streams[s]
    /\ reader' = [reader EXCEPT ![s] = "blocked"]
    /\ stuck' = [stuck EXCEPT ![s] = r]
    /\ UNCHANGED <<pool, closed, active, streams, permit, requestVars, reaperVars, closerVars>>

(* HEARTBEAT_REQUEST: the answer goes through the full frame channel; this *)
(* send has no cancelled arm either.  The frame writer leaves the channel  *)
(* when it has finished its write and finds the session cancelled, but a   *)
(* write to a server that has stopped reading is not interrupted.          *)
ReaderAnswers(s) ==
    /\ reader[s] = "run"
    /\ reader' = [reader EXCEPT ![s] = "blocked"]
    /\ \E wait \in {"queue", "server"} : stuck' = [stuck EXCEPT ![s] = wait]
    /\ UNCHANGED <<pool, closed, active, streams, permit, requestVars, reaperVars, closerVars>>

(* The application reads, or the stream's receiver is dropped; the frame   *)
(* writer makes room or leaves; the server reads again, or its connection  *)
(* breaks.                                                                 *)
ReaderUnblocks(s) ==
    /\ reader[s] = "blocked"
    /\ reader' = [reader EXCEPT ![s] = "run"]
    /\ stuck' = [stuck EXCEPT ![s] = "none"]
    /\ UNCHANGED <<pool, closed, active, streams, permit, requestVars, reaperVars, closerVars>>

(* The reader leaves its loop (cancelled, a broken connection, an alert, a *)
(* bad frame): close(), clear_streams(), done.notify_one().                *)
ReaderExit(s) ==
    /\ reader[s] = "run"
    /\ reader' = [reader EXCEPT ![s] = "clear"]
    /\ closed' = [closed EXCEPT ![s] = TRUE]
    /\ UNCHANGED <<pool, active, streams, stuck, permit, requestVars, reaperVars, closerVars>>

ClearStreams(s) ==
    /\ streams' = [streams EXCEPT ![s] = {}]
    /\ active' = [active EXCEPT ![s] = 0]

ReaderClear(s) ==
    /\ reader[s] = "clear"
    /\ ClearStreams(s)
    /\ reader' = [reader EXCEPT ![s] = "notify"]
    /\ UNCHANGED <<pool, closed, stuck, permit, requestVars, reaperVars, closerVars>>

ReaderNotify(s) ==
    /\ reader[s] = "notify"
    /\ reader' = [reader EXCEPT ![s] = "done"]
    /\ permit' = [permit EXCEPT ![s] = TRUE]
    /\ UNCHANGED <<pool, closed, active, streams, stuck, requestVars, reaperVars, closerVars>>
-----------------------------------------------------------------------------
(* A tick of the reaper, under the pool's lock: closed sessions leave the  *)
(* pool; of the idle ones past their timeout, in pool order, as many are   *)
(* retired as there are sessions with active = 0 above min_idle_session.   *)
IsIdle(s) == active[s] = 0
RetirableBusy(s) == ~closed[s]   \* mutant: busy sessions are retired, too
Retirable(s) == ~closed[s] /\ active[s] = 0

ReaperTick(expired) ==
    /\ reaper = "idle"
    /\ expired \subseteq Members(pool)
    /\ LET idle == Cardinality({i \in 1..Len(pool) : IsIdle(pool[i])})
           due == Retain(pool, {s \in expired : Retirable(s)})
           out == SubSeq(due, 1, IF idle > MinIdle THEN Min({idle - MinIdle, Len(due)}) ELSE 0)
       IN  /\ retired' = out
           /\ pool' = Retain(pool, OpenSessions \ Members(out))
           /\ reaper' = IF out = << >> THEN "idle" ELSE "close"
    /\ UNCHANGED <<sessionVars, requestVars, closerVars>>

(* After the lock: close() and clear_streams() of each retired session. *)
ReaperClose ==
    /\ reaper = "close"
    /\ closed' = [closed EXCEPT ![Head(retired)] = TRUE]
    /\ reaper' = "clear"
    /\ UNCHANGED <<pool, reader, active, streams, stuck, permit, requestVars, retired, closerVars>>

ReaperClear ==
    /\ reaper = "clear"
    /\ ClearStreams(Head(retired))
    /\ retired' = Tail(retired)
    /\ reaper' = IF Len(retired) = 1 THEN "idle" ELSE "close"
    /\ UNCHANGED <<pool, reader, closed, stuck, permit, requestVars, closerVars>>
-----------------------------------------------------------------------------
(* AnyTlsOutbound::close: cancel and join the reaper, ... *)
CloseBegin ==
    /\ closer = "idle"
    /\ closer' = "join"
    /\ UNCHANGED <<pool, sessionVars, requestVars, reaperVars, drained>>

ReaperStops ==
    /\ closer = "join"
    /\ reaper = "idle"
    /\ reaper' = "stopped"
    /\ closer' = "drain"
    /\ UNCHANGED <<pool, sessionVars, requestVars, retired, drained>>

(* Mutant: the sessions are copied out of the pool, and stay in it. *)
DrainByCopy ==
    /\ closer = "drain"
    /\ drained' = pool
    /\ closer' = IF pool = << >> THEN "returned" ELSE "close"
    /\ UNCHANGED <<pool, sessionVars, requestVars, reaperVars>>

(* ... drain the pool, ... *)
Drain ==
    /\ closer = "drain"
    /\ drained' = pool
    /\ pool' = << >>
    /\ closer' = IF pool = << >> THEN "returned" ELSE "close"
    /\ UNCHANGED <<sessionVars, requestVars, reaperVars>>

(* ... and close each session, clear its streams and wait for its reader. *)
CloseSession ==
    /\ closer = "close"
    /\ closed' = [closed EXCEPT ![Head(drained)] = TRUE]
    /\ closer' = "clear"
    /\ UNCHANGED <<pool, reader, active, streams, stuck, permit, requestVars, reaperVars, drained>>

(* Mutant: close() leaves the streams of the session in the map. *)
CloseWithoutClear ==
    /\ closer = "clear"
    /\ closer' = "await"
    /\ UNCHANGED <<pool, sessionVars, requestVars, reaperVars, drained>>

CloseClear ==
    /\ closer = "clear"
    /\ ClearStreams(Head(drained))
    /\ closer' = "await"
    /\ UNCHANGED <<pool, reader, closed, stuck, permit, requestVars, reaperVars, drained>>

AwaitDone ==
    /\ closer = "await"
    /\ permit[Head(drained)]
    /\ permit' = [permit EXCEPT ![Head(drained)] = FALSE]
    /\ drained' = Tail(drained)
    /\ closer' = IF Len(drained) = 1 THEN "returned" ELSE "close"
    /\ UNCHANGED <<pool, reader, closed, active, streams, stuck, requestVars, reaperVars>>

Request(r) ==
    \/ AcquireIdle(r) \/ AcquireNone(r)
    \/ DialFails(r) \/ Push(r) \/ OpenCheck(r) \/ Insert(r) \/ LookUp(r)
    \/ SynOk(r) \/ SynFails(r) \/ Finish(r) \/ DropRequest(r)
    \/ \E s \in Sessions : Dial(r, s)

Session(s) ==
    \/ \E r \in Requests : PeerFin(s, r) \/ ReaderBlocks(s, r)
    \/ ReaderAnswers(s) \/ ReaderUnblocks(s) \/ ReaderExit(s) \/ ReaderClear(s) \/ ReaderNotify(s)

Reaper ==
    \/ \E expired \in SUBSET Members(pool) : ReaperTick(expired)
    \/ ReaperClose \/ ReaperClear

Closer == CloseBegin \/ ReaperStops \/ Drain \/ CloseSession \/ CloseClear \/ AwaitDone

Over == closer = "returned" /\ UNCHANGED vars

Next ==
    \/ \E r \in Requests : Request(r)
    \/ \E s \in Sessions : Session(s)
    \/ Reaper \/ Closer \/ Over

Spec == Init /\ [][Next]_vars

(* A cancelled session: the cancelled arm of the reader's select! is ready *)
(* for good (but frames may win now and then: strong fairness); a reader   *)
(* blocked on a stream that is no longer in the map is released, and so is *)
(* one at the channel of a frame writer at work.  The application never    *)
(* has to read, and the server neither: a reader that waits for a server   *)
(* that has stopped reading may wait for ever.                             *)
CancelledExit(s) == closed[s] /\ ReaderExit(s)
Released(s) == stuck[s] \notin streams[s] \cup {"server"} /\ ReaderUnblocks(s)

Fairness ==
    /\ \A s \in Sessions :
         /\ SF_vars(CancelledExit(s))
         /\ WF_vars(Released(s))
         /\ WF_vars(ReaderClear(s))
         /\ WF_vars(ReaderNotify(s))
    /\ WF_vars(ReaperClose) /\ WF_vars(ReaperClear)
    /\ WF_vars(ReaperStops)
    /\ WF_vars(Drain \/ CloseSession \/ CloseClear)
    /\ WF_vars(AwaitDone)

FairSpec == Spec /\ Fairness
-----------------------------------------------------------------------------
(* The pool's variables keep their types; `active` never wraps below zero. *)
TypeOK ==
    /\ pool \in Seq(Sessions)
    /\ reader \in [Sessions -> {"none", "run", "blocked", "clear", "notify", "done"}]
    /\ closed \in [Sessions -> BOOLEAN]
    /\ active \in [Sessions -> 0..UsizeMax]
    /\ streams \in [Sessions -> SUBSET Requests]
    /\ stuck \in [Sessions -> Requests \cup {"none", "queue", "server"}]
    /\ permit \in [Sessions -> BOOLEAN]
    /\ pc \in [Requests -> Steps]
    /\ at \in [Requests -> Sessions \cup {NoSession}]
    /\ reaper \in {"idle", "close", "clear", "stopped"}
    /\ retired \in Seq(Sessions)
    /\ closer \in {"idle", "join", "drain", "close", "clear", "await", "returned"}
    /\ drained \in Seq(Sessions)

(* Requests that own the reservation of s: they have made it and not yet   *)
(* inserted their stream, or their stream is in the map.  A dropped        *)
(* request keeps what it had.                                              *)
Holders(s) ==
    {r \in Requests : at[r] = s /\ pc[r] \in {"push", "open", "insert", "dropped"}}
        \cup streams[s]

(* Two connections never share a session that is in use: at most one owner *)
(* per open session, through reuse, retirement, FIN and failure.           *)
ExclusiveSession ==
    \A s \in Sessions : ~closed[s] => Cardinality(Holders(s)) <= 1

(* On an open session the counter is exact: not decremented twice by FIN,  *)
(* pump and failure, never wrapped below zero, never 0 while in use.       *)
ActiveExact ==
    \A s \in Sessions : ~closed[s] => active[s] = Cardinality(Holders(s))

(* What the reaper has taken out of the pool nobody owns, or can own.      *)
ReaperSparesBusy ==
    \A s \in Members(retired) : Holders(s) = {}

(* A session is known to one keeper only: its pool slot, the reaper or     *)
(* close(), so that no session is closed twice or waited for twice.        *)
OneKeeper == IsInjective(pool \o retired \o drained)

(* close() waits, but not because the server of the session whose reader   *)
(* it awaits has stopped reading.                                          *)
CloseWaits ==
    /\ closer \notin {"idle", "returned"}
    /\ ~(closer = "await" /\ stuck[Head(drained)] = "server")
-----------------------------------------------------------------------------
(* The assertion of open_stream, .expect("inserted AnyTLS stream"): the    *)
(* entry just inserted is still in the map when it is looked up again.     *)
InsertedStreamIsFound == \A r \in Requests : pc[r] # "panicked"
=============================================================================
