-------------------------- MODULE OutboundsProofs ---------------------------
(***************************************************************************)
(* The outbounds that keep sessions, for any number of sessions, requests  *)
(* and callers: an AnyTLS session has one owner and one keeper and its     *)
(* counter is exact, a reused Snell session carries one stream, a VLESS    *)
(* request crosses once.                                                   *)
(***************************************************************************)
EXTENDS MCOutbounds, SeqFacts
-----------------------------------------------------------------------------
(* The AnyTLS pool's inductive invariant.                                  *)
Reserving == {"push", "open", "insert", "dropped"}

(* Between the reservation and the end a request has a session. *)
AtSession ==
    \A r \in Requests :
        pc[r] \in Reserving \cup {"touch", "syn", "live", "panicked"} => at[r] \in Sessions

(* A stream in the map belongs to a request that has got as far as that. *)
StreamOwner ==
    \A s \in Sessions : \A r \in streams[s] :
        at[r] = s /\ pc[r] \in {"touch", "syn", "live", "dropped"}

(* Only clear_streams() takes an entry away between insert and look-up,    *)
(* and only from a closed session.                                         *)
Touched ==
    \A r \in Requests : pc[r] = "touch" /\ ~closed[at[r]] => r \in streams[at[r]]

Known == Members(pool) \cup Members(retired) \cup Members(drained)

(* Nobody knows a session that has not been dialled. *)
Dialled ==
    \A s \in Sessions :
        reader[s] = "none" => s \notin Known /\ \A r \in Requests : at[r] # s

(* A session on its way into the pool is known to its dialler only. *)
Pushing ==
    \A r \in Requests : pc[r] = "push" =>
        at[r] \notin Known /\ \A q \in Requests : at[q] = at[r] => q = r

Holds(r, s) == (at[r] = s /\ pc[r] \in Reserving) \/ r \in streams[s]

(* active is 1 with one owner, or 0 with none, unless the session is closed. *)
Counted ==
    \A s \in Sessions : ~closed[s] =>
        /\ active[s] \in {0, 1}
        /\ active[s] = 1 => \E r \in Requests : Holds(r, s)
        /\ \A r \in Requests : Holds(r, s) => active[s] = 1
        /\ \A r, q \in Requests : Holds(r, s) /\ Holds(q, s) => r = q

(* A retired session has no owner, nor a request that may become one. *)
Spared ==
    \A s \in Members(retired) :
        /\ streams[s] = {}
        /\ \A r \in Requests : at[r] = s => pc[r] \notin Reserving \cup {"touch"}

Keepers ==
    /\ Distinct(pool) /\ Distinct(retired) /\ Distinct(drained)
    /\ Members(pool) \cap Members(retired) = {}
    /\ Members(pool) \cap Members(drained) = {}
    /\ Members(retired) \cap Members(drained) = {}

(* Streams are only cleared of closed sessions. *)
Closings ==
    /\ \A s \in Sessions : reader[s] = "clear" => closed[s]
    /\ reaper \in {"close", "clear"} <=> retired # << >>
    /\ reaper = "clear" => closed[Head(retired)]
    /\ closer \in {"close", "clear", "await"} <=> drained # << >>
    /\ closer = "clear" => closed[Head(drained)]

PoolInv ==
    /\ TypeOK /\ AtSession /\ StreamOwner /\ Touched /\ Dialled /\ Pushing
    /\ Counted /\ Spared /\ Keepers /\ Closings
-----------------------------------------------------------------------------
(* A stream that is removed leaves its map and, when it was still there,   *)
(* gives the session back: the counter of an open session drops to 0.      *)
LEMMA RemoveStreamFacts ==
  ASSUME PoolInv, NEW s \in Sessions, NEW r \in Requests, RemoveStream(s, r)
  PROVE  /\ streams' = [streams EXCEPT ![s] = @ \ {r}]
         /\ active' \in [Sessions -> 0..UsizeMax]
         /\ \A u \in Sessions : u # s \/ r \notin streams[s] => active'[u] = active[u]
         /\ ~closed[s] /\ r \in streams[s] => active[s] = 1 /\ active'[s] = 0
<1> USE DEF PoolInv, TypeOK
<1>1. CASE r \in streams[s]
  <2>1. /\ streams' = [streams EXCEPT ![s] = @ \ {r}]
        /\ active' = [active EXCEPT ![s] = IF @ = 0 THEN UsizeMax ELSE @ - 1]
    BY <1>1 DEF RemoveStream
  <2>2. active' \in [Sessions -> 0..UsizeMax]  BY <2>1, PoolAssumption
  <2>3. ~closed[s] => active[s] = 1  BY <1>1 DEF Counted, Holds
  <2> QED  BY <1>1, <2>1, <2>2, <2>3
<1>2. CASE r \notin streams[s]
  <2>1. streams' = streams /\ active' = active  BY <1>2 DEF RemoveStream
  <2>2. streams[s] \ {r} = streams[s]  BY <1>2
  <2>3. streams' = [streams EXCEPT ![s] = @ \ {r}]  BY <2>1, <2>2
  <2> QED  BY <1>2, <2>1, <2>3
<1> QED  BY <1>1, <1>2

(* The steps of a request. *)
LEMMA RequestNext ==
  ASSUME PoolInv, NEW r \in Requests, Request(r)
  PROVE  PoolInv'
<1> USE DEF PoolInv
<1>1. CASE AcquireIdle(r)
  <2>1. /\ pool' \in Seq(Sessions)
        /\ Members(pool') = Members(pool) \cap OpenSessions
        /\ Distinct(pool')
    BY <1>1, RetainFacts DEF AcquireIdle, TypeOK, Keepers
  <2>2. PICK i \in 1..Len(pool') :
          /\ CanReserve(pool'[i])
          /\ active' = [active EXCEPT ![pool'[i]] = 1]
          /\ at' = [at EXCEPT ![r] = pool'[i]]
    BY <1>1 DEF AcquireIdle
  <2> DEFINE s == pool'[i]
  <2>3. s \in Members(pool')  BY DEF Members
  <2>4. s \in Members(pool) /\ s \in Sessions /\ ~closed[s] /\ active[s] = 0
    BY <2>1, <2>2, <2>3 DEF OpenSessions, CanReserve
  <2> HIDE DEF s
  <2>5. /\ active' = [active EXCEPT ![s] = 1] /\ at' = [at EXCEPT ![r] = s]
        /\ pc[r] = "acquire" /\ pc' = [pc EXCEPT ![r] = "open"]
        /\ UNCHANGED <<reader, closed, streams, stuck, permit, retired, drained, reaper, closer>>
    BY <1>1, <2>2 DEF AcquireIdle, Goto, reaperVars, closerVars, s
  <2>6. UsizeMax \in Nat /\ UsizeMax >= 1  BY PoolAssumption, FS_CardinalityType
  <2>7. TypeOK'  BY <2>1, <2>4, <2>5, <2>6 DEF TypeOK, Steps
  <2>8. AtSession' /\ StreamOwner' /\ Touched'
    BY <2>4, <2>5 DEF TypeOK, AtSession, StreamOwner, Touched, Reserving
  <2>9. Dialled' /\ Pushing'
    BY <2>1, <2>4, <2>5 DEF TypeOK, Dialled, Pushing, Known
  <2>10. Counted'
    <3>1. \A q \in Requests : ~Holds(q, s)  BY <2>4 DEF Counted
    <3>2. \A q \in Requests, u \in Sessions : Holds(q, u)' <=> Holds(q, u) \/ (q = r /\ u = s)
      BY <2>5, <2>4 DEF TypeOK, Holds, Reserving
    <3>3. active'[s] = 1 /\ \A u \in Sessions : u # s => active'[u] = active[u]
      BY <2>4, <2>5 DEF TypeOK
    <3> QED  BY <2>5, <3>1, <3>2, <3>3 DEF Counted
  <2>11. Spared' /\ Keepers' /\ Closings'
    BY <2>1, <2>4, <2>5 DEF TypeOK, Spared, Keepers, Closings, Reserving
  <2> QED  BY <2>7, <2>8, <2>9, <2>10, <2>11
<1>2. CASE AcquireNone(r)
  <2>1. /\ pool' \in Seq(Sessions)
        /\ Members(pool') = Members(pool) \cap OpenSessions
        /\ Distinct(pool')
    BY <1>2, RetainFacts DEF AcquireNone, TypeOK, Keepers
  <2>2. /\ pc[r] = "acquire" /\ pc' = [pc EXCEPT ![r] = "dial"]
        /\ UNCHANGED <<reader, closed, active, streams, stuck, permit, at, retired, drained, reaper, closer>>
    BY <1>2 DEF AcquireNone, Goto, sessionVars, reaperVars, closerVars
  <2>3. TypeOK'  BY <2>1, <2>2 DEF TypeOK, Steps
  <2>4. AtSession' /\ StreamOwner' /\ Touched'
    BY <2>2 DEF TypeOK, AtSession, StreamOwner, Touched, Reserving
  <2>5. Dialled' /\ Pushing'  BY <2>1, <2>2 DEF TypeOK, Dialled, Pushing, Known
  <2>6. Counted'
    <3>1. \A q \in Requests, u \in Sessions : Holds(q, u)' <=> Holds(q, u)
      BY <2>2 DEF TypeOK, Holds, Reserving
    <3> QED  BY <2>2, <3>1 DEF Counted
  <2>7. Spared' /\ Keepers' /\ Closings'
    BY <2>1, <2>2 DEF TypeOK, Spared, Keepers, Closings, Reserving
  <2> QED  BY <2>3, <2>4, <2>5, <2>6, <2>7
<1>3. ASSUME NEW s \in Sessions, Dial(r, s) PROVE PoolInv'
  <2>1. /\ pc[r] = "dial" /\ pc' = [pc EXCEPT ![r] = "push"]
        /\ reader[s] = "none" /\ reader' = [reader EXCEPT ![s] = "run"]
        /\ active' = [active EXCEPT ![s] = 1] /\ at' = [at EXCEPT ![r] = s]
        /\ UNCHANGED <<pool, closed, streams, stuck, permit, retired, drained, reaper, closer>>
    BY <1>3 DEF Dial, Goto, reaperVars, closerVars
  <2>2. UsizeMax \in Nat /\ UsizeMax >= 1  BY PoolAssumption, FS_CardinalityType
  <2>3. TypeOK'  BY <2>1, <2>2 DEF TypeOK, Steps
  <2>4. AtSession' /\ StreamOwner' /\ Touched'
    BY <2>1 DEF TypeOK, AtSession, StreamOwner, Touched, Reserving
  <2>5. Dialled' /\ Pushing'
    BY <2>1 DEF TypeOK, Dialled, Pushing, Known
  <2>6. Counted'
    <3>1. \A q \in Requests : at[q] # s  BY <2>1 DEF Dialled
    <3>2. \A q \in Requests : ~Holds(q, s)  BY <3>1 DEF Holds, StreamOwner
    <3>3. \A q \in Requests, u \in Sessions : Holds(q, u)' <=> Holds(q, u) \/ (q = r /\ u = s)
      BY <2>1 DEF TypeOK, Holds, Reserving
    <3>4. active'[s] = 1 /\ \A u \in Sessions : u # s => active'[u] = active[u]
      BY <2>1 DEF TypeOK
    <3> QED  BY <2>1, <3>2, <3>3, <3>4 DEF Counted
  <2>7. Spared'
    <3>1. s \notin Members(retired)  BY <2>1 DEF Dialled, Known
    <3> QED  BY <2>1, <3>1 DEF TypeOK, Spared, Reserving
  <2>8. Keepers' /\ Closings'  BY <2>1 DEF TypeOK, Keepers, Closings
  <2> QED  BY <2>3, <2>4, <2>5, <2>6, <2>7, <2>8
<1>4. CASE DialFails(r)
  <2>1. /\ pc[r] = "dial" /\ pc' = [pc EXCEPT ![r] = "over"] /\ at' = [at EXCEPT ![r] = NoSession]
        /\ UNCHANGED <<pool, reader, closed, active, streams, stuck, permit, retired, drained, reaper, closer>>
    BY <1>4 DEF DialFails, Leave, Goto, sessionVars, reaperVars, closerVars
  <2>2. TypeOK'  BY <2>1 DEF TypeOK, Steps
  <2>3. AtSession' /\ StreamOwner' /\ Touched'
    BY <2>1 DEF TypeOK, AtSession, StreamOwner, Touched, Reserving
  <2>4. Dialled' /\ Pushing'
    BY <2>1, PoolAssumption DEF TypeOK, AtSession, Dialled, Pushing, Known, Reserving
  <2>5. Counted'
    <3>1. \A q \in Requests, u \in Sessions : Holds(q, u)' <=> Holds(q, u)
      BY <2>1, PoolAssumption DEF TypeOK, Holds, Reserving
    <3> QED  BY <2>1, <3>1 DEF Counted
  <2>6. Spared' /\ Keepers' /\ Closings'
    BY <2>1 DEF TypeOK, Spared, Keepers, Closings, Reserving
  <2> QED  BY <2>2, <2>3, <2>4, <2>5, <2>6
<1>5. CASE Push(r)
  <2>1. /\ pc[r] = "push" /\ pc' = [pc EXCEPT ![r] = "open"] /\ pool' = Append(pool, at[r])
        /\ UNCHANGED <<reader, closed, active, streams, stuck, permit, at, retired, drained, reaper, closer>>
    BY <1>5 DEF Push, Goto, sessionVars, reaperVars, closerVars
  <2>2. at[r] \in Sessions /\ at[r] \notin Known  BY <2>1 DEF AtSession, Reserving, Pushing
  <2>3. /\ pool' \in Seq(Sessions)
        /\ Members(pool') = Members(pool) \cup {at[r]}
        /\ Distinct(pool')
    BY <2>1, <2>2, AppendFacts DEF TypeOK, Keepers, Known
  <2>4. TypeOK'  BY <2>1, <2>3 DEF TypeOK, Steps
  <2>5. AtSession' /\ StreamOwner' /\ Touched'
    BY <2>1 DEF TypeOK, AtSession, StreamOwner, Touched, Reserving
  <2>6. Dialled' /\ Pushing'
    BY <2>1, <2>3 DEF TypeOK, Dialled, Pushing, Known
  <2>7. Counted'
    <3>1. \A q \in Requests, u \in Sessions : Holds(q, u)' <=> Holds(q, u)
      BY <2>1 DEF TypeOK, Holds, Reserving
    <3> QED  BY <2>1, <3>1 DEF Counted
  <2>8. Spared' /\ Closings'  BY <2>1 DEF TypeOK, Spared, Closings, Reserving
  <2>9. Keepers'  BY <2>1, <2>2, <2>3 DEF Keepers, Known
  <2> QED  BY <2>4, <2>5, <2>6, <2>7, <2>8, <2>9
<1>6. CASE OpenCheck(r)
  <2>1. pc[r] = "open" /\ at[r] \in Sessions
    BY <1>6 DEF OpenCheck, AtSession, Reserving
  <2>2. UNCHANGED <<pool, reader, closed, active, streams, stuck, permit, retired, drained, reaper, closer>>
    BY <1>6 DEF OpenCheck, sessionVars, reaperVars, closerVars
  <2>3. CASE closed[at[r]]
    <3>1. pc' = [pc EXCEPT ![r] = "over"] /\ at' = [at EXCEPT ![r] = NoSession]
      BY <1>6, <2>3 DEF OpenCheck, Leave, Goto
    <3>2. TypeOK'  BY <2>2, <3>1 DEF TypeOK, Steps
    <3>3. AtSession' /\ StreamOwner' /\ Touched'
      BY <2>1, <2>2, <3>1 DEF TypeOK, AtSession, StreamOwner, Touched, Reserving
    <3>4. Dialled' /\ Pushing'
      BY <2>2, <3>1, PoolAssumption DEF TypeOK, AtSession, Dialled, Pushing, Known, Reserving
    <3>5. Counted'
      <4>1. \A q \in Requests, u \in Sessions : u # at[r] => (Holds(q, u)' <=> Holds(q, u))
        BY <2>1, <2>2, <3>1, PoolAssumption DEF TypeOK, Holds, Reserving
      <4> QED  BY <2>2, <2>3, <4>1 DEF Counted
    <3>6. Spared' /\ Keepers' /\ Closings'
      BY <2>2, <3>1 DEF TypeOK, Spared, Keepers, Closings, Reserving
    <3> QED  BY <3>2, <3>3, <3>4, <3>5, <3>6
  <2>4. CASE ~closed[at[r]]
    <3>1. pc' = [pc EXCEPT ![r] = "insert"] /\ at' = at
      BY <1>6, <2>4 DEF OpenCheck, Goto
    <3>2. TypeOK'  BY <2>2, <3>1 DEF TypeOK, Steps
    <3>3. AtSession' /\ StreamOwner' /\ Touched'
      BY <2>1, <2>2, <3>1 DEF TypeOK, AtSession, StreamOwner, Touched, Reserving
    <3>4. Dialled' /\ Pushing'  BY <2>2, <3>1 DEF TypeOK, Dialled, Pushing, Known
    <3>5. Counted'
      <4>1. \A q \in Requests, u \in Sessions : Holds(q, u)' <=> Holds(q, u)
        BY <2>1, <2>2, <3>1 DEF TypeOK, Holds, Reserving
      <4> QED  BY <2>2, <4>1 DEF Counted
    <3>6. Spared' /\ Keepers' /\ Closings'
      BY <2>1, <2>2, <3>1 DEF TypeOK, Spared, Keepers, Closings, Reserving
    <3> QED  BY <3>2, <3>3, <3>4, <3>5, <3>6
  <2> QED  BY <2>3, <2>4
<1>7. CASE Insert(r)
  <2>1. /\ pc[r] = "insert" /\ pc' = [pc EXCEPT ![r] = "touch"]
        /\ streams' = [streams EXCEPT ![at[r]] = @ \cup {r}]
        /\ UNCHANGED <<pool, reader, closed, active, stuck, permit, at, retired, drained, reaper, closer>>
    BY <1>7 DEF Insert, Goto, reaperVars, closerVars
  <2>2. at[r] \in Sessions  BY <2>1 DEF AtSession, Reserving
  <2>3. TypeOK'  BY <2>1, <2>2 DEF TypeOK, Steps
  <2>4. AtSession' /\ StreamOwner' /\ Touched'
    BY <2>1, <2>2 DEF TypeOK, AtSession, StreamOwner, Touched, Reserving
  <2>5. Dialled' /\ Pushing'  BY <2>1 DEF TypeOK, Dialled, Pushing, Known
  <2>6. Counted'
    <3>1. \A q \in Requests, u \in Sessions : Holds(q, u)' <=> Holds(q, u)
      BY <2>1, <2>2 DEF TypeOK, Holds, Reserving
    <3> QED  BY <2>1, <3>1 DEF Counted
  <2>7. Spared'
    <3>1. at[r] \notin Members(retired)  BY <2>1 DEF Spared, Reserving
    <3> QED  BY <2>1, <3>1 DEF TypeOK, Spared, Reserving
  <2>8. Keepers' /\ Closings'  BY <2>1 DEF Keepers, Closings
  <2> QED  BY <2>3, <2>4, <2>5, <2>6, <2>7, <2>8
<1>8. CASE LookUp(r) \/ SynOk(r)
  <2>1. /\ \/ pc[r] = "touch" /\ r \in streams[at[r]] /\ pc' = [pc EXCEPT ![r] = "syn"]
           \/ pc[r] = "touch" /\ r \notin streams[at[r]] /\ pc' = [pc EXCEPT ![r] = "panicked"]
           \/ pc[r] = "syn" /\ pc' = [pc EXCEPT ![r] = "live"]
        /\ UNCHANGED <<pool, reader, closed, active, streams, stuck, permit, at, retired, drained, reaper, closer>>
    BY <1>8 DEF LookUp, SynOk, Goto, sessionVars, reaperVars, closerVars
  <2>2. TypeOK'  BY <2>1 DEF TypeOK, Steps
  <2>3. AtSession' /\ Touched'  BY <2>1 DEF TypeOK, AtSession, Touched, Reserving
  <2>7. StreamOwner'
    <3>1. ASSUME NEW u \in Sessions, NEW q \in streams[u]
          PROVE  at[q] = u /\ pc'[q] \in {"touch", "syn", "live", "dropped"}
      <4>1. q \in Requests /\ at[q] = u /\ pc[q] \in {"touch", "syn", "live", "dropped"}
        BY DEF TypeOK, StreamOwner
      <4> QED  BY <2>1, <4>1 DEF TypeOK
    <3> QED  BY <2>1, <3>1 DEF StreamOwner
  <2>4. Dialled' /\ Pushing'  BY <2>1 DEF TypeOK, Dialled, Pushing, Known
  <2>5. Counted'
    <3>1. \A q \in Requests, u \in Sessions : Holds(q, u)' <=> Holds(q, u)
      BY <2>1 DEF TypeOK, Holds, Reserving
    <3> QED  BY <2>1, <3>1 DEF Counted
  <2>6. Spared' /\ Keepers' /\ Closings'
    BY <2>1 DEF TypeOK, Spared, Keepers, Closings, Reserving
  <2> QED  BY <2>2, <2>3, <2>4, <2>5, <2>6, <2>7
<1>9. CASE SynFails(r) \/ Finish(r)
  <2>1. /\ pc[r] \in {"syn", "live"} /\ pc' = [pc EXCEPT ![r] = "over"]
        /\ at' = [at EXCEPT ![r] = NoSession] /\ RemoveStream(at[r], r)
        /\ UNCHANGED <<pool, reader, closed, stuck, permit, retired, drained, reaper, closer>>
    BY <1>9 DEF SynFails, Finish, Leave, Goto, reaperVars, closerVars
  <2>2. at[r] \in Sessions  BY <2>1 DEF AtSession
  <2>3. /\ streams' = [streams EXCEPT ![at[r]] = @ \ {r}]
        /\ active' \in [Sessions -> 0..UsizeMax]
        /\ \A u \in Sessions : u # at[r] \/ r \notin streams[at[r]] => active'[u] = active[u]
        /\ ~closed[at[r]] /\ r \in streams[at[r]] => active[at[r]] = 1 /\ active'[at[r]] = 0
    BY <2>1, <2>2, RemoveStreamFacts
  <2>4. TypeOK'  BY <2>1, <2>2, <2>3 DEF TypeOK, Steps
  <2>5. AtSession' /\ StreamOwner' /\ Touched'
    BY <2>1, <2>2, <2>3 DEF TypeOK, AtSession, StreamOwner, Touched, Reserving
  <2>6. Dialled' /\ Pushing'
    BY <2>1, PoolAssumption DEF TypeOK, AtSession, Dialled, Pushing, Known, Reserving
  <2>7. Counted'
    <3>1. \A q \in Requests, u \in Sessions :
            Holds(q, u)' <=> Holds(q, u) /\ ~(q = r /\ u = at[r])
      BY <2>1, <2>2, <2>3, PoolAssumption DEF TypeOK, Holds, Reserving, StreamOwner
    <3>2. Holds(r, at[r]) <=> r \in streams[at[r]]  BY <2>1 DEF Holds, Reserving
    <3> QED  BY <2>1, <2>2, <2>3, <3>1, <3>2 DEF Counted
  <2>8. Spared'  BY <2>1, <2>2, <2>3 DEF TypeOK, Spared, Reserving
  <2>9. Keepers' /\ Closings'  BY <2>1 DEF Keepers, Closings
  <2> QED  BY <2>4, <2>5, <2>6, <2>7, <2>8, <2>9
<1>10. CASE DropRequest(r)
  <2>1. /\ pc[r] \in {"push", "insert", "touch"} /\ pc' = [pc EXCEPT ![r] = "dropped"]
        /\ UNCHANGED <<pool, reader, closed, active, streams, stuck, permit, at, retired, drained, reaper, closer>>
    BY <1>10 DEF DropRequest, Goto, sessionVars, reaperVars, closerVars
  <2>2. TypeOK'  BY <2>1 DEF TypeOK, Steps
  <2>3. AtSession' /\ StreamOwner' /\ Touched'
    BY <2>1 DEF TypeOK, AtSession, StreamOwner, Touched, Reserving
  <2>4. Dialled' /\ Pushing'  BY <2>1 DEF TypeOK, Dialled, Pushing, Known
  <2>5. Counted'
    <3>1. \A q \in Requests, u \in Sessions : ~closed[u] => (Holds(q, u)' <=> Holds(q, u))
      BY <2>1 DEF TypeOK, Holds, Reserving, Touched, AtSession
    <3> QED  BY <2>1, <3>1 DEF Counted
  <2>6. Spared' /\ Keepers' /\ Closings'
    BY <2>1 DEF TypeOK, Spared, Keepers, Closings, Reserving
  <2> QED  BY <2>2, <2>3, <2>4, <2>5, <2>6
<1> QED
  BY <1>1, <1>2, <1>3, <1>4, <1>5, <1>6, <1>7, <1>8, <1>9, <1>10 DEF Request

(* clear_streams() of a session that is already closed: whoever makes it,  *)
(* it disturbs nothing that is said of open sessions.                      *)
LEMMA ClearedInv ==
  ASSUME PoolInv, NEW s \in Sessions, closed[s],
         streams' = [streams EXCEPT ![s] = {}], active' = [active EXCEPT ![s] = 0],
         UNCHANGED <<pool, closed, stuck, permit, pc, at, drained>>,
         reader' \in [Sessions -> {"none", "run", "blocked", "clear", "notify", "done"}],
         retired' \in Seq(Sessions), Members(retired') \subseteq Members(retired),
         reaper' \in {"idle", "close", "clear", "stopped"},
         closer' \in {"idle", "join", "drain", "close", "clear", "await", "returned"}
  PROVE  TypeOK' /\ AtSession' /\ StreamOwner' /\ Touched' /\ Spared' /\ Counted'
<1> USE DEF PoolInv
<1>1. TypeOK'
  <2>1. active' \in [Sessions -> 0..UsizeMax]  BY PoolAssumption DEF TypeOK
  <2>2. streams' \in [Sessions -> SUBSET Requests]  BY DEF TypeOK
  <2> QED  BY <2>1, <2>2 DEF TypeOK
<1>2. AtSession' /\ StreamOwner' /\ Touched'
  BY DEF TypeOK, AtSession, StreamOwner, Touched, Reserving
<1>3. Spared'
  <2>1. Members(retired) \subseteq Sessions  BY DEF TypeOK, Members
  <2> QED  BY <2>1 DEF TypeOK, Spared
<1>4. Counted'
  <2>1. \A u \in Sessions : u # s => streams'[u] = streams[u] /\ active'[u] = active[u]
    BY DEF TypeOK
  <2> QED  BY <2>1 DEF TypeOK, Counted, Holds
<1> QED  BY <1>1, <1>2, <1>3, <1>4

(* The steps of a session's reader task. *)
LEMMA SessionNext ==
  ASSUME PoolInv, NEW s \in Sessions, Session(s)
  PROVE  PoolInv'
<1> USE DEF PoolInv
<1>1. ASSUME NEW r \in Requests, PeerFin(s, r) PROVE PoolInv'
  <2>1. /\ pc[r] \in {"syn", "live"} /\ r \in streams[s] /\ RemoveStream(s, r)
        /\ UNCHANGED <<pool, reader, closed, stuck, permit, pc, at, retired, drained, reaper, closer>>
    BY <1>1 DEF PeerFin, requestVars, reaperVars, closerVars
  <2>2. /\ streams' = [streams EXCEPT ![s] = @ \ {r}]
        /\ active' \in [Sessions -> 0..UsizeMax]
        /\ \A u \in Sessions : u # s => active'[u] = active[u]
        /\ ~closed[s] => active[s] = 1 /\ active'[s] = 0
    BY <2>1, RemoveStreamFacts
  <2>3. TypeOK'  BY <2>1, <2>2 DEF TypeOK
  <2>4. AtSession' /\ StreamOwner' /\ Touched'
    BY <2>1, <2>2 DEF TypeOK, AtSession, StreamOwner, Touched, Reserving
  <2>5. Dialled' /\ Pushing'  BY <2>1 DEF TypeOK, Dialled, Pushing, Known
  <2>6. Counted'
    <3>1. \A q \in Requests, u \in Sessions :
            Holds(q, u)' <=> Holds(q, u) /\ ~(q = r /\ u = s)
      BY <2>1, <2>2 DEF TypeOK, Holds, Reserving
    <3>2. Holds(r, s)  BY <2>1 DEF Holds
    <3> QED  BY <2>1, <2>2, <3>1, <3>2 DEF Counted
  <2>7. Spared'  BY <2>1, <2>2 DEF TypeOK, Spared, Reserving
  <2>8. Keepers' /\ Closings'  BY <2>1 DEF Keepers, Closings
  <2> QED  BY <2>3, <2>4, <2>5, <2>6, <2>7, <2>8
<1>2. CASE \/ ReaderAnswers(s) \/ ReaderUnblocks(s) \/ ReaderNotify(s)
           \/ \E r \in Requests : ReaderBlocks(s, r)
  <2>1. /\ reader[s] # "none"
        /\ reader' \in [Sessions -> {"none", "run", "blocked", "clear", "notify", "done"}]
        /\ \A u \in Sessions : reader'[u] \in {"none", "clear"} => reader'[u] = reader[u]
        /\ stuck' \in [Sessions -> Requests \cup {"none", "queue", "server"}]
        /\ permit' \in [Sessions -> BOOLEAN]
        /\ UNCHANGED <<pool, closed, active, streams, pc, at, retired, drained, reaper, closer>>
    <3>1. CASE ReaderAnswers(s)
      BY <3>1 DEF ReaderAnswers, TypeOK, requestVars, reaperVars, closerVars
    <3>2. CASE ReaderUnblocks(s)
      BY <3>2 DEF ReaderUnblocks, TypeOK, requestVars, reaperVars, closerVars
    <3>3. CASE ReaderNotify(s)
      BY <3>3 DEF ReaderNotify, TypeOK, requestVars, reaperVars, closerVars
    <3>4. ASSUME NEW r \in Requests, ReaderBlocks(s, r)
          PROVE  /\ reader[s] = "run" /\ reader' = [reader EXCEPT ![s] = "blocked"]
                 /\ stuck' \in [Sessions -> Requests \cup {"none", "queue", "server"}]
                 /\ UNCHANGED <<pool, closed, active, streams, permit, pc, at, retired, drained, reaper, closer>>
      BY <3>4 DEF ReaderBlocks, TypeOK, requestVars, reaperVars, closerVars
    <3> QED  BY <1>2, <3>1, <3>2, <3>3, <3>4 DEF TypeOK
  <2>2. TypeOK'  BY <2>1 DEF TypeOK
  <2>3. AtSession' /\ StreamOwner' /\ Touched' /\ Spared' /\ Keepers'
    BY <2>1 DEF AtSession, StreamOwner, Touched, Spared, Keepers
  <2>4. Dialled' /\ Pushing' /\ Closings'  BY <2>1 DEF Dialled, Pushing, Closings, Known
  <2>5. Counted'  BY <2>1 DEF Counted, Holds
  <2> QED  BY <2>2, <2>3, <2>4, <2>5
<1>3. CASE ReaderExit(s)
  <2>1. /\ reader[s] = "run" /\ reader' = [reader EXCEPT ![s] = "clear"]
        /\ closed' = [closed EXCEPT ![s] = TRUE]
        /\ UNCHANGED <<pool, active, streams, stuck, permit, pc, at, retired, drained, reaper, closer>>
    BY <1>3 DEF ReaderExit, requestVars, reaperVars, closerVars
  <2>2. \A u \in Sessions : closed[u] => closed'[u]  BY <2>1 DEF TypeOK
  <2>3. TypeOK'  BY <2>1 DEF TypeOK
  <2>4. AtSession' /\ StreamOwner' /\ Touched' /\ Spared' /\ Keepers'
    BY <2>1 DEF TypeOK, AtSession, StreamOwner, Touched, Spared, Keepers, Reserving
  <2>5. Dialled' /\ Pushing'  BY <2>1 DEF TypeOK, Dialled, Pushing, Known
  <2>6. Counted'  BY <2>1, <2>2 DEF Counted, Holds
  <2>7. Closings'
    <3>1. reaper = "clear" => Head(retired) \in Sessions
      BY TailFacts DEF TypeOK, Closings
    <3>2. closer = "clear" => Head(drained) \in Sessions
      BY TailFacts DEF TypeOK, Closings
    <3> QED  BY <2>1, <2>2, <3>1, <3>2 DEF TypeOK, Closings
  <2> QED  BY <2>3, <2>4, <2>5, <2>6, <2>7
<1>4. CASE ReaderClear(s)
  <2>1. /\ reader[s] = "clear" /\ reader' = [reader EXCEPT ![s] = "notify"]
        /\ streams' = [streams EXCEPT ![s] = {}] /\ active' = [active EXCEPT ![s] = 0]
        /\ UNCHANGED <<pool, closed, stuck, permit, pc, at, retired, drained, reaper, closer>>
    BY <1>4 DEF ReaderClear, ClearStreams, requestVars, reaperVars, closerVars
  <2>2. closed[s]  BY <2>1 DEF Closings
  <2>3. /\ TypeOK' /\ AtSession' /\ StreamOwner' /\ Touched' /\ Spared' /\ Counted'
    <3>1. /\ reader' \in [Sessions -> {"none", "run", "blocked", "clear", "notify", "done"}]
          /\ retired' \in Seq(Sessions) /\ Members(retired') \subseteq Members(retired)
          /\ reaper' \in {"idle", "close", "clear", "stopped"}
          /\ closer' \in {"idle", "join", "drain", "close", "clear", "await", "returned"}
      BY <2>1 DEF TypeOK
    <3> QED  BY <2>1, <2>2, <3>1, ClearedInv
  <2>4. Dialled' /\ Pushing'  BY <2>1 DEF TypeOK, Dialled, Pushing, Known
  <2>5. Keepers' /\ Closings'  BY <2>1 DEF TypeOK, Keepers, Closings
  <2> QED  BY <2>3, <2>4, <2>5
<1> QED  BY <1>1, <1>2, <1>3, <1>4 DEF Session

(* The steps of the reaper and of close(). *)
LEMMA KeeperNext ==
  ASSUME PoolInv, Reaper \/ Closer
  PROVE  PoolInv'
<1> USE DEF PoolInv
<1>1. ASSUME NEW expired \in SUBSET Members(pool), ReaperTick(expired) PROVE PoolInv'
  <2> DEFINE idle == Cardinality({i \in 1..Len(pool) : IsIdle(pool[i])})
             due == Retain(pool, {s \in expired : Retirable(s)})
             n == IF idle > MinIdle THEN Min({idle - MinIdle, Len(due)}) ELSE 0
             out == SubSeq(due, 1, n)
  <2>1. /\ reaper = "idle" /\ retired' = out
        /\ pool' = Retain(pool, OpenSessions \ Members(out))
        /\ reaper' = IF out = << >> THEN "idle" ELSE "close"
        /\ UNCHANGED <<reader, closed, active, streams, stuck, permit, pc, at, drained, closer>>
    BY <1>1 DEF ReaperTick, sessionVars, requestVars, closerVars
  <2>2. /\ due \in Seq(Sessions) /\ Distinct(due)
        /\ Members(due) = Members(pool) \cap {s \in expired : Retirable(s)}
    BY RetainFacts DEF TypeOK, Keepers
  <2>3. n \in 0..Len(due)
    <3>1. idle \in Nat
      <4>1. IsFiniteSet(1..Len(pool))  BY FS_Interval DEF TypeOK
      <4>2. {i \in 1..Len(pool) : IsIdle(pool[i])} \subseteq 1..Len(pool)  OBVIOUS
      <4> QED  BY <4>1, <4>2, FS_Subset, FS_CardinalityType
    <3>2. Len(due) \in Nat  BY <2>2
    <3> HIDE DEF idle, due
    <3>3. idle > MinIdle =>
            /\ Min({idle - MinIdle, Len(due)}) \in {idle - MinIdle, Len(due)}
            /\ Min({idle - MinIdle, Len(due)}) <= Len(due)
      BY <3>1, <3>2, PoolAssumption DEF Min
    <3> QED  BY <3>1, <3>2, <3>3, PoolAssumption
  <2> HIDE DEF due, n
  <2>4. out \in Seq(Sessions) /\ Distinct(out) /\ Members(out) \subseteq Members(due)
    BY <2>2, <2>3, SubSeqFacts
  <2> HIDE DEF out
  <2>5. /\ pool' \in Seq(Sessions) /\ Distinct(pool')
        /\ Members(pool') = Members(pool) \cap (OpenSessions \ Members(out))
    BY <2>1, RetainFacts DEF TypeOK, Keepers
  <2>6. \A s \in Members(out) : s \in Sessions /\ s \in Members(pool) /\ ~closed[s] /\ active[s] = 0
    <3>1. Members(pool) \subseteq Sessions  BY DEF Members, TypeOK
    <3> QED  BY <2>2, <2>4, <3>1 DEF Retirable
  <2>7. TypeOK'  BY <2>1, <2>4, <2>5 DEF TypeOK
  <2>8. AtSession' /\ StreamOwner' /\ Touched'  BY <2>1 DEF AtSession, StreamOwner, Touched
  <2>9. Dialled' /\ Pushing'  BY <2>1, <2>5, <2>6 DEF Dialled, Pushing, Known
  <2>10. Counted'  BY <2>1 DEF Counted, Holds
  <2>11. Spared'
    <3>1. \A s \in Members(out), r \in Requests : ~Holds(r, s)  BY <2>6 DEF Counted
    <3>2. \A s \in Members(out) : streams[s] \subseteq Requests  BY <2>6 DEF TypeOK
    <3> QED  BY <2>1, <2>6, <3>1, <3>2 DEF Spared, Holds, Touched
  <2>12. Keepers'
    <3>1. retired = << >>  BY <2>1 DEF Closings
    <3> QED  BY <2>1, <2>4, <2>5, <2>6 DEF Keepers
  <2>13. Closings'  BY <2>1 DEF Closings
  <2> QED  BY <2>7, <2>8, <2>9, <2>10, <2>11, <2>12, <2>13
<1>2. CASE ReaperClose
  <2>1. /\ reaper = "close" /\ reaper' = "clear" /\ retired # << >>
        /\ closed' = [closed EXCEPT ![Head(retired)] = TRUE]
        /\ UNCHANGED <<pool, reader, active, streams, stuck, permit, pc, at, retired, drained, closer>>
    BY <1>2 DEF ReaperClose, Closings, requestVars, closerVars
  <2>2. Head(retired) \in Sessions  BY <2>1, TailFacts DEF TypeOK
  <2>3. \A u \in Sessions : closed[u] => closed'[u]  BY <2>1, <2>2 DEF TypeOK
  <2>4. TypeOK'  BY <2>1, <2>2 DEF TypeOK
  <2>5. AtSession' /\ StreamOwner' /\ Spared' /\ Keepers'
    BY <2>1 DEF AtSession, StreamOwner, Spared, Keepers
  <2>6. Touched' /\ Counted'
    BY <2>1, <2>3 DEF TypeOK, AtSession, Touched, Counted, Holds
  <2>7. Dialled' /\ Pushing'  BY <2>1 DEF Dialled, Pushing, Known
  <2>8. Closings'
    <3>1. closer = "clear" => Head(drained) \in Sessions  BY TailFacts DEF TypeOK, Closings
    <3> QED  BY <2>1, <2>2, <2>3, <3>1 DEF TypeOK, Closings
  <2> QED  BY <2>4, <2>5, <2>6, <2>7, <2>8
<1>3. CASE ReaperClear
  <2> DEFINE s == Head(retired)
  <2>1. /\ reaper = "clear" /\ retired # << >> /\ closed[s]
        /\ streams' = [streams EXCEPT ![s] = {}] /\ active' = [active EXCEPT ![s] = 0]
        /\ retired' = Tail(retired)
        /\ reaper' = IF Len(retired) = 1 THEN "idle" ELSE "close"
        /\ UNCHANGED <<pool, reader, closed, stuck, permit, pc, at, drained, closer>>
    BY <1>3 DEF ReaperClear, ClearStreams, Closings, requestVars, closerVars
  <2>2. /\ s \in Sessions /\ s \in Members(retired)
        /\ Tail(retired) \in Seq(Sessions) /\ Distinct(Tail(retired))
        /\ Members(Tail(retired)) \subseteq Members(retired)
    BY <2>1, TailFacts DEF TypeOK, Keepers
  <2>3. Len(retired) = 1 <=> Tail(retired) = << >>  BY <2>1, TailFacts DEF TypeOK
  <2> HIDE DEF s
  <2>4. /\ TypeOK' /\ AtSession' /\ StreamOwner' /\ Touched' /\ Spared' /\ Counted'
    <3>1. /\ reader' \in [Sessions -> {"none", "run", "blocked", "clear", "notify", "done"}]
          /\ retired' \in Seq(Sessions) /\ Members(retired') \subseteq Members(retired)
          /\ reaper' \in {"idle", "close", "clear", "stopped"}
          /\ closer' \in {"idle", "join", "drain", "close", "clear", "await", "returned"}
      BY <2>1, <2>2 DEF TypeOK
    <3> QED  BY <2>1, <2>2, <3>1, ClearedInv
  <2>5. Dialled' /\ Pushing'  BY <2>1, <2>2 DEF Dialled, Pushing, Known
  <2>6. Keepers'  BY <2>1, <2>2 DEF Keepers
  <2>7. Closings'  BY <2>1, <2>3 DEF Closings
  <2> QED  BY <2>4, <2>5, <2>6, <2>7
<1>4. CASE CloseBegin \/ ReaperStops
  <2>1. /\ \/ closer = "idle" /\ closer' = "join" /\ reaper' = reaper
           \/ closer = "join" /\ closer' = "drain" /\ reaper = "idle" /\ reaper' = "stopped"
        /\ UNCHANGED <<pool, reader, closed, active, streams, stuck, permit, pc, at, retired, drained>>
    BY <1>4 DEF CloseBegin, ReaperStops, sessionVars, requestVars, reaperVars
  <2>2. TypeOK'  BY <2>1 DEF TypeOK
  <2>3. AtSession' /\ StreamOwner' /\ Touched' /\ Spared' /\ Keepers'
    BY <2>1 DEF AtSession, StreamOwner, Touched, Spared, Keepers
  <2>4. Dialled' /\ Pushing' /\ Closings'  BY <2>1 DEF Dialled, Pushing, Closings, Known
  <2>5. Counted'  BY <2>1 DEF Counted, Holds
  <2> QED  BY <2>2, <2>3, <2>4, <2>5
<1>5. CASE Drain
  <2>1. /\ closer = "drain" /\ drained' = pool /\ pool' = << >>
        /\ closer' = IF pool = << >> THEN "returned" ELSE "close"
        /\ UNCHANGED <<reader, closed, active, streams, stuck, permit, pc, at, retired, reaper>>
    BY <1>5 DEF Drain, sessionVars, requestVars, reaperVars
  <2>2. TypeOK'  BY <2>1 DEF TypeOK
  <2>3. AtSession' /\ StreamOwner' /\ Touched' /\ Spared'
    BY <2>1 DEF AtSession, StreamOwner, Touched, Spared
  <2>4. Dialled' /\ Pushing'  BY <2>1, NoMembers DEF Dialled, Pushing, Known
  <2>5. Counted'  BY <2>1 DEF Counted, Holds
  <2>6. Keepers' /\ Closings'  BY <2>1, NoMembers DEF Keepers, Closings
  <2> QED  BY <2>2, <2>3, <2>4, <2>5, <2>6
<1>6. CASE CloseSession
  <2>1. /\ closer = "close" /\ closer' = "clear" /\ drained # << >>
        /\ closed' = [closed EXCEPT ![Head(drained)] = TRUE]
        /\ UNCHANGED <<pool, reader, active, streams, stuck, permit, pc, at, retired, drained, reaper>>
    BY <1>6 DEF CloseSession, Closings, requestVars, reaperVars
  <2>2. Head(drained) \in Sessions  BY <2>1, TailFacts DEF TypeOK
  <2>3. \A u \in Sessions : closed[u] => closed'[u]  BY <2>1, <2>2 DEF TypeOK
  <2>4. TypeOK'  BY <2>1, <2>2 DEF TypeOK
  <2>5. AtSession' /\ StreamOwner' /\ Spared' /\ Keepers'
    BY <2>1 DEF AtSession, StreamOwner, Spared, Keepers
  <2>6. Touched' /\ Counted'
    BY <2>1, <2>3 DEF TypeOK, AtSession, Touched, Counted, Holds
  <2>7. Dialled' /\ Pushing'  BY <2>1 DEF Dialled, Pushing, Known
  <2>8. Closings'
    <3>1. reaper = "clear" => Head(retired) \in Sessions  BY TailFacts DEF TypeOK, Closings
    <3> QED  BY <2>1, <2>2, <2>3, <3>1 DEF TypeOK, Closings
  <2> QED  BY <2>4, <2>5, <2>6, <2>7, <2>8
<1>7. CASE CloseClear
  <2> DEFINE s == Head(drained)
  <2>1. /\ closer = "clear" /\ closer' = "await" /\ drained # << >> /\ closed[s]
        /\ streams' = [streams EXCEPT ![s] = {}] /\ active' = [active EXCEPT ![s] = 0]
        /\ UNCHANGED <<pool, reader, closed, stuck, permit, pc, at, retired, drained, reaper>>
    BY <1>7 DEF CloseClear, ClearStreams, Closings, requestVars, reaperVars
  <2>2. s \in Sessions  BY <2>1, TailFacts DEF TypeOK
  <2> HIDE DEF s
  <2>3. /\ TypeOK' /\ AtSession' /\ StreamOwner' /\ Touched' /\ Spared' /\ Counted'
    <3>1. /\ reader' \in [Sessions -> {"none", "run", "blocked", "clear", "notify", "done"}]
          /\ retired' \in Seq(Sessions) /\ Members(retired') \subseteq Members(retired)
          /\ reaper' \in {"idle", "close", "clear", "stopped"}
          /\ closer' \in {"idle", "join", "drain", "close", "clear", "await", "returned"}
      BY <2>1, <2>2 DEF TypeOK
    <3> QED  BY <2>1, <2>2, <3>1, ClearedInv
  <2>4. Dialled' /\ Pushing' /\ Keepers' /\ Closings'
    BY <2>1 DEF Dialled, Pushing, Keepers, Closings, Known
  <2> QED  BY <2>3, <2>4
<1>8. CASE AwaitDone
  <2>1. /\ closer = "await" /\ drained # << >>
        /\ permit' = [permit EXCEPT ![Head(drained)] = FALSE]
        /\ drained' = Tail(drained)
        /\ closer' = IF Len(drained) = 1 THEN "returned" ELSE "close"
        /\ UNCHANGED <<pool, reader, closed, active, streams, stuck, pc, at, retired, reaper>>
    BY <1>8 DEF AwaitDone, Closings, requestVars, reaperVars
  <2>2. /\ Tail(drained) \in Seq(Sessions) /\ Distinct(Tail(drained))
        /\ Members(Tail(drained)) \subseteq Members(drained)
    BY <2>1, TailFacts DEF TypeOK, Keepers
  <2>3. Len(drained) = 1 <=> Tail(drained) = << >>  BY <2>1, TailFacts DEF TypeOK
  <2>4. TypeOK'  BY <2>1, <2>2 DEF TypeOK
  <2>5. AtSession' /\ StreamOwner' /\ Touched' /\ Spared'
    BY <2>1 DEF AtSession, StreamOwner, Touched, Spared
  <2>6. Dialled' /\ Pushing'  BY <2>1, <2>2 DEF Dialled, Pushing, Known
  <2>7. Counted'  BY <2>1 DEF Counted, Holds
  <2>8. Keepers'  BY <2>1, <2>2 DEF Keepers
  <2>9. Closings'  BY <2>1, <2>3 DEF Closings
  <2> QED  BY <2>4, <2>5, <2>6, <2>7, <2>8, <2>9
<1> QED
  BY <1>1, <1>2, <1>3, <1>4, <1>5, <1>6, <1>7, <1>8 DEF Reaper, Closer

(* A fresh outbound satisfies the invariant. *)
LEMMA PoolInit == Init => PoolInv
<1> SUFFICES ASSUME Init PROVE PoolInv  OBVIOUS
<1>1. TypeOK  BY PoolAssumption DEF Init, TypeOK, Steps
<1>2. AtSession /\ StreamOwner /\ Touched  BY DEF Init, AtSession, StreamOwner, Touched, Reserving
<1>3. Dialled /\ Pushing  BY NoMembers, PoolAssumption DEF Init, Dialled, Pushing, Known
<1>4. Counted  BY DEF Init, Counted, Holds, Reserving
<1>5. Spared /\ Keepers /\ Closings  BY NoMembers DEF Init, Spared, Keepers, Closings
<1> QED  BY <1>1, <1>2, <1>3, <1>4, <1>5 DEF PoolInv

(* Every step of the pool preserves the invariant. *)
LEMMA PoolNext == PoolInv /\ [Next]_vars => PoolInv'
<1> SUFFICES ASSUME PoolInv, [Next]_vars PROVE PoolInv'  OBVIOUS
<1>1. CASE UNCHANGED vars
  BY <1>1 DEF vars, PoolInv, TypeOK, AtSession, StreamOwner, Touched, Dialled, Pushing,
              Counted, Holds, Spared, Keepers, Closings, Known
<1>2. CASE Next
  BY <1>1, <1>2, RequestNext, SessionNext, KeeperNext DEF Next, Over
<1> QED  BY <1>1, <1>2

(* The counter of an open session is the number of its owners, which is at *)
(* most one.                                                               *)
LEMMA HoldersCounted ==
  ASSUME PoolInv, NEW s \in Sessions, ~closed[s]
  PROVE  active[s] = Cardinality(Holders(s)) /\ Cardinality(Holders(s)) <= 1
<1> USE DEF PoolInv
<1>1. Holders(s) \subseteq Requests /\ \A r \in Requests : r \in Holders(s) <=> Holds(r, s)
  BY DEF Holders, Holds, Reserving, TypeOK
<1>2. CASE active[s] = 0
  <2>1. Holders(s) = {}  BY <1>1, <1>2 DEF Counted
  <2> QED  BY <1>2, <2>1, FS_EmptySet
<1>3. CASE active[s] = 1
  <2>1. PICK r \in Requests : Holds(r, s)  BY <1>3 DEF Counted
  <2>2. Holders(s) = {r}  BY <1>1, <2>1 DEF Counted
  <2> QED  BY <1>3, <2>2, FS_Singleton
<1> QED  BY <1>2, <1>3 DEF Counted

(* What the invariant says of owners, counters and keepers.                *)
LEMMA PoolInvImplies == PoolInv => SessionsAreOwned /\ BooksAreRight
<1> SUFFICES ASSUME PoolInv PROVE SessionsAreOwned /\ BooksAreRight  OBVIOUS
<1> USE DEF PoolInv
<1>1. ExclusiveSession  BY HoldersCounted DEF ExclusiveSession
<1>2. ActiveExact  BY HoldersCounted DEF ActiveExact
<1>3. ReaperSparesBusy  BY DEF ReaperSparesBusy, Spared, Holders, Reserving
<1>4. OneKeeper
  <2>1. /\ pool \o retired \in Seq(Sessions) /\ Distinct(pool \o retired)
        /\ Members(pool \o retired) = Members(pool) \cup Members(retired)
    BY ConcatDistinct DEF TypeOK, Keepers
  <2>2. /\ (pool \o retired) \o drained \in Seq(Sessions)
        /\ Distinct((pool \o retired) \o drained)
    <3>1. Members(pool \o retired) \cap Members(drained) = {}  BY <2>1 DEF Keepers
    <3>2. drained \in Seq(Sessions) /\ Distinct(drained)  BY DEF TypeOK, Keepers
    <3> QED  BY <2>1, <3>1, <3>2, ConcatDistinct
  <2> QED  BY SMTT(60), <2>2 DEF OneKeeper, IsInjective, Distinct
<1> QED  BY <1>1, <1>2, <1>3, <1>4 DEF SessionsAreOwned, BooksAreRight

(* The invariant holds in every behaviour, whichever part it plays. *)
LEMMA PoolInvHolds == MCSpec => []PoolInv
<1>1. MCInit => PoolInv
  <2>1. IdlePool => Init  BY DEF IdlePool, Init
  <2> QED  BY <2>1, PoolInit DEF MCInit
<1>2. PoolInv /\ [MCNext]_<<part, vars, snellVars, dialVars>> => PoolInv'
  <2>1. [MCNext]_<<part, vars, snellVars, dialVars>> => [Next]_vars  BY DEF MCNext
  <2> QED  BY <2>1, PoolNext
<1> QED  BY <1>1, <1>2, PTL DEF MCSpec

(* For any number of sessions and requests: acquire_session, the reaper    *)
(* and close() never let two connections share an open session, and the    *)
(* reaper never takes a session that somebody uses or is about to use.     *)
THEOREM SessionsAlwaysOwned == MCSpec => []SessionsAreOwned
  BY PoolInvHolds, PoolInvImplies, PTL

(* ClientSession.active is exact on every open session, and no session is  *)
(* ever in the hands of two of pool, reaper and close().                   *)
THEOREM BooksAlwaysRight == MCSpec => []BooksAreRight
  BY PoolInvHolds, PoolInvImplies, PTL
-----------------------------------------------------------------------------
(* Snell's inductive invariant: the steps made under the lock, ... *)
Critical == {"look", "reuse", "dial"}
SnellType ==
    /\ mutex \in Callers \cup {"none", "close"}
    /\ waiters \in Seq(Callers \cup {"close"})
    /\ list \in Seq(Transports)
    /\ session \in [Transports -> {"none", "idle", "busy", "closed"}]
    /\ step \in [Callers -> Critical \cup {"idle", "lock", "live", "over"}]
    /\ held \in [Callers -> Transports \cup {"none"}]
    /\ closing \in {"no", "lock", "drain", "returned"}

(* ... who waits for it, ... *)
Queued ==
    /\ Distinct(waiters)
    /\ \A c \in Callers : c \in Members(waiters) <=> step[c] = "lock"
    /\ "close" \in Members(waiters) <=> closing = "lock"

(* ... who holds it, ... *)
Guarded ==
    /\ \A c \in Callers : mutex = c <=> step[c] \in Critical
    /\ mutex = "close" <=> closing = "drain"

(* ... the sessions in use, and in the hands of the lock's holder, ... *)
Held ==
    /\ \A c \in Callers : step[c] = "live" => held[c] \in Transports /\ session[held[c]] \in {"busy", "closed"}
    /\ \A c \in Callers : step[c] = "reuse" => held[c] \in Transports /\ session[held[c]] \in {"idle", "closed"}
    /\ \A c, d \in Callers : step[c] = "live" /\ step[d] = "live" /\ c # d => held[c] # held[d]
    /\ \A t \in Transports : session[t] = "busy" => \E c \in Callers : step[c] = "live" /\ held[c] = t

(* ... and the list. *)
Listed == Distinct(list) /\ \A t \in Members(list) : session[t] # "none"

SnellInv == SnellType /\ Queued /\ Guarded /\ Held /\ Listed

(* SnellPool's Retain is the same operator. *)
LEMMA SnellRetain ==
  ASSUME NEW S, NEW s \in Seq(S), NEW K
  PROVE  /\ Snell!Retain(s, K) \in Seq(S)
         /\ Members(Snell!Retain(s, K)) = Members(s) \cap K
         /\ Distinct(s) => Distinct(Snell!Retain(s, K))
<1>1. Snell!Retain(s, K) = Retain(s, K)
  BY DEF Snell!Retain, Snell!Kept, Snell!Rank, Snell!Cardinality, Retain, Kept, Rank, Cardinality
<1> QED  BY <1>1, RetainFacts

(* Snell's invariant holds at first, in a part that is played or not.      *)
LEMMA SnellInitInv == Snell!SnellInit \/ IdleSnell => SnellInv
<1> SUFFICES ASSUME Snell!SnellInit \/ IdleSnell PROVE SnellInv  OBVIOUS
<1>1. /\ mutex = "none" /\ waiters = << >> /\ list = << >> /\ closing = "no"
      /\ session = [t \in Transports |-> "none"] /\ held = [c \in Callers |-> "none"]
      /\ step = [c \in Callers |-> "idle"] \/ step = [c \in Callers |-> "over"]
  BY DEF Snell!SnellInit, IdleSnell
<1>2. SnellType  BY <1>1 DEF SnellType, Critical
<1>3. Queued /\ Guarded /\ Held /\ Listed
  BY <1>1, NoMembers, CallersAssumption DEF Queued, Guarded, Held, Listed, Critical
<1> QED  BY <1>2, <1>3 DEF SnellInv

(* The lock goes to the first in the queue, which leaves it. *)
LEMMA WaiterGranted ==
  ASSUME SnellInv, NEW w, Snell!Grant(w)
  PROVE  /\ mutex = "none" /\ mutex' = w /\ waiters' = Tail(waiters)
         /\ w \in Callers \cup {"close"} /\ w \in Members(waiters)
         /\ waiters' \in Seq(Callers \cup {"close"}) /\ Distinct(waiters')
         /\ Members(waiters') = Members(waiters) \ {w}
<1>1. /\ mutex = "none" /\ waiters # << >> /\ Head(waiters) = w /\ mutex' = w
      /\ waiters' = Tail(waiters)
  BY DEF Snell!Grant
<1>2. waiters \in Seq(Callers \cup {"close"}) /\ Distinct(waiters)
  BY DEF SnellInv, SnellType, Queued
<1> QED  BY <1>1, <1>2, TailFacts

(* The steps of a request preserve Snell's invariant. *)
LEMMA CallerNext ==
  ASSUME SnellInv, NEW c \in Callers,
         Snell!Connect(c) \/ Snell!Lock(c) \/ Snell!Served(c) \/ Snell!Finish(c)
  PROVE  SnellInv'
<1> USE DEF SnellInv
<1>1. CASE Snell!Connect(c)
  <2>1. /\ step[c] = "idle" /\ step' = [step EXCEPT ![c] = "lock"] /\ waiters' = Append(waiters, c)
        /\ UNCHANGED <<mutex, list, session, held, closing>>
    BY <1>1 DEF Snell!Connect
  <2>2. c \notin Members(waiters)  BY <2>1 DEF Queued
  <2>3. /\ waiters' \in Seq(Callers \cup {"close"}) /\ Distinct(waiters')
        /\ Members(waiters') = Members(waiters) \cup {c}
    BY <2>1, <2>2, AppendFacts DEF SnellType, Queued
  <2>4. SnellType'  BY <2>1, <2>3 DEF SnellType
  <2>5. Queued'  BY <2>1, <2>3, CallersAssumption DEF SnellType, Queued
  <2>6. Guarded' /\ Listed'  BY <2>1 DEF SnellType, Guarded, Critical, Listed
  <2>7. Held'  BY <2>1 DEF SnellType, Held
  <2> QED  BY <2>4, <2>5, <2>6, <2>7
<1>2. CASE Snell!Lock(c)
  <2>1. Snell!Grant(c) /\ step' = [step EXCEPT ![c] = "look"] /\ UNCHANGED <<list, session, held, closing>>
    BY <1>2 DEF Snell!Lock
  <2>2. /\ mutex = "none" /\ mutex' = c /\ c \in Members(waiters)
        /\ waiters' \in Seq(Callers \cup {"close"}) /\ Distinct(waiters')
        /\ Members(waiters') = Members(waiters) \ {c}
    BY <2>1, WaiterGranted
  <2>3. step[c] = "lock"  BY <2>2 DEF Queued
  <2>4. SnellType'  BY <2>1, <2>2 DEF SnellType, Critical
  <2>5. Queued'  BY <2>1, <2>2, CallersAssumption DEF SnellType, Queued
  <2>6. Guarded' /\ Listed'
    BY <2>1, <2>2, CallersAssumption DEF SnellType, Guarded, Critical, Listed
  <2>7. Held'  BY <2>1, <2>3 DEF SnellType, Held
  <2> QED  BY <2>4, <2>5, <2>6, <2>7
<1>3. CASE Snell!Look(c)
  <2>1. /\ step[c] = "look" /\ list' = Snell!Retain(list, Snell!OpenTransports)
        /\ UNCHANGED <<mutex, waiters, session, closing>>
    BY <1>3 DEF Snell!Look
  <2>2. /\ list' \in Seq(Transports) /\ Distinct(list')
        /\ Members(list') = Members(list) \cap Snell!OpenTransports
    BY <2>1, SnellRetain DEF SnellType, Listed
  <2>3. \/ step' = [step EXCEPT ![c] = "dial"] /\ held' = held
        \/ \E t \in Transports :
             /\ session[t] = "idle"
             /\ held' = [held EXCEPT ![c] = t] /\ step' = [step EXCEPT ![c] = "reuse"]
    <3>1. CASE step' = [step EXCEPT ![c] = "dial"] /\ held' = held  BY <3>1
    <3>2. ASSUME NEW i \in 1..Len(list'), Snell!IsFree(list'[i]),
                 held' = [held EXCEPT ![c] = list'[i]], step' = [step EXCEPT ![c] = "reuse"]
          PROVE  \E t \in Transports :
                   /\ session[t] = "idle"
                   /\ held' = [held EXCEPT ![c] = t] /\ step' = [step EXCEPT ![c] = "reuse"]
      <4>1. list'[i] \in Members(list')  BY DEF Members
      <4>2. list'[i] \in Members(list) /\ list'[i] \in Transports /\ session[list'[i]] # "closed"
        BY <4>1, <2>2 DEF Snell!OpenTransports
      <4>3. session[list'[i]] # "busy" /\ session[list'[i]] # "none"
        BY <3>2, <4>2 DEF Snell!IsFree, Listed
      <4> QED  BY <3>2, <4>2, <4>3 DEF SnellType
    <3> QED  BY <1>3, <3>1, <3>2 DEF Snell!Look
  <2>4. SnellType'  BY <2>1, <2>2, <2>3 DEF SnellType, Critical
  <2>5. Queued' /\ Guarded'  BY <2>1, <2>3 DEF SnellType, Queued, Guarded, Critical
  <2>6. Listed'  BY <2>1, <2>2 DEF Listed
  <2>7. Held'  BY <2>1, <2>3 DEF SnellType, Held
  <2> QED  BY <2>4, <2>5, <2>6, <2>7
<1>4. CASE Snell!Reuse(c)
  <2>1. step[c] = "reuse" /\ mutex' = "none" /\ UNCHANGED <<waiters, list, closing>>
    BY <1>4 DEF Snell!Reuse
  <2> DEFINE t == held[c]
  <2>2. t \in Transports /\ session[t] \in {"idle", "closed"}  BY <2>1 DEF Held
  <2>3. \/ /\ session[t] = "idle" /\ session' = [session EXCEPT ![t] = "busy"]
           /\ step' = [step EXCEPT ![c] = "live"] /\ held' = held
        \/ /\ session' = [session EXCEPT ![t] = "closed"]
           /\ step' = [step EXCEPT ![c] = "over"] /\ held' = [held EXCEPT ![c] = "none"]
    BY <1>4, <2>2 DEF Snell!Reuse
  <2>4. mutex = c  BY <2>1 DEF Guarded, Critical
  <2> HIDE DEF t
  <2>5. SnellType'  BY <2>1, <2>2, <2>3 DEF SnellType
  <2>6. Queued'  BY <2>1, <2>3 DEF SnellType, Queued
  <2>7. Guarded'  BY <2>1, <2>3, <2>4, CallersAssumption DEF SnellType, Guarded, Critical
  <2>8. Listed'
    <3>1. Members(list) \subseteq Transports  BY DEF SnellType, Members
    <3> QED  BY <2>1, <2>2, <2>3, <3>1 DEF SnellType, Listed
  <2>9. \A d \in Callers : step[d] = "reuse" => d = c  BY <2>4 DEF Guarded, Critical
  <2>10. CASE session[t] = "idle" /\ session' = [session EXCEPT ![t] = "busy"]
              /\ step' = [step EXCEPT ![c] = "live"] /\ held' = held
    <3>1. \A d \in Callers : step[d] = "live" => held[d] # t  BY <2>10 DEF Held
    <3>2. Held'  BY <2>1, <2>2, <2>9, <2>10, <3>1 DEF SnellType, Held, t
    <3> QED  BY <2>5, <2>6, <2>7, <2>8, <3>2
  <2>11. CASE session' = [session EXCEPT ![t] = "closed"]
              /\ step' = [step EXCEPT ![c] = "over"] /\ held' = [held EXCEPT ![c] = "none"]
    <3>1. Held'  BY <2>1, <2>2, <2>9, <2>11 DEF SnellType, Held
    <3> QED  BY <2>5, <2>6, <2>7, <2>8, <3>1
  <2> QED  BY <2>3, <2>10, <2>11
<1>5. ASSUME NEW t \in Transports, Snell!Dial(c, t) PROVE SnellInv'
  <2>1. /\ step[c] = "dial" /\ session[t] = "none" /\ session' = [session EXCEPT ![t] = "busy"]
        /\ list' = Append(list, t) /\ held' = [held EXCEPT ![c] = t]
        /\ step' = [step EXCEPT ![c] = "live"] /\ mutex' = "none" /\ UNCHANGED <<waiters, closing>>
    BY <1>5 DEF Snell!Dial
  <2>2. t \notin Members(list)  BY <2>1 DEF Listed
  <2>3. list' \in Seq(Transports) /\ Distinct(list') /\ Members(list') = Members(list) \cup {t}
    BY <2>1, <2>2, AppendFacts DEF SnellType, Listed
  <2>4. SnellType'  BY <2>1, <2>3 DEF SnellType
  <2>5. mutex = c  BY <2>1 DEF Guarded, Critical
  <2>6. Queued' /\ Guarded'
    BY <2>1, <2>5, CallersAssumption DEF SnellType, Queued, Guarded, Critical
  <2>7. Listed'
    <3>1. Members(list) \subseteq Transports  BY DEF SnellType, Members
    <3> QED  BY <2>1, <2>3, <3>1 DEF SnellType, Listed
  <2>8. Held'
    <3>1. \A d \in Callers : step[d] = "live" \/ step[d] = "reuse" => held[d] # t  BY <2>1 DEF Held
    <3> QED  BY <2>1, <3>1 DEF SnellType, Held
  <2> QED  BY <2>4, <2>6, <2>7, <2>8
<1>6. CASE Snell!DialFails(c)
  <2>1. /\ step[c] = "dial" /\ step' = [step EXCEPT ![c] = "over"] /\ mutex' = "none"
        /\ UNCHANGED <<waiters, list, session, held, closing>>
    BY <1>6 DEF Snell!DialFails
  <2>2. mutex = c  BY <2>1 DEF Guarded, Critical
  <2>3. SnellType' /\ Listed'  BY <2>1 DEF SnellType, Listed
  <2>4. Queued' /\ Guarded'
    BY <2>1, <2>2, CallersAssumption DEF SnellType, Queued, Guarded, Critical
  <2>5. Held'  BY <2>1 DEF SnellType, Held
  <2> QED  BY <2>3, <2>4, <2>5
<1>7. CASE Snell!Finish(c)
  <2>1. /\ step[c] = "live" /\ step' = [step EXCEPT ![c] = "over"]
        /\ held' = [held EXCEPT ![c] = "none"] /\ UNCHANGED <<mutex, waiters, list, closing>>
    BY <1>7 DEF Snell!Finish
  <2> DEFINE t == held[c]
  <2>2. PICK to \in {"idle", "closed"} : session' = [session EXCEPT ![t] = IF @ = "closed" THEN @ ELSE to]
    BY <1>7 DEF Snell!Finish
  <2>3. t \in Transports  BY <2>1 DEF Held
  <2>4. session'[t] \in {"idle", "closed"} /\ \A u \in Transports : u # t => session'[u] = session[u]
    BY <2>2, <2>3 DEF SnellType
  <2>5. SnellType'  BY <2>1, <2>2, <2>3 DEF SnellType
  <2>6. Queued' /\ Guarded'  BY <2>1 DEF SnellType, Queued, Guarded, Critical
  <2>7. Listed'
    <3>1. Members(list) \subseteq Transports  BY DEF SnellType, Members
    <3> QED  BY <2>1, <2>4, <3>1 DEF Listed
  <2>8. Held'
    <3>1. \A d \in Callers : d # c => step'[d] = step[d] /\ held'[d] = held[d]  BY <2>1 DEF SnellType
    <3>2. step'[c] = "over"  BY <2>1 DEF SnellType
    <3>3. \A d \in Callers : d # c /\ step[d] = "live" => held[d] # t  BY <2>1 DEF Held
    <3> QED  BY <2>3, <2>4, <3>1, <3>2, <3>3 DEF Held
  <2> QED  BY <2>5, <2>6, <2>7, <2>8
<1> QED  BY <1>1, <1>2, <1>3, <1>4, <1>5, <1>6, <1>7 DEF Snell!Served

(* So do the others: the peer and close().                                 *)
LEMMA SnellNextInv ==
  ASSUME SnellInv, Snell!SnellNext
  PROVE  SnellInv'
<1> USE DEF SnellInv
<1>1. CASE Snell!AllOver
  <2>1. UNCHANGED <<mutex, waiters, list, session, step, held, closing>>
    BY <1>1 DEF Snell!AllOver, Snell!vars
  <2> QED  BY <2>1 DEF SnellType, Queued, Guarded, Held, Listed
<1>2. ASSUME NEW t \in Transports, Snell!PeerCloses(t) PROVE SnellInv'
  <2>1. /\ session[t] = "idle" /\ session' = [session EXCEPT ![t] = "closed"]
        /\ UNCHANGED <<mutex, waiters, list, step, held, closing>>
    BY <1>2 DEF Snell!PeerCloses
  <2>2. SnellType' /\ Queued' /\ Guarded'  BY <2>1 DEF SnellType, Queued, Guarded
  <2>3. Listed'
    <3>1. Members(list) \subseteq Transports  BY DEF SnellType, Members
    <3> QED  BY <2>1, <3>1 DEF SnellType, Listed
  <2>4. Held'  BY <2>1 DEF SnellType, Held
  <2> QED  BY <2>2, <2>3, <2>4
<1>3. CASE Snell!Close
  <2>1. /\ closing = "no" /\ closing' = "lock" /\ waiters' = Append(waiters, "close")
        /\ UNCHANGED <<mutex, list, session, step, held>>
    BY <1>3 DEF Snell!Close
  <2>2. "close" \notin Members(waiters)  BY <2>1 DEF Queued
  <2>3. /\ waiters' \in Seq(Callers \cup {"close"}) /\ Distinct(waiters')
        /\ Members(waiters') = Members(waiters) \cup {"close"}
    BY <2>1, <2>2, AppendFacts DEF SnellType, Queued
  <2>4. SnellType' /\ Guarded' /\ Held' /\ Listed'
    BY <2>1, <2>3 DEF SnellType, Guarded, Held, Listed
  <2>5. Queued'  BY <2>1, <2>3, CallersAssumption DEF Queued
  <2> QED  BY <2>4, <2>5
<1>4. CASE Snell!CloseLocks
  <2>1. Snell!Grant("close") /\ closing' = "drain" /\ UNCHANGED <<list, session, step, held>>
    BY <1>4 DEF Snell!CloseLocks
  <2>2. /\ mutex = "none" /\ mutex' = "close"
        /\ waiters' \in Seq(Callers \cup {"close"}) /\ Distinct(waiters')
        /\ Members(waiters') = Members(waiters) \ {"close"}
    BY <2>1, WaiterGranted
  <2>3. SnellType' /\ Held' /\ Listed'  BY <2>1, <2>2 DEF SnellType, Held, Listed
  <2>4. Queued' /\ Guarded'  BY <2>1, <2>2, CallersAssumption DEF Queued, Guarded
  <2> QED  BY <2>3, <2>4
<1>5. CASE Snell!CloseDrains
  <2>1. closing = "drain" /\ mutex = "close" /\ UNCHANGED <<waiters, step, held>>
    BY <1>5 DEF Snell!CloseDrains, Guarded
  <2>2. CASE list = << >>
    <3>1. closing' = "returned" /\ mutex' = "none" /\ UNCHANGED <<list, session>>
      BY <1>5, <2>2 DEF Snell!CloseDrains
    <3> QED  BY <2>1, <3>1, CallersAssumption DEF SnellType, Queued, Guarded, Held, Listed
  <2>3. CASE list # << >>
    <3>1. /\ session' = [session EXCEPT ![Head(list)] = "closed"] /\ list' = Tail(list)
          /\ UNCHANGED <<closing, mutex>>
      BY <1>5, <2>3 DEF Snell!CloseDrains
    <3>2. /\ Head(list) \in Transports /\ Tail(list) \in Seq(Transports) /\ Distinct(Tail(list))
          /\ Members(Tail(list)) \subseteq Members(list)
      BY <2>3, TailFacts DEF SnellType, Listed
    <3>3. SnellType' /\ Queued' /\ Guarded'
      BY <2>1, <3>1, <3>2 DEF SnellType, Queued, Guarded
    <3>4. Listed'
      <4>1. Members(list) \subseteq Transports  BY DEF SnellType, Members
      <4> QED  BY <3>1, <3>2, <4>1 DEF SnellType, Listed
    <3>5. Held'  BY <2>1, <3>1, <3>2 DEF SnellType, Held
    <3> QED  BY <3>3, <3>4, <3>5
  <2> QED  BY <2>2, <2>3
<1> QED  BY <1>1, <1>2, <1>3, <1>4, <1>5, CallerNext DEF Snell!SnellNext
-----------------------------------------------------------------------------
(* The dial's inductive invariant: the request is in one place at a time,  *)
(* which early data decides.                                               *)
Early == Vless!UsesEarlyData
Item == {<< >>, <<"request">>}
DialInv ==
    /\ client \in {"dial", "upgrade", "response", "connected", "failed"}
    /\ acceptor \in {"http", "request", "routed", "failed"}
    /\ header \in Item /\ toServer \in Item
    /\ header # << >> => Early
    /\ toServer # << >> => ~Early
    /\ client \in {"dial", "upgrade"} => toServer = << >>
    /\ client \in {"dial", "upgrade"} /\ acceptor = "routed" => Early
    /\ client = "dial" => acceptor = "http"
    /\ acceptor \in {"http", "request"} => routed \in Item
    /\ acceptor = "http" => routed = << >>
    /\ acceptor = "request" /\ routed # << >> => Early
    /\ acceptor = "routed" => routed \in {<< >>, <<"payload">>} /\ toServer = << >>

(* A VLESS dial that has not begun. *)
LEMMA DialInitInv == Vless!DialInit => DialInv
  BY DEF Vless!DialInit, DialInv, Item

(* Every step of either end preserves the dial's invariant. *)
LEMMA DialNextInv ==
  ASSUME DialInv, Vless!DialNext
  PROVE  DialInv'
<1>1. CASE Vless!Settled
  BY <1>1 DEF Vless!Settled, Vless!vars, DialInv, Early, Vless!UsesEarlyData
<1>2. CASE Vless!Upgrade
  BY <1>2 DEF Vless!Upgrade, Vless!config, DialInv, Early, Vless!UsesEarlyData, Item
<1>3. CASE Vless!ServeUpgrade
  BY <1>3 DEF Vless!ServeUpgrade, Vless!config, DialInv, Early, Vless!UsesEarlyData, Item
<1>4. CASE Vless!ReadUpgrade
  BY <1>4 DEF Vless!ReadUpgrade, Vless!config, DialInv, Early, Vless!UsesEarlyData, Item
<1>5. CASE Vless!ServeRequest
  <2>1. routed \o toServer = <<"request">>
    <3>1. acceptor = "request" /\ routed \o toServer # << >>  BY <1>5 DEF Vless!ServeRequest
    <3>2. routed \in Item /\ toServer \in Item /\ (routed = << >> \/ toServer = << >>)
      BY <3>1 DEF DialInv
    <3>3. routed = << >> => routed \o toServer = toServer
      BY <3>2, ConcatEmptySeq DEF Item
    <3>4. toServer = << >> => routed \o toServer = routed
      BY <3>2, ConcatEmptySeq DEF Item
    <3> QED  BY <3>1, <3>2, <3>3, <3>4 DEF Item
  <2>2. routed' = << >> /\ toServer' = << >>  BY <1>5, <2>1 DEF Vless!ServeRequest
  <2>3. /\ acceptor = "request" /\ acceptor' \in {"routed", "failed"}
        /\ UNCHANGED <<maxEarly, name, serverName, client, header>>
    BY <1>5 DEF Vless!ServeRequest, Vless!config
  <2>4. client \in {"dial", "upgrade"} => Early
    <3>1. client \in {"dial", "upgrade"} => toServer = << >> /\ routed # << >>
      BY <2>1 DEF DialInv
    <3> QED  BY <2>3, <3>1 DEF DialInv
  <2> QED  BY <2>2, <2>3, <2>4 DEF DialInv, Early, Vless!UsesEarlyData, Item
<1>6. CASE Vless!ReadResponse
  BY <1>6 DEF Vless!ReadResponse, Vless!config, DialInv, Early, Vless!UsesEarlyData
<1>7. CASE Vless!Payload
  <2>1. /\ acceptor = "routed" /\ routed = << >>
        /\ UNCHANGED <<maxEarly, name, serverName, client, acceptor, header, toServer>>
    BY <1>7 DEF Vless!Payload, Vless!config, DialInv
  <2>2. routed' = <<"payload">>  BY <1>7, <2>1 DEF Vless!Payload
  <2> QED  BY <2>1, <2>2 DEF DialInv, Early, Vless!UsesEarlyData
<1> QED  BY <1>1, <1>2, <1>3, <1>4, <1>5, <1>6, <1>7 DEF Vless!DialNext

(* Both invariants hold in every behaviour. *)
LEMMA CleanInvHolds == MCSpec => [](SnellInv /\ DialInv)
<1>1. MCInit => SnellInv /\ DialInv
  BY SnellInitInv, DialInitInv DEF MCInit, IdleDial
<1>2. SnellInv /\ DialInv /\ [MCNext]_<<part, vars, snellVars, dialVars>> => (SnellInv /\ DialInv)'
  <2> SUFFICES ASSUME SnellInv, DialInv, [MCNext]_<<part, vars, snellVars, dialVars>>
               PROVE  SnellInv' /\ DialInv'
    OBVIOUS
  <2>1. UNCHANGED snellVars => SnellInv'
    BY DEF snellVars, SnellInv, SnellType, Queued, Guarded, Held, Listed
  <2>2. UNCHANGED dialVars => DialInv'
    BY DEF dialVars, DialInv, Early, Vless!UsesEarlyData
  <2> QED  BY <2>1, <2>2, SnellNextInv, DialNextInv DEF MCNext
<1> QED  BY <1>1, <1>2, PTL DEF MCSpec

(* For any number of callers and sessions a Snell session carries one      *)
(* stream at a time; and a VLESS request, whatever the early data limits,  *)
(* is never left over for the destination to read.                         *)
THEOREM DialsAlwaysClean == MCSpec => []DialsAreClean
<1>1. SnellInv => Snell!ReuseIsExclusive
  <2> SUFFICES ASSUME SnellInv PROVE Snell!ReuseIsExclusive  OBVIOUS
  <2>1. \A i \in 1..Len(list) : list[i] \in Transports  BY DEF SnellInv, SnellType
  <2>2. \A i, j \in 1..Len(list) : list[i] = list[j] => i = j  BY DEF SnellInv, Listed, Distinct
  <2>3. mutex \in Callers => step[mutex] \in {"look", "reuse", "dial"}
    BY DEF SnellInv, Guarded, Critical
  <2> QED  BY <2>1, <2>2, <2>3 DEF SnellInv, Held, Snell!ReuseIsExclusive
<1>2. DialInv => Vless!RequestOnce
  <2> SUFFICES ASSUME DialInv PROVE Vless!RequestOnce  OBVIOUS
  <2>1. acceptor = "routed" =>
          "request" \notin {routed[i] : i \in 1..Len(routed)} \cup {toServer[i] : i \in 1..Len(toServer)}
    <3> SUFFICES ASSUME acceptor = "routed"
                 PROVE  /\ \A i \in 1..Len(routed) : routed[i] = "payload"
                        /\ Len(toServer) = 0
      OBVIOUS
    <3>1. routed = << >> \/ routed = <<"payload">>  BY DEF DialInv
    <3>2. toServer = << >>  BY DEF DialInv
    <3> QED  BY <3>1, <3>2
  <2>2. header # << >> => RequestSize <= maxEarly  BY DEF DialInv, Early, Vless!UsesEarlyData
  <2> QED  BY <2>1, <2>2 DEF Vless!RequestOnce
<1> QED  BY <1>1, <1>2, CleanInvHolds, PTL DEF DialsAreClean
=============================================================================
