------------------------ MODULE CloudflaredDatagrams ------------------------
(***************************************************************************)
(* The UDP sessions of one Cloudflare QUIC connection.  The loop of        *)
(* QuicConnection::run_local reads the edge's datagrams, hands payloads to *)
(* the flows through bounded channels, sends their replies and removes     *)
(* idle sessions; each flow is a task of its own that dials and then       *)
(* relays.  The loop waits for a full channel, and while it waits nothing  *)
(* else of the connection moves: no reply, no expiry, no shutdown.         *)
(*                                                                         *)
(* Over datagram v2 the edge registers a session by a call, and the call   *)
(* takes the session map's tokio mutex with blocking_lock: on a runtime    *)
(* thread that panics, so the task of the RPC stream dies without an       *)
(* answer and no v2 session ever exists.                                   *)
(***************************************************************************)
EXTENDS Naturals, Sequences

CONSTANTS Ids,              \* request ids the edge uses
          MaxFlows,         \* flows a run may start
          MaxPayloads,      \* payloads the edge may send
          IncomingQueue,    \* capacity of a session's channel (256)
          OutboundQueue     \* capacity of the outbound channel (256)

VARIABLES
    version,    \* datagram_version: "v2" | "v3"
    loop,       \* run_local: [at, id, payload]
    sessions,   \* request id -> its flow, 0 when there is none
    flows,      \* per flow: [id, task, incoming, got, idle, replied]
    accepted,   \* history: per flow, the payloads read for it while it was in the map
    outbound,   \* ids of the replies on their way to the edge
    edge,       \* ids the edge has registered, and those that were answered
    payloads,   \* payloads the edge has sent so far
    stop        \* the shutdown channel has fired

vars == <<version, loop, sessions, flows, accepted, outbound, edge, payloads, stop>>

Flows == 1 .. Len(flows)
At(place) == [at |-> place, id |-> 0, payload |-> 0]

DatagramInit(place) ==
    /\ version \in {"v2", "v3"}
    /\ loop = At(place)
    /\ sessions = [id \in Ids |-> 0]
    /\ flows = << >> /\ accepted = << >> /\ outbound = << >>
    /\ edge = [asked |-> {}, answered |-> {}]
    /\ payloads = 0
    /\ stop = FALSE
-----------------------------------------------------------------------------
(* A payload for the session of id: mark_activity, and the loop goes into  *)
(* session.incoming.send(payload).await.                                   *)
BeginDeliver(id) ==
    /\ payloads < MaxPayloads
    /\ payloads' = payloads + 1
    /\ loop' = [at |-> "deliver", id |-> id, payload |-> payloads + 1]

NewFlow(id) == [id |-> id, task |-> "dialing", incoming |-> << >>, got |-> << >>,
                idle |-> FALSE, replied |-> FALSE]

(* A vacant id gets a channel and a flow; any other one keeps its flow.    *)
Admit(id, bundle) ==
    \/ /\ sessions[id] = 0 /\ Len(flows) < MaxFlows
       /\ flows' = Append(flows, NewFlow(id))
       /\ accepted' = Append(accepted, bundle)
       /\ sessions' = [sessions EXCEPT ![id] = Len(flows) + 1]
    \/ /\ sessions[id] # 0
       /\ flows' = [flows EXCEPT ![sessions[id]].idle = @ /\ bundle = << >>]
       /\ accepted' = [accepted EXCEPT ![sessions[id]] = @ \o bundle]
       /\ UNCHANGED sessions

(* handle_datagram, a registration, which may bundle the first payload:    *)
(* the session is there before the edge is told so (response 0).           *)
Register(id) ==
    /\ version = "v3" /\ loop.at = "select"
    /\ edge' = [asked |-> edge.asked \cup {id}, answered |-> edge.answered \cup {id}]
    /\ \/ Admit(id, << >>) /\ UNCHANGED <<loop, payloads>>
       \/ Admit(id, <<payloads + 1>>) /\ BeginDeliver(id)
    /\ UNCHANGED <<version, outbound, stop>>

(* handle_datagram, a payload; one for an unknown id is dropped.           *)
ReadPayload(id) ==
    /\ version = "v3" /\ loop.at = "select"
    /\ sessions[id] # 0
    /\ BeginDeliver(id)
    /\ flows' = [flows EXCEPT ![sessions[id]].idle = FALSE]
    /\ accepted' = [accepted EXCEPT ![sessions[id]] = Append(@, payloads + 1)]
    /\ UNCHANGED <<version, sessions, outbound, edge, stop>>

(* parse_registration refuses a datagram, and `?` takes the error all the  *)
(* way out of run_local; the LocalSet and every task on it are dropped.    *)
ReadMalformed ==
    /\ version = "v3" /\ loop.at = "select"
    /\ loop' = At("failed")
    /\ sessions' = [id \in Ids |-> 0]
    /\ flows' = [f \in Flows |-> [flows[f] EXCEPT !.task = "over", !.incoming = << >>]]
    /\ UNCHANGED <<version, accepted, outbound, edge, payloads, stop>>

(* The wait in send() ends: room in the channel, or the flow is over and   *)
(* has dropped its receiver (`let _ =`).                                   *)
(* Mutant: try_send, which drops a payload that finds the channel full.    *)
DeliverOrDrop ==
    /\ loop.at = "deliver"
    /\ LET f == sessions[loop.id] IN
        flows' = IF flows[f].task # "over" /\ Len(flows[f].incoming) < IncomingQueue
                 THEN [flows EXCEPT ![f].incoming = Append(@, loop.payload)]
                 ELSE flows
    /\ loop' = At("select")
    /\ UNCHANGED <<version, sessions, accepted, outbound, edge, payloads, stop>>

Deliver ==
    /\ loop.at = "deliver"
    /\ LET f == sessions[loop.id] IN
        \/ /\ flows[f].task = "over"
           /\ UNCHANGED flows
        \/ /\ flows[f].task # "over"
           /\ Len(flows[f].incoming) < IncomingQueue
           /\ flows' = [flows EXCEPT ![f].incoming = Append(@, loop.payload)]
    /\ loop' = At("select")
    /\ UNCHANGED <<version, sessions, accepted, outbound, edge, payloads, stop>>

(* outbound_rx.recv(): the reply goes out, or is too large and dropped. *)
SendReply ==
    /\ loop.at = "select" /\ outbound # << >>
    /\ outbound' = Tail(outbound)
    /\ UNCHANGED <<version, loop, sessions, flows, accepted, edge, payloads, stop>>

(* cleanup.tick(): cleanup_sessions drops the idle sessions' senders. *)
Tick ==
    /\ loop.at = "select"
    /\ \E id \in Ids : sessions[id] # 0 /\ flows[sessions[id]].idle
    /\ sessions' = [id \in Ids |-> IF sessions[id] # 0 /\ flows[sessions[id]].idle
                                   THEN 0 ELSE sessions[id]]
    /\ UNCHANGED <<version, loop, flows, accepted, outbound, edge, payloads, stop>>

(* shutdown: unregister and the grace period, in which the loop no longer  *)
(* runs but the flows do, then close and the end of the LocalSet.          *)
Shutdown ==
    /\ loop.at = "select" /\ stop
    /\ loop' = At("grace")
    /\ UNCHANGED <<version, sessions, flows, accepted, outbound, edge, payloads, stop>>

Return ==
    /\ loop.at = "grace"
    /\ loop' = At("returned")
    /\ sessions' = [id \in Ids |-> 0]
    /\ flows' = [f \in Flows |-> [flows[f] EXCEPT !.task = "over", !.incoming = << >>]]
    /\ UNCHANGED <<version, accepted, outbound, edge, payloads, stop>>
-----------------------------------------------------------------------------
(* A flow: router_datagram_handler, route_packet. *)
Step(f, from) == loop.at # "idle" /\ flows[f].task = from

Dialled(f) ==
    /\ Step(f, "dialing")
    /\ \E ok \in BOOLEAN :
        flows' = [flows EXCEPT ![f].task = IF ok THEN "relaying" ELSE "over",
                               ![f].incoming = IF ok THEN @ ELSE << >>]
    /\ UNCHANGED <<version, loop, sessions, accepted, outbound, edge, payloads, stop>>

(* QuicPacketConnection::recv, and the packet goes to its destination. *)
Upload(f) ==
    /\ Step(f, "relaying") /\ flows[f].incoming # << >>
    /\ flows' = [flows EXCEPT ![f].incoming = Tail(@), ![f].got = Append(@, Head(flows[f].incoming)),
                              ![f].idle = FALSE]
    /\ UNCHANGED <<version, loop, sessions, accepted, outbound, edge, payloads, stop>>

(* QuicPacketConnection::send: mark_activity, then wait for room. *)
Reply(f) ==
    /\ Step(f, "relaying") /\ ~flows[f].replied
    /\ Len(outbound) < OutboundQueue
    /\ flows' = [flows EXCEPT ![f].idle = FALSE, ![f].replied = TRUE]
    /\ outbound' = Append(outbound, flows[f].id)
    /\ UNCHANGED <<version, loop, sessions, accepted, edge, payloads, stop>>

Held(f) == \E id \in Ids : sessions[id] = f

(* try_join! ends with the first error: the sender is gone and the channel *)
(* drained.  Mutant: the end of the channel is taken for a pause.          *)
FlowEndsNever(f) == FALSE /\ UNCHANGED vars

FlowEnds(f) ==
    /\ Step(f, "relaying") /\ ~Held(f) /\ flows[f].incoming = << >>
    /\ flows' = [flows EXCEPT ![f].task = "over"]
    /\ UNCHANGED <<version, loop, sessions, accepted, outbound, edge, payloads, stop>>

(* The outbound fails.  The session stays in the map, is still answered    *)
(* with 0 and still counts as active when payloads arrive for it.          *)
FlowFails(f) ==
    /\ Step(f, "relaying")
    /\ flows' = [flows EXCEPT ![f].task = "over", ![f].incoming = << >>]
    /\ UNCHANGED <<version, loop, sessions, accepted, outbound, edge, payloads, stop>>
-----------------------------------------------------------------------------
(* register_udp_session over v2: blocking_lock panics, the RPC stream's    *)
(* task is gone and the call stays unanswered.                             *)
V2Register(id) ==
    /\ version = "v2" /\ loop.at = "select"
    /\ edge' = [edge EXCEPT !.asked = @ \cup {id}]
    /\ UNCHANGED <<version, loop, sessions, flows, accepted, outbound, payloads, stop>>

(* handle_v2_datagram, deliver: there is no session to deliver to. *)
V2Payload(id) ==
    /\ version = "v2" /\ loop.at = "select"
    /\ sessions[id] = 0 /\ payloads < MaxPayloads
    /\ payloads' = payloads + 1
    /\ UNCHANGED <<version, loop, sessions, flows, accepted, outbound, edge, stop>>

(* Time passes; the supervisor's shutdown fires. *)
Elapse(f) ==
    /\ loop.at # "idle" /\ Held(f) /\ ~flows[f].idle
    /\ flows' = [flows EXCEPT ![f].idle = TRUE]
    /\ UNCHANGED <<version, loop, sessions, accepted, outbound, edge, payloads, stop>>

RequestStop ==
    /\ loop.at \notin {"idle", "failed"} /\ ~stop
    /\ stop' = TRUE
    /\ UNCHANGED <<version, loop, sessions, flows, accepted, outbound, edge, payloads>>
-----------------------------------------------------------------------------
LoopStep == Deliver \/ SendReply \/ Tick \/ Shutdown \/ Return
FlowStep(f) == Dialled(f) \/ Upload(f) \/ FlowEnds(f)

DatagramNext ==
    \/ \E id \in Ids : Register(id) \/ ReadPayload(id) \/ V2Register(id) \/ V2Payload(id)
    \/ ReadMalformed \/ LoopStep \/ RequestStop
    \/ \E f \in Flows : FlowStep(f) \/ Reply(f) \/ FlowFails(f) \/ Elapse(f)

(* The loop's select! takes a ready arm at random; dials end, and a        *)
(* destination accepts what a flow sends it.                               *)
DatagramFairness ==
    /\ WF_vars(Deliver)
    /\ WF_vars(Return)
    /\ WF_vars(Shutdown)
    /\ \A f \in 1 .. MaxFlows : WF_vars(f \in Flows /\ FlowStep(f))
-----------------------------------------------------------------------------
(* A flow gets the payloads that were sent to its session, each once and   *)
(* in order: what it has received, what its channel holds and what the     *)
(* loop is handing over are what the edge has sent it; a flow that ended   *)
(* has received a prefix of that.                                          *)
InHand(f) ==
    IF loop.at = "deliver" /\ sessions[loop.id] = f THEN <<loop.payload>> ELSE << >>

FlowsIntact ==
    \A f \in Flows :
        IF flows[f].task = "over"
        THEN flows[f].got = SubSeq(accepted[f], 1, Len(flows[f].got))
        ELSE flows[f].got \o flows[f].incoming \o InHand(f) = accepted[f]

(* README.md: datagram sessions "include registration responses": every    *)
(* registration the edge makes is answered.                                *)
RegistrationsAreAnswered == edge.asked = edge.answered

(* Who waits: the loop for a full channel, a flow whose session expired    *)
(* for its end, close() for the loop.                                      *)
DatagramWaits ==
    \/ loop.at = "deliver"
    \/ stop /\ loop.at \in {"select", "grace"}
    \/ \E f \in Flows : flows[f].task = "relaying" /\ ~Held(f) /\ loop.at # "grace"
=============================================================================
