---------------------------- MODULE AnyTlsServer ----------------------------
(***************************************************************************)
(* One connection of the AnyTLS inbound, handle_inbound_connection: the    *)
(* handshake, the loop that reads frames, the writer task, and per stream  *)
(* a stream writer, a pump and a handler (handle_server_stream), all of    *)
(* them spawned outside ConnectionTasks.                                   *)
(*                                                                         *)
(* A step is what a task does between two awaits.  The frame channel is    *)
(* FIFO, so only its length is kept and `told` logs what enters it.  The   *)
(* incoming channel of a stream and the duplex pipe its stream writer      *)
(* feeds are one queue.  Small capacities make every wait at a full queue  *)
(* happen (the code has 64 frames, 32 chunks and 1 MiB).  Item 0 of a      *)
(* stream is its address (and, over UDP, the UoT request); the others are  *)
(* payload.                                                                *)
(***************************************************************************)
EXTENDS Naturals, Sequences

CONSTANTS Ids,        \* ids of the streams that are followed; the client uses each once
          MaxItems,   \* payload items per stream and direction
          QueueCap,   \* capacity of the frame channel
          PipeCap     \* capacity of a stream's incoming channel and pipe, per direction

VARIABLES
    loop,       \* connection task: "tls" | "auth" | "read" | "send" | "push" | "ended"
    settings,   \* settings_received
    sending,    \* frames the loop is about to send, in order
    pushing,    \* stream and item the loop waits to hand over; empty for another stream
    inboundCancel, \* the inbound's CancellationToken
    queue,      \* frames in the channel tx/rx
    writer,     \* writer task: "none" | "run" | "ended"
    told,       \* per stream: "ok", "failed" and "data" frames sent to the client
    clientNext, \* per stream: the next item the client sends; 0 before its SYN
    inMap,      \* streams in the stream map
    cancel,     \* streams whose own token is cancelled
    chan,       \* per stream: items on their way to the handler
    streamWriter, pump, handler,  \* per stream: the three tasks
    dialled,    \* per stream: outcome of Router::connect or connect_packet
    reached,    \* per stream: payload items that reached the destination
    answers     \* per stream: items the destination has sent, not yet read by the pump

connection == <<loop, settings, sending, pushing>>
wires == <<queue, writer, told>>
tasks == <<streamWriter, pump, handler>>
flows == <<chan, dialled, reached, answers>>
vars == <<connection, inboundCancel, wires, clientNext, inMap, cancel, tasks, flows>>

ServerInit ==
    /\ loop = "tls" /\ settings = FALSE /\ sending = << >> /\ pushing = << >>
    /\ inboundCancel = FALSE
    /\ queue = 0 /\ writer = "none" /\ told = [s \in Ids |-> << >>]
    /\ clientNext = [s \in Ids |-> 0]
    /\ inMap = {} /\ cancel = {}
    /\ chan = [s \in Ids |-> << >>]
    /\ streamWriter = [s \in Ids |-> "none"]
    /\ pump = [s \in Ids |-> "none"]
    /\ handler = [s \in Ids |-> "none"]
    /\ dialled = [s \in Ids |-> "none"]
    /\ reached = [s \in Ids |-> << >>] /\ answers = [s \in Ids |-> 0]

(* connection_cancel: cancelled with its parent, or when the handler of    *)
(* the connection has returned.                                            *)
ConnectionCancelled == inboundCancel \/ loop = "ended"

(* Mutant: the stream's token is not a child of the connection's. *)
StreamCancelledAlone(s) == s \in cancel

(* stream_cancel = cancel.child_token() *)
StreamCancelled(s) == s \in cancel \/ ConnectionCancelled

(* mpsc send: it waits for room, and fails once the receiver is dropped. *)
CanSend == writer = "ended" \/ queue < QueueCap
Enqueue == queue' = IF writer = "ended" THEN queue ELSE queue + 1
Send(s, kind) ==
    /\ Enqueue
    /\ told' = IF writer = "ended" THEN told ELSE [told EXCEPT ![s] = Append(@, kind)]
-----------------------------------------------------------------------------
(* TLS with JLS, or REALITY, which answers a client it does not know       *)
(* itself: then the handler returns.                                       *)
Accept ==
    /\ loop = "tls"
    /\ loop' \in {"auth", "ended"}
    /\ UNCHANGED <<settings, sending, pushing, inboundCancel, wires, clientNext, inMap, cancel, tasks, flows>>

(* The password's digest, the padding; then the writer task is spawned. *)
Authenticate(known) ==
    /\ loop = "auth"
    /\ loop' = IF known THEN "read" ELSE "ended"
    /\ writer' = IF known THEN "run" ELSE writer
    /\ UNCHANGED <<settings, sending, pushing, inboundCancel, queue, told, clientNext, inMap, cancel, tasks, flows>>

(* CMD_SETTINGS: SERVER_SETTINGS, and UPDATE_PADDING if the client's       *)
(* scheme is another one.                                                  *)
ReadSettings(samePadding) ==
    /\ loop = "read" /\ ~settings
    /\ settings' = TRUE
    /\ sending' = IF samePadding THEN <<"settings">> ELSE <<"settings", "padding">>
    /\ loop' = "send"
    /\ UNCHANGED <<pushing, inboundCancel, wires, clientNext, inMap, cancel, tasks, flows>>

(* CMD_HEARTBEAT_REQUEST *)
ReadHeartbeat ==
    /\ loop = "read"
    /\ sending' = <<"heartbeat">>
    /\ loop' = "send"
    /\ UNCHANGED <<settings, pushing, inboundCancel, wires, clientNext, inMap, cancel, tasks, flows>>

(* The loop's own sends; their errors are ignored. *)
LoopSends ==
    /\ loop = "send" /\ CanSend
    /\ Enqueue
    /\ sending' = Tail(sending)
    /\ loop' = IF Len(sending) = 1 THEN "read" ELSE "send"
    /\ UNCHANGED <<settings, pushing, inboundCancel, writer, told, clientNext, inMap, cancel, tasks, flows>>

(* CMD_SYN of a new stream: the map entry and the three tasks. *)
ReadSyn(s) ==
    /\ loop = "read" /\ settings
    /\ handler[s] = "none"
    /\ inMap' = inMap \cup {s}
    /\ streamWriter' = [streamWriter EXCEPT ![s] = "run"]
    /\ pump' = [pump EXCEPT ![s] = "read"]
    /\ handler' = [handler EXCEPT ![s] = "address"]
    /\ UNCHANGED <<connection, inboundCancel, wires, clientNext, cancel, flows>>

(* A SYN before the settings, with id 0 or of a stream still in the map,   *)
(* an alert, an unknown command, a broken or finished connection.          *)
ReadEnds ==
    /\ loop = "read"
    /\ loop' = "ended"
    /\ UNCHANGED <<settings, sending, pushing, inboundCancel, wires, clientNext, inMap, cancel, tasks, flows>>

(* CMD_PSH: for a stream that is gone the data is dropped; otherwise the   *)
(* loop takes a clone of the sender and waits for room.                    *)
ReadPush(s) ==
    /\ loop = "read" /\ handler[s] # "none" /\ clientNext[s] <= MaxItems
    /\ clientNext' = [clientNext EXCEPT ![s] = @ + 1]
    /\ IF s \in inMap
       THEN loop' = "push" /\ pushing' = <<s, <<s, clientNext[s]>>>>
       ELSE UNCHANGED <<loop, pushing>>
    /\ UNCHANGED <<settings, sending, inboundCancel, wires, inMap, cancel, tasks, flows>>

(* Streams that are not followed one by one: the loop may have to wait for *)
(* one of them, for any time, and their tasks fill the frame channel.      *)
OtherPush ==
    /\ loop = "read" /\ settings
    /\ loop' = "push" /\ pushing' = << >>
    /\ UNCHANGED <<settings, sending, inboundCancel, wires, clientNext, inMap, cancel, tasks, flows>>

OtherPushed ==
    /\ loop = "push" /\ pushing = << >>
    /\ loop' = "read"
    /\ UNCHANGED <<settings, sending, pushing, inboundCancel, wires, clientNext, inMap, cancel, tasks, flows>>

OtherSends ==
    /\ writer = "run" /\ CanSend
    /\ Enqueue
    /\ UNCHANGED <<connection, inboundCancel, writer, told, clientNext, inMap, cancel, tasks, flows>>

LoopPushes ==
    /\ loop = "push" /\ pushing # << >>
    /\ LET s == pushing[1]
       IN  \/ /\ streamWriter[s] = "run" /\ Len(chan[s]) < PipeCap
              /\ chan' = [chan EXCEPT ![s] = Append(@, pushing[2])]
           \/ streamWriter[s] = "ended" /\ UNCHANGED chan
    /\ loop' = "read" /\ pushing' = << >>
    /\ UNCHANGED <<settings, sending, inboundCancel, wires, clientNext, inMap, cancel, tasks,
                   dialled, reached, answers>>

\* Whoever still finds the entry cancels the stream's token.
Remove(s) ==
    /\ inMap' = inMap \ {s}
    /\ cancel' = IF s \in inMap THEN cancel \cup {s} ELSE cancel

(* CMD_FIN: what is queued for the stream is given up. *)
ReadFin(s) ==
    /\ loop = "read" /\ s \in inMap
    /\ Remove(s)
    /\ UNCHANGED <<connection, inboundCancel, wires, clientNext, tasks, flows>>

CloseInbound ==
    /\ ~inboundCancel /\ loop # "ended"
    /\ inboundCancel' = TRUE
    /\ UNCHANGED <<connection, wires, clientNext, inMap, cancel, tasks, flows>>

(* The select! around the whole handler in run_inbound_listener. *)
LoopCancelled ==
    /\ inboundCancel /\ loop # "ended"
    /\ loop' = "ended"
    /\ UNCHANGED <<settings, sending, pushing, inboundCancel, wires, clientNext, inMap, cancel, tasks, flows>>

(* The writer task: write_padded_frame of one frame, or a write error. *)
WriterWrites ==
    /\ writer = "run" /\ queue > 0
    /\ queue' = queue - 1
    /\ UNCHANGED <<connection, inboundCancel, writer, told, clientNext, inMap, cancel, tasks, flows>>

WriterFails ==
    /\ writer = "run" /\ queue > 0
    /\ writer' = "ended" /\ queue' = 0
    /\ UNCHANGED <<connection, inboundCancel, told, clientNext, inMap, cancel, tasks, flows>>

WriterCancelled ==
    /\ writer = "run" /\ ConnectionCancelled
    /\ writer' = "ended" /\ queue' = 0
    /\ UNCHANGED <<connection, inboundCancel, told, clientNext, inMap, cancel, tasks, flows>>
-----------------------------------------------------------------------------
(* The stream writer ends with its token, or on a write after the handler  *)
(* has dropped its end of the pipe.                                        *)
StreamWriterEnds(s) ==
    /\ streamWriter[s] = "run"
    /\ StreamCancelled(s) \/ (chan[s] # << >> /\ handler[s] \in {"cleanup", "fin", "ended"})
    /\ streamWriter' = [streamWriter EXCEPT ![s] = "ended"]
    /\ UNCHANGED <<connection, inboundCancel, wires, clientNext, inMap, cancel, pump, handler, flows>>

(* The pump: read the pipe, send PSH; the send has no cancelled arm. *)
PumpReads(s) ==
    /\ pump[s] = "read" /\ answers[s] > 0
    /\ answers' = [answers EXCEPT ![s] = @ - 1]
    /\ pump' = [pump EXCEPT ![s] = "send"]
    /\ UNCHANGED <<connection, inboundCancel, wires, clientNext, inMap, cancel, streamWriter, handler,
                   chan, dialled, reached>>

PumpSends(s) ==
    /\ pump[s] = "send" /\ CanSend
    /\ Send(s, "data")
    /\ pump' = [pump EXCEPT ![s] = IF writer = "ended" THEN "cleanup" ELSE "read"]
    /\ UNCHANGED <<connection, inboundCancel, writer, clientNext, inMap, cancel,
                   streamWriter, handler, flows>>

(* Cancelled, or the handler has shut down or dropped its end. *)
PumpStops(s) ==
    /\ pump[s] = "read"
    /\ StreamCancelled(s) \/ (answers[s] = 0 /\ handler[s] \in {"downEof", "cleanup", "fin", "ended"})
    /\ pump' = [pump EXCEPT ![s] = "cleanup"]
    /\ UNCHANGED <<connection, inboundCancel, wires, clientNext, inMap, cancel, streamWriter, handler, flows>>

(* Mutant: the pump leaves the stream's token alone. *)
PumpCleansUpQuietly(s) ==
    /\ pump[s] = "cleanup"
    /\ inMap' = inMap \ {s}
    /\ pump' = [pump EXCEPT ![s] = "fin"]
    /\ UNCHANGED <<connection, inboundCancel, wires, clientNext, cancel, streamWriter, handler, flows>>

PumpCleansUp(s) ==
    /\ pump[s] = "cleanup"
    /\ Remove(s)
    /\ pump' = [pump EXCEPT ![s] = "fin"]
    /\ UNCHANGED <<connection, inboundCancel, wires, clientNext, streamWriter, handler, flows>>

PumpFin(s) ==
    /\ pump[s] = "fin" /\ CanSend
    /\ Enqueue
    /\ pump' = [pump EXCEPT ![s] = "ended"]
    /\ UNCHANGED <<connection, inboundCancel, writer, told, clientNext, inMap, cancel,
                   streamWriter, handler, flows>>
-----------------------------------------------------------------------------
HandlerGoes(s, to) == handler' = [handler EXCEPT ![s] = to]

(* handle_server_stream: the address; UOT_MAGIC makes it a UDP stream. *)
ReadAddress(s) ==
    /\ handler[s] = "address" /\ chan[s] # << >>
    /\ chan' = [chan EXCEPT ![s] = Tail(@)]
    /\ \E to \in {"connect", "connectPacket", "cleanup"} : HandlerGoes(s, to)
    /\ UNCHANGED <<connection, inboundCancel, wires, clientNext, inMap, cancel, streamWriter, pump,
                   dialled, reached, answers>>

(* Mutant: the relay does not wait for the SYNACK. *)
HandlerConnectsEarly(s) ==
    /\ handler[s] = "connect"
    /\ dialled' = [dialled EXCEPT ![s] = "ok"]
    /\ HandlerGoes(s, "relay")
    /\ UNCHANGED <<connection, inboundCancel, wires, clientNext, inMap, cancel, streamWriter, pump,
                   chan, reached, answers>>

(* Router::connect *)
HandlerConnects(s) ==
    /\ handler[s] = "connect"
    /\ \E outcome \in {"ok", "failed"} : dialled' = [dialled EXCEPT ![s] = outcome]
    /\ HandlerGoes(s, "synack")
    /\ UNCHANGED <<connection, inboundCancel, wires, clientNext, inMap, cancel, streamWriter, pump,
                   chan, reached, answers>>

(* handle_server_udp_stream: a failed connect_packet is not reported, the  *)
(* client sees only the FIN.                                               *)
HandlerConnectsPacket(s) ==
    /\ handler[s] = "connectPacket"
    /\ \E outcome \in {"ok", "failed"} :
         /\ dialled' = [dialled EXCEPT ![s] = outcome]
         /\ HandlerGoes(s, IF outcome = "ok" THEN "synackPacket" ELSE "cleanup")
    /\ UNCHANGED <<connection, inboundCancel, wires, clientNext, inMap, cancel, streamWriter, pump,
                   chan, reached, answers>>

(* SYNACK, empty or with the error; a failed send is ignored. *)
SynAck(s) ==
    /\ handler[s] \in {"synack", "synackPacket"} /\ CanSend
    /\ Send(s, dialled[s])
    /\ HandlerGoes(s, IF dialled[s] = "failed" THEN "cleanup"
                      ELSE IF handler[s] = "synack" THEN "relay" ELSE "packets")
    /\ UNCHANGED <<connection, inboundCancel, writer, clientNext, inMap, cancel,
                   streamWriter, pump, flows>>

(* Router::relay, or relay_packet over a UotPacketConnection. *)
RelayUp(s) ==
    /\ handler[s] \in {"relay", "downEof", "packets"} /\ chan[s] # << >>
    /\ reached' = [reached EXCEPT ![s] = Append(@, Head(chan[s]))]
    /\ chan' = [chan EXCEPT ![s] = Tail(@)]
    /\ UNCHANGED <<connection, inboundCancel, wires, clientNext, inMap, cancel, tasks,
                   dialled, answers>>

Answered(s) ==
    Len(SelectSeq(told[s], LAMBDA kind : kind = "data")) + answers[s] + (IF pump[s] = "send" THEN 1 ELSE 0)

RelayDown(s) ==
    /\ handler[s] \in {"relay", "packets"} /\ answers[s] < PipeCap
    /\ Answered(s) < MaxItems
    /\ answers' = [answers EXCEPT ![s] = @ + 1]
    /\ UNCHANGED <<connection, inboundCancel, wires, clientNext, inMap, cancel, tasks,
                   chan, dialled, reached>>

(* copy_bidirectional after the destination's end of stream: the pipe is   *)
(* shut down towards the pump, the upload goes on.                         *)
RelayDownEof(s) ==
    /\ handler[s] = "relay"
    /\ HandlerGoes(s, "downEof")
    /\ UNCHANGED <<connection, inboundCancel, wires, clientNext, inMap, cancel, streamWriter, pump, flows>>

(* An error of the relay or of the read of the address. *)
HandlerFails(s) ==
    /\ handler[s] \in {"address", "relay", "downEof", "packets"}
    /\ HandlerGoes(s, "cleanup")
    /\ UNCHANGED <<connection, inboundCancel, wires, clientNext, inMap, cancel, streamWriter, pump, flows>>

(* The select! around handle_server_stream. *)
HandlerCancelled(s) ==
    /\ handler[s] \notin {"none", "cleanup", "fin", "ended"}
    /\ StreamCancelled(s)
    /\ HandlerGoes(s, "cleanup")
    /\ UNCHANGED <<connection, inboundCancel, wires, clientNext, inMap, cancel, streamWriter, pump, flows>>

HandlerCleansUp(s) ==
    /\ handler[s] = "cleanup"
    /\ Remove(s)
    /\ HandlerGoes(s, "fin")
    /\ UNCHANGED <<connection, inboundCancel, wires, clientNext, streamWriter, pump, flows>>

HandlerFin(s) ==
    /\ handler[s] = "fin" /\ CanSend
    /\ Enqueue
    /\ HandlerGoes(s, "ended")
    /\ UNCHANGED <<connection, inboundCancel, writer, told, clientNext, inMap, cancel,
                   streamWriter, pump, flows>>
-----------------------------------------------------------------------------
StreamStep(s) ==
    \/ ReadSyn(s) \/ ReadPush(s) \/ ReadFin(s)
    \/ StreamWriterEnds(s)
    \/ PumpReads(s) \/ PumpSends(s) \/ PumpStops(s) \/ PumpCleansUp(s) \/ PumpFin(s)
    \/ ReadAddress(s) \/ HandlerConnects(s) \/ HandlerConnectsPacket(s) \/ SynAck(s)
    \/ RelayUp(s) \/ RelayDown(s) \/ RelayDownEof(s)
    \/ HandlerFails(s) \/ HandlerCancelled(s) \/ HandlerCleansUp(s) \/ HandlerFin(s)

Quiet(s) ==
    /\ streamWriter[s] \in {"none", "ended"}
    /\ pump[s] \in {"none", "ended"}
    /\ handler[s] \in {"none", "ended"}

(* Nothing is left of the connection. *)
Gone == loop = "ended" /\ writer # "run" /\ (\A s \in Ids : Quiet(s)) /\ UNCHANGED vars

ServerNext ==
    \/ Gone \/ Accept \/ ReadHeartbeat \/ LoopSends \/ ReadEnds \/ LoopPushes
    \/ \E flag \in BOOLEAN : Authenticate(flag) \/ ReadSettings(flag)
    \/ OtherPush \/ OtherPushed \/ OtherSends
    \/ CloseInbound \/ LoopCancelled
    \/ WriterWrites \/ WriterFails \/ WriterCancelled
    \/ \E s \in Ids : StreamStep(s)

(* A cancelled token is observed at a select!; a task that is not waiting  *)
(* runs.  Neither the client nor a destination has to do anything.  The    *)
(* cancelled arm of a pump may lose against data that is ready, but only   *)
(* as often as there is data in the pipe.                                  *)
ServerFairness ==
    /\ WF_vars(LoopCancelled) /\ WF_vars(WriterCancelled)
    /\ \A s \in Ids :
         /\ WF_vars(StreamWriterEnds(s))
         /\ WF_vars(PumpSends(s) \/ PumpCleansUp(s) \/ PumpFin(s))
         /\ WF_vars(PumpStops(s))
         /\ WF_vars(HandlerCancelled(s))
         /\ WF_vars(HandlerCleansUp(s) \/ HandlerFin(s))
-----------------------------------------------------------------------------
Before(s, i, kinds) == \E j \in 1..(i - 1) : told[s][j] \in kinds

(* A stream is not reordered or holed by its queues, the loop that may     *)
(* wait for one of them and the tasks that end it: what reached            *)
(* its destination is the client's payload from its first item on.  A client *)
(* sees at most one SYNACK per stream, one that tells the outcome of the   *)
(* dial, and no data before it; data reaches a destination only over a     *)
(* dial that succeeded.                                                    *)
StreamsIntact ==
    \A s \in Ids :
        /\ \A i \in 1..Len(reached[s]) : reached[s][i] = <<s, i>>
        /\ reached[s] # << >> => dialled[s] = "ok"
        /\ \A i \in 1..Len(told[s]) :
             /\ told[s][i] \in {"ok", "failed"} =>
                  told[s][i] = dialled[s] /\ ~Before(s, i, {"ok", "failed"})
             /\ told[s][i] = "data" => Before(s, i, {"ok"})

(* Tasks nobody joins are still there although their time is over: after   *)
(* the connection has ended, for whatever reason, or the inbound closes,   *)
(* the writer and the three tasks of every stream; after the pump of a     *)
(* stream has ended, its stream writer.                                    *)
Orphans ==
    \/ ConnectionCancelled /\ (writer = "run" \/ \E s \in Ids : ~Quiet(s))
    \/ \E s \in Ids : pump[s] = "ended" /\ streamWriter[s] = "run"
=============================================================================
