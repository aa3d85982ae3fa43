------------------------------ MODULE WebSocket -----------------------------
(***************************************************************************)
(* WebSocketStream of the VLESS crate: frames are parsed out of whatever   *)
(* chunks the socket delivers, control frames are answered from inside     *)
(* poll_read through the same buffer poll_write uses, and the socket may   *)
(* take any part of that buffer.  copy_bidirectional polls both halves     *)
(* from one task, so a poll_read and a poll_write do not interleave, but   *)
(* either may stop half-way through a frame.                               *)
(*                                                                         *)
(* A frame is a header of two cells followed by one cell per payload byte; *)
(* a payload cell remembers the index of the mask byte it was masked with. *)
(***************************************************************************)
EXTENDS Integers, Sequences, SequencesExt

CONSTANTS Arrivals,   \* frame sequences the peer may send
          EarlyData,  \* payloads of the early-data header
          MaskLen,    \* length of the masking key (4 in the code)
          MaxWrites   \* bytes the application writes

VARIABLES
    peerFrames,   \* what the peer sends, chosen at the start
    peerEarly,    \* its early data
    truncated,    \* cells cut off the end when the peer disappears
    incoming,     \* cells still in the socket
    input,        \* input[input_offset..]
    early,        \* early_data[early_offset..]
    frame,        \* read_frame: a record, or NoFrame
    fragmented, readClosed, controlPending, closeQueued,
    reading,      \* inside poll_read
    result,       \* of the read half: "open" | "eof" | "error"
    delivered,    \* bytes handed to the application
    buffer,       \* write_buffer[write_offset..]
    wire,         \* cells the socket took
    pending,      \* pending_payload_len: 0 is None
    accepted,     \* bytes poll_write reported as written
    frames        \* history: the frames appended to the buffer

readVars == <<peerFrames, peerEarly, truncated, incoming, input, early, frame, fragmented, readClosed, reading, result, delivered>>
writeVars == <<buffer, wire, pending, accepted, frames, controlPending, closeQueued>>
wvars == <<readVars, writeVars>>

NoFrame == [op |-> "none"]
IsControl(op) == op \in {"close", "ping", "pong"}

Frames == [op : {"continuation", "text", "binary", "close", "ping", "pong"},
           fin : BOOLEAN, masked : BOOLEAN, payload : Seq(Nat)]

(* The cells of a frame. *)
Cells(f) ==
    <<[kind |-> "head", frame |-> f], [kind |-> "len"]>>
      \o [i \in 1..Len(f.payload) |-> [kind |-> "byte", value |-> f.payload[i], key |-> (i - 1) % MaskLen]]

AllCells(fs) == FlattenSeq([i \in 1..Len(fs) |-> Cells(fs[i])])

WsInit ==
    /\ peerFrames \in Arrivals
    /\ truncated \in 0..3 /\ truncated <= Len(AllCells(peerFrames))
    /\ incoming = LET all == AllCells(peerFrames)
                  IN  SubSeq(all, 1, Len(all) - truncated)
    /\ peerEarly \in EarlyData /\ early = peerEarly
    /\ input = << >> /\ frame = NoFrame
    /\ fragmented = FALSE /\ readClosed = FALSE /\ reading = FALSE
    /\ result = "open" /\ delivered = << >>
    /\ buffer = << >> /\ wire = << >> /\ pending = 0 /\ accepted = 0 /\ frames = << >>
    /\ controlPending = FALSE /\ closeQueued = FALSE
-----------------------------------------------------------------------------
(* append_frame: the whole frame goes to the end of the buffer. *)
AppendFrame(f) ==
    /\ buffer' = buffer \o Cells(f)
    /\ frames' = Append(frames, f)

(* poll_flush_output: the socket takes k cells. *)
Flush(k) ==
    /\ k \in 0..Len(buffer)
    /\ wire' = wire \o SubSeq(buffer, 1, k)
    /\ buffer' = SubSeq(buffer, k + 1, Len(buffer))

(* poll_write with a frame on its way: report it once it is written. *)
WritePending ==
    /\ ~reading /\ pending > 0
    /\ \E k \in 0..Len(buffer) :
         /\ Flush(k)
         /\ IF k = Len(buffer)
            THEN pending' = 0 /\ accepted' = accepted + pending
            ELSE UNCHANGED <<pending, accepted>>
    /\ UNCHANGED <<readVars, frames, controlPending, closeQueued>>

Payload(count) == [i \in 1..count |-> accepted + i]

(* Mutant: a frame that is not written at once is appended again by the    *)
(* next poll_write.                                                        *)
WriteForgetful(count) ==
    /\ ~reading /\ pending = 0 /\ accepted + count <= MaxWrites
    /\ \E k \in 0..(Len(buffer) + count + 2) :
         LET f == [op |-> "binary", fin |-> TRUE, masked |-> FALSE, payload |-> Payload(count)]
             all == buffer \o Cells(f)
         IN  /\ wire' = wire \o SubSeq(all, 1, k)
             /\ buffer' = SubSeq(all, k + 1, Len(all))
             /\ frames' = Append(frames, f)
             /\ accepted' = IF k = Len(all) THEN accepted + count ELSE accepted
    /\ UNCHANGED <<readVars, pending, controlPending, closeQueued>>

(* poll_write of new data: what is buffered must be flushed first, then    *)
(* one frame is appended and as much as possible of it written.            *)
Write(count) ==
    /\ ~reading /\ pending = 0 /\ accepted + count <= MaxWrites
    /\ LET f == [op |-> "binary", fin |-> TRUE, masked |-> FALSE, payload |-> Payload(count)]
           all == buffer \o Cells(f)
       IN  \/ /\ \E k \in 0..(Len(buffer) - 1) : Flush(k)
              /\ UNCHANGED <<pending, accepted, frames>>
           \/ \E k \in Len(buffer)..Len(all) :
                /\ wire' = wire \o SubSeq(all, 1, k)
                /\ buffer' = SubSeq(all, k + 1, Len(all))
                /\ frames' = Append(frames, f)
                /\ pending' = IF k = Len(all) THEN 0 ELSE count
                /\ accepted' = IF k = Len(all) THEN accepted + count ELSE accepted
    /\ UNCHANGED <<readVars, controlPending, closeQueued>>

(* poll_flush *)
PollFlush ==
    /\ ~reading /\ buffer # << >>
    /\ \E k \in 1..Len(buffer) : Flush(k)
    /\ UNCHANGED <<readVars, pending, accepted, frames, controlPending, closeQueued>>

(* poll_shutdown: one Close frame, unless a Close was answered already. *)
PollShutdown ==
    /\ ~reading /\ ~closeQueued
    /\ pending = 0 /\ accepted = MaxWrites
    /\ AppendFrame([op |-> "close", fin |-> TRUE, masked |-> FALSE, payload |-> << >>])
    /\ closeQueued' = TRUE
    /\ UNCHANGED <<readVars, wire, pending, accepted, controlPending>>
-----------------------------------------------------------------------------
Return(outcome) == reading' = FALSE /\ result' = outcome

(* poll_read: the early data comes before any frame. *)
ReadEarly ==
    /\ ~reading /\ result = "open" /\ early # << >>
    /\ \E k \in 1..Len(early) :
         /\ delivered' = delivered \o SubSeq(early, 1, k)
         /\ early' = SubSeq(early, k + 1, Len(early))
    /\ UNCHANGED <<peerFrames, peerEarly, truncated, incoming, input, frame, fragmented, readClosed, reading, result, writeVars>>

PollRead ==
    /\ ~reading /\ result = "open" /\ early = << >>
    /\ reading' = TRUE
    /\ UNCHANGED <<peerFrames, peerEarly, truncated, incoming, input, early, frame, fragmented, readClosed, result, delivered, writeVars>>

(* A queued answer is flushed before anything else is read; if the socket  *)
(* takes only a part, poll_read is pending.                                *)
FlushControl ==
    /\ reading /\ controlPending
    /\ \E k \in 0..Len(buffer) :
         /\ Flush(k)
         /\ controlPending' = (k < Len(buffer))
         /\ reading' = (k = Len(buffer))
    /\ UNCHANGED <<peerFrames, peerEarly, truncated, incoming, input, early, frame, fragmented, readClosed, result, delivered,
                   pending, accepted, frames, closeQueued>>

ReadDone ==
    /\ reading /\ ~controlPending /\ readClosed
    /\ Return("eof")
    /\ UNCHANGED <<peerFrames, peerEarly, truncated, incoming, input, early, frame, fragmented, readClosed, delivered, writeVars>>

CanParse == reading /\ ~controlPending /\ ~readClosed

(* The checks of start_frame on a complete header.  A control frame is not *)
(* fragmented; continuation and fragmentation alternate.                   *)
HeaderOk(f) ==
    /\ f.masked                        \* the server side accepts only masked frames
    /\ IsControl(f.op) => f.fin
    /\ f.op = "continuation" => fragmented
    /\ f.op = "binary" => ~fragmented
    /\ f.op # "text"

(* start_frame with the header in the input. *)
StartFrame ==
    /\ CanParse /\ frame = NoFrame /\ Len(input) >= 2
    /\ LET f == input[1].frame
       IN  IF HeaderOk(f)
           THEN /\ frame' = [op |-> f.op, remaining |-> Len(f.payload), maskOffset |-> 0, payload |-> << >>]
                /\ fragmented' = IF IsControl(f.op) THEN fragmented ELSE ~f.fin
                /\ input' = SubSeq(input, 3, Len(input))
                /\ UNCHANGED <<reading, result>>
           ELSE /\ Return("error")
                /\ UNCHANGED <<frame, fragmented, input>>
    /\ UNCHANGED <<peerFrames, peerEarly, truncated, incoming, early, readClosed, delivered, writeVars>>

NeedsInput ==
    CanParse /\ IF frame = NoFrame THEN Len(input) < 2 ELSE frame.remaining > 0 /\ input = << >>

(* poll_fill_input: a chunk of the socket. *)
Fill ==
    /\ NeedsInput /\ incoming # << >>
    /\ \E k \in 1..Len(incoming) :
         /\ input' = input \o SubSeq(incoming, 1, k)
         /\ incoming' = SubSeq(incoming, k + 1, Len(incoming))
    /\ UNCHANGED <<peerFrames, peerEarly, truncated, early, frame, fragmented, readClosed, reading, result, delivered, writeVars>>

(* Nothing to read yet: poll_read is pending and will be polled again. *)
FillPending ==
    /\ NeedsInput /\ incoming # << >>
    /\ reading' = FALSE
    /\ UNCHANGED <<peerFrames, peerEarly, truncated, incoming, input, early, frame, fragmented, readClosed, result, delivered, writeVars>>

(* Mutant: the end of the socket is a clean end wherever it comes. *)
FillEofAlways ==
    /\ NeedsInput /\ incoming = << >>
    /\ readClosed' = TRUE
    /\ Return("eof")
    /\ UNCHANGED <<peerFrames, peerEarly, truncated, incoming, input, early, frame, fragmented, delivered, writeVars>>

(* The socket ends: a clean end between frames, an error inside one. *)
FillEof ==
    /\ NeedsInput /\ incoming = << >>
    /\ \/ /\ frame = NoFrame /\ input = << >>
          /\ readClosed' = TRUE
          /\ Return("eof")
       \/ /\ frame # NoFrame \/ input # << >>
          /\ Return("error")
          /\ UNCHANGED readClosed
    /\ UNCHANGED <<peerFrames, peerEarly, truncated, incoming, input, early, frame, fragmented, delivered, writeVars>>

(* What the key at the current offset makes of a payload cell. *)
Unmask(cell, offset) == IF cell.key = offset % MaskLen THEN cell.value ELSE -1

(* Mutant: the mask starts anew with every chunk. *)
TakeFromZero(k) ==
    /\ CanParse /\ frame # NoFrame
    /\ k \in 1..Len(input) /\ k <= frame.remaining
    /\ LET bytes == [i \in 1..k |-> Unmask(input[i], i - 1)]
       IN  IF IsControl(frame.op)
           THEN /\ frame' = [frame EXCEPT !.remaining = @ - k, !.payload = @ \o bytes]
                /\ UNCHANGED <<delivered, reading>>
           ELSE /\ frame' = [frame EXCEPT !.remaining = @ - k]
                /\ delivered' = delivered \o bytes
                /\ reading' = FALSE
    /\ input' = SubSeq(input, k + 1, Len(input))
    /\ UNCHANGED <<peerFrames, peerEarly, truncated, incoming, early, fragmented, readClosed, result, writeVars>>

(* k bytes of the payload: kept for a control frame, otherwise handed to   *)
(* the application, which ends the poll.                                   *)
Take(k) ==
    /\ CanParse /\ frame # NoFrame
    /\ k \in 1..Len(input) /\ k <= frame.remaining
    /\ LET bytes == [i \in 1..k |-> Unmask(input[i], frame.maskOffset + i - 1)]
       IN  IF IsControl(frame.op)
           THEN /\ frame' = [frame EXCEPT !.remaining = @ - k, !.payload = @ \o bytes,
                                          !.maskOffset = (@ + k) % MaskLen]
                /\ UNCHANGED <<delivered, reading>>
           ELSE /\ frame' = [frame EXCEPT !.remaining = @ - k, !.maskOffset = (@ + k) % MaskLen]
                /\ delivered' = delivered \o bytes
                /\ reading' = FALSE
    /\ input' = SubSeq(input, k + 1, Len(input))
    /\ UNCHANGED <<peerFrames, peerEarly, truncated, incoming, early, fragmented, readClosed, result, writeVars>>

(* finish_read_frame: Close is answered and ends the reads, Ping is        *)
(* answered with its payload.                                              *)
FinishFrame ==
    /\ CanParse /\ frame # NoFrame /\ frame.remaining = 0
    /\ frame' = NoFrame
    /\ CASE frame.op = "close" ->
              /\ AppendFrame([op |-> "close", fin |-> TRUE, masked |-> FALSE, payload |-> frame.payload])
              /\ controlPending' = TRUE /\ closeQueued' = TRUE /\ readClosed' = TRUE
         [] frame.op = "ping" ->
              /\ AppendFrame([op |-> "pong", fin |-> TRUE, masked |-> FALSE, payload |-> frame.payload])
              /\ controlPending' = TRUE
              /\ UNCHANGED <<closeQueued, readClosed>>
         [] OTHER -> UNCHANGED <<buffer, frames, controlPending, closeQueued, readClosed>>
    /\ UNCHANGED <<peerFrames, peerEarly, truncated, incoming, input, early, fragmented, reading, result, delivered,
                   wire, pending, accepted>>

ReadStep ==
    \/ ReadEarly \/ PollRead \/ FlushControl \/ ReadDone \/ StartFrame \/ Fill \/ FillPending
    \/ FillEof \/ FinishFrame
    \/ \E k \in 1..Len(input) : Take(k)

WriteStep ==
    \/ WritePending \/ PollFlush \/ PollShutdown
    \/ \E count \in 1..2 : Write(count)

(* Both halves are done. *)
Finished == result # "open" /\ closeQueued /\ buffer = << >> /\ UNCHANGED wvars

WsNext == ReadStep \/ WriteStep \/ Finished
-----------------------------------------------------------------------------
\* The bytes the data frames carry.
DataIn(f) == IF IsControl(f.op) THEN << >> ELSE f.payload
DataOf(fs) == FlattenSeq([i \in 1..Len(fs) |-> DataIn(fs[i])])

\* The first n frames of the peer; and none of the first m is a Close.
First(n) == SubSeq(peerFrames, 1, n)
OpenFor(m) == \A i \in 1..m : peerFrames[i].op # "close"

(* What the application reads is what the peer wrote before its Close, in  *)
(* order and without gap, whatever chunks the socket made of it; and the   *)
(* stream is reported as ended only when all of it was there: a connection *)
(* that is cut inside a frame is an error.                                 *)
ReadIntact ==
    /\ \E n \in 0..Len(peerFrames) :
          OpenFor(n) /\ IsPrefix(delivered, peerEarly \o DataOf(First(n)))
    /\ result = "eof" =>
         \E n \in 0..Len(peerFrames) :
            /\ OpenFor(n - 1)
            /\ delivered = peerEarly \o DataOf(First(n))
            /\ \/ Len(AllCells(First(n))) = Len(AllCells(peerFrames)) - truncated
               \/ n > 0 /\ peerFrames[n].op = "close"

(* What goes out is whole frames one after the other, never one inside     *)
(* another; the data frames carry the application's bytes once each and in *)
(* order; a write is reported only when its frame is out.                  *)
WriteIntact ==
    /\ wire \o buffer = AllCells(frames)
    /\ DataOf(frames) = [i \in 1..(accepted + pending) |-> i]
    /\ \E n \in 0..Len(frames) :
         LET out == SubSeq(frames, 1, n)
         IN  Len(AllCells(out)) <= Len(wire) /\ Len(DataOf(out)) >= accepted
=============================================================================
