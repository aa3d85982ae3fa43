----------------------------- MODULE WireCodecs -----------------------------
(***************************************************************************)
(* What the program puts on a wire and how it reads it back: addresses in  *)
(* four protocols, AnyTLS frames cut up and padded by a scheme, base64 and *)
(* hexadecimal text, the varint of binary rule-sets, compressed DNS names, *)
(* Cloudflare's datagram registration and the frame of a connect request.  *)
(* Where the other side is not this program, its encoder is modelled from  *)
(* what the reader expects.                                                *)
(*                                                                         *)
(* A wire is a sequence of small numbers.  Fields the properties do not    *)
(* tell apart are one cell wide, and every limit is a constant.            *)
(***************************************************************************)
EXTENDS Integers, Sequences, SequencesExt, FiniteSetsExt

CONSTANTS MaxName,      \* u8::MAX, the longest name an address can carry
          MaxFrame,     \* MAX_FRAME_SIZE of AnyTLS
          MaxJumps,     \* labels and pointers of a DNS name, 128 in the code
          MaxSegments, MaxMessage  \* limits of a connect request

Broken == [ok |-> FALSE]
Decoded(value, rest) == [ok |-> TRUE, value |-> value, rest |-> rest]

From(cells, k) == SubSeq(cells, k, Len(cells))
-----------------------------------------------------------------------------
(* Addresses.  The kinds are numbered differently in SOCKS and AnyTLS, in  *)
(* UDP over TCP, and in VLESS, which has the port in front.                *)
Ip4Length == 1
Ip6Length == 2

Codecs == {"socks", "uot", "vless"}

KindOf(codec, family) ==
    CASE codec = "socks" -> (CASE family = "ipv4" -> 1 [] family = "domain" -> 3 [] family = "ipv6" -> 4)
      [] codec = "uot"   -> (CASE family = "ipv4" -> 0 [] family = "domain" -> 2 [] family = "ipv6" -> 1)
      [] codec = "vless" -> (CASE family = "ipv4" -> 1 [] family = "domain" -> 2 [] family = "ipv6" -> 3)

(* encode_address, encode_socks_address, write_uot_address,                *)
(* encode_vless_request                                                    *)
CanEncode(address) == address.family = "domain" => Len(address.host) <= MaxName

EncodeAddress(codec, address) ==
    LET host == (IF address.family = "domain" THEN <<Len(address.host)>> ELSE << >>) \o address.host
        kind == <<KindOf(codec, address.family)>>
        port == <<address.port>>
    IN  IF codec = "vless" THEN port \o kind \o host ELSE kind \o host \o port

(* read_address and decode_address, read_socks_address, read_uot_address,  *)
(* read_vless_request.  Mutant: UDP over TCP numbered as SOCKS is.         *)
FamilySocks(codec, kind) ==
    LET families == {f \in {"ipv4", "ipv6", "domain"} : KindOf("socks", f) = kind} IN
    IF families = {} THEN "none" ELSE CHOOSE f \in families : TRUE

FamilyOf(codec, kind) ==
    LET families == {f \in {"ipv4", "ipv6", "domain"} : KindOf(codec, f) = kind} IN
    IF families = {} THEN "none" ELSE CHOOSE f \in families : TRUE

DecodeAddress(codec, cells) ==
    LET first == IF codec = "vless" THEN 2 ELSE 1
        family == IF Len(cells) < first THEN "none" ELSE FamilyOf(codec, cells[first])
        start == first + (IF family = "domain" THEN 2 ELSE 1)
        length == CASE family = "ipv4" -> Ip4Length
                    [] family = "ipv6" -> Ip6Length
                    [] OTHER -> IF Len(cells) > first THEN cells[first + 1] ELSE 0
        end == start + length
        last == IF codec = "vless" THEN end - 1 ELSE end
    IN  IF family = "none" \/ Len(cells) < last \/ Len(cells) < start - 1 THEN Broken
        ELSE Decoded([family |-> family, host |-> SubSeq(cells, start, end - 1),
                      port |-> IF codec = "vless" THEN cells[1] ELSE cells[end]],
                     From(cells, last + 1))
-----------------------------------------------------------------------------
(* AnyTLS frames: command, stream, length, data. *)
Waste == 0
HeaderSize == 3

EncodeFrame(frame) == <<frame.command, frame.stream, Len(frame.data)>> \o frame.data

ReadFrame(cells) ==
    IF Len(cells) < HeaderSize \/ Len(cells) < HeaderSize + cells[3] THEN Broken
    ELSE Decoded([command |-> cells[1], stream |-> cells[2],
                  data |-> SubSeq(cells, HeaderSize + 1, HeaderSize + cells[3])],
                 From(cells, HeaderSize + cells[3] + 1))

(* append_waste *)
Lesser(a, b) == IF a < b THEN a ELSE b

RECURSIVE AppendWaste(_, _)
AppendWaste(record, target) ==
    IF Len(record) + HeaderSize > target THEN record
    ELSE LET length == Lesser(target - Len(record) - HeaderSize, MaxFrame)
         IN  AppendWaste(record \o EncodeFrame([command |-> Waste, stream |-> 0,
                                                data |-> [i \in 1 .. length |-> 0]]), target)

(* random_range *)
RandomRange(min, max) == IF min >= max THEN {min} ELSE min .. max - 1

(* write_padded_frame from one instruction on: a check stops when the      *)
(* frame is out, a range takes as much of the frame as fits and fills up.  *)
(* Mutant: a check stops in any case.                                      *)
CheckStopsAlways(offset, packet) == TRUE

CheckStops(offset, packet) == offset = Len(packet)

RECURSIVE Written(_, _, _)
Written(instructions, packet, offset) ==
    IF instructions = << >> THEN {From(packet, offset + 1)}
    ELSE LET first == Head(instructions) IN
         IF first.check
         THEN IF CheckStops(offset, packet) THEN {<< >>} ELSE Written(Tail(instructions), packet, offset)
         ELSE UNION {LET take == Lesser(Len(packet) - offset, target)
                         record == AppendWaste(SubSeq(packet, offset + 1, offset + take), target)
                     IN  {record \o rest : rest \in Written(Tail(instructions), packet, offset + take)}
                     : target \in RandomRange(first.min, first.max)}

(* PaddingScheme::parse accepts these; packets from stop on are plain.     *)
SchemeOk(scheme) ==
    /\ scheme.stop > 0
    /\ \A k \in DOMAIN scheme.rules :
         /\ scheme.rules[k] # << >>
         /\ \A i \in 1 .. Len(scheme.rules[k]) :
              scheme.rules[k][i].check \/ scheme.rules[k][i].min <= scheme.rules[k][i].max

WritePaddedFrame(scheme, index, frame) ==
    IF index < scheme.stop /\ index \in DOMAIN scheme.rules
    THEN Written(scheme.rules[index], EncodeFrame(frame), 0)
    ELSE {EncodeFrame(frame)}

(* frame_writer: the frames of a session, packet_index counting from 1.    *)
RECURSIVE WrittenFrames(_, _, _)
WrittenFrames(scheme, index, frames) ==
    IF frames = << >> THEN {<< >>}
    ELSE {a \o b : a \in WritePaddedFrame(scheme, index, Head(frames)),
                   b \in WrittenFrames(scheme, index + 1, Tail(frames))}

(* The reader's loop, which passes over waste. *)
RECURSIVE ReadFrames(_)
ReadFrames(cells) ==
    IF cells = << >> THEN Decoded(<< >>, << >>)
    ELSE LET first == ReadFrame(cells) IN
         IF ~first.ok THEN Broken
         ELSE LET more == ReadFrames(first.rest) IN
              IF ~more.ok THEN Broken
              ELSE Decoded((IF first.value.command = Waste THEN << >> ELSE <<first.value>>) \o more.value, << >>)
-----------------------------------------------------------------------------
(* encode_base64_url and decode_base64_url: digits for characters.         *)
RECURSIVE EncodeBase64(_)
EncodeBase64(bytes) ==
    LET b == bytes \o <<0, 0>>
        first == b[1] \div 4
        second == (b[1] % 4) * 16 + b[2] \div 16
        third == (b[2] % 16) * 4 + b[3] \div 64
    IN  CASE Len(bytes) = 0 -> << >>
          [] Len(bytes) = 1 -> <<first, second>>
          [] Len(bytes) = 2 -> <<first, second, third>>
          [] OTHER -> <<first, second, third, b[3] % 64>> \o EncodeBase64(From(bytes, 4))

(* Mutant: the bits already given out stay in the buffer. *)
KeepBitsAll(buffer, bits) == buffer

KeepBits(buffer, bits) == buffer % 2 ^ bits

RECURSIVE DecodeDigits(_, _, _)
DecodeDigits(digits, buffer, bits) ==
    IF digits = << >> THEN [bytes |-> << >>, bits |-> bits]
    ELSE LET filled == buffer * 64 + Head(digits) IN
         IF bits + 6 < 8 THEN DecodeDigits(Tail(digits), filled, bits + 6)
         ELSE LET left == bits - 2
                  more == DecodeDigits(Tail(digits), KeepBits(filled, left), left)
              IN  [more EXCEPT !.bytes = <<(filled \div 2 ^ left) % 256>> \o @]

(* The VLESS early data refuses a lone digit at the end. *)
DecodeBase64(digits) ==
    LET decoded == DecodeDigits(digits, 0, 0) IN
    IF decoded.bits < 6 THEN Decoded(decoded.bytes, << >>) ELSE Broken

(* parse_uuid, parse_short_id: dashes are passed over in the one, and a    *)
(* lone last digit is a byte of its own in the other.                      *)
Dash == -1

ParseUuid(text, size) ==
    LET digits == SelectSeq(text, LAMBDA c : c # Dash) IN
    IF Len(digits) # 2 * size THEN Broken
    ELSE Decoded([i \in 1 .. size |-> digits[2 * i - 1] * 16 + digits[2 * i]], << >>)

ParseShortId(text, size) ==
    IF text = << >> \/ Len(text) > 2 * size THEN Broken
    ELSE Decoded([i \in 1 .. size |->
                    IF Len(text) >= 2 * i THEN text[2 * i - 1] * 16 + text[2 * i]
                    ELSE IF Len(text) = 2 * i - 1 THEN text[2 * i - 1] ELSE 0], << >>)
-----------------------------------------------------------------------------
(* read_uvarint, with two bits to a byte and numbers of five bits (seven   *)
(* and 64 in the code): the last byte has room for one bit.                *)
Group == 4
Shifts == {0, 2, 4}
TopNumber == 31

(* Mutant: the last byte may carry more. *)
FitsAlways(shift, byte) == TRUE

Fits(shift, byte) == shift = 4 => byte <= 1

RECURSIVE ReadUvarint(_, _)
ReadUvarint(bytes, shift) ==
    IF shift \notin Shifts \/ bytes = << >> THEN Broken
    ELSE IF ~Fits(shift, Head(bytes)) THEN Broken
    ELSE LET part == (Head(bytes) % Group) * 2 ^ shift IN
         IF Head(bytes) < Group THEN Decoded(part, Tail(bytes))
         ELSE LET more == ReadUvarint(Tail(bytes), shift + 2) IN
              IF more.ok THEN [more EXCEPT !.value = @ + part] ELSE Broken
-----------------------------------------------------------------------------
(* read_dns_name: labels, the end, or a pointer back into the packet.      *)
(* Offsets count from 0.  rest is the offset after the name.               *)
Pointer == 100

RECURSIVE ReadLabels(_, _, _)
ReadLabels(packet, cursor, left) ==
    IF left = 0 \/ cursor >= Len(packet) THEN Broken
    ELSE LET length == packet[cursor + 1] IN
         IF length = Pointer
         THEN IF cursor + 1 >= Len(packet) \/ packet[cursor + 2] >= Len(packet) THEN Broken
              ELSE LET there == ReadLabels(packet, packet[cursor + 2], left - 1) IN
                   IF there.ok THEN [there EXCEPT !.rest = cursor + 2] ELSE Broken
         ELSE IF length = 0 THEN Decoded(<< >>, cursor + 1)
         ELSE IF cursor + 1 + length > Len(packet) THEN Broken
         ELSE LET more == ReadLabels(packet, cursor + 1 + length, left - 1)
                  label == SubSeq(packet, cursor + 2, cursor + 1 + length)
              IN  IF more.ok THEN [more EXCEPT !.value = <<label>> \o @] ELSE Broken

ReadDnsName(packet, offset) == ReadLabels(packet, offset, MaxJumps)

(* build_dns_query's question. *)
EncodeName(labels) ==
    FlattenSeq([i \in 1 .. Len(labels) |-> <<Len(labels[i])>> \o labels[i]]) \o <<0>>
-----------------------------------------------------------------------------
(* parse_registration: flags, port, idle, request, address, payload.       *)
DefaultIdle == 9

ParseRegistration(data) ==
    LET length == IF data[1].ipv6 THEN Ip6Length ELSE Ip4Length IN
    IF Len(data) < 4 + length THEN Broken
    ELSE Decoded([request |-> data[4], port |-> data[2],
                  idle |-> IF data[3] = 0 THEN DefaultIdle ELSE data[3],
                  host |-> SubSeq(data, 5, 4 + length),
                  payload |-> IF data[1].bundle THEN From(data, 5 + length) ELSE << >>], << >>)
-----------------------------------------------------------------------------
(* read_connect_frame: the table of segment sizes is filled up to a whole  *)
(* word (two cells), and a segment of n words is 2n cells.  Mutant: the    *)
(* table is not filled up.                                                 *)
TableSizeTight(segments) == segments + 1

TableSize(segments) == segments + 1 + ((segments + 1) % 2)

Total(numbers) == FoldLeft(LAMBDA a, b : a + b, 0, numbers)

ReadConnectFrame(cells) ==
    LET segments == cells[1] + 1
        table == TableSize(segments)
        body == 2 * Total(SubSeq(cells, 2, segments + 1))
    IN  IF segments > MaxSegments \/ Len(cells) < table THEN Broken
        ELSE IF body > MaxMessage \/ Len(cells) < table + body THEN Broken
        ELSE Decoded(SubSeq(cells, 1, table + body), From(cells, table + body + 1))
-----------------------------------------------------------------------------
(* The inputs tried with WireCodecs, the encoders of the other side, and   *)
(* what a round trip has to give back.                                     *)

Addresses ==
    [family : {"ipv4"}, host : {<<1>>, <<3>>}, port : {0, 3}]
    \cup [family : {"ipv6"}, host : {<<1, 3>>, <<0, 0>>}, port : {0, 2}]
    \cup [family : {"domain"}, host : UNION {[1 .. n -> {1, 3}] : n \in 1 .. MaxName + 1}, port : {1}]

(* An address comes back from the wire as it went in, with the cells after *)
(* it untouched, and never out of a part of it.                            *)
AddressAgrees(codec, address, tail) ==
    LET wire == EncodeAddress(codec, address) IN
    CanEncode(address) =>
        /\ DecodeAddress(codec, wire \o tail) = Decoded(address, tail)
        /\ \A n \in 0 .. Len(wire) - 1 : ~DecodeAddress(codec, SubSeq(wire, 1, n)).ok

Check == [check |-> TRUE]
Between(min, max) == [check |-> FALSE, min |-> min, max |-> max]
Instructions == {Check, Between(0, 0), Between(2, 5), Between(3, 3), Between(10, 12)}
Schemes ==
    {[stop |-> s, rules |-> (1 :> r)] : s \in {1, 3}, r \in UNION {[1 .. n -> Instructions] : n \in 1 .. 3}}
    \cup {[stop |-> 3, rules |-> (1 :> <<a, b>> @@ 2 :> <<b, Check>>)] : a, b \in Instructions}
Frames == {[command |-> 2, stream |-> 1, data |-> d] : d \in {<< >>, <<7>>, <<7, 8, 9>>}}

(* Whatever lengths the scheme draws, the reader sees the frames that were *)
(* written, in order, between whole frames of waste.                       *)
PaddingAgrees(scheme, frames) ==
    SchemeOk(scheme) =>
        \A wire \in WrittenFrames(scheme, 1, frames) : ReadFrames(wire) = Decoded(frames, << >>)

Bytes == {0, 1, 63, 255}
Texts == UNION {[1 .. n -> Bytes] : n \in 0 .. 4}

Base64Agrees(bytes) == DecodeBase64(EncodeBase64(bytes)) = Decoded(bytes, << >>)

Hex(bytes) == FlattenSeq([i \in 1 .. Len(bytes) |-> <<bytes[i] \div 16, bytes[i] % 16>>])

HexAgrees(bytes) ==
    LET text == Hex(bytes)
        dashed == FlattenSeq([i \in 1 .. Len(text) |-> <<text[i], Dash>>])
    IN  /\ ParseUuid(dashed, Len(bytes)) = Decoded(bytes, << >>)
        /\ bytes # << >> => ParseShortId(text, Len(bytes) + 1) = Decoded(Append(bytes, 0), << >>)
        /\ bytes # << >> /\ Head(bytes) < 16 => ParseShortId(Tail(text), Len(bytes)).ok

(* push_uvarint *)
RECURSIVE PushUvarint(_)
PushUvarint(n) == IF n < Group THEN <<n>> ELSE <<Group + (n % Group)>> \o PushUvarint(n \div Group)

(* Every number comes back, and no bytes give a number that is too large.  *)
UvarintAgrees(bytes) ==
    LET read == ReadUvarint(bytes, 0) IN
    /\ \A n \in 0 .. TopNumber : ReadUvarint(PushUvarint(n) \o bytes, 0) = Decoded(n, bytes)
    /\ read.ok => read.value \in 0 .. TopNumber

(* A nameserver that points at an earlier spelling of the same ending. *)
RECURSIVE Compressed(_, _, _)
Compressed(packet, labels, seen) ==
    IF labels = << >> THEN packet \o <<0>>
    ELSE IF labels \in DOMAIN seen THEN packet \o <<Pointer, seen[labels]>>
    ELSE Compressed(packet \o <<Len(labels[1])>> \o labels[1], Tail(labels), seen)

EndingsAt(labels, offset) ==
    [e \in {From(labels, k) : k \in 1 .. Len(labels)} |->
        offset + Len(EncodeName(labels)) - Len(EncodeName(e))]

Names == UNION {[1 .. n -> {<<1>>, <<2, 3>>}] : n \in 1 .. 3}

(* Two names in a row, the second compressed, are read back with the       *)
(* offsets after them; a pointer to itself is an error.                    *)
NameAgrees(first, second) ==
    LET one == EncodeName(first)
        packet == Compressed(one, second, EndingsAt(first, 0))
    IN  /\ ReadDnsName(packet, 0) = Decoded(first, Len(one))
        /\ ReadDnsName(packet, Len(one)) = Decoded(second, Len(packet))
        /\ ~ReadDnsName(packet \o <<Pointer, Len(packet)>>, Len(packet)).ok

RegistrationAgrees(flags, port, idle, payload) ==
    LET host == IF flags.ipv6 THEN [i \in 1 .. Ip6Length |-> 5] ELSE [i \in 1 .. Ip4Length |-> 5]
        data == <<flags, port, idle, 6>> \o host \o payload
    IN  ParseRegistration(data)
        = Decoded([request |-> 6, port |-> port, idle |-> IF idle = 0 THEN DefaultIdle ELSE idle,
                   host |-> host, payload |-> IF flags.bundle THEN payload ELSE << >>], << >>)

(* serialize::write_message *)
Message(sizes) ==
    LET table == <<Len(sizes) - 1>> \o sizes
    IN  table \o (IF Len(table) % 2 = 1 THEN <<0>> ELSE << >>)
        \o FlattenSeq([i \in 1 .. Len(sizes) |-> [k \in 1 .. 2 * sizes[i] |-> 10 + i]])

(* A connect request ends where its sender ended it: what follows on the   *)
(* stream is the payload.                                                  *)
MessageAgrees(sizes, payload) ==
    LET wire == Message(sizes)
        fits == Len(sizes) <= MaxSegments /\ 2 * Total(sizes) <= MaxMessage
    IN  ReadConnectFrame(wire \o payload) = IF fits THEN Decoded(wire, payload) ELSE Broken

CodecCases ==
    [codec : {"address"}, on : Codecs, address : Addresses, tail : {<< >>, <<2, 2>>}]
    \cup [codec : {"padding"}, scheme : Schemes, frames : {<<a, b>> : a, b \in Frames}]
    \cup [codec : {"text"}, bytes : Texts]
    \cup [codec : {"varint"}, bytes : UNION {[1 .. n -> 0 .. 7] : n \in 0 .. 3}]
    \cup [codec : {"name"}, first : Names, second : Names]
    \cup [codec : {"registration"}, flags : [ipv6 : BOOLEAN, bundle : BOOLEAN],
          port : {0, 7}, idle : {0, 1}, payload : {<< >>, <<8, 8>>}]
    \cup [codec : {"message"}, sizes : UNION {[1 .. n -> 0 .. 2] : n \in 1 .. MaxSegments + 1},
          payload : {<< >>, <<8>>}]

(* What one side writes the other reads, and nothing else: see the         *)
(* properties above, of SOCKS, AnyTLS, UDP over TCP, VLESS, Reality, the   *)
(* binary rule-set, DNS and Cloudflare.                                    *)
CodecsAgree(case) ==
    CASE case.codec = "address" -> AddressAgrees(case.on, case.address, case.tail)
      [] case.codec = "padding" -> PaddingAgrees(case.scheme, case.frames)
      [] case.codec = "text"    -> Base64Agrees(case.bytes) /\ HexAgrees(case.bytes)
      [] case.codec = "varint"  -> UvarintAgrees(case.bytes)
      [] case.codec = "name"    -> NameAgrees(case.first, case.second)
      [] case.codec = "registration" ->
            RegistrationAgrees(case.flags, case.port, case.idle, case.payload)
      [] case.codec = "message" -> MessageAgrees(case.sizes, case.payload)
=============================================================================
