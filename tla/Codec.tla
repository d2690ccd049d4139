------------------------------- MODULE Codec --------------------------------
(***************************************************************************)
(* Framing of messages on a stream: protocol/codec.rs, the `Messages` of   *)
(* sync/wire.rs and the `Wire` of sync/transfer.rs.                        *)
(*                                                                         *)
(* A sender encodes messages one after the other; the stream delivers the  *)
(* bytes in pieces of any size, and the reader puts the frames together    *)
(* again.  A byte holds Radix values and a continuation bit, so a byte of  *)
(* the program is Radix = 128; widths are parameters because only their    *)
(* boundaries matter.                                                      *)
(*                                                                         *)
(* What a reading operator returns is the set of its results: empty after  *)
(* an error, one pair of value and remaining bytes otherwise.              *)
(***************************************************************************)
EXTENDS Integers, SequencesExt

CONSTANTS
    Radix,          \* values of a varint group (128)
    MaxVarint,      \* MAX_VARINT_BYTES (10)
    LastGroup,      \* largest value of the last group of a u64 (1)
    FixedBytes,     \* width of ids, modes, times, sizes and digests
    MaxFrame,       \* max_frame_bytes
    MaxPath,        \* max_path_bytes
    MaxComponents,  \* max_components
    BufferSize,     \* bytes asked of the stream at once
    MaxSent,        \* bound: messages a sender puts on the stream
    Messages,       \* messages to send, by kind of stream
    RawStreams      \* bytes that encode did not write, by kind of stream

KindBytes == 1
VersionBytes == 2
CURRENT_VERSION == <<1, 0>>

Byte == 0..(2 * Radix - 1)

\* The largest number of n groups before a last one; a u64 has MaxVarint groups.
MaxNumber[n \in Nat] ==
    IF n = 0 THEN LastGroup ELSE (Radix - 1) + Radix * MaxNumber[n - 1]

u64_MAX == MaxNumber[MaxVarint - 1]

\* A byte holds every kind and every tag, and limits are numbers of the program.
ASSUME CodecAssumption ==
    /\ Radix \in Nat /\ Radix >= 8
    /\ MaxVarint \in Nat /\ MaxVarint > 0
    /\ LastGroup \in 0..(Radix - 1)
    /\ MaxFrame <= u64_MAX /\ MaxComponents <= u64_MAX
    /\ FixedBytes \in Nat
    /\ MaxFrame \in Nat /\ MaxFrame >= KindBytes + VersionBytes
    /\ MaxPath \in 1..MaxFrame
    /\ MaxComponents \in Nat /\ MaxComponents > 0
    /\ BufferSize \in Nat /\ BufferSize > 0
    /\ MaxSent \in Nat

-----------------------------------------------------------------------------
(***************************************************************************)
(* Varints: little end first, every group but the last with the            *)
(* continuation bit.                                                       *)
(***************************************************************************)
put_varint[value \in Nat] ==
    IF value < Radix THEN <<value>>
    ELSE <<Radix + (value % Radix)>> \o put_varint[value \div Radix]

VarintValue(groups) ==
    FoldRight(LAMBDA group, rest : (group % Radix) + Radix * rest, groups, 0)

Ends(input) ==
    {n \in 1..Len(input) : n <= MaxVarint /\ input[n] < Radix}

\* Mutant: a varint padded with zero groups is accepted.
parse_padded(input) ==
    {[value |-> VarintValue(SubSeq(input, 1, n)), rest |-> SubSeq(input, n + 1, Len(input))] :
        n \in {i \in Ends(input) :
                 /\ \A j \in Ends(input) : i <= j
                 /\ ~(i = MaxVarint /\ input[i] > LastGroup)}}

\* The first end, unless it overflows or is a zero group that could be left out.
parse_varint(input) ==
    {[value |-> VarintValue(SubSeq(input, 1, n)), rest |-> SubSeq(input, n + 1, Len(input))] :
        n \in {i \in Ends(input) :
                 /\ \A j \in Ends(input) : i <= j
                 /\ ~(i = MaxVarint /\ input[i] > LastGroup)
                 /\ ~(i > 1 /\ input[i] = 0)}}

-----------------------------------------------------------------------------
(***************************************************************************)
(* Fields.                                                                 *)
(***************************************************************************)
take(length, input) ==
    IF length > Len(input) THEN {}
    ELSE {[value |-> SubSeq(input, 1, length),
           rest  |-> SubSeq(input, length + 1, Len(input))]}

bounded_length(maximum, input) ==
    {length \in parse_varint(input) : length.value <= maximum}

read_bytes(maximum, input) ==
    UNION {take(length.value, length.rest) : length \in bounded_length(maximum, input)}

read_tag(tags, input) == {byte \in take(1, input) : byte.value[1] \in tags}

write_bytes(value) == put_varint[Len(value)] \o value

PathBytes(path) == Len(FlattenSeq(path))

\* RelativePath::new; NUL stands for every byte a component may not hold.
IsRelativePath(path) ==
    /\ path # <<>>
    /\ \A i \in DOMAIN path : path[i] # <<>> /\ 0 \notin Range(path[i])

\* The components read so far bound the next one.
read_components(count, input) ==
    LET after[n \in 0..count] ==
          IF n = 0 THEN {[value |-> <<>>, rest |-> input]}
          ELSE UNION {{[value |-> Append(path.value, next.value), rest |-> next.rest] :
                         next \in read_bytes(MaxPath - PathBytes(path.value), path.rest)} :
                      path \in after[n - 1]}
    IN  after[count]

read_path(input) ==
    {path \in UNION {read_components(count.value, count.rest) :
                       count \in bounded_length(MaxComponents, input)} :
       IsRelativePath(path.value)}

write_path(path) ==
    put_varint[Len(path)] \o FlattenSeq([i \in DOMAIN path |-> write_bytes(path[i])])

PathFits(path) == Len(path) <= MaxComponents /\ PathBytes(path) <= MaxPath

Tags ==
    [entry |-> 1..3, upsert |-> {1, 2, 3, 5}, delete |-> {4}, phase |-> 1..9, code |-> 1..9]

read_plain(field, input) ==
    CASE field = "fixed" -> take(FixedBytes, input)
      [] field = "bytes" -> read_bytes(MaxFrame, input)
      [] field = "path"  -> read_path(input)
      [] OTHER           -> read_tag(Tags[field], input)

\* An optional field is a sequence of at most one value.
read_field(field, input) ==
    IF ~field.optional THEN read_plain(field.type, input)
    ELSE UNION {IF tag.value = <<0>> THEN {[value |-> <<>>, rest |-> tag.rest]}
                ELSE {[value |-> <<some.value>>, rest |-> some.rest] :
                        some \in read_plain(field.type, tag.rest)} :
                tag \in read_tag({0, 1}, input)}

write_plain(type, value) ==
    CASE type = "bytes" -> write_bytes(value)
      [] type = "path"  -> write_path(value)
      [] OTHER          -> value

write_field(field, value) ==
    IF ~field.optional THEN write_plain(field.type, value)
    ELSE IF value = <<>> THEN <<0>> ELSE <<1>> \o write_plain(field.type, value[1])

FieldFits(field, value) ==
    field.type = "path" =>
        IF field.optional THEN \A i \in DOMAIN value : PathFits(value[i])
        ELSE PathFits(value)

-----------------------------------------------------------------------------
(***************************************************************************)
(* Messages: their kinds and fields (the WireMessage implementations).     *)
(* Adjacent fields of fixed width are one field, and a tag is one byte.    *)
(***************************************************************************)
Field(type) == [type |-> type, optional |-> FALSE]
Maybe(type) == [type |-> type, optional |-> TRUE]

RecordFields ==
    <<Field("path"), Field("entry"), Field("fixed"), Maybe("fixed"), Maybe("bytes")>>

OperationFields ==
    {<<Field("upsert"), Field("fixed")>> \o RecordFields,
     <<Field("delete"), Field("fixed"), Field("path"), Field("entry")>>}

FailureFields ==
    <<Field("code"), Field("bytes"), Field("phase"), Maybe("fixed"), Maybe("path")>>

RequestFields == <<Field("fixed"), Field("path")>>

\* The layouts of a kind; an unknown kind has none.
ControlFields(kind) ==
    CASE kind = 3             -> {<<Field("bytes")>>}
      [] kind \in {7, 11, 13} -> {<<>>}
      [] kind = 10            -> OperationFields
      [] kind = 15            -> {FailureFields}
      [] OTHER                -> {}

IndexFields(kind) ==
    CASE kind = 1 -> {RecordFields}
      [] kind = 2 -> {<<>>}
      [] OTHER    -> {}

TransferFields(kind) ==
    CASE kind \in {1, 7}    -> {RequestFields}
      [] kind \in {2, 4, 8} -> {<<Field("bytes")>>}
      [] kind \in {3, 5}    -> {<<>>}
      [] kind = 6           -> {<<Field("fixed")>>}
      [] OTHER              -> {}

Fields(stream, kind) ==
    CASE stream = "control" -> ControlFields(kind)
      [] stream = "index"   -> IndexFields(kind)
      [] OTHER              -> TransferFields(kind)

read_fields(layout, input) ==
    LET after[n \in 0..Len(layout)] ==
          IF n = 0 THEN {[value |-> <<>>, rest |-> input]}
          ELSE UNION {{[value |-> Append(read.value, next.value), rest |-> next.rest] :
                         next \in read_field(layout[n], read.rest)} :
                      read \in after[n - 1]}
    IN  after[Len(layout)]

decode_payload(stream, payload) ==
    UNION {{[kind |-> payload[1], layout |-> layout, fields |-> read.value] :
              read \in {r \in read_fields(layout, SubSeq(payload, 4, Len(payload))) :
                          r.rest = <<>>}} :
           layout \in IF SubSeq(payload, 2, 3) = CURRENT_VERSION
                      THEN Fields(stream, payload[1]) ELSE {}}

encode_fields(message) ==
    FlattenSeq([i \in DOMAIN message.fields |->
                  write_field(message.layout[i], message.fields[i])])

Payload(message) == <<message.kind>> \o CURRENT_VERSION \o encode_fields(message)

encode(message) == write_bytes(Payload(message))

\* The writer's limits on paths and encode's on the payload.
Encodes(message) ==
    /\ \A i \in DOMAIN message.fields : FieldFits(message.layout[i], message.fields[i])
    /\ Len(Payload(message)) <= MaxFrame

check_frame_length(declared) == declared \in (KindBytes + VersionBytes)..MaxFrame

\* What the types of the messages say of their fields.
IsPlain(type, value) ==
    CASE type = "fixed" -> value \in [1..FixedBytes -> Byte]
      [] type = "bytes" -> value \in Seq(Byte)
      [] type = "path"  -> value \in Seq(Seq(Byte)) /\ IsRelativePath(value)
      [] OTHER          -> value \in [1..1 -> Tags[type]]

IsField(field, value) ==
    IF ~field.optional THEN IsPlain(field.type, value)
    ELSE value = <<>> \/ (value = <<value[1]>> /\ IsPlain(field.type, value[1]))

IsMessage(on, message) ==
    /\ message = [kind   |-> message.kind,
                  layout |-> message.layout,
                  fields |-> [i \in DOMAIN message.layout |-> message.fields[i]]]
    /\ message.layout \in Fields(on, message.kind)
    /\ \A i \in DOMAIN message.layout : IsField(message.layout[i], message.fields[i])

ASSUME MessagesAssumption ==
    \A on \in {"control", "index", "transfer"} :
        /\ \A message \in Messages[on] : IsMessage(on, message)
        /\ RawStreams[on] \subseteq Seq(Byte)

-----------------------------------------------------------------------------
(***************************************************************************)
(* The stream and its reader.                                              *)
(***************************************************************************)
VARIABLES
    stream,     \* "control", "index" or "transfer"
    origin,     \* "encoder", or "other" for bytes that encode did not write
    sent,       \* messages sent, in order
    sender,     \* "open", "finished" or "failed"
    written,    \* bytes put on the stream, in order
    wire,       \* those still on their way
    input,      \* what push has not looked at yet
    header,     \* Decoder::header[..header_len]
    expected,   \* Decoder::expected; -1 is None
    payload,    \* Decoder::payload
    decoded,    \* messages decoded by the running push
    pending,    \* Messages::pending
    got,        \* messages handed to the caller
    reader      \* "reading", "closed" or "refused"

decoder == <<header, expected, payload>>
outgoing == <<origin, sent, sender, written>>
vars == <<stream, outgoing, wire, input, decoder, decoded, pending, got, reader>>

None == -1

Init ==
    /\ stream \in {"control", "index", "transfer"}
    /\ \/ origin = "encoder" /\ written = <<>>
       \/ origin = "other" /\ written \in RawStreams[stream]
    /\ wire = written
    /\ sent = <<>> /\ sender = "open"
    /\ input = <<>> /\ header = <<>> /\ expected = None /\ payload = <<>>
    /\ decoded = <<>> /\ pending = <<>> /\ got = <<>> /\ reader = "reading"

\* encode, then send_bounded, whose limit is on the whole frame.
Send(message) ==
    /\ origin = "encoder" /\ sender = "open" /\ Len(sent) < MaxSent
    /\ IF Encodes(message) /\ Len(encode(message)) <= MaxFrame
       THEN /\ sent' = Append(sent, message)
            /\ wire' = wire \o encode(message)
            /\ written' = written \o encode(message)
            /\ UNCHANGED sender
       ELSE sender' = "failed" /\ UNCHANGED <<sent, written, wire>>
    /\ UNCHANGED <<stream, origin, input, decoder, decoded, pending, got, reader>>

\* The stream is finished, or it is dropped with its session.
Finish ==
    /\ sender = "open"
    /\ sender' \in {"finished", "failed"}
    /\ UNCHANGED <<stream, origin, sent, written, wire, input, decoder, decoded,
                   pending, got, reader>>

\* One read of the stream inside next; push works on the bytes it returns.
Receive ==
    /\ reader = "reading" /\ pending = <<>> /\ input = <<>>
    /\ \E n \in 1..BufferSize :
         /\ n <= Len(wire)
         /\ input' = SubSeq(wire, 1, n)
         /\ wire' = SubSeq(wire, n + 1, Len(wire))
    /\ UNCHANGED <<stream, outgoing, decoder, decoded, pending, got, reader>>

\* "stream closed before expected message", or the session is gone and with it
\* what was on its way.
Closed ==
    /\ reader = "reading" /\ pending = <<>> /\ input = <<>>
    /\ sender = "failed" \/ (sender = "finished" /\ wire = <<>>)
    /\ reader' = "closed"
    /\ UNCHANGED <<stream, outgoing, wire, input, decoder, decoded, pending, got>>

\* push returns when it has used its input, and next hands over the messages.
Return(messages, rest) ==
    /\ input' = rest
    /\ decoded' = IF rest = <<>> THEN <<>> ELSE messages
    /\ pending' = IF rest = <<>> THEN messages ELSE pending

\* An error resets the decoder and drops what the push had decoded.
Refuse ==
    /\ reader' = "refused"
    /\ input' = <<>> /\ decoded' = <<>>
    /\ header' = <<>> /\ expected' = None /\ payload' = <<>>
    /\ UNCHANGED pending

\* Mutant: any number of continuation bytes.
HeaderUnbounded == TRUE

HeaderRoom == Len(header) < MaxVarint

\* One byte of the length.
PushHeader ==
    /\ input # <<>> /\ expected = None
    /\ LET bytes == Append(header, Head(input))
           lengths == {length \in parse_varint(bytes) : check_frame_length(length.value)}
       IN  \/ /\ HeaderRoom /\ Head(input) >= Radix
              /\ header' = bytes
              /\ Return(decoded, Tail(input))
              /\ UNCHANGED <<expected, payload, reader>>
           \/ /\ HeaderRoom /\ Head(input) < Radix
              /\ \E length \in lengths :
                   /\ header' = bytes /\ expected' = length.value
                   /\ Return(decoded, Tail(input))
                   /\ UNCHANGED <<payload, reader>>
           \/ /\ ~HeaderRoom \/ (Head(input) < Radix /\ lengths = {})
              /\ Refuse
    /\ UNCHANGED <<stream, outgoing, wire, got>>

\* Mutant: the payload is kept.
ResetHeader == header' = <<>> /\ expected' = None /\ payload' = payload

reset == header' = <<>> /\ expected' = None /\ payload' = <<>>

\* As much of the payload as there is; a complete one is decoded.
PushPayload ==
    /\ input # <<>> /\ expected # None
    /\ LET needed == expected - Len(payload)
           taken == IF needed < Len(input) THEN needed ELSE Len(input)
           bytes == payload \o SubSeq(input, 1, taken)
           rest == SubSeq(input, taken + 1, Len(input))
       IN  \/ /\ Len(bytes) < expected
              /\ payload' = bytes
              /\ Return(decoded, rest)
              /\ UNCHANGED <<header, expected, reader>>
           \/ /\ Len(bytes) = expected
              /\ \E message \in decode_payload(stream, bytes) :
                   /\ Return(Append(decoded, message), rest)
                   /\ reset
                   /\ UNCHANGED reader
           \/ /\ Len(bytes) = expected /\ decode_payload(stream, bytes) = {}
              /\ Refuse
    /\ UNCHANGED <<stream, outgoing, wire, got>>

\* next returns a message.
Take ==
    /\ reader = "reading" /\ pending # <<>>
    /\ got' = Append(got, Head(pending))
    /\ pending' = Tail(pending)
    /\ UNCHANGED <<stream, outgoing, wire, input, decoder, decoded, reader>>

Stopped == reader # "reading" /\ UNCHANGED vars

Next ==
    \/ \E message \in Messages[stream] : Send(message)
    \/ Finish \/ Receive \/ Closed \/ PushHeader \/ PushPayload \/ Take
    \/ Stopped

Spec == Init /\ [][Next]_vars

-----------------------------------------------------------------------------
(***************************************************************************)
(* Properties.                                                             *)
(***************************************************************************)
\* Everything decoded so far, in order.
Decoded == got \o pending \o decoded

\* The variables have their types, and the decoder buffers at most one frame
\* ("buffering at most one frame").
TypeOK ==
    /\ stream \in {"control", "index", "transfer"}
    /\ sender \in {"open", "finished", "failed"}
    /\ reader \in {"reading", "closed", "refused"}
    /\ Range(wire) \subseteq Byte /\ Range(input) \subseteq Byte
    /\ Len(header) <= MaxVarint
    /\ expected = None => payload = <<>>
    /\ expected # None => expected \in 3..MaxFrame /\ Len(payload) < expected

\* Whatever the pieces, the reader's messages are the sender's, in order: no
\* frame is lost, split, merged or repeated at a cut, and one that encode makes
\* is one the decoder accepts.  A stream that is finished has delivered all.
Reassembled ==
    origin = "encoder" =>
        /\ IsPrefix(Decoded, sent)
        /\ reader # "refused"
        /\ reader = "closed" /\ sender = "finished" => got = sent

\* The encoding is canonical: bytes the decoder accepts are those encode makes
\* of what it returns.  No message has two encodings, and no byte is skipped.
Canonical ==
    reader # "refused" =>
        written = FlattenSeq([i \in DOMAIN Decoded |-> encode(Decoded[i])])
                    \o header \o payload \o input \o wire

=============================================================================
