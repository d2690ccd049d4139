------------------------------ MODULE MCCodec -------------------------------
(***************************************************************************)
(* Groups of 8 values, so a frame of 8 bytes has a header of two, and      *)
(* lengths of three groups of which the last is at most 1.                 *)
(***************************************************************************)
EXTENDS Codec

Message(kind, layout, fields) == [kind |-> kind, layout |-> layout, fields |-> fields]

Path == <<<<1, 2>>, <<3>>>>
LongPath == <<<<1>>, <<2>>, <<3>>>>
WidePath == <<<<1, 2, 3>>, <<4>>>>

\* Every layout, paths at and beyond either limit, chunks whose frame is at and
\* beyond the limit, and chunks that look like frames.
MCMessages ==
    [control |->
       {Message(7, <<>>, <<>>),
        Message(3, <<Field("bytes")>>, <<<<3, 11, 1>>>>),
        Message(10, <<Field("upsert"), Field("fixed")>> \o RecordFields,
                <<<<5>>, <<9>>, <<<<1>>>>, <<2>>, <<15>>, <<<<1>>>>, <<>>>>),
        Message(10, <<Field("delete"), Field("fixed"), Field("path"), Field("entry")>>,
                <<<<4>>, <<0>>, Path, <<3>>>>),
        Message(15, FailureFields, <<<<6>>, <<8>>, <<5>>, <<>>, <<<<<<1>>>>>>>>)},
     index |->
       {Message(2, <<>>, <<>>),
        Message(1, RecordFields, <<Path, <<2>>, <<0>>, <<<<7>>>>, <<>>>>),
        Message(1, RecordFields, <<<<<<2>>>>, <<3>>, <<1>>, <<>>, <<<<>>>>>>),
        Message(1, RecordFields, <<LongPath, <<1>>, <<1>>, <<>>, <<>>>>)},
     transfer |->
       {Message(5, <<>>, <<>>),
        Message(6, <<Field("fixed")>>, <<<<8>>>>),
        Message(7, RequestFields, <<<<1>>, WidePath>>),
        Message(8, <<Field("bytes")>>, <<<<3, 5, 1, 0>>>>),
        Message(4, <<Field("bytes")>>, <<[i \in 1..9 |-> 8]>>),
        Message(2, <<Field("bytes")>>, <<[i \in 1..10 |-> 8]>>),
        Message(2, <<Field("bytes")>>, <<[i \in 1..12 |-> 8]>>)}]

\* Bytes that are not the work of encode.  Short frames: any header of one byte,
\* padded ones, overflows, and any fields.  Longer ones: fields of a failure or of
\* a record behind its path.
Strings(bytes, lengths) == UNION {[1..k -> bytes] : k \in lengths}

Raw(headers, kinds, versions, fields) ==
    {head \o <<kind>> \o version \o field :
       head \in headers, kind \in kinds, version \in versions, field \in fields}

Short == {<<length>> : length \in 0..7}
Padded == {<<length + 8, 0>> : length \in 3..7} \cup {<<11, 8, 0>>}
Overflown == {<<15, 15>>, <<15, 15, 15>>, <<8, 8, 1>>, <<8, 8, 2>>}
Endless == {[i \in 1..5 |-> 8]}

ShortFrames(kinds) ==
    Raw(Short, kinds, {<<1, 0>>}, Strings({0, 1, 2, 8}, 0..4))
      \cup Raw(Padded \cup Overflown, kinds, {<<1, 0>>, <<0, 1>>}, Strings({0, 1}, 0..4))

MCRawStreams ==
    [control  |-> ShortFrames({7, 10}) \cup Endless
                    \cup Raw({<<8, 1>>, <<9, 1>>}, {15}, {<<1, 0>>}, Strings({0, 1, 2}, {5, 6})),
     index    |-> ShortFrames({2})
                    \cup Raw({<<10, 1>>, <<11, 1>>, <<12, 1>>}, {1}, {<<1, 0, 1, 1, 2>>},
                             Strings({0, 1, 2}, 4..6)),
     transfer |-> ShortFrames({1, 2, 6})]

=============================================================================
