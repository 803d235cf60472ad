---------------------------- MODULE ReliableCodec ----------------------------
(***************************************************************************)
(* The framing of the reliable channels                                    *)
(* (src/src/shared/channels/reliable/codec.rs and recv.rs): one stream,    *)
(* the encoder of its sending task at one end, the network that cuts the   *)
(* bytes where it likes, and the decoder of its receiving task.            *)
(*                                                                         *)
(* A byte is a number below Base, a payload a sequence of them.  The n-th  *)
(* payload is made of copies of the byte n, so that payloads differ.       *)
(***************************************************************************)
EXTENDS Naturals, Sequences, SequencesExt

CONSTANTS
    Base,           \* values of a byte
    FieldLen,       \* RELIABLE_FRAME_LENGTH_FIELD_LEN
    ChannelByte,    \* the id of the channel
    EncoderMax,     \* max_frame_size of the channel
    DecoderMax,     \* DEFAULT_MAX_RELIABLE_FRAME_LEN
    Lengths,        \* lengths of the payloads sent
    MaxFrames       \* bound: payloads sent

ASSUME CodecAssumption ==
    /\ Base \in Nat \ {0, 1} /\ FieldLen \in Nat \ {0}
    /\ MaxFrames \in 0..(Base - 1) /\ ChannelByte \in 0..(Base - 1)
    /\ EncoderMax \in Nat /\ DecoderMax \in Nat
    /\ Lengths \subseteq Nat

HeaderLen == FieldLen + 1

VARIABLES
    offered,    \* how many payloads were given to the encoder
    sent,       \* those it accepted
    wire,       \* bytes on their way
    src,        \* the decoder's buffer
    state,      \* DecodeState: Head, or Data(n) for a frame of n bytes
    decoded,    \* the payloads handed to the queue of incoming payloads
    failed      \* the decoder returned an error, and its task ended

vars == <<offered, sent, wire, src, state, decoded, failed>>

Bytes == 0..(Base - 1)

DecodeHeadState == <<>>
DecodeDataState(n) == <<n>>

TypeOK ==
    /\ offered \in 0..MaxFrames
    /\ sent \in Seq(Seq(Bytes))
    /\ wire \in Seq(Bytes)
    /\ src \in Seq(Bytes)
    /\ state \in {DecodeHeadState} \cup {DecodeDataState(n) : n \in 0..DecoderMax}
    /\ decoded \in Seq(Seq(Bytes))
    /\ failed \in BOOLEAN

Init ==
    /\ offered = 0
    /\ sent = <<>> /\ wire = <<>> /\ src = <<>>
    /\ state = DecodeHeadState
    /\ decoded = <<>>
    /\ failed = FALSE

-----------------------------------------------------------------------------

\* put_uint(v, FieldLen): the low-order bytes of v, the highest of them first.
PutUInt(v) == [i \in 1..FieldLen |-> (v \div Base ^ (FieldLen - i)) % Base]

\* The number whose bytes are in a length field.
FieldValue(field) == FoldLeft(LAMBDA v, b : v * Base + b, 0, field)

GetUInt(bytes) == FieldValue(SubSeq(bytes, 1, FieldLen))

\* The length field can hold the length of every frame the encoder lets through:
\* it is 4 bytes wide, and the maximum 8 MiB unless the user sets another.
LengthsFit ==
    \A length \in 0..EncoderMax :
        LET field == PutUInt(1 + length)
        IN field \in [1..FieldLen -> Bytes] /\ FieldValue(field) = 1 + length

Payload(n, length) == [i \in 1..length |-> n]

\* A length written as one byte, however long the payload.
MutFrame(payload) == <<1 + Len(payload), ChannelByte>> \o payload

Frame(payload) == PutUInt(1 + Len(payload)) \o <<ChannelByte>> \o payload

\* encode: a payload longer than the channel's maximum is an error of the sending
\* task, and nothing of it is written.
Encode(length) ==
    /\ offered < MaxFrames
    /\ offered' = offered + 1
    /\ LET payload == Payload(offered', length)
       IN IF length > EncoderMax
          THEN UNCHANGED <<sent, wire>>
          ELSE /\ sent' = Append(sent, payload)
               /\ wire' = wire \o Frame(payload)
    /\ UNCHANGED <<src, state, decoded, failed>>

\* External: the next n bytes of the stream arrive.
Arrive(n) ==
    /\ ~failed
    /\ src' = src \o SubSeq(wire, 1, n)
    /\ wire' = SubSeq(wire, n + 1, Len(wire))
    /\ UNCHANGED <<offered, sent, state, decoded, failed>>

\* src with the length field advanced over.
Skipped == SubSeq(src, FieldLen + 1, Len(src))

\* A decoder that keeps the length field of a frame whose data is not there yet.
MutDecodeHead(length, data) ==
    /\ state = DecodeHeadState
    /\ Len(src) >= HeaderLen
    /\ length = GetUInt(src)
    /\ length <= DecoderMax
    /\ data = IF Len(src) >= FieldLen + length THEN Skipped ELSE src

\* decode_head finds the length of the next frame, at most DecoderMax, and skips
\* the length field; data is what is left of src.
DecodeHead(length, data) ==
    /\ state = DecodeHeadState
    /\ Len(src) >= HeaderLen
    /\ length = GetUInt(src)
    /\ length <= DecoderMax
    /\ data = Skipped

\* A decoder that asks for a header's worth of bytes even for the data.
MutHeadKnown(length, data) ==
    state = DecodeDataState(length) /\ data = src /\ Len(src) >= HeaderLen

\* The head was decoded before.
HeadKnown(length, data) == state = DecodeDataState(length) /\ data = src

\* decode_data and decode_incoming_reliable_message: the first byte of the frame
\* is the channel id, the rest the payload.
DecodeData(length, data) ==
    IF Len(data) >= length
    THEN /\ decoded' = Append(decoded, SubSeq(data, 2, length))
         /\ src' = SubSeq(data, length + 1, Len(data))
         /\ state' = DecodeHeadState
    ELSE /\ state' = DecodeDataState(length)
         /\ src' = data
         /\ UNCHANGED decoded

\* decode, one call of it.
Decode ==
    /\ ~failed
    /\ \E length \in 0..DecoderMax, data \in {src, Skipped} :
          /\ DecodeHead(length, data) \/ HeadKnown(length, data)
          /\ DecodeData(length, data)
    /\ UNCHANGED <<offered, sent, wire, failed>>

\* The length is too big: the error ends the receiving task of the stream.
DecodeFails ==
    /\ ~failed
    /\ state = DecodeHeadState
    /\ Len(src) >= HeaderLen
    /\ GetUInt(src) > DecoderMax
    /\ failed' = TRUE
    /\ UNCHANGED <<offered, sent, wire, src, state, decoded>>

Next ==
    \/ \E length \in Lengths : Encode(length)
    \/ \E n \in 1..Len(wire) : Arrive(n)
    \/ Decode
    \/ DecodeFails

\* QUIC delivers the stream, and its receiving task runs.
Fairness ==
    /\ WF_vars(\E n \in 1..Len(wire) : Arrive(n))
    /\ WF_vars(Decode)

Spec == Init /\ [][Next]_vars /\ Fairness

-----------------------------------------------------------------------------
(* Properties.                                                             *)

\* Wherever the network cuts the stream, the decoder hands over the payloads the
\* encoder accepted, whole and in order (codec.rs:56-167).
DecodedIsPrefix == IsPrefix(decoded, sent)

\* channels.rs:35, "ensures that messages sent are delivered": every payload the
\* encoder accepted comes out of the decoder (codec.rs:57-62 and 108-113).
AcceptedIsDecoded ==
    \A n \in 1..MaxFrames : Len(sent) >= n ~> Len(decoded) >= n

\* As long as no payload has the maximal length itself, every accepted payload is
\* decoded without waiting for the frames that follow it, the empty one included,
\* wherever the stream was cut (codec.rs:96-167).
ShorterIsDecoded ==
    \A n \in 1..MaxFrames :
        (Len(sent) >= n /\ \A i \in 1..n : Len(sent[i]) < DecoderMax)
            ~> Len(decoded) >= n
=============================================================================
