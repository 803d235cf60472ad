------------------------ MODULE ReliableCodec_proofs ------------------------
(***************************************************************************)
(* Proofs about the framing of the reliable channels, for every width of   *)
(* the length field, every maximum on either side and every length of the  *)
(* payloads, as long as the field can hold the lengths (LengthsFit).       *)
(***************************************************************************)
EXTENDS ReliableCodec, SequenceTheorems, TLAPS

Sent == Len(sent)
Decoded == Len(decoded)

\* Every payload that was accepted is no longer than the encoder's maximum.
CodecTypes ==
    /\ TypeOK
    /\ \A i \in 1..Sent : Len(sent[i]) <= EncoderMax

FrameLen(payload) == HeaderLen + Len(payload)

\* cut[i] is where frame i ends in the whole stream.
Cuts(cut) ==
    /\ cut \in [0..Sent -> Nat] /\ cut[0] = 0
    /\ \A i \in 1..Sent : cut[i] = cut[i - 1] + FrameLen(sent[i])
    /\ \A i, j \in 0..Sent : i <= j => cut[i] <= cut[j]

\* Byte p of the rest of the stream, of which buf has arrived.
At(buf, p) == IF p <= Len(buf) THEN buf[p] ELSE wire[p - Len(buf)]

\* From place pos of the whole stream on, buf and the wire are the frames of the
\* payloads that are not decoded.
Carries(cut, buf, pos) ==
    /\ pos + Len(buf) + Len(wire) = cut[Sent]
    /\ \A i \in (Decoded + 1)..Sent : \A j \in 1..FrameLen(sent[i]) :
          pos < cut[i - 1] + j => At(buf, cut[i - 1] + j - pos) = Frame(sent[i])[j]

\* How far the decoder is.
Place(cut) == cut[Decoded] + (IF state = DecodeHeadState THEN 0 ELSE FieldLen)

\* What was decoded is what was sent; what the decoder remembers is the length of
\* the next frame.
DecodedIsSent ==
    /\ Decoded <= Sent
    /\ \A i \in 1..Decoded : decoded[i] = sent[i]
    /\ state # DecodeHeadState =>
          Decoded < Sent /\ state = DecodeDataState(1 + Len(sent[Decoded + 1]))

CodecInv ==
    /\ CodecTypes
    /\ DecodedIsSent
    /\ \E cut : Cuts(cut) /\ Carries(cut, src, Place(cut))

-----------------------------------------------------------------------------
(* Frames.                                                                 *)

\* A length field has its width.
LEMMA FieldType ==
    ASSUME LengthsFit, NEW length \in 0..EncoderMax
    PROVE  /\ PutUInt(1 + length) \in Seq(Bytes) /\ Len(PutUInt(1 + length)) = FieldLen
           /\ FieldValue(PutUInt(1 + length)) = 1 + length
<1> DEFINE field == PutUInt(1 + length)
<1>1. field \in [1..FieldLen -> Bytes] /\ FieldValue(field) = 1 + length
  BY DEF LengthsFit
<1> HIDE DEF field
<1>2. FieldLen \in Nat
  BY CodecAssumption
<1>3. field \in Seq(Bytes) /\ DOMAIN field = 1..FieldLen
  BY <1>1, <1>2, SeqDef
<1>4. Len(field) \in Nat /\ DOMAIN field = 1..Len(field)
  BY <1>3, LenProperties
<1>5. Len(field) = FieldLen
  BY <1>2, <1>3, <1>4
<1> QED
  BY <1>1, <1>3, <1>5 DEF field

\* A payload is a sequence of its length.
LEMMA PayloadType ==
    ASSUME NEW n \in Bytes, NEW length \in Nat
    PROVE  Payload(n, length) \in Seq(Bytes) /\ Len(Payload(n, length)) = length
<1>1. Payload(n, length) \in [1..length -> Bytes] /\ DOMAIN Payload(n, length) = 1..length
  BY DEF Payload
<1>2. Payload(n, length) \in Seq(Bytes)
  BY <1>1, SeqDef
<1>3. /\ Len(Payload(n, length)) \in Nat
      /\ DOMAIN Payload(n, length) = 1..Len(Payload(n, length))
  BY <1>2, LenProperties
<1> QED
  BY <1>1, <1>2, <1>3

\* A frame is the length field, the channel id and the payload.
LEMMA FrameParts ==
    ASSUME LengthsFit, NEW payload \in Seq(Bytes), Len(payload) <= EncoderMax
    PROVE  /\ Frame(payload) \in Seq(Bytes)
           /\ Len(payload) \in Nat /\ FrameLen(payload) \in Nat
           /\ Len(Frame(payload)) = FrameLen(payload)
           /\ \A k \in 1..FieldLen : Frame(payload)[k] = PutUInt(1 + Len(payload))[k]
           /\ \A k \in 1..Len(payload) : Frame(payload)[HeaderLen + k] = payload[k]
<1> DEFINE field == PutUInt(1 + Len(payload))
           head == field \o <<ChannelByte>>
<1>1. FieldLen \in Nat \ {0} /\ Len(payload) \in Nat /\ Len(payload) \in 0..EncoderMax
  BY CodecAssumption, LenProperties
<1>2. field \in Seq(Bytes) /\ Len(field) = FieldLen
  BY <1>1, FieldType
<1> HIDE DEF field
<1>3. <<ChannelByte>> \in Seq(Bytes) /\ Len(<<ChannelByte>>) = 1
  BY CodecAssumption DEF Bytes
<1>5. /\ head \in Seq(Bytes) /\ Len(head) = Len(field) + Len(<<ChannelByte>>)
      /\ \A k \in 1..(Len(field) + Len(<<ChannelByte>>)) :
            head[k] = IF k <= Len(field) THEN field[k] ELSE <<ChannelByte>>[k - Len(field)]
  BY <1>2, <1>3, ConcatProperties
<1>6. Len(head) = HeaderLen /\ \A k \in 1..FieldLen : head[k] = field[k]
  BY <1>1, <1>2, <1>3, <1>5 DEF HeaderLen
<1> HIDE DEF head
<1>7. Frame(payload) = head \o payload
  BY DEF Frame, head, field
<1>12. head \in Seq(Bytes)
  BY <1>5
<1>13. /\ head \o payload \in Seq(Bytes)
      /\ Len(head \o payload) = Len(head) + Len(payload)
      /\ \A k \in 1..(Len(head) + Len(payload)) :
            (head \o payload)[k] = IF k <= Len(head) THEN head[k] ELSE payload[k - Len(head)]
  BY <1>12, ConcatProperties
<1>8. /\ Frame(payload) \in Seq(Bytes) /\ Len(Frame(payload)) = Len(head) + Len(payload)
      /\ \A k \in 1..(Len(head) + Len(payload)) :
            Frame(payload)[k] = IF k <= Len(head) THEN head[k] ELSE payload[k - Len(head)]
  BY <1>7, <1>13
<1>9. HeaderLen \in Nat /\ FieldLen < HeaderLen
  BY <1>1 DEF HeaderLen
<1>10. \A k \in 1..FieldLen : Frame(payload)[k] = field[k]
  BY <1>1, <1>6, <1>8, <1>9
<1>11. \A k \in 1..Len(payload) : Frame(payload)[HeaderLen + k] = payload[k]
  BY <1>1, <1>6, <1>8, <1>9
<1> QED
  BY <1>1, <1>6, <1>8, <1>9, <1>10, <1>11 DEF FrameLen, field

\* The part of a sequence from place m to place n.
LEMMA PartOf ==
    ASSUME NEW S, NEW s \in Seq(S), NEW m \in Nat \ {0}, NEW n \in 0..Len(s), m <= n + 1
    PROVE  /\ SubSeq(s, m, n) \in Seq(S) /\ Len(SubSeq(s, m, n)) = n - m + 1
           /\ \A k \in 1..(n - m + 1) : SubSeq(s, m, n)[k] = s[m + k - 1]
<1>1. Len(s) \in Nat
  BY LenProperties
<1>2. \A k \in m..n : s[k] \in S
  BY <1>1, ElementOfSeq
<1>3. m \in Int /\ n \in Int
  BY <1>1
<1>4. /\ SubSeq(s, m, n) \in Seq(S)
      /\ Len(SubSeq(s, m, n)) = IF m <= n THEN n - m + 1 ELSE 0
      /\ \A k \in 1..(n - m + 1) : SubSeq(s, m, n)[k] = s[m + k - 1]
  BY <1>2, <1>3, SubSeqProperties
<1> QED
  BY <1>1, <1>3, <1>4

\* The length field that was written is the one that is read.
LEMMA FieldRead ==
    ASSUME LengthsFit, NEW payload \in Seq(Bytes), Len(payload) <= EncoderMax,
           NEW buf \in Seq(Bytes), HeaderLen <= Len(buf),
           \A k \in 1..FieldLen : buf[k] = Frame(payload)[k]
    PROVE  GetUInt(buf) = 1 + Len(payload)
<1> DEFINE field == PutUInt(1 + Len(payload))
<1>1. FieldLen \in Nat \ {0} /\ Len(payload) \in 0..EncoderMax /\ Len(buf) \in Nat
      /\ FieldLen \in 0..Len(buf)
  BY CodecAssumption, LenProperties DEF HeaderLen
<1>2. field \in Seq(Bytes) /\ Len(field) = FieldLen
  BY <1>1, FieldType
<1>3. \A k \in 1..FieldLen : buf[k] = field[k]
  BY FrameParts
<1> HIDE DEF field
<1>4. /\ SubSeq(buf, 1, FieldLen) \in Seq(Bytes) /\ Len(SubSeq(buf, 1, FieldLen)) = FieldLen
      /\ \A k \in 1..FieldLen : SubSeq(buf, 1, FieldLen)[k] = buf[k]
  <2>1. /\ SubSeq(buf, 1, FieldLen) \in Seq(Bytes)
        /\ Len(SubSeq(buf, 1, FieldLen)) = FieldLen - 1 + 1
        /\ \A k \in 1..(FieldLen - 1 + 1) : SubSeq(buf, 1, FieldLen)[k] = buf[1 + k - 1]
    BY <1>1, PartOf
  <2> QED
    BY <1>1, <2>1
<1>5. SubSeq(buf, 1, FieldLen) = field
  BY <1>2, <1>3, <1>4, SeqEqual
<1>6. FieldValue(field) = 1 + Len(payload)
  BY <1>1, FieldType DEF field
<1> QED
  BY <1>5, <1>6 DEF GetUInt

-----------------------------------------------------------------------------
(* The stream.                                                             *)

\* Bytes that leave the buffer are passed over, and the rest stays where it was.
LEMMA Passed ==
    ASSUME CodecTypes, NEW cut, Cuts(cut), NEW buf \in Seq(Bytes), NEW pos \in Nat,
           Carries(cut, buf, pos), NEW m \in 0..Len(buf)
    PROVE  /\ SubSeq(buf, m + 1, Len(buf)) \in Seq(Bytes)
           /\ Carries(cut, SubSeq(buf, m + 1, Len(buf)), pos + m)
<1> DEFINE rest == SubSeq(buf, m + 1, Len(buf))
<1>1. /\ Len(buf) \in Nat /\ Len(wire) \in Nat /\ m \in Nat /\ Sent \in Nat /\ Decoded \in Nat
      /\ FieldLen \in Nat
  BY LenProperties, CodecAssumption DEF CodecTypes, TypeOK, Sent, Decoded
<1>2. /\ rest \in Seq(Bytes) /\ Len(rest) = Len(buf) - (m + 1) + 1
      /\ \A k \in 1..(Len(buf) - (m + 1) + 1) : rest[k] = buf[m + 1 + k - 1]
  <2>1. m + 1 \in Nat \ {0} /\ Len(buf) \in 0..Len(buf) /\ m + 1 <= Len(buf) + 1
    BY <1>1
  <2> QED
    BY <2>1, PartOf
<1> HIDE DEF rest
<1>3. Len(rest) = Len(buf) - m /\ \A k \in 1..Len(rest) : rest[k] = buf[m + k]
  BY <1>1, <1>2
<1>4. pos + m + Len(rest) + Len(wire) = cut[Sent]
  BY <1>1, <1>3 DEF Carries
<1>5. ASSUME NEW i \in (Decoded + 1)..Sent, NEW j \in 1..FrameLen(sent[i]),
             pos + m < cut[i - 1] + j
      PROVE  At(rest, cut[i - 1] + j - (pos + m)) = Frame(sent[i])[j]
  <2>1. i - 1 \in 0..Sent /\ cut[i - 1] \in Nat
    BY <1>1 DEF Cuts
  <2>2. j \in Int
    OBVIOUS
  <2>3. PICK p \in Nat \ {0} : p = cut[i - 1] + j - (pos + m)
    BY <1>1, <1>5, <2>1, <2>2
  <2>4. p + m = cut[i - 1] + j - pos /\ pos < cut[i - 1] + j
    BY <1>1, <2>1, <2>2, <2>3
  <2>5. At(buf, p + m) = Frame(sent[i])[j]
    BY <2>4 DEF Carries
  <2>6. At(rest, p) = At(buf, p + m)
    <3>1. CASE p <= Len(rest)
      <4>1. p \in 1..Len(rest) /\ p + m <= Len(buf)
        BY <1>1, <1>3, <3>1
      <4>2. rest[p] = buf[p + m]
        BY <1>1, <1>3, <4>1
      <4> QED
        BY <3>1, <4>1, <4>2 DEF At
    <3>2. CASE ~(p <= Len(rest))
      <4>1. ~(p + m <= Len(buf)) /\ p + m - Len(buf) = p - Len(rest)
        BY <1>1, <1>3, <3>2
      <4> QED
        BY <3>2, <4>1 DEF At
    <3> QED
      BY <3>1, <3>2
  <2> QED
    BY <2>3, <2>5, <2>6
<1> QED
  BY <1>2, <1>4, <1>5 DEF Carries, rest

\* The symbols of the next frame are the first in the buffer, once they arrived.
LEMMA NextFrame ==
    ASSUME CodecTypes, NEW cut, Cuts(cut), Decoded < Sent, NEW skip \in 0..HeaderLen,
           NEW buf \in Seq(Bytes), Carries(cut, buf, cut[Decoded] + skip),
           NEW k \in 1..Len(buf), skip + k <= FrameLen(sent[Decoded + 1])
    PROVE  buf[k] = Frame(sent[Decoded + 1])[skip + k]
<1>1. /\ Len(buf) \in Nat /\ Sent \in Nat /\ Decoded \in Nat /\ HeaderLen \in Nat
      /\ cut[Decoded] \in Nat
  BY LenProperties, CodecAssumption DEF CodecTypes, TypeOK, Sent, Decoded, HeaderLen, Cuts
<1>2. Decoded + 1 \in (Decoded + 1)..Sent /\ (Decoded + 1) - 1 = Decoded
  BY <1>1
<1>3. skip + k \in 1..FrameLen(sent[Decoded + 1])
  <2>1. sent[Decoded + 1] \in Seq(Bytes)
    BY <1>1, <1>2, ElementOfSeq DEF CodecTypes, TypeOK, Sent
  <2>2. FrameLen(sent[Decoded + 1]) \in Nat
    BY <1>1, <2>1, LenProperties DEF FrameLen
  <2> QED
    BY <1>1, <2>2
<1>4. cut[Decoded] + skip < cut[Decoded] + (skip + k)
  BY <1>1
<1>5. At(buf, cut[Decoded] + (skip + k) - (cut[Decoded] + skip)) = Frame(sent[Decoded + 1])[skip + k]
  BY <1>2, <1>3, <1>4 DEF Carries
<1>6. cut[Decoded] + (skip + k) - (cut[Decoded] + skip) = k
  BY <1>1
<1>7. k <= Len(buf)
  BY <1>1
<1> QED
  BY <1>5, <1>6, <1>7 DEF At

\* A buffer that holds bytes at the head of a frame has a next frame.
LEMMA NextExists ==
    ASSUME CodecTypes, DecodedIsSent, NEW cut, Cuts(cut), src # <<>>,
           Carries(cut, src, cut[Decoded])
    PROVE  Decoded < Sent
<1>1. Sent \in Nat /\ Decoded \in Nat /\ Len(src) \in Nat \ {0} /\ Len(wire) \in Nat
  BY LenProperties, EmptySeq DEF CodecTypes, TypeOK, Sent, Decoded
<1>2. cut[Decoded] \in Nat /\ cut[Sent] \in Nat
  BY <1>1 DEF Cuts, DecodedIsSent
<1>3. cut[Decoded] + Len(src) + Len(wire) = cut[Sent]
  BY DEF Carries
<1>4. cut[Decoded] # cut[Sent]
  BY <1>1, <1>2, <1>3
<1> QED
  BY <1>1, <1>4 DEF DecodedIsSent

\* Where a frame of the stream ends.
LEMMA FrameEnds ==
    ASSUME CodecTypes, NEW cut, Cuts(cut), NEW i \in 1..Sent
    PROVE  /\ cut[i - 1] \in Nat /\ cut[Sent] \in Nat
           /\ \A j \in 1..FrameLen(sent[i]) : cut[i - 1] + j <= cut[Sent]
<1>1. Sent \in Nat
  BY LenProperties DEF CodecTypes, TypeOK, Sent
<1>2. i - 1 \in 0..Sent /\ i \in 0..Sent /\ Sent \in 0..Sent /\ i <= Sent
  BY <1>1
<1>3. cut[i - 1] \in Nat /\ cut[i] \in Nat /\ cut[Sent] \in Nat /\ cut[i] <= cut[Sent]
  BY <1>2 DEF Cuts
<1>4. cut[i] = cut[i - 1] + FrameLen(sent[i])
  BY DEF Cuts
<1>5. sent[i] \in Seq(Bytes)
  BY ElementOfSeq DEF CodecTypes, TypeOK, Sent
<1>6. FrameLen(sent[i]) \in Nat
  <2>1. Len(sent[i]) \in Nat /\ FieldLen \in Nat
    BY <1>5, LenProperties, CodecAssumption
  <2>2. HeaderLen \in Nat
    BY <2>1 DEF HeaderLen
  <2>3. FrameLen(sent[i]) = HeaderLen + Len(sent[i])
    BY DEF FrameLen
  <2> QED
    BY <2>1, <2>2, <2>3
<1> QED
  BY <1>3, <1>4, <1>6

-----------------------------------------------------------------------------
(* The steps.                                                              *)

\* What the decoder remembers keeps its type.
LEMMA StateKept ==
    ASSUME TypeOK, state' = state
    PROVE  state' \in {DecodeHeadState} \cup {DecodeDataState(n) : n \in 0..DecoderMax}
BY DEF TypeOK

\* The encoder writes a whole frame, or nothing.
LEMMA EncodeStep ==
    ASSUME LengthsFit, CodecInv, NEW length \in Lengths, Encode(length)
    PROVE  CodecInv'
<1> DEFINE payload == Payload(offered', length)
<1>1. /\ offered' \in 0..MaxFrames /\ offered' \in Bytes /\ length \in Nat
      /\ UNCHANGED <<src, state, decoded, failed>>
  BY CodecAssumption DEF Encode, CodecInv, CodecTypes, TypeOK, Bytes
<1>2. payload \in Seq(Bytes) /\ Len(payload) = length
  BY <1>1, PayloadType
<1>3. CASE length > EncoderMax
  <2>1. UNCHANGED <<sent, wire>>
    BY <1>3 DEF Encode
  <2>2. CodecTypes' /\ DecodedIsSent'
    <3>1. TypeOK'
      BY <1>1, <2>1, StateKept DEF CodecInv, CodecTypes, TypeOK
    <3>2. \A i \in 1..(Sent') : Len(sent'[i]) <= EncoderMax
      BY <2>1 DEF CodecInv, CodecTypes, Sent
    <3>3. DecodedIsSent'
      BY <1>1, <2>1 DEF CodecInv, DecodedIsSent, Sent, Decoded
    <3> QED
      BY <3>1, <3>2, <3>3 DEF CodecTypes
  <2>3. PICK cut : Cuts(cut) /\ Carries(cut, src, Place(cut))
    BY DEF CodecInv
  <2>4. Cuts(cut)' /\ Carries(cut, src, Place(cut))'
    BY <1>1, <2>1, <2>3 DEF Cuts, Carries, At, Place, Sent, Decoded, FrameLen
  <2> QED
    BY <2>2, <2>4 DEF CodecInv
<1>4. CASE ~(length > EncoderMax)
  <2>1. sent' = Append(sent, payload) /\ wire' = wire \o Frame(payload)
    BY <1>4 DEF Encode
  <2> HIDE DEF payload
  <2>2. /\ Sent \in Nat /\ Decoded \in Nat /\ Len(src) \in Nat /\ Len(wire) \in Nat
        /\ Sent' = Sent + 1 /\ Decoded' = Decoded /\ FieldLen \in Nat
    BY <1>1, <1>2, <2>1, LenProperties, AppendProperties, CodecAssumption
       DEF CodecInv, CodecTypes, TypeOK, Sent, Decoded
  <2>13. /\ sent' \in Seq(Seq(Bytes))
         /\ \A i \in 1..Sent : sent'[i] = sent[i]
         /\ sent'[Sent + 1] = payload
    BY <1>2, <2>1, AppendProperties DEF CodecInv, CodecTypes, TypeOK, Sent
  <2>3. /\ Frame(payload) \in Seq(Bytes) /\ Len(Frame(payload)) = FrameLen(payload)
        /\ FrameLen(payload) \in Nat
    <3>1. Len(payload) <= EncoderMax
      BY <1>1, <1>2, <1>4, CodecAssumption
    <3> QED
      BY <1>2, <3>1, FrameParts
  <2>4. /\ wire' \in Seq(Bytes) /\ Len(wire') = Len(wire) + FrameLen(payload)
        /\ \A p \in 1..(Len(wire) + FrameLen(payload)) :
              wire'[p] = IF p <= Len(wire) THEN wire[p] ELSE Frame(payload)[p - Len(wire)]
    BY <2>1, <2>3, ConcatProperties DEF CodecInv, CodecTypes, TypeOK
  <2>5. CodecTypes'
    <3>1. Len(payload) <= EncoderMax
      BY <1>2, <1>4, <1>1, CodecAssumption
    <3>2. ASSUME NEW i \in 1..(Sent')
          PROVE  Len(sent'[i]) <= EncoderMax
      <4>1. CASE i \in 1..Sent
        <5>1. Len(sent[i]) <= EncoderMax
          BY <4>1 DEF CodecInv, CodecTypes, TypeOK
        <5> QED
          BY <2>2, <2>13, <4>1, <5>1
      <4>2. CASE i = Sent + 1
        BY <2>2, <2>13, <3>1, <4>2
      <4>3. i \in 1..Sent \/ i = Sent + 1
        BY <2>2
      <4> QED
        BY <4>1, <4>2, <4>3
    <3>3. TypeOK'
      BY <1>1, <2>2, <2>13, <2>4, StateKept DEF CodecInv, CodecTypes, TypeOK
    <3> QED
      BY <3>2, <3>3 DEF CodecTypes
  <2>6. DecodedIsSent'
    <3>1. Decoded <= Sent /\ \A i \in 1..Decoded : decoded[i] = sent[i]
      BY DEF CodecInv, DecodedIsSent
    <3>2. ASSUME NEW i \in 1..Decoded
          PROVE  decoded'[i] = sent'[i]
      <4>1. i \in 1..Sent
        BY <2>2, <3>1
      <4> QED
        BY <1>1, <2>2, <2>13, <3>1, <4>1
    <3>3. ASSUME state # DecodeHeadState
          PROVE  Decoded < Sent + 1 /\ state = DecodeDataState(1 + Len(sent'[Decoded + 1]))
      <4>1. Decoded < Sent /\ state = DecodeDataState(1 + Len(sent[Decoded + 1]))
        BY <3>3 DEF CodecInv, DecodedIsSent
      <4>2. Decoded + 1 \in 1..Sent
        BY <2>2, <4>1
      <4>3. sent'[Decoded + 1] = sent[Decoded + 1]
        BY <2>2, <2>13, <4>2
      <4> QED
        BY <2>2, <4>1, <4>3
    <3>4. Decoded <= Sent + 1
      BY <2>2, <3>1
    <3>5. state' = state /\ DecodeHeadState' = DecodeHeadState
      BY <1>1 DEF DecodeHeadState
    <3> QED
      BY <2>2, <3>2, <3>3, <3>4, <3>5 DEF DecodedIsSent
  <2>7. PICK cut : Cuts(cut) /\ Carries(cut, src, Place(cut))
    BY DEF CodecInv
  <2>12. PICK cutN : cutN = [i \in 0..(Sent + 1) |->
                               IF i <= Sent THEN cut[i] ELSE cut[Sent] + FrameLen(payload)]
    OBVIOUS
  <2>8. /\ \A i \in 0..Sent : cutN[i] = cut[i] /\ cut[i] \in Nat
        /\ cutN[Sent + 1] = cut[Sent] + FrameLen(payload)
        /\ cutN \in [0..(Sent + 1) -> Nat]
    BY <2>2, <2>3, <2>7, <2>12 DEF Cuts
  <2>9. Cuts(cutN)'
    <3>1. cutN[0] = 0
      BY <2>2, <2>7, <2>8 DEF Cuts
    <3>2. ASSUME NEW i \in 1..(Sent + 1)
          PROVE  cutN[i] = cutN[i - 1] + FrameLen(sent'[i])
      <4>1. CASE i <= Sent
        BY <2>2, <2>13, <2>7, <2>8, <4>1 DEF Cuts
      <4>2. CASE i = Sent + 1
        <5>1. i - 1 = Sent /\ Sent \in 0..Sent
          BY <2>2, <4>2
        <5>2. sent'[i] = payload
          BY <2>2, <2>13, <4>2
        <5> QED
          BY <2>8, <4>2, <5>1, <5>2
      <4> QED
        BY <2>2, <4>1, <4>2
    <3>3. \A i, j \in 0..(Sent + 1) : i <= j => cutN[i] <= cutN[j]
      <4>1. \A i, j \in 0..Sent : i <= j => cut[i] <= cut[j]
        BY <2>7 DEF Cuts
      <4>2. \A i \in 0..Sent : cut[i] <= cut[Sent] + FrameLen(payload)
        <5>1. TAKE i \in 0..Sent
        <5>2. Sent \in 0..Sent /\ i <= Sent
          BY <2>2
        <5>3. cut[i] <= cut[Sent] /\ cut[i] \in Nat /\ cut[Sent] \in Nat
          BY <2>8, <4>1, <5>2
        <5> QED
          BY <2>3, <5>3
      <4>3. TAKE i, j \in 0..(Sent + 1)
      <4>4. HAVE i <= j
      <4>5. CASE i \in 0..Sent /\ j \in 0..Sent
        BY <2>8, <4>1, <4>4, <4>5
      <4>6. CASE i \in 0..Sent /\ j = Sent + 1
        BY <2>8, <4>2, <4>6
      <4>7. CASE i = Sent + 1 /\ j = Sent + 1
        <5>1. cutN[Sent + 1] \in Nat
          BY <2>2, <2>8
        <5> QED
          BY <4>7, <5>1
      <4>8. \/ i \in 0..Sent /\ j \in 0..Sent
            \/ i \in 0..Sent /\ j = Sent + 1
            \/ i = Sent + 1 /\ j = Sent + 1
        BY <2>2, <4>4
      <4> QED
        BY <4>5, <4>6, <4>7, <4>8
    <3>4. \A i \in 1..(Sent + 1) : cutN[i] = cutN[i - 1] + (FrameLen(sent[i]))'
      BY <3>2 DEF FrameLen
    <3> QED
      BY <2>2, <2>8, <3>1, <3>3, <3>4 DEF Cuts
  <2>10. Place(cutN)' = Place(cut) /\ Place(cut) \in Nat
    <3>1. Decoded \in 0..Sent
      BY <2>2 DEF CodecInv, DecodedIsSent
    <3>2. cutN[Decoded] = cut[Decoded] /\ cut[Decoded] \in Nat
      BY <2>8, <3>1
    <3>3. state' = state /\ DecodeHeadState' = DecodeHeadState
      BY <1>1 DEF DecodeHeadState
    <3> QED
      BY <2>2, <3>2, <3>3 DEF Place
  <2>11. Carries(cutN, src, Place(cutN))'
    <3>4. PICK pos \in Nat : pos = Place(cut)
      BY <2>10
    <3>1. pos + Len(src) + Len(wire) = cut[Sent]
      BY <2>7, <3>4 DEF Carries
    <3>2. pos + Len(src) + Len(wire') = cutN[Sent + 1]
      BY <2>2, <2>3, <2>4, <2>8, <3>1
    <3>3. ASSUME NEW i \in (Decoded + 1)..(Sent + 1), NEW j \in 1..FrameLen(sent'[i]),
                 pos < cutN[i - 1] + j
          PROVE  At(src, cutN[i - 1] + j - pos)' = Frame(sent'[i])[j]
      <4>1. cutN[i - 1] = cut[i - 1] /\ cut[i - 1] \in Nat /\ j \in Int
        <5>1. i - 1 \in 0..Sent
          BY <2>2
        <5>2. j \in Int
          OBVIOUS
        <5> QED
          BY <2>8, <5>1, <5>2
      <4>2. PICK p \in Nat \ {0} : p = cut[i - 1] + j - pos
        BY <3>1, <3>3, <4>1
      <4>3. CASE i <= Sent
        <5>1. i \in (Decoded + 1)..Sent /\ sent'[i] = sent[i] /\ i \in 1..Sent
          BY <2>2, <2>13, <4>3
        <5>2. At(src, p) = Frame(sent[i])[j]
          BY <2>7, <3>3, <4>1, <4>2, <3>4, <5>1 DEF Carries
        <5>3. cut[Sent] \in Nat /\ cut[i - 1] + j <= cut[Sent]
          BY <2>7, <5>1, FrameEnds DEF CodecInv
        <5>4. p <= Len(src) + Len(wire)
          BY <2>2, <3>1, <4>1, <4>2, <5>3
        <5>5. At(src, p)' = At(src, p)
          <6>1. CASE p <= Len(src)
            BY <1>1, <6>1 DEF At
          <6>2. CASE ~(p <= Len(src))
            <7>1. p - Len(src) \in 1..(Len(wire) + FrameLen(payload)) /\ p - Len(src) <= Len(wire)
              BY <2>2, <2>3, <5>4, <6>2
            <7>2. wire'[p - Len(src)] = wire[p - Len(src)]
              BY <2>4, <7>1
            <7> QED
              BY <1>1, <6>2, <7>2 DEF At
          <6> QED
            BY <6>1, <6>2
        <5>6. At(src, p)' = Frame(sent'[i])[j]
          BY <5>1, <5>2, <5>5
        <5> QED
          BY <4>1, <4>2, <5>6
      <4>4. CASE i = Sent + 1
        <5>8. sent'[i] = payload /\ i - 1 = Sent
          BY <2>2, <2>13, <4>4
        <5>1. sent'[i] = payload /\ i - 1 = Sent /\ j \in 1..FrameLen(payload)
          BY <5>8
        <5>2. p = Len(src) + Len(wire) + j
          BY <2>2, <2>8, <3>1, <4>1, <4>2, <5>1
        <5>3. ~(p <= Len(src)) /\ p - Len(src) = Len(wire) + j
          BY <2>2, <2>3, <5>1, <5>2
        <5>4. /\ Len(wire) + j \in 1..(Len(wire) + FrameLen(payload))
              /\ ~(Len(wire) + j <= Len(wire)) /\ Len(wire) + j - Len(wire) = j
          <6>1. j \in Nat \ {0} /\ j <= FrameLen(payload)
            BY <2>3, <5>1
          <6> QED
            BY <2>2, <2>3, <6>1
        <5>5. wire'[Len(wire) + j] = Frame(payload)[j]
          BY <2>4, <5>4
        <5>6. At(src, p)' = Frame(payload)[j]
          BY <1>1, <5>3, <5>5 DEF At
        <5>7. At(src, p)' = Frame(sent'[i])[j]
          BY <5>1, <5>6
        <5> QED
          BY <4>1, <4>2, <5>7
      <4> QED
        BY <2>2, <4>3, <4>4
    <3> QED
      BY <1>1, <2>2, <2>10, <3>2, <3>3, <3>4 DEF Carries, FrameLen
  <2> QED
    BY <2>5, <2>6, <2>9, <2>11 DEF CodecInv
<1> QED
  BY <1>3, <1>4

\* The network moves the head of the wire to the end of the buffer.
LEMMA ArriveStep ==
    ASSUME CodecInv, NEW n \in 1..Len(wire), Arrive(n)
    PROVE  CodecInv'
<1>1. /\ src' = src \o SubSeq(wire, 1, n) /\ wire' = SubSeq(wire, n + 1, Len(wire))
      /\ UNCHANGED <<offered, sent, state, decoded, failed>>
  BY DEF Arrive
<1>2. src \in Seq(Bytes) /\ wire \in Seq(Bytes) /\ Len(src) \in Nat /\ Len(wire) \in Nat
  BY LenProperties DEF CodecInv, CodecTypes, TypeOK
<1> DEFINE part == SubSeq(wire, 1, n)
<1>3. part \in Seq(Bytes) /\ Len(part) = n /\ \A k \in 1..n : part[k] = wire[k]
  <2>1. 1 \in Nat \ {0} /\ n \in 0..Len(wire) /\ 1 <= n + 1 /\ n - 1 + 1 = n
    BY <1>2
  <2>2. /\ part \in Seq(Bytes) /\ Len(part) = n - 1 + 1
        /\ \A k \in 1..(n - 1 + 1) : part[k] = wire[1 + k - 1]
    BY <1>2, <2>1, PartOf
  <2> QED
    BY <2>1, <2>2
<1>4. /\ wire' \in Seq(Bytes) /\ Len(wire') = Len(wire) - n
      /\ \A k \in 1..(Len(wire) - n) : wire'[k] = wire[n + k]
  <2>1. n + 1 \in Nat \ {0} /\ Len(wire) \in 0..Len(wire) /\ n + 1 <= Len(wire) + 1
    BY <1>2
  <2>2. /\ wire' \in Seq(Bytes) /\ Len(wire') = Len(wire) - (n + 1) + 1
        /\ \A k \in 1..(Len(wire) - (n + 1) + 1) : wire'[k] = wire[n + 1 + k - 1]
    BY <1>1, <1>2, <2>1, PartOf
  <2> QED
    BY <1>2, <2>2
<1>5. src' = src \o part
  BY <1>1
<1> HIDE DEF part
<1>14. /\ src \o part \in Seq(Bytes) /\ Len(src \o part) = Len(src) + n
       /\ \A k \in 1..(Len(src) + n) :
            (src \o part)[k] = IF k <= Len(src) THEN src[k] ELSE part[k - Len(src)]
  BY <1>2, <1>3, ConcatProperties
<1>6. /\ src' \in Seq(Bytes) /\ Len(src') = Len(src) + n
      /\ \A k \in 1..(Len(src) + n) :
            src'[k] = IF k <= Len(src) THEN src[k] ELSE part[k - Len(src)]
  BY <1>3, <1>5, <1>14
<1>7. ASSUME NEW p \in Nat \ {0}, p <= Len(src) + Len(wire)
      PROVE  At(src, p)' = At(src, p)
  <2>1. CASE p <= Len(src)
    <3>1. p \in 1..(Len(src) + n) /\ p <= Len(src')
      BY <1>2, <1>6, <2>1
    <3> QED
      BY <1>6, <2>1, <3>1 DEF At
  <2>2. CASE Len(src) < p /\ p <= Len(src) + n
    <3>1. /\ p \in 1..(Len(src) + n) /\ p - Len(src) \in 1..n
          /\ ~(p <= Len(src)) /\ p <= Len(src')
      BY <1>2, <1>6, <2>2
    <3>2. src'[p] = wire[p - Len(src)]
      BY <1>3, <1>6, <3>1
    <3> QED
      BY <3>1, <3>2 DEF At
  <2>3. CASE Len(src) + n < p
    <3>1. /\ ~(p <= Len(src')) /\ ~(p <= Len(src)) /\ p - Len(src') \in 1..(Len(wire) - n)
          /\ n + (p - Len(src')) = p - Len(src)
      BY <1>2, <1>6, <1>7, <2>3
    <3>2. wire'[p - Len(src')] = wire[p - Len(src)]
      BY <1>4, <3>1
    <3> QED
      BY <3>1, <3>2 DEF At
  <2> QED
    BY <1>2, <2>1, <2>2, <2>3
<1>8. PICK cut : Cuts(cut) /\ Carries(cut, src, Place(cut))
  BY DEF CodecInv
<1>9. /\ Sent' = Sent /\ Decoded' = Decoded /\ Place(cut)' = Place(cut)
      /\ Sent \in Nat /\ Decoded \in Nat
  BY <1>1, LenProperties DEF Sent, Decoded, Place, CodecInv, CodecTypes
<1>10. Cuts(cut)'
  BY <1>1, <1>8, <1>9 DEF Cuts, FrameLen
<1>11. Place(cut) \in Nat /\ Place(cut) + Len(src) + Len(wire) = cut[Sent]
  <2>1. Decoded \in 0..Sent
    BY <1>9 DEF CodecInv, DecodedIsSent
  <2>2. cut[Decoded] \in Nat
    BY <1>8, <2>1 DEF Cuts
  <2>3. Place(cut) \in Nat
    BY <2>2, CodecAssumption DEF Place
  <2> QED
    BY <1>8, <2>3 DEF Carries
<1>12. Carries(cut, src, Place(cut))'
  <2> DEFINE pos == Place(cut)
  <2>1. pos + Len(src') + Len(wire') = cut[Sent]
    BY <1>2, <1>4, <1>6, <1>11
  <2>2. ASSUME NEW i \in (Decoded + 1)..Sent, NEW j \in 1..FrameLen(sent[i]),
               pos < cut[i - 1] + j
        PROVE  At(src, cut[i - 1] + j - pos)' = Frame(sent[i])[j]
    <3>1. i \in 1..Sent /\ i - 1 \in 0..Sent /\ j \in Int
      BY <1>9
    <3>2. cut[i - 1] \in Nat /\ cut[Sent] \in Nat /\ cut[i - 1] + j <= cut[Sent]
      BY <1>8, <3>1, FrameEnds DEF CodecInv
    <3> HIDE DEF pos
    <3>5. PICK p \in Nat \ {0} : p = cut[i - 1] + j - pos
      BY <1>11, <2>2, <3>1, <3>2 DEF pos
    <3>6. p <= Len(src) + Len(wire)
      BY <1>2, <1>11, <3>1, <3>2, <3>5 DEF pos
    <3>7. At(src, p) = Frame(sent[i])[j]
      BY <1>8, <2>2, <3>5 DEF Carries, pos
    <3> QED
      BY <1>7, <3>5, <3>6, <3>7, <1>1, <1>9 DEF pos
  <2> QED
    BY <1>1, <1>9, <2>1, <2>2 DEF Carries, FrameLen
<1>13. CodecTypes' /\ DecodedIsSent'
  <2>1. TypeOK'
    BY <1>1, <1>4, <1>6, StateKept DEF CodecInv, CodecTypes, TypeOK
  <2>2. \A i \in 1..(Sent') : Len(sent'[i]) <= EncoderMax
    BY <1>1, <1>9 DEF CodecInv, CodecTypes
  <2>3. DecodedIsSent'
    BY <1>1, <1>9 DEF CodecInv, DecodedIsSent
  <2> QED
    BY <2>1, <2>2, <2>3 DEF CodecTypes
<1> QED
  BY <1>10, <1>12, <1>13 DEF CodecInv

\* Where the decoder is, when the head of the frame is still in the buffer and
\* when it is not.
LEMMA HeadOrNot ==
    ASSUME CodecTypes, DecodedIsSent, NEW cut, Cuts(cut)
    PROVE  /\ cut[Decoded] \in Nat /\ FieldLen \in Nat /\ Decoded \in Nat /\ Sent \in Nat
           /\ state = DecodeHeadState => Place(cut) = cut[Decoded]
           /\ state # DecodeHeadState => Place(cut) = cut[Decoded] + FieldLen
<1>1. Sent \in Nat /\ Decoded \in 0..Sent /\ FieldLen \in Nat
  BY LenProperties, CodecAssumption DEF CodecTypes, TypeOK, DecodedIsSent, Sent, Decoded
<1>2. cut[Decoded] \in Nat
  BY <1>1 DEF Cuts
<1> QED
  BY <1>1, <1>2 DEF Place

\* What decode_head reads is the length of the next frame, and what it leaves in the
\* buffer is the rest of that frame.
LEMMA HeadRead ==
    ASSUME LengthsFit, CodecTypes, DecodedIsSent, NEW cut, Cuts(cut),
           Carries(cut, src, Place(cut)),
           NEW length \in Nat, NEW data, DecodeHead(length, data) \/ HeadKnown(length, data)
    PROVE  /\ Decoded < Sent /\ length = 1 + Len(sent[Decoded + 1])
           /\ data \in Seq(Bytes) /\ Carries(cut, data, cut[Decoded] + FieldLen)
<1>1. /\ cut[Decoded] \in Nat /\ FieldLen \in Nat /\ Decoded \in Nat /\ Sent \in Nat
      /\ src \in Seq(Bytes) /\ Len(src) \in Nat
  BY HeadOrNot, LenProperties DEF CodecTypes, TypeOK
<1>2. CASE HeadKnown(length, data)
  <2>1. state = <<length>> /\ state # DecodeHeadState /\ data = src
    BY <1>2 DEF HeadKnown, DecodeDataState, DecodeHeadState
  <2>2. Decoded < Sent /\ state = <<1 + Len(sent[Decoded + 1])>>
    BY <2>1 DEF DecodedIsSent, DecodeDataState
  <2>3. length = 1 + Len(sent[Decoded + 1])
    BY <2>1, <2>2
  <2>4. Place(cut) = cut[Decoded] + FieldLen
    BY <2>1, HeadOrNot
  <2> QED
    BY <1>1, <2>1, <2>2, <2>3, <2>4
<1>3. CASE DecodeHead(length, data)
  <2>1. /\ state = DecodeHeadState /\ HeaderLen <= Len(src)
        /\ length = GetUInt(src) /\ data = SubSeq(src, FieldLen + 1, Len(src))
    BY <1>1, <1>3 DEF DecodeHead, Skipped, HeaderLen
  <2>2. Place(cut) = cut[Decoded] /\ Carries(cut, src, cut[Decoded])
    BY <2>1, HeadOrNot
  <2>3. HeaderLen \in Nat \ {0} /\ FieldLen \in 0..Len(src) /\ HeaderLen = FieldLen + 1
    BY <1>1, <2>1 DEF HeaderLen
  <2>4. src # <<>>
    BY <1>1, <2>1, <2>3, EmptySeq
  <2>5. Decoded < Sent
    BY <2>2, <2>4, NextExists
  <2> DEFINE next == sent[Decoded + 1]
  <2>6. Decoded + 1 \in 1..Sent
    BY <1>1, <2>5
  <2>7. next \in Seq(Bytes) /\ Len(next) <= EncoderMax
    BY <2>6, ElementOfSeq DEF CodecTypes, TypeOK, Sent
  <2>8. Len(next) \in Nat /\ FrameLen(next) = HeaderLen + Len(next)
    BY <2>7, LenProperties DEF FrameLen
  <2>9. \A k \in 1..FieldLen : src[k] = Frame(next)[k]
    <3>1. TAKE k \in 1..FieldLen
    <3>2. k \in 1..Len(src) /\ 0 \in 0..HeaderLen /\ 0 + k = k /\ 0 + k <= FrameLen(next)
      <4> HIDE DEF next
      <4>1. k \in 1..Len(src) /\ 0 \in 0..HeaderLen /\ 0 + k = k
        BY <1>1, <2>3
      <4>2. k <= FrameLen(next)
        BY <1>1, <2>3, <2>8
      <4> QED
        BY <4>1, <4>2
    <3>3. cut[Decoded] + 0 = cut[Decoded]
      BY <1>1
    <3>4. Carries(cut, src, cut[Decoded] + 0)
      BY <2>2, <3>3
    <3>5. src[k] = Frame(next)[0 + k]
      BY <1>1, <2>5, <3>2, <3>4, NextFrame
    <3> QED
      BY <3>2, <3>5
  <2> HIDE DEF next
  <2>10. length = 1 + Len(next)
    BY <1>1, <2>1, <2>7, <2>9, FieldRead
  <2>11. data \in Seq(Bytes) /\ Carries(cut, data, cut[Decoded] + FieldLen)
    BY <1>1, <2>1, <2>2, <2>3, Passed
  <2> QED
    BY <2>5, <2>10, <2>11 DEF next
<1> QED
  BY <1>2, <1>3

\* The decoder hands over the next payload, or remembers its length.
LEMMA DecodeStep ==
    ASSUME LengthsFit, CodecInv, Decode
    PROVE  CodecInv'
<1>1. PICK length \in 0..DecoderMax, data \in {src, Skipped} :
          /\ DecodeHead(length, data) \/ HeadKnown(length, data)
          /\ DecodeData(length, data)
  BY DEF Decode
<1>2. UNCHANGED <<offered, sent, wire, failed>> /\ length \in Nat
  BY <1>1, CodecAssumption DEF Decode
<1>3. PICK cut : Cuts(cut) /\ Carries(cut, src, Place(cut))
  BY DEF CodecInv
<1>4. /\ cut[Decoded] \in Nat /\ FieldLen \in Nat /\ Decoded \in Nat /\ Sent \in Nat
      /\ FieldLen # 0
  BY <1>3, HeadOrNot, CodecAssumption DEF CodecInv
<1>5. /\ Decoded < Sent /\ length = 1 + Len(sent[Decoded + 1])
      /\ data \in Seq(Bytes) /\ Carries(cut, data, cut[Decoded] + FieldLen)
  BY <1>1, <1>2, <1>3, HeadRead DEF CodecInv
<1> DEFINE next == sent[Decoded + 1]
<1>6. Decoded + 1 \in 1..Sent
  BY <1>4, <1>5
<1>7. next \in Seq(Bytes) /\ Len(next) \in Nat /\ Len(next) <= EncoderMax
  <2>1. next \in Seq(Bytes)
    BY <1>6, ElementOfSeq DEF CodecInv, CodecTypes, TypeOK, Sent
  <2> HIDE DEF next
  <2> QED
    <3>1. Len(sent[Decoded + 1]) <= EncoderMax
      BY <1>6 DEF CodecInv, CodecTypes
    <3>2. Len(sent[Decoded + 1]) \in Nat
      BY <2>1, LenProperties DEF next
    <3> QED
      BY <2>1, <3>1, <3>2 DEF next
<1>8. Sent' = Sent /\ Cuts(cut)' /\ Len(data) \in Nat
  BY <1>2, <1>3, <1>5, LenProperties DEF Sent, Cuts, FrameLen
<1>9. CASE Len(data) >= length
  <2>1. /\ decoded' = Append(decoded, SubSeq(data, 2, length))
        /\ src' = SubSeq(data, length + 1, Len(data))
        /\ state' = DecodeHeadState
    BY <1>1, <1>9 DEF DecodeData
  <2>2. length \in 0..Len(data)
    BY <1>2, <1>8, <1>9
  <2>3. /\ src' \in Seq(Bytes)
        /\ Carries(cut, src', cut[Decoded] + FieldLen + length)
    BY <1>3, <1>4, <1>5, <2>1, <2>2, Passed DEF CodecInv
  <2> DEFINE payload == SubSeq(data, 2, length)
  <2>4. /\ payload \in Seq(Bytes) /\ Len(payload) = Len(next)
        /\ \A k \in 1..Len(next) : payload[k] = data[k + 1]
    <3>1. length = 1 + Len(next)
      BY <1>5
    <3> HIDE DEF next
    <3>2. 2 \in Nat \ {0} /\ length \in 0..Len(data) /\ 2 <= length + 1
      BY <1>7, <2>2, <3>1
    <3>3. /\ payload \in Seq(Bytes) /\ Len(payload) = length - 2 + 1
          /\ \A k \in 1..(length - 2 + 1) : payload[k] = data[2 + k - 1]
      BY <1>5, <3>2, PartOf
    <3> HIDE DEF payload
    <3>4. length - 2 + 1 = Len(next)
      BY <1>7, <3>1
    <3> QED
      BY <1>7, <3>3, <3>4
  <2> HIDE DEF payload
  <2>5. \A k \in 1..Len(next) : payload[k] = next[k]
    <3>1. TAKE k \in 1..Len(next)
    <3>2. /\ k + 1 \in 1..Len(data) /\ FieldLen \in 0..HeaderLen
          /\ FieldLen + (k + 1) = HeaderLen + k /\ FieldLen + (k + 1) <= FrameLen(next)
      <4>1. length = 1 + Len(next)
        BY <1>5
      <4> HIDE DEF next
      <4> QED
        BY <1>4, <1>7, <1>8, <1>9, <4>1 DEF HeaderLen, FrameLen
    <3>3. data[k + 1] = Frame(next)[FieldLen + (k + 1)]
      BY <1>3, <1>5, <3>2, NextFrame DEF CodecInv
    <3>4. Frame(next)[HeaderLen + k] = next[k]
      BY <1>7, FrameParts
    <3> QED
      BY <2>4, <3>2, <3>3, <3>4
  <2>6. payload = next
    BY <1>7, <2>4, <2>5, SeqEqual
  <2>7. /\ decoded' \in Seq(Seq(Bytes)) /\ Decoded' = Decoded + 1
        /\ \A i \in 1..Decoded : decoded'[i] = decoded[i]
        /\ decoded'[Decoded + 1] = next
    <3>1. decoded' = Append(decoded, payload)
      BY <2>1 DEF payload
    <3> QED
      BY <2>4, <2>6, <3>1, AppendProperties DEF CodecInv, CodecTypes, TypeOK, Decoded
  <2>8. CodecTypes'
    <3>1. TypeOK'
      BY <1>2, <2>1, <2>3, <2>7 DEF CodecInv, CodecTypes, TypeOK
    <3> QED
      BY <1>2, <3>1 DEF CodecInv, CodecTypes, Sent
  <2>9. DecodedIsSent'
    <3>1. Decoded + 1 <= Sent
      BY <1>4, <1>5
    <3>2. \A i \in 1..(Decoded + 1) : decoded'[i] = sent[i]
      <4>1. TAKE i \in 1..(Decoded + 1)
      <4>2. CASE i = Decoded + 1
        BY <2>7, <4>2
      <4>3. CASE i \in 1..Decoded
        BY <2>7, <4>3 DEF CodecInv, DecodedIsSent
      <4> QED
        BY <1>4, <4>2, <4>3
    <3>3. state' = DecodeHeadState'
      BY <2>1 DEF DecodeHeadState
    <3> QED
      BY <1>2, <1>8, <2>7, <3>1, <3>2, <3>3 DEF DecodedIsSent
  <2>10. Place(cut)' = cut[Decoded] + FieldLen + length
    <3>1. cut[Decoded + 1] = cut[(Decoded + 1) - 1] + FrameLen(next)
      BY <1>3, <1>6 DEF Cuts
    <3>2. (Decoded + 1) - 1 = Decoded /\ length = 1 + Len(next)
      BY <1>4, <1>5
    <3>3. state' = DecodeHeadState'
      BY <2>1 DEF DecodeHeadState
    <3>4. Place(cut)' = cut[Decoded + 1] + 0
      BY <2>7, <3>3 DEF Place
    <3> HIDE DEF next
    <3>5. FrameLen(next) = FieldLen + 1 + Len(next)
      BY DEF FrameLen, HeaderLen
    <3>6. cut[Decoded + 1] = cut[Decoded] + FieldLen + length
      BY <1>4, <1>7, <3>1, <3>2, <3>5
    <3>7. cut[Decoded] + FieldLen + length \in Nat
      BY <1>2, <1>4
    <3> QED
      BY <3>4, <3>6, <3>7
  <2>11. Carries(cut, src, Place(cut))'
    <3>1. PICK pos \in Nat : pos = cut[Decoded] + FieldLen + length
      BY <1>2, <1>4
    <3>2. pos + Len(src') + Len(wire) = cut[Sent]
      BY <2>3, <3>1 DEF Carries
    <3>3. ASSUME NEW i \in (Decoded + 1 + 1)..Sent, NEW j \in 1..FrameLen(sent[i]),
                 pos < cut[i - 1] + j
          PROVE  At(src', cut[i - 1] + j - pos) = Frame(sent[i])[j]
      <4>1. i \in (Decoded + 1)..Sent
        BY <1>4
      <4> QED
        BY <2>3, <3>1, <3>3, <4>1 DEF Carries
    <3> QED
      BY <1>2, <1>8, <2>7, <2>10, <3>1, <3>2, <3>3 DEF Carries, At, FrameLen
  <2> QED
    BY <1>8, <2>8, <2>9, <2>11 DEF CodecInv
<1>10. CASE ~(Len(data) >= length)
  <2>1. state' = DecodeDataState(length) /\ src' = data /\ decoded' = decoded
    BY <1>1, <1>10 DEF DecodeData
  <2>2. Decoded' = Decoded
    BY <2>1 DEF Decoded
  <2>3. CodecTypes'
    <3>1. state' \in {DecodeHeadState} \cup {DecodeDataState(n) : n \in 0..DecoderMax}
      BY <1>1, <2>1
    <3>2. TypeOK'
      BY <1>2, <1>5, <2>1, <3>1 DEF CodecInv, CodecTypes, TypeOK
    <3> QED
      BY <1>2, <3>2 DEF CodecInv, CodecTypes, Sent
  <2>4. DecodedIsSent'
    BY <1>2, <1>5, <1>8, <2>1, <2>2 DEF CodecInv, DecodedIsSent, DecodeDataState
  <2>5. Place(cut)' = cut[Decoded] + FieldLen
    BY <2>1, <2>2 DEF Place, DecodeDataState, DecodeHeadState
  <2>6. Carries(cut, src, Place(cut))'
    BY <1>2, <1>5, <1>8, <2>1, <2>2, <2>5 DEF Carries, At, FrameLen
  <2> QED
    BY <1>8, <2>3, <2>4, <2>6 DEF CodecInv
<1> QED
  BY <1>9, <1>10

\* A step that fails, or none.
LEMMA Kept ==
    ASSUME CodecInv, UNCHANGED <<offered, sent, wire, src, state, decoded>>, failed' \in BOOLEAN
    PROVE  CodecInv'
<1>1. CodecTypes' /\ DecodedIsSent'
  <2>1. TypeOK'
    BY StateKept DEF CodecInv, CodecTypes, TypeOK
  <2>2. DecodedIsSent'
    BY DEF CodecInv, DecodedIsSent, Sent, Decoded
  <2> QED
    BY <2>1, <2>2 DEF CodecInv, CodecTypes, Sent
<1>2. PICK cut : Cuts(cut) /\ Carries(cut, src, Place(cut))
  BY DEF CodecInv
<1>3. Cuts(cut)' /\ Carries(cut, src, Place(cut))'
  BY <1>2 DEF Cuts, Carries, At, Place, Sent, Decoded, FrameLen
<1> QED
  BY <1>1, <1>3 DEF CodecInv

\* Nothing is sent at the start.
LEMMA InitCodecInv ==
    ASSUME Init
    PROVE  CodecInv
<1>1. Sent = 0 /\ Decoded = 0 /\ Len(src) = 0 /\ Len(wire) = 0
  BY EmptySeq DEF Init, Sent, Decoded
<1>2. CodecTypes
  <2>1. TypeOK
    <3>1. 0 \in 0..MaxFrames
      BY CodecAssumption
    <3>2. <<>> \in Seq(Seq(Bytes)) /\ <<>> \in Seq(Bytes)
      BY EmptySeq
    <3> QED
      BY <3>1, <3>2 DEF Init, TypeOK
  <2> QED
    BY <1>1, <2>1 DEF CodecTypes
<1>3. DecodedIsSent
  BY <1>1 DEF Init, DecodedIsSent
<1>4. PICK cut : cut = [i \in 0..0 |-> 0]
  OBVIOUS
<1>5. Cuts(cut)
  BY <1>1, <1>4 DEF Cuts
<1>6. Place(cut) = 0
  BY <1>1, <1>4 DEF Init, Place
<1>7. Carries(cut, src, Place(cut))
  BY <1>1, <1>4, <1>6 DEF Carries
<1> QED
  BY <1>2, <1>3, <1>5, <1>7 DEF CodecInv

\* Every step of the stream keeps the invariant.
LEMMA NextCodecInv ==
    ASSUME LengthsFit, CodecInv, [Next]_vars
    PROVE  CodecInv'
<1>1. CASE \E length \in Lengths : Encode(length)
  BY <1>1, EncodeStep
<1>2. CASE \E n \in 1..Len(wire) : Arrive(n)
  BY <1>2, ArriveStep
<1>3. CASE Decode
  BY <1>3, DecodeStep
<1>4. CASE DecodeFails
  BY <1>4, Kept DEF DecodeFails
<1>5. CASE UNCHANGED vars
  BY <1>5, Kept DEF vars, CodecInv, CodecTypes, TypeOK
<1> QED
  BY <1>1, <1>2, <1>3, <1>4, <1>5 DEF Next

\* The payloads handed over are the first of those that were accepted.
LEMMA PrefixFollows ==
    ASSUME CodecInv
    PROVE  DecodedIsPrefix
<1>1. /\ sent \in Seq(Seq(Bytes)) /\ decoded \in Seq(Seq(Bytes))
      /\ Len(sent) \in Nat /\ Len(decoded) \in Nat /\ Len(decoded) <= Len(sent)
      /\ \A i \in 1..Len(decoded) : decoded[i] = sent[i]
  BY LenProperties DEF CodecInv, CodecTypes, TypeOK, DecodedIsSent, Sent, Decoded
<1> DEFINE n == Len(decoded)
<1>2. 1 \in Nat \ {0} /\ n \in 0..Len(decoded) /\ n \in 0..Len(sent) /\ 1 <= n + 1 /\ n - 1 + 1 = n
  BY <1>1
<1>3. /\ SubSeq(decoded, 1, n) \in Seq(Seq(Bytes)) /\ Len(SubSeq(decoded, 1, n)) = n - 1 + 1
      /\ \A k \in 1..(n - 1 + 1) : SubSeq(decoded, 1, n)[k] = decoded[1 + k - 1]
  BY <1>1, <1>2, PartOf
<1>5. /\ SubSeq(sent, 1, n) \in Seq(Seq(Bytes)) /\ Len(SubSeq(sent, 1, n)) = n - 1 + 1
      /\ \A k \in 1..(n - 1 + 1) : SubSeq(sent, 1, n)[k] = sent[1 + k - 1]
  BY <1>1, <1>2, PartOf
<1> HIDE DEF n
<1>6. \A k \in 1..n : SubSeq(decoded, 1, n)[k] = SubSeq(sent, 1, n)[k]
  <2>1. TAKE k \in 1..n
  <2>2. k \in 1..(n - 1 + 1) /\ 1 + k - 1 = k /\ k \in 1..Len(decoded)
    BY <1>1, <1>2 DEF n
  <2> QED
    BY <1>1, <1>3, <1>5, <2>2
<1>7. SubSeq(decoded, 1, n) = SubSeq(sent, 1, n)
  BY <1>2, <1>3, <1>5, <1>6, SeqEqual
<1> QED
  BY <1>1, <1>7 DEF DecodedIsPrefix, IsPrefix, n

\* Both ends of a stream keep their types: what is on the wire are bytes, whatever the
\* lengths of the payloads (codec.rs:44-94).
THEOREM TypeCorrect ==
    ASSUME LengthsFit
    PROVE  Spec => []TypeOK
<1>1. Init => CodecInv
  BY InitCodecInv
<1>2. CodecInv /\ [Next]_vars => CodecInv'
  BY NextCodecInv
<1>3. CodecInv => TypeOK
  BY DEF CodecInv, CodecTypes
<1> QED
  BY <1>1, <1>2, <1>3, PTL DEF Spec

\* Wherever the network cuts the stream, and whatever the sizes of the length field
\* and of the frames, the payloads the decoder hands over are the first of those the
\* encoder accepted (codec.rs:56-167), if the length field can hold the length of
\* every frame the encoder lets through.
THEOREM DecodesWhatWasSent ==
    ASSUME LengthsFit
    PROVE  Spec => []DecodedIsPrefix
<1>1. Init => CodecInv
  BY InitCodecInv
<1>2. CodecInv /\ [Next]_vars => CodecInv'
  BY NextCodecInv
<1>3. CodecInv => DecodedIsPrefix
  BY PrefixFollows
<1> QED
  BY <1>1, <1>2, <1>3, PTL DEF Spec
=============================================================================
