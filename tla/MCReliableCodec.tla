--------------------------- MODULE MCReliableCodec ---------------------------
(* Bytes of four values and a length field of two of them.                 *)
EXTENDS ReliableCodec

MCLengths == {0, 1, 5, 6}

ASSUME FieldIsWideEnough == LengthsFit
=============================================================================
