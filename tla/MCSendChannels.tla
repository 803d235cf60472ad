--------------------------- MODULE MCSendChannels ---------------------------
(* One channel of any kind with three payloads, or two channels with two.  *)
EXTENDS SendChannels
=============================================================================
