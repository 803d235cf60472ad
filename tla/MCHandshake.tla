----------------------------- MODULE MCHandshake -----------------------------
(* One attempt, and an endpoint without channels.                          *)
EXTENDS Handshake
MCNone == {}
=============================================================================
