------------------------ MODULE MCClientConnection ------------------------
(* Two attempts of one connection: the first, and one reconnect.  One      *)
(* LostConnection message waits at a time.                                 *)
EXTENDS ClientConnection
=============================================================================
