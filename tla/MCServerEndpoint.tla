-------------------------- MODULE MCServerEndpoint --------------------------
(* Two connections, an endpoint started twice, and one channel, open at    *)
(* the start, that the user closes and opens.                              *)
EXTENDS ServerEndpoint

MCIds == {0}
=============================================================================
