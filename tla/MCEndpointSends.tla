--------------------------- MODULE MCEndpointSends ---------------------------
(* Two clients, told apart by nothing but their state, and two channel ids.*)
EXTENDS EndpointSends
MCIds == 0..1
MCSymmetry == Permutations(ClientIds)
=============================================================================
