---------------------------- MODULE MCRecvChannels ----------------------------
(* An ordered channel whose id leaves a gap below it in the vector, and an *)
(* unreliable one beyond the configured number of channels.  The decoder   *)
(* refuses the first payload of the ordered one.                           *)
EXTENDS RecvChannels

MCChannels == {1, 2}
MCOrdered == {1}
MCUnreliable == {2}
MCOverlong == {<<1, 1>>}
MCLimit == (1 :> 3) @@ (2 :> 1)
=============================================================================
