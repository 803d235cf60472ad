---------------------------- MODULE MCIrohClient ----------------------------
(* Two connections; two channel ids, one of them configured.               *)
EXTENDS IrohClient

MCIds == 0..1
MCConfigured == {0}
MCConnections == 0..1
=============================================================================
