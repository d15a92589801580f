--------------------------- MODULE MCGatewayChat ---------------------------
(***************************************************************************)
(* Bounds of the gateway's chat: attempts are interchangeable.             *)
(***************************************************************************)
EXTENDS GatewayChat, TLC

Symmetry == Permutations(Runners)
=============================================================================
