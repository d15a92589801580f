--------------------------- MODULE MCGatewayQueue ---------------------------
(* GatewayQueue on small instances. *)
EXTENDS GatewayQueue
CONSTANTS default, other   \* sessions: "default" is the only one with a registered pump

OneSession  == {default}
TwoSessions == {default, other}
=============================================================================
