------------------------- MODULE MCGatewayExchange -------------------------
(* Instances of GatewayExchange; the cfgs choose attempts and line kinds.  *)
EXTENDS GatewayExchange
=============================================================================
