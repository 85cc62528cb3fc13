-------------------------- MODULE MCGatewayAdmission --------------------------
(* Instances of GatewayAdmission for TLC; the cfg files give the constants. *)
EXTENDS GatewayAdmission
=============================================================================
