-------------------------- MODULE MCGatewayLifecycle --------------------------
(* Two apps with one thread each.                                       *)
EXTENDS GatewayLifecycle, TLC

CONSTANTS ta, tb, desktop, cli

Symmetry == Permutations(Pids)

TwoApps == (ta :> desktop) @@ (tb :> cli)
=============================================================================
