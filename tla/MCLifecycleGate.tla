---------------------------- MODULE MCLifecycleGate ----------------------------
(* Instances of LifecycleGate for TLC; the cfg files give the constants.     *)
EXTENDS LifecycleGate
=============================================================================
