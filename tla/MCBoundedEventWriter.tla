------------------------- MODULE MCBoundedEventWriter -------------------------
(* BoundedEventWriter for TLC; the cfg files give the constants.            *)
EXTENDS BoundedEventWriter
=============================================================================
