------------------------ MODULE MCOfficialRefresh ------------------------
(* OfficialRefresh for TLC: two apps. *)
EXTENDS OfficialRefresh

CONSTANTS a1, a2
=============================================================================
