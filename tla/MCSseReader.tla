----------------------------- MODULE MCSseReader -----------------------------
(* SseReader for TLC; the cfg files give the constants.                     *)
EXTENDS SseReader
=============================================================================
