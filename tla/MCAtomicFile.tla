--------------------------- MODULE MCAtomicFile ---------------------------
(* Small instances of AtomicFile: processes of both languages. *)
EXTENDS AtomicFile, TLC

CONSTANTS r1, y1

MCLangOf == [p \in Procs |-> IF p = y1 THEN "python" ELSE "rust"]
=============================================================================
