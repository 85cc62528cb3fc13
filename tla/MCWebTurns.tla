----------------------------- MODULE MCWebTurns -----------------------------
(* WebTurns for TLC: two handlers, one thread. *)
EXTENDS WebTurns, TLC

CONSTANTS h1, h2, c1, c2, t1, t2, x, m1, m2

OneThread == (t1 :> x @@ t2 :> x)
FirstTurn == (c1 :> t1 @@ c2 :> t1)

Request(t, m, outs, calls, tools, compact) ==
    [turn |-> t, model |-> m, outs |-> outs, calls |-> calls, tools |-> tools, compact |-> compact]

(* A first request of a turn, results of one or of both of its calls, a     *)
(* result in another turn, a new turn with another model, and a compaction  *)
(* outside any turn                                                         *)
SixRequests ==
    {Request(t1, m1, {}, {}, "plain", FALSE), Request(t1, m1, {c1}, {}, "none", FALSE),
     Request(t1, m1, {c1, c2}, {c2}, "none", FALSE), Request(t2, m1, {c1}, {}, "none", FALSE),
     Request(t2, m2, {}, {}, "none", FALSE), Request(None, m1, {c2}, {}, "collab", TRUE)}

Symmetry == Permutations(Handlers)
=============================================================================
