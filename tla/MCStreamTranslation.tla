-------------------------- MODULE MCStreamTranslation --------------------------
(* The instance of StreamTranslation for TLC: one chunk of every shape that *)
(* the converters tell apart.                                               *)
EXTENDS StreamTranslation

CONSTANTS f1, f2, r1, r2, a1, a2, idX, idY, nameG, nameH, aliasG

Empty == [kind |-> "delta", reasoning |-> None, content |-> None, tools |-> <<>>, finish |-> None]

Tool(index, id, name, args) == [index |-> index, id |-> id, name |-> name, args |-> args]

MCChunks ==
    {[Empty EXCEPT !.content = f1],
     [Empty EXCEPT !.reasoning = r1],
     [Empty EXCEPT !.reasoning = r2, !.content = f2],
     [Empty EXCEPT !.tools = <<Tool(0, idX, nameG, None)>>],
     [Empty EXCEPT !.tools = <<Tool(0, None, None, a1)>>],
     [Empty EXCEPT !.tools = <<Tool(0, idX, nameG, a2)>>],
     [Empty EXCEPT !.tools = <<Tool(0, idX, None, None)>>],
     [Empty EXCEPT !.tools = <<Tool(1, idY, nameH, a1)>>],
     [Empty EXCEPT !.tools = <<Tool(1, idX, nameG, None), Tool(0, None, nameG, a1)>>],
     [Empty EXCEPT !.tools = <<Tool(0, idY, aliasG, None)>>, !.finish = "tool_calls"],
     [Empty EXCEPT !.content = f2, !.finish = "stop"],
     [Empty EXCEPT !.finish = "length"],
     [Empty EXCEPT !.finish = "other"],
     [Empty EXCEPT !.kind = "usage"],
     [Empty EXCEPT !.kind = "bad"],
     [Empty EXCEPT !.kind = "error"]}

(* aliasG is another name for nameG *)
MCNormal == [name \in {nameG, nameH, aliasG} |-> IF name = aliasG THEN nameG ELSE name]

MCCallsIn == [text \in {<<f2>>} |-> <<[item |-> [kind |-> "function_call", id |-> idX, name |-> nameG], text |-> <<a1>>]>>]
================================================================================
