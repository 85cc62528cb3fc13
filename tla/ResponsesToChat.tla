--------------------------- MODULE ResponsesToChat ---------------------------
(***************************************************************************)
(* The incremental translation of a Responses stream into Chat Completions *)
(* chunks: ResponsesToChatStreamConverter of protocol_translation.py, as   *)
(* operators from one converter to the next.  Events are those of          *)
(* ChatToResponses; usage, timestamps and the ids of messages are left     *)
(* out, and raw reasoning events, which ChatToResponses never sends.       *)
(***************************************************************************)
EXTENDS Integers, FiniteSets, SequencesExt

CONSTANTS
    CallIds,        \* ids of function calls
    None

(* index is the position of the call in the Chat stream; a call that has   *)
(* one has been announced with its id and name.                            *)
NoCall == [index |-> None, name |-> None, args |-> <<>>]

(* preserve is preserve_reasoning_history, emitted the reasoning texts     *)
(* already sent, visible whether anything of the answer was.               *)
NewReader(preserve) ==
    [preserve |-> preserve, calls |-> [i \in CallIds |-> NoCall], emitted |-> {},
     visible |-> FALSE, completed |-> FALSE, refused |-> FALSE, out |-> <<>>]

ChatChunk(type, index, item, text) ==
    [type |-> type, index |-> index, id |-> item.id, name |-> item.name, text |-> text]

NoItem == [id |-> None, name |-> None]

(* _chunk *)
Send(r, type, index, item, text) ==
    [r EXCEPT !.out = Append(@, ChatChunk(type, index, item, text)),
              !.visible = @ \/ type \in {"content", "reasoning", "header", "args"}]

(* An exception: the chunks of this call are lost with it *)
Reject(r) == [r EXCEPT !.refused = TRUE, !.out = <<>>]

-----------------------------------------------------------------------------
(* Reasoning                                                               *)

(* A text is sent unless the same text was sent before *)
ReasoningText(r, text) ==
    IF text \in r.emitted THEN r
    ELSE Send([r EXCEPT !.emitted = @ \cup {text}], "reasoning", None, NoItem, text)

(* A delta is always sent *)
ReasoningSummaryDelta(r, text) ==
    Send([r EXCEPT !.emitted = @ \cup {text}], "reasoning", None, NoItem, text)

Parts(text) == [k \in DOMAIN text |-> <<text[k]>>]

(* An item that is done sends at most one of its parts *)
ReasoningItemDone(r, text) ==
    LET missing == SelectSeq(Parts(text), LAMBDA part : part \notin r.emitted)
    IN IF missing = <<>> THEN r ELSE ReasoningText(r, Head(missing))

-----------------------------------------------------------------------------
(* Function calls                                                          *)

(* Mutant: what was sent is not remembered *)
FinalArgumentsForgotten(r, id, final) ==
    LET sent == r.calls[id].args
    IN IF r.refused THEN r
       ELSE IF r.calls[id].index = None \/ ~IsPrefix(sent, final) THEN Reject(r)
       ELSE IF final = sent THEN r
       ELSE Send(r, "args", r.calls[id].index, NoItem, SubSeq(final, Len(sent) + 1, Len(final)))

(* _final_argument_chunks: final arguments have to extend what was sent,   *)
(* and only the rest is sent.                                              *)
FinalArguments(r, id, final) ==
    LET sent == r.calls[id].args
    IN IF r.refused THEN r
       ELSE IF r.calls[id].index = None \/ ~IsPrefix(sent, final) THEN Reject(r)
       ELSE IF final = sent THEN r
       ELSE Send([r EXCEPT !.calls[id].args = final],
                 "args", r.calls[id].index, NoItem, SubSeq(final, Len(sent) + 1, Len(final)))

Announced(r) == {i \in CallIds : r.calls[i].index # None}

(* response.output_item.added.  An item is keyed by its id, which is made  *)
(* from the call id; a second one with the same id is taken for the first. *)
CallAdded(r, item) ==
    LET c == r.calls[item.id]
    IN IF c.index = None
       THEN Send([r EXCEPT !.calls[item.id] = [index |-> Cardinality(Announced(r)), name |-> item.name, args |-> <<>>]],
                 "header", Cardinality(Announced(r)), item, <<>>)
       ELSE IF c.name # item.name THEN Reject(r)
       ELSE FinalArguments(r, item.id, <<>>)

(* response.function_call_arguments.delta *)
CallDelta(r, item, text) ==
    IF r.calls[item.id].index = None THEN Reject(r)
    ELSE Send([r EXCEPT !.calls[item.id].args = @ \o text], "args", r.calls[item.id].index, NoItem, text)

(* A completed call, by itself or in the output of the response *)
CallDone(r, item, text) ==
    IF r.refused THEN r
    ELSE IF r.calls[item.id].name # item.name THEN Reject(r)
    ELSE FinalArguments(r, item.id, text)

-----------------------------------------------------------------------------
OutputItem(r, o) ==
    CASE o.item.kind = "reasoning" -> IF r.preserve THEN FoldLeft(ReasoningText, r, Parts(o.text)) ELSE Reject(r)
      [] o.item.kind = "function_call" -> CallDone(r, o.item, o.text)
      [] OTHER -> r

(* response.completed *)
ResponseCompleted(r, output) ==
    LET a == FoldLeft(OutputItem, r, output)
        reasoned == \E k \in DOMAIN output : output[k].item.kind = "reasoning"
    IN IF a.refused THEN a
       ELSE IF reasoned /\ ~a.visible THEN Reject(a)
       ELSE Send([a EXCEPT !.completed = TRUE], IF Announced(a) = {} THEN "stop" ELSE "tool_calls", None, NoItem, <<>>)

(* chunks_for_event, for events that are not errors *)
ChunksForEvent(r, e) ==
    CASE e.type = "created" -> Send(r, "role", None, NoItem, <<>>)
      [] e.type = "text.delta" -> Send(r, "content", None, NoItem, e.text)
      [] e.type = "reasoning.delta" -> IF r.preserve THEN ReasoningSummaryDelta(r, e.text) ELSE Reject(r)
      [] e.type = "reasoning.done" -> IF r.preserve THEN ReasoningText(r, e.text) ELSE Reject(r)
      [] e.type = "args.delta" -> CallDelta(r, e.item, e.text)
      [] e.type = "args.done" -> FinalArguments(r, e.item.id, e.text)
      [] e.type = "completed" -> ResponseCompleted(r, e.output)
      [] e.type \in {"added", "item.done"} /\ e.item.kind = "reasoning" /\ ~r.preserve -> Reject(r)
      [] e.type = "item.done" /\ e.item.kind = "reasoning" /\ r.preserve -> ReasoningItemDone(r, e.text)
      [] e.type = "added" /\ e.item.kind = "function_call" -> CallAdded(r, e.item)
      [] e.type = "item.done" /\ e.item.kind = "function_call" -> CallDone(r, e.item, e.text)
      [] OTHER -> r
=============================================================================
