--------------------------- MODULE ChatToResponses ---------------------------
(***************************************************************************)
(* The incremental translation of a Chat Completions stream into Responses *)
(* events: ChatToResponsesStreamConverter of protocol_translation.py and   *)
(* the relay loop of gateway_relay.py that drives it, for a route with the *)
(* TRANSPARENT_CONVERTED policy.  Each event passes the ledger of the tool *)
(* calls before it is written (decode_event of tool_compatibility), for    *)
(* plain functions, which the ledger relays as they are or rejects.        *)
(*                                                                         *)
(* A text is the sequence of the fragments it was streamed in; fragments,  *)
(* call ids and function names are model values.                           *)
(***************************************************************************)
EXTENDS Integers, FiniteSets, SequencesExt

CONSTANTS
    Chunks,         \* what the upstream may send
    Indices,        \* positions of tool calls in it
    Done,           \* the "[DONE]" line
    NewLine,        \* what joins the fragments of the reasoning
    Declared,       \* names of the functions that the request declares
    None,
    MaxChunks       \* bound on the length of a stream

(* A chunk has at most one fragment of reasoning and of content, deltas of *)
(* tool calls and a finish reason.  The other kinds are a usage chunk, one *)
(* that cannot be translated whatever the state, and an error object.      *)
ASSUME ChunksAssumption ==
    \A c \in Chunks : /\ c.kind \in {"delta", "usage", "bad", "error"}
                      /\ c.finish \in {None, "stop", "tool_calls", "length", "other"}
                      /\ c.tools \in Seq(ToSet(c.tools))
                      /\ \A d \in ToSet(c.tools) : d.index \in Indices

ASSUME NoneAssumption == None \notin Nat

VARIABLES
    conv,       \* the converter
    events,     \* what the relay has written to the client
    upstream,   \* open, or how it ended: "end", "break", "error", "refused"
    history,    \* the chunks received so far
    ledger      \* the request declared tools: the events pass a ledger

chatVars == <<conv, events, upstream, history, ledger>>

NoTool == [out |-> None, id |-> None, name |-> None, args |-> <<>>, added |-> FALSE]

(* An output index is allocated when an item is first mentioned; pending   *)
(* is the finish reason that was seen.                                     *)
NewConverter ==
    [created |-> FALSE, reasoning |-> <<>>, reasoningIndex |-> None, text |-> <<>>, messageIndex |-> None,
     tools |-> [i \in Indices |-> NoTool], next |-> 0,
     pending |-> None, completed |-> FALSE, refused |-> FALSE, out |-> <<>>]

ChatInit ==
    /\ conv = NewConverter
    /\ events = <<>> /\ history = <<>>
    /\ upstream = "open"
    /\ ledger \in BOOLEAN

-----------------------------------------------------------------------------
(* Each step takes the converter to the next one, with the events it        *)
(* returns in out.                                                          *)

Event(type, index, item, text) ==
    [type |-> type, index |-> index, item |-> item, text |-> text, output |-> <<>>]

MessageItem == [kind |-> "message", id |-> None, name |-> None]
ReasoningItem == [kind |-> "reasoning", id |-> None, name |-> None]
CallItem(t) == [kind |-> "function_call", id |-> t.id, name |-> t.name]

Emit(s, es) == [s EXCEPT !.out = @ \o es]

(* An exception: the events of this call are lost with it *)
Refuse(s) == [s EXCEPT !.refused = TRUE, !.out = <<>>]

(* response.created and response.in_progress *)
Created(s) ==
    IF s.created THEN s
    ELSE Emit([s EXCEPT !.created = TRUE], <<Event("created", None, None, <<>>)>>)

(* _reasoning_events: a fragment that was seen before is skipped *)
ReasoningDelta(s, r) ==
    IF r = None \/ Contains(s.reasoning, r) THEN s
    ELSE LET a == Created([s EXCEPT !.reasoning = Append(@, r)])
             b == IF a.reasoningIndex # None THEN a
                  ELSE Emit([a EXCEPT !.reasoningIndex = a.next, !.next = @ + 1],
                            <<Event("added", a.next, ReasoningItem, <<>>)>>)
         IN Emit(b, <<Event("reasoning.delta", b.reasoningIndex, ReasoningItem, <<r>>)>>)

(* _message_start_events: the item and its content part *)
MessageStart(s) ==
    LET a == Created(s)
    IN IF a.messageIndex # None THEN a
       ELSE Emit([a EXCEPT !.messageIndex = a.next, !.next = @ + 1], <<Event("added", a.next, MessageItem, <<>>)>>)

ContentDelta(s, f) ==
    IF f = None THEN s
    ELSE LET a == MessageStart([s EXCEPT !.text = Append(@, f)])
         IN Emit(a, <<Event("text.delta", a.messageIndex, MessageItem, <<f>>)>>)

(* Mutant: an item is announced as soon as its id is known *)
ToolAddedById(s, i) ==
    LET t == s.tools[i]
    IN IF t.added \/ t.id = None THEN s
       ELSE Emit([Created(s) EXCEPT !.tools[i].added = TRUE], <<Event("added", t.out, CallItem(t), <<>>)>>)

(* _tool_added_events: both its id and its name have to be known *)
ToolAdded(s, i) ==
    LET t == s.tools[i]
    IN IF t.added \/ t.id = None \/ t.name = None THEN s
       ELSE Emit([Created(s) EXCEPT !.tools[i].added = TRUE], <<Event("added", t.out, CallItem(t), <<>>)>>)

(* _tool_state *)
WithToolState(s, i) ==
    IF s.tools[i].out # None THEN s ELSE [s EXCEPT !.tools[i].out = s.next, !.next = @ + 1]

Conflicting(old, new) == old # None /\ new # None /\ old # new
Known(old, new) == IF new = None THEN old ELSE new

(* Mutant: arguments that come before the item is announced are dropped *)
ToolDeltaAnnounced(s, d) ==
    LET a == WithToolState(s, d.index)
        t == a.tools[d.index]
        b == ToolAdded([a EXCEPT !.tools[d.index] = [t EXCEPT !.id = Known(@, d.id), !.name = Known(@, d.name)]], d.index)
        u == b.tools[d.index]
    IN IF s.refused THEN s
       ELSE IF Conflicting(t.id, d.id) \/ Conflicting(t.name, d.name) THEN Refuse(s)
       ELSE IF u.added /\ d.args # None
       THEN Emit([b EXCEPT !.tools[d.index].args = Append(@, d.args)],
                 <<Event("args.delta", u.out, CallItem(u), <<d.args>>)>>)
       ELSE b

(* One entry of tool_calls.  Arguments that come before the item is        *)
(* announced are kept, and are part of the final arguments only.           *)
ToolDelta(s, d) ==
    LET a == WithToolState(s, d.index)
        t == a.tools[d.index]
        b == ToolAdded([a EXCEPT !.tools[d.index] =
                           [t EXCEPT !.id = Known(@, d.id), !.name = Known(@, d.name),
                                     !.args = IF d.args = None THEN @ ELSE Append(@, d.args)]], d.index)
        u == b.tools[d.index]
    IN IF s.refused THEN s
       ELSE IF Conflicting(t.id, d.id) \/ Conflicting(t.name, d.name) THEN Refuse(s)
       ELSE IF u.added /\ d.args # None
       THEN Emit(b, <<Event("args.delta", u.out, CallItem(u), <<d.args>>)>>)
       ELSE b

(* The entries of one chunk, in order *)
ToolDeltasOf(s, ds) ==
    LET after[n \in 0..Len(ds)] == IF n = 0 THEN s ELSE ToolDelta(after[n - 1], ds[n])
    IN  after[Len(ds)]

FinishReason(s, f) ==
    IF s.refused \/ f = None THEN s
    ELSE IF f = "other" THEN Refuse(s)
    ELSE [s EXCEPT !.pending = IF f = "length" THEN "incomplete" ELSE "completed"]

(* events_for_chunk *)
EventsForChunk(s, c) ==
    IF c.kind = "usage" THEN s
    ELSE IF c.kind = "bad" \/ s.completed \/ s.pending # None THEN Refuse(s)
    ELSE FinishReason(ToolDeltasOf(ContentDelta(ReasoningDelta(s, c.reasoning), c.content), c.tools), c.finish)

-----------------------------------------------------------------------------
(* _complete_events                                                        *)

(* What the event for the text says, and what the item says                *)
DoneEvents(type, index, item, said, text) ==
    <<Event(type, index, item, said), Event("item.done", index, item, text)>>

(* The fragments, with line breaks between them                            *)
Joined(text) ==
    [k \in 1 .. (IF text = <<>> THEN 0 ELSE 2 * Len(text) - 1) |->
        IF k % 2 = 1 THEN text[(k + 1) \div 2] ELSE NewLine]

FinishTool(s, i) ==
    LET a == ToolAdded(s, i)
        t == a.tools[i]
    IN Emit(a, DoneEvents("args.done", t.out, CallItem(t), t.args, t.args))

(* The calls, by output index *)
FinishTools(s) ==
    LET at(n) == {i \in Indices : s.tools[i].out = n}
        after[n \in 0..s.next] ==
            IF n = 0 THEN s
            ELSE IF at(n - 1) = {} THEN after[n - 1]
            ELSE FinishTool(after[n - 1], CHOOSE i \in at(n - 1) : TRUE)
    IN  after[s.next]

(* The items of the response, by output index *)
Output(es) ==
    LET done == {k \in DOMAIN es : es[k].type = "item.done"}
        used == {es[k].index : k \in done}
        nth(n) == CHOOSE i \in used : Cardinality({j \in used : j < i}) = n - 1
        closing(i) == CHOOSE k \in done : es[k].index = i
    IN [n \in 1..Cardinality(used) |->
          [item |-> es[closing(nth(n))].item, text |-> es[closing(nth(n))].text]]

(* The reasoning's item has one part for each fragment.                    *)
CompleteEvents(s, status) ==
    LET a == Created([s EXCEPT !.completed = TRUE])
        b == IF a.reasoningIndex = None THEN a
             ELSE Emit(a, DoneEvents("reasoning.done", a.reasoningIndex, ReasoningItem, Joined(a.reasoning), a.reasoning))
        c == FinishTools(b)
        d == IF c.messageIndex = None THEN c
             ELSE Emit(c, DoneEvents("text.done", c.messageIndex, MessageItem, c.text, c.text))
    IN IF s.completed THEN s
       ELSE IF \E i \in Indices : s.tools[i].out # None /\ (s.tools[i].id = None \/ s.tools[i].name = None)
       THEN Refuse(a)
       ELSE Emit(d, <<[Event(status, None, None, <<>>) EXCEPT !.output = Output(d.out)]>>)

(* events_for_done *)
EventsForDone(s) == CompleteEvents(s, IF s.pending = "incomplete" THEN "incomplete" ELSE "completed")

-----------------------------------------------------------------------------
(* The ledger.  It knows of a call what was written of it, by its id: the   *)
(* id of an item is made from the id of the call.                           *)

EventsOf(es, types, id) == SelectSeq(es, LAMBDA e : e.type \in types /\ e.item.id = id)

Registered(es, id) == SelectSeq(EventsOf(es, {"added"}, id), LAMBDA e : e.item.name \in Declared)

(* _native_fragments: the arguments relayed so far                          *)
RelayedArguments(es, id) ==
    LET deltas == EventsOf(es, {"args.delta"}, id) IN FlattenSeq([k \in DOMAIN deltas |-> deltas[k].text])

(* decode_event raises: a second call with an id, arguments of a call that  *)
(* was not registered or whose arguments are done, final arguments other    *)
(* than those relayed, an item that is done under another name              *)
Rejected(es, e) ==
    LET registered == Registered(es, e.item.id)
        again == EventsOf(es, {"args.done"}, e.item.id) # <<>>
    IN /\ ledger /\ e.index # None
       /\ e.item.kind = "function_call"
       /\ \/ e.type = "added" /\ e.item.name \in Declared /\ registered # <<>>
          \/ e.type \in {"args.delta", "args.done"} /\ (registered = <<>> \/ again)
          \/ e.type = "args.done" /\ RelayedArguments(es, e.item.id) \notin {<<>>, e.text}
          \/ e.type = "item.done" /\ (registered = <<>> \/ registered[1].item # e.item)

-----------------------------------------------------------------------------
(* The relay                                                               *)

Terminal == {"completed", "incomplete", "failed"}
HasEnded(es) == \E k \in DOMAIN es : es[k].type \in Terminal
Committed == HasEnded(events)

(* A failure after es: an error event or, at a stream that has not begun,   *)
(* an error response; the seam refuses either once the stream is sealed.    *)
WithFailure(es) == IF HasEnded(es) THEN es ELSE Append(es, Event("failed", None, None, <<>>))

(* write_converted_response_event writes the first n of the events: all of  *)
(* them, or those before one that the ledger rejects                        *)
IsWritten(out, n) ==
    /\ \A m \in 1 .. n : ~Rejected(events \o SubSeq(out, 1, m - 1), out[m])
    /\ n < Len(out) => Rejected(events \o SubSeq(out, 1, n), out[n + 1])

(* The converter has become s; fate is what becomes of the upstream if      *)
(* nothing is refused.                                                      *)
Relays(s, fate) ==
    \E n \in 0 .. Len(s.out) :
        LET es == events \o SubSeq(s.out, 1, n)
            refused == s.refused \/ n < Len(s.out)
        IN /\ IsWritten(s.out, n)
           /\ conv' = [s EXCEPT !.out = <<>>]
           /\ events' = IF refused \/ (fate = "end" /\ ~s.completed) THEN WithFailure(es) ELSE es
           /\ upstream' = IF refused THEN "refused" ELSE fate

ChunkArrives ==
    /\ upstream = "open" /\ Len(history) < MaxChunks
    /\ \E c \in Chunks :
          /\ history' = Append(history, c)
          /\ IF c.kind = "error" THEN events' = WithFailure(events) /\ upstream' = "error" /\ UNCHANGED conv
             ELSE Relays(EventsForChunk(conv, c), "open")
    /\ UNCHANGED ledger

DoneArrives ==
    /\ upstream = "open" /\ Len(history) < MaxChunks
    /\ history' = Append(history, Done)
    /\ Relays(EventsForDone(conv), "open")
    /\ UNCHANGED ledger

(* The upstream closes its stream: a finish reason is enough to complete it *)
StreamEnds ==
    /\ upstream = "open"
    /\ Relays(IF conv.pending = None THEN conv ELSE EventsForDone(conv), "end")
    /\ UNCHANGED <<history, ledger>>

(* A frame that is cut off, a broken connection or silence *)
StreamBreaks ==
    /\ upstream = "open"
    /\ events' = WithFailure(events) /\ upstream' = "break"
    /\ UNCHANGED <<conv, history, ledger>>

ChatNext == ChunkArrives \/ DoneArrives \/ StreamEnds \/ StreamBreaks
=============================================================================
