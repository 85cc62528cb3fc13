-------------------------- MODULE StreamTranslation --------------------------
(***************************************************************************)
(* A streamed answer on its way through both translations: a Gateway turns *)
(* the Chat Completions stream of its upstream into Responses events, and  *)
(* a second one, a Chat client of the first's Responses stream, turns them *)
(* back.  Beside them stands what the buffered translation of the same     *)
(* chunks answers (chat_stream_chunks_to_response_events), which the       *)
(* Gateway uses instead when the stream is not relayed as it comes.        *)
(*                                                                         *)
(* Nothing flows back, so the second Gateway may read each event before    *)
(* the next chunk arrives at the first.                                    *)
(***************************************************************************)
EXTENDS ChatToResponses

CONSTANTS
    CallIds,    \* ids of function calls
    Normal,     \* _normalize_chat_function_call_name, a function of names
    CallsIn     \* the calls written out in a text, for the texts that are such

INSTANCE ResponsesToChat

VARIABLES
    reader,     \* the second Gateway's converter
    read,       \* the events it has read
    chat,       \* what its relay has written to the Chat client
    over        \* "open", or how that stream ended: "done", "error"

readerVars == <<reader, read, chat, over>>
vars == <<chatVars, readerVars>>

Init ==
    /\ ChatInit
    /\ reader \in {NewReader(preserve) : preserve \in BOOLEAN}
    /\ read = 0 /\ chat = <<>> /\ over = "open"

CaughtUp == over # "open" \/ read = Len(events)

FirstGateway == CaughtUp /\ ChatNext /\ UNCHANGED readerVars

ChatError == ChatChunk("error", None, NoItem, <<>>)

(* One frame; those after the terminal event are skipped *)
ReadEvent ==
    /\ over = "open" /\ read < Len(events)
    /\ read' = read + 1
    /\ LET e == events[read + 1]
           r == IF reader.completed \/ e.type \in {"failed", "incomplete"} THEN reader ELSE ChunksForEvent(reader, e)
           fails == ~reader.completed /\ (e.type \in {"failed", "incomplete"} \/ r.refused)
       IN /\ reader' = [r EXCEPT !.out = <<>>]
          /\ chat' = IF fails THEN Append(chat, ChatError) ELSE chat \o r.out
          /\ over' = IF fails THEN "error" ELSE over
    /\ UNCHANGED chatVars

(* The first Gateway closes its stream *)
EventsEnd ==
    /\ over = "open" /\ upstream # "open" /\ read = Len(events)
    /\ over' = IF reader.completed THEN "done" ELSE "error"
    /\ chat' = Append(chat, IF reader.completed THEN ChatChunk("done", None, NoItem, <<>>) ELSE ChatError)
    /\ UNCHANGED <<chatVars, reader, read>>

(* The connection between the two fails or stays silent *)
EventsBreak ==
    /\ over = "open"
    /\ over' = "error" /\ chat' = Append(chat, ChatError)
    /\ UNCHANGED <<chatVars, reader, read>>

Finished == upstream # "open" /\ over # "open" /\ UNCHANGED vars

Next == FirstGateway \/ ReadEvent \/ EventsEnd \/ EventsBreak \/ Finished

Spec == Init /\ [][Next]_vars

-----------------------------------------------------------------------------
(* The buffered translation of a whole stream of chunks h                  *)

ChunksOf(h) == SelectSeq(h, LAMBDA c : c # Done)

Present(seq) == SelectSeq(seq, LAMBDA f : f # None)

IsTerminal(c) == IF c = Done THEN TRUE ELSE c.finish # None

IsLate(c) == IF c = Done THEN FALSE ELSE c.kind # "usage"

BufferedFinished(h) == \E k \in DOMAIN h : IsTerminal(h[k])

(* _validate_chat_stream_terminal_order *)
OutOfOrder(h) == \E j, k \in DOMAIN h : j < k /\ IsTerminal(h[j]) /\ IsLate(h[k])

ToolDeltas(h, i) ==
    LET chunks == ChunksOf(h)
    IN SelectSeq(FlattenSeq([k \in DOMAIN chunks |-> chunks[k].tools]), LAMBDA d : d.index = i)

ToolIds(h, i) == {d.id : d \in ToSet(ToolDeltas(h, i))} \ {None}
ToolNames(h, i, Name) == {Name[name] : name \in {d.name : d \in ToSet(ToolDeltas(h, i))} \ {None}}
MentionedTools(h) == {i \in Indices : ToolDeltas(h, i) # <<>>}

(* Name is what becomes of a function's name: Normal, or nothing            *)
AsGiven == [name \in DOMAIN Normal |-> name]

BufferedRefused(h, Name) ==
    \/ OutOfOrder(h)
    \/ \E c \in ToSet(ChunksOf(h)) : c.kind = "bad" \/ c.finish = "other"
    \/ \E i \in MentionedTools(h) :
          \/ Cardinality(ToolIds(h, i)) > 1 \/ Cardinality(ToolNames(h, i, Name)) > 1
          \/ BufferedFinished(h) /\ (ToolIds(h, i) = {} \/ ToolNames(h, i, Name) = {})

BufferedStatus(h) ==
    IF \E c \in ToSet(ChunksOf(h)) : c.finish = "length" THEN "incomplete" ELSE "completed"

BufferedReasoning(h) ==
    LET chunks == ChunksOf(h)
        AddPart(parts, r) == IF Contains(parts, r) THEN parts ELSE Append(parts, r)
    IN FoldLeft(AddPart, <<>>, Present([k \in DOMAIN chunks |-> chunks[k].reasoning]))

BufferedText(h) == LET chunks == ChunksOf(h) IN Present([k \in DOMAIN chunks |-> chunks[k].content])

BufferedCall(h, i, Name) ==
    [item |-> [kind |-> "function_call", id |-> CHOOSE id \in ToolIds(h, i) : TRUE,
               name |-> CHOOSE name \in ToolNames(h, i, Name) : TRUE],
     text |-> Present([k \in DOMAIN ToolDeltas(h, i) |-> ToolDeltas(h, i)[k].args])]

(* The message and the calls in the order in which they are first mentioned *)
BufferedOrder(h) ==
    LET chunks == ChunksOf(h)
        mentions(c) == (IF c.content = None THEN <<>> ELSE <<None>>) \o [k \in DOMAIN c.tools |-> c.tools[k].index]
        AddMention(order, m) == IF Contains(order, m) THEN order ELSE Append(order, m)
    IN FoldLeft(AddMention, <<>>, FlattenSeq([k \in DOMAIN chunks |-> mentions(chunks[k])]))

BufferedOutput(h, Name) ==
    LET order == BufferedOrder(h)
    IN [k \in DOMAIN order |-> IF order[k] = None THEN [item |-> MessageItem, text |-> BufferedText(h)]
                               ELSE BufferedCall(h, order[k], Name)]

(* A text that is nothing but calls, in an answer with nothing else         *)
IsWrittenCalls(h, preserve) ==
    /\ MentionedTools(h) = {} /\ (preserve => BufferedReasoning(h) = <<>>)
    /\ BufferedText(h) \in DOMAIN CallsIn

(* The output of the response: the reasoning first, where it is preserved.  *)
(* Otherwise it is taken out of the chunks before they are translated       *)
(* (_suppress_chat_reasoning_extensions).                                   *)
BufferedAnswer(h, preserve) ==
    LET reasoning == IF preserve /\ BufferedReasoning(h) # <<>>
                     THEN <<[item |-> ReasoningItem, text |-> BufferedReasoning(h)]>> ELSE <<>>
    IN IF IsWrittenCalls(h, preserve) THEN CallsIn[BufferedText(h)] ELSE reasoning \o BufferedOutput(h, Normal)

-----------------------------------------------------------------------------
(* Correctness                                                             *)

OfType(es, type) == {k \in DOMAIN es : es[k].type = type}

DeltaTypes == {"text.delta", "reasoning.delta", "args.delta"}

(* The text of the deltas of an item, in order *)
DeltaText(es, index) ==
    LET upTo[n \in 0..Len(es)] ==
          IF n = 0 THEN <<>>
          ELSE IF es[n].index = index /\ es[n].type \in DeltaTypes THEN upTo[n - 1] \o es[n].text
          ELSE upTo[n - 1]
    IN  upTo[Len(es)]

(* The final text of an item is that of its deltas.  Arguments that came   *)
(* before the announcement are in the final text only.                     *)
TextFits(deltas, item, text) ==
    IF item.kind = "function_call" THEN IsSuffix(deltas, text) ELSE deltas = text

(* What the event for the text of an item says: of the reasoning, its       *)
(* fragments on lines of their own, whatever the deltas ran together.       *)
SaidFits(deltas, e) ==
    IF e.type = "reasoning.done" THEN e.text = Joined(deltas) ELSE TextFits(deltas, e.item, e.text)

SayTypes == {"text.done", "reasoning.done", "args.done"}

(* An event announces the item with this index *)
IsAnnounced(es, index, item) ==
    \E j \in OfType(es, "added") : es[j].index = index /\ es[j].item = item

WellFormed(es) ==
    /\ \A k \in OfType(es, "created") : k = 1
    /\ \A k \in DOMAIN es :
          /\ es[k].type \in Terminal => k = Len(es)
          /\ es[k].type \notin Terminal => es[1].type = "created"
          /\ es[k].index = None <=> es[k].type \in Terminal \cup {"created"}
          /\ es[k].index # None /\ es[k].type # "added" =>
                \E j \in OfType(es, "added") : j < k /\ es[j].index = es[k].index
    /\ \A j, k \in OfType(es, "added") : es[j].index = es[k].index => j = k
    /\ \A k \in OfType(es, "item.done") :
          /\ \A j \in k + 1 .. Len(es) : es[j].index # es[k].index
          /\ IsAnnounced(es, es[k].index, es[k].item)
          /\ TextFits(DeltaText(es, es[k].index), es[k].item, es[k].text)
    /\ \A k \in DOMAIN es : es[k].type \in SayTypes => SaidFits(DeltaText(SubSeq(es, 1, k), es[k].index), es[k])
    /\ \A k \in OfType(es, "completed") \cup OfType(es, "incomplete") :
          /\ {es[j].index : j \in OfType(es, "added")} = 0 .. Len(es[k].output) - 1
          /\ \A n \in DOMAIN es[k].output : \E j \in OfType(es, "item.done") :
                es[j].index = n - 1 /\ es[k].output[n] = [item |-> es[j].item, text |-> es[j].text]

(***************************************************************************)
(* What a Responses client relies on.  The stream is created first.  When  *)
(* the upstream is done with, however it ended and whatever the ledger     *)
(* dropped, there is one terminal event, and it is the last.  Every item   *)
(* is announced once, with the identity it ends with, before anything else *)
(* is said of it, and closed once, after everything else, with the         *)
(* fragments of its deltas; before that, its text is said in one piece: of *)
(* the reasoning, with line breaks that the deltas did not have.  A        *)
(* completed response lists exactly the closed items, by their indices.    *)
(***************************************************************************)
StreamIsWellFormed == WellFormed(events) /\ (upstream # "open" => Committed)

(* The chunks up to an error object, at which the relay stops *)
Relayed == SelectSeq(history, LAMBDA c : IF c = Done THEN TRUE ELSE c.kind # "error")

IsReasoning(o) == o.item.kind = "reasoning"

(* The arguments of a call that came before, and since, its id and name    *)
(* were both known                                                         *)
ArgumentsSplit(h, i) ==
    LET ds == ToolDeltas(h, i)
        known(n) == (\E m \in 1 .. n : ds[m].id # None) /\ (\E m \in 1 .. n : ds[m].name # None)
    IN /\ \E n \in DOMAIN ds : ~known(n) /\ ds[n].args # None
       /\ \E n \in DOMAIN ds : known(n) /\ ds[n].args # None

(* What the ledger refuses and the buffered translation does not *)
LedgerRefuses(h) ==
    /\ ledger
    /\ LET announced == {i \in MentionedTools(h) : ToolIds(h, i) # {} /\ ToolNames(h, i, AsGiven) # {}}
       IN \E i \in announced :
             \/ ~(ToolNames(h, i, AsGiven) \subseteq Declared)
             \/ ArgumentsSplit(h, i)
             \/ \E j \in announced \ {i} : ToolIds(h, i) = ToolIds(h, j)

Answered == events # <<>> /\ events[Len(events)].type \in {"completed", "incomplete"}

(***************************************************************************)
(* The two implementations of the translation agree, and where they do     *)
(* not.  The relay refuses a stream only if the buffered translation does, *)
(* or the ledger.  It answers a stream that ends exactly when the buffered *)
(* one does, but one with an error object only if [DONE] came before.  The *)
(* answers have the same status, message, calls and reasoning, and they    *)
(* are the same answer exactly if the reasoning came first, or there is    *)
(* none where it is suppressed, every name is its own normal form, and the *)
(* text is not a written call.                                             *)
(***************************************************************************)
SameAsBuffered ==
    LET h == Relayed
        refused == BufferedRefused(h, AsGiven)
        output == events[Len(events)].output
        reasoning == SelectSeq(output, IsReasoning)
    IN /\ upstream = "refused" => refused \/ LedgerRefuses(h)
       /\ upstream = "end" => ~refused /\ (Answered <=> BufferedFinished(h))
       /\ upstream = "error" => (Answered <=> Done \in ToSet(history))
       /\ Answered /\ upstream # "refused" =>
             /\ ~refused /\ ~LedgerRefuses(h)
             /\ events[Len(events)].type = BufferedStatus(h)
             /\ SelectSeq(output, LAMBDA o : ~IsReasoning(o)) = BufferedOutput(h, AsGiven)
             /\ FlattenSeq([k \in DOMAIN reasoning |-> reasoning[k].text]) = BufferedReasoning(h)
             /\ \A preserve \in BOOLEAN :
                   output = BufferedAnswer(h, preserve) <=>
                      /\ reasoning # <<>> => preserve /\ IsReasoning(output[1])
                      /\ ~IsWrittenCalls(h, preserve)
                      /\ \A i \in MentionedTools(h) : ToolNames(h, i, AsGiven) = ToolNames(h, i, Normal)

(* Without the chunk that was refused, which may come after the answer *)
Translated == IF upstream = "refused" THEN Front(Relayed) ELSE Relayed

(* What a Chat client puts together *)
Received(type) == SelectSeq(chat, LAMBDA c : c.type = type)

ChatText(type) == FlattenSeq([k \in DOMAIN Received(type) |-> Received(type)[k].text])

ChatCalls ==
    {[id |-> c.id, name |-> c.name,
      args |-> LET mine == SelectSeq(chat, LAMBDA d : d.type = "args" /\ d.index = c.index)
               IN FlattenSeq([k \in DOMAIN mine |-> mine[k].text])] : c \in ToSet(Received("header"))}

BufferedCalls(h) ==
    {LET c == BufferedCall(h, i, AsGiven) IN [id |-> c.item.id, name |-> c.item.name, args |-> c.text] : i \in MentionedTools(h)}

(* A stream that a Chat client of a Responses stream can be given *)
Portable(h) ==
    /\ reader.preserve \/ BufferedReasoning(h) = <<>>
    /\ \A i \in MentionedTools(h) : ~ArgumentsSplit(h, i)
    /\ \A i, j \in MentionedTools(h) : i # j => ToolIds(h, i) # ToolIds(h, j)

(***************************************************************************)
(* A translated answer is the answer.  Once the Chat client has seen the   *)
(* finish reason, its text and its calls with their arguments are those of *)
(* the upstream, and the finish reason says whether there are calls; and   *)
(* every portable completed answer gets through: one with reasoning only   *)
(* if the route preserves it, with distinct call ids, and without a call   *)
(* whose arguments began before its name was known and went on after it.   *)
(* Reasoning of two fragments or more reaches the client twice, and is     *)
(* counted exactly: once as it was streamed, once more on lines of its own.*)
(***************************************************************************)
RoundTrip ==
    /\ reader.completed =>
          /\ ChatText("content") = BufferedText(Translated)
          /\ ChatCalls = BufferedCalls(Translated)
          /\ LET reasoning == BufferedReasoning(Translated)
             IN ChatText("reasoning") = IF Len(reasoning) > 1 THEN reasoning \o Joined(reasoning) ELSE reasoning
          /\ Len(Received(IF ChatCalls = {} THEN "stop" ELSE "tool_calls")) = 1
    /\ over = "open" /\ read = Len(events) /\ OfType(events, "completed") # {} /\ Portable(Translated) => reader.completed
=============================================================================
