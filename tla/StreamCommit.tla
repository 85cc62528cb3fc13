---------------------------- MODULE StreamCommit ----------------------------
(***************************************************************************)
(* What a client of the Gateway is sent in answer to one streaming         *)
(* request: one header block, then events, then one terminal event, and    *)
(* nothing once the stream is over; or, if the stream was never started, a *)
(* single JSON answer.  Two steps of the code fall short of that and are   *)
(* steps of their own here, so that nothing else can.  GatewayExchange, in *)
(* which retries, relays and the error dispatcher all write to the same    *)
(* client, is shown to implement it.                                       *)
(***************************************************************************)
EXTENDS Integers, Sequences

VARIABLES
    sent,   \* what the client was sent, in order
    over    \* the stream accepts no further byte

vars == <<sent, over>>

Items == {"headers",    \* the header block of an SSE response
          "data",       \* an event, or a part of one
          "begun",      \* a terminal event without the blank line that ends it
          "terminal",   \* a terminal event, or the end of the one begun
          "json"}       \* a header block with a JSON body

TypeOK == sent \in Seq(Items) /\ over \in BOOLEAN

LastIs(item) == sent # <<>> /\ sent[Len(sent)] = item

Init == sent = <<>> /\ over = FALSE

SendHeaders == ~over /\ sent = <<>> /\ sent' = <<"headers">> /\ UNCHANGED over

SendData ==
    /\ ~over /\ sent # <<>> /\ ~LastIs("terminal")
    /\ \E item \in {"data", "begun"} : sent' = Append(sent, item)
    /\ UNCHANGED over

SendTerminal == ~over /\ sent # <<>> /\ sent' = Append(sent, "terminal") /\ over' = TRUE

SendJson == ~over /\ sent = <<>> /\ sent' = <<"json">> /\ over' = TRUE

Close == ~over /\ over' = TRUE /\ UNCHANGED sent

(* The upstream failed inside its terminal event: the event is completed but *)
(* the stream is not sealed, so a second terminal event can follow           *)
CompleteCut ==
    /\ ~over /\ LastIs("begun")
    /\ sent' = Append(sent, "terminal") /\ UNCHANGED over

(* A second HTTP answer in the middle of the stream, which is lost with it *)
BreakStream ==
    /\ ~over /\ sent # <<>> /\ ~LastIs("terminal")
    /\ sent' = Append(sent, "json") /\ over' = TRUE

Next == SendHeaders \/ SendData \/ SendTerminal \/ SendJson \/ Close \/ CompleteCut \/ BreakStream

Spec == Init /\ [][Next]_vars

(***************************************************************************)
(* The shape of every stream that Spec allows: a second terminal event is  *)
(* the last item and follows the completion of one that was cut off.       *)
(***************************************************************************)
WellFormed ==
    \A i \in DOMAIN sent :
        /\ (sent[i] = "headers") => (i = 1)
        /\ (i = 1) => sent[i] \in {"headers", "json"}
        /\ (sent[i] = "json") => (i = Len(sent) /\ over)
        /\ (sent[i] = "terminal") =>
              \/ i = Len(sent) /\ (over \/ sent[i - 1] = "begun")
              \/ i = Len(sent) - 1 /\ sent[i - 1] = "begun" /\ sent[i + 1] = "terminal" /\ over
=============================================================================
