------------------------------ MODULE SseReader ------------------------------
(***************************************************************************)
(* UpstreamSseReaderLifecycle (src-python/gateway_transport.py): a reader  *)
(* thread, a bounded queue and an idempotent close, together with its      *)
(* consumer iter_upstream_sse_lines (src-python/gateway_relay.py) and the  *)
(* admission.cancel() that may close it from a third thread.               *)
(*                                                                         *)
(* The upstream sends lines 1..Lines and then ends cleanly or fails.       *)
(* Eof stands for the empty line, Err for an exception of readline.        *)
(***************************************************************************)
EXTENDS Naturals, Sequences, SequencesExt

CONSTANTS
    Lines,      \* how many lines the upstream sends
    Capacity    \* QUEUE_CAPACITY

ASSUME SseConstants == Lines \in Nat /\ Capacity \in Nat \ {0}

Eof == 0
Err == Lines + 1

Actors == {"reader", "consumer", "canceller"}

VARIABLES
    fate,       \* how this upstream ends: Eof or Err
    next,       \* the upstream's next line
    readQueue, closed, responseClosed, mustClose, closes,   \* the lifecycle
    cancelled,  \* the admission's event
    reader, hand,                                       \* reader thread
    consumer, item, consumed, outcome, idle,     \* consumer thread
    canceller

upstreamVars  == <<fate, next>>
closeVars     == <<closed, responseClosed, mustClose, closes>>
readerVars    == <<reader, hand, next>>
consumerVars  == <<consumer, item, consumed, outcome, idle>>
sseVars == <<fate, readQueue, closeVars, cancelled, readerVars, consumerVars, canceller>>

QueueItems == 0..(Lines + 1)
Outcomes == {"none", "eof", "error", "closed", "shutdown", "idle_timeout",
             "keepalive_failed", "abandoned"}

SseTypeOK ==
    /\ fate \in {Eof, Err}
    /\ next \in 1..(Lines + 1)
    /\ readQueue \in Seq(QueueItems) /\ Len(readQueue) <= Capacity
    /\ closed \in BOOLEAN /\ responseClosed \in BOOLEAN
    /\ mustClose \in [Actors -> BOOLEAN]
    /\ closes \in Nat
    /\ cancelled \in BOOLEAN
    /\ reader \in {"unstarted", "check", "read", "raised", "putCheck", "put",
                   "close", "closing", "exited"}
    /\ hand \in QueueItems
    /\ consumer \in {"attach", "attachClose", "attachClosing", "start", "top",
                     "get", "timedOut", "noItem", "got", "yielded", "finally",
                     "finallyClosing", "join", "done"}
    /\ item \in QueueItems
    /\ consumed \in Seq(QueueItems)
    /\ outcome \in Outcomes
    /\ idle \in {"fresh", "expired"}
    /\ canceller \in {"idle", "look", "bare", "close", "closing", "done"}

SseInit ==
    /\ fate \in {Eof, Err}
    /\ next = 1
    /\ readQueue = <<>>
    /\ closed = FALSE /\ responseClosed = FALSE
    /\ mustClose = [a \in Actors |-> FALSE]
    /\ closes = 0
    /\ cancelled = FALSE
    /\ reader = "unstarted" /\ hand = Eof
    /\ consumer = "attach" /\ item = Eof /\ consumed = <<>>
    /\ outcome = "none"
    /\ idle = "fresh"
    /\ canceller = "idle"

(* _cancelled()                                                             *)
Cancelled == closed \/ cancelled

(* close(), under _close_lock ...                                           *)
CloseLock(a) ==
    /\ closed' = TRUE
    /\ mustClose' = [mustClose EXCEPT ![a] = ~responseClosed]
    /\ responseClosed' = TRUE
    /\ UNCHANGED closes

(* ... and the close of the response, outside it.                           *)
CloseResponse(a) ==
    /\ closes' = IF mustClose[a] THEN closes + 1 ELSE closes
    /\ mustClose' = [mustClose EXCEPT ![a] = FALSE]
    /\ UNCHANGED <<closed, responseClosed>>

(***************************************************************************)
(* The reader thread: _read_upstream and _enqueue                          *)
(***************************************************************************)

ReaderGoes(from, to) ==
    /\ reader = from
    /\ reader' = to
    /\ UNCHANGED <<fate, cancelled, consumerVars, canceller>>

ReaderChecks ==
    /\ ReaderGoes("check", IF Cancelled THEN "close" ELSE "read")
    /\ UNCHANGED <<readQueue, closeVars, hand, next>>

(* readline returns the next line, or the upstream's end.                   *)
ReadUpstream ==
    /\ hand' = IF next <= Lines THEN next ELSE fate
    /\ next' = IF next <= Lines THEN next + 1 ELSE next
    /\ ReaderGoes("read", IF hand' = Err THEN "raised" ELSE "putCheck")
    /\ UNCHANGED <<readQueue, closeVars>>

(* readline on a response that another thread has closed: b"" or an error.  *)
ReadClosedResponse ==
    /\ closes > 0
    /\ hand' \in {Eof, Err}
    /\ ReaderGoes("read", IF hand' = Err THEN "raised" ELSE "putCheck")
    /\ UNCHANGED <<readQueue, closeVars, next>>

(* An exception is only reported when nobody closed the lifecycle.          *)
ReportEveryException ==
    /\ ReaderGoes("raised", "put")
    /\ UNCHANGED <<readQueue, closeVars, hand, next>>

ReaderRaised ==
    /\ ReaderGoes("raised", IF Cancelled THEN "close" ELSE "putCheck")
    /\ UNCHANGED <<readQueue, closeVars, hand, next>>

EnqueueChecks ==
    /\ ReaderGoes("putCheck", IF Cancelled THEN "close" ELSE "put")
    /\ UNCHANGED <<readQueue, closeVars, hand, next>>

Enqueue ==
    /\ Len(readQueue) < Capacity
    /\ readQueue' = Append(readQueue, hand)
    /\ ReaderGoes("put", IF hand \in 1..Lines THEN "check" ELSE "close")
    /\ UNCHANGED <<closeVars, hand, next>>

(* queue.Full: look at the close event again.                               *)
EnqueueNeverRechecks ==
    /\ Len(readQueue) = Capacity
    /\ ReaderGoes("put", "put")
    /\ UNCHANGED <<readQueue, closeVars, hand, next>>

EnqueueFull ==
    /\ Len(readQueue) = Capacity
    /\ ReaderGoes("put", "putCheck")
    /\ UNCHANGED <<readQueue, closeVars, hand, next>>

ReaderCloses ==
    /\ ReaderGoes("close", "closing") /\ CloseLock("reader")
    /\ UNCHANGED <<readQueue, hand, next>>

ReaderExits ==
    /\ ReaderGoes("closing", "exited") /\ CloseResponse("reader")
    /\ UNCHANGED <<readQueue, hand, next>>

(***************************************************************************)
(* The consumer: iter_upstream_sse_lines over get()                        *)
(***************************************************************************)

ConsumerGoes(from, to) ==
    /\ consumer = from
    /\ consumer' = to
    /\ UNCHANGED <<fate, next, hand, cancelled, canceller>>

EndsWith(result) == outcome' = result

(* __init__ attaches the lifecycle to the admission, which closes it when   *)
(* the request is already cancelled.                                        *)
Attach ==
    /\ ConsumerGoes("attach", IF cancelled THEN "attachClose" ELSE "start")
    /\ UNCHANGED <<readQueue, closeVars, reader, item, consumed, outcome, idle>>

AttachCloses ==
    /\ \/ ConsumerGoes("attachClose", "attachClosing") /\ CloseLock("consumer")
       \/ ConsumerGoes("attachClosing", "start") /\ CloseResponse("consumer")
    /\ UNCHANGED <<readQueue, reader, item, consumed, outcome, idle>>

(* start(): at most one reader thread, and none after close.                *)
Start ==
    /\ ConsumerGoes("start", "top")
    /\ reader' = IF closed THEN reader ELSE "check"
    /\ UNCHANGED <<readQueue, closeVars, item, consumed, outcome, idle>>

(* The top of the loop: cancellation, then the idle guards.                 *)
LoopTop ==
    /\ UNCHANGED <<readQueue, closeVars, reader, item, consumed, idle>>
    /\ \/ ~cancelled /\ idle = "fresh" /\ ConsumerGoes("top", "get") /\ UNCHANGED outcome
       \/ cancelled /\ ConsumerGoes("top", "finally") /\ EndsWith("shutdown")
       \/ ~cancelled /\ idle = "expired" /\ ConsumerGoes("top", "finally")
          /\ EndsWith("idle_timeout")

GetItem ==
    /\ readQueue # <<>>
    /\ item' = Head(readQueue)
    /\ readQueue' = Tail(readQueue)
    /\ consumed' = Append(consumed, Head(readQueue))
    /\ ConsumerGoes("get", "got")
    /\ UNCHANGED <<closeVars, reader, outcome, idle>>

(* The queue stays empty for the whole poll: queue.Empty ...                *)
GetNeverTimesOut == FALSE /\ UNCHANGED sseVars

GetTimesOut ==
    /\ readQueue = <<>>
    /\ ConsumerGoes("get", "timedOut")
    /\ UNCHANGED <<readQueue, closeVars, reader, item, consumed, outcome, idle>>

(* ... and then, without another look at the queue, get() turns a close it  *)
(* sees into ("line", b""), or raises queue.Empty again.                    *)
GetAfterTimeout ==
    /\ ConsumerGoes("timedOut", IF Cancelled THEN "got" ELSE "noItem")
    /\ item' = IF Cancelled THEN Eof ELSE item
    /\ UNCHANGED <<readQueue, closeVars, reader, consumed, outcome, idle>>

(* except queue.Empty in the consumer.                                      *)
NoItem ==
    /\ UNCHANGED <<readQueue, closeVars, reader, item, consumed, idle>>
    /\ \/ cancelled /\ ConsumerGoes("noItem", "finally") /\ EndsWith("shutdown")
       \/ ~cancelled /\ closed /\ ConsumerGoes("noItem", "finally") /\ EndsWith("closed")
       \/ ~cancelled /\ ~closed /\ idle = "expired"
          /\ ConsumerGoes("noItem", "finally") /\ EndsWith("idle_timeout")
       \/ ~cancelled /\ ~closed /\ idle = "fresh"
          /\ \/ ConsumerGoes("noItem", "top") /\ UNCHANGED outcome
             \/ ConsumerGoes("noItem", "finally") /\ EndsWith("keepalive_failed")

(* An item: raise the error, or yield the line and stamp last_transport_at. *)
HandleItem ==
    /\ UNCHANGED <<readQueue, closeVars, reader, item, consumed>>
    /\ \/ item = Err
          /\ ConsumerGoes("got", "finally")
          /\ EndsWith(IF cancelled THEN "shutdown" ELSE "error")
          /\ UNCHANGED idle
       \/ item = Eof
          /\ ConsumerGoes("got", "finally")
          /\ EndsWith("eof")
          /\ UNCHANGED idle
       \/ item \in 1..Lines
          /\ ConsumerGoes("got", "yielded")
          /\ idle' = "fresh"
          /\ UNCHANGED outcome

(* The caller takes the line and comes back, or drops the generator.        *)
Resume ==
    /\ UNCHANGED <<readQueue, closeVars, reader, item, consumed, idle>>
    /\ \/ ConsumerGoes("yielded", "top") /\ UNCHANGED outcome
       \/ ConsumerGoes("yielded", "finally") /\ EndsWith("abandoned")

(* The idle timeout elapses while the consumer waits for the upstream or    *)
(* for the caller's downstream write.                                       *)
IdleExpires ==
    /\ idle = "fresh"
    /\ consumer = "yielded" \/ (consumer = "get" /\ readQueue = <<>>)
    /\ idle' = "expired"
    /\ UNCHANGED <<fate, readQueue, closeVars, cancelled, readerVars, canceller>>
    /\ UNCHANGED <<consumer, item, consumed, outcome>>

(* finally: close (also the close that precedes an idle or keepalive        *)
(* failure) and a bounded join.                                             *)
Finally ==
    /\ \/ ConsumerGoes("finally", "finallyClosing") /\ CloseLock("consumer")
       \/ ConsumerGoes("finallyClosing", "join") /\ CloseResponse("consumer")
    /\ UNCHANGED <<readQueue, reader, item, consumed, outcome, idle>>

Join ==
    /\ ConsumerGoes("join", "done")
    /\ UNCHANGED <<readQueue, closeVars, reader, item, consumed, outcome, idle>>

(***************************************************************************)
(* admission.cancel() from another thread                                  *)
(***************************************************************************)

CancellerGoes(from, to) ==
    /\ canceller = from
    /\ canceller' = to
    /\ UNCHANGED <<fate, readQueue, readerVars, consumerVars>>

(* cancel() sets the event, and then looks up what to close.                *)
Cancel ==
    /\ CancellerGoes("idle", "look")
    /\ cancelled' = TRUE
    /\ UNCHANGED closeVars

(* Before the attach the admission holds the bare response, and closes it   *)
(* behind the lifecycle's back: the attach will find the event set, so that *)
(* no reader reads from it.                                                 *)
CancelCloses ==
    /\ \/ CancellerGoes("look", IF consumer = "attach" THEN "bare" ELSE "close") /\ UNCHANGED closeVars
       \/ CancellerGoes("bare", "done") /\ UNCHANGED closeVars
       \/ CancellerGoes("close", "closing") /\ CloseLock("canceller")
       \/ CancellerGoes("closing", "done") /\ CloseResponse("canceller")
    /\ UNCHANGED cancelled

AllDone ==
    /\ consumer = "done" /\ reader \in {"unstarted", "exited"}
    /\ canceller \in {"idle", "done"}
    /\ UNCHANGED sseVars

-----------------------------------------------------------------------------

ReaderStep ==
    \/ ReaderChecks \/ ReadClosedResponse \/ ReaderRaised \/ EnqueueChecks
    \/ Enqueue \/ EnqueueFull \/ ReaderCloses \/ ReaderExits

ConsumerStep ==
    \/ Attach \/ AttachCloses \/ Start \/ LoopTop \/ GetItem \/ GetTimesOut
    \/ GetAfterTimeout \/ NoItem \/ HandleItem \/ Resume \/ Finally \/ Join

SseNext ==
    \/ ReaderStep \/ ReadUpstream \/ ConsumerStep \/ IdleExpires
    \/ Cancel \/ CancelCloses \/ AllDone

(* Both threads and a cancel() under way keep running.  The upstream may be *)
(* silent for ever (ReadUpstream is not fair) and so may time; a readline   *)
(* on a closed response returns.                                            *)
SseSpec == SseInit /\ [][SseNext]_sseVars
FairSseSpec == SseSpec /\ WF_sseVars(ReaderStep) /\ WF_sseVars(ConsumerStep) /\ WF_sseVars(CancelCloses)

-----------------------------------------------------------------------------
(* Properties *)

Script == [i \in 1..(Lines + 1) |-> IF i <= Lines THEN i ELSE fate]

(* What the consumer took from the queue and what still waits there is what *)
(* the upstream sent: in order, nothing twice, never more than the queue    *)
(* holds, nothing invented by a readline that only ended because the        *)
(* Gateway closed the response.  An exception is raised to the relay only   *)
(* if the upstream really failed, after every line before the failure.      *)
QueueIsGenuine ==
    /\ SseTypeOK
    /\ IsPrefix(consumed \o readQueue, Script)
    /\ outcome = "error" => fate = Err /\ consumed = Script

(* No reader thread and no open response outlives the consumer for ever,    *)
(* whatever made the consumer leave; and although three threads may call    *)
(* close(), the lifecycle closes the upstream response only once.           *)
NothingLeaks ==
    consumer = "done" ~> [](closes = 1 /\ reader \in {"unstarted", "exited"})

(* A cancelled request stops reading, even from a silent upstream.          *)
CancelEndsConsumer == cancelled ~> consumer = "done"

=============================================================================
