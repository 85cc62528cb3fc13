-------------------------- MODULE StreamQueues_proofs --------------------------
(***************************************************************************)
(* Proofs about the two bounded queues of a relayed stream: the one that   *)
(* hands the lines of the upstream to the consumer (SseReader) and the one *)
(* that hands the telemetry of the request to the event writer's thread    *)
(* (BoundedEventWriter).  They share no state; both proofs say that what   *)
(* left the queue and what is still in it, put end to end, is what went in.*)
(*                                                                         *)
(* Part 1, the reader, for any number of lines and any queue capacity:     *)
(* what the consumer gets is what the upstream sent, and three threads     *)
(* that may call close() close the response once.                          *)
(*                                                                         *)
(* Part 2, the writer, for any limits, record sizes and number of          *)
(* producers, flushes, rotations and shutdowns.  WriterInv adds to the     *)
(* properties the order of what is in memory: the records of the batch,    *)
(* the one held back and the queue carry on where the completed ones end,  *)
(* and only sentinels come after them.                                     *)
(***************************************************************************)
EXTENDS SseReader, BoundedEventWriter, WellFoundedInduction, FiniteSetTheorems,
        SequenceTheorems, TLAPS

-----------------------------------------------------------------------------
(* Part 1: the reader of the upstream                                       *)

(***************************************************************************)
(* How many lines have left the reader thread.                             *)
(***************************************************************************)
Moved == Len(consumed) + Len(readQueue)

(* What was taken and what waits follow the script *)
LinesInOrder ==
    /\ Moved <= Lines + 1
    /\ \A i \in 1..Len(consumed) : consumed[i] = Script[i]
    /\ \A i \in 1..Len(readQueue) : readQueue[i] = Script[Len(consumed) + i]

(* The reader holds the next thing of the script *)
HandIsNext ==
    /\ Moved <= Lines
    /\ hand = Script[Moved + 1]
    /\ next = IF Moved < Lines THEN Moved + 2 ELSE Lines + 1

(* Where the reader is in the script.  A readline that ended because the    *)
(* response was closed leaves something else in hand, but then the close    *)
(* flag is up, and the look at it keeps the reader away from put.           *)
ReaderInScript ==
    /\ reader \in {"unstarted", "check", "read"} => Moved = next - 1
    /\ reader \in {"raised", "putCheck"} => closed \/ HandIsNext
    /\ reader = "put" => HandIsNext
    /\ closes > 0 => closed
    /\ \A a \in Actors : mustClose[a] => closed

(* An exception in the consumer's hands is the last thing of the script *)
ErrorIsLast ==
    /\ consumer = "got" /\ item = Err => Len(consumed) = Lines + 1 /\ fate = Err
    /\ outcome = "error" =>
        /\ Len(consumed) = Lines + 1 /\ fate = Err
        /\ consumer \in {"finally", "finallyClosing", "join", "done"}

(* There is no reader thread before start() *)
StartsOnce ==
    consumer \in {"attach", "attachClose", "attachClosing", "start"} => reader = "unstarted"

SseInv == SseTypeOK /\ StartsOnce /\ LinesInOrder /\ ReaderInScript /\ ErrorIsLast

(* Whoever found the response open closes it, and nobody else ever does *)
ClosedByOne ==
    /\ ~responseClosed => closes = 0 /\ \A a \in Actors : ~mustClose[a]
    /\ closes <= 1
    /\ \A a \in Actors : mustClose[a] => closes = 0
    /\ \A a, b \in Actors : mustClose[a] /\ mustClose[b] => a = b

LEMMA InitSse == SseInit => SseInv /\ ClosedByOne
<1>. SUFFICES ASSUME SseInit PROVE SseInv /\ ClosedByOne
  OBVIOUS
<1>. USE SseConstants DEF SseInit, Eof, Err, Actors
<1>1. readQueue \in Seq(QueueItems) /\ consumed \in Seq(QueueItems) /\ Len(readQueue) = 0 /\ Len(consumed) = 0
  OBVIOUS
<1>2. SseTypeOK
  <2>1. mustClose \in [Actors -> BOOLEAN]
    BY Zenon
  <2>2. closed \in BOOLEAN /\ responseClosed \in BOOLEAN /\ cancelled \in BOOLEAN
    BY Zenon
  <2>. QED
    BY <1>1, <2>1, <2>2 DEF SseTypeOK, QueueItems, Outcomes
<1>3. LinesInOrder
  BY <1>1 DEF LinesInOrder, Moved
<1>4. ReaderInScript
  BY <1>1 DEF ReaderInScript, Moved
<1>5. ErrorIsLast
  BY DEF ErrorIsLast
<1>6. ClosedByOne /\ StartsOnce
  BY DEF ClosedByOne, StartsOnce
<1>. QED
  BY <1>2, <1>3, <1>4, <1>5, <1>6 DEF SseInv

(* The two halves of close() keep the types of its flags *)
LEMMA CloseTypes ==
  ASSUME SseTypeOK, NEW a \in Actors, CloseLock(a) \/ CloseResponse(a)
  PROVE  closed' \in BOOLEAN /\ responseClosed' \in BOOLEAN /\ mustClose' \in [Actors -> BOOLEAN] /\ closes' \in Nat
<1>1. CASE CloseLock(a)
  BY <1>1, Zenon DEF CloseLock, SseTypeOK
<1>2. CASE CloseResponse(a)
  <2>1. closed' \in BOOLEAN /\ responseClosed' \in BOOLEAN /\ mustClose' \in [Actors -> BOOLEAN]
    BY <1>2, Zenon DEF CloseResponse, SseTypeOK
  <2>2. closes' \in Nat
    BY <1>2 DEF CloseResponse, SseTypeOK
  <2>. QED
    BY <2>1, <2>2
<1>. QED
  BY <1>1, <1>2

(* Every step keeps the types *)
LEMMA SseTypeStep ==
  ASSUME SseTypeOK, [SseNext]_sseVars
  PROVE  SseTypeOK'
<1>. USE SseConstants DEF SseTypeOK, QueueItems, Outcomes, Eof, Err, Actors, closeVars, readerVars, consumerVars,
         ReaderGoes, ConsumerGoes, CancellerGoes, EndsWith
<1>1. CASE ReaderChecks
  BY <1>1 DEF ReaderChecks
<1>2. CASE ReadUpstream
  BY <1>2 DEF ReadUpstream
<1>3. CASE ReadClosedResponse
  BY <1>3 DEF ReadClosedResponse
<1>4. CASE ReaderRaised \/ EnqueueChecks \/ EnqueueFull
  <2>1. CASE ReaderRaised
    BY <2>1 DEF ReaderRaised
  <2>2. CASE EnqueueChecks
    BY <2>2 DEF EnqueueChecks
  <2>3. CASE EnqueueFull
    BY <2>3 DEF EnqueueFull
  <2>. QED
    BY <1>4, <2>1, <2>2, <2>3
<1>5. CASE Enqueue
  BY <1>5 DEF Enqueue
<1>6. CASE ReaderCloses
  BY <1>6 DEF ReaderCloses, CloseLock
<1>7. CASE ReaderExits
  BY <1>7 DEF ReaderExits, CloseResponse
<1>8. CASE Attach \/ Start \/ Join
  BY <1>8 DEF Attach, Start, Join
<1>9. CASE AttachCloses
  <2>1. CloseLock("consumer") \/ CloseResponse("consumer")
    BY <1>9 DEF AttachCloses
  <2>2. closed' \in BOOLEAN /\ responseClosed' \in BOOLEAN /\ mustClose' \in [Actors -> BOOLEAN] /\ closes' \in Nat
    BY <2>1, CloseTypes
  <2>. QED
    BY <1>9, <2>2 DEF AttachCloses
<1>10. CASE LoopTop
  BY <1>10 DEF LoopTop
<1>11. CASE GetItem
  BY <1>11, HeadTailProperties DEF GetItem
<1>12. CASE GetTimesOut \/ GetAfterTimeout
  <2>1. CASE GetTimesOut
    BY <2>1 DEF GetTimesOut
  <2>2. CASE GetAfterTimeout
    BY <2>2 DEF GetAfterTimeout, Cancelled
  <2>. QED
    BY <1>12, <2>1, <2>2
<1>13. CASE NoItem
  BY <1>13 DEF NoItem
<1>14. CASE HandleItem
  <2>1. outcome' \in Outcomes /\ idle' \in {"fresh", "expired"}
    BY <1>14 DEF HandleItem
  <2>2. consumer' \in {"finally", "yielded"} /\ UNCHANGED <<fate, next, hand, cancelled, canceller>>
    BY <1>14 DEF HandleItem
  <2>3. UNCHANGED <<readQueue, closeVars, reader, item, consumed>>
    BY <1>14 DEF HandleItem
  <2>. QED
    BY <2>1, <2>2, <2>3
<1>15. CASE Resume \/ IdleExpires
  <2>1. CASE Resume
    BY <2>1 DEF Resume
  <2>2. CASE IdleExpires
    BY <2>2 DEF IdleExpires
  <2>. QED
    BY <1>15, <2>1, <2>2
<1>16. CASE Finally
  <2>1. CloseLock("consumer") \/ CloseResponse("consumer")
    BY <1>16 DEF Finally
  <2>2. closed' \in BOOLEAN /\ responseClosed' \in BOOLEAN /\ mustClose' \in [Actors -> BOOLEAN] /\ closes' \in Nat
    BY <2>1, CloseTypes
  <2>. QED
    BY <1>16, <2>2 DEF Finally
<1>17. CASE Cancel
  BY <1>17 DEF Cancel
<1>18. CASE CancelCloses
  <2>1. CloseLock("canceller") \/ CloseResponse("canceller") \/ UNCHANGED closeVars
    BY <1>18 DEF CancelCloses
  <2>2. closed' \in BOOLEAN /\ responseClosed' \in BOOLEAN /\ mustClose' \in [Actors -> BOOLEAN] /\ closes' \in Nat
    BY <2>1, CloseTypes DEF SseTypeOK, closeVars
  <2>. QED
    BY <1>18, <2>2 DEF CancelCloses
<1>19. CASE AllDone \/ UNCHANGED sseVars
  BY <1>19 DEF AllDone, sseVars
<1>. QED
  BY <1>1, <1>2, <1>3, <1>4, <1>5, <1>6, <1>7, <1>8, <1>9, <1>10, <1>11, <1>12, <1>13, <1>14, <1>15, <1>16,
     <1>17, <1>18, <1>19 DEF SseNext, ReaderStep, ConsumerStep

(* Only put and get touch the queue, and nothing changes the script *)
LEMMA QueueMoves ==
  ASSUME [SseNext]_sseVars
  PROVE  /\ fate' = fate
         /\ Enqueue \/ GetItem \/ UNCHANGED <<readQueue, consumed>>
<1>. USE DEF closeVars, readerVars, consumerVars, ReaderGoes, ConsumerGoes, CancellerGoes
<1>1. CASE ReaderStep \/ ReadUpstream
  BY <1>1 DEF ReaderStep, ReadUpstream, ReaderChecks, ReadClosedResponse, ReaderRaised, EnqueueChecks, Enqueue,
              EnqueueFull, ReaderCloses, ReaderExits
<1>2. CASE ConsumerStep
  BY <1>2 DEF ConsumerStep, Attach, AttachCloses, Start, LoopTop, GetItem, GetTimesOut, GetAfterTimeout, NoItem,
              HandleItem, Resume, Finally, Join
<1>3. CASE IdleExpires \/ Cancel \/ CancelCloses \/ AllDone \/ UNCHANGED sseVars
  BY <1>3 DEF IdleExpires, Cancel, CancelCloses, AllDone, sseVars
<1>. QED
  BY <1>1, <1>2, <1>3 DEF SseNext

(* A put appends what comes next in the script; a get takes the oldest *)
LEMMA OrderStep ==
  ASSUME SseInv, [SseNext]_sseVars
  PROVE  LinesInOrder'
<1>. USE SseConstants DEF SseInv
<1>0. /\ Script' = Script /\ readQueue \in Seq(QueueItems) /\ consumed \in Seq(QueueItems)
      /\ Len(readQueue) \in Nat /\ Len(consumed) \in Nat
  BY QueueMoves DEF Script, SseTypeOK
<1>1. CASE Enqueue
  <2>1. HandIsNext /\ readQueue' = Append(readQueue, hand) /\ consumed' = consumed
    BY <1>1 DEF Enqueue, ReaderGoes, ReaderInScript, consumerVars
  <2>2. /\ Len(readQueue') = Len(readQueue) + 1 /\ readQueue'[Len(readQueue) + 1] = hand
        /\ \A i \in 1..Len(readQueue) : readQueue'[i] = readQueue[i]
    BY <1>0, <2>1
  <2>3. Moved' = Moved + 1 /\ Moved = Len(consumed) + Len(readQueue)
    BY <1>0, <2>1, <2>2 DEF Moved
  <2>4. \A i \in 1..Len(readQueue') : readQueue'[i] = Script[Len(consumed) + i]
    <3>. SUFFICES ASSUME NEW i \in 1..Len(readQueue') PROVE readQueue'[i] = Script[Len(consumed) + i]
      OBVIOUS
    <3>1. CASE i = Len(readQueue) + 1
      BY <1>0, <2>1, <2>2, <2>3, <3>1 DEF HandIsNext
    <3>2. CASE i \in 1..Len(readQueue)
      BY <2>2, <3>2 DEF LinesInOrder
    <3>. QED
      BY <1>0, <2>2, <3>1, <3>2
  <2>5. Moved' <= Lines + 1
    BY <1>0, <2>1, <2>3 DEF HandIsNext
  <2>. QED
    BY <1>0, <2>1, <2>4, <2>5 DEF LinesInOrder
<1>2. CASE GetItem
  <2>1. readQueue # <<>> /\ readQueue' = Tail(readQueue) /\ consumed' = Append(consumed, Head(readQueue))
    BY <1>2 DEF GetItem
  <2>2. /\ Len(readQueue') = Len(readQueue) - 1 /\ Len(readQueue) > 0 /\ Head(readQueue) = readQueue[1]
        /\ \A i \in 1..Len(readQueue') : readQueue'[i] = readQueue[i + 1]
    BY <1>0, <2>1, HeadTailProperties
  <2>3. /\ Len(consumed') = Len(consumed) + 1 /\ consumed'[Len(consumed) + 1] = readQueue[1]
        /\ \A i \in 1..Len(consumed) : consumed'[i] = consumed[i]
    BY <1>0, <2>1, <2>2
  <2>4. Moved' = Moved
    BY <1>0, <2>2, <2>3 DEF Moved
  <2>5. \A i \in 1..Len(consumed') : consumed'[i] = Script[i]
    <3>. SUFFICES ASSUME NEW i \in 1..Len(consumed') PROVE consumed'[i] = Script[i]
      OBVIOUS
    <3>1. CASE i = Len(consumed) + 1
      <4>1. readQueue[1] = Script[Len(consumed) + 1]
        BY <1>0, <2>2 DEF LinesInOrder
      <4>. QED
        BY <2>3, <3>1, <4>1
    <3>2. CASE i \in 1..Len(consumed)
      BY <2>3, <3>2 DEF LinesInOrder
    <3>. QED
      BY <1>0, <2>3, <3>1, <3>2
  <2>6. \A i \in 1..Len(readQueue') : readQueue'[i] = Script[Len(consumed') + i]
    <3>. SUFFICES ASSUME NEW i \in 1..Len(readQueue') PROVE readQueue'[i] = Script[Len(consumed') + i]
      OBVIOUS
    <3>1. i + 1 \in 1..Len(readQueue) /\ Len(consumed') + i = Len(consumed) + (i + 1)
      BY <1>0, <2>2, <2>3
    <3>2. readQueue[i + 1] = Script[Len(consumed) + (i + 1)]
      BY <3>1 DEF LinesInOrder
    <3>. QED
      BY <2>2, <3>1, <3>2
  <2>. QED
    BY <1>0, <2>4, <2>5, <2>6 DEF LinesInOrder
<1>3. CASE UNCHANGED <<readQueue, consumed>>
  BY <1>0, <1>3 DEF LinesInOrder, Moved
<1>. QED
  BY <1>1, <1>2, <1>3, QueueMoves

(* Only start() starts a reader *)
LEMMA StartsOnceStep ==
  ASSUME SseTypeOK, StartsOnce, [SseNext]_sseVars
  PROVE  StartsOnce'
<1>. USE DEF SseTypeOK, StartsOnce, readerVars, consumerVars, ReaderGoes, ConsumerGoes, CancellerGoes
<1>1. CASE ReaderStep \/ ReadUpstream
  BY <1>1 DEF ReaderStep, ReadUpstream, ReaderChecks, ReadClosedResponse, ReaderRaised, EnqueueChecks, Enqueue,
              EnqueueFull, ReaderCloses, ReaderExits
<1>2. CASE ConsumerStep
  BY <1>2 DEF ConsumerStep, Attach, AttachCloses, Start, LoopTop, GetItem, GetTimesOut, GetAfterTimeout, NoItem,
              HandleItem, Resume, Finally, Join
<1>3. CASE IdleExpires \/ Cancel \/ CancelCloses \/ AllDone \/ UNCHANGED sseVars
  BY <1>3 DEF IdleExpires, Cancel, CancelCloses, AllDone, sseVars
<1>. QED
  BY <1>1, <1>2, <1>3 DEF SseNext

(* Taking an item from the queue to the consumer moves nothing past the reader *)
LEMMA MovedByGet ==
  ASSUME SseTypeOK, GetItem
  PROVE  Moved' = Moved
<1>1. readQueue \in Seq(QueueItems) /\ consumed \in Seq(QueueItems) /\ readQueue # <<>>
  BY DEF SseTypeOK, GetItem
<1>. QED
  BY <1>1, HeadTailProperties DEF GetItem, Moved

(* The reader only puts what it read from the open response *)
LEMMA ReaderStays ==
  ASSUME SseInv, [SseNext]_sseVars
  PROVE  ReaderInScript'
<1>. USE SseConstants DEF SseInv, SseTypeOK, ReaderInScript, closeVars, readerVars, consumerVars, ReaderGoes,
         ConsumerGoes, CancellerGoes, Actors
<1>0. /\ Script' = Script /\ Len(readQueue) \in Nat /\ Len(consumed) \in Nat /\ Moved \in Nat
      /\ \A i \in 1..(Lines + 1) : Script[i] = IF i <= Lines THEN i ELSE fate
  BY QueueMoves DEF Script, Moved
<1>1. CASE ReaderChecks
  BY <1>1 DEF ReaderChecks, Moved
<1>2. CASE ReadUpstream
  <2>1. Moved' = Moved /\ Moved = next - 1
    BY <1>2 DEF ReadUpstream, Moved
  <2>2. HandIsNext'
    BY <1>0, <1>2, <2>1 DEF ReadUpstream, HandIsNext
  <2>. QED
    BY <1>2, <2>2 DEF ReadUpstream
<1>3. CASE ReadClosedResponse
  BY <1>3 DEF ReadClosedResponse, Moved
<1>4. CASE ReaderRaised \/ EnqueueChecks \/ EnqueueFull
  BY <1>0, <1>4 DEF ReaderRaised, EnqueueChecks, EnqueueFull, Cancelled, HandIsNext, Moved
<1>5. CASE Enqueue
  <2>1. HandIsNext /\ Moved' = Moved + 1
    BY <1>0, <1>5 DEF Enqueue, Moved
  <2>2. ASSUME hand \in 1..Lines PROVE Moved' = next - 1
    <3>1. CASE Moved < Lines
      BY <1>0, <2>1, <3>1 DEF HandIsNext
    <3>2. CASE Moved = Lines
      BY <1>0, <2>1, <2>2, <3>2 DEF HandIsNext, Err, Eof
    <3>. QED
      BY <1>0, <2>1, <3>1, <3>2 DEF HandIsNext
  <2>. QED
    BY <1>5, <2>1, <2>2 DEF Enqueue
<1>6. ASSUME NEW a \in Actors, CloseLock(a) \/ CloseResponse(a), UNCHANGED <<readQueue, consumed, hand, next>>,
             reader' = reader \/ reader' \in {"closing", "exited"}
      PROVE  ReaderInScript'
  <2>1. Moved' = Moved /\ (HandIsNext <=> HandIsNext')
    BY <1>0, <1>6 DEF Moved, HandIsNext
  <2>2. closed => closed'
    BY <1>6 DEF CloseLock, CloseResponse
  <2>3. (closes' > 0 => closed') /\ \A b \in Actors : mustClose'[b] => closed'
    BY <1>6 DEF CloseLock, CloseResponse
  <2>. QED
    BY <1>6, <2>1, <2>2, <2>3
<1>7. CASE ReaderCloses \/ ReaderExits
  BY <1>6, <1>7 DEF ReaderCloses, ReaderExits
<1>8. CASE AttachCloses \/ Finally
  BY <1>6, <1>8 DEF AttachCloses, Finally
<1>9. CASE CancelCloses
  <2>1. CASE UNCHANGED closeVars
    <3>1. UNCHANGED <<readQueue, consumed, closeVars, readerVars>>
      BY <1>9, <2>1 DEF CancelCloses, CancellerGoes, consumerVars
    <3> QED
      BY <3>1, <1>0 DEF HandIsNext, Moved, closeVars, readerVars
  <2>2. CASE CloseLock("canceller") \/ CloseResponse("canceller")
    BY <1>6, <1>9, <2>2 DEF CancelCloses
  <2> QED
    BY <1>9, <2>1, <2>2 DEF CancelCloses
<1>10. CASE Start
  BY <1>0, <1>10 DEF Start, StartsOnce, Moved
<1>11. CASE GetItem
  <2>1. Moved' = Moved
    BY <1>11, MovedByGet
  <2>. QED
    BY <1>0, <1>11, <2>1 DEF GetItem, HandIsNext
<1>12. CASE UNCHANGED <<readQueue, consumed, closeVars, readerVars>>
  BY <1>0, <1>12 DEF HandIsNext, Moved
<1>13. CASE Attach \/ LoopTop \/ GetTimesOut \/ GetAfterTimeout \/ NoItem \/ HandleItem \/ Resume \/ Join
  BY <1>12, <1>13 DEF Attach, LoopTop, GetTimesOut, GetAfterTimeout, NoItem, HandleItem, Resume, Join
<1>14. CASE IdleExpires \/ Cancel \/ AllDone \/ UNCHANGED sseVars
  BY <1>12, <1>14 DEF IdleExpires, Cancel, AllDone, sseVars
<1>. QED
  BY <1>1, <1>2, <1>3, <1>4, <1>5, <1>7, <1>8, <1>9, <1>10, <1>11, <1>13, <1>14 DEF SseNext, ReaderStep, ConsumerStep

(* The consumer raises an error only when the script ended with one *)
LEMMA ErrorStays ==
  ASSUME SseInv, [SseNext]_sseVars
  PROVE  ErrorIsLast'
<1>. USE SseConstants DEF SseInv, SseTypeOK, ErrorIsLast, closeVars, readerVars, consumerVars, ReaderGoes,
         ConsumerGoes, CancellerGoes, EndsWith, Err, Eof
<1>0. fate' = fate
  BY QueueMoves
<1>1. CASE GetItem
  <2>1. readQueue # <<>> /\ item' = Head(readQueue) /\ Len(consumed') = Len(consumed) + 1 /\ outcome' = outcome
    BY <1>1 DEF GetItem
  <2>2. Len(readQueue) > 0 /\ Head(readQueue) = readQueue[1]
    BY <2>1, HeadTailProperties
  <2>3. item' = Script[Len(consumed) + 1] /\ Len(consumed) + 1 \in 1..(Lines + 1)
    BY <2>1, <2>2 DEF LinesInOrder, Moved
  <2>4. item' = Err => Len(consumed) + 1 = Lines + 1 /\ fate = Err
    BY <2>3 DEF Script
  <2>. QED
    BY <1>0, <1>1, <2>1, <2>4 DEF GetItem
<1>2. CASE HandleItem
  BY <1>0, <1>2 DEF HandleItem
<1>3. CASE LoopTop \/ NoItem \/ Resume
  BY <1>0, <1>3 DEF LoopTop, NoItem, Resume
<1>4. CASE GetTimesOut \/ GetAfterTimeout
  BY <1>0, <1>4 DEF GetTimesOut, GetAfterTimeout, Cancelled
<1>5. CASE Attach \/ AttachCloses \/ Start \/ Finally \/ Join
  BY <1>0, <1>5 DEF Attach, AttachCloses, Start, Finally, Join
<1>6. CASE UNCHANGED consumerVars
  BY <1>0, <1>6
<1>7. CASE ReaderStep \/ ReadUpstream
  BY <1>6, <1>7 DEF ReaderStep, ReadUpstream, ReaderChecks, ReadClosedResponse, ReaderRaised, EnqueueChecks, Enqueue,
                    EnqueueFull, ReaderCloses, ReaderExits
<1>8. CASE Cancel \/ CancelCloses \/ AllDone \/ UNCHANGED sseVars
  BY <1>6, <1>8 DEF Cancel, CancelCloses, AllDone, sseVars
<1>9. CASE IdleExpires
  BY <1>0, <1>9 DEF IdleExpires
<1>. QED
  BY <1>1, <1>2, <1>3, <1>4, <1>5, <1>7, <1>8, <1>9 DEF SseNext, ConsumerStep

(* The queue and the error state follow from the position in the script *)
LEMMA GenuineFromOrder == SseInv => QueueIsGenuine
<1>. SUFFICES ASSUME SseInv PROVE QueueIsGenuine
  OBVIOUS
<1>. USE SseConstants DEF SseInv, Err, Eof
<1>. DEFINE all == consumed \o readQueue
<1>1. /\ readQueue \in Seq(QueueItems) /\ Len(readQueue) \in Nat
      /\ consumed \in Seq(QueueItems) /\ Len(consumed) \in Nat
      /\ Script \in Seq(QueueItems) /\ Len(Script) = Lines + 1
  BY DEF SseTypeOK, Script, QueueItems
<1>2. all \in Seq(QueueItems) /\ Len(all) = Moved /\ \A i \in 1..Moved : all[i] = Script[i]
  <2>1. all \in Seq(QueueItems) /\ Len(all) = Moved /\ Moved = Len(consumed) + Len(readQueue)
    BY <1>1 DEF Moved
  <2>. SUFFICES ASSUME NEW i \in 1..Moved PROVE all[i] = Script[i]
    BY <2>1
  <2>2. CASE i <= Len(consumed)
    <3>1. all[i] = consumed[i] /\ i \in 1..Len(consumed)
      BY <1>1, <2>1, <2>2
    <3>. QED
      BY <3>1 DEF LinesInOrder
  <2>3. CASE i > Len(consumed)
    <3>1. all[i] = readQueue[i - Len(consumed)] /\ i - Len(consumed) \in 1..Len(readQueue)
      BY <1>1, <2>1, <2>3
    <3>2. readQueue[i - Len(consumed)] = Script[Len(consumed) + (i - Len(consumed))]
      BY <3>1 DEF LinesInOrder
    <3>3. Len(consumed) + (i - Len(consumed)) = i
      BY <1>1, <2>1
    <3>. QED
      BY <3>1, <3>2, <3>3
  <2>. QED
    BY <1>1, <2>1, <2>2, <2>3
<1>3. IsPrefix(all, Script)
  <2>1. Len(all) <= Len(Script)
    BY <1>1, <1>2 DEF LinesInOrder
  <2>. HIDE DEF all
  <2>2. SubSeq(all, 1, Len(all)) = SubSeq(Script, 1, Len(all))
    BY <1>1, <1>2, <2>1
  <2>. QED
    BY <2>1, <2>2 DEF IsPrefix
<1>4. ASSUME outcome = "error" PROVE fate = Err /\ consumed = Script
  <2>1. Len(consumed) = Len(Script) /\ fate = Err
    BY <1>1, <1>4 DEF ErrorIsLast
  <2>2. \A i \in 1..Len(consumed) : consumed[i] = Script[i]
    BY DEF LinesInOrder
  <2>. QED
    BY <1>1, <2>1, <2>2, SeqEqual
<1>. QED
  BY <1>3, <1>4 DEF QueueIsGenuine

(* UpstreamSseReaderLifecycle and iter_upstream_sse_lines: whatever closes the *)
(* response and however full the queue is, the relay gets the upstream's own   *)
(* lines, in order and once, and an exception only if the upstream failed.     *)
THEOREM ReaderIsGenuine == SseSpec => []QueueIsGenuine
<1>1. SseInit => SseInv
  BY InitSse
<1>2. SseInv /\ [SseNext]_sseVars => SseInv'
  BY SseTypeStep, StartsOnceStep, OrderStep, ReaderStays, ErrorStays DEF SseInv
<1>. QED
  BY <1>1, <1>2, GenuineFromOrder, PTL DEF SseSpec

(* Every step leaves the response to the one thread that found it open *)
LEMMA ClosedByOneStep ==
  ASSUME SseTypeOK, ClosedByOne, [SseNext]_sseVars
  PROVE  ClosedByOne'
<1>. USE DEF SseTypeOK, ClosedByOne, closeVars, Actors
<1>1. ASSUME NEW a \in Actors, CloseLock(a) PROVE ClosedByOne'
  BY <1>1 DEF CloseLock
<1>2. ASSUME NEW a \in Actors, CloseResponse(a) PROVE ClosedByOne'
  BY <1>2 DEF CloseResponse
<1>3. CASE UNCHANGED closeVars
  BY <1>3
<1>4. CASE ReaderStep \/ ReadUpstream
  BY <1>1, <1>2, <1>3, <1>4 DEF ReaderStep, ReadUpstream, ReaderChecks, ReadClosedResponse, ReaderRaised, EnqueueChecks,
                    Enqueue, EnqueueFull, ReaderCloses, ReaderExits
<1>5. CASE ConsumerStep
  BY <1>1, <1>2, <1>3, <1>5 DEF ConsumerStep, Attach, AttachCloses, Start, LoopTop, GetItem,
                    GetTimesOut, GetAfterTimeout, NoItem, HandleItem, Resume, Finally, Join
<1>6. CASE IdleExpires \/ Cancel \/ CancelCloses \/ AllDone \/ UNCHANGED sseVars
  BY <1>1, <1>2, <1>3, <1>6 DEF IdleExpires, Cancel, CancelCloses, AllDone, sseVars
<1>. QED
  BY <1>4, <1>5, <1>6 DEF SseNext

(* close() is idempotent: the reader, its consumer and a cancel() from a third *)
(* thread may all call it, and the upstream response is closed at most once.   *)
THEOREM ClosedAtMostOnce == SseSpec => [](closes <= 1)
<1>1. SseInit => SseTypeOK /\ ClosedByOne
  BY InitSse DEF SseInv
<1>2. SseTypeOK /\ ClosedByOne /\ [SseNext]_sseVars => (SseTypeOK /\ ClosedByOne)'
  BY SseTypeStep, ClosedByOneStep
<1>3. ClosedByOne => closes <= 1
  BY DEF ClosedByOne
<1>. QED
  BY <1>1, <1>2, <1>3, PTL DEF SseSpec

-----------------------------------------------------------------------------
(* Part 2: the writer of telemetry                                          *)

(* m holds n records, numbered on from c, and then only sentinels.          *)
InOrder(m, c, n) ==
    /\ n <= Len(m)
    /\ \A i \in 1..Len(m) : IF i <= n THEN m[i].seq = c + i ELSE m[i] = Sentinel

(* Records in memory are the accepted and not completed ones, in order;     *)
(* behind them there are only sentinels.                                    *)
MemoryInOrder ==
    /\ completedSequence + pendingRecords = nextSequence - 1
    /\ InOrder(InMemory, completedSequence, pendingRecords)
    /\ pendingBytes = Bytes(InMemory)

(* What _monitor has in its locals at each of its steps.                    *)
ListenerLocals ==
    /\ batch # <<>> <=> listener \in {"fence", "gather", "candidate", "append"}
    /\ listener = "fence" => Len(batch) = 1
    /\ listener \in {"fence", "gather"} => held = <<>>
    /\ listener = "candidate" => Len(held) = 1
    /\ recoveryInflight <=> listener = "recover"

(* A batch past the fence is before the target of a rotation, and an        *)
(* operation runs only when everything up to its target is done.            *)
FenceHolds ==
    /\ rotating <=> rotator # "idle"
    /\ rotating /\ listener \in {"gather", "candidate", "append"} =>
          completedSequence + Len(batch) <= rotationTarget
    /\ rotator = "operating" => completedSequence >= rotationTarget /\ ~recoveryInflight

(* A sentinel is sent, and the listener exits, only after records are       *)
(* refused; a listener that exited left none behind.                        *)
StopsLast ==
    /\ stopper # "idle" \/ listener = "exited" \/ Len(InMemory) > pendingRecords =>
          shutdownState # "running"
    /\ listener = "exited" => pendingRecords = 0
    /\ shutdownState = "stopped" => listener = "exited"

Serializing == {p \in Producers : producer[p] = "serializing"}

(* Where every call of enqueue and every failure went.                      *)
Accounts ==
    /\ accepted = nextSequence - 1
    /\ written = Len(sink)
    /\ accepted = written + lost + pendingRecords
    /\ IsFiniteSet(Serializing)
    /\ attempts = accepted + (dropped - lost) + Cardinality(Serializing)
    /\ lost + rejected + pendingRecovery.overflow <= dropped
    /\ reported + pendingRecovery.failed = lost + rejected
    /\ ~unresolvedFailure => pendingRecovery.failed = 0 /\ pendingRecovery.failures = 0
    /\ listener = "recover" =>
          /\ summary.overflow <= pendingRecovery.overflow
          /\ summary.failed <= pendingRecovery.failed
          /\ summary.failures <= pendingRecovery.failures

WriterInv ==
    /\ TypeOK /\ SinkInOrder
    /\ MemoryInOrder /\ ListenerLocals /\ FenceHolds /\ StopsLast /\ Accounts

-----------------------------------------------------------------------------
(* Sums over sequences.  Induction is over a set of naturals: what is to be *)
(* shown for every n is that n is in the set of those that have it.         *)

(* A set of naturals that is not empty has a least element.                 *)
LEMMA LeastNatural ==
    ASSUME NEW T \in SUBSET Nat, T # {}
    PROVE  \E x \in T : \A y \in T : x <= y
<1> DEFINE Less == {ss \in Nat \X Nat : ss[1] < ss[2]}
<1>1. IsWellFoundedOn(Less, Nat)
  BY NatLessThanWellFounded DEF OpToRel
<1>2. \A x, y \in Nat : <<y, x>> \in Less <=> y < x
  OBVIOUS
<1> HIDE DEF Less
<1>3. PICK x \in T : \A y \in T : <<y, x>> \notin Less
  BY <1>1, WFMin
<1>4. \A y \in T : ~(y < x)
  BY <1>2, <1>3
<1>5. \A y \in T : x <= y
  BY <1>4
<1> QED
  BY <1>5

(* A set with 0 and with the successors of its naturals has every natural.  *)
LEMMA SetInduction ==
    ASSUME NEW S, 0 \in S, \A n \in Nat : n \in S => n + 1 \in S
    PROVE  \A n \in Nat : n \in S
<1> DEFINE T == {n \in Nat : n \notin S}
<1> SUFFICES ASSUME T # {} PROVE FALSE
  OBVIOUS
<1>1. PICK x \in T : \A y \in T : x <= y
  BY LeastNatural
<1>2. x \in Nat /\ x # 0
  OBVIOUS
<1>3. x - 1 \in Nat /\ x - 1 \notin T
  BY <1>1, <1>2
<1>4. (x - 1) + 1 \in S
  BY <1>3
<1> QED
  BY <1>2, <1>4

Sized == [seq : Nat, size : Nat]

(* f[n] is the sum of the sizes of the first n records of s, up to m.       *)
SumsUpTo(s, f, m) ==
    /\ f \in [0..m -> Nat]
    /\ f[0] = 0
    /\ \A n \in 1..m : f[n] = f[n - 1] + s[n].size

(* The records of a sequence have sizes.                                    *)
LEMMA SizesAreNat ==
    ASSUME NEW s \in Seq(Sized), NEW i \in Nat, 1 <= i, i <= Len(s)
    PROVE  s[i].size \in Nat
<1>1. s[i] \in Sized
  BY ElementOfSeq
<1> QED
  BY <1>1 DEF Sized

(* The partial sums of a sequence exist.                                    *)
LEMMA SumsExist ==
    ASSUME NEW s \in Seq(Sized)
    PROVE  \E f : SumsUpTo(s, f, Len(s))
<1> DEFINE Has(m) == m <= Len(s) => \E f : SumsUpTo(s, f, m)
           S == {m \in Nat : Has(m)}
<1>1. Has(0)
  <2>1. SumsUpTo(s, [n \in 0..0 |-> 0], 0)
    BY DEF SumsUpTo
  <2> QED
    BY <2>1
<1>2. ASSUME NEW m \in Nat, Has(m) PROVE Has(m + 1)
  <2> SUFFICES ASSUME m + 1 <= Len(s) PROVE \E f : SumsUpTo(s, f, m + 1)
    OBVIOUS
  <2>1. PICK f : SumsUpTo(s, f, m)
    BY <1>2
  <2>2. s[m + 1].size \in Nat
    BY SizesAreNat
  <2> DEFINE g == [n \in 0..(m + 1) |-> IF n = m + 1 THEN f[m] + s[m + 1].size ELSE f[n]]
  <2>3. g \in [0..(m + 1) -> Nat]
    BY <2>1, <2>2 DEF SumsUpTo
  <2>4. \A n \in 1..(m + 1) : g[n] = g[n - 1] + s[n].size
    <3> SUFFICES ASSUME NEW n \in 1..(m + 1) PROVE g[n] = g[n - 1] + s[n].size
      OBVIOUS
    <3>1. CASE n = m + 1
      BY <3>1
    <3>2. CASE n \in 1..m
      BY <3>2, <2>1 DEF SumsUpTo
    <3> QED
      BY <3>1, <3>2
  <2>5. g[0] = 0
    BY <2>1 DEF SumsUpTo
  <2>6. SumsUpTo(s, g, m + 1)
    <3> HIDE DEF g
    <3> QED
      BY <2>3, <2>4, <2>5 DEF SumsUpTo
  <2> QED
    BY <2>6
<1>3. \A m \in Nat : Has(m)
  <2> HIDE DEF Has
  <2>1. 0 \in S /\ \A m \in Nat : m \in S => m + 1 \in S
    BY <1>1, <1>2
  <2>2. \A m \in Nat : m \in S
    <3> HIDE DEF S
    <3> QED
      BY <2>1, SetInduction
  <2> QED
    BY <2>2
<1> QED
  BY <1>3

(* Bytes is the last of the partial sums.                                   *)
LEMMA BytesIsSum ==
    ASSUME NEW s \in Seq(Sized)
    PROVE  \E f : SumsUpTo(s, f, Len(s)) /\ Bytes(s) = f[Len(s)]
<1> DEFINE Def(f) == f = [n \in 0..Len(s) |-> IF n = 0 THEN 0 ELSE f[n - 1] + s[n].size]
           sum == CHOOSE f : Def(f)
<1>1. \E f : Def(f)
  <2>1. PICK f : SumsUpTo(s, f, Len(s))
    BY SumsExist
  <2>2. Def(f)
    BY <2>1 DEF SumsUpTo
  <2> QED
    BY <2>2
<1>2. Bytes(s) = sum[Len(s)]
  BY DEF Bytes
<1>3. Def(sum)
  <2> HIDE DEF Def
  <2> QED
    BY <1>1
<1> HIDE DEF sum
<1> DEFINE S == {m \in Nat : m <= Len(s) => sum[m] \in Nat}
<1>4. 0 \in S /\ \A m \in Nat : m \in S => m + 1 \in S
  <2>1. 0 \in S
    BY <1>3
  <2>2. ASSUME NEW m \in Nat, m \in S PROVE m + 1 \in S
    <3> SUFFICES ASSUME m + 1 <= Len(s) PROVE sum[m + 1] \in Nat
      OBVIOUS
    <3>1. sum[m + 1] = sum[m] + s[m + 1].size
      BY <1>3
    <3>2. s[m + 1].size \in Nat
      BY SizesAreNat
    <3> QED
      BY <3>1, <3>2, <2>2
  <2> QED
    BY <2>1, <2>2
<1>5. \A m \in Nat : m \in S
  <2> HIDE DEF S
  <2> QED
    BY <1>4, SetInduction
<1>6. SumsUpTo(s, sum, Len(s))
  <2>1. sum[0] = 0 /\ \A n \in 1..Len(s) : sum[n] = sum[n - 1] + s[n].size
    BY <1>3
  <2>2. \A m \in 0..Len(s) : sum[m] \in Nat
    BY <1>5
  <2>3. sum \in [0..Len(s) -> Nat]
    BY <1>3, <2>2
  <2> QED
    BY <2>1, <2>3 DEF SumsUpTo
<1> QED
  BY <1>2, <1>6

(* The size of a sequence is a natural number.                              *)
LEMMA BytesType == ASSUME NEW s \in Seq(Sized) PROVE Bytes(s) \in Nat
<1>1. PICK f : SumsUpTo(s, f, Len(s)) /\ Bytes(s) = f[Len(s)]
  BY BytesIsSum
<1> QED
  BY <1>1 DEF SumsUpTo

(* Nothing has no size.                                                     *)
LEMMA BytesEmpty == Bytes(<<>>) = 0
<1>1. <<>> \in Seq(Sized) /\ Len(<<>>) = 0
  BY EmptySeq
<1>2. PICK f : SumsUpTo(<<>>, f, Len(<<>>)) /\ Bytes(<<>>) = f[Len(<<>>)]
  BY <1>1, BytesIsSum
<1> QED
  BY <1>1, <1>2 DEF SumsUpTo

(* The size of a concatenation is the sum of the sizes.                     *)
LEMMA BytesConcat ==
    ASSUME NEW s \in Seq(Sized), NEW t \in Seq(Sized)
    PROVE  Bytes(s \o t) = Bytes(s) + Bytes(t)
<1>1. /\ s \o t \in Seq(Sized)
      /\ Len(s \o t) = Len(s) + Len(t)
      /\ \A i \in 1..Len(s) : (s \o t)[i] = s[i]
      /\ \A i \in 1..Len(t) : (s \o t)[Len(s) + i] = t[i]
  BY ConcatProperties
<1>2. PICK f : SumsUpTo(s \o t, f, Len(s \o t)) /\ Bytes(s \o t) = f[Len(s \o t)]
  BY <1>1, BytesIsSum
<1>3. PICK g : SumsUpTo(s, g, Len(s)) /\ Bytes(s) = g[Len(s)]
  BY BytesIsSum
<1>4. PICK h : SumsUpTo(t, h, Len(t)) /\ Bytes(t) = h[Len(t)]
  BY BytesIsSum
<1>5. Len(s) \in Nat /\ Len(t) \in Nat
  OBVIOUS
<1>6. \A n \in Nat : n <= Len(s) => f[n] = g[n]
  <2> DEFINE S == {n \in Nat : n <= Len(s) => f[n] = g[n]}
  <2>1. 0 \in S
    BY <1>2, <1>3 DEF SumsUpTo
  <2>2. ASSUME NEW n \in Nat, n \in S PROVE n + 1 \in S
    <3> SUFFICES ASSUME n + 1 <= Len(s) PROVE f[n + 1] = g[n + 1]
      OBVIOUS
    <3>1. f[n + 1] = f[n] + (s \o t)[n + 1].size
      BY <1>1, <1>2, <1>5 DEF SumsUpTo
    <3>2. g[n + 1] = g[n] + s[n + 1].size
      BY <1>3 DEF SumsUpTo
    <3> QED
      BY <3>1, <3>2, <2>2, <1>1, <1>5
  <2> HIDE DEF S
  <2>3. \A n \in Nat : n \in S
    BY <2>1, <2>2, SetInduction
  <2> QED
    BY <2>3 DEF S
<1>7. \A n \in Nat : n <= Len(t) => f[Len(s) + n] = g[Len(s)] + h[n]
  <2> DEFINE S == {n \in Nat : n <= Len(t) => f[Len(s) + n] = g[Len(s)] + h[n]}
  <2>1. 0 \in S
    <3>1. f[Len(s)] = g[Len(s)] /\ g[Len(s)] \in Nat /\ h[0] = 0
      BY <1>3, <1>4, <1>5, <1>6 DEF SumsUpTo
    <3> QED
      BY <3>1, <1>5
  <2>2. ASSUME NEW n \in Nat, n \in S PROVE n + 1 \in S
    <3> SUFFICES ASSUME n + 1 <= Len(t) PROVE f[Len(s) + (n + 1)] = g[Len(s)] + h[n + 1]
      OBVIOUS
    <3>1. f[Len(s) + (n + 1)] = f[Len(s) + n] + (s \o t)[Len(s) + (n + 1)].size
      <4>1. Len(s) + (n + 1) \in 1..Len(s \o t) /\ (Len(s) + (n + 1)) - 1 = Len(s) + n
        BY <1>1, <1>5
      <4> QED
        BY <4>1, <1>2 DEF SumsUpTo
    <3>2. h[n + 1] = h[n] + t[n + 1].size
      BY <1>4 DEF SumsUpTo
    <3>3. (s \o t)[Len(s) + (n + 1)] = t[n + 1]
      BY <1>1, <1>5
    <3>4. g[Len(s)] \in Nat /\ h[n] \in Nat /\ t[n + 1].size \in Nat
      BY <1>3, <1>4, <1>5, SizesAreNat DEF SumsUpTo
    <3> QED
      BY <3>1, <3>2, <3>3, <3>4, <2>2
  <2> HIDE DEF S
  <2>3. \A n \in Nat : n \in S
    BY <2>1, <2>2, SetInduction
  <2> QED
    BY <2>3 DEF S
<1> QED
  BY <1>1, <1>2, <1>3, <1>4, <1>5, <1>7

(* The size of one record.                                                  *)
LEMMA BytesOne == ASSUME NEW r \in Sized PROVE Bytes(<<r>>) = r.size
<1>1. <<r>> \in Seq(Sized) /\ Len(<<r>>) = 1 /\ <<r>>[1] = r
  OBVIOUS
<1>2. PICK f : SumsUpTo(<<r>>, f, 1) /\ Bytes(<<r>>) = f[1]
  BY <1>1, BytesIsSum
<1>3. f[0] = 0 /\ f[1] = f[0] + r.size
  BY <1>1, <1>2 DEF SumsUpTo
<1> QED
  BY <1>2, <1>3 DEF Sized

-----------------------------------------------------------------------------
(* The recovery counters, the larger of two numbers, and one producer.      *)

Counters == [overflow : Nat, failed : Nat, failures : Nat]

(* What _PendingRecovery.add_failure does to the counters.                  *)
LEMMA FailureAdded ==
    ASSUME NEW r \in Counters, NEW n \in Nat, NEW q,
           q = [r EXCEPT !.failed = @ + n, !.failures = @ + 1]
    PROVE  /\ q \in Counters
           /\ q.overflow = r.overflow /\ q.failed = r.failed + n
           /\ q.failures = r.failures + 1
<1>1. DOMAIN r = {"overflow", "failed", "failures"} /\ r \in [{"overflow", "failed", "failures"} -> Nat]
  BY DEF Counters
<1>2. q = [r EXCEPT !["failed"] = r["failed"] + n, !["failures"] = r["failures"] + 1]
  BY Zenon
<1>3. q.overflow = r.overflow /\ q.failed = r.failed + n /\ q.failures = r.failures + 1
  BY <1>1, Zenon
<1>4. q = [overflow |-> q.overflow, failed |-> q.failed, failures |-> q.failures]
  BY <1>1, Zenon
<1>5. q.overflow \in Nat /\ q.failed \in Nat /\ q.failures \in Nat
  BY <1>3 DEF Counters
<1> QED
  BY <1>3, <1>4, <1>5 DEF Counters

(* What _record_overflow_locked does to the counters.                       *)
LEMMA OverflowAdded ==
    ASSUME NEW r \in Counters, NEW q, q = [r EXCEPT !.overflow = @ + 1]
    PROVE  /\ q \in Counters
           /\ q.overflow = r.overflow + 1 /\ q.failed = r.failed
           /\ q.failures = r.failures
  BY DEF Counters

(* Counters within the bounds are a summary.                                *)
LEMMA CountersFit ==
    ASSUME NEW r \in Counters, r.overflow <= MaxEnqueues, r.failed <= MaxEnqueues
    PROVE  r \in Summaries
  BY WriterConstants DEF Counters, Summaries, Counts

(* A summary is a set of counters.                                          *)
LEMMA SummaryIsCounters == ASSUME NEW r \in Summaries PROVE r \in Counters
  BY WriterConstants DEF Counters, Summaries, Counts

(* What _PendingRecovery.subtract leaves.                                   *)
LEMMA SubtractedType ==
    ASSUME NEW r \in Counters, NEW s \in Counters, NEW q,
           q = [overflow |-> Monus(r.overflow, s.overflow),
                failed   |-> Monus(r.failed, s.failed),
                failures |-> Monus(r.failures, s.failures)],
           s.overflow <= r.overflow, s.failed <= r.failed, s.failures <= r.failures
    PROVE  /\ q \in Counters
           /\ q.overflow = r.overflow - s.overflow /\ q.failed = r.failed - s.failed
           /\ q.failures = r.failures - s.failures
  BY DEF Counters, Monus

(* The larger of two numbers, as CompleteBatch takes it.                    *)
LEMMA MaxOfTwo ==
    ASSUME NEW m \in Nat, NEW n \in Nat, m <= n
    PROVE  Max({m, n}) = n
<1>1. \A x \in {m, n} : (\A y \in {m, n} : x >= y) <=> x = n
  OBVIOUS
<1> QED
  BY <1>1 DEF Max

(* A producer begins to serialize, or stops.                                *)
LEMMA OneMoreSerializes ==
    ASSUME producer \in [Producers -> {"idle", "serializing"}], IsFiniteSet(Serializing),
           NEW p \in Producers, producer[p] = "idle",
           producer' = [producer EXCEPT ![p] = "serializing"]
    PROVE  /\ producer' \in [Producers -> {"idle", "serializing"}]
           /\ IsFiniteSet(Serializing')
           /\ Cardinality(Serializing') = Cardinality(Serializing) + 1
<1>1. Serializing' = Serializing \cup {p} /\ p \notin Serializing
  BY DEF Serializing
<1>2. /\ IsFiniteSet(Serializing \cup {p})
      /\ Cardinality(Serializing \cup {p}) = Cardinality(Serializing) + 1
  BY <1>1, FS_AddElement
<1>3. producer' \in [Producers -> {"idle", "serializing"}]
  OBVIOUS
<1> QED
  BY <1>1, <1>2, <1>3

(* One producer fewer serializes.                                           *)
LEMMA OneLessSerializes ==
    ASSUME producer \in [Producers -> {"idle", "serializing"}], IsFiniteSet(Serializing),
           NEW p \in Producers, producer[p] = "serializing",
           producer' = [producer EXCEPT ![p] = "idle"]
    PROVE  /\ producer' \in [Producers -> {"idle", "serializing"}]
           /\ IsFiniteSet(Serializing')
           /\ Cardinality(Serializing') = Cardinality(Serializing) - 1
           /\ Cardinality(Serializing) >= 1
<1>1. Serializing' = Serializing \ {p} /\ p \in Serializing
  BY DEF Serializing
<1>2. /\ IsFiniteSet(Serializing \ {p})
      /\ Cardinality(Serializing \ {p}) = Cardinality(Serializing) - 1
  BY <1>1, FS_RemoveElement
<1>3. Cardinality(Serializing) \in Nat /\ Cardinality(Serializing \ {p}) \in Nat
  BY <1>2, FS_CardinalityType
<1>4. producer' \in [Producers -> {"idle", "serializing"}]
  OBVIOUS
<1> QED
  BY <1>1, <1>2, <1>3, <1>4

(* A producer that stays idle changes nothing.                              *)
LEMMA AsManySerialize ==
    ASSUME producer \in [Producers -> {"idle", "serializing"}],
           NEW p \in Producers, producer[p] = "idle",
           producer' = [producer EXCEPT ![p] = "idle"]
    PROVE  producer' = producer /\ Serializing' = Serializing
  BY DEF Serializing

-----------------------------------------------------------------------------
(* What is in memory *)

(* The assumptions on the constants, apart.                                 *)
LEMMA BoundsAreNat == MaxEnqueues \in Nat /\ MaxRotations \in Nat /\ MaxShutdowns \in Nat
  BY WriterConstants

(* The limits of the queue are numbers.                                     *)
LEMMA LimitsAreNat == MaxRecords \in Nat /\ MaxBytes \in Nat
  BY WriterConstants

(* A serialized record has at least one byte.                               *)
LEMMA SizesPositive == \A n \in Sizes : n \in Nat /\ n # 0
<1>1. Sizes \subseteq Nat \ {0}
  BY WriterConstants
<1> QED
  BY <1>1

Items == Records \cup {Sentinel}

(* Records and sentinels have a size.                                       *)
LEMMA ItemsAreSized ==
    /\ Records \subseteq Items /\ Items \subseteq Sized /\ Sentinel \in Items
    /\ \A r \in Records : r # Sentinel /\ r.seq # 0
    /\ Sentinel.seq = 0 /\ Sentinel.size = 0
<1>1. \A r \in Records : r \in Sized /\ r.seq # 0
  <2> SUFFICES ASSUME NEW r \in Records PROVE r \in Sized /\ r.seq # 0
    OBVIOUS
  <2>1. r.seq \in 1..MaxEnqueues /\ r.size \in Sizes
    BY DEF Records
  <2>2. r = [seq |-> r.seq, size |-> r.size]
    BY DEF Records
  <2>3. r.size \in Nat
    BY <2>1, SizesPositive
  <2>4. r.seq \in Nat /\ r.seq # 0
    BY <2>1, BoundsAreNat
  <2> QED
    BY <2>2, <2>3, <2>4 DEF Sized
<1>2. Sentinel \in Sized /\ Sentinel.seq = 0 /\ Sentinel.size = 0
  BY DEF Sentinel, Sized
<1> QED
  BY <1>1, <1>2 DEF Items

(* The types of what is in memory.                                          *)
LEMMA MemoryType ==
    ASSUME NEW b \in Seq(Records), NEW h \in Seq(Items), NEW q \in Seq(Items)
    PROVE  /\ b \in Seq(Items) /\ b \o h \in Seq(Items) /\ b \o h \o q \in Seq(Items)
           /\ b \in Seq(Sized) /\ h \in Seq(Sized) /\ q \in Seq(Sized)
           /\ b \o h \o q \in Seq(Sized)
           /\ b \o h \o q = b \o (h \o q) /\ h \o q \in Seq(Items) /\ h \o q \in Seq(Sized)
           /\ Len(b \o h \o q) = Len(b) + Len(h) + Len(q)
<1>1. b \in Seq(Items)
  BY ItemsAreSized, SeqMonotonic
<1>2. b \o h \in Seq(Items) /\ Len(b \o h) = Len(b) + Len(h)
  BY <1>1, ConcatProperties
<1>3. b \o h \o q \in Seq(Items) /\ Len(b \o h \o q) = Len(b) + Len(h) + Len(q)
  BY <1>2, ConcatProperties
<1>4. h \o q \in Seq(Items)
  BY ConcatProperties
<1>5. \A s \in Seq(Items) : s \in Seq(Sized)
  BY ItemsAreSized, SeqMonotonic
<1>6. b \o h \o q = b \o (h \o q)
  BY <1>1, ConcatAssociative
<1> QED
  BY <1>1, <1>2, <1>3, <1>4, <1>5, <1>6

(* The size of memory is that of its parts.                                 *)
LEMMA MemoryBytes ==
    ASSUME NEW b \in Seq(Records), NEW h \in Seq(Items), NEW q \in Seq(Items)
    PROVE  /\ Bytes(b \o h \o q) = Bytes(b) + Bytes(h \o q)
           /\ Bytes(b) \in Nat /\ Bytes(h \o q) \in Nat
<1>1. b \in Seq(Sized) /\ h \o q \in Seq(Sized) /\ b \o h \o q = b \o (h \o q)
  BY MemoryType
<1> QED
  BY <1>1, BytesConcat, BytesType

(* An item put into the queue is the last in memory.                        *)
LEMMA AppendToMemory ==
    ASSUME NEW b \in Seq(Records), NEW h \in Seq(Items), NEW q \in Seq(Items), NEW r \in Items
    PROVE  /\ b \o h \o Append(q, r) = Append(b \o h \o q, r)
           /\ Append(q, r) \in Seq(Items)
           /\ Bytes(b \o h \o Append(q, r)) = Bytes(b \o h \o q) + r.size
<1>1. b \o h \in Seq(Items) /\ b \o h \o q \in Seq(Items) /\ b \o h \o q \in Seq(Sized)
  BY MemoryType
<1>2. <<r>> \in Seq(Items)
  OBVIOUS
<1>3. Append(q, r) = q \o <<r>>
  BY AppendIsConcat
<1>4. Append(b \o h \o q, r) = (b \o h \o q) \o <<r>>
  BY <1>1, AppendIsConcat
<1>5. (b \o h) \o (q \o <<r>>) = ((b \o h) \o q) \o <<r>>
  BY <1>1, <1>2, ConcatAssociative
<1>6. <<r>> \in Seq(Sized) /\ r \in Sized
  BY ItemsAreSized
<1>7. Bytes((b \o h \o q) \o <<r>>) = Bytes(b \o h \o q) + Bytes(<<r>>)
  BY <1>1, <1>6, BytesConcat
<1>8. Bytes(<<r>>) = r.size
  BY <1>6, BytesOne
<1>9. Append(q, r) \in Seq(Items)
  BY AppendProperties
<1> QED
  BY <1>3, <1>4, <1>5, <1>7, <1>8, <1>9

(* Memory stays in order when the next record is accepted, ...              *)
LEMMA AcceptInOrder ==
    ASSUME NEW m \in Seq(Items), NEW c \in Nat, NEW n \in Nat, InOrder(m, c, n), Len(m) = n,
           NEW r \in Items, r.seq = c + n + 1
    PROVE  InOrder(Append(m, r), c, n + 1)
<1>1. /\ Len(Append(m, r)) = Len(m) + 1
      /\ \A i \in 1..Len(m) : Append(m, r)[i] = m[i]
      /\ Append(m, r)[Len(m) + 1] = r
  BY AppendProperties
<1> SUFFICES ASSUME NEW i \in 1..(n + 1)
             PROVE  Append(m, r)[i].seq = c + i
  BY <1>1 DEF InOrder
<1>2. CASE i = n + 1
  BY <1>1, <1>2
<1>3. CASE i \in 1..n
  BY <1>1, <1>3 DEF InOrder
<1> QED
  BY <1>2, <1>3

(* ... when a sentinel is sent, ...                                         *)
LEMMA SentinelInOrder ==
    ASSUME NEW m \in Seq(Items), NEW c \in Nat, NEW n \in Nat, InOrder(m, c, n)
    PROVE  InOrder(Append(m, Sentinel), c, n)
<1>1. /\ Len(Append(m, Sentinel)) = Len(m) + 1
      /\ \A i \in 1..Len(m) : Append(m, Sentinel)[i] = m[i]
      /\ Append(m, Sentinel)[Len(m) + 1] = Sentinel
  BY AppendProperties, ItemsAreSized
<1>2. n <= Len(m) /\ Len(m) \in Nat
  BY DEF InOrder
<1> SUFFICES ASSUME NEW i \in 1..(Len(m) + 1)
             PROVE  IF i <= n THEN Append(m, Sentinel)[i].seq = c + i
                              ELSE Append(m, Sentinel)[i] = Sentinel
  BY <1>1, <1>2 DEF InOrder
<1>3. CASE i = Len(m) + 1
  BY <1>1, <1>2, <1>3
<1>4. CASE i \in 1..Len(m)
  BY <1>1, <1>4 DEF InOrder
<1> QED
  BY <1>2, <1>3, <1>4

(* ... and when the records at its head are completed.                      *)
LEMMA CompleteInOrder ==
    ASSUME NEW b \in Seq(Records), NEW u \in Seq(Items), NEW c \in Nat, NEW n \in Nat,
           InOrder(b \o u, c, n)
    PROVE  /\ Len(b) <= n
           /\ InOrder(u, c + Len(b), n - Len(b))
           /\ \A i \in 1..Len(b) : b[i].seq = c + i
<1>1. b \in Seq(Items)
  BY ItemsAreSized, SeqMonotonic
<1>2. /\ Len(b \o u) = Len(b) + Len(u)
      /\ \A i \in 1..Len(b) : (b \o u)[i] = b[i]
      /\ \A i \in 1..Len(u) : (b \o u)[Len(b) + i] = u[i]
  BY <1>1, ConcatProperties
<1>3. Len(b) \in Nat /\ Len(u) \in Nat
  OBVIOUS
<1>4. \A i \in 1..Len(b) : b[i] # Sentinel
  BY ItemsAreSized, ElementOfSeq
<1>5. \A i \in 1..Len(b) : i <= n /\ b[i].seq = c + i
  BY <1>2, <1>3, <1>4 DEF InOrder
<1>6. Len(b) <= n
  BY <1>3, <1>5
<1>7. n - Len(b) <= Len(u)
  BY <1>2, <1>3 DEF InOrder
<1>8. ASSUME NEW i \in 1..Len(u)
      PROVE  IF i <= n - Len(b) THEN u[i].seq = (c + Len(b)) + i ELSE u[i] = Sentinel
  <2>1. Len(b) + i \in 1..Len(b \o u)
    BY <1>2, <1>3
  <2>2. IF Len(b) + i <= n THEN (b \o u)[Len(b) + i].seq = c + (Len(b) + i)
                           ELSE (b \o u)[Len(b) + i] = Sentinel
    BY <2>1 DEF InOrder
  <2>3. (b \o u)[Len(b) + i] = u[i]
    BY <1>2
  <2>4. IF Len(b) + i <= n THEN u[i].seq = c + (Len(b) + i) ELSE u[i] = Sentinel
    BY <2>2, <2>3
  <2>5. c + (Len(b) + i) = (c + Len(b)) + i /\ (Len(b) + i <= n <=> i <= n - Len(b))
    BY <1>3
  <2> QED
    BY <2>4, <2>5
<1> QED
  BY <1>5, <1>6, <1>7, <1>8 DEF InOrder

(* The first item of memory when the listener has no batch.                 *)
LEMMA FirstInMemory ==
    ASSUME NEW u \in Seq(Items), u # <<>>, NEW c \in Nat, NEW n \in Nat, InOrder(u, c, n)
    PROVE  /\ Head(u) \in Items
           /\ Head(u) = Sentinel => n = 0
           /\ Head(u) # Sentinel => Head(u) \in Records /\ Head(u).seq = c + 1 /\ n >= 1
<1>1. Len(u) \in Nat /\ Len(u) >= 1 /\ Head(u) = u[1] /\ u[1] \in Items
  BY EmptySeq, HeadTailProperties
<1>2. IF 1 <= n THEN u[1].seq = c + 1 ELSE u[1] = Sentinel
  BY <1>1 DEF InOrder
<1>3. u[1] = Sentinel => ~(1 <= n)
  BY <1>2, ItemsAreSized
<1> QED
  BY <1>1, <1>2, <1>3, ItemsAreSized DEF Items

-----------------------------------------------------------------------------
(* enqueue *)

(* The types as the provers use them.                                       *)
LEMMA InvTypes ==
    ASSUME WriterInv
    PROVE  /\ pendingRecords \in Nat /\ pendingBytes \in Nat /\ nextSequence \in Nat
           /\ completedSequence \in Nat /\ accepted \in Nat /\ written \in Nat
           /\ dropped \in Nat /\ attempts \in Nat /\ attempts <= MaxEnqueues
           /\ lost \in Nat /\ rejected \in Nat /\ reported \in Nat
           /\ rotationTarget \in Nat /\ MaxEnqueues \in Nat
           /\ pendingRecovery \in Counters /\ summary \in Counters
           /\ pendingRecovery.overflow \in Nat /\ pendingRecovery.failed \in Nat
           /\ pendingRecovery.failures \in Nat
           /\ batch \in Seq(Records) /\ held \in Seq(Items) /\ queue \in Seq(Items)
           /\ InMemory \in Seq(Items)
           /\ Len(batch) \in Nat /\ Len(held) \in Nat /\ Len(sink) \in Nat
           /\ Cardinality(Serializing) \in Nat
<1> USE BoundsAreNat DEF WriterInv, TypeOK, Counts
<1>1. /\ pendingRecords \in Nat /\ pendingBytes \in Nat /\ nextSequence \in Nat
      /\ completedSequence \in Nat /\ accepted \in Nat /\ written \in Nat
      /\ dropped \in Nat /\ attempts \in Nat /\ attempts <= MaxEnqueues
      /\ lost \in Nat /\ rejected \in Nat /\ reported \in Nat
      /\ rotationTarget \in Nat /\ MaxEnqueues \in Nat
  BY LimitsAreNat
<1>2. pendingRecovery \in Counters /\ summary \in Counters
  BY SummaryIsCounters
<1>3. /\ pendingRecovery.overflow \in Nat /\ pendingRecovery.failed \in Nat
      /\ pendingRecovery.failures \in Nat
  BY <1>2 DEF Counters
<1>4. batch \in Seq(Records) /\ held \in Seq(Items) /\ queue \in Seq(Items)
  BY DEF Items
<1>5. InMemory \in Seq(Items)
  BY <1>4, MemoryType DEF InMemory
<1>6. Len(batch) \in Nat /\ Len(held) \in Nat /\ Len(sink) \in Nat
  BY <1>4
<1>7. Cardinality(Serializing) \in Nat
  BY FS_CardinalityType DEF Accounts
<1> QED
  BY <1>1, <1>2, <1>3, <1>4, <1>5, <1>6, <1>7

(* What a call of enqueue that accepts nothing leaves alone, ...            *)
AcceptsNothing ==
    /\ UNCHANGED <<shutdownState, rotating, rotationTarget, completedSequence>>
    /\ UNCHANGED <<recoveryInflight, reported, writeVars, listenerVars, callerVars>>
    /\ NotAccepted

(* ... and what it keeps true of the rest.                                  *)
Accounted ==
    /\ producer' \in [Producers -> {"idle", "serializing"}]
    /\ IsFiniteSet(Serializing')
    /\ attempts' \in Nat /\ attempts' <= MaxEnqueues
    /\ dropped' \in Nat /\ rejected' \in Nat
    /\ unresolvedFailure' \in BOOLEAN /\ pendingRecovery' \in Counters
    /\ attempts' = accepted + (dropped' - lost) + Cardinality(Serializing')
    /\ lost + rejected' + pendingRecovery'.overflow <= dropped'
    /\ reported + pendingRecovery'.failed = lost + rejected'
    /\ ~unresolvedFailure' => pendingRecovery'.failed = 0 /\ pendingRecovery'.failures = 0
    /\ pendingRecovery.overflow <= pendingRecovery'.overflow
    /\ pendingRecovery.failed <= pendingRecovery'.failed
    /\ pendingRecovery.failures <= pendingRecovery'.failures

(* A call that accepts nothing preserves the invariant.                     *)
LEMMA AcceptsNothingPreserves ==
    ASSUME WriterInv, AcceptsNothing, Accounted
    PROVE  WriterInv'
<1> USE DEF AcceptsNothing, NotAccepted, writeVars, listenerVars, callerVars
<1>1. /\ pendingRecovery'.overflow \in Nat /\ pendingRecovery'.failed \in Nat
      /\ pendingRecovery'.failures \in Nat
      /\ Cardinality(Serializing') \in Nat
  BY FS_CardinalityType DEF Accounted, Counters
<1>2. /\ dropped' \in Counts /\ rejected' \in Counts /\ attempts' \in Counts
      /\ pendingRecovery'.overflow <= MaxEnqueues /\ pendingRecovery'.failed <= MaxEnqueues
  <2>1. accepted = written + lost + pendingRecords
    BY DEF WriterInv, Accounts
  <2>2. /\ accepted \in Nat /\ written \in Nat /\ lost \in Nat /\ pendingRecords \in Nat
        /\ reported \in Nat /\ MaxEnqueues \in Nat
    BY InvTypes
  <2>3. dropped' <= MaxEnqueues
    BY <1>1, <2>1, <2>2 DEF Accounted
  <2> QED
    BY <1>1, <2>1, <2>2, <2>3 DEF Accounted, Counts
<1>3. pendingRecovery' \in Summaries
  BY <1>2, CountersFit DEF Accounted
<1>4. TypeOK'
  BY <1>2, <1>3 DEF WriterInv, TypeOK, Accounted
<1>5. SinkInOrder' /\ MemoryInOrder' /\ ListenerLocals' /\ FenceHolds' /\ StopsLast'
  BY DEF WriterInv, SinkInOrder, MemoryInOrder, ListenerLocals, FenceHolds, StopsLast,
         InMemory
<1>6. Accounts'
  <2>1. listener' = "recover" =>
          /\ summary'.overflow <= pendingRecovery'.overflow
          /\ summary'.failed <= pendingRecovery'.failed
          /\ summary'.failures <= pendingRecovery'.failures
    <3>1. summary.overflow \in Nat /\ summary.failed \in Nat /\ summary.failures \in Nat
      BY InvTypes DEF Counters
    <3>2. /\ pendingRecovery.overflow \in Nat /\ pendingRecovery.failed \in Nat
          /\ pendingRecovery.failures \in Nat
      BY InvTypes
    <3> SUFFICES ASSUME listener = "recover"
                 PROVE  /\ summary.overflow <= pendingRecovery'.overflow
                        /\ summary.failed <= pendingRecovery'.failed
                        /\ summary.failures <= pendingRecovery'.failures
      OBVIOUS
    <3>3. /\ summary.overflow <= pendingRecovery.overflow
          /\ summary.failed <= pendingRecovery.failed
          /\ summary.failures <= pendingRecovery.failures
      BY DEF WriterInv, Accounts
    <3>4. /\ pendingRecovery.overflow <= pendingRecovery'.overflow
          /\ pendingRecovery.failed <= pendingRecovery'.failed
          /\ pendingRecovery.failures <= pendingRecovery'.failures
      BY DEF Accounted
    <3> QED
      BY <1>1, <3>1, <3>2, <3>3, <3>4
  <2> QED
    BY <2>1 DEF WriterInv, Accounts, Accounted
<1> QED
  BY <1>4, <1>5, <1>6 DEF WriterInv

(* A call that is refused, overflows or is rejected, or goes on to          *)
(* serialize, is accounted for.                                             *)
LEMMA AdmissionAccounted ==
    ASSUME WriterInv, NEW p \in Producers, EnqueueAdmission(p)
    PROVE  AcceptsNothing /\ Accounted
<1> USE DEF ProducerGoes
<1>0. /\ accepted \in Nat /\ dropped \in Nat /\ lost \in Nat /\ attempts \in Nat
      /\ rejected \in Nat /\ reported \in Nat /\ MaxEnqueues \in Nat
      /\ attempts <= MaxEnqueues /\ Cardinality(Serializing) \in Nat
      /\ pendingRecovery \in Counters
      /\ pendingRecovery.overflow \in Nat /\ pendingRecovery.failed \in Nat
      /\ pendingRecovery.failures \in Nat
  BY InvTypes
<1>1. AcceptsNothing
  BY DEF EnqueueAdmission, AcceptsNothing
<1>2. /\ attempts' = attempts + 1 /\ attempts' <= MaxEnqueues /\ attempts' \in Nat
      /\ rejected' = rejected
  <2>1. attempts' = attempts + 1 /\ attempts < MaxEnqueues /\ rejected' = rejected
    BY DEF EnqueueAdmission
  <2> QED
    BY <1>0, <2>1
<1>3. /\ producer \in [Producers -> {"idle", "serializing"}] /\ IsFiniteSet(Serializing)
      /\ unresolvedFailure \in BOOLEAN
  BY DEF WriterInv, TypeOK, Accounts
<1>4. /\ attempts = accepted + (dropped - lost) + Cardinality(Serializing)
      /\ lost + rejected + pendingRecovery.overflow <= dropped
      /\ reported + pendingRecovery.failed = lost + rejected
      /\ ~unresolvedFailure => pendingRecovery.failed = 0 /\ pendingRecovery.failures = 0
  BY DEF WriterInv, Accounts
<1>5. CASE producer[p] = "idle" /\ producer' = [producer EXCEPT ![p] = "idle"] /\ Refuse
  <2>1. Serializing' = Serializing /\ producer' = producer
    BY <1>3, <1>5, AsManySerialize
  <2> QED
    BY <1>1, <1>2, <1>3, <1>4, <1>5, <2>1, <1>0 DEF Accounted, Refuse
<1>6. CASE /\ producer[p] = "idle" /\ producer' = [producer EXCEPT ![p] = "idle"]
           /\ RecordOverflow
  <2>1. Serializing' = Serializing /\ producer' = producer
    BY <1>3, <1>6, AsManySerialize
  <2>2. /\ pendingRecovery' \in Counters
        /\ pendingRecovery'.overflow = pendingRecovery.overflow + 1
        /\ pendingRecovery'.failed = pendingRecovery.failed
        /\ pendingRecovery'.failures = pendingRecovery.failures
    BY <1>6, <1>0, OverflowAdded DEF RecordOverflow
  <2> QED
    BY <1>1, <1>2, <1>3, <1>4, <1>6, <2>1, <2>2, <1>0 DEF Accounted, RecordOverflow
<1>7. CASE /\ producer[p] = "idle" /\ producer' = [producer EXCEPT ![p] = "serializing"]
           /\ UNCHANGED <<dropped, unresolvedFailure, pendingRecovery>>
  <2>1. /\ producer' \in [Producers -> {"idle", "serializing"}]
        /\ IsFiniteSet(Serializing')
        /\ Cardinality(Serializing') = Cardinality(Serializing) + 1
    BY <1>3, <1>7, OneMoreSerializes
  <2> QED
    BY <1>1, <1>2, <1>3, <1>4, <1>7, <2>1, <1>0 DEF Accounted
<1> QED
  BY <1>5, <1>6, <1>7 DEF EnqueueAdmission

(* A record dropped after serialization is accounted for.                   *)
LEMMA DroppedAccounted ==
    ASSUME WriterInv, NEW p \in Producers, ProducerGoes(p, "serializing", "idle"),
           NotAccepted, UNCHANGED <<attempts, rejected>>, Refuse \/ RecordOverflow
    PROVE  AcceptsNothing /\ Accounted
<1> USE DEF ProducerGoes
<1>0. /\ accepted \in Nat /\ dropped \in Nat /\ lost \in Nat /\ attempts \in Nat
      /\ rejected \in Nat /\ reported \in Nat /\ MaxEnqueues \in Nat
      /\ attempts <= MaxEnqueues /\ Cardinality(Serializing) \in Nat
      /\ pendingRecovery \in Counters
      /\ pendingRecovery.overflow \in Nat /\ pendingRecovery.failed \in Nat
      /\ pendingRecovery.failures \in Nat
  BY InvTypes
<1>1. AcceptsNothing
  BY DEF AcceptsNothing
<1>3. /\ producer \in [Producers -> {"idle", "serializing"}] /\ IsFiniteSet(Serializing)
      /\ unresolvedFailure \in BOOLEAN
  BY DEF WriterInv, TypeOK, Accounts
<1>4. /\ attempts = accepted + (dropped - lost) + Cardinality(Serializing)
      /\ lost + rejected + pendingRecovery.overflow <= dropped
      /\ reported + pendingRecovery.failed = lost + rejected
      /\ ~unresolvedFailure => pendingRecovery.failed = 0 /\ pendingRecovery.failures = 0
  BY DEF WriterInv, Accounts
<1>5. /\ producer' \in [Producers -> {"idle", "serializing"}]
      /\ IsFiniteSet(Serializing')
      /\ Cardinality(Serializing') = Cardinality(Serializing) - 1
  BY <1>3, OneLessSerializes
<1>6. CASE Refuse
  BY <1>1, <1>3, <1>4, <1>5, <1>6, <1>0 DEF Accounted, Refuse
<1>7. CASE RecordOverflow
  <2>2. /\ pendingRecovery' \in Counters
        /\ pendingRecovery'.overflow = pendingRecovery.overflow + 1
        /\ pendingRecovery'.failed = pendingRecovery.failed
        /\ pendingRecovery'.failures = pendingRecovery.failures
    BY <1>7, <1>0, OverflowAdded DEF RecordOverflow
  <2> QED
    BY <1>1, <1>3, <1>4, <1>5, <1>7, <2>2, <1>0 DEF Accounted, RecordOverflow
<1> QED
  BY <1>6, <1>7

(* What recording a failure of n records changes.                           *)
LEMMA FailureRecorded ==
    ASSUME pendingRecovery \in Counters, NEW n \in Nat, RecordFailure(n)
    PROVE  /\ pendingRecovery' \in Counters
           /\ pendingRecovery'.overflow = pendingRecovery.overflow
           /\ pendingRecovery'.failed = pendingRecovery.failed + n
           /\ pendingRecovery'.failures = pendingRecovery.failures + 1
           /\ dropped' = dropped + n
           /\ unresolvedFailure' \in BOOLEAN /\ unresolvedFailure'
<1>1. pendingRecovery' = [pendingRecovery EXCEPT !.failed = @ + n, !.failures = @ + 1]
  BY Zenon DEF RecordFailure
<1>2. /\ pendingRecovery' \in Counters
      /\ pendingRecovery'.overflow = pendingRecovery.overflow
      /\ pendingRecovery'.failed = pendingRecovery.failed + n
      /\ pendingRecovery'.failures = pendingRecovery.failures + 1
  BY <1>1, FailureAdded, Zenon
<1>3. dropped' = dropped + n /\ unresolvedFailure' \in BOOLEAN /\ unresolvedFailure'
  BY Zenon DEF RecordFailure
<1> QED
  BY <1>2, <1>3

(* A record that serialization rejects is accounted for as failed.          *)
LEMMA RejectedAccounted ==
    ASSUME WriterInv, NEW p \in Producers, SerializeRejected(p)
    PROVE  AcceptsNothing /\ Accounted
<1>0. /\ accepted \in Nat /\ dropped \in Nat /\ lost \in Nat /\ attempts \in Nat
      /\ rejected \in Nat /\ reported \in Nat /\ MaxEnqueues \in Nat
      /\ attempts <= MaxEnqueues /\ Cardinality(Serializing) \in Nat
      /\ pendingRecovery \in Counters
      /\ pendingRecovery.overflow \in Nat /\ pendingRecovery.failed \in Nat
      /\ pendingRecovery.failures \in Nat
  BY InvTypes
<1>1. /\ ProducerGoes(p, "serializing", "idle") /\ NotAccepted
      /\ RecordFailure(1) /\ rejected' = rejected + 1 /\ attempts' = attempts
  BY DEF SerializeRejected
<1>2. AcceptsNothing
  BY <1>1 DEF AcceptsNothing, ProducerGoes
<1>3. producer \in [Producers -> {"idle", "serializing"}] /\ IsFiniteSet(Serializing)
  BY DEF WriterInv, TypeOK, Accounts
<1>4. /\ attempts = accepted + (dropped - lost) + Cardinality(Serializing)
      /\ lost + rejected + pendingRecovery.overflow <= dropped
      /\ reported + pendingRecovery.failed = lost + rejected
  BY DEF WriterInv, Accounts
<1>5. /\ producer' \in [Producers -> {"idle", "serializing"}]
      /\ IsFiniteSet(Serializing')
      /\ Cardinality(Serializing') = Cardinality(Serializing) - 1
  BY <1>1, <1>3, OneLessSerializes DEF ProducerGoes
<1>6. /\ pendingRecovery' \in Counters
      /\ pendingRecovery'.overflow = pendingRecovery.overflow
      /\ pendingRecovery'.failed = pendingRecovery.failed + 1
      /\ pendingRecovery'.failures = pendingRecovery.failures + 1
      /\ dropped' = dropped + 1 /\ unresolvedFailure' \in BOOLEAN /\ unresolvedFailure'
  BY <1>0, <1>1, FailureRecorded
<1>7. rejected' = rejected + 1 /\ attempts' = attempts
  BY <1>1
<1> QED
  BY <1>0, <1>2, <1>4, <1>5, <1>6, <1>7 DEF Accounted

(* A record that is accepted is the last in memory.                         *)
LEMMA AcceptPreserves ==
    ASSUME WriterInv, NEW p \in Producers, NEW size \in Sizes,
           ProducerGoes(p, "serializing", "idle"), UNCHANGED <<attempts, rejected>>,
           shutdownState = "running",
           pendingRecords < MaxRecords, pendingBytes + size <= MaxBytes,
           queue' = Append(queue, [seq |-> nextSequence, size |-> size]),
           nextSequence' = nextSequence + 1,
           pendingRecords' = pendingRecords + 1,
           pendingBytes' = pendingBytes + size,
           accepted' = accepted + 1,
           UNCHANGED <<dropped, unresolvedFailure, pendingRecovery>>
    PROVE  WriterInv'
<1> DEFINE r == [seq |-> nextSequence, size |-> size]
<1>0. /\ accepted \in Nat /\ dropped \in Nat /\ lost \in Nat /\ attempts \in Nat
      /\ rejected \in Nat /\ MaxEnqueues \in Nat /\ attempts <= MaxEnqueues
      /\ pendingRecords \in Nat /\ pendingBytes \in Nat /\ nextSequence \in Nat
      /\ completedSequence \in Nat /\ written \in Nat
      /\ Cardinality(Serializing) \in Nat /\ pendingRecovery.overflow \in Nat
      /\ MaxRecords \in Nat /\ MaxBytes \in Nat /\ size \in Nat
  BY InvTypes, LimitsAreNat, SizesPositive
<1>1. /\ UNCHANGED <<shutdownState, rotating, rotationTarget, completedSequence>>
      /\ UNCHANGED <<recoveryInflight, reported, written, sink, lost>>
      /\ UNCHANGED <<listener, batch, held, summary>>
      /\ UNCHANGED <<flusher, flushTarget, rotator, rotations, stopper, stopTarget, shutdowns>>
      /\ producer[p] = "serializing" /\ producer' = [producer EXCEPT ![p] = "idle"]
  BY DEF ProducerGoes, writeVars, listenerVars, callerVars
<1>2. producer \in [Producers -> {"idle", "serializing"}] /\ IsFiniteSet(Serializing)
  BY DEF WriterInv, TypeOK, Accounts
<1>3. /\ producer' \in [Producers -> {"idle", "serializing"}]
      /\ IsFiniteSet(Serializing')
      /\ Cardinality(Serializing') = Cardinality(Serializing) - 1
      /\ Cardinality(Serializing) >= 1
  BY <1>1, <1>2, OneLessSerializes
<1>4. /\ attempts = accepted + (dropped - lost) + Cardinality(Serializing)
      /\ lost + rejected + pendingRecovery.overflow <= dropped
      /\ accepted = nextSequence - 1 /\ accepted = written + lost + pendingRecords
  BY DEF WriterInv, Accounts
<1>5. nextSequence \in 1..MaxEnqueues /\ nextSequence + 1 \in 1..(MaxEnqueues + 1)
  BY <1>0, <1>3, <1>4
<1>6. accepted + 1 \in Counts
  BY <1>0, <1>4, <1>5 DEF Counts
<1>7. r \in Records /\ r \in Items /\ r.seq = nextSequence /\ r.size = size
  BY <1>5 DEF Records, Items
<1>8. batch \in Seq(Records) /\ held \in Seq(Items) /\ queue \in Seq(Items)
  BY InvTypes
<1>9. /\ queue' = Append(queue, r) /\ queue' \in Seq(Items)
      /\ InMemory' = Append(InMemory, r) /\ Bytes(InMemory') = Bytes(InMemory) + size
  BY <1>1, <1>7, <1>8, AppendToMemory DEF InMemory
<1>10. Len(InMemory) = pendingRecords /\ InMemory \in Seq(Items)
  <2>1. pendingRecords <= Len(InMemory) /\ ~(Len(InMemory) > pendingRecords)
    BY DEF WriterInv, MemoryInOrder, InOrder, StopsLast
  <2>2. InMemory \in Seq(Items) /\ Len(InMemory) \in Nat
    BY InvTypes
  <2> QED
    BY <1>0, <2>1, <2>2
<1>11. TypeOK'
  <2>1. queue' \in Seq(Records \cup {Sentinel})
    BY <1>9 DEF Items
  <2>2. pendingRecords' \in 0..MaxRecords /\ pendingBytes' \in 0..MaxBytes
    BY <1>0
  <2> QED
    BY <1>1, <1>3, <1>5, <1>6, <2>1, <2>2 DEF WriterInv, TypeOK
<1>12. MemoryInOrder'
  <2>1. completedSequence + pendingRecords = nextSequence - 1
    BY DEF WriterInv, MemoryInOrder
  <2>2. InOrder(InMemory, completedSequence, pendingRecords) /\ pendingBytes = Bytes(InMemory)
    BY DEF WriterInv, MemoryInOrder
  <2>3. r.seq = completedSequence + pendingRecords + 1
    BY <1>0, <1>7, <2>1
  <2>4. InOrder(Append(InMemory, r), completedSequence, pendingRecords + 1)
    BY <1>0, <1>7, <1>10, <2>2, <2>3, AcceptInOrder
  <2>5. completedSequence' + pendingRecords' = nextSequence' - 1
    BY <1>0, <1>1, <2>1
  <2> HIDE DEF r
  <2> QED
    BY <1>1, <1>9, <2>2, <2>4, <2>5 DEF MemoryInOrder
<1>13. SinkInOrder' /\ ListenerLocals' /\ FenceHolds'
  BY <1>1 DEF WriterInv, SinkInOrder, ListenerLocals, FenceHolds
<1>14. StopsLast'
  <2>1. Len(InMemory') = pendingRecords'
    BY <1>7, <1>9, <1>10, AppendProperties
  <2>2. stopper = "idle" /\ listener # "exited" /\ shutdownState # "stopped"
    BY DEF WriterInv, StopsLast
  <2>3. ~(Len(InMemory') > pendingRecords')
    BY <1>0, <2>1
  <2> QED
    BY <1>1, <2>2, <2>3 DEF StopsLast
<1>15. Accounts'
  <2>1. /\ accepted' = nextSequence' - 1 /\ accepted' = written + lost + pendingRecords'
        /\ attempts' = accepted' + (dropped - lost) + Cardinality(Serializing')
    BY <1>0, <1>3, <1>4
  <2>2. dropped' = dropped /\ pendingRecovery' = pendingRecovery /\ rejected' = rejected
    OBVIOUS
  <2> QED
    BY <1>1, <1>3, <2>1, <2>2 DEF WriterInv, Accounts
<1> QED
  BY <1>11, <1>12, <1>13, <1>14, <1>15 DEF WriterInv

(* Every step of enqueue preserves the invariant.                           *)
LEMMA EnqueuePreserves ==
    ASSUME WriterInv, NEW p \in Producers, EnqueueStep(p)
    PROVE  WriterInv'
<1>1. CASE EnqueueAdmission(p)
  BY <1>1, AdmissionAccounted, AcceptsNothingPreserves
<1>2. CASE SerializeTooLarge(p)
  <2>1. Refuse \/ RecordOverflow
    BY <1>2 DEF SerializeTooLarge
  <2>2. ProducerGoes(p, "serializing", "idle") /\ NotAccepted /\ UNCHANGED <<attempts, rejected>>
    BY <1>2 DEF SerializeTooLarge
  <2> QED
    BY <2>1, <2>2, DroppedAccounted, AcceptsNothingPreserves
<1>3. CASE SerializeRejected(p)
  BY <1>3, RejectedAccounted, AcceptsNothingPreserves
<1>4. CASE \E size \in Sizes : EnqueueCommit(p, size)
  <2>1. PICK size \in Sizes : EnqueueCommit(p, size)
    BY <1>4
  <2>2. ProducerGoes(p, "serializing", "idle") /\ UNCHANGED <<attempts, rejected>>
    BY <2>1 DEF EnqueueCommit
  <2>3. CASE NotAccepted /\ (Refuse \/ RecordOverflow)
    BY <2>2, <2>3, DroppedAccounted, AcceptsNothingPreserves
  <2>4. CASE /\ shutdownState = "running"
             /\ pendingRecords < MaxRecords /\ pendingBytes + size <= MaxBytes
             /\ queue' = Append(queue, [seq |-> nextSequence, size |-> size])
             /\ nextSequence' = nextSequence + 1
             /\ pendingRecords' = pendingRecords + 1
             /\ pendingBytes' = pendingBytes + size
             /\ accepted' = accepted + 1
             /\ UNCHANGED <<dropped, unresolvedFailure, pendingRecovery>>
    BY <2>2, <2>4, AcceptPreserves
  <2> QED
    BY <2>1, <2>3, <2>4 DEF EnqueueCommit
<1> QED
  BY <1>1, <1>2, <1>3, <1>4 DEF EnqueueStep

-----------------------------------------------------------------------------
(* flush, rotate and shutdown *)

(* What a caller of flush, rotate or shutdown never touches.                *)
LEMMA CallerKeeps ==
    ASSUME WriterInv, CallerStep
    PROVE  SinkInOrder' /\ ListenerLocals'
  BY DEF WriterInv, SinkInOrder, ListenerLocals, CallerStep, pendingVars, writeVars,
         listenerVars, producerVars

(* Without a failure and a sentinel the accounts and memory are kept, too.  *)
LEMMA CallerKeepsAccounts ==
    ASSUME WriterInv, CallerStep, NoFailure
    PROVE  Accounts'
  BY DEF WriterInv, Accounts, Serializing, CallerStep, NoFailure, pendingVars, writeVars,
         listenerVars, producerVars

(* A caller that sends no sentinel leaves memory as it is.                  *)
LEMMA CallerKeepsMemory ==
    ASSUME WriterInv, CallerStep, UNCHANGED queue
    PROVE  MemoryInOrder' /\ InMemory' = InMemory
  BY DEF WriterInv, MemoryInOrder, InMemory, CallerStep, pendingVars, listenerVars

(* The last accepted record is a possible target.                           *)
LEMMA TargetType ==
    ASSUME WriterInv
    PROVE  nextSequence - 1 \in Counts /\ nextSequence - 1 >= completedSequence + Len(batch)
<1>1. /\ completedSequence + pendingRecords = nextSequence - 1
      /\ InOrder(InMemory, completedSequence, pendingRecords)
  BY DEF WriterInv, MemoryInOrder
<1>2. batch \in Seq(Records) /\ held \in Seq(Items) /\ queue \in Seq(Items)
  BY InvTypes
<1>3. InMemory = batch \o (held \o queue) /\ held \o queue \in Seq(Items)
  BY <1>2, MemoryType DEF InMemory
<1>4. completedSequence \in Nat /\ pendingRecords \in Nat /\ Len(batch) \in Nat
  BY InvTypes
<1>5. Len(batch) <= pendingRecords
  BY <1>1, <1>2, <1>3, <1>4, CompleteInOrder
<1>6. nextSequence \in 1..(MaxEnqueues + 1)
  BY DEF WriterInv, TypeOK
<1> QED
  BY <1>1, <1>4, <1>5, <1>6, BoundsAreNat DEF Counts

(* A flush, and its return, preserve the invariant.                         *)
LEMMA FlushPreserves == ASSUME WriterInv, Flush \/ FlushReturns PROVE WriterInv'
<1>1. /\ CallerStep /\ NoFailure
      /\ UNCHANGED <<shutdownState, rotating, rotationTarget, queue>>
      /\ UNCHANGED <<rotator, rotations, stopper, stopTarget, shutdowns>>
  BY DEF Flush, FlushReturns
<1>2. /\ flusher' \in {"idle", "waiting", "drained", "failed", "timeout"}
      /\ flushTarget' \in Counts
  <2>1. CASE Flush
    BY <2>1, TargetType DEF Flush
  <2>2. CASE FlushReturns
    BY <2>2 DEF FlushReturns, ResultLocked, WriterInv, TypeOK
  <2> QED
    BY <2>1, <2>2
<1>3. SinkInOrder' /\ ListenerLocals' /\ Accounts' /\ MemoryInOrder' /\ InMemory' = InMemory
  BY <1>1, CallerKeeps, CallerKeepsAccounts, CallerKeepsMemory
<1>4. TypeOK'
  BY <1>1, <1>2 DEF WriterInv, TypeOK, CallerStep, NoFailure, pendingVars, writeVars,
         listenerVars, producerVars
<1>5. FenceHolds' /\ StopsLast'
  BY <1>1, <1>3 DEF WriterInv, FenceHolds, StopsLast, CallerStep, pendingVars, listenerVars
<1> QED
  BY <1>3, <1>4, <1>5 DEF WriterInv

(* rotate: the fence is raised at the last accepted record, ...             *)
LEMMA RotatePreserves ==
    ASSUME WriterInv, Rotate \/ RotationTimesOut \/ RotationFenced
    PROVE  WriterInv'
<1>1. /\ CallerStep /\ NoFailure
      /\ UNCHANGED <<shutdownState, queue, flusher, flushTarget, stopper, stopTarget, shutdowns>>
  BY DEF Rotate, RotationTimesOut, RotationFenced, RotatorGoes
<1>2. /\ UNCHANGED <<pendingRecords, pendingBytes, completedSequence, nextSequence>>
      /\ UNCHANGED <<listener, batch, held, recoveryInflight>>
  BY <1>1 DEF CallerStep, pendingVars, listenerVars
<1>3. SinkInOrder' /\ ListenerLocals' /\ Accounts' /\ MemoryInOrder' /\ InMemory' = InMemory
  BY <1>1, CallerKeeps, CallerKeepsAccounts, CallerKeepsMemory
<1>4. StopsLast'
  BY <1>1, <1>2, <1>3 DEF WriterInv, StopsLast
<1>5. /\ rotating' \in BOOLEAN /\ rotationTarget' \in Counts /\ rotations' \in 0..MaxRotations
      /\ rotator' \in {"idle", "waiting", "operating"} /\ FenceHolds'
  <2>0. /\ rotating \in BOOLEAN /\ rotationTarget \in Counts /\ rotations \in 0..MaxRotations
        /\ rotating <=> rotator # "idle"
    BY DEF WriterInv, TypeOK, FenceHolds
  <2>1. CASE Rotate
    <3>1. /\ rotating' = TRUE /\ rotationTarget' = nextSequence - 1
          /\ rotations' = rotations + 1 /\ rotations < MaxRotations /\ rotator' = "waiting"
      BY <2>1 DEF Rotate, RotatorGoes
    <3>2. rotationTarget' \in Counts /\ rotationTarget' >= completedSequence + Len(batch)
      BY <3>1, TargetType
    <3>3. rotations' \in 0..MaxRotations
      BY <2>0, <3>1, BoundsAreNat
    <3>4. completedSequence + Len(batch) <= rotationTarget'
      BY <3>2, <1>2, InvTypes, BoundsAreNat DEF Counts
    <3> QED
      BY <1>2, <3>1, <3>2, <3>3, <3>4 DEF FenceHolds
  <2>2. CASE RotationTimesOut
    BY <1>2, <2>0, <2>2 DEF RotationTimesOut, RotatorGoes, FenceHolds
  <2>3. CASE RotationFenced
    BY <1>2, <2>0, <2>3 DEF RotationFenced, RotatorGoes, FenceHolds, Reached, WriterInv
  <2> QED
    BY <2>1, <2>2, <2>3
<1>6. TypeOK'
  BY <1>1, <1>5 DEF WriterInv, TypeOK, CallerStep, NoFailure, pendingVars, writeVars,
         listenerVars, producerVars
<1> QED
  BY <1>3, <1>4, <1>5, <1>6 DEF WriterInv

(* ... and lowered when the operation ended, which may be a failure.        *)
LEMMA RotationEndsPreserves == ASSUME WriterInv, RotationEnds PROVE WriterInv'
<1>1. /\ CallerStep
      /\ NoFailure \/ RecordFailure(0)
      /\ UNCHANGED <<shutdownState, queue, flusher, flushTarget, stopper, stopTarget, shutdowns>>
      /\ rotating' = FALSE /\ rotator' = "idle" /\ UNCHANGED <<rotationTarget, rotations>>
  BY DEF RotationEnds, RotatorGoes
<1>2. /\ UNCHANGED <<pendingRecords, pendingBytes, completedSequence, nextSequence>>
      /\ UNCHANGED <<listener, batch, held, recoveryInflight, summary, reported>>
      /\ UNCHANGED <<accepted, written, sink, lost, producer, attempts, rejected>>
  BY <1>1 DEF CallerStep, pendingVars, listenerVars, writeVars, producerVars
<1>3. SinkInOrder' /\ ListenerLocals' /\ MemoryInOrder' /\ InMemory' = InMemory
  BY <1>1, CallerKeeps, CallerKeepsMemory
<1>4. StopsLast' /\ FenceHolds'
  BY <1>1, <1>2, <1>3 DEF WriterInv, StopsLast, FenceHolds
<1>5. /\ Accounts' /\ dropped' \in Counts /\ unresolvedFailure' \in BOOLEAN
      /\ pendingRecovery' \in Summaries
  <2>1. CASE NoFailure
    BY <1>1, <2>1, CallerKeepsAccounts DEF NoFailure, WriterInv, TypeOK
  <2>2. CASE RecordFailure(0)
    <3>1. /\ pendingRecovery \in Counters /\ dropped \in Nat
          /\ pendingRecovery.failed \in Nat /\ pendingRecovery.failures \in Nat
      BY InvTypes
    <3>2. /\ pendingRecovery' \in Counters
          /\ pendingRecovery'.overflow = pendingRecovery.overflow
          /\ pendingRecovery'.failed = pendingRecovery.failed + 0
          /\ pendingRecovery'.failures = pendingRecovery.failures + 1
          /\ dropped' = dropped + 0 /\ unresolvedFailure' \in BOOLEAN /\ unresolvedFailure'
      BY <2>2, <3>1, FailureRecorded
    <3>3. pendingRecovery'.failed = pendingRecovery.failed /\ dropped' = dropped
      BY <3>1, <3>2
    <3>4. dropped' \in Counts /\ pendingRecovery \in Summaries
      BY <3>3 DEF WriterInv, TypeOK
    <3>5. pendingRecovery' \in Summaries
      <4>1. pendingRecovery.overflow <= MaxEnqueues /\ pendingRecovery.failed <= MaxEnqueues
        BY <3>4, BoundsAreNat DEF Summaries, Counts
      <4> QED
        BY <3>2, <3>3, <4>1, CountersFit
    <3>6. Serializing' = Serializing
      BY <1>2 DEF Serializing
    <3>7. listener = "recover" =>
            /\ summary.overflow <= pendingRecovery.overflow
            /\ summary.failed <= pendingRecovery.failed
            /\ summary.failures <= pendingRecovery.failures + 1
      <4>1. summary.failures \in Nat
        BY InvTypes DEF Counters
      <4> QED
        BY <3>1, <4>1 DEF WriterInv, Accounts
    <3>8. Accounts'
      BY <1>2, <3>2, <3>3, <3>6, <3>7 DEF WriterInv, Accounts
    <3> QED
      BY <3>2, <3>4, <3>5, <3>8
  <2> QED
    BY <1>1, <2>1, <2>2
<1>6. TypeOK'
  BY <1>1, <1>2, <1>5 DEF WriterInv, TypeOK
<1> QED
  BY <1>3, <1>4, <1>5, <1>6 DEF WriterInv

(* shutdown refuses records before it sends the sentinel, and the writer is *)
(* stopped after the listener exited.                                       *)
LEMMA ShutdownPreserves ==
    ASSUME WriterInv, Shutdown \/ ShutdownTimesOut \/ ListenerJoined
    PROVE  WriterInv'
<1>1. /\ CallerStep /\ NoFailure /\ UNCHANGED queue
      /\ UNCHANGED <<rotating, rotationTarget, flusher, flushTarget, rotator, rotations>>
  BY DEF Shutdown, ShutdownTimesOut, ListenerJoined, StopperGoes
<1>2. /\ UNCHANGED <<pendingRecords, pendingBytes, completedSequence, nextSequence>>
      /\ UNCHANGED <<listener, batch, held, recoveryInflight>>
  BY <1>1 DEF CallerStep, pendingVars, listenerVars
<1>3. SinkInOrder' /\ ListenerLocals' /\ Accounts' /\ MemoryInOrder' /\ InMemory' = InMemory
  BY <1>1, CallerKeeps, CallerKeepsAccounts, CallerKeepsMemory
<1>4. FenceHolds'
  BY <1>1, <1>2 DEF WriterInv, FenceHolds
<1>5. /\ shutdownState' \in {"running", "stopping", "stopped"}
      /\ stopper' \in {"idle", "waiting", "joining", "done"} /\ stopTarget' \in Counts
      /\ shutdowns' \in 0..MaxShutdowns /\ StopsLast'
  <2>0. /\ shutdownState \in {"running", "stopping", "stopped"}
        /\ shutdowns \in 0..MaxShutdowns /\ 0 \in Counts
    BY BoundsAreNat DEF WriterInv, TypeOK, Counts
  <2>1. CASE Shutdown
    <3>1. shutdowns' \in 0..MaxShutdowns
      BY <2>0, <2>1, BoundsAreNat DEF Shutdown
    <3>2. stopTarget' \in Counts
      BY <2>1, TargetType DEF Shutdown
    <3> QED
      BY <1>2, <1>3, <2>0, <2>1, <3>1, <3>2 DEF Shutdown, StopperGoes, WriterInv, StopsLast
  <2>2. CASE ShutdownTimesOut
    BY <1>2, <1>3, <2>0, <2>2 DEF ShutdownTimesOut, StopperGoes, WriterInv, StopsLast
  <2>3. CASE ListenerJoined
    BY <1>2, <1>3, <2>0, <2>3 DEF ListenerJoined, StopperGoes, WriterInv, StopsLast
  <2> QED
    BY <2>1, <2>2, <2>3
<1>6. TypeOK'
  BY <1>1, <1>5 DEF WriterInv, TypeOK, CallerStep, NoFailure, pendingVars, writeVars,
         listenerVars, producerVars
<1> QED
  BY <1>3, <1>4, <1>5, <1>6 DEF WriterInv

(* The sentinel is the last item in memory.                                 *)
LEMMA StopListenerPreserves == ASSUME WriterInv, StopListener PROVE WriterInv'
<1>1. /\ CallerStep /\ NoFailure /\ queue' = Append(queue, Sentinel)
      /\ UNCHANGED <<rotating, rotationTarget, flusher, flushTarget, rotator, rotations>>
      /\ UNCHANGED <<shutdownState, stopTarget, shutdowns>>
      /\ stopper = "waiting" /\ stopper' = "joining"
  BY DEF StopListener, StopperGoes
<1>2. /\ UNCHANGED <<pendingRecords, pendingBytes, completedSequence, nextSequence>>
      /\ UNCHANGED <<listener, batch, held, recoveryInflight>>
  BY <1>1 DEF CallerStep, pendingVars, listenerVars
<1>3. SinkInOrder' /\ ListenerLocals' /\ Accounts'
  BY <1>1, CallerKeeps, CallerKeepsAccounts
<1>4. FenceHolds'
  BY <1>1, <1>2 DEF WriterInv, FenceHolds
<1>5. batch \in Seq(Records) /\ held \in Seq(Items) /\ queue \in Seq(Items)
  BY InvTypes
<1>6. /\ queue' \in Seq(Items)
      /\ InMemory' = Append(InMemory, Sentinel)
      /\ Bytes(InMemory') = Bytes(InMemory) + 0
  BY <1>1, <1>2, <1>5, AppendToMemory, ItemsAreSized DEF InMemory
<1>7. MemoryInOrder'
  <2>1. /\ InMemory \in Seq(Items) /\ completedSequence \in Nat /\ pendingRecords \in Nat
        /\ pendingBytes \in Nat
    BY InvTypes
  <2>2. InOrder(InMemory, completedSequence, pendingRecords) /\ pendingBytes = Bytes(InMemory)
    BY DEF WriterInv, MemoryInOrder
  <2>3. InOrder(Append(InMemory, Sentinel), completedSequence, pendingRecords)
    BY <2>1, <2>2, SentinelInOrder
  <2>4. Bytes(InMemory') = pendingBytes
    BY <1>6, <2>1, <2>2
  <2> QED
    BY <1>2, <1>6, <2>3, <2>4 DEF WriterInv, MemoryInOrder
<1>8. StopsLast'
  BY <1>1, <1>2 DEF WriterInv, StopsLast
<1>9. TypeOK'
  <2>1. queue' \in Seq(Records \cup {Sentinel})
    BY <1>6 DEF Items
  <2> QED
    BY <1>1, <2>1 DEF WriterInv, TypeOK, CallerStep, NoFailure, pendingVars, writeVars,
         listenerVars, producerVars
<1> QED
  BY <1>3, <1>4, <1>7, <1>8, <1>9 DEF WriterInv

-----------------------------------------------------------------------------
(* The listener thread *)

(* Moving records from the queue to the batch is no step of the accounts.   *)
LEMMA GatheringKeeps ==
    ASSUME WriterInv, UNCHANGED <<stateVars, callerVars, producerVars>>, NoWrite,
           listener' # "recover"
    PROVE  SinkInOrder' /\ Accounts'
  BY DEF WriterInv, SinkInOrder, Accounts, Serializing, NoWrite, stateVars, callerVars,
         producerVars, pendingVars, recoveryVars, writeVars

(* A step that only moves what is in memory, and stops nothing, preserves   *)
(* the invariant if the locals fit and the fence holds.                     *)
LEMMA MovesPreserve ==
    ASSUME WriterInv, UNCHANGED <<stateVars, callerVars, producerVars>>, NoWrite,
           listener # "exited", listener' \in {"fence", "gather", "candidate", "append"},
           batch' \in Seq(Records), held' \in Seq(Items), queue' \in Seq(Items),
           Len(held') <= 1, InMemory' = InMemory, ListenerLocals', FenceHolds'
    PROVE  WriterInv'
<1>1. SinkInOrder' /\ Accounts'
  BY GatheringKeeps
<1>2. MemoryInOrder'
  BY DEF WriterInv, MemoryInOrder, NoWrite, stateVars, pendingVars
<1>3. StopsLast'
  <2>1. UNCHANGED <<stopper, shutdownState, pendingRecords>>
    BY DEF NoWrite, stateVars, callerVars, pendingVars
  <2>2. listener' # "exited"
    OBVIOUS
  <2> QED
    BY <2>1, <2>2 DEF WriterInv, StopsLast
<1>4. TypeOK'
  <2>1. held' \in Seq(Records \cup {Sentinel}) /\ queue' \in Seq(Records \cup {Sentinel})
    BY DEF Items
  <2>2. listener' \in {"dequeue", "fence", "gather", "candidate", "append", "recover", "exited"}
    OBVIOUS
  <2> QED
    BY <2>1, <2>2 DEF WriterInv, TypeOK, NoWrite, stateVars, callerVars, producerVars,
       pendingVars, recoveryVars, writeVars
<1> QED
  BY <1>1, <1>2, <1>3, <1>4 DEF WriterInv

(* The batch ends before the first record that is held back or queued.      *)
LEMMA HeadOfMemory ==
    ASSUME WriterInv
    PROVE  /\ InMemory = batch \o (held \o queue)
           /\ held \o queue \in Seq(Items)
           /\ Len(batch) <= pendingRecords
           /\ InOrder(held \o queue, completedSequence + Len(batch), pendingRecords - Len(batch))
           /\ \A i \in 1..Len(batch) : batch[i].seq = completedSequence + i
           /\ completedSequence + Len(batch) \in Nat /\ pendingRecords - Len(batch) \in Nat
<1>1. batch \in Seq(Records) /\ held \in Seq(Items) /\ queue \in Seq(Items)
  BY InvTypes
<1>2. InMemory = batch \o (held \o queue) /\ held \o queue \in Seq(Items)
  BY <1>1, MemoryType DEF InMemory
<1>3. completedSequence \in Nat /\ pendingRecords \in Nat /\ Len(batch) \in Nat
  BY InvTypes
<1>4. InOrder(batch \o (held \o queue), completedSequence, pendingRecords)
  BY <1>2 DEF WriterInv, MemoryInOrder
<1>5. /\ Len(batch) <= pendingRecords
      /\ InOrder(held \o queue, completedSequence + Len(batch), pendingRecords - Len(batch))
      /\ \A i \in 1..Len(batch) : batch[i].seq = completedSequence + i
  BY <1>1, <1>2, <1>3, <1>4, CompleteInOrder
<1> QED
  BY <1>2, <1>3, <1>5

(* Taking the head off a sequence and putting it in front again.            *)
LEMMA HeadAndTail ==
    ASSUME NEW s \in Seq(Items), s # <<>>
    PROVE  /\ s = <<Head(s)>> \o Tail(s) /\ Head(s) \in Items /\ Tail(s) \in Seq(Items)
           /\ <<Head(s)>> \in Seq(Items)
<1>1. /\ Head(s) \in Items /\ Tail(s) \in Seq(Items) /\ Len(Tail(s)) = Len(s) - 1
      /\ \A i \in 1..Len(Tail(s)) : Tail(s)[i] = s[i + 1]
      /\ Len(s) \in Nat \ {0}
  BY HeadTailProperties, EmptySeq
<1>2. <<Head(s)>> \in Seq(Items) /\ Len(<<Head(s)>>) = 1 /\ <<Head(s)>>[1] = s[1]
  BY <1>1
<1> DEFINE t == <<Head(s)>> \o Tail(s)
<1>3. /\ t \in Seq(Items) /\ Len(t) = 1 + Len(Tail(s))
      /\ \A i \in 1..(1 + Len(Tail(s))) :
            t[i] = IF i <= 1 THEN <<Head(s)>>[i] ELSE Tail(s)[i - 1]
  BY <1>1, <1>2, ConcatProperties
<1>4. Len(t) = Len(s)
  BY <1>1, <1>3
<1>5. ASSUME NEW i \in 1..Len(s) PROVE t[i] = s[i]
  <2>1. CASE i = 1
    BY <1>1, <1>2, <1>3, <2>1
  <2>2. CASE i # 1
    <3>1. i - 1 \in 1..Len(Tail(s)) /\ (i - 1) + 1 = i
      BY <1>1, <2>2
    <3> QED
      BY <1>1, <1>3, <2>2, <3>1
  <2> QED
    BY <2>1, <2>2
<1> HIDE DEF t
<1>6. t = s
  BY <1>3, <1>4, <1>5, SeqEqual
<1> QED
  BY <1>1, <1>2, <1>6 DEF t

(* Nothing before or after a sequence.                                      *)
LEMMA EmptyParts ==
    ASSUME NEW s \in Seq(Items)
    PROVE  s \o <<>> = s /\ <<>> \o s = s /\ <<>> \in Seq(Items) /\ <<>> \in Seq(Records)
  BY ConcatEmptySeq, EmptySeq

(* What Dequeue takes is the first item in memory.                          *)
LEMMA DequeueTakesFirst ==
    ASSUME WriterInv, Dequeue
    PROVE  /\ batch = <<>> /\ held' = <<>> /\ queue' \in Seq(Items)
           /\ Head(held \o queue) \in Items /\ held \o queue # <<>>
           /\ held \o queue = <<Head(held \o queue)>> \o queue'
           /\ InMemory = held \o queue
<1> DEFINE u == held \o queue
<1>1. listener = "dequeue" /\ held' = <<>>
  BY DEF Dequeue, ListenerGoes
<1>2. batch = <<>>
  BY <1>1 DEF WriterInv, ListenerLocals
<1>3. held \in Seq(Items) /\ queue \in Seq(Items) /\ Len(held) <= 1
  BY InvTypes DEF WriterInv, TypeOK
<1>4. InMemory = u /\ u \in Seq(Items)
  BY <1>2, <1>3, HeadOfMemory, EmptyParts
<1>5. CASE held = <<>>
  <2>1. u = queue /\ queue # <<>> /\ queue' = Tail(queue)
    BY <1>3, <1>5, EmptyParts DEF Dequeue
  <2>2. u = <<Head(u)>> \o queue' /\ Head(u) \in Items /\ queue' \in Seq(Items)
    BY <1>3, <2>1, HeadAndTail
  <2> QED
    BY <1>1, <1>2, <1>4, <2>1, <2>2
<1>6. CASE held # <<>>
  <2>1. queue' = queue
    BY <1>6 DEF Dequeue
  <2>2. Len(held) = 1 /\ held[1] \in Items
    BY <1>3, <1>6, EmptySeq, ElementOfSeq
  <2>3. held = <<held[1]>>
    BY <1>3, <2>2, SeqEqual
  <2>4. u # <<>> /\ u[1] = held[1] /\ Len(u) >= 1
    BY <1>3, <2>2, ConcatProperties
  <2>5. Head(u) = held[1]
    BY <1>4, <2>4, HeadAndTail
  <2> QED
    BY <1>1, <1>2, <1>3, <1>4, <2>1, <2>2, <2>3, <2>4, <2>5
<1> QED
  BY <1>5, <1>6

(* Taking the next record, or the sentinel, preserves the invariant.        *)
LEMMA DequeuePreserves == ASSUME WriterInv, Dequeue PROVE WriterInv'
<1> DEFINE r == Head(held \o queue)
<1>1. /\ batch = <<>> /\ held' = <<>> /\ queue' \in Seq(Items)
      /\ r \in Items /\ held \o queue # <<>>
      /\ held \o queue = <<r>> \o queue' /\ InMemory = held \o queue
  BY DequeueTakesFirst
<1>2. /\ listener = "dequeue"
      /\ listener' = IF r = Sentinel THEN "exited" ELSE "fence"
      /\ batch' = IF r = Sentinel THEN <<>> ELSE <<r>>
      /\ UNCHANGED <<stateVars, callerVars, producerVars>> /\ NoWrite
  BY DEF Dequeue, ListenerGoes
<1>3. /\ UNCHANGED <<shutdownState, nextSequence, rotating, rotationTarget, rotator, stopper>>
      /\ UNCHANGED <<pendingRecords, pendingBytes, completedSequence, recoveryInflight>>
  BY <1>2 DEF NoWrite, stateVars, callerVars, pendingVars, recoveryVars
<1>4. <<>> \in Seq(Items) /\ Len(<<>>) = 0 /\ <<>> \in Seq(Records) /\ <<>> \o queue' = queue'
  BY <1>1, EmptyParts, EmptySeq
<1>5. InMemory' = batch' \o <<>> \o queue'
  BY <1>1 DEF InMemory
<1>6. ~recoveryInflight
  BY <1>2 DEF WriterInv, ListenerLocals
<1>7. completedSequence \in Nat /\ pendingRecords \in Nat /\ InMemory \in Seq(Items)
  BY InvTypes
<1>8. InOrder(held \o queue, completedSequence, pendingRecords)
  BY <1>1 DEF WriterInv, MemoryInOrder
<1>9. /\ r = Sentinel => pendingRecords = 0
      /\ r # Sentinel => r \in Records
  BY <1>1, <1>7, <1>8, FirstInMemory
<1>10. FenceHolds'
  BY <1>2, <1>3, <1>6 DEF WriterInv, FenceHolds
<1>11. CASE r # Sentinel
  <2>0. listener' = "fence" /\ batch' = <<r>> /\ r \in Records
    BY <1>2, <1>9, <1>11
  <2>1. listener' = "fence" /\ batch' = <<r>> /\ batch' \in Seq(Records)
    <3> HIDE DEF r
    <3> QED
      BY <2>0
  <2>2. Len(batch') = 1 /\ batch' # <<>> /\ batch' \in Seq(Items)
    BY <1>1, <2>1
  <2>3. InMemory' = InMemory
    BY <1>1, <1>5, <2>1, <2>2, EmptyParts
  <2>4. ListenerLocals'
    BY <1>1, <1>3, <1>6, <2>1, <2>2 DEF ListenerLocals
  <2>5. Len(held') <= 1
    BY <1>1, <1>4
  <2> QED
    BY <1>1, <1>2, <1>4, <1>10, <2>1, <2>3, <2>4, <2>5, MovesPreserve
<1>12. CASE r = Sentinel
  <2>1. listener' = "exited" /\ batch' = <<>> /\ pendingRecords = 0
    BY <1>2, <1>9, <1>12
  <2>2. InMemory' = queue'
    BY <1>1, <1>4, <1>5, <2>1, EmptyParts
  <2>3. /\ InMemory = <<Sentinel>> \o queue' /\ <<Sentinel>> \in Seq(Items)
        /\ Len(<<Sentinel>>) = 1
    BY <1>1, <1>12, ItemsAreSized
  <2>4. /\ Len(InMemory) = 1 + Len(queue')
        /\ \A i \in 1..Len(queue') : InMemory[1 + i] = queue'[i]
    <3>1. /\ Len(<<Sentinel>> \o queue') = Len(<<Sentinel>>) + Len(queue')
          /\ \A i \in 1..(Len(<<Sentinel>>) + Len(queue')) : (<<Sentinel>> \o queue')[i] =
                IF i <= Len(<<Sentinel>>) THEN <<Sentinel>>[i] ELSE queue'[i - Len(<<Sentinel>>)]
      BY <1>1, <2>3, ConcatProperties
    <3>2. Len(queue') \in Nat
      BY <1>1
    <3>3. ASSUME NEW i \in 1..Len(queue') PROVE (<<Sentinel>> \o queue')[1 + i] = queue'[i]
      <4>1. 1 + i \in 1..(1 + Len(queue')) /\ ~(1 + i <= 1) /\ (1 + i) - 1 = i
        BY <3>2
      <4> QED
        BY <2>3, <3>1, <4>1
    <3> QED
      BY <2>3, <3>1, <3>3
  <2>5. \A i \in 1..Len(InMemory) : InMemory[i] = Sentinel
    BY <1>1, <1>8, <2>1 DEF InOrder
  <2>6. Len(queue') \in Nat
    BY <1>1
  <2>7. \A i \in 1..Len(queue') : queue'[i] = Sentinel
    BY <2>4, <2>5, <2>6
  <2>8. InOrder(queue', completedSequence, 0)
    BY <2>6, <2>7 DEF InOrder
  <2>9. Bytes(queue') = Bytes(InMemory)
    <3>1. <<Sentinel>> \in Seq(Sized) /\ queue' \in Seq(Sized) /\ Sentinel \in Sized
      BY <1>1, ItemsAreSized, SeqMonotonic
    <3>2. Bytes(<<Sentinel>>) = 0
      BY <3>1, BytesOne, ItemsAreSized
    <3>3. Bytes(queue') \in Nat
      BY <3>1, BytesType
    <3>4. Bytes(<<Sentinel>> \o queue') = Bytes(<<Sentinel>>) + Bytes(queue')
      BY <3>1, BytesConcat
    <3> QED
      BY <2>3, <3>2, <3>3, <3>4
  <2>10. MemoryInOrder'
    BY <1>3, <2>1, <2>2, <2>8, <2>9 DEF WriterInv, MemoryInOrder
  <2>11. Len(InMemory) > pendingRecords
    BY <2>1, <2>4, <2>6
  <2>12. StopsLast'
    BY <1>3, <2>1, <2>11 DEF WriterInv, StopsLast
  <2>13. ListenerLocals'
    BY <1>1, <1>3, <1>6, <2>1 DEF ListenerLocals
  <2>14. SinkInOrder' /\ Accounts'
    BY <1>2, <2>1, GatheringKeeps
  <2>15. TypeOK'
    <3>1. /\ held' \in Seq(Records \cup {Sentinel}) /\ queue' \in Seq(Records \cup {Sentinel})
          /\ Len(held') <= 1 /\ batch' \in Seq(Records)
      BY <1>1, <1>4, <2>1 DEF Items
    <3>2. listener' \in {"dequeue", "fence", "gather", "candidate", "append", "recover", "exited"}
      BY <2>1
    <3> HIDE DEF r
    <3> QED
      BY <1>2, <3>1, <3>2 DEF WriterInv, TypeOK, NoWrite, stateVars, callerVars, producerVars,
         pendingVars, recoveryVars, writeVars
  <2> QED
    BY <1>10, <2>10, <2>12, <2>13, <2>14, <2>15 DEF WriterInv
<1> QED
  BY <1>11, <1>12

(* What the steps that gather a batch have in common.                       *)
LEMMA GatheringFacts ==
    ASSUME WriterInv, UNCHANGED <<stateVars, callerVars, producerVars>>, NoWrite
    PROVE  /\ UNCHANGED <<rotating, rotationTarget, rotator>>
           /\ UNCHANGED <<completedSequence, recoveryInflight>>
           /\ rotating <=> rotator # "idle"
           /\ rotator = "operating" => completedSequence >= rotationTarget /\ ~recoveryInflight
           /\ recoveryInflight <=> listener = "recover"
  BY DEF WriterInv, FenceHolds, ListenerLocals, NoWrite, stateVars, callerVars,
         pendingVars, recoveryVars

(* A record passes the fence when it is before the target.                  *)
LEMMA PassFencePreserves == ASSUME WriterInv, PassFence PROVE WriterInv'
<1>1. /\ listener = "fence" /\ listener' = "gather" /\ ~RotationBlocks(batch[1].seq)
      /\ UNCHANGED <<batch, held, queue>>
      /\ UNCHANGED <<stateVars, callerVars, producerVars>> /\ NoWrite
  BY DEF PassFence, ListenerGoes
<1>2. /\ UNCHANGED <<rotating, rotationTarget, rotator>>
      /\ UNCHANGED <<completedSequence, recoveryInflight>>
      /\ rotating <=> rotator # "idle"
      /\ rotator = "operating" => completedSequence >= rotationTarget /\ ~recoveryInflight
      /\ recoveryInflight <=> listener = "recover"
  BY <1>1, GatheringFacts
<1>3. batch # <<>> /\ Len(batch) = 1 /\ held = <<>>
  BY <1>1 DEF WriterInv, ListenerLocals
<1>4. batch[1].seq = completedSequence + 1
  BY <1>3, HeadOfMemory
<1>5. rotating => completedSequence + Len(batch) <= rotationTarget
  <2>1. completedSequence \in Nat /\ rotationTarget \in Nat
    BY InvTypes
  <2> QED
    BY <1>1, <1>3, <1>4, <2>1 DEF RotationBlocks
<1>6. FenceHolds'
  BY <1>1, <1>2, <1>5 DEF FenceHolds
<1>7. ListenerLocals'
  BY <1>1, <1>2, <1>3 DEF ListenerLocals
<1>8. batch' \in Seq(Records) /\ held' \in Seq(Items) /\ queue' \in Seq(Items) /\ Len(held') <= 1
  BY <1>1, InvTypes DEF WriterInv, TypeOK
<1>9. InMemory' = InMemory
  BY <1>1 DEF InMemory
<1> QED
  BY <1>1, <1>6, <1>7, <1>8, <1>9, MovesPreserve

(* A batch that gathers no more preserves the invariant.                    *)
LEMMA GatherEndsPreserves == ASSUME WriterInv, GatherEnds PROVE WriterInv'
<1>1. /\ listener = "gather" /\ listener' = "append"
      /\ UNCHANGED <<batch, held, queue>>
      /\ UNCHANGED <<stateVars, callerVars, producerVars>> /\ NoWrite
  BY DEF GatherEnds, ListenerGoes
<1>2. /\ UNCHANGED <<rotating, rotationTarget, rotator>>
      /\ UNCHANGED <<completedSequence, recoveryInflight>>
      /\ recoveryInflight <=> listener = "recover"
  BY <1>1, GatheringFacts
<1>3. batch # <<>> /\ held = <<>>
  BY <1>1 DEF WriterInv, ListenerLocals
<1>4. FenceHolds'
  BY <1>1, <1>2 DEF WriterInv, FenceHolds
<1>5. ListenerLocals'
  BY <1>1, <1>2, <1>3 DEF ListenerLocals
<1>6. batch' \in Seq(Records) /\ held' \in Seq(Items) /\ queue' \in Seq(Items) /\ Len(held') <= 1
  BY <1>1, InvTypes DEF WriterInv, TypeOK
<1>7. InMemory' = InMemory
  BY <1>1 DEF InMemory
<1> QED
  BY <1>1, <1>4, <1>5, <1>6, <1>7, MovesPreserve

(* Taking a candidate from the queue preserves the invariant.               *)
LEMMA GatherTakesPreserves == ASSUME WriterInv, GatherTakes PROVE WriterInv'
<1>1. /\ listener = "gather" /\ listener' = "candidate" /\ queue # <<>>
      /\ held' = <<Head(queue)>> /\ queue' = Tail(queue) /\ batch' = batch
      /\ UNCHANGED <<stateVars, callerVars, producerVars>> /\ NoWrite
  BY DEF GatherTakes, ListenerGoes
<1>2. /\ UNCHANGED <<rotating, rotationTarget, rotator>>
      /\ UNCHANGED <<completedSequence, recoveryInflight>>
      /\ recoveryInflight <=> listener = "recover"
  BY <1>1, GatheringFacts
<1>3. batch # <<>> /\ held = <<>>
  BY <1>1 DEF WriterInv, ListenerLocals
<1>4. FenceHolds'
  BY <1>1, <1>2 DEF WriterInv, FenceHolds
<1>5. batch \in Seq(Records) /\ queue \in Seq(Items) /\ <<>> \in Seq(Items)
  BY InvTypes, EmptySeq
<1>6. /\ queue = <<Head(queue)>> \o Tail(queue) /\ Head(queue) \in Items
      /\ Tail(queue) \in Seq(Items) /\ <<Head(queue)>> \in Seq(Items)
  BY <1>1, <1>5, HeadAndTail
<1>7. Len(held') = 1
  BY <1>1
<1>8. ListenerLocals'
  BY <1>1, <1>2, <1>3, <1>7 DEF ListenerLocals
<1>9. InMemory' = InMemory
  <2>1. InMemory' = batch \o (<<Head(queue)>> \o Tail(queue))
    BY <1>1, <1>5, <1>6, MemoryType DEF InMemory
  <2>2. InMemory = batch \o queue
    BY <1>3, <1>5, EmptyParts, MemoryType DEF InMemory
  <2> QED
    BY <1>6, <2>1, <2>2
<1>10. batch' \in Seq(Records) /\ held' \in Seq(Items) /\ queue' \in Seq(Items) /\ Len(held') <= 1
  BY <1>1, <1>5, <1>6, <1>7
<1> QED
  BY <1>1, <1>4, <1>8, <1>9, <1>10, MovesPreserve

(* A sequence of one item.                                                  *)
LEMMA OneItem ==
    ASSUME NEW s \in Seq(Items), Len(s) = 1, NEW q \in Seq(Items)
    PROVE  /\ s[1] \in Items /\ s = <<s[1]>> /\ s # <<>> /\ s \o q # <<>>
           /\ (s \o q)[1] = s[1] /\ Head(s \o q) = s[1]
<1>1. s[1] \in Items
  <2>1. 1 \in 1..Len(s)
    OBVIOUS
  <2> QED
    BY <2>1, ElementOfSeq
<1>2. s = <<s[1]>>
  <2>1. <<s[1]>> \in Seq(Items) /\ Len(<<s[1]>>) = 1
    BY <1>1
  <2>2. \A i \in 1..1 : s[i] = <<s[1]>>[i]
    OBVIOUS
  <2> QED
    BY <2>1, <2>2, SeqEqual
<1>3. s \o q \in Seq(Items) /\ Len(s \o q) = 1 + Len(q) /\ Len(q) \in Nat
  <2>1. s \o q \in Seq(Items) /\ Len(s \o q) = Len(s) + Len(q)
    BY ConcatProperties
  <2>2. Len(q) \in Nat
    OBVIOUS
  <2> QED
    BY <2>1, <2>2
<1>4. (s \o q)[1] = s[1]
  <2>1. 1 \in 1..(Len(s) + Len(q))
    BY <1>3
  <2> QED
    BY <2>1, ConcatProperties
<1>5. s \o q # <<>> /\ s # <<>>
  BY <1>3, EmptySeq
<1>6. Head(s \o q) = (s \o q)[1]
  BY <1>3, <1>5
<1> QED
  BY <1>1, <1>2, <1>4, <1>5, <1>6

(* A candidate joins the batch only when it, too, is before the target.     *)
LEMMA CandidatePreserves == ASSUME WriterInv, Candidate PROVE WriterInv'
<1>1. /\ listener = "candidate" /\ queue' = queue
      /\ UNCHANGED <<stateVars, callerVars, producerVars>> /\ NoWrite
  BY DEF Candidate, ListenerGoes
<1>2. /\ UNCHANGED <<rotating, rotationTarget, rotator>>
      /\ UNCHANGED <<completedSequence, recoveryInflight>>
      /\ rotating <=> rotator # "idle"
      /\ rotator = "operating" => completedSequence >= rotationTarget /\ ~recoveryInflight
      /\ recoveryInflight <=> listener = "recover"
  BY <1>1, GatheringFacts
<1>3. batch # <<>> /\ Len(held) = 1
  BY <1>1 DEF WriterInv, ListenerLocals
<1>4. batch \in Seq(Records) /\ held \in Seq(Items) /\ queue \in Seq(Items)
  BY InvTypes
<1>5. CASE listener' = "append" /\ batch' = batch /\ held' = held
  <2>1. FenceHolds'
    BY <1>1, <1>2, <1>5 DEF WriterInv, FenceHolds
  <2>2. ListenerLocals'
    BY <1>1, <1>2, <1>3, <1>5 DEF ListenerLocals
  <2>3. InMemory' = InMemory
    BY <1>1, <1>5 DEF InMemory
  <2>4. Len(held') <= 1
    BY <1>5 DEF WriterInv, TypeOK
  <2> QED
    BY <1>1, <1>4, <1>5, <2>1, <2>2, <2>3, <2>4, MovesPreserve
<1>6. CASE /\ listener' = "gather" /\ batch' = batch \o held /\ held' = <<>>
           /\ held[1] # Sentinel /\ ~RotationBlocks(held[1].seq)
  <2>1. held[1] \in Records /\ held = <<held[1]>>
    <3>1. held[1] \in Items /\ held = <<held[1]>>
      BY <1>3, <1>4, OneItem
    <3> QED
      BY <1>6, <3>1 DEF Items
  <2>2. held \in Seq(Records) /\ batch' \in Seq(Records) /\ Len(batch') = Len(batch) + 1
    <3>1. <<held[1]>> \in Seq(Records)
      BY <2>1
    <3>2. held \in Seq(Records)
      BY <2>1, <3>1
    <3>3. batch \o held \in Seq(Records) /\ Len(batch \o held) = Len(batch) + Len(held)
      BY <1>4, <3>2, ConcatProperties
    <3> QED
      BY <1>3, <1>6, <3>2, <3>3
  <2>3. held[1].seq = completedSequence + Len(batch) + 1
    <3>1. /\ held \o queue \in Seq(Items)
          /\ InOrder(held \o queue, completedSequence + Len(batch), pendingRecords - Len(batch))
          /\ completedSequence + Len(batch) \in Nat /\ pendingRecords - Len(batch) \in Nat
      BY HeadOfMemory
    <3>3. held \o queue # <<>>
      BY <1>3, <1>4, OneItem
    <3>4. Head(held \o queue) = held[1]
      BY <1>3, <1>4, OneItem
    <3> QED
      BY <1>6, <3>1, <3>3, <3>4, FirstInMemory
  <2>4. rotating => completedSequence + Len(batch') <= rotationTarget
    <3>1. completedSequence \in Nat /\ rotationTarget \in Nat /\ Len(batch) \in Nat
      BY InvTypes
    <3> QED
      BY <1>6, <2>2, <2>3, <3>1 DEF RotationBlocks
  <2>5. FenceHolds'
    BY <1>2, <1>6, <2>4 DEF FenceHolds
  <2>6. batch' # <<>> /\ Len(held') <= 1 /\ held' \in Seq(Items)
    <3>1. Len(batch') \in Nat /\ Len(batch') # 0
      BY <1>4, <2>2
    <3> QED
      BY <1>6, <3>1, EmptySeq
  <2>7. ListenerLocals'
    BY <1>1, <1>2, <1>6, <2>6 DEF ListenerLocals
  <2>8. InMemory' = InMemory
    <3>1. batch \o held \in Seq(Items)
      BY <1>4, MemoryType
    <3>2. (batch \o held) \o <<>> = batch \o held
      BY <3>1, EmptyParts
    <3> QED
      BY <1>1, <1>6, <3>2 DEF InMemory
  <2> QED
    BY <1>1, <1>4, <1>6, <2>2, <2>5, <2>6, <2>7, <2>8, MovesPreserve
<1> QED
  BY <1>5, <1>6 DEF Candidate, ListenerGoes

-----------------------------------------------------------------------------
(* The sink's answers *)

(* What completing the batch does to the counters and to memory.            *)
LEMMA BatchCompleted ==
    ASSUME WriterInv, listener = "append", CompleteBatch,
           UNCHANGED <<held, queue, nextSequence>>
    PROVE  /\ Len(batch) \in Nat /\ Len(batch) >= 1 /\ Len(batch) <= pendingRecords
           /\ completedSequence' = completedSequence + Len(batch)
           /\ pendingRecords' = pendingRecords - Len(batch)
           /\ batch' = <<>> /\ MemoryInOrder' /\ pendingBytes' \in Nat
           /\ pendingBytes' <= pendingBytes
           /\ Len(InMemory') = Len(InMemory) - Len(batch)
           /\ Len(InMemory') \in Nat /\ Len(InMemory) \in Nat
           /\ \A i \in 1..Len(batch) : batch[i].seq = completedSequence + i
<1>1. batch \in Seq(Records) /\ held \in Seq(Items) /\ queue \in Seq(Items)
  BY InvTypes
<1>2. /\ completedSequence \in Nat /\ pendingRecords \in Nat /\ Len(batch) \in Nat
      /\ pendingBytes \in Nat /\ nextSequence \in Nat
  BY InvTypes
<1>3. Len(batch) >= 1
  <2>1. batch # <<>>
    BY DEF WriterInv, ListenerLocals
  <2> QED
    BY <1>1, <1>2, <2>1, EmptySeq
<1>4. /\ InMemory = batch \o (held \o queue) /\ held \o queue \in Seq(Items)
      /\ Len(batch) <= pendingRecords
      /\ InOrder(held \o queue, completedSequence + Len(batch), pendingRecords - Len(batch))
      /\ \A i \in 1..Len(batch) : batch[i].seq = completedSequence + i
  BY HeadOfMemory
<1>5. completedSequence' = completedSequence + Len(batch)
  <2>1. Last(batch).seq = completedSequence + Len(batch)
    BY <1>2, <1>3, <1>4 DEF Last
  <2>2. completedSequence' = Max({completedSequence, completedSequence + Len(batch)})
    BY <2>1 DEF CompleteBatch
  <2>3. completedSequence + Len(batch) \in Nat /\ completedSequence <= completedSequence + Len(batch)
    BY <1>2
  <2> QED
    BY <1>2, <2>2, <2>3, MaxOfTwo
<1>6. pendingRecords' = pendingRecords - Len(batch) /\ batch' = <<>>
  BY DEF CompleteBatch
<1>7. InMemory' = held \o queue
  BY <1>1, <1>4, <1>6, EmptyParts DEF InMemory
<1>8. /\ Bytes(InMemory) = Bytes(batch) + Bytes(held \o queue)
      /\ Bytes(batch) \in Nat /\ Bytes(held \o queue) \in Nat
  BY <1>1, MemoryBytes DEF InMemory
<1>9. pendingBytes' = Bytes(InMemory') /\ pendingBytes' \in Nat /\ pendingBytes' <= pendingBytes
  <2>1. pendingBytes = Bytes(InMemory) /\ pendingBytes' = pendingBytes - Bytes(batch)
    BY DEF WriterInv, MemoryInOrder, CompleteBatch
  <2> QED
    BY <1>7, <1>8, <2>1
<1>10. MemoryInOrder'
  <2>1. completedSequence + pendingRecords = nextSequence - 1
    BY DEF WriterInv, MemoryInOrder
  <2>2. completedSequence' + pendingRecords' = nextSequence' - 1
    BY <1>2, <1>5, <1>6, <2>1
  <2>3. InOrder(InMemory', completedSequence', pendingRecords')
    BY <1>4, <1>5, <1>6, <1>7
  <2> QED
    BY <1>9, <2>2, <2>3 DEF MemoryInOrder
<1>11. /\ Len(InMemory') = Len(InMemory) - Len(batch)
       /\ Len(InMemory') \in Nat /\ Len(InMemory) \in Nat
  <2>1. batch \in Seq(Items)
    BY <1>1, MemoryType
  <2>2. Len(InMemory) = Len(batch) + Len(held \o queue) /\ Len(held \o queue) \in Nat
    BY <1>4, <2>1, ConcatProperties
  <2> QED
    BY <1>2, <1>7, <2>2
<1> QED
  BY <1>2, <1>3, <1>4, <1>5, <1>6, <1>9, <1>10, <1>11

(* What completing the batch keeps true, whatever the sink answered.        *)
LEMMA CompletionKeeps ==
    ASSUME WriterInv, listener = "append", CompleteBatch,
           UNCHANGED <<stateVars, callerVars, producerVars>>, UNCHANGED <<held, queue>>,
           listener' \in {"dequeue", "recover"},
           recoveryInflight' = (listener' = "recover")
    PROVE  /\ MemoryInOrder' /\ ListenerLocals' /\ FenceHolds' /\ StopsLast'
           /\ pendingRecords' \in 0..MaxRecords /\ pendingBytes' \in 0..MaxBytes
           /\ completedSequence' \in Counts /\ batch' \in Seq(Records)
<1>1. /\ Len(batch) \in Nat /\ Len(batch) >= 1 /\ Len(batch) <= pendingRecords
      /\ completedSequence' = completedSequence + Len(batch)
      /\ pendingRecords' = pendingRecords - Len(batch)
      /\ batch' = <<>> /\ MemoryInOrder' /\ pendingBytes' \in Nat
      /\ pendingBytes' <= pendingBytes
      /\ Len(InMemory') = Len(InMemory) - Len(batch)
      /\ Len(InMemory') \in Nat /\ Len(InMemory) \in Nat
  BY BatchCompleted DEF stateVars
<1>2. /\ completedSequence \in Nat /\ pendingRecords \in Nat /\ pendingBytes \in Nat
      /\ nextSequence \in Nat /\ rotationTarget \in Nat /\ MaxEnqueues \in Nat
  BY InvTypes
<1>3. pendingRecords' \in 0..MaxRecords /\ pendingBytes' \in 0..MaxBytes
  <2>1. pendingRecords <= MaxRecords /\ pendingBytes <= MaxBytes
    BY DEF WriterInv, TypeOK
  <2> QED
    BY <1>1, <1>2, <2>1, LimitsAreNat
<1>4. completedSequence' \in Counts
  <2>1. completedSequence + pendingRecords = nextSequence - 1 /\ nextSequence - 1 <= MaxEnqueues
    BY TargetType, <1>2 DEF WriterInv, MemoryInOrder, Counts
  <2> QED
    BY <1>1, <1>2, <2>1 DEF Counts
<1>5. batch' \in Seq(Records)
  BY <1>1, EmptySeq
<1>6. UNCHANGED <<rotating, rotationTarget, rotator, shutdownState, stopper>>
  BY DEF stateVars, callerVars
<1>7. ListenerLocals'
  BY <1>1 DEF ListenerLocals
<1>8. rotator # "operating"
  <2>1. /\ rotating <=> rotator # "idle"
        /\ rotating => completedSequence + Len(batch) <= rotationTarget
        /\ rotator = "operating" => completedSequence >= rotationTarget
    BY DEF WriterInv, FenceHolds
  <2> QED
    BY <1>1, <1>2, <2>1
<1>9. FenceHolds'
  BY <1>6, <1>8 DEF WriterInv, FenceHolds
<1>10. StopsLast'
  <2>1. Len(InMemory') > pendingRecords' => Len(InMemory) > pendingRecords
    BY <1>1, <1>2
  <2>2. shutdownState # "stopped"
    BY DEF WriterInv, StopsLast
  <2> QED
    BY <1>6, <2>1, <2>2 DEF WriterInv, StopsLast
<1> QED
  BY <1>1, <1>3, <1>4, <1>5, <1>7, <1>9, <1>10

(* The sink raised: the batch is complete, and lost.                        *)
LEMMA AppendFailsPreserves == ASSUME WriterInv, AppendFails PROVE WriterInv'
<1> DEFINE n == Len(batch)
<1>1. /\ listener = "append" /\ listener' = "dequeue" /\ CompleteBatch
      /\ UNCHANGED <<stateVars, callerVars, producerVars>>
      /\ UNCHANGED <<held, queue>> /\ lost' = lost + n
      /\ UNCHANGED <<recoveryInflight, reported, written, sink, summary>>
  BY DEF AppendFails, ListenerGoes
<1>2. UNCHANGED <<shutdownState, nextSequence, accepted, rotating, rotationTarget>>
  BY <1>1 DEF stateVars
<1>3. /\ UNCHANGED <<flusher, flushTarget, rotator, rotations, stopper, stopTarget, shutdowns>>
      /\ UNCHANGED <<producer, attempts, rejected>>
  BY <1>1 DEF callerVars, producerVars
<1>4. recoveryInflight' = (listener' = "recover")
  BY <1>1 DEF WriterInv, TypeOK, ListenerLocals
<1>5. /\ MemoryInOrder' /\ ListenerLocals' /\ FenceHolds' /\ StopsLast'
      /\ pendingRecords' \in 0..MaxRecords /\ pendingBytes' \in 0..MaxBytes
      /\ completedSequence' \in Counts /\ batch' \in Seq(Records)
  BY <1>1, <1>4, CompletionKeeps
<1>6. /\ n \in Nat /\ n >= 1 /\ n <= pendingRecords
      /\ completedSequence' = completedSequence + n
      /\ pendingRecords' = pendingRecords - n
  BY <1>1, <1>2, BatchCompleted
<1>7. /\ accepted \in Nat /\ dropped \in Nat /\ lost \in Nat /\ attempts \in Nat
      /\ rejected \in Nat /\ reported \in Nat /\ written \in Nat /\ MaxEnqueues \in Nat
      /\ pendingRecords \in Nat /\ completedSequence \in Nat
      /\ attempts <= MaxEnqueues /\ Cardinality(Serializing) \in Nat
      /\ pendingRecovery.overflow \in Nat /\ pendingRecovery.failed \in Nat
      /\ pendingRecovery.failures \in Nat
  BY InvTypes
<1>8. RecordFailure(n)
  BY DEF AppendFails
<1>9. /\ pendingRecovery' \in Counters
      /\ pendingRecovery'.overflow = pendingRecovery.overflow
      /\ pendingRecovery'.failed = pendingRecovery.failed + n
      /\ dropped' = dropped + n
  <2>1. pendingRecovery \in Counters
    BY InvTypes
  <2> HIDE DEF n
  <2> QED
    BY <1>6, <1>8, <2>1, FailureRecorded
<1>10. unresolvedFailure' \in BOOLEAN /\ unresolvedFailure'
  <2>1. pendingRecovery \in Counters
    BY InvTypes
  <2> HIDE DEF n
  <2> QED
    BY <1>6, <1>8, <2>1, FailureRecorded
<1>11. /\ accepted = written + lost + pendingRecords
       /\ attempts = accepted + (dropped - lost) + Cardinality(Serializing)
       /\ lost + rejected + pendingRecovery.overflow <= dropped
       /\ reported + pendingRecovery.failed = lost + rejected
  BY DEF WriterInv, Accounts
<1> HIDE DEF n
<1>12. /\ accepted = written + lost' + pendingRecords'
       /\ attempts = accepted + (dropped' - lost') + Cardinality(Serializing)
       /\ lost' + rejected + pendingRecovery'.overflow <= dropped'
       /\ reported + pendingRecovery'.failed = lost' + rejected
       /\ lost' \in Nat /\ dropped' \in Nat /\ pendingRecovery'.failed \in Nat
  <2>1. lost' = lost + n /\ dropped' = dropped + n
    BY <1>1, <1>9
  <2>2. lost' \in Nat /\ dropped' \in Nat
    BY <1>6, <1>7, <2>1
  <2>3. accepted = written + lost' + pendingRecords'
    BY <1>6, <1>7, <1>11, <2>1
  <2>4. attempts = accepted + (dropped' - lost') + Cardinality(Serializing)
    BY <1>6, <1>7, <1>11, <2>1
  <2>5. lost' + rejected + pendingRecovery'.overflow <= dropped'
    BY <1>6, <1>7, <1>9, <1>11, <2>1
  <2>6. reported + pendingRecovery'.failed = lost' + rejected /\ pendingRecovery'.failed \in Nat
    <3>1. pendingRecovery'.failed = pendingRecovery.failed + n
      BY <1>9
    <3>2. reported + pendingRecovery.failed = lost + rejected
      BY <1>11
    <3>3. pendingRecovery'.failed \in Nat
      BY <1>6, <1>7, <3>1
    <3>4. reported + (pendingRecovery.failed + n) = (lost + n) + rejected
      BY <1>6, <1>7, <3>2
    <3> QED
      BY <2>1, <3>1, <3>3, <3>4
  <2> QED
    BY <2>2, <2>3, <2>4, <2>5, <2>6
<1>13. /\ lost' \in Counts /\ dropped' \in Counts
       /\ pendingRecovery'.overflow <= MaxEnqueues /\ pendingRecovery'.failed <= MaxEnqueues
  <2>1. pendingRecords' \in Nat
    BY <1>6, <1>7
  <2>2. /\ accepted = written + lost' + pendingRecords'
        /\ attempts = accepted + (dropped' - lost') + Cardinality(Serializing)
        /\ lost' \in Nat /\ dropped' \in Nat
    BY <1>12
  <2>3. dropped' <= MaxEnqueues
    BY <1>7, <2>1, <2>2
  <2>4. lost' <= MaxEnqueues
    <3>1. accepted <= MaxEnqueues
      BY BoundsAreNat DEF WriterInv, TypeOK, Counts
    <3>2. accepted = written + lost' + pendingRecords' /\ lost' \in Nat
      BY <2>2
    <3>3. accepted \in Nat /\ written \in Nat /\ MaxEnqueues \in Nat
      BY <1>7
    <3>4. \A a, b, c, d, e \in Nat : a = b + c + d /\ a <= e => c <= e
      OBVIOUS
    <3> QED
      BY <2>1, <3>1, <3>2, <3>3, <3>4
  <2>5. pendingRecovery'.overflow <= dropped' /\ pendingRecovery'.overflow \in Nat
    <3>1. lost' + rejected + pendingRecovery'.overflow <= dropped'
      BY <1>12
    <3>2. pendingRecovery'.overflow = pendingRecovery.overflow
      BY <1>9
    <3> QED
      BY <1>7, <2>2, <3>1, <3>2
  <2>6. pendingRecovery'.failed <= dropped' /\ pendingRecovery'.failed \in Nat
    <3>1. /\ reported + pendingRecovery'.failed = lost' + rejected
          /\ pendingRecovery'.failed \in Nat
          /\ lost' + rejected + pendingRecovery'.overflow <= dropped'
      BY <1>12
    <3> QED
      BY <1>7, <2>2, <2>5, <3>1
  <2> QED
    BY <1>7, <2>2, <2>3, <2>4, <2>5, <2>6 DEF Counts
<1>14. pendingRecovery' \in Summaries
  BY <1>9, <1>13, CountersFit
<1>15. TypeOK'
  BY <1>1, <1>2, <1>3, <1>5, <1>13, <1>14, <1>10 DEF WriterInv, TypeOK
<1>16. SinkInOrder'
  <2>1. /\ \A i, j \in DOMAIN sink : i < j => sink[i] < sink[j]
        /\ \A i \in DOMAIN sink : sink[i] <= completedSequence
        /\ Len(sink) + lost = completedSequence
    BY DEF WriterInv, SinkInOrder
  <2>2. \A i \in DOMAIN sink : sink[i] \in Nat
    <3>1. sink \in Seq(1..MaxEnqueues)
      BY DEF WriterInv, TypeOK
    <3> QED
      BY <1>7, <3>1
  <2>3. \A i \in DOMAIN sink : sink[i] <= completedSequence'
    BY <1>6, <1>7, <2>1, <2>2
  <2>4. Len(sink) + lost' = completedSequence'
    BY <1>1, <1>6, <1>7, <2>1
  <2> QED
    BY <1>1, <2>1, <2>3, <2>4 DEF SinkInOrder
<1>17. Accounts'
  <2>1. Serializing' = Serializing
    BY <1>3 DEF Serializing
  <2>2. /\ accepted' = nextSequence' - 1 /\ written' = Len(sink') /\ IsFiniteSet(Serializing')
    BY <1>1, <1>2, <2>1 DEF WriterInv, Accounts
  <2> QED
    BY <1>1, <1>2, <1>3, <1>12, <1>10, <2>1, <2>2 DEF Accounts
<1> QED
  BY <1>5, <1>15, <1>16, <1>17 DEF WriterInv

(* A concatenation of numbers.                                              *)
LEMMA NatConcat ==
    ASSUME NEW s \in Seq(Nat), NEW u \in Seq(Nat)
    PROVE  /\ s \o u \in Seq(Nat) /\ Len(s \o u) = Len(s) + Len(u)
           /\ \A i \in 1..(Len(s) + Len(u)) : (s \o u)[i] =
                IF i <= Len(s) THEN s[i] ELSE u[i - Len(s)]
  BY ConcatProperties, Zenon

(* What appending the batch leaves in the sink.                             *)
Appended(s, b) == s \o [i \in DOMAIN b |-> b[i].seq]

(* It is in order and of numbers up to the last one of the batch.           *)
LEMMA BatchInSink ==
    ASSUME NEW s \in Seq(Nat), NEW b \in Seq(Records), NEW c \in Nat,
           \A i, j \in DOMAIN s : i < j => s[i] < s[j],
           \A i \in DOMAIN s : s[i] <= c /\ s[i] # 0,
           \A i \in 1..Len(b) : b[i].seq = c + i
    PROVE  LET t == Appended(s, b) IN
           /\ Len(t) = Len(s) + Len(b)
           /\ t \in Seq(Nat)
           /\ \A i \in DOMAIN t : t[i] \in Nat /\ t[i] # 0 /\ t[i] <= c + Len(b)
           /\ \A i, j \in DOMAIN t : i < j => t[i] < t[j]
<1> DEFINE t == Appended(s, b)
           u == [i \in DOMAIN b |-> b[i].seq]
<1>1. DOMAIN b = 1..Len(b) /\ Len(b) \in Nat /\ Len(s) \in Nat /\ DOMAIN s = 1..Len(s)
  OBVIOUS
<1>2. \A i \in 1..Len(b) : b[i].seq \in Nat
  <2> SUFFICES ASSUME NEW i \in 1..Len(b) PROVE b[i].seq \in Nat
    OBVIOUS
  <2>1. b[i].seq = c + i
    OBVIOUS
  <2> QED
    BY <1>1, <2>1
<1>3. u \in Seq(Nat) /\ Len(u) = Len(b) /\ \A i \in 1..Len(b) : u[i] = c + i
  <2>1. u = [i \in 1..Len(b) |-> b[i].seq]
    BY <1>1
  <2>2. u \in [1..Len(b) -> Nat]
    BY <1>2, <2>1
  <2>3. u \in Seq(Nat) /\ DOMAIN u = 1..Len(b)
    BY <1>1, <2>2
  <2>4. Len(u) = Len(b)
    BY <1>1, <2>3
  <2> QED
    BY <1>1, <2>1, <2>3, <2>4
<1> HIDE DEF u
<1>4. /\ s \o u \in Seq(Nat) /\ Len(s \o u) = Len(s) + Len(u)
      /\ \A i \in 1..(Len(s) + Len(u)) : (s \o u)[i] =
            IF i <= Len(s) THEN s[i] ELSE u[i - Len(s)]
  BY <1>3, NatConcat
<1>5. t = s \o u
  BY DEF u, Appended
<1> HIDE DEF t
<1>6. t \in Seq(Nat) /\ Len(t) = Len(s) + Len(b) /\ DOMAIN t = 1..Len(t)
  BY <1>3, <1>4, <1>5
<1>7. \A i \in 1..Len(s) : t[i] = s[i] /\ t[i] \in Nat /\ t[i] <= c /\ t[i] # 0
  <2> SUFFICES ASSUME NEW i \in 1..Len(s)
               PROVE  t[i] = s[i] /\ t[i] \in Nat /\ t[i] <= c /\ t[i] # 0
    OBVIOUS
  <2>1. i \in 1..(Len(s) + Len(u)) /\ i <= Len(s) /\ i \in DOMAIN s
    BY <1>1, <1>3
  <2>2. t[i] = s[i]
    BY <1>4, <1>5, <2>1
  <2>3. s[i] \in Nat /\ s[i] <= c /\ s[i] # 0
    BY <2>1
  <2> QED
    BY <2>2, <2>3
<1>8. \A i \in 1..Len(t) : i > Len(s) => t[i] = c + (i - Len(s)) /\ t[i] \in Nat
  <2> SUFFICES ASSUME NEW i \in 1..Len(t), i > Len(s)
               PROVE  t[i] = c + (i - Len(s)) /\ t[i] \in Nat
    OBVIOUS
  <2>1. i - Len(s) \in 1..Len(b) /\ Len(s) + (i - Len(s)) = i
    BY <1>1, <1>6
  <2>2. i \in 1..(Len(s) + Len(u)) /\ ~(i <= Len(s))
    BY <1>1, <1>3, <1>6
  <2>3. t[i] = u[i - Len(s)]
    BY <1>4, <1>5, <2>2
  <2>4. u[i - Len(s)] = c + (i - Len(s))
    BY <1>3, <2>1
  <2> QED
    BY <1>1, <2>1, <2>3, <2>4
<1>9. \A i \in DOMAIN t : t[i] \in Nat /\ t[i] # 0 /\ t[i] <= c + Len(b)
  <2> SUFFICES ASSUME NEW i \in 1..Len(t)
               PROVE  t[i] \in Nat /\ t[i] # 0 /\ t[i] <= c + Len(b)
    BY <1>6
  <2>1. CASE i <= Len(s)
    BY <1>1, <1>7, <2>1
  <2>2. CASE i > Len(s)
    <3>1. t[i] = c + (i - Len(s))
      BY <1>8, <2>2
    <3>2. i - Len(s) \in 1..Len(b)
      BY <1>1, <1>6, <2>2
    <3>3. \A m \in 1..Len(b) : c + m \in Nat /\ c + m # 0 /\ c + m <= c + Len(b)
      BY <1>1
    <3> QED
      BY <3>1, <3>2, <3>3
  <2> QED
    BY <1>1, <2>1, <2>2
<1>10. \A i, j \in DOMAIN t : i < j => t[i] < t[j]
  <2> SUFFICES ASSUME NEW i \in 1..Len(t), NEW j \in 1..Len(t), i < j PROVE t[i] < t[j]
    BY <1>6
  <2>1. CASE j <= Len(s)
    <3>1. i \in DOMAIN s /\ j \in DOMAIN s
      BY <1>1, <1>6, <2>1
    <3>2. s[i] < s[j]
      BY <3>1
    <3> QED
      BY <1>1, <1>7, <3>1, <3>2
  <2>2. CASE i > Len(s)
    <3>1. i \in Nat /\ j \in Nat /\ j > Len(s)
      BY <1>1, <1>6, <2>2
    <3>2. t[i] = c + (i - Len(s)) /\ t[j] = c + (j - Len(s))
      BY <1>8, <2>2, <3>1
    <3> QED
      BY <1>1, <3>1, <3>2
  <2>3. CASE i <= Len(s) /\ j > Len(s)
    BY <1>1, <1>6, <1>7, <1>8, <2>3
  <2> QED
    BY <1>1, <2>1, <2>2, <2>3
<1> QED
  BY <1>6, <1>9, <1>10 DEF t

(* Numbers up to a bound.                                                   *)
LEMMA SeqUpTo ==
    ASSUME NEW m \in Nat, NEW t \in Seq(Nat),
           \A i \in DOMAIN t : t[i] # 0 /\ t[i] <= m
    PROVE  t \in Seq(1..m)
<1>1. t \in [1..Len(t) -> Nat] /\ Len(t) \in Nat /\ DOMAIN t = 1..Len(t)
  OBVIOUS
<1>2. \A i \in 1..Len(t) : t[i] \in 1..m
  BY <1>1
<1>3. t \in [1..Len(t) -> 1..m]
  BY <1>1, <1>2
<1> QED
  BY <1>1, <1>3

(* The batch is in the sink, and a recovery record goes out next when one   *)
(* is due.                                                                  *)
LEMMA AppendSucceedsPreserves == ASSUME WriterInv, AppendSucceeds PROVE WriterInv'
<1> DEFINE n == Len(batch)
           due == pendingRecovery # NoRecovery
<1>1. /\ listener = "append" /\ listener' = (IF due THEN "recover" ELSE "dequeue")
      /\ CompleteBatch
      /\ UNCHANGED <<stateVars, callerVars, producerVars>>
      /\ UNCHANGED <<held, queue>> /\ written' = written + n
      /\ sink' = sink \o [i \in DOMAIN batch |-> batch[i].seq]
      /\ summary' = pendingRecovery /\ recoveryInflight' = due
      /\ UNCHANGED <<unresolvedFailure, pendingRecovery, reported, lost, dropped>>
  BY DEF AppendSucceeds, ListenerGoes
<1> HIDE DEF due
<1>2. UNCHANGED <<shutdownState, nextSequence, accepted, rotating, rotationTarget>>
  BY <1>1 DEF stateVars
<1>3. /\ UNCHANGED <<flusher, flushTarget, rotator, rotations, stopper, stopTarget, shutdowns>>
      /\ UNCHANGED <<producer, attempts, rejected>>
  BY <1>1 DEF callerVars, producerVars
<1>4. /\ listener' \in {"dequeue", "recover"} /\ recoveryInflight' = (listener' = "recover")
      /\ recoveryInflight' \in BOOLEAN
  <2>1. due \in BOOLEAN
    BY DEF due
  <2> QED
    BY <1>1, <2>1
<1>5. /\ MemoryInOrder' /\ ListenerLocals' /\ FenceHolds' /\ StopsLast'
      /\ pendingRecords' \in 0..MaxRecords /\ pendingBytes' \in 0..MaxBytes
      /\ completedSequence' \in Counts /\ batch' \in Seq(Records)
  BY <1>1, <1>4, CompletionKeeps
<1>6. /\ n \in Nat /\ n >= 1 /\ n <= pendingRecords
      /\ completedSequence' = completedSequence + n
      /\ pendingRecords' = pendingRecords - n
      /\ \A i \in 1..n : batch[i].seq = completedSequence + i
  BY <1>1, <1>2, BatchCompleted
<1>7. /\ accepted \in Nat /\ lost \in Nat /\ written \in Nat /\ MaxEnqueues \in Nat
      /\ pendingRecords \in Nat /\ completedSequence \in Nat
  BY InvTypes
<1>8. /\ \A i, j \in DOMAIN sink : i < j => sink[i] < sink[j]
      /\ \A i \in DOMAIN sink : sink[i] <= completedSequence
      /\ Len(sink) + lost = completedSequence
  BY DEF WriterInv, SinkInOrder
<1>9. sink \in Seq(Nat) /\ \A i \in DOMAIN sink : sink[i] # 0
  <2>1. sink \in Seq(1..MaxEnqueues)
    BY DEF WriterInv, TypeOK
  <2>2. 1..MaxEnqueues \subseteq Nat
    BY <1>7
  <2>3. sink \in Seq(Nat)
    BY <2>1, <2>2, SeqMonotonic
  <2>4. \A i \in DOMAIN sink : sink[i] \in 1..MaxEnqueues
    BY <1>7, <2>1
  <2>5. \A m \in 1..MaxEnqueues : m # 0
    BY <1>7
  <2> QED
    BY <2>3, <2>4, <2>5
<1>10. /\ Len(sink') = Len(sink) + n /\ sink' \in Seq(Nat)
       /\ \A i \in DOMAIN sink' : sink'[i] \in Nat /\ sink'[i] # 0 /\ sink'[i] <= completedSequence + n
       /\ \A i, j \in DOMAIN sink' : i < j => sink'[i] < sink'[j]
  <2>1. batch \in Seq(Records)
    BY InvTypes
  <2>2. \A i \in DOMAIN sink : sink[i] <= completedSequence /\ sink[i] # 0
    BY <1>8, <1>9
  <2>3. sink' = Appended(sink, batch)
    BY <1>1 DEF Appended
  <2>4. /\ \A i, j \in DOMAIN sink : i < j => sink[i] < sink[j]
        /\ \A i \in 1..Len(batch) : batch[i].seq = completedSequence + i
    BY <1>6, <1>8
  <2> HIDE DEF n
  <2>5. LET t == Appended(sink, batch) IN
        /\ Len(t) = Len(sink) + Len(batch)
        /\ t \in Seq(Nat)
        /\ \A i \in DOMAIN t : t[i] \in Nat /\ t[i] # 0 /\ t[i] <= completedSequence + Len(batch)
        /\ \A i, j \in DOMAIN t : i < j => t[i] < t[j]
    BY <1>7, <1>9, <2>1, <2>2, <2>4, BatchInSink
  <2> QED
    BY <2>3, <2>5 DEF n
<1>11. SinkInOrder'
  <2>1. Len(sink') + lost' = completedSequence'
    <3>1. Len(sink) \in Nat
      BY <1>9
    <3>2. lost' = lost
      BY <1>1
    <3>3. Len(sink') = Len(sink) + n /\ Len(sink) + lost = completedSequence
      BY <1>8, <1>10
    <3> HIDE DEF n
    <3>4. \A a, b, c, d \in Nat : a + b = c => (a + d) + b = c + d
      OBVIOUS
    <3> QED
      BY <1>6, <1>7, <3>1, <3>2, <3>3, <3>4
  <2>2. \A i \in DOMAIN sink' : sink'[i] <= completedSequence'
    BY <1>6, <1>10
  <2> QED
    BY <1>10, <2>1, <2>2 DEF SinkInOrder
<1>12. sink' \in Seq(1..MaxEnqueues)
  <2>1. completedSequence' \in Nat /\ completedSequence' <= MaxEnqueues
    BY <1>5, <1>7 DEF Counts
  <2>2. \A i \in DOMAIN sink' : sink'[i] # 0 /\ sink'[i] <= MaxEnqueues
    BY <1>6, <1>7, <1>10, <2>1
  <2> QED
    BY <1>7, <1>10, <2>2, SeqUpTo
<1>13. accepted = written + lost + pendingRecords /\ written = Len(sink)
  BY DEF WriterInv, Accounts
<1>14. /\ accepted = written' + lost + pendingRecords' /\ written' = Len(sink')
       /\ written' \in Nat /\ pendingRecords' \in Nat
  <2>1. written' = written + n
    BY <1>1
  <2>2. written' = Len(sink')
    BY <1>10, <1>13, <2>1
  <2> HIDE DEF n
  <2>3. written' \in Nat /\ pendingRecords' \in Nat
    BY <1>6, <1>7, <2>1
  <2>4. accepted = written' + lost + pendingRecords'
    BY <1>6, <1>7, <1>13, <2>1
  <2> QED
    BY <2>2, <2>3, <2>4
<1>15. written' \in Counts
  <2>1. accepted <= MaxEnqueues
    BY BoundsAreNat DEF WriterInv, TypeOK, Counts
  <2>2. \A a, b, c, d, e \in Nat : a = b + c + d /\ a <= e => b <= e
    OBVIOUS
  <2>3. written' <= MaxEnqueues
    BY <1>7, <1>14, <2>1, <2>2
  <2> QED
    BY <1>7, <1>14, <2>3 DEF Counts
<1>16. TypeOK'
  BY <1>1, <1>2, <1>3, <1>4, <1>5, <1>12, <1>15 DEF WriterInv, TypeOK
<1>17. Accounts'
  <2>1. Serializing' = Serializing
    BY <1>3 DEF Serializing
  <2>2. accepted' = written' + lost' + pendingRecords' /\ written' = Len(sink')
    BY <1>1, <1>2, <1>14
  <2>3. /\ pendingRecovery.overflow <= pendingRecovery.overflow
        /\ pendingRecovery.failed <= pendingRecovery.failed
        /\ pendingRecovery.failures <= pendingRecovery.failures
    <3>1. /\ pendingRecovery.overflow \in Nat /\ pendingRecovery.failed \in Nat
          /\ pendingRecovery.failures \in Nat
      BY InvTypes
    <3> QED
      BY <3>1
  <2>4. /\ accepted' = nextSequence' - 1 /\ IsFiniteSet(Serializing')
        /\ attempts' = accepted' + (dropped' - lost') + Cardinality(Serializing')
        /\ lost' + rejected' + pendingRecovery'.overflow <= dropped'
        /\ reported' + pendingRecovery'.failed = lost' + rejected'
        /\ ~unresolvedFailure' => pendingRecovery'.failed = 0 /\ pendingRecovery'.failures = 0
    BY <1>1, <1>2, <1>3, <2>1 DEF WriterInv, Accounts
  <2>5. /\ summary'.overflow <= pendingRecovery'.overflow
        /\ summary'.failed <= pendingRecovery'.failed
        /\ summary'.failures <= pendingRecovery'.failures
    BY <1>1, <2>3
  <2> QED
    BY <2>2, <2>4, <2>5 DEF Accounts
<1> QED
  BY <1>5, <1>11, <1>16, <1>17 DEF WriterInv

(* The sink's answer to a recovery record leaves everything else alone.     *)
LEMMA RecoveryKeeps ==
    ASSUME WriterInv, ListenerGoes("recover", "dequeue"), recoveryInflight' = FALSE,
           UNCHANGED <<pendingVars, writeVars, dropped, batch, held, queue>>
    PROVE  /\ SinkInOrder' /\ MemoryInOrder' /\ ListenerLocals' /\ FenceHolds' /\ StopsLast'
           /\ Serializing' = Serializing
           /\ listener' = "dequeue" /\ listener = "recover"
           /\ UNCHANGED <<shutdownState, nextSequence, accepted, rotating, rotationTarget>>
           /\ UNCHANGED <<flusher, flushTarget, rotator, rotations, stopper, stopTarget, shutdowns>>
           /\ UNCHANGED <<producer, attempts, rejected>>
           /\ UNCHANGED <<pendingRecords, pendingBytes, completedSequence, written, sink, lost>>
<1>1. /\ listener' = "dequeue" /\ listener = "recover"
      /\ UNCHANGED <<shutdownState, nextSequence, accepted, rotating, rotationTarget>>
      /\ UNCHANGED <<flusher, flushTarget, rotator, rotations, stopper, stopTarget, shutdowns>>
      /\ UNCHANGED <<producer, attempts, rejected>>
      /\ UNCHANGED <<pendingRecords, pendingBytes, completedSequence, written, sink, lost>>
  BY DEF ListenerGoes, stateVars, callerVars, producerVars, pendingVars, writeVars
<1>2. SinkInOrder' /\ MemoryInOrder'
  BY <1>1 DEF WriterInv, SinkInOrder, MemoryInOrder, InMemory
<1>3. ListenerLocals'
  BY <1>1 DEF WriterInv, ListenerLocals
<1>4. FenceHolds'
  BY <1>1 DEF WriterInv, FenceHolds
<1>5. StopsLast'
  BY <1>1 DEF WriterInv, StopsLast, InMemory
<1>6. Serializing' = Serializing
  BY <1>1 DEF Serializing
<1> QED
  BY <1>1, <1>2, <1>3, <1>4, <1>5, <1>6

(* No recovery is a summary of nothing.                                     *)
LEMMA NoRecoveryType == NoRecovery \in Summaries
  BY BoundsAreNat DEF NoRecovery, Summaries, Counts

(* The sink raised on the recovery record: it is due again.                 *)
LEMMA RecoveryFailsPreserves == ASSUME WriterInv, RecoveryFails PROVE WriterInv'
<1>1. /\ ListenerGoes("recover", "dequeue") /\ recoveryInflight' = FALSE
      /\ UNCHANGED <<pendingVars, writeVars, dropped, batch, held, queue>>
      /\ summary' = NoRecovery /\ UNCHANGED <<pendingRecovery, reported>>
  BY DEF RecoveryFails
<1>2. unresolvedFailure' \in BOOLEAN /\ unresolvedFailure'
  BY Zenon DEF RecoveryFails
<1>3. /\ SinkInOrder' /\ MemoryInOrder' /\ ListenerLocals' /\ FenceHolds' /\ StopsLast'
      /\ Serializing' = Serializing
      /\ listener' = "dequeue" /\ listener = "recover"
      /\ UNCHANGED <<shutdownState, nextSequence, accepted, rotating, rotationTarget>>
      /\ UNCHANGED <<flusher, flushTarget, rotator, rotations, stopper, stopTarget, shutdowns>>
      /\ UNCHANGED <<producer, attempts, rejected>>
      /\ UNCHANGED <<pendingRecords, pendingBytes, completedSequence, written, sink, lost>>
  BY <1>1, RecoveryKeeps
<1>4. TypeOK'
  <2>1. recoveryInflight' \in BOOLEAN /\ summary' \in Summaries
    BY <1>1, NoRecoveryType
  <2> QED
    BY <1>1, <1>2, <1>3, <2>1 DEF WriterInv, TypeOK
<1>5. Accounts'
  BY <1>1, <1>2, <1>3 DEF WriterInv, Accounts
<1> QED
  BY <1>3, <1>4, <1>5 DEF WriterInv

(* The recovery record is in the sink: what it told of is no longer         *)
(* pending, and what failed meanwhile still is.                             *)
LEMMA RecoverySucceedsPreserves == ASSUME WriterInv, RecoverySucceeds PROVE WriterInv'
<1>1. /\ ListenerGoes("recover", "dequeue") /\ recoveryInflight' = FALSE
      /\ UNCHANGED <<pendingVars, writeVars, dropped, batch, held, queue>>
      /\ summary' = NoRecovery /\ reported' = reported + summary.failed
      /\ pendingRecovery' = Subtract(summary)
  BY DEF RecoverySucceeds
<1>2. unresolvedFailure' = (unresolvedFailure /\ pendingRecovery' # NoRecovery)
  BY DEF RecoverySucceeds
<1>3. /\ SinkInOrder' /\ MemoryInOrder' /\ ListenerLocals' /\ FenceHolds' /\ StopsLast'
      /\ Serializing' = Serializing
      /\ listener' = "dequeue" /\ listener = "recover"
      /\ UNCHANGED <<shutdownState, nextSequence, accepted, rotating, rotationTarget>>
      /\ UNCHANGED <<flusher, flushTarget, rotator, rotations, stopper, stopTarget, shutdowns>>
      /\ UNCHANGED <<producer, attempts, rejected>>
      /\ UNCHANGED <<pendingRecords, pendingBytes, completedSequence, written, sink, lost>>
  BY <1>1, RecoveryKeeps
<1>4. /\ pendingRecovery \in Counters /\ summary \in Counters
      /\ summary.overflow <= pendingRecovery.overflow
      /\ summary.failed <= pendingRecovery.failed
      /\ summary.failures <= pendingRecovery.failures
  BY <1>3, InvTypes DEF WriterInv, Accounts
<1>5. /\ pendingRecovery' \in Counters
      /\ pendingRecovery'.overflow = pendingRecovery.overflow - summary.overflow
      /\ pendingRecovery'.failed = pendingRecovery.failed - summary.failed
      /\ pendingRecovery'.failures = pendingRecovery.failures - summary.failures
  BY <1>1, <1>4, SubtractedType DEF Subtract
<1>6. /\ pendingRecovery.overflow \in Nat /\ pendingRecovery.failed \in Nat
      /\ pendingRecovery.failures \in Nat
      /\ summary.overflow \in Nat /\ summary.failed \in Nat /\ summary.failures \in Nat
      /\ pendingRecovery'.overflow \in Nat /\ pendingRecovery'.failed \in Nat
      /\ pendingRecovery'.failures \in Nat
  BY <1>4, <1>5 DEF Counters
<1>7. /\ dropped \in Nat /\ lost \in Nat /\ rejected \in Nat /\ reported \in Nat
      /\ MaxEnqueues \in Nat
  BY InvTypes
<1>8. /\ lost + rejected + pendingRecovery.overflow <= dropped
      /\ reported + pendingRecovery.failed = lost + rejected
      /\ dropped <= MaxEnqueues
  BY <1>7 DEF WriterInv, Accounts, TypeOK, Counts
<1>9. reported' + pendingRecovery'.failed = lost + rejected
  <2>1. reported' = reported + summary.failed
    BY <1>1
  <2>2. \A a, b, c \in Nat : (a + c) + (b - c) = a + b
    OBVIOUS
  <2> QED
    BY <1>5, <1>6, <1>7, <1>8, <2>1, <2>2
<1>10. lost + rejected + pendingRecovery'.overflow <= dropped
  <2>1. \A a, b, c, d \in Nat : a + b <= d => a + (b - c) <= d
    OBVIOUS
  <2>2. lost + rejected \in Nat
    BY <1>7
  <2> QED
    BY <1>5, <1>6, <1>7, <1>8, <2>1, <2>2
<1>11. reported' \in Counts /\ pendingRecovery'.overflow <= MaxEnqueues /\ pendingRecovery'.failed <= MaxEnqueues
  <2>1. reported' \in Nat
    BY <1>1, <1>6, <1>7
  <2>2. lost + rejected <= MaxEnqueues /\ lost + rejected \in Nat
    BY <1>6, <1>7, <1>8
  <2>3. \A a, b, c, d \in Nat : a + b = c /\ c <= d => a <= d /\ b <= d
    OBVIOUS
  <2>4. reported' <= MaxEnqueues /\ pendingRecovery'.failed <= MaxEnqueues
    BY <1>6, <1>7, <1>9, <2>1, <2>2, <2>3
  <2>5. pendingRecovery'.overflow <= MaxEnqueues
    BY <1>6, <1>7, <1>8, <1>10, <2>2
  <2> QED
    BY <1>7, <2>1, <2>4, <2>5 DEF Counts
<1>12. unresolvedFailure' \in BOOLEAN
  BY <1>2
<1>13. ~unresolvedFailure' => pendingRecovery'.failed = 0 /\ pendingRecovery'.failures = 0
  <2>1. CASE pendingRecovery' = NoRecovery
    BY <2>1 DEF NoRecovery
  <2>2. CASE pendingRecovery' # NoRecovery
    <3>1. unresolvedFailure' = unresolvedFailure
      BY <1>2, <2>2 DEF WriterInv, TypeOK
    <3>2. ~unresolvedFailure => pendingRecovery.failed = 0 /\ pendingRecovery.failures = 0
      BY DEF WriterInv, Accounts
    <3>3. pendingRecovery.failed = 0 => pendingRecovery'.failed = 0
      BY <1>5, <1>6
    <3>4. pendingRecovery.failures = 0 => pendingRecovery'.failures = 0
      BY <1>5, <1>6
    <3> QED
      BY <3>1, <3>2, <3>3, <3>4
  <2> QED
    BY <2>1, <2>2
<1>14. TypeOK'
  <2>1. recoveryInflight' \in BOOLEAN /\ summary' \in Summaries
    BY <1>1, NoRecoveryType
  <2>2. pendingRecovery' \in Summaries
    BY <1>5, <1>11, CountersFit
  <2> QED
    BY <1>1, <1>3, <1>11, <1>12, <2>1, <2>2 DEF WriterInv, TypeOK
<1>15. Accounts'
  <2>1. /\ accepted' = nextSequence' - 1 /\ written' = Len(sink')
        /\ accepted' = written' + lost' + pendingRecords'
        /\ IsFiniteSet(Serializing')
        /\ attempts' = accepted' + (dropped' - lost') + Cardinality(Serializing')
    BY <1>1, <1>3 DEF WriterInv, Accounts
  <2>2. /\ lost' + rejected' + pendingRecovery'.overflow <= dropped'
        /\ reported' + pendingRecovery'.failed = lost' + rejected'
    BY <1>1, <1>3, <1>9, <1>10
  <2> QED
    BY <1>3, <1>13, <2>1, <2>2 DEF Accounts
<1> QED
  BY <1>3, <1>14, <1>15 DEF WriterInv

-----------------------------------------------------------------------------
(* The invariant, and what follows from it *)

(* A new writer has nothing in memory and nothing to account for.           *)
LEMMA WriterInitially == Init => WriterInv
<1> SUFFICES ASSUME Init PROVE WriterInv
  OBVIOUS
<1> USE BoundsAreNat
<1>1. TypeOK
  <2>1. <<>> \in Seq(Records) /\ <<>> \in Seq(Records \cup {Sentinel}) /\ <<>> \in Seq(1..MaxEnqueues)
    BY EmptySeq
  <2>2. Len(<<>>) <= 1
    BY EmptySeq
  <2>3. NoRecovery \in Summaries
    BY NoRecoveryType
  <2>4. producer \in [Producers -> {"idle", "serializing"}]
    BY DEF Init
  <2>5. /\ unresolvedFailure \in BOOLEAN /\ recoveryInflight \in BOOLEAN
        /\ rotating \in BOOLEAN
    BY Zenon DEF Init
  <2>6. 0 \in Counts /\ 1 \in 1..(MaxEnqueues + 1)
        /\ 0 \in 0..MaxRecords /\ 0 \in 0..MaxBytes
        /\ 0 \in 0..MaxRotations /\ 0 \in 0..MaxShutdowns
    BY LimitsAreNat DEF Counts
  <2>7. /\ pendingRecords \in 0..MaxRecords /\ pendingBytes \in 0..MaxBytes
        /\ nextSequence \in 1..(MaxEnqueues + 1)
        /\ {completedSequence, accepted, written, dropped, attempts} \subseteq Counts
        /\ {lost, rejected, reported} \subseteq Counts
        /\ rotationTarget \in Counts /\ flushTarget \in Counts /\ stopTarget \in Counts
        /\ rotations \in 0..MaxRotations /\ shutdowns \in 0..MaxShutdowns
    BY <2>6 DEF Init
  <2>8. /\ shutdownState \in {"running", "stopping", "stopped"}
        /\ listener \in {"dequeue", "fence", "gather", "candidate", "append",
                         "recover", "exited"}
        /\ flusher \in {"idle", "waiting", "drained", "failed", "timeout"}
        /\ rotator \in {"idle", "waiting", "operating"}
        /\ stopper \in {"idle", "waiting", "joining", "done"}
    BY DEF Init
  <2>9. /\ pendingRecovery \in Summaries /\ summary \in Summaries
        /\ queue \in Seq(Records \cup {Sentinel}) /\ batch \in Seq(Records)
        /\ held \in Seq(Records \cup {Sentinel}) /\ Len(held) <= 1
        /\ sink \in Seq(1..MaxEnqueues)
    BY <2>1, <2>2, <2>3 DEF Init
  <2> QED
    BY <2>4, <2>5, <2>7, <2>8, <2>9 DEF TypeOK
<1>2. SinkInOrder
  <2>1. Len(<<>>) = 0 /\ DOMAIN <<>> = {}
    OBVIOUS
  <2> QED
    BY <2>1 DEF Init, SinkInOrder
<1>3. InMemory = <<>> /\ Len(InMemory) = 0
  BY DEF Init, InMemory
<1>4. MemoryInOrder
  BY <1>3, BytesEmpty DEF Init, MemoryInOrder, InOrder
<1>5. ListenerLocals /\ FenceHolds
  BY DEF Init, ListenerLocals, FenceHolds
<1>6. StopsLast
  BY <1>3 DEF Init, StopsLast
<1>7. Accounts
  <2>1. Serializing = {}
    BY DEF Init, Serializing
  <2>2. IsFiniteSet(Serializing) /\ Cardinality(Serializing) = 0
    BY <2>1, FS_EmptySet
  <2> QED
    BY <2>2 DEF Init, Accounts, NoRecovery
<1> QED
  BY <1>1, <1>2, <1>4, <1>5, <1>6, <1>7 DEF WriterInv

(* Nothing changes: the invariant stays.                                    *)
LEMMA WriterStutters == ASSUME WriterInv, UNCHANGED vars PROVE WriterInv'
<1> USE DEF vars, stateVars, pendingVars, recoveryVars, writeVars, listenerVars, callerVars, producerVars
<1>1. TypeOK'
  BY DEF WriterInv, TypeOK
<1>2. SinkInOrder' /\ MemoryInOrder' /\ StopsLast'
  BY DEF WriterInv, SinkInOrder, MemoryInOrder, StopsLast, InMemory
<1>3. ListenerLocals' /\ FenceHolds'
  BY DEF WriterInv, ListenerLocals, FenceHolds
<1>4. Accounts'
  BY DEF WriterInv, Accounts, Serializing
<1> QED
  BY <1>1, <1>2, <1>3, <1>4 DEF WriterInv

(* Every step of every thread preserves the invariant.                      *)
LEMMA WriterInductive == ASSUME WriterInv, [Next]_vars PROVE WriterInv'
<1>1. CASE \E p \in Producers : EnqueueStep(p)
  BY <1>1, EnqueuePreserves
<1>2. CASE Dequeue \/ PassFence \/ GatherEnds \/ GatherTakes \/ Candidate
  BY <1>2, DequeuePreserves, PassFencePreserves, GatherEndsPreserves, GatherTakesPreserves,
     CandidatePreserves
<1>3. CASE AppendFails \/ AppendSucceeds \/ RecoveryFails \/ RecoverySucceeds
  BY <1>3, AppendFailsPreserves, AppendSucceedsPreserves, RecoveryFailsPreserves,
     RecoverySucceedsPreserves
<1>4. CASE Flush \/ FlushReturns
  BY <1>4, FlushPreserves
<1>5. CASE Rotate \/ RotationTimesOut \/ RotationFenced
  BY <1>5, RotatePreserves
<1>6. CASE RotationEnds
  BY <1>6, RotationEndsPreserves
<1>7. CASE Shutdown \/ ShutdownTimesOut \/ ListenerJoined
  BY <1>7, ShutdownPreserves
<1>8. CASE StopListener
  BY <1>8, StopListenerPreserves
<1>9. CASE UNCHANGED vars
  BY <1>9, WriterStutters
<1> QED
  BY <1>1, <1>2, <1>3, <1>4, <1>5, <1>6, <1>7, <1>8, <1>9 DEF Next, ListenerStep

(* The pending records are the places up to the counter: what is counted    *)
(* for the limits is what is in memory.                                     *)
LEMMA PendingCounted ==
    ASSUME WriterInv
    PROVE  Pending = 1..pendingRecords /\ Cardinality(Pending) = pendingRecords
<1>1. InMemory \in Seq(Items) /\ pendingRecords \in Nat /\ completedSequence \in Nat
  BY InvTypes
<1>2. /\ pendingRecords <= Len(InMemory)
      /\ \A i \in 1..Len(InMemory) : IF i <= pendingRecords
                                     THEN InMemory[i].seq = completedSequence + i
                                     ELSE InMemory[i] = Sentinel
  BY DEF WriterInv, MemoryInOrder, InOrder
<1>3. DOMAIN InMemory = 1..Len(InMemory) /\ Len(InMemory) \in Nat
  BY <1>1
<1>4. \A i \in 1..Len(InMemory) : InMemory[i] # Sentinel <=> i <= pendingRecords
  <2> SUFFICES ASSUME NEW i \in 1..Len(InMemory)
               PROVE  InMemory[i] # Sentinel <=> i <= pendingRecords
    OBVIOUS
  <2>1. CASE i <= pendingRecords
    <3>1. InMemory[i].seq = completedSequence + i
      BY <1>2, <2>1
    <3>2. completedSequence + i # 0
      BY <1>1, <1>3
    <3> QED
      BY <2>1, <3>1, <3>2, ItemsAreSized
  <2>2. CASE ~(i <= pendingRecords)
    BY <1>2, <2>2
  <2> QED
    BY <2>1, <2>2
<1>5. Pending = 1..pendingRecords
  BY <1>1, <1>2, <1>3, <1>4 DEF Pending
<1>6. Cardinality(1..pendingRecords) = pendingRecords
  BY <1>1, FS_Interval
<1> QED
  BY <1>5, <1>6

(* The invariant holds of the writer for any limits and any number of       *)
(* callers: the records in memory are the accepted and not completed ones   *)
(* in order, the fence of a rotation holds, a sentinel comes last, and      *)
(* every call of enqueue and every failure is accounted for.                *)
THEOREM WriterInvariant == Spec => []WriterInv
<1>1. Init => WriterInv
  BY WriterInitially
<1>2. WriterInv /\ [Next]_vars => WriterInv'
  BY WriterInductive
<1> QED
  BY <1>1, <1>2, PTL DEF Spec

(* NoSilentLoss of every behaviour: the counters checked against the limits *)
(* are what is in memory, every call of enqueue is accounted for once, no   *)
(* failed record is forgotten or reported twice, and the sink is in order.  *)
THEOREM NothingLostSilently == Spec => []NoSilentLoss
<1>1. WriterInv => NoSilentLoss
  <2> SUFFICES ASSUME WriterInv PROVE NoSilentLoss
    OBVIOUS
  <2>1. pendingRecords = Cardinality(Pending)
    BY PendingCounted
  <2>2. TypeOK /\ SinkInOrder /\ pendingBytes = Bytes(InMemory)
    BY DEF WriterInv, MemoryInOrder
  <2>3. /\ accepted = written + lost + pendingRecords
        /\ attempts = accepted + (dropped - lost)
                      + Cardinality({p \in Producers : producer[p] = "serializing"})
        /\ reported + pendingRecovery.failed = lost + rejected
        /\ ~unresolvedFailure => pendingRecovery.failed = 0 /\ pendingRecovery.failures = 0
    BY DEF WriterInv, Accounts, Serializing
  <2> QED
    BY <2>1, <2>2, <2>3 DEF NoSilentLoss
<1> QED
  BY <1>1, WriterInvariant, PTL

(* SinkIsQuiet of every behaviour: nothing is appended while a rotation     *)
(* operation runs, and a stopped writer has no thread and nothing pending.  *)
THEOREM SinkStaysQuiet == Spec => []SinkIsQuiet
<1>1. WriterInv => SinkIsQuiet
  <2> SUFFICES ASSUME WriterInv PROVE SinkIsQuiet
    OBVIOUS
  <2>1. /\ completedSequence \in Nat /\ pendingRecords \in Nat /\ rotationTarget \in Nat
        /\ Len(batch) \in Nat /\ nextSequence \in Nat
    BY InvTypes
  <2>2. ASSUME rotator = "operating"
        PROVE  listener \notin {"append", "recover"} /\ completedSequence >= rotationTarget
    <3>1. /\ rotating /\ completedSequence >= rotationTarget /\ ~recoveryInflight
          /\ listener = "append" => completedSequence + Len(batch) <= rotationTarget
      BY <2>2 DEF WriterInv, FenceHolds
    <3>2. /\ listener # "recover"
          /\ listener = "append" => batch # <<>>
      BY <3>1 DEF WriterInv, ListenerLocals
    <3>3. batch # <<>> => Len(batch) # 0
      <4>1. batch \in Seq(Records)
        BY InvTypes
      <4> QED
        BY <4>1, EmptySeq
    <3> QED
      BY <2>1, <3>1, <3>2, <3>3
  <2>3. ASSUME shutdownState = "stopped"
        PROVE  listener = "exited" /\ Pending = {} /\ completedSequence = nextSequence - 1
    <3>1. listener = "exited" /\ pendingRecords = 0
      BY <2>3 DEF WriterInv, StopsLast
    <3>2. Pending = 1..0
      BY <3>1, PendingCounted
    <3>3. completedSequence + pendingRecords = nextSequence - 1
      BY DEF WriterInv, MemoryInOrder
    <3> QED
      BY <2>1, <3>1, <3>2, <3>3
  <2> QED
    BY <2>2, <2>3 DEF SinkIsQuiet
<1> QED
  BY <1>1, WriterInvariant, PTL

(* Only the return of a flush moves a waiting one.                          *)
LEMMA OnlyFlushReturns ==
    ASSUME Next, flusher = "waiting", flusher' = "drained"
    PROVE  FlushReturns
<1> USE DEF callerVars
<1>1. ASSUME NEW p \in Producers, EnqueueStep(p) PROVE flusher' = flusher
  BY <1>1 DEF EnqueueStep, EnqueueAdmission, SerializeTooLarge, SerializeRejected,
              EnqueueCommit, ProducerGoes
<1>2. ASSUME ListenerStep PROVE flusher' = flusher
  BY <1>2 DEF ListenerStep, Dequeue, PassFence, GatherEnds, GatherTakes, Candidate,
              AppendFails, AppendSucceeds, RecoveryFails, RecoverySucceeds, ListenerGoes
<1>3. ASSUME Rotate \/ RotationTimesOut \/ RotationFenced \/ RotationEnds
      PROVE  flusher' = flusher
  BY <1>3 DEF Rotate, RotationTimesOut, RotationFenced, RotationEnds, RotatorGoes
<1>4. ASSUME Shutdown \/ StopListener \/ ShutdownTimesOut \/ ListenerJoined
      PROVE  flusher' = flusher
  BY <1>4 DEF Shutdown, StopListener, ShutdownTimesOut, ListenerJoined, StopperGoes
<1>5. ~Flush
  BY DEF Flush
<1> QED
  BY <1>1, <1>2, <1>3, <1>4, <1>5 DEF Next

(* DrainedIsHonest of every behaviour: when flush returns drained, all it   *)
(* waited for is processed and the sink was told of every failed record.    *)
THEOREM FlushIsHonest == Spec => DrainedIsHonest
<1>1. ASSUME WriterInv, [Next]_vars, flusher = "waiting", flusher' = "drained",
             vars' # vars
      PROVE  completedSequence >= flushTarget /\ lost + rejected = reported
  <2>1. FlushReturns
    BY <1>1, OnlyFlushReturns
  <2>2. Reached(flushTarget) /\ ResultLocked = "drained"
    BY <1>1, <2>1 DEF FlushReturns
  <2>3. ~unresolvedFailure
    BY <2>2 DEF ResultLocked
  <2>4. pendingRecovery.failed = 0 /\ reported + pendingRecovery.failed = lost + rejected
    BY <1>1, <2>3 DEF WriterInv, Accounts
  <2>5. reported \in Nat
    BY <1>1, InvTypes
  <2> QED
    BY <2>2, <2>4, <2>5 DEF Reached
<1>2. WriterInv /\ [Next]_vars =>
        [flusher = "waiting" /\ flusher' = "drained" =>
            /\ completedSequence >= flushTarget
            /\ lost + rejected = reported]_vars
  BY <1>1
<1> QED
  BY <1>2, WriterInvariant, PTL DEF Spec, DrainedIsHonest

=============================================================================
