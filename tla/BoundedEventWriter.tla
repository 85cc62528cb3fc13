-------------------------- MODULE BoundedEventWriter --------------------------
(***************************************************************************)
(* BoundedEventWriter (src-python/bounded_event_writer.py): request        *)
(* threads enqueue telemetry records into a bounded queue, one listener    *)
(* thread writes them to the sink in batches, and other threads flush,     *)
(* rotate the sink behind a fence, or shut the writer down.                *)
(*                                                                         *)
(* One action is one section under the writer's condition, one queue       *)
(* operation, or the end of a call on the sink.  A record is its sequence  *)
(* number and its size; the sink is what was appended to it.               *)
(***************************************************************************)
EXTENDS Naturals, Sequences, FiniteSets, SequencesExt

CONSTANTS
    Producers,        \* threads that call enqueue
    Sizes,            \* byte counts of serialized records
    MaxRecords, MaxBytes, BatchMaxRecords, BatchMaxBytes,
    MaxEnqueues,      \* bound on the calls of enqueue
    MaxRotations,     \* bound on the calls of rotate
    MaxShutdowns      \* bound on the calls of shutdown

ASSUME WriterConstants ==
    /\ {MaxRecords, MaxBytes, BatchMaxRecords, BatchMaxBytes} \subseteq Nat \ {0}
    /\ Sizes \subseteq Nat \ {0}
    /\ MaxEnqueues \in Nat /\ MaxRotations \in Nat /\ MaxShutdowns \in Nat

Sentinel == [seq |-> 0, size |-> 0]
Records == [seq : 1..MaxEnqueues, size : Sizes]
Counts == 0..MaxEnqueues
Summaries == [overflow : Counts, failed : Counts, failures : Nat]
NoRecovery == [overflow |-> 0, failed |-> 0, failures |-> 0]

VARIABLES
    shutdownState, pendingRecords, pendingBytes, nextSequence, completedSequence,
    accepted, written, dropped, unresolvedFailure,
    pendingRecovery, recoveryInflight, rotating, rotationTarget,
    queue,                              \* the listener's queue
    producer, attempts,                 \* enqueue callers
    listener, batch, held, summary,     \* _monitor and its locals
    flusher, flushTarget,               \* a caller of flush
    rotator, rotations,                 \* a caller of rotate
    stopper, stopTarget, shutdowns,     \* a caller of shutdown
    sink,                               \* sequence numbers appended
    lost, rejected, reported            \* failed with their batch, failed to
                                        \* serialize, told of in recovery records

stateVars    == <<shutdownState, nextSequence, accepted, rotating, rotationTarget>>
pendingVars  == <<pendingRecords, pendingBytes, completedSequence>>
recoveryVars == <<unresolvedFailure, pendingRecovery, recoveryInflight, reported>>
writeVars    == <<written, sink, lost>>
listenerVars == <<listener, batch, held, summary>>
callerVars   == <<flusher, flushTarget, rotator, rotations, stopper, stopTarget, shutdowns>>
producerVars == <<producer, attempts, rejected>>
vars == <<stateVars, pendingVars, recoveryVars, writeVars, dropped, queue,
          listenerVars, callerVars, producerVars>>

Bytes(s) ==
    LET sum[n \in 0..Len(s)] == IF n = 0 THEN 0 ELSE sum[n - 1] + s[n].size
    IN  sum[Len(s)]

TypeOK ==
    /\ shutdownState \in {"running", "stopping", "stopped"}
    /\ pendingRecords \in 0..MaxRecords
    /\ pendingBytes \in 0..MaxBytes
    /\ nextSequence \in 1..(MaxEnqueues + 1)
    /\ {completedSequence, accepted, written, dropped, attempts} \subseteq Counts
    /\ unresolvedFailure \in BOOLEAN /\ recoveryInflight \in BOOLEAN
    /\ pendingRecovery \in Summaries /\ summary \in Summaries
    /\ rotating \in BOOLEAN /\ rotationTarget \in Counts
    /\ queue \in Seq(Records \cup {Sentinel})
    /\ producer \in [Producers -> {"idle", "serializing"}]
    /\ listener \in {"dequeue", "fence", "gather", "candidate", "append",
                     "recover", "exited"}
    /\ batch \in Seq(Records)
    /\ held \in Seq(Records \cup {Sentinel}) /\ Len(held) <= 1
    /\ flusher \in {"idle", "waiting", "drained", "failed", "timeout"} /\ flushTarget \in Counts
    /\ rotator \in {"idle", "waiting", "operating"} /\ rotations \in 0..MaxRotations
    /\ stopper \in {"idle", "waiting", "joining", "done"} /\ stopTarget \in Counts
    /\ shutdowns \in 0..MaxShutdowns
    /\ sink \in Seq(1..MaxEnqueues)
    /\ {lost, rejected, reported} \subseteq Counts

Init ==
    /\ shutdownState = "running"
    /\ pendingRecords = 0 /\ pendingBytes = 0
    /\ nextSequence = 1 /\ completedSequence = 0
    /\ accepted = 0 /\ written = 0 /\ dropped = 0
    /\ unresolvedFailure = FALSE
    /\ pendingRecovery = NoRecovery /\ recoveryInflight = FALSE
    /\ rotating = FALSE /\ rotationTarget = 0
    /\ queue = <<>>
    /\ producer = [p \in Producers |-> "idle"] /\ attempts = 0
    /\ listener = "dequeue" /\ batch = <<>> /\ held = <<>> /\ summary = NoRecovery
    /\ flusher = "idle" /\ flushTarget = 0
    /\ rotator = "idle" /\ rotations = 0
    /\ stopper = "idle" /\ stopTarget = 0 /\ shutdowns = 0
    /\ sink = <<>> /\ lost = 0 /\ rejected = 0 /\ reported = 0

-----------------------------------------------------------------------------
(* Bookkeeping under the condition *)

(* _record_failure_locked, with and without include_recovery                *)
RecordFailure(count) ==
    /\ dropped' = dropped + count
    /\ unresolvedFailure' = TRUE
    /\ pendingRecovery' = [pendingRecovery EXCEPT !.failed = @ + count, !.failures = @ + 1]

RecordOverflow ==
    /\ dropped' = dropped + 1
    /\ pendingRecovery' = [pendingRecovery EXCEPT !.overflow = @ + 1]
    /\ UNCHANGED unresolvedFailure

(* _PendingRecovery.subtract                                                *)
Monus(m, n) == IF m > n THEN m - n ELSE 0
ClearRecovery(s) == NoRecovery

Subtract(s) ==
    [overflow |-> Monus(pendingRecovery.overflow, s.overflow),
     failed   |-> Monus(pendingRecovery.failed, s.failed),
     failures |-> Monus(pendingRecovery.failures, s.failures)]

-----------------------------------------------------------------------------
(* enqueue *)

ProducerGoes(p, from, to) ==
    /\ producer[p] = from
    /\ producer' = [producer EXCEPT ![p] = to]
    /\ UNCHANGED <<shutdownState, rotating, rotationTarget, completedSequence>>
    /\ UNCHANGED <<recoveryInflight, reported, writeVars, listenerVars, callerVars>>

NotAccepted ==
    UNCHANGED <<nextSequence, accepted, pendingRecords, pendingBytes, queue>>

Refuse ==
    /\ shutdownState # "running"
    /\ dropped' = dropped + 1
    /\ UNCHANGED <<unresolvedFailure, pendingRecovery>>

(* The first section: refuse or drop before any work is spent ...           *)
EnqueueAdmission(p) ==
    /\ attempts < MaxEnqueues
    /\ attempts' = attempts + 1
    /\ NotAccepted /\ UNCHANGED rejected
    /\ \/ ProducerGoes(p, "idle", "idle") /\ Refuse
       \/ /\ ProducerGoes(p, "idle", "idle")
          /\ shutdownState = "running" /\ pendingRecords >= MaxRecords
          /\ RecordOverflow
       \/ /\ ProducerGoes(p, "idle", "serializing")
          /\ shutdownState = "running" /\ pendingRecords < MaxRecords
          /\ UNCHANGED <<dropped, unresolvedFailure, pendingRecovery>>

(* ... serialization may reject the record, as too large or as malformed .. *)
SerializeTooLarge(p) ==
    /\ ProducerGoes(p, "serializing", "idle")
    /\ NotAccepted
    /\ Refuse \/ (shutdownState = "running" /\ RecordOverflow)
    /\ UNCHANGED <<attempts, rejected>>

SerializeRejected(p) ==
    /\ ProducerGoes(p, "serializing", "idle")
    /\ NotAccepted
    /\ RecordFailure(1)
    /\ rejected' = rejected + 1
    /\ UNCHANGED attempts

(* ... and the second section decides again, with the size known.           *)
EnqueueCommit(p, size) ==
    /\ ProducerGoes(p, "serializing", "idle")
    /\ UNCHANGED <<attempts, rejected>>
    /\ \/ Refuse /\ NotAccepted
       \/ /\ shutdownState = "running"
          /\ pendingRecords >= MaxRecords \/ pendingBytes + size > MaxBytes
          /\ RecordOverflow /\ NotAccepted
       \/ /\ shutdownState = "running"
          /\ pendingRecords < MaxRecords /\ pendingBytes + size <= MaxBytes
          /\ queue' = Append(queue, [seq |-> nextSequence, size |-> size])
          /\ nextSequence' = nextSequence + 1
          /\ pendingRecords' = pendingRecords + 1
          /\ pendingBytes' = pendingBytes + size
          /\ accepted' = accepted + 1
          /\ UNCHANGED <<dropped, unresolvedFailure, pendingRecovery>>

-----------------------------------------------------------------------------
(* The listener thread: _monitor, _write_batch and _emit_recovery *)

ListenerGoes(from, to) ==
    /\ listener = from
    /\ listener' = to
    /\ UNCHANGED <<stateVars, callerVars, producerVars>>

NoWrite == UNCHANGED <<pendingVars, recoveryVars, writeVars, dropped, summary>>

RotationBlocks(sequence) == rotating /\ sequence > rotationTarget

(* The record held back from the last batch, or the next one; the sentinel  *)
(* ends the thread.                                                         *)
Dequeue ==
    /\ held # <<>> \/ queue # <<>>
    /\ LET record == Head(held \o queue) IN
       /\ ListenerGoes("dequeue", IF record = Sentinel THEN "exited" ELSE "fence")
       /\ batch' = IF record = Sentinel THEN <<>> ELSE <<record>>
    /\ held' = <<>>
    /\ queue' = IF held = <<>> THEN Tail(queue) ELSE queue
    /\ NoWrite

PassFence ==
    /\ ListenerGoes("fence", "gather")
    /\ ~RotationBlocks(batch[1].seq)
    /\ UNCHANGED <<batch, held, queue>> /\ NoWrite

(* dequeue(False): nothing there or the batch is full, or a candidate.      *)
GatherEnds ==
    /\ queue = <<>> \/ Len(batch) = BatchMaxRecords
    /\ ListenerGoes("gather", "append")
    /\ UNCHANGED <<batch, held, queue>> /\ NoWrite

GatherTakes ==
    /\ queue # <<>> /\ Len(batch) < BatchMaxRecords
    /\ ListenerGoes("gather", "candidate")
    /\ held' = <<Head(queue)>> /\ queue' = Tail(queue)
    /\ UNCHANGED batch /\ NoWrite

(* The candidate joins the batch, or is held back for the next one.         *)
Candidate ==
    /\ UNCHANGED queue /\ NoWrite
    /\ LET keep == \/ held[1] = Sentinel
                   \/ RotationBlocks(held[1].seq)
                   \/ Bytes(batch) + held[1].size > BatchMaxBytes
       IN /\ ListenerGoes("candidate", IF keep THEN "append" ELSE "gather")
          /\ batch' = IF keep THEN batch ELSE batch \o held
          /\ held' = IF keep THEN held ELSE <<>>

(* _complete_batch_locked                                                   *)
CompleteBatch ==
    /\ pendingRecords' = pendingRecords - Len(batch)
    /\ pendingBytes' = pendingBytes - Bytes(batch)
    /\ completedSequence' = Max({completedSequence, Last(batch).seq})
    /\ batch' = <<>>

(* The sink raised: the batch is complete and its records are failed.       *)
AppendFails ==
    /\ ListenerGoes("append", "dequeue")
    /\ CompleteBatch
    /\ RecordFailure(Len(batch))
    /\ lost' = lost + Len(batch)
    /\ UNCHANGED <<recoveryInflight, reported, written, sink, held, summary, queue>>

(* The batch is written; a pending recovery summary is emitted next.        *)
AppendForgetsInflight ==
    /\ ListenerGoes("append", IF pendingRecovery # NoRecovery THEN "recover" ELSE "dequeue")
    /\ CompleteBatch
    /\ written' = written + Len(batch)
    /\ sink' = sink \o [i \in DOMAIN batch |-> batch[i].seq]
    /\ summary' = pendingRecovery
    /\ UNCHANGED <<recoveryInflight, unresolvedFailure, pendingRecovery, reported>>
    /\ UNCHANGED <<lost, dropped, held, queue>>

AppendSucceeds ==
    /\ ListenerGoes("append", IF pendingRecovery # NoRecovery THEN "recover" ELSE "dequeue")
    /\ CompleteBatch
    /\ written' = written + Len(batch)
    /\ sink' = sink \o [i \in DOMAIN batch |-> batch[i].seq]
    /\ summary' = pendingRecovery
    /\ recoveryInflight' = (pendingRecovery # NoRecovery)
    /\ UNCHANGED <<unresolvedFailure, pendingRecovery, reported>>
    /\ UNCHANGED <<lost, dropped, held, queue>>

(* _emit_recovery; `reported` counts the failed records the sink was told of. *)
RecoveryFails ==
    /\ ListenerGoes("recover", "dequeue")
    /\ unresolvedFailure' = TRUE
    /\ recoveryInflight' = FALSE
    /\ summary' = NoRecovery
    /\ UNCHANGED <<pendingVars, pendingRecovery, reported, writeVars, dropped>>
    /\ UNCHANGED <<batch, held, queue>>

RecoverySucceeds ==
    /\ ListenerGoes("recover", "dequeue")
    /\ pendingRecovery' = Subtract(summary)
    /\ unresolvedFailure' = (unresolvedFailure /\ pendingRecovery' # NoRecovery)
    /\ recoveryInflight' = FALSE
    /\ reported' = reported + summary.failed
    /\ summary' = NoRecovery
    /\ UNCHANGED <<pendingVars, writeVars, dropped, batch, held, queue>>

-----------------------------------------------------------------------------
(* flush, rotate and shutdown *)

(* _wait_for                                                                *)
Reached(target) == completedSequence >= target /\ ~recoveryInflight

CallerStep ==
    UNCHANGED <<pendingVars, nextSequence, accepted, writeVars, listenerVars,
                producerVars, recoveryInflight, reported>>

NoFailure == UNCHANGED <<unresolvedFailure, pendingRecovery, dropped>>

Flush ==
    /\ flusher = "idle" /\ flusher' = "waiting"
    /\ flushTarget' = nextSequence - 1
    /\ UNCHANGED <<shutdownState, rotating, rotationTarget, queue>>
    /\ UNCHANGED <<rotator, rotations, stopper, stopTarget, shutdowns>>
    /\ CallerStep /\ NoFailure

(* flush returns: failed while a failure is unresolved and drained if not,  *)
(* once its records are processed, or timeout at any moment.                *)
ResultLocked == IF unresolvedFailure THEN "failed" ELSE "drained"

FlushReturnsEarly ==
    /\ flusher = "waiting"
    /\ \/ completedSequence >= flushTarget /\ flusher' = "drained"
       \/ flusher' = "timeout"
    /\ UNCHANGED <<flushTarget, shutdownState, rotating, rotationTarget, queue>>
    /\ UNCHANGED <<rotator, rotations, stopper, stopTarget, shutdowns>>
    /\ CallerStep /\ NoFailure

FlushReturns ==
    /\ flusher = "waiting"
    /\ \/ Reached(flushTarget) /\ flusher' = ResultLocked
       \/ flusher' = "timeout"
    /\ UNCHANGED <<flushTarget, shutdownState, rotating, rotationTarget, queue>>
    /\ UNCHANGED <<rotator, rotations, stopper, stopTarget, shutdowns>>
    /\ CallerStep /\ NoFailure

RotatorGoes(from, to) ==
    /\ rotator = from /\ rotator' = to
    /\ UNCHANGED <<shutdownState, queue, flusher, flushTarget, stopper, stopTarget, shutdowns>>
    /\ CallerStep

(* rotate raises the fence at the last accepted record ...                  *)
Rotate ==
    /\ rotations < MaxRotations
    /\ shutdownState = "running" /\ ~rotating
    /\ RotatorGoes("idle", "waiting")
    /\ rotating' = TRUE
    /\ rotationTarget' = nextSequence - 1
    /\ rotations' = rotations + 1
    /\ NoFailure

(* ... gives up when the records before it do not drain in time ...         *)
RotationKeepsFence ==
    /\ RotatorGoes("waiting", "idle")
    /\ UNCHANGED <<rotating, rotationTarget, rotations>>
    /\ NoFailure

RotationTimesOut ==
    /\ RotatorGoes("waiting", "idle")
    /\ rotating' = FALSE
    /\ UNCHANGED <<rotationTarget, rotations>>
    /\ NoFailure

RotationFenced ==
    /\ Reached(rotationTarget)
    /\ RotatorGoes("waiting", "operating")
    /\ UNCHANGED <<rotating, rotationTarget, rotations>>
    /\ NoFailure

(* ... and lowers the fence after the operation returned or raised.         *)
RotationEnds ==
    /\ RotatorGoes("operating", "idle")
    /\ rotating' = FALSE
    /\ UNCHANGED <<rotationTarget, rotations>>
    /\ NoFailure \/ RecordFailure(0)

StopperGoes(from, to) ==
    /\ stopper = from /\ stopper' = to
    /\ UNCHANGED <<rotating, rotationTarget, flusher, flushTarget, rotator, rotations>>
    /\ CallerStep /\ NoFailure

(* shutdown refuses later records, waits for the accepted ones ...          *)
Shutdown ==
    /\ StopperGoes("idle", "waiting")
    /\ shutdownState' = IF shutdownState = "running" THEN "stopping" ELSE shutdownState
    /\ stopTarget' = nextSequence - 1
    /\ shutdowns < MaxShutdowns /\ shutdowns' = shutdowns + 1
    /\ UNCHANGED queue

(* ... sends the sentinel and joins the listener ...                        *)
StopListener ==
    /\ Reached(stopTarget)
    /\ StopperGoes("waiting", "joining")
    /\ queue' = Append(queue, Sentinel)
    /\ UNCHANGED <<shutdownState, stopTarget, shutdowns>>

(* ... or times out in either wait; the caller may try again.               *)
ShutdownTimesOut ==
    /\ \/ StopperGoes("waiting", "idle")
       \/ listener # "exited" /\ StopperGoes("joining", "idle")
    /\ stopTarget' = 0
    /\ UNCHANGED <<shutdownState, queue, shutdowns>>

ListenerJoined ==
    /\ listener = "exited"
    /\ StopperGoes("joining", "done")
    /\ shutdownState' = IF pendingRecords = 0 THEN "stopped" ELSE shutdownState
    /\ stopTarget' = 0
    /\ UNCHANGED <<queue, shutdowns>>

-----------------------------------------------------------------------------

EnqueueStep(p) ==
    \/ EnqueueAdmission(p) \/ SerializeTooLarge(p) \/ SerializeRejected(p)
    \/ \E size \in Sizes : EnqueueCommit(p, size)

ListenerStep ==
    \/ Dequeue \/ PassFence \/ GatherEnds \/ GatherTakes \/ Candidate
    \/ AppendFails \/ AppendSucceeds \/ RecoveryFails \/ RecoverySucceeds

Next ==
    \/ \E p \in Producers : EnqueueStep(p)
    \/ ListenerStep
    \/ Flush \/ FlushReturns
    \/ Rotate \/ RotationTimesOut \/ RotationFenced \/ RotationEnds
    \/ Shutdown \/ StopListener \/ ShutdownTimesOut \/ ListenerJoined

(* The listener thread runs, the sink answers, a rotation operation ends.   *)
(* No caller has to flush, rotate or shut down.                             *)
Fairness ==
    /\ WF_vars(ListenerStep)
    /\ WF_vars(RotationTimesOut \/ RotationFenced)
    /\ WF_vars(RotationEnds)

Spec == Init /\ [][Next]_vars
FairSpec == Spec /\ Fairness

-----------------------------------------------------------------------------
(* Properties *)

InMemory == batch \o held \o queue

(* The places in memory where a record is, and not a sentinel.              *)
Pending == {i \in DOMAIN InMemory : InMemory[i] # Sentinel}

(* Records are in the sink in the order they were accepted, each once, and  *)
(* a completed one that is missing was lost with its batch.                 *)
SinkInOrder ==
    /\ \A i, j \in DOMAIN sink : i < j => sink[i] < sink[j]
    /\ \A i \in DOMAIN sink : sink[i] <= completedSequence
    /\ Len(sink) + lost = completedSequence

(* "Pending counts include a batch currently being written": the counters   *)
(* the limits are checked against are exactly what is held in memory, and   *)
(* within the limits (TypeOK).  Every call of enqueue is accounted for      *)
(* once: accepted and then written, lost with its batch or still pending;   *)
(* or dropped.  No failed record is forgotten or reported twice, even when  *)
(* one fails while a recovery record is being written, and a failure stays  *)
(* unresolved until the sink was told of all of them.  What is written is   *)
(* written in order and once.                                               *)
NoSilentLoss ==
    /\ TypeOK /\ SinkInOrder
    /\ pendingRecords = Cardinality(Pending) /\ pendingBytes = Bytes(InMemory)
    /\ accepted = written + lost + pendingRecords
    /\ attempts = accepted + (dropped - lost)
                  + Cardinality({p \in Producers : producer[p] = "serializing"})
    /\ reported + pendingRecovery.failed = lost + rejected
    /\ ~unresolvedFailure => pendingRecovery.failed = 0 /\ pendingRecovery.failures = 0

(* "Fence sink writes around a caller-owned rotation operation": while the  *)
(* operation runs nothing is appended, and all accepted before it is done.  *)
(* A stopped writer is quiet for good: no thread, nothing in memory.        *)
SinkIsQuiet ==
    /\ rotator = "operating" =>
          listener \notin {"append", "recover"} /\ completedSequence >= rotationTarget
    /\ shutdownState = "stopped" =>
          listener = "exited" /\ Pending = {} /\ completedSequence = nextSequence - 1

(* A flush that returns drained means it: every record accepted before the  *)
(* call is in the sink, or the sink was told that it was lost.              *)
DrainedIsHonest ==
    [][flusher = "waiting" /\ flusher' = "drained" =>
          /\ completedSequence >= flushTarget
          /\ lost + rejected = reported]_vars

(* Every accepted record is eventually processed; the fence of a rotation,  *)
(* finished, failed or timed out, never holds one for ever.                 *)
AcceptedIsProcessed ==
    \A n \in 1..MaxEnqueues : nextSequence > n ~> completedSequence >= n
=============================================================================
