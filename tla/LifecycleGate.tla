----------------------------- MODULE LifecycleGate -----------------------------
(***************************************************************************)
(* The lifecycle transaction gate every CodexHub process shares            *)
(* (src-tauri/src/gateway_transaction.rs): an OS file lock, taken          *)
(* exclusively by start, stop and restart transactions and shared by       *)
(* status reads, and a ".phase" sidecar file in which the transaction that *)
(* holds the lock publishes what it is doing.                              *)
(*                                                                         *)
(* One action is one system call.  fs::write is two of them, a truncation  *)
(* and a write, and a process may die between any two: the lock is then    *)
(* released by the OS, the sidecar stays.                                  *)
(***************************************************************************)
EXTENDS Naturals, FiniteSets

CONSTANTS
    Writers,          \* start, stop and restart callers, in any process
    Readers,          \* status callers
    Phases,           \* the phases that as_str writes and parse accepts
    Nobody,           \* no writer, no phase
    MaxTransactions,  \* bound on the transactions begun
    MaxGateFaults     \* bound on crashes and on failed sidecar removals

ASSUME GateAssumption ==
    /\ MaxTransactions \in Nat
    /\ MaxGateFaults \in Nat
    /\ Nobody \notin Writers
    /\ Nobody \notin Phases
    /\ {"absent", "empty"} \cap Phases = {}

VARIABLES
    owner,         \* the writer the OS granted the exclusive lock, or Nobody
    shared,        \* the readers the OS granted the shared lock
    sidecar,       \* the contents of the .phase file
    wstate,        \* where each writer is
    wphase,        \* the phase each writer publishes
    rstate,        \* where each reader is
    answer,        \* the phase Held(phase) gave a reader
    transactions, gateFaults

lockVars   == <<owner, shared>>
writerVars == <<wstate, wphase>>
readerVars == <<rstate, answer>>
gateBounds == <<transactions, gateFaults>>
gateVars == <<lockVars, sidecar, writerVars, readerVars, gateBounds>>

WriterStates == {"idle", "waiting", "locked", "publishing", "held", "dropping"}
ReaderStates == {"idle", "trying", "busy", "snapshot", "answered"}

(* The writer is between the lock and the unlock of its transaction.        *)
Critical == {"locked", "publishing", "held", "dropping"}

GateTypeOK ==
    /\ owner \in Writers \cup {Nobody}
    /\ shared \in SUBSET Readers
    /\ sidecar \in Phases \cup {"absent", "empty"}
    /\ wstate \in [Writers -> WriterStates]
    /\ wphase \in [Writers -> Phases \cup {Nobody}]
    /\ rstate \in [Readers -> ReaderStates]
    /\ answer \in [Readers -> Phases \cup {Nobody}]
    /\ transactions \in 0..MaxTransactions
    /\ gateFaults \in 0..MaxGateFaults

GateInit ==
    /\ owner = Nobody
    /\ shared = {}
    /\ sidecar = "absent"
    /\ wstate = [w \in Writers |-> "idle"]
    /\ wphase = [w \in Writers |-> Nobody]
    /\ rstate = [r \in Readers |-> "idle"]
    /\ answer = [r \in Readers |-> Nobody]
    /\ transactions = 0
    /\ gateFaults = 0

WriterGoes(w, from, to) ==
    /\ wstate[w] = from
    /\ wstate' = [wstate EXCEPT ![w] = to]

ReaderGoes(r, from, to) ==
    /\ rstate[r] = from
    /\ rstate' = [rstate EXCEPT ![r] = to]

(***************************************************************************)
(* LifecycleTransactionGate::acquire and its Drop                          *)
(***************************************************************************)

(* acquire is called with the phase of the transaction.                     *)
BeginAcquire(w, p) ==
    /\ transactions < MaxTransactions
    /\ WriterGoes(w, "idle", "waiting")
    /\ wphase' = [wphase EXCEPT ![w] = p]
    /\ transactions' = transactions + 1
    /\ UNCHANGED <<lockVars, sidecar, readerVars, gateFaults>>

(* lock_gate_file: try_lock succeeds, or the blocking lock returns.         *)
LockIgnoringReaders(w) ==
    /\ owner = Nobody
    /\ WriterGoes(w, "waiting", "locked")
    /\ owner' = w
    /\ UNCHANGED <<shared, sidecar, wphase, readerVars, gateBounds>>

LockGateFile(w) ==
    /\ owner = Nobody
    /\ shared = {}
    /\ WriterGoes(w, "waiting", "locked")
    /\ owner' = w
    /\ UNCHANGED <<shared, sidecar, wphase, readerVars, gateBounds>>

(* Opening or locking the gate file fails and acquire returns the error.    *)
LockFails(w) ==
    /\ WriterGoes(w, "waiting", "idle")
    /\ wphase' = [wphase EXCEPT ![w] = Nobody]
    /\ UNCHANGED <<lockVars, sidecar, readerVars, gateBounds>>

(* fs::write creates or truncates the sidecar ...                           *)
TruncatePhase(w) ==
    /\ WriterGoes(w, "locked", "publishing")
    /\ sidecar' = "empty"
    /\ UNCHANGED <<lockVars, wphase, readerVars, gateBounds>>

(* ... and writes the phase; the transaction runs.                          *)
PublishPhase(w) ==
    /\ WriterGoes(w, "publishing", "held")
    /\ sidecar' = wphase[w]
    /\ UNCHANGED <<lockVars, wphase, readerVars, gateBounds>>

(* fs::write fails in either half: unlock and return the error.             *)
PublishFailsKeepingLock(w) ==
    /\ wstate[w] \in {"locked", "publishing"}
    /\ wstate' = [wstate EXCEPT ![w] = "idle"]
    /\ wphase' = [wphase EXCEPT ![w] = Nobody]
    /\ UNCHANGED <<lockVars, sidecar, readerVars, gateBounds>>

PublishFails(w) ==
    /\ wstate[w] \in {"locked", "publishing"}
    /\ wstate' = [wstate EXCEPT ![w] = "idle"]
    /\ wphase' = [wphase EXCEPT ![w] = Nobody]
    /\ owner' = Nobody
    /\ UNCHANGED <<shared, sidecar, readerVars, gateBounds>>

(* Drop: remove the sidecar, ignoring a failure ...                         *)
ReleaseEarly(w) ==
    /\ WriterGoes(w, "held", "dropping")
    /\ sidecar' = "absent"
    /\ owner' = Nobody
    /\ UNCHANGED <<shared, wphase, readerVars, gateBounds>>

DropKeepsPhase(w) ==
    /\ WriterGoes(w, "held", "dropping")
    /\ UNCHANGED <<lockVars, sidecar, wphase, readerVars, gateBounds>>

RemovePhase(w) ==
    /\ WriterGoes(w, "held", "dropping")
    /\ sidecar' = "absent"
    /\ UNCHANGED <<lockVars, wphase, readerVars, gateBounds>>

RemovePhaseFails(w) ==
    /\ gateFaults < MaxGateFaults
    /\ WriterGoes(w, "held", "dropping")
    /\ gateFaults' = gateFaults + 1
    /\ UNCHANGED <<lockVars, sidecar, wphase, readerVars, transactions>>

(* ... then unlock.                                                         *)
Unlock(w) ==
    /\ WriterGoes(w, "dropping", "idle")
    /\ wphase' = [wphase EXCEPT ![w] = Nobody]
    /\ owner' = Nobody
    /\ UNCHANGED <<shared, sidecar, readerVars, gateBounds>>

(* The writer's process dies; the OS releases a lock it holds.              *)
Crash(w) ==
    /\ gateFaults < MaxGateFaults
    /\ wstate[w] # "idle"
    /\ wstate' = [wstate EXCEPT ![w] = "idle"]
    /\ wphase' = [wphase EXCEPT ![w] = Nobody]
    /\ owner' = IF owner = w THEN Nobody ELSE owner
    /\ gateFaults' = gateFaults + 1
    /\ UNCHANGED <<shared, sidecar, readerVars, transactions>>

(***************************************************************************)
(* inspect_for_status and the Drop of its read guard                       *)
(***************************************************************************)

BeginInspect(r) ==
    /\ ReaderGoes(r, "idle", "trying")
    /\ UNCHANGED <<answer, lockVars, sidecar, writerVars, gateBounds>>

(* try_lock_shared: the gate is free and held through the snapshot ...      *)
TryLockFree(r) ==
    /\ owner = Nobody
    /\ ReaderGoes(r, "trying", "snapshot")
    /\ shared' = shared \cup {r}
    /\ UNCHANGED <<answer, owner, sidecar, writerVars, gateBounds>>

(* ... or busy ...                                                          *)
TryLockBusy(r) ==
    /\ owner # Nobody
    /\ ReaderGoes(r, "trying", "busy")
    /\ UNCHANGED <<answer, lockVars, sidecar, writerVars, gateBounds>>

(* ... or failing: inspect_for_status returns the error.                    *)
TryLockFailed(r) ==
    /\ ReaderGoes(r, "trying", "idle")
    /\ UNCHANGED <<answer, lockVars, sidecar, writerVars, gateBounds>>

(* A phase that can be read and parsed is the answer ...                    *)
ReadPhase(r) ==
    /\ sidecar \in Phases
    /\ ReaderGoes(r, "busy", "answered")
    /\ answer' = [answer EXCEPT ![r] = sidecar]
    /\ UNCHANGED <<lockVars, sidecar, writerVars, gateBounds>>

(* ... anything else is waited out: sleep, and try the lock again.          *)
PollAgain(r) ==
    /\ sidecar \notin Phases
    /\ ReaderGoes(r, "busy", "trying")
    /\ UNCHANGED <<answer, lockVars, sidecar, writerVars, gateBounds>>

(* The snapshot is taken and the guard dropped, or the reader's process     *)
(* dies: either way the shared lock goes.                                   *)
ReleaseRead(r) ==
    /\ ReaderGoes(r, "snapshot", "idle")
    /\ shared' = shared \ {r}
    /\ UNCHANGED <<answer, owner, sidecar, writerVars, gateBounds>>

ReturnHeld(r) ==
    /\ ReaderGoes(r, "answered", "idle")
    /\ answer' = [answer EXCEPT ![r] = Nobody]
    /\ UNCHANGED <<lockVars, sidecar, writerVars, gateBounds>>

-----------------------------------------------------------------------------

WriterProgress(w) ==
    \/ LockGateFile(w) \/ TruncatePhase(w) \/ PublishPhase(w)
    \/ RemovePhase(w) \/ Unlock(w)

WriterFailure(w) ==
    LockFails(w) \/ PublishFails(w) \/ RemovePhaseFails(w) \/ Crash(w)

ReaderStep(r) ==
    \/ TryLockFree(r) \/ TryLockBusy(r) \/ ReadPhase(r)
    \/ PollAgain(r) \/ ReleaseRead(r) \/ ReturnHeld(r)

GateNext ==
    \/ \E w \in Writers : \/ \E p \in Phases : BeginAcquire(w, p)
                          \/ WriterProgress(w)
                          \/ WriterFailure(w)
    \/ \E r \in Readers : BeginInspect(r) \/ ReaderStep(r) \/ TryLockFailed(r)

(* Threads are scheduled, transactions and snapshots are bounded in time    *)
(* (every backend call has a timeout), and a lock that stays free is        *)
(* granted.  Nothing is assumed about calls beginning or processes dying.   *)
GateFairness ==
    /\ \A w \in Writers : WF_gateVars(WriterProgress(w))
    /\ \A r \in Readers : WF_gateVars(ReaderStep(r))

GateSpec == GateInit /\ [][GateNext]_gateVars
GateFairSpec == GateSpec /\ GateFairness

-----------------------------------------------------------------------------
(* Properties *)

(* Keeping the shared guard through the snapshot closes the inspect-then-   *)
(* read gap: while a status read snapshots, no transaction is between its   *)
(* lock and its unlock; and two transactions never overlap, crashes         *)
(* included.                                                                *)
GateExcludes ==
    /\ \A r \in Readers, w \in Writers :
          rstate[r] = "snapshot" => wstate[w] \notin Critical
    /\ \A v, w \in Writers :
          wstate[v] \in Critical /\ wstate[w] \in Critical => v = w

(* While a transaction runs the sidecar shows its phase: neither a status   *)
(* reader nor the Drop of an earlier transaction removes or replaces it.    *)
RunningPhaseIsPublished ==
    \A w \in Writers : wstate[w] = "held" => sidecar = wphase[w]

(* inspect_for_status reads, in this step, the phase it reports.            *)
Reports(r) == rstate[r] = "busy" /\ rstate'[r] = "answered"

(* As long as no process died in a transaction and no sidecar removal       *)
(* failed, Held(phase) reports the phase of the transaction that owns the   *)
(* gate at the moment of the read, although the lock and the phase are read *)
(* by two separate calls.                                                   *)
HeldPhaseIsActive ==
    [][gateFaults = 0 => \A r \in Readers : Reports(r) =>
           owner # Nobody /\ answer'[r] = wphase[owner]]_gateVars

(* "Phase-less writers are waited out": every inspection ends, whatever     *)
(* dies or fails on the way, once no new transactions begin.                *)
InspectionEnds == \A r \in Readers : rstate[r] = "trying" ~> rstate[r] = "idle"
=============================================================================
