----------------------- MODULE GatewayLifecycle_proofs -----------------------
(***************************************************************************)
(* Safety of the lifecycle of the managed Gateway for any number of apps,  *)
(* threads, PIDs and bundles.  LifecycleInv follows a start id from the    *)
(* process that has it to the records and identities that name it, and,    *)
(* while no fault happened, from every live Gateway back to its record or  *)
(* to the thread that is starting it.                                      *)
(***************************************************************************)
EXTENDS GatewayLifecycle, LifecycleGate, FiniteSetTheorems, TLAPS

(* Start ids are given out in order, to one process each.                   *)
ProcessTable ==
    /\ \A p \in Pids : proc[p] <= procs
    /\ \A p, q \in Pids : proc[p] = proc[q] /\ proc[p] # 0 => p = q
    /\ \A n \in Starts : n <= procs => image[n] \in Bundles \cup {"other"}
    /\ listener # None => proc[listener] # 0

(* In a machine with processes pr, images im and n start ids given out, the *)
(* start id in r names a Gateway that ran under the PID beside it.          *)
FitsIn(r, pr, im, n) ==
    r \notin {None, Error} /\ r.start # 0 =>
        /\ r.start <= n
        /\ im[r.start] \in Bundles
        /\ \A p \in Pids : pr[p] = r.start => p = r.pid

Fits(r) == FitsIn(r, proc, image, procs)

FitsOf(t) == Fits(token[t]) /\ Fits(rec[t]) /\ Fits(child[t]) /\ Fits(found[t])

AllFit ==
    /\ Fits(record)
    /\ \A a \in Apps : Fits(owned[a])
    /\ \A t \in Threads : FitsOf(t)

(* A session identity, and the copy of it a stop took, is of a process that *)
(* this app spawned.                                                        *)
SpawnedIn(a, r, sp) == r # None /\ r.start # 0 => sp[r.start] = a

SpawnedBy(a, r) == SpawnedIn(a, r, spawner)

OwnSpawned ==
    /\ \A a \in Apps : SpawnedBy(a, owned[a])
    /\ \A t \in Threads : SpawnedBy(AppOf[t], token[t]) /\ SpawnedBy(AppOf[t], child[t])

(* Who holds the gate, and that a status snapshot excludes the holder.      *)
Holding == {"plan", "existing", "confirm", "stop", "replace", "prepare", "spawn"}

GateIsKept ==
    /\ \A t \in Threads : stage[t] \in Holding <=> gate = t
    /\ gate # None => StatusReaders = {}

(* What the record may have become since a status snapshot read it as r.    *)
Follows(r, now) ==
    \/ now \in {r, None}
    \/ /\ r # None /\ r.recovery
       /\ \E n \in Starts : /\ now = [r EXCEPT !.recovery = FALSE, !.start = n]
                            /\ r.start # 0 => n = r.start

(* What a call read of the record is still true when it acts on it.         *)
RecIsCurrent(t) ==
    /\ stage[t] \in StopStages /\ step[t] \in {"up", "down", "wait", "kill", "aim", "fire", "killed"} =>
           rec[t] # None /\ record = rec[t]
    /\ InSnapshot(t) /\ stage[t] # "status" /\ step[t] \in {"up", "down"} => record = rec[t]
    /\ stage[t] = "status" /\ step[t] \in {"up", "down"} /\ faults = 0 => Follows(rec[t], record)
    /\ At(t, "existing", "done") /\ found[t] = None => record = None

Gone(r) == \A p \in Pids : proc[p] # r.start

(* The child of a start and the record it has so far.                       *)
ChildIsRecorded(t) ==
    /\ stage[t] \in {"spawn", "confirm"} =>
           /\ child[t] # None
           /\ child[t].recovery \/ child[t].start # 0
           /\ record \in {None, child[t]}
    /\ At(t, "spawn", "wait") => record = None /\ child[t].start # 0
    /\ stage[t] = "confirm" =>
           /\ ~child[t].recovery
           /\ step[t] \in {"enter", "up", "down"} => record = child[t]
           /\ step[t] = "done" => found[t] \in {None, Error, record}
           /\ step[t] = "done" /\ found[t] = None => Gone(child[t])

Covers(r, p) == r # None /\ r.pid = p /\ r.start \in {0, proc[p]}

(* Without faults every live Gateway has a record or is being started.      *)
LiveIsKnown ==
    faults = 0 =>
        \A p \in Pids : IsGateway(p) =>
            \/ Covers(record, p)
            \/ \E t \in Threads : stage[t] \in {"spawn", "confirm"} /\ Covers(child[t], p)

LifecycleInv ==
    /\ TypeOK /\ ProcessTable /\ AllFit /\ OwnSpawned /\ GateIsKept
    /\ \A t \in Threads : RecIsCurrent(t) /\ ChildIsRecorded(t)
    /\ LiveIsKnown /\ StoppedMeansGone

-----------------------------------------------------------------------------
(* Records and verdicts                                                    *)

Kept == Records \cup {None}

LEMMA RecordFields ==
    ASSUME NEW r \in Records
    PROVE  /\ r # None /\ r # Error
           /\ r.pid \in Pids /\ r.start \in 0..MaxProcs /\ r.recovery \in BOOLEAN
  BY RecordsAssumption DEF Records

LEMMA IdentityIs ==
    ASSUME NEW r \in Records
    PROVE  /\ Identity(r) \in Records
           /\ Identity(r).pid = r.pid /\ Identity(r).start = r.start
           /\ ~Identity(r).recovery
           /\ ~r.recovery => Identity(r) = r
  BY DEF Records, Identity

(* Activated(r) has the start id of r, or the one the process has now.      *)
LEMMA ActivatedIs ==
    ASSUME TypeOK, NEW r \in Records
    PROVE  /\ Activated(r) \in Records
           /\ Activated(r).pid = r.pid /\ ~Activated(r).recovery
           /\ Activated(r).start = IF r.recovery /\ r.start = 0 THEN proc[r.pid] ELSE r.start
           /\ ~r.recovery => Activated(r) = r
           /\ r.recovery => Activated(r) = [r EXCEPT !.recovery = FALSE, !.start = Activated(r).start]
<1>1. proc[r.pid] \in 0..MaxProcs
  BY RecordFields DEF TypeOK
<1>2. \A n \in 0..MaxProcs : LET s == [r EXCEPT !.recovery = FALSE, !.start = n]
                             IN  s \in Records /\ s.pid = r.pid /\ ~s.recovery /\ s.start = n
  BY DEF Records
<1>3. CASE ~r.recovery
  BY <1>3 DEF Activated
<1>4. CASE r.recovery
  <2>1. PICK n \in 0..MaxProcs : n = IF r.start = 0 THEN proc[r.pid] ELSE r.start
    BY <1>1, RecordFields
  <2>2. Activated(r) = [r EXCEPT !.recovery = FALSE, !.start = n]
    BY <1>4, <2>1 DEF Activated
  <2> QED
    BY <1>2, <1>4, <2>1, <2>2
<1> QED
  BY <1>3, <1>4, RecordFields

LEMMA SpawnRecordIs ==
    ASSUME TypeOK, procs < MaxProcs, NEW p \in Pids, NEW known \in BOOLEAN
    PROVE  /\ SpawnRecord(p, known) \in Records
           /\ SpawnRecord(p, known).pid = p /\ SpawnRecord(p, known).recovery
           /\ SpawnRecord(p, known).start = IF known THEN procs + 1 ELSE 0
<1>1. (IF known THEN procs + 1 ELSE 0) \in 0..MaxProcs
  BY LifecycleAssumption DEF TypeOK
<1> QED
  BY <1>1 DEF SpawnRecord, Records, TypeOK

LEMMA ClaimIs ==
    ASSUME TypeOK, NEW p \in Pids
    PROVE  Claim(p) \in Records /\ Claim(p).pid = p /\ Claim(p).start = proc[p]
  BY DEF Claim, Records, TypeOK

(* What a verdict says of the process under the PID of the record.          *)
LEMMA VerdictIs ==
    ASSUME TypeOK, NEW r \in Records
    PROVE  /\ Verdict(r) = "missing" => ~r.recovery /\ proc[r.pid] = 0
           /\ Verdict(r) = "verified" =>
                 ~r.recovery /\ proc[r.pid] = r.start /\ r.start # 0 /\ IsGateway(r.pid)
           /\ Verdict(r) = "mismatch" =>
                 ~r.recovery /\ (IsGateway(r.pid) => r.start # 0 /\ proc[r.pid] # r.start)
           /\ Verdict(r) \in {"missing", "mismatch"} => ~Covers(r, r.pid) \/ ~IsGateway(r.pid)
<1>1. r.pid \in Pids /\ r.pid # None /\ r.start \in Nat /\ r.recovery \in BOOLEAN /\ proc[r.pid] \in Nat
  BY RecordFields, LifecycleAssumption DEF TypeOK
<1>2. CASE r.recovery
  BY <1>2 DEF Verdict
<1>3. CASE ~r.recovery /\ proc[r.pid] = 0
  BY <1>1, <1>3 DEF Verdict, IsGateway
<1>4. CASE ~r.recovery /\ proc[r.pid] # 0 /\ image[proc[r.pid]] = "other"
  BY <1>1, <1>4 DEF Verdict, IsGateway
<1>5. CASE ~r.recovery /\ proc[r.pid] # 0 /\ image[proc[r.pid]] # "other" /\ r.start = 0
  BY <1>1, <1>5 DEF Verdict
<1>6. CASE ~r.recovery /\ proc[r.pid] # 0 /\ image[proc[r.pid]] # "other" /\ r.start # 0
  BY <1>1, <1>6 DEF Verdict, IsGateway, Covers
<1> QED
  BY <1>1, <1>2, <1>3, <1>4, <1>5, <1>6

-----------------------------------------------------------------------------
(* Types                                                                   *)

CallBegins(t) == \E o \in Ops \ {"none"} : Call(t, o)

ThreadStep(t) == CallBegins(t) \/ CallStep(t) \/ GateFails(t) \/ WriteFails(t)

OthersStay(t) ==
    \A u \in Threads \ {t} :
        /\ op'[u] = op[u] /\ stage'[u] = stage[u] /\ step'[u] = step[u] /\ token'[u] = token[u]
        /\ rec'[u] = rec[u] /\ child'[u] = child[u] /\ found'[u] = found[u]

LEMMA MovesIs ==
    ASSUME TypeOK, NEW t \in Threads, NEW s \in Stages, NEW k \in Steps, Moves(t, s, k)
    PROVE  /\ stage' \in [Threads -> Stages] /\ step' \in [Threads -> Steps]
           /\ stage'[t] = s /\ step'[t] = k
           /\ \A u \in Threads \ {t} : stage'[u] = stage[u] /\ step'[u] = step[u]
  BY DEF TypeOK, Moves

CallTypes ==
    /\ op' \in [Threads -> Ops]
    /\ stage' \in [Threads -> Stages]
    /\ step' \in [Threads -> Steps]
    /\ token' \in [Threads -> Kept]
    /\ rec' \in [Threads -> Kept]
    /\ child' \in [Threads -> Kept]
    /\ found' \in [Threads -> Kept \cup {Error}]

LEMMA ReturnsIs ==
    ASSUME TypeOK, NEW t \in Threads, Returns(t)
    PROVE  /\ CallTypes /\ OthersStay(t)
           /\ stage'[t] = "idle" /\ step'[t] = "enter"
           /\ token'[t] = None /\ rec'[t] = None /\ child'[t] = None /\ found'[t] = None
           /\ gate' = (IF gate = t THEN None ELSE gate) /\ gate' \in Threads \cup {None}
<1>1. "idle" \in Stages /\ "enter" \in Steps /\ "none" \in Ops
  BY DEF Stages, Steps, Ops
<1>2. Moves(t, "idle", "enter")
  BY DEF Returns
<1> QED
  BY <1>1, <1>2, MovesIs DEF TypeOK, CallTypes, OthersStay, Returns, Kept

LEMMA StatusReturnsIs ==
    ASSUME TypeOK, NEW t \in Threads, StatusReturns(t)
    PROVE  /\ CallTypes /\ OthersStay(t)
           /\ stage'[t] \in {"then", "idle"} /\ step'[t] = "enter"
           /\ token'[t] \in {token[t], None} /\ child'[t] \in {child[t], None}
           /\ rec'[t] = None /\ found'[t] = None
           /\ gate' = gate \/ gate' = (IF gate = t THEN None ELSE gate)
           /\ gate' \in Threads \cup {None}
<1>1. "then" \in Stages /\ "enter" \in Steps
  BY DEF Stages, Steps
<1>2. CASE op[t] = "close"
  <2>1. Moves(t, "then", "enter")
    BY <1>2 DEF StatusReturns
  <2>2. /\ rec' = [rec EXCEPT ![t] = None] /\ found' = [found EXCEPT ![t] = None]
        /\ UNCHANGED <<gate, op, token, child>>
    BY <1>2 DEF StatusReturns
  <2>3. /\ stage' \in [Threads -> Stages] /\ step' \in [Threads -> Steps]
        /\ stage'[t] = "then" /\ step'[t] = "enter"
        /\ \A u \in Threads \ {t} : stage'[u] = stage[u] /\ step'[u] = step[u]
    BY <1>1, <2>1, MovesIs
  <2>4. CallTypes
    BY <2>2, <2>3 DEF TypeOK, CallTypes, Kept
  <2>5. OthersStay(t)
    BY <2>2, <2>3 DEF TypeOK, OthersStay
  <2> QED
    BY <2>2, <2>3, <2>4, <2>5 DEF TypeOK
<1>3. CASE op[t] # "close"
  BY <1>3, ReturnsIs DEF StatusReturns
<1> QED
  BY <1>2, <1>3

LEMMA FindsIs ==
    ASSUME TypeOK, NEW t \in Threads, NEW result \in Kept \cup {Error}, Finds(t, result)
    PROVE  /\ stage' \in [Threads -> Stages] /\ step' \in [Threads -> Steps]
           /\ found' \in [Threads -> Kept \cup {Error}]
           /\ stage'[t] = stage[t] /\ step'[t] = "done" /\ found'[t] = result
           /\ \A u \in Threads \ {t} :
                 stage'[u] = stage[u] /\ step'[u] = step[u] /\ found'[u] = found[u]
<1>1. stage[t] \in Stages /\ "done" \in Steps /\ Moves(t, stage[t], "done")
  BY DEF TypeOK, Steps, Finds
<1> QED
  BY <1>1, MovesIs DEF TypeOK, Finds, Kept

-----------------------------------------------------------------------------
(* What one step of a call may do to each variable                         *)

TokenStep(t) == token'[t] \in {token[t], None, owned[AppOf[t]]}

RecStep(t) == rec'[t] \in {rec[t], None, record}

ChildStep(t) ==
    \/ child'[t] \in {child[t], None}
    \/ At(t, "spawn", "wait") /\ child'[t] = Identity(child[t])
    \/ \E p \in Pids, known \in BOOLEAN :
          NewProcess(p, installed, AppOf[t]) /\ child'[t] = SpawnRecord(p, known)

FoundStep(t) ==
    \/ found'[t] \in {found[t], None, Error}
    \/ listener \in Pids /\ IsGateway(listener) /\ found'[t] = Claim(listener) /\ UNCHANGED osVars
    \/ /\ rec[t] # None /\ Verdict(Activated(rec[t])) = "verified"
       /\ found'[t] = Identity(Activated(rec[t])) /\ UNCHANGED osVars

OwnedStep(t) ==
    \E id : /\ owned' = [owned EXCEPT ![AppOf[t]] = id]
            /\ \/ id \in {owned[AppOf[t]], None}
               \/ At(t, "confirm", "done") /\ found[t] \notin {None, Error} /\ id = found[t]
               \/ At(t, "spawn", "kill") /\ id = Identity(child[t])

RecordStep(t) ==
    \/ record' \in {record, None}
    \/ /\ rec[t] = None /\ InSnapshot(t) /\ step[t] = "up" /\ UNCHANGED osVars
       /\ listener \in Pids /\ IsGateway(listener) /\ record' = Claim(listener)
    \/ /\ rec[t] # None /\ InSnapshot(t) /\ step[t] = "up" /\ UNCHANGED osVars
       /\ rec[t].recovery /\ Verdict(Activated(rec[t])) = "verified" /\ record' = Activated(rec[t])
    \/ /\ At(t, "spawn", "wait") /\ Verdict(Identity(child[t])) = "verified"
       /\ record' = Identity(child[t]) /\ UNCHANGED osVars
    \/ At(t, "spawn", "kill") /\ record' = child[t] /\ UNCHANGED osVars

OsStep(t) ==
    \/ UNCHANGED osVars
    \/ UNCHANGED <<image, spawner, procs>> /\ \E p \in Pids : Dies(p)
    \/ \E p \in Pids : Unclaimed(p) /\ NewProcess(p, installed, AppOf[t])

LocalSteps(t) ==
    CallTypes /\ OthersStay(t) /\ TokenStep(t) /\ RecStep(t) /\ ChildStep(t) /\ FoundStep(t)

SharedSteps(t) ==
    /\ OwnedStep(t) /\ RecordStep(t) /\ OsStep(t)
    /\ gate' \in Threads \cup {None}
    /\ UNCHANGED installed
    /\ calls' \in 0..MaxCalls /\ faults' \in 0..MaxFaults /\ (faults' = 0 => faults = 0)
    /\ checked' \in 0..MaxProcs /\ (checked' # checked => stage[t] \in StopStages)

LEMMA OwnedSteps ==
    ASSUME TypeOK, NEW t \in Threads
    PROVE  /\ UNCHANGED owned => OwnedStep(t)
           /\ SessionOwns(AppOf[t], None) => OwnedStep(t)
           /\ \A id : PublishSnapshot(AppOf[t], id, FALSE) => OwnedStep(t)
<1>1. AppOf[t] \in Apps
  BY LifecycleAssumption
<1>2. owned = [owned EXCEPT ![AppOf[t]] = owned[AppOf[t]]]
  BY <1>1 DEF TypeOK
<1> QED
  BY <1>2 DEF OwnedStep, SessionOwns, PublishSnapshot

LEMMA ReturnsSteps ==
    ASSUME TypeOK, NEW t \in Threads, Returns(t) \/ StatusReturns(t)
    PROVE  LocalSteps(t) /\ gate' \in Threads \cup {None}
  BY ReturnsIs, StatusReturnsIs DEF LocalSteps, TokenStep, RecStep, ChildStep, FoundStep

LEMMA MovesSteps ==
    ASSUME TypeOK, NEW t \in Threads, NEW s \in Stages, NEW k \in Steps, Moves(t, s, k),
           UNCHANGED <<op, token, rec, child, found>>
    PROVE  LocalSteps(t)
<1>1. CallTypes /\ OthersStay(t)
  BY MovesIs DEF TypeOK, CallTypes, OthersStay, Kept
<1> QED
  BY <1>1 DEF LocalSteps, TokenStep, RecStep, ChildStep, FoundStep

(* Steps that leave the process table and the record alone and return.      *)
LEMMA ReturningSteps ==
    ASSUME TypeOK, NEW t \in Threads,
           \/ GateFails(t) \/ InspectHeld(t) \/ StatusEnds(t) \/ PlanEnds(t) \/ PrepareFails(t)
           \/ StopEnds(t) \/ ExistingEnds(t) \/ SpawnFails(t) \/ SpawnExited(t) \/ ConfirmEnds(t)
           \/ CleanUpConfirmed(t) \/ CleanUpUnconfirmed(t) \/ CleanUpWriteFails(t)
    PROVE  Returns(t) \/ StatusReturns(t)
  BY DEF GateFails, InspectHeld, StatusEnds, PlanEnds, PrepareFails, StopEnds, ExistingEnds, SpawnFails,
         SpawnExited, ConfirmEnds, CleanUpConfirmed, CleanUpUnconfirmed, CleanUpWriteFails

LEMMA ReturningEffects ==
    ASSUME TypeOK, NEW t \in Threads, ChildIsRecorded(t),
           \/ GateFails(t) \/ InspectHeld(t) \/ StatusEnds(t) \/ PlanEnds(t) \/ PrepareFails(t)
           \/ StopEnds(t) \/ ExistingEnds(t) \/ SpawnFails(t) \/ SpawnExited(t) \/ ConfirmEnds(t)
           \/ CleanUpConfirmed(t) \/ CleanUpUnconfirmed(t) \/ CleanUpWriteFails(t)
    PROVE  LocalSteps(t) /\ SharedSteps(t)
<1>1. LocalSteps(t) /\ gate' \in Threads \cup {None}
  BY ReturningSteps, ReturnsSteps
<1>2. /\ faults \in Nat /\ MaxFaults \in Nat /\ calls \in 0..MaxCalls /\ faults \in 0..MaxFaults
      /\ checked \in 0..MaxProcs
  BY LifecycleAssumption DEF TypeOK
<1> SUFFICES SharedSteps(t)
  BY <1>1
<1>3. ASSUME OwnedStep(t), RecordStep(t), OsStep(t), UNCHANGED <<installed, bounds>>
      PROVE  SharedSteps(t)
  BY <1>1, <1>2, <1>3 DEF SharedSteps, bounds
<1>4. CASE GateFails(t) \/ InspectHeld(t) \/ PrepareFails(t)
  <2>1. UNCHANGED <<owned, record, osVars, installed, bounds>>
    BY <1>4 DEF GateFails, InspectHeld, PrepareFails
  <2> QED
    BY <1>3, <2>1, OwnedSteps DEF RecordStep, OsStep
<1>5. CASE StatusEnds(t) \/ PlanEnds(t) \/ StopEnds(t) \/ ExistingEnds(t)
  <2>1. UNCHANGED <<record, osVars, installed, bounds>>
    BY <1>5 DEF StatusEnds, PlanEnds, StopEnds, ExistingEnds
  <2>2. OwnedStep(t)
    BY <1>5, OwnedSteps DEF StatusEnds, PlanEnds, StopEnds, ExistingEnds
  <2> QED
    BY <1>3, <2>1, <2>2 DEF RecordStep, OsStep
<1>6. CASE SpawnFails(t) \/ SpawnExited(t)
  BY <1>3, <1>6, OwnedSteps DEF SpawnFails, SpawnExited, RecordStep, OsStep
<1>7. CASE ConfirmEnds(t)
  <2>1. OwnedStep(t)
    BY <1>7, OwnedSteps DEF ConfirmEnds, PublishSnapshot, SessionOwns, OwnedStep
  <2> QED
    BY <1>3, <1>7, <2>1 DEF ConfirmEnds, RecordStep, OsStep
<1>8. child[t].pid \in Pids \/ stage[t] # "spawn"
  BY RecordFields DEF ChildIsRecorded, TypeOK
<1>9. CASE CleanUpConfirmed(t)
  BY <1>3, <1>8, <1>9, OwnedSteps DEF CleanUpConfirmed, RecordStep, OsStep, At
<1>10. CASE CleanUpUnconfirmed(t)
  <2>0. Verdict(child[t]) \in {"missing", "mismatch", "verified", "unknown"}
    BY DEF Verdict
  <2>a. At(t, "spawn", "kill") /\ UNCHANGED osVars
    BY <1>10 DEF CleanUpUnconfirmed
  <2>b. \/ record' = child[t] /\ SessionOwns(AppOf[t], Identity(child[t]))
        \/ record' \in {None, record} /\ SessionOwns(AppOf[t], None)
    BY <1>10, <2>0 DEF CleanUpUnconfirmed
  <2>1. OwnedStep(t) /\ RecordStep(t)
    BY <2>a, <2>b, OwnedSteps DEF RecordStep, OwnedStep, SessionOwns
  <2> QED
    BY <1>3, <1>10, <2>1 DEF CleanUpUnconfirmed, OsStep
<1>11. CASE CleanUpWriteFails(t)
  <2>1. /\ faults' = faults + 1 /\ faults < MaxFaults /\ UNCHANGED <<calls, checked, record, osVars, installed>>
        /\ OwnedStep(t)
    BY <1>11, OwnedSteps DEF CleanUpWriteFails
  <2> QED
    BY <1>1, <1>2, <2>1 DEF SharedSteps, RecordStep, OsStep
<1> QED
  BY <1>4, <1>5, <1>6, <1>7, <1>9, <1>10, <1>11

LEMMA StageNames ==
    /\ SnapshotStages \cup StopStages \cup Holding \subseteq Stages
    /\ {"idle", "acquire", "inspect", "then", "status"} \subseteq Stages
    /\ {"enter", "up", "down", "wait", "kill", "aim", "fire", "killed", "done"} \subseteq Steps
  BY DEF Stages, SnapshotStages, StopStages, Holding, Steps

(* Steps that only move on, take a copy of shared state, or find a result.  *)
LEMMA MovingEffects ==
    ASSUME TypeOK, NEW t \in Threads,
           \/ CallBegins(t) \/ ThenStop(t) \/ Acquire(t) \/ InspectFree(t) \/ PlanGoesOn(t) \/ Prepare(t)
           \/ StopGoesOn(t) \/ SpawnUnconfirmed(t)
    PROVE  LocalSteps(t) /\ SharedSteps(t)
<1>1. /\ faults \in Nat /\ calls \in Nat /\ MaxCalls \in Nat
      /\ calls \in 0..MaxCalls /\ faults \in 0..MaxFaults /\ checked \in 0..MaxProcs
      /\ gate \in Threads \cup {None}
  BY LifecycleAssumption DEF TypeOK
<1>2. ASSUME OwnedStep(t), gate' \in Threads \cup {None}, UNCHANGED <<record, osVars, installed, bounds>>
      PROVE  SharedSteps(t)
  BY <1>1, <1>2 DEF SharedSteps, bounds, RecordStep, OsStep
<1>3. ASSUME NEW s \in Stages, NEW k \in Steps, Moves(t, s, k), UNCHANGED <<op, token, rec, child, found>>
      PROVE  LocalSteps(t)
  BY <1>3, MovesSteps
<1>4. CASE CallBegins(t)
  <2>1. PICK o \in Ops \ {"none"} : Call(t, o)
    BY <1>4 DEF CallBegins
  <2>2. PICK s \in Stages : Moves(t, s, "enter")
    BY <2>1, StageNames DEF Call
  <2>3. /\ stage' \in [Threads -> Stages] /\ step' \in [Threads -> Steps]
        /\ \A u \in Threads \ {t} : stage'[u] = stage[u] /\ step'[u] = step[u]
    BY <2>2, MovesIs, StageNames
  <2>4. op' = [op EXCEPT ![t] = o] /\ UNCHANGED <<rec, child, found>>
    BY <2>1 DEF Call
  <2>5. PICK x \in {None, owned[AppOf[t]]} : token' = [token EXCEPT ![t] = x]
    BY <2>1 DEF Call
  <2>6. x \in Kept
    BY LifecycleAssumption DEF TypeOK, Kept
  <2>7. CallTypes
    BY <2>3, <2>4, <2>5, <2>6 DEF CallTypes, TypeOK, Kept
  <2>8. OthersStay(t)
    BY <2>3, <2>4, <2>5 DEF OthersStay, TypeOK
  <2>9. token'[t] = x
    BY <2>5 DEF TypeOK
  <2>10. LocalSteps(t)
    BY <2>4, <2>7, <2>8, <2>9, <2>5 DEF LocalSteps, TokenStep, RecStep, ChildStep, FoundStep
  <2>11. calls' = calls + 1 /\ calls < MaxCalls /\ UNCHANGED <<owned, record, osVars, installed, gate, faults, checked>>
    BY <2>1 DEF Call
  <2>12. calls' \in 0..MaxCalls
    BY <1>1, <2>11
  <2>13. OwnedStep(t) /\ RecordStep(t) /\ OsStep(t)
    BY <2>11, OwnedSteps DEF RecordStep, OsStep
  <2> QED
    BY <1>1, <2>10, <2>11, <2>12, <2>13 DEF SharedSteps
<1>5. CASE ThenStop(t)
  <2>1. /\ Moves(t, "acquire", "enter") /\ token' = [token EXCEPT ![t] = owned[AppOf[t]]]
        /\ UNCHANGED <<op, rec, child, found>>
        /\ UNCHANGED <<owned, gate, record, osVars, installed, bounds>>
    BY <1>5 DEF ThenStop
  <2>2. /\ stage' \in [Threads -> Stages] /\ step' \in [Threads -> Steps]
        /\ \A u \in Threads \ {t} : stage'[u] = stage[u] /\ step'[u] = step[u]
    BY <2>1, MovesIs, StageNames
  <2>3. owned[AppOf[t]] \in Kept
    BY LifecycleAssumption DEF TypeOK, Kept
  <2>4. CallTypes
    BY <2>1, <2>2, <2>3 DEF CallTypes, TypeOK, Kept
  <2>5. OthersStay(t)
    BY <2>1, <2>2 DEF OthersStay, TypeOK
  <2>6. token'[t] = owned[AppOf[t]]
    BY <2>1 DEF TypeOK
  <2>7. LocalSteps(t)
    BY <2>1, <2>4, <2>5, <2>6 DEF LocalSteps, TokenStep, RecStep, ChildStep, FoundStep
  <2> QED
    BY <1>1, <1>2, <2>1, <2>7, OwnedSteps
<1>6. CASE Acquire(t)
  <2>1. PICK s \in Stages : Moves(t, s, "enter")
    BY <1>6, StageNames DEF Acquire, Holding
  <2> QED
    BY <1>2, <1>3, <1>6, <2>1, StageNames, OwnedSteps DEF Acquire
<1>7. CASE InspectFree(t)
  BY <1>1, <1>2, <1>3, <1>7, StageNames, OwnedSteps DEF InspectFree
<1>8. CASE PlanGoesOn(t)
  <2>1. "prepare" \in Stages /\ "enter" \in Steps
    BY StageNames DEF Holding
  <2>2. OwnedStep(t)
    BY <1>8, OwnedSteps DEF PlanGoesOn
  <2> QED
    BY <1>1, <1>2, <1>3, <1>8, <2>1, <2>2 DEF PlanGoesOn
<1>9. CASE Prepare(t)
  <2>1. PICK s \in Stages : Moves(t, s, "enter")
    BY <1>9, StageNames DEF Prepare, Holding
  <2> QED
    BY <1>1, <1>2, <1>3, <1>9, <2>1, StageNames, OwnedSteps DEF Prepare
<1>10. CASE StopGoesOn(t)
  <2>1. PICK s \in Stages : Moves(t, s, "enter")
    BY <1>10, StageNames DEF StopGoesOn, Holding
  <2>2. OwnedStep(t)
    BY <1>10, OwnedSteps DEF StopGoesOn
  <2> QED
    BY <1>1, <1>2, <1>3, <1>10, <2>1, <2>2, StageNames DEF StopGoesOn
<1>11. CASE SpawnUnconfirmed(t)
  <2>1. "spawn" \in Stages /\ "kill" \in Steps
    BY StageNames DEF Holding
  <2> QED
    BY <1>1, <1>2, <1>3, <1>11, <2>1, OwnedSteps DEF SpawnUnconfirmed
<1> QED
  BY <1>4, <1>5, <1>6, <1>7, <1>8, <1>9, <1>10, <1>11

LEMMA StopEffects ==
    ASSUME TypeOK, NEW t \in Threads, RecIsCurrent(t), Stop(t)
    PROVE  LocalSteps(t) /\ SharedSteps(t)
<1>1. /\ faults \in Nat /\ calls \in 0..MaxCalls /\ faults \in 0..MaxFaults /\ checked \in 0..MaxProcs
      /\ gate \in Threads \cup {None}
      /\ stage[t] \in Stages /\ record \in Kept
  BY LifecycleAssumption DEF TypeOK, Kept
<1>2. ASSUME OsStep(t), record' \in {record, None}, UNCHANGED <<installed, gate, owned, bounds>>
      PROVE  SharedSteps(t)
  BY <1>1, <1>2, OwnedSteps DEF SharedSteps, bounds, RecordStep
<1>3. StopKeeps /\ record' \in {record, None} => SharedSteps(t)
  BY <1>2 DEF StopKeeps, OsStep
<1>4. ASSUME NEW s \in Stages, NEW k \in Steps, Moves(t, s, k), UNCHANGED <<op, token, rec, child, found>>
      PROVE  LocalSteps(t)
  BY <1>4, MovesSteps
<1>5. ASSUME NEW result \in {None, Error}, Finds(t, result), UNCHANGED <<op, token, child>>,
             rec' = rec \/ rec' = [rec EXCEPT ![t] = record]
      PROVE  LocalSteps(t)
  <2>1. /\ stage' \in [Threads -> Stages] /\ step' \in [Threads -> Steps]
        /\ found' \in [Threads -> Kept \cup {Error}] /\ found'[t] = result
        /\ \A u \in Threads \ {t} :
                 stage'[u] = stage[u] /\ step'[u] = step[u] /\ found'[u] = found[u]
    BY <1>5, FindsIs DEF Kept
  <2>2. rec' \in [Threads -> Kept] /\ rec'[t] \in {rec[t], record} /\ \A u \in Threads \ {t} : rec'[u] = rec[u]
    BY <1>1, <1>5 DEF TypeOK, Kept
  <2>3. CallTypes
    BY <1>5, <2>1, <2>2 DEF CallTypes, TypeOK, Kept
  <2>4. OthersStay(t)
    BY <1>5, <2>1, <2>2 DEF OthersStay
  <2> QED
    BY <1>5, <2>1, <2>2, <2>3, <2>4 DEF LocalSteps, TokenStep, RecStep, ChildStep, FoundStep
<1>6. CASE NothingToReplace(t) \/ StopRequests(t) \/ StopTimesOut(t) \/ KillFindsListener(t)
  <2>1. PICK s \in Stages, k \in Steps : Moves(t, s, k)
    BY <1>1, <1>6, StageNames DEF NothingToReplace, StopRequests, StopTimesOut, KillFindsListener, Holding
  <2>2. UNCHANGED <<record, op, token, rec, child, found>> /\ StopKeeps
    BY <1>6 DEF NothingToReplace, StopRequests, StopTimesOut, KillFindsListener, StopKeeps
  <2> QED
    BY <1>3, <1>4, <2>1, <2>2
<1>7. CASE StopRefuses(t) \/ StopFindsMissing(t) \/ StopFindsMismatch(t) \/ StopWaited(t) \/ KillFindsMissing(t)
  <2>1. PICK result \in {None, Error} : Finds(t, result)
    BY <1>7 DEF StopRefuses, StopFindsMissing, StopFindsMismatch, StopWaited, KillFindsMissing
  <2>2. record' \in {record, None} /\ UNCHANGED rec /\ StopKeeps
    BY <1>7 DEF StopRefuses, StopFindsMissing, StopFindsMismatch, StopWaited, KillFindsMissing
  <2>3. UNCHANGED <<op, token, child>>
    BY <2>2 DEF StopKeeps
  <2> QED
    BY <1>3, <1>5, <2>1, <2>2, <2>3
<1>8. CASE StopProbe(t)
  <2>1. record' = record /\ rec' = [rec EXCEPT ![t] = record] /\ StopKeeps
    BY <1>8 DEF StopProbe
  <2>2. UNCHANGED <<op, token, child>>
    BY <2>1 DEF StopKeeps
  <2>3. \/ \E result \in {None, Error} : Finds(t, result)
        \/ UNCHANGED found /\ \E k \in Steps : Moves(t, stage[t], k)
    BY <1>8, StageNames DEF StopProbe
  <2>4. CASE \E result \in {None, Error} : Finds(t, result)
    BY <1>3, <1>5, <2>1, <2>2, <2>4
  <2>5. CASE UNCHANGED found /\ \E k \in Steps : Moves(t, stage[t], k)
    <3>1. /\ stage' \in [Threads -> Stages] /\ step' \in [Threads -> Steps]
          /\ \A u \in Threads \ {t} : stage'[u] = stage[u] /\ step'[u] = step[u]
      BY <1>1, <2>5, MovesIs
    <3>2. rec' \in [Threads -> Kept] /\ rec'[t] = record /\ \A u \in Threads \ {t} : rec'[u] = rec[u]
      BY <1>1, <2>1 DEF TypeOK, Kept
    <3>3. CallTypes
      BY <2>2, <2>5, <3>1, <3>2 DEF CallTypes, TypeOK, Kept
    <3>4. OthersStay(t)
      BY <2>2, <2>5, <3>1, <3>2 DEF OthersStay
    <3> QED
      BY <1>3, <2>1, <2>2, <2>5, <3>2, <3>3, <3>4 DEF LocalSteps, TokenStep, RecStep, ChildStep, FoundStep
  <2> QED
    BY <2>3, <2>4, <2>5
<1>9. CASE Kill(t)
  <2>1. rec[t].pid \in Pids
    BY <1>9, RecordFields DEF Kill, RecIsCurrent, TypeOK
  <2>2. OsStep(t)
    BY <1>9, <2>1 DEF Kill, OsStep, osVars
  <2>3. LocalSteps(t)
    BY <1>1, <1>4, <1>9, StageNames DEF Kill
  <2> QED
    BY <1>2, <1>9, <2>2, <2>3 DEF Kill
<1>10. CASE KillVerifies(t)
  <2>1. /\ UNCHANGED <<record, op, token, rec, child, found, osVars, installed, gate, owned, calls, faults>>
        /\ checked' = procs /\ stage[t] \in StopStages
    BY <1>10 DEF KillVerifies, MayKill
  <2>2. LocalSteps(t)
    BY <1>1, <1>4, <1>10, <2>1, StageNames DEF KillVerifies
  <2>3. SharedSteps(t)
    BY <1>1, <2>1, OwnedSteps DEF SharedSteps, RecordStep, OsStep, TypeOK
  <2> QED
    BY <2>2, <2>3
<1> QED
  BY <1>6, <1>7, <1>8, <1>9, <1>10 DEF Stop

LEMMA SnapshotEffects ==
    ASSUME TypeOK, NEW t \in Threads, Snapshot(t)
    PROVE  LocalSteps(t) /\ SharedSteps(t)
<1>1. /\ faults \in Nat /\ calls \in 0..MaxCalls /\ faults \in 0..MaxFaults /\ checked \in 0..MaxProcs
      /\ gate \in Threads \cup {None}
      /\ stage[t] \in Stages /\ record \in Kept /\ rec[t] \in Kept
  BY LifecycleAssumption DEF TypeOK, Kept
<1>2. SnapshotKeeps /\ RecordStep(t) => SharedSteps(t)
  BY <1>1, OwnedSteps DEF SharedSteps, SnapshotKeeps, bounds, OsStep
<1>3. ASSUME NEW result \in Kept \cup {Error}, Finds(t, result), SnapshotKeeps,
             found'[t] = result => FoundStep(t)
      PROVE  LocalSteps(t)
  <2>1. /\ stage' \in [Threads -> Stages] /\ step' \in [Threads -> Steps]
        /\ found' \in [Threads -> Kept \cup {Error}] /\ found'[t] = result
        /\ \A u \in Threads \ {t} :
                 stage'[u] = stage[u] /\ step'[u] = step[u] /\ found'[u] = found[u]
    BY <1>3, FindsIs
  <2>2. UNCHANGED <<op, token, rec, child>>
    BY <1>3 DEF SnapshotKeeps
  <2>3. CallTypes
    BY <2>1, <2>2 DEF CallTypes, TypeOK, Kept
  <2>4. OthersStay(t)
    BY <2>1, <2>2 DEF OthersStay
  <2> QED
    BY <1>3, <2>1, <2>2, <2>3, <2>4 DEF LocalSteps, TokenStep, RecStep, ChildStep
<1>4. CASE SnapshotProbe(t)
  <2>1. rec' = [rec EXCEPT ![t] = record] /\ UNCHANGED <<op, token, child, found>>
    BY <1>4 DEF SnapshotProbe
  <2>2. PICK k \in Steps : Moves(t, stage[t], k)
    BY <1>4, StageNames DEF SnapshotProbe
  <2>3. /\ stage' \in [Threads -> Stages] /\ step' \in [Threads -> Steps]
        /\ \A u \in Threads \ {t} : stage'[u] = stage[u] /\ step'[u] = step[u]
    BY <1>1, <2>2, MovesIs
  <2>4. rec' \in [Threads -> Kept] /\ rec'[t] = record /\ \A u \in Threads \ {t} : rec'[u] = rec[u]
    BY <1>1, <2>1 DEF TypeOK, Kept
  <2>5. CallTypes
    BY <2>1, <2>3, <2>4 DEF CallTypes, TypeOK, Kept
  <2>6. OthersStay(t)
    BY <2>1, <2>3, <2>4 DEF OthersStay
  <2>7. LocalSteps(t)
    BY <2>1, <2>4, <2>5, <2>6 DEF LocalSteps, TokenStep, RecStep, ChildStep, FoundStep
  <2>8. UNCHANGED <<osVars, installed, record, gate, owned, bounds>>
    BY <1>4 DEF SnapshotProbe
  <2> QED
    BY <1>1, <2>7, <2>8, OwnedSteps DEF SharedSteps, bounds, OsStep, RecordStep
<1>5. CASE SnapshotNotRunning(t) \/ SnapshotRefuses(t) \/ SnapshotDropsStale(t)
  <2>1. PICK result \in {None, Error} : Finds(t, result)
    BY <1>5 DEF SnapshotNotRunning, SnapshotRefuses, SnapshotDropsStale
  <2>2. record' \in {record, None} /\ SnapshotKeeps
    BY <1>5 DEF SnapshotNotRunning, SnapshotRefuses, SnapshotDropsStale
  <2>3. result \in Kept \cup {Error} /\ (found'[t] = result => FoundStep(t))
    BY DEF Kept, FoundStep
  <2> QED
    BY <1>2, <1>3, <2>1, <2>2, <2>3 DEF RecordStep
<1>6. CASE SnapshotAdopts(t)
  <2>1. PICK result \in {Claim(listener), Error} : Finds(t, result)
    BY <1>6 DEF SnapshotAdopts
  <2>2. /\ InSnapshot(t) /\ step[t] = "up" /\ rec[t] = None /\ IsGateway(listener)
        /\ record' = Claim(listener) /\ SnapshotKeeps
    BY <1>6 DEF SnapshotAdopts
  <2>3. listener \in Pids /\ UNCHANGED osVars
    BY <2>2 DEF IsGateway, TypeOK, SnapshotKeeps
  <2>4. result \in Kept \cup {Error}
    BY <2>1, <2>3, ClaimIs DEF Kept
  <2>5. found'[t] = result => FoundStep(t)
    BY <2>1, <2>2, <2>3 DEF FoundStep
  <2>6. RecordStep(t)
    BY <2>2, <2>3 DEF RecordStep
  <2> QED
    BY <1>2, <1>3, <2>1, <2>2, <2>4, <2>5, <2>6
<1>7. CASE SnapshotConfirms(t)
  <2>1. /\ InSnapshot(t) /\ step[t] = "up" /\ rec[t] # None /\ SnapshotKeeps
        /\ Verdict(Activated(rec[t])) = "verified" /\ Finds(t, Identity(Activated(rec[t])))
        /\ record' = IF rec[t].recovery THEN Activated(rec[t]) ELSE record
    BY <1>7 DEF SnapshotConfirms
  <2>2. UNCHANGED osVars
    BY <2>1 DEF SnapshotKeeps
  <2>3. RecordStep(t)
    BY <2>1, <2>2 DEF RecordStep
  <2>4. Identity(Activated(rec[t])) \in Kept \cup {Error}
    BY <1>1, <2>1, ActivatedIs, IdentityIs DEF Kept
  <2>5. found'[t] = Identity(Activated(rec[t])) => FoundStep(t)
    BY <2>1, <2>2 DEF FoundStep
  <2> QED
    BY <1>2, <1>3, <2>1, <2>3, <2>4, <2>5
<1> QED
  BY <1>4, <1>5, <1>6, <1>7 DEF Snapshot

LEMMA SpawnEffects ==
    ASSUME TypeOK, NEW t \in Threads, ChildIsRecorded(t), Spawn(t) \/ SpawnHealthy(t) \/ SpawnWriteFails(t)
    PROVE  LocalSteps(t) /\ SharedSteps(t)
<1>1. /\ faults \in Nat /\ calls \in 0..MaxCalls /\ faults \in 0..MaxFaults /\ checked \in 0..MaxProcs
      /\ gate \in Threads \cup {None}
      /\ MaxFaults \in Nat /\ {"spawn", "confirm"} \subseteq Stages /\ {"enter", "wait", "kill"} \subseteq Steps
  BY LifecycleAssumption, StageNames DEF TypeOK, Holding
<1>2. ASSUME NEW r \in Records, NEW s \in Stages, NEW k \in Steps, Moves(t, s, k),
             child' = [child EXCEPT ![t] = r], child'[t] = r => ChildStep(t),
             UNCHANGED <<op, token, rec, found>>
      PROVE  LocalSteps(t)
  <2>1. /\ stage' \in [Threads -> Stages] /\ step' \in [Threads -> Steps]
        /\ \A u \in Threads \ {t} : stage'[u] = stage[u] /\ step'[u] = step[u]
    BY <1>2, MovesIs
  <2>2. child' \in [Threads -> Kept] /\ child'[t] = r /\ \A u \in Threads \ {t} : child'[u] = child[u]
    BY <1>2 DEF TypeOK, Kept
  <2>3. CallTypes
    BY <1>2, <2>1, <2>2 DEF CallTypes, TypeOK, Kept
  <2>4. OthersStay(t)
    BY <1>2, <2>1, <2>2 DEF OthersStay
  <2> QED
    BY <1>2, <2>2, <2>3, <2>4 DEF LocalSteps, TokenStep, RecStep, FoundStep
<1>3. CASE Spawn(t)
  <2>1. PICK p \in Pids, known \in BOOLEAN :
          /\ Unclaimed(p) /\ NewProcess(p, installed, AppOf[t])
          /\ child' = [child EXCEPT ![t] = SpawnRecord(p, known)]
          /\ Moves(t, "spawn", IF known THEN "wait" ELSE "kill")
    BY <1>3, Zenon DEF Spawn
  <2>2. record' = None /\ UNCHANGED <<installed, gate, owned, op, token, rec, found, bounds>>
    BY <1>3 DEF Spawn
  <2>3. SpawnRecord(p, known) \in Records
    BY <2>1, SpawnRecordIs DEF NewProcess
  <2>4. child'[t] = SpawnRecord(p, known) => ChildStep(t)
    BY <2>1 DEF ChildStep
  <2>5. LocalSteps(t)
    BY <1>1, <1>2, <2>1, <2>2, <2>3, <2>4
  <2>6. OsStep(t)
    BY <2>1 DEF OsStep
  <2> QED
    BY <1>1, <2>2, <2>5, <2>6, OwnedSteps DEF SharedSteps, bounds, RecordStep
<1>4. CASE SpawnHealthy(t) \/ SpawnWriteFails(t)
  <2>1. /\ At(t, "spawn", "wait") /\ Verdict(Identity(child[t])) = "verified"
        /\ child' = [child EXCEPT ![t] = Identity(child[t])]
        /\ UNCHANGED <<osVars, installed, gate, owned, op, token, rec, found, calls, checked>>
    BY <1>4 DEF SpawnHealthy, SpawnWriteFails, bounds
  <2>2. Identity(child[t]) \in Records
    BY <2>1, IdentityIs DEF ChildIsRecorded, TypeOK, At
  <2>3. child'[t] = Identity(child[t]) => ChildStep(t)
    BY <2>1 DEF ChildStep
  <2>4. PICK s \in Stages, k \in Steps : Moves(t, s, k)
    BY <1>1, <1>4 DEF SpawnHealthy, SpawnWriteFails
  <2>5. LocalSteps(t)
    BY <1>2, <2>1, <2>2, <2>3, <2>4
  <2>6. RecordStep(t)
    BY <1>4, <2>1 DEF SpawnHealthy, SpawnWriteFails, RecordStep
  <2>7. faults' \in 0..MaxFaults /\ (faults' = 0 => faults = 0)
    BY <1>1, <1>4 DEF SpawnHealthy, SpawnWriteFails, bounds
  <2> QED
    BY <1>1, <2>1, <2>5, <2>6, <2>7, OwnedSteps DEF SharedSteps, OsStep
<1> QED
  BY <1>3, <1>4

LEMMA Effects ==
    ASSUME TypeOK, NEW t \in Threads, RecIsCurrent(t), ChildIsRecorded(t), ThreadStep(t)
    PROVE  LocalSteps(t) /\ SharedSteps(t)
  BY ReturningEffects, MovingEffects, StopEffects, SnapshotEffects, SpawnEffects
     DEF ThreadStep, CallStep, Start, WriteFails

-----------------------------------------------------------------------------
(* The process table                                                       *)

OsTypes ==
    /\ proc' \in [Pids -> 0..MaxProcs]
    /\ image' \in [Starts -> Bundles \cup {"other", None}]
    /\ spawner' \in [Starts -> Apps \cup {None}]
    /\ procs' \in 0..MaxProcs
    /\ listener' \in Pids \cup {None}

(* Start ids only grow, and what was said of an old one stays.              *)
Ages ==
    /\ procs <= procs'
    /\ \A n \in Starts : n <= procs => image'[n] = image[n]
    /\ \A p \in Pids : proc'[p] \in {proc[p], 0} \/ proc'[p] > procs

SpawnersStay == \A n \in Starts : n <= procs => spawner'[n] = spawner[n]

LEMMA SameMachine ==
    ASSUME TypeOK, ProcessTable, UNCHANGED osVars
    PROVE  OsTypes /\ ProcessTable' /\ Ages /\ SpawnersStay
<1>1. procs \in Nat
  BY DEF TypeOK
<1>2. OsTypes /\ ProcessTable'
  BY DEF osVars, TypeOK, OsTypes, ProcessTable
<1>3. Ages /\ SpawnersStay
  BY <1>1 DEF osVars, Ages, SpawnersStay
<1> QED
  BY <1>2, <1>3

LEMMA DiesIs ==
    ASSUME TypeOK, ProcessTable, NEW p \in Pids, Dies(p), UNCHANGED <<image, spawner, procs>>
    PROVE  OsTypes /\ ProcessTable' /\ Ages /\ SpawnersStay
<1>1. procs \in Nat /\ 0 \in 0..MaxProcs /\ proc \in [Pids -> 0..MaxProcs]
  BY LifecycleAssumption DEF TypeOK
<1>2. proc' \in [Pids -> 0..MaxProcs] /\ \A q \in Pids : proc'[q] = IF q = p THEN 0 ELSE proc[q]
  BY <1>1 DEF Dies
<1>3. listener' \in Pids \cup {None} /\ (listener' # None => listener' = listener /\ listener # p)
  BY DEF Dies, TypeOK
<1>4. OsTypes
  BY <1>2, <1>3 DEF OsTypes, TypeOK
<1>5. \A q \in Pids : proc'[q] <= procs' /\ proc'[q] \in {proc[q], 0}
  BY <1>1, <1>2 DEF ProcessTable
<1>6. \A q1, q2 \in Pids : proc'[q1] = proc'[q2] /\ proc'[q1] # 0 => q1 = q2
  BY <1>2 DEF ProcessTable
<1>7. listener' # None => proc'[listener'] # 0
  BY <1>2, <1>3 DEF ProcessTable, TypeOK
<1>8. ProcessTable'
  BY <1>5, <1>6, <1>7 DEF ProcessTable
<1>9. Ages /\ SpawnersStay
  BY <1>1, <1>5 DEF Ages, SpawnersStay
<1> QED
  BY <1>4, <1>8, <1>9

LEMMA NewProcessIs ==
    ASSUME TypeOK, ProcessTable, NEW p \in Pids, NEW img \in Bundles \cup {"other"},
           NEW a \in Apps \cup {None}, NewProcess(p, img, a)
    PROVE  /\ OsTypes /\ ProcessTable' /\ Ages /\ SpawnersStay
           /\ procs + 1 \in Starts /\ procs' = procs + 1 /\ proc[p] = 0
           /\ proc'[p] = procs + 1 /\ image'[procs + 1] = img /\ spawner'[procs + 1] = a
           /\ \A q \in Pids \ {p} : proc'[q] = proc[q]
<1>1. procs \in Nat /\ MaxProcs \in Nat /\ procs < MaxProcs /\ proc \in [Pids -> 0..MaxProcs]
  BY LifecycleAssumption DEF TypeOK, NewProcess
<1>2. procs + 1 \in Starts /\ procs' = procs + 1 /\ procs + 1 \in 0..MaxProcs
  BY <1>1 DEF Starts, NewProcess
<1>3. /\ proc' \in [Pids -> 0..MaxProcs] /\ proc'[p] = procs + 1 /\ proc[p] = 0
      /\ \A q \in Pids \ {p} : proc'[q] = proc[q]
  BY <1>1, <1>2 DEF NewProcess
<1>4. /\ image' \in [Starts -> Bundles \cup {"other", None}] /\ image'[procs + 1] = img
      /\ \A n \in Starts : n <= procs => image'[n] = image[n]
  BY <1>1, <1>2 DEF NewProcess, TypeOK
<1>5. /\ spawner' \in [Starts -> Apps \cup {None}] /\ spawner'[procs + 1] = a
      /\ \A n \in Starts : n <= procs => spawner'[n] = spawner[n]
  BY <1>1, <1>2 DEF NewProcess, TypeOK
<1>6. listener' = listener /\ listener \in Pids \cup {None}
  BY DEF NewProcess, TypeOK
<1>7. OsTypes
  BY <1>2, <1>3, <1>4, <1>5, <1>6 DEF OsTypes
<1>8. \A q \in Pids : proc[q] \in Nat /\ proc[q] <= procs
  BY <1>1 DEF ProcessTable
<1>9. Ages /\ SpawnersStay
  BY <1>1, <1>2, <1>3, <1>4, <1>5 DEF Ages, SpawnersStay
<1>10. \A q \in Pids : proc'[q] <= procs'
  BY <1>1, <1>2, <1>3, <1>8
<1>11. \A q1, q2 \in Pids : proc'[q1] = proc'[q2] /\ proc'[q1] # 0 => q1 = q2
  <2>1. \A q \in Pids \ {p} : proc'[q] = proc[q] /\ proc'[q] # proc'[p]
    BY <1>1, <1>3, <1>8
  <2> QED
    BY <1>3, <2>1 DEF ProcessTable
<1>12. \A n \in Starts : n <= procs' => image'[n] \in Bundles \cup {"other"}
  <2>1. \A n \in Starts : n <= procs' => n <= procs \/ n = procs + 1
    BY <1>1, <1>2 DEF Starts
  <2> QED
    BY <1>4, <2>1 DEF ProcessTable
<1>13. listener' # None => proc'[listener'] # 0
  BY <1>3, <1>6 DEF ProcessTable
<1>14. ProcessTable'
  BY <1>10, <1>11, <1>12, <1>13 DEF ProcessTable
<1> QED
  BY <1>2, <1>3, <1>4, <1>5, <1>7, <1>9, <1>14

LEMMA OsSteps ==
    ASSUME TypeOK, ProcessTable, NEW t \in Threads, OsStep(t)
    PROVE  OsTypes /\ ProcessTable' /\ Ages /\ SpawnersStay
<1>1. installed \in Bundles \cup {"other"} /\ AppOf[t] \in Apps \cup {None}
  BY LifecycleAssumption DEF TypeOK
<1> QED
  BY <1>1, SameMachine, DiesIs, NewProcessIs DEF OsStep

LEMMA TypesStep ==
    ASSUME TypeOK, ProcessTable, NEW t \in Threads, RecIsCurrent(t), ChildIsRecorded(t), LocalSteps(t), SharedSteps(t)
    PROVE  TypeOK'
<1>1. OsTypes
  BY OsSteps DEF SharedSteps
<1>2. rec[t] \in Kept /\ child[t] \in Kept /\ found[t] \in Kept \cup {Error} /\ AppOf[t] \in Apps /\ record \in Kept
  BY LifecycleAssumption DEF TypeOK, Kept
<1>3. stage[t] \in {"spawn", "confirm"} => child[t] \in Records
  BY <1>2 DEF ChildIsRecorded, Kept
<1>4. record' \in Records \cup {None}
  <2>1. RecordStep(t)
    BY DEF SharedSteps
  <2>2. listener \in Pids => Claim(listener) \in Records
    BY ClaimIs
  <2>3. rec[t] # None => Activated(rec[t]) \in Records
    BY <1>2, ActivatedIs DEF Kept
  <2>4. stage[t] = "spawn" => Identity(child[t]) \in Records
    BY <1>3, IdentityIs
  <2> QED
    BY <1>2, <1>3, <2>1, <2>2, <2>3, <2>4 DEF RecordStep, Kept, At
<1>5. owned' \in [Apps -> Records \cup {None}]
  <2>1. PICK id : /\ owned' = [owned EXCEPT ![AppOf[t]] = id]
                  /\ \/ id \in {owned[AppOf[t]], None}
                     \/ found[t] \notin {None, Error} /\ id = found[t]
                     \/ stage[t] = "spawn" /\ id = Identity(child[t])
    BY DEF SharedSteps, OwnedStep, At
  <2>2. stage[t] = "spawn" => Identity(child[t]) \in Records
    BY <1>3, IdentityIs
  <2>3. id \in Records \cup {None}
    BY <1>2, <2>1, <2>2 DEF TypeOK, Kept
  <2> QED
    BY <2>1, <2>3 DEF TypeOK
<1> QED
  BY <1>1, <1>4, <1>5 DEF TypeOK, LocalSteps, SharedSteps, CallTypes, OsTypes, Kept

-----------------------------------------------------------------------------
(* Start ids name Gateways                                                 *)

LEMMA FitsStays ==
    ASSUME TypeOK, OsTypes, Ages, NEW r \in Records \cup {None, Error}, FitsIn(r, proc, image, procs)
    PROVE  FitsIn(r, proc', image', procs')
<1>1. CASE r \in {None, Error} \/ r.start = 0
  BY <1>1 DEF FitsIn
<1>2. CASE r \notin {None, Error} /\ r.start # 0
  <2>1. r.start \in Starts /\ r.start \in Nat /\ r.pid \in Pids
    BY <1>2, RecordFields, LifecycleAssumption DEF Starts
  <2>2. procs \in Nat /\ procs' \in Nat /\ \A p \in Pids : proc'[p] \in Nat /\ proc[p] \in Nat
    BY DEF TypeOK, OsTypes
  <2>3. r.start <= procs /\ image[r.start] \in Bundles /\ \A p \in Pids : proc[p] = r.start => p = r.pid
    BY <1>2 DEF FitsIn
  <2>4. r.start <= procs' /\ image'[r.start] \in Bundles
    BY <2>1, <2>2, <2>3 DEF Ages
  <2>5. \A p \in Pids : proc'[p] = r.start => p = r.pid
    BY <1>2, <2>1, <2>2, <2>3 DEF Ages
  <2> QED
    BY <2>4, <2>5 DEF FitsIn
<1> QED
  BY <1>1, <1>2

LEMMA FitsIdentity ==
    ASSUME NEW r \in Records, NEW pr, NEW im, NEW n, FitsIn(r, pr, im, n)
    PROVE  FitsIn(Identity(r), pr, im, n)
  BY IdentityIs, RecordFields DEF FitsIn

(* A record with the PID and the start id of a live Gateway fits.           *)
LEMMA FitsLive ==
    ASSUME TypeOK, ProcessTable, NEW r \in Records, IsGateway(r.pid), r.start = proc[r.pid]
    PROVE  Fits(r)
<1>1. r.pid \in Pids /\ proc[r.pid] \in Starts /\ proc[r.pid] <= procs
  BY RecordFields, LifecycleAssumption DEF TypeOK, IsGateway, Starts, ProcessTable
<1>2. image[proc[r.pid]] \in Bundles
  BY <1>1 DEF IsGateway, ProcessTable
<1>3. \A p \in Pids : proc[p] = proc[r.pid] => p = r.pid
  BY <1>1 DEF ProcessTable, IsGateway
<1> QED
  BY <1>1, <1>2, <1>3 DEF Fits, FitsIn

LEMMA FitSteps ==
    ASSUME TypeOK, ProcessTable, AllFit, NEW t \in Threads, ChildIsRecorded(t), LocalSteps(t), SharedSteps(t)
    PROVE  AllFit'
<1> DEFINE After(r) == FitsIn(r, proc', image', procs')
<1>1. OsTypes /\ Ages
  BY OsSteps DEF SharedSteps
<1>2. \A r \in Records \cup {None, Error} : Fits(r) => After(r)
  BY <1>1, FitsStays DEF Fits
<1>3. After(None) /\ After(Error)
  BY DEF FitsIn
<1>4. \A u \in Threads : After(token[u]) /\ After(rec[u]) /\ After(child[u]) /\ After(found[u])
  BY <1>2 DEF AllFit, FitsOf, TypeOK
<1>5. After(record) /\ \A a \in Apps : After(owned[a])
  BY <1>2 DEF AllFit, TypeOK
<1>6. rec[t] \in Kept /\ AppOf[t] \in Apps /\ (stage[t] = "spawn" => child[t] \in Records)
  BY LifecycleAssumption DEF TypeOK, Kept, ChildIsRecorded
<1>7. stage[t] = "spawn" => After(Identity(child[t]))
  BY <1>4, <1>6, FitsIdentity
<1>8. UNCHANGED osVars => \A r : Fits(r) => After(r)
  BY DEF osVars, Fits
<1>9. UNCHANGED osVars /\ listener \in Pids /\ IsGateway(listener) => After(Claim(listener))
  BY <1>8, ClaimIs, FitsLive
<1>10. UNCHANGED osVars /\ rec[t] # None /\ Verdict(Activated(rec[t])) = "verified" =>
          After(Activated(rec[t])) /\ After(Identity(Activated(rec[t])))
  <2>1. SUFFICES ASSUME UNCHANGED osVars, rec[t] # None, Verdict(Activated(rec[t])) = "verified"
                 PROVE  After(Activated(rec[t])) /\ After(Identity(Activated(rec[t])))
    OBVIOUS
  <2>2. Activated(rec[t]) \in Records
    BY <1>6, <2>1, ActivatedIs DEF Kept
  <2>3. Fits(Activated(rec[t]))
    BY <2>1, <2>2, VerdictIs, FitsLive
  <2> QED
    BY <1>8, <2>1, <2>2, <2>3, FitsIdentity
<1>11. \A p \in Pids, known \in BOOLEAN :
          NewProcess(p, installed, AppOf[t]) => After(SpawnRecord(p, known))
  <2>1. SUFFICES ASSUME NEW p \in Pids, NEW known \in BOOLEAN, NewProcess(p, installed, AppOf[t])
                 PROVE  After(SpawnRecord(p, known))
    OBVIOUS
  <2>2. installed \in Bundles
    BY DEF TypeOK
  <2>3. /\ ProcessTable' /\ procs' = procs + 1 /\ proc'[p] = procs + 1 /\ image'[procs + 1] = installed
        /\ \A q \in Pids \ {p} : proc'[q] = proc[q]
    BY <1>6, <2>1, <2>2, NewProcessIs
  <2>4. SpawnRecord(p, known).pid = p /\ SpawnRecord(p, known).start = IF known THEN procs + 1 ELSE 0
    BY <2>1, SpawnRecordIs DEF NewProcess
  <2>5. procs \in Nat
    BY DEF TypeOK
  <2>6. \A q \in Pids : proc'[q] = procs + 1 => q = p
    BY <2>3, <2>5 DEF ProcessTable
  <2>7. procs + 1 <= procs'
    BY <2>3, <2>5
  <2> QED
    BY <2>2, <2>3, <2>4, <2>6, <2>7 DEF FitsIn
<1> HIDE DEF After
<1>12. After(record')
  BY <1>3, <1>4, <1>5, <1>7, <1>9, <1>10 DEF SharedSteps, RecordStep, At
<1>13. \A a \in Apps : After(owned'[a])
  <2>1. PICK id : /\ owned' = [owned EXCEPT ![AppOf[t]] = id]
                  /\ \/ id \in {owned[AppOf[t]], None, found[t]}
                     \/ stage[t] = "spawn" /\ id = Identity(child[t])
    BY DEF SharedSteps, OwnedStep, At
  <2>2. After(id)
    BY <1>3, <1>4, <1>5, <1>6, <1>7, <2>1
  <2>3. \A a \in Apps : owned'[a] \in {owned[a], id}
    BY <2>1 DEF TypeOK
  <2> QED
    BY <1>5, <2>2, <2>3
<1>14. After(token'[t]) /\ After(rec'[t]) /\ After(child'[t]) /\ After(found'[t])
  <2>1. After(token'[t]) /\ After(rec'[t])
    BY <1>3, <1>4, <1>5, <1>6 DEF LocalSteps, TokenStep, RecStep
  <2>2. After(child'[t])
    BY <1>3, <1>4, <1>7, <1>11 DEF LocalSteps, ChildStep, At
  <2>3. After(found'[t])
    BY <1>3, <1>4, <1>9, <1>10 DEF LocalSteps, FoundStep
  <2> QED
    BY <2>1, <2>2, <2>3
<1>15. \A u \in Threads : After(token'[u]) /\ After(rec'[u]) /\ After(child'[u]) /\ After(found'[u])
  BY <1>4, <1>14 DEF LocalSteps, OthersStay
<1> QED
  BY <1>12, <1>13, <1>15 DEF AllFit, FitsOf, Fits, After

(* An old process keeps its spawner, so an identity stays its app's.        *)
LEMMA SpawnedStays ==
    ASSUME TypeOK, SpawnersStay, NEW a, NEW r \in Kept, Fits(r), SpawnedBy(a, r)
    PROVE  SpawnedIn(a, r, spawner')
<1>1. r # None /\ r.start # 0 => r.start \in Starts /\ r.start <= procs
  BY RecordFields, LifecycleAssumption DEF Fits, FitsIn, Kept, Starts
<1> QED
  BY <1>1 DEF SpawnedBy, SpawnedIn, SpawnersStay

LEMMA OwnSteps ==
    ASSUME TypeOK, ProcessTable, AllFit, OwnSpawned, NEW t \in Threads, ChildIsRecorded(t),
           LocalSteps(t), SharedSteps(t)
    PROVE  OwnSpawned'
<1> DEFINE Spawned(a, r) == SpawnedIn(a, r, spawner')
           b == AppOf[t]
<1>1. SpawnersStay
  BY OsSteps DEF SharedSteps
<1>2. \A a \in Apps, r \in Kept : Fits(r) /\ SpawnedBy(a, r) => Spawned(a, r)
  BY <1>1, SpawnedStays
<1>3. \A a \in Apps : Spawned(a, None)
  BY DEF SpawnedIn
<1>4. \A u \in Threads : AppOf[u] \in Apps /\ Spawned(AppOf[u], token[u]) /\ Spawned(AppOf[u], child[u])
  BY <1>2, LifecycleAssumption DEF AllFit, FitsOf, TypeOK, OwnSpawned, Kept
<1>5. \A a \in Apps : Spawned(a, owned[a])
  BY <1>2 DEF AllFit, TypeOK, OwnSpawned, Kept
<1>6. stage[t] \in {"spawn", "confirm"} => child[t] \in Records
  BY DEF TypeOK, ChildIsRecorded
<1>7. stage[t] = "spawn" => Spawned(b, Identity(child[t]))
  BY <1>4, <1>6, IdentityIs, RecordFields DEF SpawnedIn
<1>8. At(t, "confirm", "done") /\ found[t] \notin {None, Error} => found[t] = child[t]
  BY DEF ChildIsRecorded, At
<1>9. \A p \in Pids, known \in BOOLEAN :
          NewProcess(p, installed, b) => Spawned(b, SpawnRecord(p, known))
  <2>1. SUFFICES ASSUME NEW p \in Pids, NEW known \in BOOLEAN, NewProcess(p, installed, b)
                 PROVE  Spawned(b, SpawnRecord(p, known))
    OBVIOUS
  <2>2. spawner'[procs + 1] = b
    BY <1>4, <2>1, NewProcessIs DEF TypeOK
  <2>3. SpawnRecord(p, known).start = IF known THEN procs + 1 ELSE 0
    BY <2>1, SpawnRecordIs DEF NewProcess
  <2> QED
    BY <2>2, <2>3 DEF SpawnedIn
<1> HIDE DEF Spawned
<1>10. \A a \in Apps : Spawned(a, owned'[a])
  <2>1. PICK id : /\ owned' = [owned EXCEPT ![b] = id]
                  /\ \/ id \in {owned[b], None}
                     \/ At(t, "confirm", "done") /\ found[t] \notin {None, Error} /\ id = found[t]
                     \/ stage[t] = "spawn" /\ id = Identity(child[t])
    BY DEF SharedSteps, OwnedStep, At
  <2>2. Spawned(b, id)
    BY <1>3, <1>4, <1>5, <1>7, <1>8, <2>1
  <2>3. \A a \in Apps : owned'[a] = IF a = b THEN id ELSE owned[a]
    BY <2>1 DEF TypeOK
  <2> QED
    BY <1>5, <2>2, <2>3
<1>11. Spawned(b, token'[t]) /\ Spawned(b, child'[t])
  <2>1. Spawned(b, token'[t])
    BY <1>3, <1>4, <1>5 DEF LocalSteps, TokenStep
  <2>2. Spawned(b, child'[t])
    BY <1>3, <1>4, <1>7, <1>9 DEF LocalSteps, ChildStep, At
  <2> QED
    BY <2>1, <2>2
<1>12. \A u \in Threads : Spawned(AppOf[u], token'[u]) /\ Spawned(AppOf[u], child'[u])
  BY <1>4, <1>11 DEF LocalSteps, OthersStay
<1> QED
  BY <1>10, <1>12 DEF OwnSpawned, SpawnedBy, Spawned

-----------------------------------------------------------------------------
(* The gate, and what a call knows of the record                           *)

Stopped(t) ==
    At(t, "stop", "done") /\ found[t] = None =>
        record = None /\ (rec[t] # None /\ rec[t].start # 0 => Gone(rec[t]))

LEMMA StoppedForAll == StoppedMeansGone <=> \A t \in Threads : Stopped(t)
  BY DEF StoppedMeansGone, Stopped, Gone

Guarded == Holding \cup {"status"}

GateStep(t) ==
    \/ stage'[t] \notin Guarded /\ gate' = (IF gate = t THEN None ELSE gate)
    \/ stage'[t] \notin Guarded /\ stage[t] \notin Holding /\ gate' = gate
    \/ stage'[t] \in Holding /\ stage[t] \in Holding /\ gate' = gate
    \/ stage'[t] = "status" /\ stage[t] = "status" /\ gate' = gate
    \/ stage'[t] = "status" /\ stage[t] \notin Holding /\ gate = None /\ gate' = None
    \/ stage'[t] \in Holding /\ gate = None /\ StatusReaders = {} /\ gate' = t

(* What a step of t leaves t with, and that only a guarded call writes the  *)
(* record.                                                                  *)
OwnStep(t) ==
    /\ GateStep(t)
    /\ record' # record => stage[t] \in Guarded
    /\ RecIsCurrent(t)' /\ ChildIsRecorded(t)' /\ Stopped(t)'

LEMMA StageSets == /\ SnapshotStages = {"status", "plan", "existing", "confirm"}
                /\ StopStages = {"stop", "replace"}
                /\ Guarded = {"plan", "existing", "confirm", "stop", "replace", "prepare", "spawn", "status"}
                /\ Holding = {"plan", "existing", "confirm", "stop", "replace", "prepare", "spawn"}
  BY DEF SnapshotStages, StopStages, Guarded, Holding

(* Outside these stages a call knows nothing.                               *)
LEMMA KnowsNothing ==
    ASSUME NEW t \in Threads, stage'[t] \notin {"spawn", "confirm"},
           stage'[t] \notin StopStages \cup SnapshotStages \/ step'[t] = "enter"
    PROVE  RecIsCurrent(t)' /\ ChildIsRecorded(t)' /\ Stopped(t)'
  BY DEF RecIsCurrent, ChildIsRecorded, Stopped, StopStages, SnapshotStages, InSnapshot, At

LEMMA ReturningOwn ==
    ASSUME TypeOK, GateIsKept, NEW t \in Threads,
           \/ GateFails(t) \/ InspectHeld(t) \/ StatusEnds(t) \/ PlanEnds(t) \/ PrepareFails(t)
           \/ StopEnds(t) \/ ExistingEnds(t) \/ SpawnFails(t) \/ SpawnExited(t) \/ ConfirmEnds(t)
           \/ CleanUpConfirmed(t) \/ CleanUpUnconfirmed(t) \/ CleanUpWriteFails(t)
    PROVE  OwnStep(t)
<1>1. stage'[t] \in {"idle", "then"} /\ step'[t] = "enter"
  BY ReturningSteps, ReturnsIs, StatusReturnsIs
<1>2. RecIsCurrent(t)' /\ ChildIsRecorded(t)' /\ Stopped(t)'
  BY <1>1, KnowsNothing, StageSets
<1>3. record' # record => stage[t] \in Guarded
  BY StageSets DEF GateFails, InspectHeld, StatusEnds, PlanEnds, PrepareFails, StopEnds, ExistingEnds, SpawnFails,
                SpawnExited, ConfirmEnds, CleanUpConfirmed, CleanUpUnconfirmed, CleanUpWriteFails, At
<1>4. CASE Returns(t)
  BY <1>1, <1>2, <1>3, <1>4, ReturnsIs, StageSets DEF OwnStep, GateStep
<1>5. CASE ~Returns(t)
  <2>1. StatusReturns(t) /\ stage[t] \in {"inspect", "status"}
    BY <1>5 DEF GateFails, InspectHeld, StatusEnds, PlanEnds, PrepareFails, StopEnds, ExistingEnds, SpawnFails,
                SpawnExited, ConfirmEnds, CleanUpConfirmed, CleanUpUnconfirmed, CleanUpWriteFails, At
  <2> QED
    BY <1>1, <1>2, <1>3, <2>1, StatusReturnsIs, StageSets DEF OwnStep, GateStep
<1> QED
  BY <1>4, <1>5

LEMMA MovingOwn ==
    ASSUME TypeOK, GateIsKept, NEW t \in Threads, ChildIsRecorded(t),
           \/ CallBegins(t) \/ ThenStop(t) \/ Acquire(t) \/ InspectFree(t) \/ PlanGoesOn(t) \/ Prepare(t)
           \/ StopGoesOn(t) \/ SpawnUnconfirmed(t)
    PROVE  OwnStep(t)
<1>1. record' = record
  BY DEF CallBegins, Call, ThenStop, Acquire, InspectFree, PlanGoesOn, Prepare, StopGoesOn, SpawnUnconfirmed
<1>2. ASSUME NEW s \in Stages, NEW k \in Steps, Moves(t, s, k), stage'[t] = s /\ step'[t] = k => GateStep(t),
             s \notin {"spawn", "confirm"}, k = "enter"
      PROVE  OwnStep(t)
  BY <1>1, <1>2, MovesIs, KnowsNothing DEF OwnStep
<1>3. CASE CallBegins(t)
  <2>1. PICK s \in {"inspect", "acquire"} : Moves(t, s, "enter")
    BY <1>3 DEF CallBegins, Call
  <2>2. gate' = gate /\ stage[t] \notin Holding
    BY <1>3, StageSets DEF CallBegins, Call
  <2> QED
    BY <1>2, <2>1, <2>2, StageNames, StageSets DEF GateStep
<1>4. CASE ThenStop(t)
  BY <1>2, <1>4, StageNames, StageSets DEF ThenStop, GateStep
<1>5. CASE Acquire(t)
  <2>1. PICK s \in {"stop", "plan"} : Moves(t, s, "enter")
    BY <1>5 DEF Acquire
  <2> QED
    BY <1>2, <1>5, <2>1, StageNames, StageSets DEF GateStep, Acquire
<1>6. CASE InspectFree(t)
  BY <1>2, <1>6, StageNames, StageSets DEF InspectFree, GateStep
<1>7. CASE PlanGoesOn(t)
  BY <1>2, <1>7, StageNames, StageSets DEF PlanGoesOn, GateStep, At
<1>8. CASE Prepare(t)
  <2>1. PICK s \in {"stop", "replace"} : Moves(t, s, "enter")
    BY <1>8 DEF Prepare
  <2> QED
    BY <1>2, <1>8, <2>1, StageNames, StageSets DEF Prepare, GateStep
<1>9. CASE StopGoesOn(t)
  <2>1. PICK s \in {"replace", "existing"} : Moves(t, s, "enter")
    BY <1>9 DEF StopGoesOn
  <2> QED
    BY <1>2, <1>9, <2>1, StageNames, StageSets DEF StopGoesOn, GateStep, At
<1>10. CASE SpawnUnconfirmed(t)
  <2>1. /\ Moves(t, "spawn", "kill") /\ stage[t] \in {"spawn", "confirm"}
        /\ UNCHANGED <<gate, rec, child, found>>
    BY <1>10 DEF SpawnUnconfirmed, At
  <2>2. stage'[t] = "spawn" /\ step'[t] = "kill"
    BY <2>1, MovesIs, StageNames, StageSets
  <2>3. ChildIsRecorded(t)'
    BY <1>1, <2>1, <2>2 DEF ChildIsRecorded, At
  <2>4. RecIsCurrent(t)' /\ Stopped(t)'
    BY <2>2, StageSets DEF RecIsCurrent, Stopped, InSnapshot, At
  <2>5. GateStep(t)
    BY <2>1, <2>2, StageSets DEF GateStep
  <2> QED
    BY <1>1, <2>3, <2>4, <2>5 DEF OwnStep
<1> QED
  BY <1>3, <1>4, <1>5, <1>6, <1>7, <1>8, <1>9, <1>10

(* A process that a verdict dismisses has gone for good.                    *)
LEMMA DismissedIsGone ==
    ASSUME TypeOK, NEW r \in Records, Fits(r), Verdict(r) \in {"missing", "mismatch"}, r.start # 0
    PROVE  Gone(r)
<1>1. r.pid \in Pids /\ r.pid # None /\ r \notin {None, Error}
  BY RecordFields, LifecycleAssumption
<1>2. image[r.start] # "other" /\ \A p \in Pids : proc[p] = r.start => p = r.pid
  BY <1>1, LifecycleAssumption DEF Fits, FitsIn
<1>3. proc[r.pid] # r.start
  BY <1>1, <1>2, VerdictIs DEF IsGateway
<1> QED
  BY <1>2, <1>3 DEF Gone

LEMMA StopOwn ==
    ASSUME TypeOK, AllFit, NEW t \in Threads, RecIsCurrent(t), Stop(t)
    PROVE  OwnStep(t)
<1>0. stage[t] \in Stages /\ stage[t] \in StopStages
  BY StageSets DEF TypeOK, Stop, NothingToReplace, StopProbe, StopRefuses, StopFindsMissing, StopFindsMismatch,
         StopRequests, StopWaited, StopTimesOut, KillFindsMissing, KillVerifies, KillFindsListener, Kill, MayKill, At
<1>1. gate' = gate
  BY DEF Stop, NothingToReplace, StopProbe, StopRefuses, StopFindsMissing, StopFindsMismatch,
         StopRequests, StopWaited, StopTimesOut, KillFindsMissing, KillVerifies, KillFindsListener, Kill, StopKeeps
<1>2. ASSUME stage'[t] = stage[t], RecIsCurrent(t)', Stopped(t)'
      PROVE  OwnStep(t)
  BY <1>0, <1>1, <1>2, StageSets DEF OwnStep, GateStep, ChildIsRecorded, At
<1>3. CASE NothingToReplace(t)
  <2>1. stage'[t] = "existing" /\ step'[t] = "enter"
    BY <1>3, MovesIs, StageNames, StageSets DEF NothingToReplace
  <2> QED
    BY <1>0, <1>1, <2>1, KnowsNothing, StageSets DEF OwnStep, GateStep
<1>4. CASE StopRequests(t) \/ StopTimesOut(t) \/ KillVerifies(t) \/ KillFindsListener(t) \/ Kill(t)
  <2>1. PICK k \in {"wait", "kill", "aim", "fire", "killed"} : Moves(t, stage[t], k)
    BY <1>4 DEF StopRequests, StopTimesOut, KillVerifies, KillFindsListener, Kill
  <2>2. stage'[t] = stage[t] /\ step'[t] = k
    BY <1>0, <2>1, MovesIs, StageNames
  <2>3. step[t] \in {"up", "down", "wait", "kill", "aim", "fire"} /\ UNCHANGED <<record, rec>>
    BY <1>4 DEF StopRequests, StopTimesOut, KillVerifies, KillFindsListener, Kill, MayKill, At
  <2>4. RecIsCurrent(t)'
    BY <1>0, <2>2, <2>3, StageSets DEF RecIsCurrent, InSnapshot, At
  <2>5. Stopped(t)'
    BY <2>1, <2>2 DEF Stopped, At
  <2> QED
    BY <1>2, <2>2, <2>4, <2>5
<1>5. ASSUME NEW result \in {None, Error}, Finds(t, result)
      PROVE  stage'[t] = stage[t] /\ found'[t] = result /\ RecIsCurrent(t)'
  <2>1. stage'[t] = stage[t] /\ step'[t] = "done" /\ found'[t] = result
    BY <1>5, FindsIs DEF Kept
  <2> QED
    BY <1>0, <2>1, StageSets DEF RecIsCurrent, InSnapshot, At
<1>6. CASE StopProbe(t)
  <2>1. UNCHANGED <<record, proc>> /\ rec' = [rec EXCEPT ![t] = record]
    BY <1>6 DEF StopProbe, StopKeeps, osVars
  <2>2. rec'[t] = record
    BY <2>1 DEF TypeOK
  <2>3. CASE record = None
    <3>1. PICK result \in {None, Error} : Finds(t, result)
      BY <1>6, <2>3 DEF StopProbe
    <3> QED
      BY <1>2, <1>5, <2>1, <2>2, <2>3, <3>1 DEF Stopped
  <2>4. CASE record # None
    <3>1. PICK k \in {"up", "down"} : Moves(t, stage[t], k)
      BY <1>6, <2>4 DEF StopProbe
    <3>2. stage'[t] = stage[t] /\ step'[t] = k
      BY <1>0, <3>1, MovesIs, StageNames
    <3>3. RecIsCurrent(t)' /\ Stopped(t)'
      BY <1>0, <2>1, <2>2, <2>4, <3>2, StageSets DEF RecIsCurrent, Stopped, InSnapshot, At
    <3> QED
      BY <1>2, <3>2, <3>3
  <2> QED
    BY <2>3, <2>4
<1>7. CASE StopRefuses(t)
  <2>1. found'[t] = Error
    BY <1>5, <1>7 DEF StopRefuses
  <2>2. Error # None
    BY LifecycleAssumption
  <2> QED
    BY <1>2, <1>5, <1>7, <2>1, <2>2 DEF StopRefuses, Stopped
<1>8. CASE StopFindsMissing(t) \/ StopFindsMismatch(t) \/ StopWaited(t) \/ KillFindsMissing(t)
  <2>1. PICK result \in {None, Error} : Finds(t, result)
    BY <1>8 DEF StopFindsMissing, StopFindsMismatch, StopWaited, KillFindsMissing
  <2>2. record' = None /\ UNCHANGED <<rec, proc>>
    BY <1>8 DEF StopFindsMissing, StopFindsMismatch, StopWaited, KillFindsMissing, StopKeeps, osVars
  <2>3. Verdict(rec[t]) \in {"missing", "mismatch"} /\ step[t] \in {"up", "down", "wait", "kill", "aim", "fire", "killed"}
    BY <1>8 DEF StopFindsMissing, StopFindsMismatch, StopWaited, KillFindsMissing
  <2>4. rec[t] \in Records /\ Fits(rec[t])
    BY <1>0, <2>3 DEF RecIsCurrent, TypeOK, AllFit, FitsOf
  <2>5. rec[t].start # 0 => Gone(rec[t])
    BY <2>3, <2>4, DismissedIsGone
  <2>6. Stopped(t)'
    BY <2>2, <2>5 DEF Stopped, Gone
  <2> QED
    BY <1>2, <1>5, <2>1, <2>6
<1> QED
  BY <1>3, <1>4, <1>6, <1>7, <1>8 DEF Stop

LEMMA SnapshotOwn ==
    ASSUME TypeOK, AllFit, NEW t \in Threads, RecIsCurrent(t), ChildIsRecorded(t), Snapshot(t)
    PROVE  OwnStep(t)
<1>0. stage[t] \in Stages /\ stage[t] \in SnapshotStages
  BY StageSets DEF TypeOK, Snapshot, SnapshotProbe, SnapshotNotRunning, SnapshotRefuses, SnapshotAdopts,
                SnapshotDropsStale, SnapshotConfirms, InSnapshot
<1>1. UNCHANGED <<gate, proc, child>>
  BY DEF Snapshot, SnapshotProbe, SnapshotNotRunning, SnapshotRefuses, SnapshotAdopts,
                SnapshotDropsStale, SnapshotConfirms, SnapshotKeeps, osVars
<1>2. ASSUME stage'[t] = stage[t], RecIsCurrent(t)', ChildIsRecorded(t)'
      PROVE  OwnStep(t)
  <2>1. GateStep(t) /\ stage[t] \in Guarded
    BY <1>0, <1>1, <1>2, StageSets DEF GateStep
  <2>2. Stopped(t)'
    BY <1>0, <1>2, StageSets DEF Stopped, At
  <2> QED
    BY <1>2, <2>1, <2>2 DEF OwnStep
<1>3. CASE SnapshotProbe(t)
  <2>1. PICK k \in {"up", "down"} : Moves(t, stage[t], k)
    BY <1>3 DEF SnapshotProbe
  <2>2. stage'[t] = stage[t] /\ step'[t] = k
    BY <1>0, <2>1, MovesIs, StageNames
  <2>3. rec'[t] = record /\ record' = record /\ step[t] = "enter"
    BY <1>3 DEF SnapshotProbe, TypeOK
  <2>4. RecIsCurrent(t)'
    BY <1>0, <2>2, <2>3, StageSets DEF RecIsCurrent, Follows, InSnapshot, At
  <2>5. ChildIsRecorded(t)'
    BY <1>0, <1>1, <2>2, <2>3, StageSets DEF ChildIsRecorded, At
  <2> QED
    BY <1>2, <2>2, <2>4, <2>5
<1>4. ASSUME NEW result \in Kept \cup {Error}, Finds(t, result)
      PROVE  stage'[t] = stage[t] /\ step'[t] = "done" /\ found'[t] = result
  BY <1>4, FindsIs
<1>5. ASSUME stage'[t] = stage[t], step'[t] = "done", found'[t] = None => record' = None,
             stage[t] = "confirm" =>
                /\ record' \in {None, child[t]} /\ found'[t] \in {None, Error, record'}
                /\ found'[t] = None => Gone(child[t])
      PROVE  OwnStep(t)
  <2>1. RecIsCurrent(t)'
    BY <1>0, <1>5, StageSets DEF RecIsCurrent, InSnapshot, At
  <2>2. ChildIsRecorded(t)'
    BY <1>0, <1>1, <1>5, StageSets DEF ChildIsRecorded, Gone, At
  <2> QED
    BY <1>2, <1>5, <2>1, <2>2
<1>6. stage[t] = "confirm" =>
          /\ child[t] \in Records /\ child[t].start # 0 /\ ~child[t].recovery /\ Fits(child[t])
          /\ step[t] \in {"enter", "up", "down"} => record = child[t]
          /\ step[t] \in {"up", "down"} => rec[t] = child[t]
  BY StageSets DEF ChildIsRecorded, RecIsCurrent, InSnapshot, TypeOK, AllFit, FitsOf
<1>7. None # Error
  BY LifecycleAssumption
<1>8. CASE SnapshotNotRunning(t)
  <2>1. step[t] = "down" /\ Finds(t, None) /\ (record' = None \/ (rec[t] = None /\ record' = record))
    BY <1>8 DEF SnapshotNotRunning
  <2>2. rec[t] # None => Verdict(rec[t]) \in {"missing", "mismatch"} /\ record' = None
    BY <1>8 DEF SnapshotNotRunning
  <2>3. stage'[t] = stage[t] /\ step'[t] = "done" /\ found'[t] = None
    BY <1>4, <2>1 DEF Kept
  <2>4. stage[t] = "confirm" => record' = None /\ Gone(child[t])
    BY <1>6, <2>1, <2>2, DismissedIsGone, RecordFields
  <2>5. At(t, "existing", "done")' => record' = None
    BY <2>1, <2>3, StageSets DEF RecIsCurrent, InSnapshot, At
  <2>6. RecIsCurrent(t)'
    BY <1>0, <2>3, <2>5, StageSets DEF RecIsCurrent, InSnapshot, At
  <2>7. ChildIsRecorded(t)'
    BY <1>0, <1>1, <1>6, <2>3, <2>4, StageSets DEF ChildIsRecorded, Gone, At
  <2> QED
    BY <1>2, <2>3, <2>6, <2>7
<1>9. CASE SnapshotRefuses(t) \/ SnapshotDropsStale(t)
  <2>1. step[t] \in {"enter", "up", "down"} /\ Finds(t, Error) /\ record' \in {record, None}
    BY <1>9 DEF SnapshotRefuses, SnapshotDropsStale
  <2>2. stage'[t] = stage[t] /\ step'[t] = "done" /\ found'[t] = Error
    BY <1>4, <2>1
  <2> QED
    BY <1>5, <1>6, <1>7, <2>1, <2>2
<1>10. CASE SnapshotAdopts(t)
  <2>1. /\ step[t] = "up" /\ rec[t] = None /\ IsGateway(listener)
        /\ \E result \in {Claim(listener), Error} : Finds(t, result)
    BY <1>10 DEF SnapshotAdopts
  <2>2. stage[t] # "confirm"
    BY <1>6, <2>1, RecordFields
  <2>3. Claim(listener) \in Records
    BY <2>1, ClaimIs DEF IsGateway, TypeOK
  <2>4. stage'[t] = stage[t] /\ step'[t] = "done" /\ found'[t] \in {Claim(listener), Error}
    BY <1>4, <2>1, <2>3 DEF Kept
  <2> QED
    BY <1>5, <1>7, <2>2, <2>3, <2>4, RecordFields
<1>11. CASE SnapshotConfirms(t)
  <2>1. /\ step[t] = "up" /\ rec[t] # None /\ Finds(t, Identity(Activated(rec[t])))
        /\ record' = IF rec[t].recovery THEN Activated(rec[t]) ELSE record
    BY <1>11 DEF SnapshotConfirms
  <2>2. rec[t] \in Records
    BY <2>1 DEF TypeOK
  <2>3. Identity(Activated(rec[t])) \in Records
    BY <2>2, ActivatedIs, IdentityIs
  <2>4. stage'[t] = stage[t] /\ step'[t] = "done" /\ found'[t] = Identity(Activated(rec[t]))
    BY <1>4, <2>1, <2>3 DEF Kept
  <2>5. found'[t] # None
    BY <2>3, <2>4, RecordFields
  <2>6. stage[t] = "confirm" => record' = child[t] /\ found'[t] = child[t]
    <3>1. ~rec[t].recovery => Identity(Activated(rec[t])) = rec[t]
      BY <2>2, ActivatedIs, IdentityIs
    <3> QED
      BY <1>6, <2>1, <2>4, <3>1
  <2> QED
    BY <1>5, <2>4, <2>5, <2>6
<1> QED
  BY <1>3, <1>8, <1>9, <1>10, <1>11 DEF Snapshot

LEMMA SpawnOwn ==
    ASSUME TypeOK, NEW t \in Threads, RecIsCurrent(t), ChildIsRecorded(t),
           Spawn(t) \/ SpawnHealthy(t) \/ SpawnWriteFails(t)
    PROVE  OwnStep(t)
<1>1. ASSUME stage'[t] \in {"spawn", "confirm"}, step'[t] \in {"enter", "wait", "kill"},
             stage'[t] = "confirm" => step'[t] = "enter",
             stage[t] \in {"existing", "spawn"}, gate' = gate, ChildIsRecorded(t)'
      PROVE  OwnStep(t)
  <2>1. GateStep(t) /\ stage[t] \in Guarded
    BY <1>1, StageSets DEF GateStep
  <2>2. RecIsCurrent(t)' /\ Stopped(t)'
    BY <1>1, StageSets DEF RecIsCurrent, Stopped, InSnapshot, At
  <2> QED
    BY <1>1, <2>1, <2>2 DEF OwnStep
<1>2. CASE Spawn(t)
  <2>1. PICK p \in Pids, known \in BOOLEAN :
          /\ procs < MaxProcs
          /\ child' = [child EXCEPT ![t] = SpawnRecord(p, known)]
          /\ Moves(t, "spawn", IF known THEN "wait" ELSE "kill")
    BY <1>2, Zenon DEF Spawn, NewProcess
  <2>2. stage'[t] = "spawn" /\ step'[t] = (IF known THEN "wait" ELSE "kill")
    BY <2>1, MovesIs, StageNames, StageSets
  <2>3. child'[t] = SpawnRecord(p, known) /\ record' = None /\ gate' = gate /\ stage[t] = "existing"
    BY <1>2, <2>1 DEF Spawn, TypeOK, At
  <2>4. procs + 1 # 0
    BY DEF TypeOK
  <2>5. child'[t] # None /\ child'[t].recovery /\ (known => child'[t].start # 0)
    BY <2>1, <2>3, <2>4, SpawnRecordIs, RecordFields
  <2>6. ChildIsRecorded(t)'
    BY <2>2, <2>3, <2>5 DEF ChildIsRecorded, At
  <2> QED
    BY <1>1, <2>2, <2>3, <2>6
<1>3. CASE SpawnHealthy(t) \/ SpawnWriteFails(t)
  <2>1. /\ At(t, "spawn", "wait") /\ child' = [child EXCEPT ![t] = Identity(child[t])] /\ gate' = gate
        /\ \/ Moves(t, "confirm", "enter") /\ record' = Identity(child[t])
           \/ Moves(t, "spawn", "kill") /\ record' = record
    BY <1>3 DEF SpawnHealthy, SpawnWriteFails
  <2>2. child[t] \in Records /\ child[t].start # 0 /\ record = None
    BY <2>1 DEF ChildIsRecorded, TypeOK, At
  <2>3. \/ stage'[t] = "confirm" /\ step'[t] = "enter" /\ record' = Identity(child[t])
        \/ stage'[t] = "spawn" /\ step'[t] = "kill" /\ record' = record
    BY <2>1, MovesIs, StageNames, StageSets
  <2>4. child'[t] = Identity(child[t])
    BY <2>1 DEF TypeOK
  <2>5. child'[t] # None /\ ~child'[t].recovery /\ child'[t].start # 0
    BY <2>2, <2>4, IdentityIs, RecordFields
  <2>6. ChildIsRecorded(t)'
    BY <2>2, <2>3, <2>4, <2>5 DEF ChildIsRecorded, At
  <2> QED
    BY <1>1, <2>1, <2>3, <2>6 DEF At
<1> QED
  BY <1>2, <1>3

LEMMA OwnStepHolds ==
    ASSUME TypeOK, AllFit, GateIsKept, NEW t \in Threads, RecIsCurrent(t), ChildIsRecorded(t), ThreadStep(t)
    PROVE  OwnStep(t)
  BY ReturningOwn, MovingOwn, StopOwn, SnapshotOwn, SpawnOwn DEF ThreadStep, CallStep, Start, WriteFails

-----------------------------------------------------------------------------
(* The other calls                                                         *)

LEMMA GoneStays ==
    ASSUME TypeOK, OsTypes, Ages, NEW r \in Records, Fits(r), r.start # 0, Gone(r)
    PROVE  \A p \in Pids : proc'[p] # r.start
<1>1. r.start \in Nat /\ r.start <= procs /\ procs \in Nat
  BY RecordFields, LifecycleAssumption DEF Fits, FitsIn, TypeOK
<1>2. \A p \in Pids : proc'[p] \in Nat
  BY DEF OsTypes
<1> QED
  BY <1>1, <1>2 DEF Gone, Ages

(* While no start is under way a live Gateway has the durable record.       *)
LEMMA KnownByRecord ==
    ASSUME LiveIsKnown, faults = 0, \A u \in Threads : stage[u] \notin {"spawn", "confirm"}
    PROVE  \A p \in Pids : IsGateway(p) => Covers(record, p)
  BY DEF LiveIsKnown

(* Two status snapshots at a time: the one that activates the record leaves *)
(* the other with the record it read, or its activation.                    *)
LEMMA FollowsStays ==
    ASSUME TypeOK, NEW r \in Records, NEW s \in Kept, r.recovery, Verdict(Activated(r)) = "verified",
           Covers(record, r.pid), Follows(r, record), Follows(s, record)
    PROVE  Follows(s, Activated(r))
<1>0. Starts \subseteq 0..MaxProcs /\ 0 \notin Starts
  BY LifecycleAssumption DEF Starts
<1>1. \A x \in Records, n \in 0..MaxProcs :
          LET y == [x EXCEPT !.recovery = FALSE, !.start = n]
          IN  y \in Records /\ ~y.recovery /\ y.start = n /\ y.pid = x.pid
  BY DEF Records
<1> DEFINE act == Activated(r)
<1>2. /\ act \in Records /\ act.pid = r.pid
      /\ act = [r EXCEPT !.recovery = FALSE, !.start = act.start]
      /\ r.start # 0 => act.start = r.start
  BY ActivatedIs
<1>3. proc[r.pid] = act.start /\ act.start # 0
  BY <1>2, VerdictIs
<1>4. act.start \in Starts
  BY <1>2, <1>3, RecordFields, LifecycleAssumption DEF Starts
<1> HIDE DEF act
<1>5. record # None /\ record.start \in {0, act.start}
  BY <1>3 DEF Covers
<1>6. CASE record = r
  <2>1. s = r
    <3>1. r # None
      BY RecordFields
    <3>2. s # None /\ s.recovery => \A n \in Starts : r # [s EXCEPT !.recovery = FALSE, !.start = n]
      BY <1>0, <1>1 DEF Kept
    <3> QED
      BY <1>6, <3>1, <3>2 DEF Follows
  <2> QED
    BY <1>2, <1>4, <2>1, RecordFields DEF Follows, act
<1>7. CASE record # r
  <2>1. PICK n \in Starts : record = [r EXCEPT !.recovery = FALSE, !.start = n]
    BY <1>5, <1>7 DEF Follows
  <2>2. n = act.start
    BY <1>0, <1>1, <1>5, <2>1
  <2> QED
    BY <1>2, <2>1, <2>2 DEF act
<1> QED
  BY <1>6, <1>7

LEMMA GateSteps ==
    ASSUME TypeOK, GateIsKept, NEW t \in Threads, LocalSteps(t), GateStep(t)
    PROVE  GateIsKept'
<1>1. \A u \in Threads \ {t} : stage'[u] = stage[u]
  BY DEF LocalSteps, OthersStay
<1>2. /\ \A u \in Threads : stage[u] \in Holding <=> gate = u
      /\ gate # None => \A u \in Threads : stage[u] # "status"
  BY DEF GateIsKept, StatusReaders
<1>3. None \notin Threads /\ "status" \notin Holding
  BY LifecycleAssumption, StageSets
<1>4. \A u \in Threads : stage'[u] \in Holding <=> gate' = u
  BY <1>1, <1>2, <1>3, StageSets DEF GateStep, Guarded
<1>5. gate' # None => \A u \in Threads : stage'[u] # "status"
  <2>1. StatusReaders = {} => \A u \in Threads : stage[u] # "status"
    BY DEF StatusReaders
  <2> QED
    BY <1>1, <1>2, <1>3, <2>1 DEF GateStep, Guarded
<1> QED
  BY <1>4, <1>5 DEF GateIsKept, StatusReaders

LEMMA OthersKeep ==
    ASSUME TypeOK, ProcessTable, AllFit, GateIsKept, LiveIsKnown, NEW t \in Threads, RecIsCurrent(t),
           LocalSteps(t), SharedSteps(t), OwnStep(t),
           NEW u \in Threads \ {t}, RecIsCurrent(u), ChildIsRecorded(u), Stopped(u)
    PROVE  RecIsCurrent(u)' /\ ChildIsRecorded(u)' /\ Stopped(u)'
<1>1. /\ stage'[u] = stage[u] /\ step'[u] = step[u] /\ rec'[u] = rec[u]
      /\ child'[u] = child[u] /\ found'[u] = found[u]
  BY DEF LocalSteps, OthersStay
<1>2. OsTypes /\ Ages
  BY OsSteps DEF SharedSteps
<1>3. None \notin Threads
  BY LifecycleAssumption
<1>4. CASE stage[u] \in Holding
  <2>1. stage[t] \notin Guarded
    BY <1>3, <1>4 DEF GateIsKept, StatusReaders, Guarded
  <2>2. record' = record
    BY <2>1 DEF OwnStep
  <2>3. RecIsCurrent(u)'
    BY <1>1, <1>4, <2>2, StageSets DEF RecIsCurrent, InSnapshot, At
  <2>4. Stopped(u)'
    <3>1. rec[u] # None /\ rec[u].start # 0 /\ Gone(rec[u]) => \A p \in Pids : proc'[p] # rec[u].start
      BY <1>2, GoneStays DEF AllFit, FitsOf, TypeOK
    <3> QED
      BY <1>1, <2>2, <3>1 DEF Stopped, Gone, At
  <2>5. ChildIsRecorded(u)'
    <3>1. stage[u] = "confirm" /\ Gone(child[u]) => \A p \in Pids : proc'[p] # child[u].start
      BY <1>2, GoneStays DEF AllFit, FitsOf, TypeOK, ChildIsRecorded
    <3> QED
      BY <1>1, <2>2, <3>1 DEF ChildIsRecorded, Gone, At
  <2> QED
    BY <2>3, <2>4, <2>5
<1>5. CASE stage[u] = "status"
  <2>1. /\ stage[t] \notin Holding /\ gate = None
        /\ \A v \in Threads : stage[v] \notin {"spawn", "confirm"}
    BY <1>3, <1>5, StageSets DEF GateIsKept, StatusReaders, TypeOK
  <2>2. ChildIsRecorded(u)' /\ Stopped(u)'
    BY <1>1, <1>5 DEF ChildIsRecorded, Stopped, At
  <2>3. ASSUME faults' = 0, step[u] \in {"up", "down"} PROVE Follows(rec[u], record')
    <3>1. faults = 0 /\ Follows(rec[u], record)
      BY <1>5, <2>3 DEF SharedSteps, RecIsCurrent
    <3>2. \A p \in Pids : IsGateway(p) => Covers(record, p)
      BY <2>1, <3>1, KnownByRecord
    <3>3. CASE record' = record \/ record' = None
      BY <3>1, <3>3 DEF Follows
    <3>4. CASE record' # record /\ record' # None
      <4>1. stage[t] = "status"
        BY <2>1, <3>4 DEF OwnStep, Guarded
      <4>2. /\ step[t] = "up"
            /\ \/ rec[t] = None /\ listener \in Pids /\ IsGateway(listener)
               \/ /\ rec[t] # None /\ rec[t].recovery /\ Verdict(Activated(rec[t])) = "verified"
                  /\ record' = Activated(rec[t])
        BY <3>4, <4>1 DEF SharedSteps, RecordStep, At
      <4>3. Follows(rec[t], record)
        BY <3>1, <4>1, <4>2 DEF RecIsCurrent
      <4>4. CASE rec[t] = None
        <5>1. record = None
          BY <4>3, <4>4 DEF Follows
        <5> QED
          BY <3>2, <4>2, <4>4, <5>1 DEF Covers
      <4>5. CASE rec[t] # None
        <5>1. rec[t] \in Records /\ rec[u] \in Kept
          BY <4>5 DEF TypeOK, Kept
        <5>2. IsGateway(rec[t].pid) /\ rec[t].pid \in Pids
          BY <4>2, <4>5, <5>1, ActivatedIs, VerdictIs, RecordFields
        <5> QED
          BY <3>1, <3>2, <4>2, <4>3, <4>5, <5>1, <5>2, FollowsStays
      <4> QED
        BY <4>4, <4>5
    <3> QED
      BY <3>3, <3>4
  <2>4. RecIsCurrent(u)'
    BY <1>1, <1>5, <2>3, StageSets DEF RecIsCurrent, InSnapshot, At
  <2> QED
    BY <2>2, <2>4
<1>6. CASE stage[u] \notin Guarded
  BY <1>1, <1>6, StageSets DEF RecIsCurrent, ChildIsRecorded, Stopped, InSnapshot, At
<1> QED
  BY <1>4, <1>5, <1>6 DEF Guarded

-----------------------------------------------------------------------------
(* Every live Gateway is known                                             *)

Starting == {"spawn", "confirm"}

(* No process is added in a step other than the spawn.                      *)
Shrinks == \A p \in Pids : IsGateway(p)' => IsGateway(p) /\ proc'[p] = proc[p]

LEMMA ShrinkingSteps ==
    ASSUME TypeOK
    PROVE  /\ UNCHANGED osVars => Shrinks
           /\ \A q \in Pids : Dies(q) /\ UNCHANGED image => Shrinks
<1>1. UNCHANGED osVars => Shrinks
  BY DEF Shrinks, osVars, IsGateway
<1>2. ASSUME NEW q \in Pids, Dies(q), UNCHANGED image PROVE Shrinks
  <2>1. \A p \in Pids : proc'[p] = IF p = q THEN 0 ELSE proc[p]
    BY <1>2 DEF Dies, TypeOK
  <2> QED
    BY <1>2, <2>1 DEF Shrinks, IsGateway
<1> QED
  BY <1>1, <1>2

(* A thread that is starting a Gateway is the only one, and what is alive   *)
(* is its child.                                                            *)
LEMMA StarterKnows ==
    ASSUME TypeOK, GateIsKept, LiveIsKnown, faults = 0, NEW t \in Threads, ChildIsRecorded(t), stage[t] \in Starting
    PROVE  \A p \in Pids : IsGateway(p) => Covers(child[t], p)
<1>1. \A u \in Threads : stage[u] \in Starting => u = t
  BY StageSets DEF GateIsKept, Starting
<1>2. record \in {None, child[t]}
  BY DEF ChildIsRecorded, Starting
<1> QED
  BY <1>1, <1>2 DEF LiveIsKnown, Starting, Covers

(* Nobody else is starting one while a guarded call is not.                 *)
LEMMA NobodyStarts ==
    ASSUME TypeOK, GateIsKept, NEW t \in Threads, stage[t] \in Guarded \ Starting
    PROVE  \A u \in Threads : stage[u] \notin Starting
<1>1. CASE stage[t] = "status"
  BY <1>1, LifecycleAssumption, StageSets DEF GateIsKept, StatusReaders, Starting
<1>2. CASE stage[t] \in Holding
  BY <1>2, StageSets DEF GateIsKept, Starting
<1> QED
  BY <1>1, <1>2 DEF Guarded

(* A record that a snapshot drops is of no live Gateway, even if another    *)
(* snapshot has activated it meanwhile.                                     *)
LEMMA DroppedIsDead ==
    ASSUME TypeOK, NEW r \in Records, Follows(r, record), Verdict(Activated(r)) \in {"missing", "mismatch"}
    PROVE  \A p \in Pids : ~(IsGateway(p) /\ Covers(record, p))
<1>1. SUFFICES ASSUME NEW p \in Pids, IsGateway(p), Covers(record, p) PROVE FALSE
  OBVIOUS
<1> DEFINE act == Activated(r)
<1>2. /\ act \in Records /\ act.pid = r.pid /\ (~r.recovery => act = r)
      /\ act.start = IF r.recovery /\ r.start = 0 THEN proc[r.pid] ELSE r.start
  BY ActivatedIs
<1>3. record # None /\ record.pid = p /\ record.start \in {0, proc[p]}
  BY <1>1 DEF Covers
<1>4. record.pid = r.pid /\ (record = r \/ (r.recovery /\ (r.start # 0 => record.start = r.start)))
  <2>1. \A n \in 0..MaxProcs : LET y == [r EXCEPT !.recovery = FALSE, !.start = n]
                               IN  y.start = n /\ y.pid = r.pid
    BY DEF Records
  <2>2. Starts \subseteq 0..MaxProcs
    BY LifecycleAssumption DEF Starts
  <2>3. CASE record # r
    <3>1. PICK n \in Starts : /\ r.recovery /\ record = [r EXCEPT !.recovery = FALSE, !.start = n]
                              /\ r.start # 0 => n = r.start
      BY <1>3, <2>3 DEF Follows
    <3>2. record.start = n /\ record.pid = r.pid
      BY <2>1, <2>2, <3>1
    <3> QED
      BY <3>1, <3>2
  <2> QED
    BY <2>3
<1>5. act.pid = p /\ act.start \in {0, proc[p]}
  BY <1>2, <1>3, <1>4
<1>6. Covers(act, p)
  BY <1>2, <1>5, RecordFields DEF Covers
<1> QED
  BY <1>1, <1>2, <1>5, <1>6, VerdictIs

LEMMA LiveSteps ==
    ASSUME LifecycleInv, NEW t \in Threads, ThreadStep(t), LocalSteps(t), SharedSteps(t), OwnStep(t)
    PROVE  LiveIsKnown'
<1> USE DEF LifecycleInv
<1> DEFINE After(p) ==
             \/ record' # None /\ record'.pid = p /\ record'.start \in {0, proc'[p]}
             \/ \E u \in Threads : /\ stage'[u] \in Starting
                                   /\ child'[u] # None /\ child'[u].pid = p /\ child'[u].start \in {0, proc'[p]}
<1>1. SUFFICES ASSUME faults' = 0
               PROVE  \A p \in Pids : IsGateway(p)' => After(p)
  BY DEF LiveIsKnown, Covers, Starting
<1>2. /\ faults = 0 /\ rec[t] \in Kept /\ child[t] \in Kept /\ record \in Kept /\ RecIsCurrent(t) /\ ChildIsRecorded(t)
      /\ Fits(rec[t]) /\ \A u \in Threads \ {t} : stage'[u] = stage[u] /\ child'[u] = child[u]
  BY <1>1 DEF SharedSteps, LocalSteps, OthersStay, TypeOK, Kept, AllFit, FitsOf
<1>3. ~WriteFails(t)
  BY <1>1, <1>2 DEF WriteFails, SpawnWriteFails, CleanUpWriteFails
<1>4. ASSUME Shrinks, record' = record, stage[t] \notin Starting
      PROVE  \A p \in Pids : IsGateway(p)' => After(p)
  BY <1>2, <1>4 DEF LiveIsKnown, Covers, Shrinks, Starting
<1>5. ASSUME Shrinks, stage[t] \in Guarded \ Starting,
             \A p \in Pids : IsGateway(p) /\ Covers(record, p) =>
                 record' # None /\ record'.pid = p /\ record'.start \in {0, proc[p]}
      PROVE  \A p \in Pids : IsGateway(p)' => After(p)
  <2>1. \A p \in Pids : IsGateway(p) => Covers(record, p)
    BY <1>2, <1>5, NobodyStarts, KnownByRecord DEF Starting
  <2> QED
    BY <1>5, <2>1 DEF Shrinks
<1>6. ASSUME Shrinks, stage[t] \in Starting, stage'[t] \in Starting,
             child'[t] # None, child'[t].pid = child[t].pid, child'[t].start = child[t].start
      PROVE  \A p \in Pids : IsGateway(p)' => After(p)
  <2>1. \A p \in Pids : IsGateway(p) => Covers(child[t], p)
    BY <1>2, <1>6, StarterKnows
  <2> QED
    BY <1>6, <2>1 DEF Shrinks, Covers
<1>7. ASSUME Shrinks, stage[t] \in Starting,
             \A p \in Pids : IsGateway(p)' /\ Covers(child[t], p) => record' = child[t]
      PROVE  \A p \in Pids : IsGateway(p)' => After(p)
  <2>1. \A p \in Pids : IsGateway(p) => Covers(child[t], p)
    BY <1>2, <1>7, StarterKnows
  <2> QED
    BY <1>7, <2>1 DEF Shrinks, Covers
<1> HIDE DEF After
<1>8. CASE \/ GateFails(t) \/ InspectHeld(t) \/ StatusEnds(t) \/ PlanEnds(t) \/ PrepareFails(t)
           \/ StopEnds(t) \/ ExistingEnds(t)
  <2>1. UNCHANGED <<osVars, record>> /\ stage[t] \notin Starting
    BY <1>8 DEF GateFails, InspectHeld, StatusEnds, PlanEnds, PrepareFails, StopEnds, ExistingEnds, At, Starting
  <2> QED
    BY <1>4, <2>1, ShrinkingSteps
<1>9. CASE \/ CallBegins(t) \/ ThenStop(t) \/ Acquire(t) \/ InspectFree(t) \/ PlanGoesOn(t) \/ Prepare(t)
           \/ StopGoesOn(t)
  <2>1. UNCHANGED <<osVars, record>> /\ stage[t] \notin Starting
    BY <1>9 DEF CallBegins, Call, ThenStop, Acquire, InspectFree, PlanGoesOn, Prepare, StopGoesOn, At, Starting
  <2> QED
    BY <1>4, <2>1, ShrinkingSteps
<1>10. CASE Stop(t)
  <2>1. stage[t] \in {"stop", "replace"}
    BY <1>10, StageSets DEF Stop, NothingToReplace, StopProbe, StopRefuses, StopFindsMissing, StopFindsMismatch,
         StopRequests, StopWaited, StopTimesOut, KillFindsMissing, KillVerifies, KillFindsListener, Kill, MayKill, At
  <2>2. CASE \/ NothingToReplace(t) \/ StopProbe(t) \/ StopRefuses(t) \/ StopRequests(t) \/ StopTimesOut(t)
             \/ KillVerifies(t) \/ KillFindsListener(t)
    <3>1. UNCHANGED <<osVars, record>>
      BY <2>2 DEF NothingToReplace, StopProbe, StopRefuses, StopRequests, StopTimesOut, KillVerifies,
                  KillFindsListener, StopKeeps
    <3> QED
      BY <1>4, <2>1, <3>1, ShrinkingSteps DEF Starting
  <2>3. CASE Kill(t)
    <3>1. rec[t].pid \in Pids
      BY <1>2, <2>1, <2>3, RecordFields, StageSets DEF Kill, RecIsCurrent, Kept
    <3>2. Shrinks
      BY <2>3, <3>1, ShrinkingSteps DEF Kill, osVars
    <3> QED
      BY <1>4, <2>1, <2>3, <3>2 DEF Kill, Starting
  <2>4. CASE StopFindsMissing(t) \/ StopFindsMismatch(t) \/ StopWaited(t) \/ KillFindsMissing(t)
    <3>1. /\ Verdict(rec[t]) \in {"missing", "mismatch"} /\ UNCHANGED osVars
          /\ step[t] \in {"up", "down", "wait", "kill", "aim", "fire", "killed"}
      BY <2>4 DEF StopFindsMissing, StopFindsMismatch, StopWaited, KillFindsMissing, StopKeeps
    <3>2. record = rec[t] /\ record \in Records
      BY <1>2, <2>1, <3>1, StageSets DEF RecIsCurrent, Kept
    <3>3. \A p \in Pids : ~(IsGateway(p) /\ Covers(record, p))
      BY <3>1, <3>2, VerdictIs DEF Covers
    <3> QED
      BY <1>5, <2>1, <3>1, <3>3, ShrinkingSteps, StageSets DEF Starting
  <2> QED
    BY <1>10, <2>2, <2>3, <2>4 DEF Stop
<1>11. CASE Snapshot(t)
  <2>1. stage[t] \in SnapshotStages /\ UNCHANGED <<osVars, child>>
    BY <1>11 DEF Snapshot, SnapshotProbe, SnapshotNotRunning, SnapshotRefuses, SnapshotAdopts,
                SnapshotDropsStale, SnapshotConfirms, SnapshotKeeps, InSnapshot
  <2>2. Shrinks
    BY <2>1, ShrinkingSteps
  <2>3. CASE stage[t] = "confirm"
    <3>1. stage'[t] = stage[t]
      BY <1>11, <2>1, MovesIs, StageNames DEF Snapshot, SnapshotProbe, SnapshotNotRunning, SnapshotRefuses,
                SnapshotAdopts, SnapshotDropsStale, SnapshotConfirms, Finds, Moves, TypeOK
    <3> QED
      BY <1>2, <1>6, <2>1, <2>2, <2>3, <3>1 DEF Starting, ChildIsRecorded
  <2>4. CASE stage[t] # "confirm"
    <3>1. stage[t] \in Guarded \ Starting
      BY <2>1, <2>4, StageSets DEF Starting
    <3>2. ASSUME record' = record PROVE \A p \in Pids : IsGateway(p)' => After(p)
      BY <1>4, <2>2, <3>1, <3>2
    <3>3. step[t] \in {"up", "down"} => Follows(rec[t], record)
      BY <1>2, <2>1, StageSets DEF RecIsCurrent, InSnapshot, Follows
    <3>4. ASSUME rec[t] \in Records, Verdict(Activated(rec[t])) \in {"missing", "mismatch"}, step[t] \in {"up", "down"}
          PROVE  \A p \in Pids : ~(IsGateway(p) /\ Covers(record, p))
      BY <3>3, <3>4, DroppedIsDead
    <3>5. CASE SnapshotProbe(t) \/ SnapshotRefuses(t)
      BY <3>2, <3>5 DEF SnapshotProbe, SnapshotRefuses
    <3>6. CASE SnapshotNotRunning(t)
      <4>1. rec[t] = None => record' = record
        BY <3>6 DEF SnapshotNotRunning
      <4>2. rec[t] # None => /\ rec[t] \in Records /\ step[t] = "down"
                             /\ Verdict(rec[t]) \in {"missing", "mismatch"}
        BY <1>2, <3>6 DEF SnapshotNotRunning, Kept
      <4>3. rec[t] # None => Activated(rec[t]) = rec[t]
        BY <4>2, VerdictIs, ActivatedIs
      <4> QED
        BY <1>5, <2>2, <3>1, <3>2, <3>4, <4>1, <4>2, <4>3
    <3>7. CASE SnapshotDropsStale(t)
      <4>1. /\ rec[t] \in Records /\ step[t] = "up" /\ Verdict(Activated(rec[t])) \in {"missing", "mismatch"}
        BY <1>2, <3>7 DEF SnapshotDropsStale, Kept
      <4> QED
        BY <1>5, <2>2, <3>1, <3>4, <4>1
    <3>8. CASE SnapshotAdopts(t)
      <4>1. step[t] = "up" /\ rec[t] = None /\ IsGateway(listener) /\ listener \in Pids
        BY <3>8 DEF SnapshotAdopts, IsGateway, TypeOK
      <4>2. record = None
        BY <3>3, <4>1 DEF Follows
      <4>3. Covers(record, listener)
        BY <1>2, <3>1, <4>1, NobodyStarts, KnownByRecord DEF Starting
      <4> QED
        BY <4>2, <4>3 DEF Covers
    <3>9. CASE SnapshotConfirms(t)
      <4>1. /\ rec[t] \in Records /\ step[t] = "up" /\ Verdict(Activated(rec[t])) = "verified"
            /\ record' = IF rec[t].recovery THEN Activated(rec[t]) ELSE record
        BY <1>2, <3>9 DEF SnapshotConfirms, Kept
      <4>2. CASE ~rec[t].recovery
        BY <3>2, <4>1, <4>2
      <4>3. CASE rec[t].recovery
        <5>1. /\ record' \in Records /\ record'.pid = rec[t].pid /\ record'.start = proc[rec[t].pid]
          BY <4>1, <4>3, ActivatedIs, VerdictIs
        <5>2. \A p \in Pids : Covers(record, p) => rec[t].pid = p
          <6>1. \A n \in 0..MaxProcs : [rec[t] EXCEPT !.recovery = FALSE, !.start = n].pid = rec[t].pid
            BY <4>1 DEF Records
          <6>2. Starts \subseteq 0..MaxProcs
            BY LifecycleAssumption DEF Starts
          <6> QED
            BY <3>3, <4>1, <6>1, <6>2 DEF Follows, Covers
        <5> QED
          BY <1>5, <2>2, <3>1, <5>1, <5>2, RecordFields
      <4> QED
        BY <4>2, <4>3
    <3> QED
      BY <1>11, <3>5, <3>6, <3>7, <3>8, <3>9 DEF Snapshot
  <2> QED
    BY <2>3, <2>4
<1>12. CASE Spawn(t)
  <2>1. record = None /\ stage[t] = "existing"
    BY <1>2, <1>12 DEF Spawn, RecIsCurrent, At
  <2>2. \A p \in Pids : ~IsGateway(p)
    BY <1>2, <2>1, NobodyStarts, KnownByRecord, StageSets DEF Covers, Starting
  <2>3. PICK q \in Pids, known \in BOOLEAN :
          /\ NewProcess(q, installed, AppOf[t]) /\ child' = [child EXCEPT ![t] = SpawnRecord(q, known)]
          /\ Moves(t, "spawn", IF known THEN "wait" ELSE "kill")
    BY <1>12, Zenon DEF Spawn
  <2>4. stage'[t] = "spawn" /\ child'[t] = SpawnRecord(q, known)
    BY <2>3, MovesIs, StageNames, StageSets DEF TypeOK
  <2>5. child'[t] # None /\ child'[t].pid = q /\ child'[t].start = IF known THEN procs + 1 ELSE 0
    BY <2>3, <2>4, SpawnRecordIs, RecordFields DEF NewProcess
  <2>6. Ages /\ proc'[q] = procs + 1 /\ \A p \in Pids \ {q} : proc'[p] = proc[p]
    BY <2>3, NewProcessIs, LifecycleAssumption DEF TypeOK
  <2>7. After(q)
    BY <2>4, <2>5, <2>6 DEF After, Starting
  <2>8. \A p \in Pids \ {q} : ~IsGateway(p)'
    <3>1. \A p \in Pids : proc[p] # 0 => proc[p] \in Starts /\ proc[p] <= procs
      BY LifecycleAssumption DEF TypeOK, Starts, ProcessTable
    <3> QED
      BY <2>2, <2>6, <3>1 DEF Ages, IsGateway
  <2> QED
    BY <2>7, <2>8
<1>13. CASE SpawnFails(t)
  <2>1. record = None /\ record' = record /\ stage[t] = "existing" /\ UNCHANGED osVars
    BY <1>2, <1>13 DEF SpawnFails, RecIsCurrent, At
  <2> QED
    BY <1>4, <2>1, ShrinkingSteps DEF Starting
<1>14. CASE SpawnHealthy(t)
  <2>1. /\ At(t, "spawn", "wait") /\ UNCHANGED osVars /\ child' = [child EXCEPT ![t] = Identity(child[t])]
        /\ Moves(t, "confirm", "enter")
    BY <1>14 DEF SpawnHealthy
  <2>2. stage'[t] = "confirm"
    BY <2>1, MovesIs, StageNames, StageSets
  <2>3. child'[t] = Identity(child[t]) /\ child[t] \in Records
    BY <1>2, <2>1 DEF TypeOK, ChildIsRecorded, At
  <2> QED
    BY <1>6, <2>1, <2>2, <2>3, IdentityIs, RecordFields, ShrinkingSteps DEF Starting, At
<1>15. CASE SpawnUnconfirmed(t)
  <2>1. UNCHANGED <<osVars, child>> /\ Moves(t, "spawn", "kill") /\ stage[t] \in Starting
    BY <1>15 DEF SpawnUnconfirmed, At, Starting
  <2>2. stage'[t] = "spawn" /\ child[t] # None
    BY <1>2, <2>1, MovesIs, StageNames, StageSets DEF ChildIsRecorded, Starting
  <2> QED
    BY <1>6, <2>1, <2>2, ShrinkingSteps DEF Starting
<1>16. CASE SpawnExited(t)
  <2>1. stage[t] = "spawn" /\ proc[child[t].pid] = 0 /\ UNCHANGED osVars
    BY <1>16 DEF SpawnExited, At
  <2> QED
    BY <1>7, <2>1, ShrinkingSteps DEF Starting, Covers, IsGateway, osVars
<1>17. CASE ConfirmEnds(t)
  <2>1. At(t, "confirm", "done") /\ found[t] # Error /\ UNCHANGED <<osVars, record>>
    BY <1>17 DEF ConfirmEnds
  <2>2. record = child[t] \/ (Gone(child[t]) /\ child[t].start # 0)
    BY <1>2, <2>1 DEF ChildIsRecorded, At
  <2>3. \A p \in Pids : Covers(child[t], p) => record' = child[t]
    BY <2>1, <2>2 DEF Covers, Gone
  <2> QED
    BY <1>7, <2>1, <2>3, ShrinkingSteps DEF Starting, At
<1>18. CASE CleanUpConfirmed(t)
  <2>1. stage[t] = "spawn" /\ Dies(child[t].pid) /\ UNCHANGED image
    BY <1>18 DEF CleanUpConfirmed, At
  <2>2. child[t].pid \in Pids
    BY <1>2, <2>1, RecordFields DEF ChildIsRecorded, Kept
  <2>3. Shrinks /\ proc'[child[t].pid] = 0
    BY <2>1, <2>2, ShrinkingSteps DEF Dies, TypeOK
  <2> QED
    BY <1>7, <2>1, <2>3 DEF Starting, Covers, IsGateway
<1>19. CASE CleanUpUnconfirmed(t)
  <2>1. stage[t] = "spawn" /\ UNCHANGED osVars
    BY <1>19 DEF CleanUpUnconfirmed, At
  <2>2. child[t] \in Records
    BY <1>2, <2>1 DEF ChildIsRecorded, Kept
  <2>3. Verdict(child[t]) \in {"missing", "mismatch", "verified", "unknown"}
    BY DEF Verdict
  <2>4. record' = child[t] \/ Verdict(child[t]) \in {"missing", "mismatch"}
    BY <1>19, <2>3 DEF CleanUpUnconfirmed
  <2>5. \A p \in Pids : IsGateway(p)' /\ Covers(child[t], p) => record' = child[t]
    <3>1. Shrinks
      BY <2>1, ShrinkingSteps
    <3> QED
      BY <2>2, <2>4, <3>1, VerdictIs DEF Covers, Shrinks
  <2> QED
    BY <1>7, <2>1, <2>5, ShrinkingSteps DEF Starting
<1> QED
  BY <1>3, <1>8, <1>9, <1>10, <1>11, <1>12, <1>13, <1>14, <1>15, <1>16, <1>17, <1>18, <1>19
     DEF ThreadStep, CallStep, Start

-----------------------------------------------------------------------------
(* Steps of the machine                                                    *)

LEMMA MachineKeeps ==
    ASSUME LifecycleInv, OsTypes, ProcessTable', Ages, SpawnersStay, Shrinks, installed' \in Bundles,
           UNCHANGED <<record, gate, owned, callVars, bounds>>
    PROVE  LifecycleInv'
<1> USE DEF LifecycleInv
<1>0. UNCHANGED <<record, gate, owned, op, stage, step, token, rec, child, found, calls, faults, checked>>
  BY DEF callVars, bounds
<1>1. TypeOK'
  BY <1>0 DEF TypeOK, OsTypes
<1>2. AllFit'
  <2>1. \A r \in Records \cup {None, Error} : Fits(r) => FitsIn(r, proc', image', procs')
    BY FitsStays DEF Fits
  <2>2. FitsIn(record, proc', image', procs') /\ \A a \in Apps : FitsIn(owned[a], proc', image', procs')
    BY <2>1 DEF AllFit, TypeOK
  <2>3. \A t \in Threads : /\ FitsIn(token[t], proc', image', procs') /\ FitsIn(rec[t], proc', image', procs')
                           /\ FitsIn(child[t], proc', image', procs') /\ FitsIn(found[t], proc', image', procs')
    BY <2>1 DEF AllFit, FitsOf, TypeOK
  <2> QED
    BY <1>0, <2>2, <2>3 DEF AllFit, FitsOf, Fits
<1>3. OwnSpawned'
  <2>1. \A a \in Apps, r \in Kept : Fits(r) /\ SpawnedBy(a, r) => SpawnedIn(a, r, spawner')
    BY SpawnedStays
  <2>2. \A a \in Apps : SpawnedIn(a, owned[a], spawner')
    BY <2>1 DEF AllFit, TypeOK, OwnSpawned, Kept
  <2>3. \A t \in Threads : SpawnedIn(AppOf[t], token[t], spawner') /\ SpawnedIn(AppOf[t], child[t], spawner')
    BY <2>1, LifecycleAssumption DEF AllFit, FitsOf, TypeOK, OwnSpawned, Kept
  <2> QED
    BY <1>0, <2>2, <2>3 DEF OwnSpawned, SpawnedBy
<1>4. GateIsKept'
  BY <1>0 DEF GateIsKept, StatusReaders
<1>5. ASSUME NEW t \in Threads PROVE RecIsCurrent(t)' /\ ChildIsRecorded(t)' /\ Stopped(t)'
  <2>1. RecIsCurrent(t)'
    BY <1>0 DEF RecIsCurrent, InSnapshot, At
  <2>2. Stopped(t)'
    <3>1. rec[t] # None /\ rec[t].start # 0 /\ Gone(rec[t]) => \A p \in Pids : proc'[p] # rec[t].start
      BY GoneStays DEF AllFit, FitsOf, TypeOK
    <3> QED
      BY <1>0, <3>1, StoppedForAll DEF Stopped, Gone, At
  <2>3. ChildIsRecorded(t)'
    <3>1. stage[t] = "confirm" /\ Gone(child[t]) => \A p \in Pids : proc'[p] # child[t].start
      BY GoneStays DEF AllFit, FitsOf, TypeOK, ChildIsRecorded
    <3> QED
      BY <1>0, <3>1 DEF ChildIsRecorded, Gone, At
  <2> QED
    BY <2>1, <2>2, <2>3
<1>6. LiveIsKnown'
  BY <1>0 DEF LiveIsKnown, Shrinks, Covers
<1>7. StoppedMeansGone'
  BY <1>5 DEF StoppedMeansGone, Stopped, Gone, At
<1> QED
  BY <1>1, <1>2, <1>3, <1>4, <1>5, <1>6, <1>7

LEMMA MachineSteps ==
    ASSUME LifecycleInv,
           \/ \E p \in Pids : ProcessExits(p) \/ ProcessStarts(p) \/ Binds(p)
           \/ \E b \in Bundles : Upgrade(b)
           \/ UNCHANGED vars
    PROVE  LifecycleInv'
<1> USE DEF LifecycleInv
<1>1. installed \in Bundles
  BY DEF TypeOK
<1>2. ASSUME NEW p \in Pids, ProcessExits(p) PROVE LifecycleInv'
  <2>1. /\ Dies(p) /\ UNCHANGED <<image, spawner, procs>>
        /\ UNCHANGED <<record, gate, owned, callVars, bounds>> /\ UNCHANGED installed
    BY <1>2 DEF ProcessExits
  <2>2. OsTypes /\ ProcessTable' /\ Ages /\ SpawnersStay /\ Shrinks
    BY <2>1, DiesIs, ShrinkingSteps
  <2> QED
    BY <1>1, <2>1, <2>2, MachineKeeps
<1>3. ASSUME NEW p \in Pids, ProcessStarts(p) PROVE LifecycleInv'
  <2>1. /\ NewProcess(p, "other", None)
        /\ UNCHANGED <<record, gate, owned, callVars, bounds>> /\ UNCHANGED installed
    BY <1>3 DEF ProcessStarts
  <2>2. /\ OsTypes /\ ProcessTable' /\ Ages /\ SpawnersStay
        /\ proc'[p] = procs + 1 /\ image'[procs + 1] = "other" /\ \A q \in Pids \ {p} : proc'[q] = proc[q]
    BY <2>1, NewProcessIs
  <2>3. \A q \in Pids : proc[q] # 0 => proc[q] \in Starts /\ proc[q] <= procs
    BY LifecycleAssumption DEF TypeOK, Starts, ProcessTable
  <2>4. Shrinks
    BY <2>2, <2>3 DEF Shrinks, IsGateway, Ages
  <2> QED
    BY <1>1, <2>1, <2>2, <2>4, MachineKeeps
<1>4. ASSUME NEW p \in Pids, Binds(p) PROVE LifecycleInv'
  <2>1. /\ proc[p] # 0 /\ listener' = p /\ UNCHANGED <<proc, image, spawner, procs>>
        /\ UNCHANGED <<record, gate, owned, callVars, bounds>> /\ UNCHANGED installed
    BY <1>4 DEF Binds
  <2>2. procs \in Nat
    BY DEF TypeOK
  <2>3. OsTypes /\ Ages /\ SpawnersStay /\ Shrinks
    BY <2>1, <2>2 DEF OsTypes, TypeOK, Ages, SpawnersStay, Shrinks, IsGateway
  <2>4. ProcessTable'
    BY <2>1 DEF ProcessTable
  <2> QED
    BY <1>1, <2>1, <2>3, <2>4, MachineKeeps
<1>5. ASSUME NEW b \in Bundles, Upgrade(b) PROVE LifecycleInv'
  <2>1. UNCHANGED osVars /\ UNCHANGED <<record, gate, owned, callVars, bounds>> /\ installed' \in Bundles
    BY <1>5 DEF Upgrade
  <2> QED
    BY <2>1, SameMachine, ShrinkingSteps, MachineKeeps
<1>6. CASE UNCHANGED vars
  <2>1. UNCHANGED osVars /\ UNCHANGED <<record, gate, owned, callVars, bounds>> /\ installed' = installed
    BY <1>6 DEF vars
  <2> QED
    BY <1>1, <2>1, SameMachine, ShrinkingSteps, MachineKeeps
<1> QED
  BY <1>2, <1>3, <1>4, <1>5, <1>6

LEMMA CrashSteps ==
    ASSUME LifecycleInv, NEW a \in Apps, AppCrash(a)
    PROVE  LifecycleInv'
<1> USE DEF LifecycleInv
<1> DEFINE mine == {t \in Threads : AppOf[t] = a}
<1>1. /\ \A t \in Threads : AppOf[t] \in Apps
      /\ None \notin Threads /\ MaxFaults \in Nat /\ faults \in Nat /\ procs \in Nat
      /\ "none" \in Ops /\ "idle" \in Stages /\ "enter" \in Steps
  BY LifecycleAssumption, StageNames DEF TypeOK, Ops
<1>2. /\ faults' = faults + 1 /\ faults < MaxFaults
      /\ UNCHANGED <<proc, image, procs, listener, installed, record, calls, checked>>
  BY DEF AppCrash
<1>3. /\ op' = [t \in Threads |-> IF t \in mine THEN "none" ELSE op[t]]
      /\ stage' = [t \in Threads |-> IF t \in mine THEN "idle" ELSE stage[t]]
      /\ step' = [t \in Threads |-> IF t \in mine THEN "enter" ELSE step[t]]
      /\ token' = [t \in Threads |-> IF t \in mine THEN None ELSE token[t]]
      /\ rec' = [t \in Threads |-> IF t \in mine THEN None ELSE rec[t]]
      /\ child' = [t \in Threads |-> IF t \in mine THEN None ELSE child[t]]
      /\ found' = [t \in Threads |-> IF t \in mine THEN None ELSE found[t]]
      /\ gate' = IF gate \in mine THEN None ELSE gate
  BY DEF AppCrash
<1>4. owned' = [owned EXCEPT ![a] = None]
  BY DEF AppCrash, SessionOwns
<1>5. spawner' = [n \in Starts |-> IF spawner[n] = a THEN None ELSE spawner[n]]
  BY DEF AppCrash
<1>6. faults' \in 0..MaxFaults /\ faults' # 0
  BY <1>1, <1>2
<1>7. TypeOK'
  <2>1. /\ op' \in [Threads -> Ops] /\ stage' \in [Threads -> Stages] /\ step' \in [Threads -> Steps]
        /\ token' \in [Threads -> Kept] /\ rec' \in [Threads -> Kept] /\ child' \in [Threads -> Kept]
        /\ found' \in [Threads -> Kept \cup {Error}] /\ gate' \in Threads \cup {None}
    BY <1>1, <1>3 DEF TypeOK, Kept
  <2>2. owned' \in [Apps -> Kept] /\ spawner' \in [Starts -> Apps \cup {None}]
    BY <1>4, <1>5 DEF TypeOK, Kept
  <2> QED
    BY <1>2, <1>6, <2>1, <2>2 DEF TypeOK, Kept
<1>8. ProcessTable'
  BY <1>2 DEF ProcessTable
<1>9. AllFit'
  <2>1. FitsIn(None, proc, image, procs)
    BY DEF FitsIn
  <2>2. \A b \in Apps : owned'[b] \in {owned[b], None}
    BY <1>4 DEF TypeOK
  <2>3. \A t \in Threads : /\ token'[t] \in {token[t], None} /\ rec'[t] \in {rec[t], None}
                           /\ child'[t] \in {child[t], None} /\ found'[t] \in {found[t], None}
    BY <1>3
  <2> QED
    BY <1>2, <2>1, <2>2, <2>3 DEF AllFit, FitsOf, Fits
<1>10. OwnSpawned'
  <2>1. \A r \in Kept, b \in Apps \ {a} : SpawnedBy(b, r) => SpawnedIn(b, r, spawner')
    <3>1. \A r \in Kept : r # None /\ r.start # 0 => r.start \in Starts
      BY RecordFields, LifecycleAssumption DEF Kept, Starts
    <3> QED
      BY <1>5, <3>1 DEF SpawnedBy, SpawnedIn
  <2>2. \A b \in Apps : SpawnedIn(b, None, spawner')
    BY DEF SpawnedIn
  <2>3. \A b \in Apps : IF b = a THEN owned'[b] = None ELSE owned'[b] = owned[b]
    BY <1>4 DEF TypeOK
  <2>4. \A b \in Apps : SpawnedIn(b, owned'[b], spawner')
    BY <2>1, <2>2, <2>3 DEF OwnSpawned, TypeOK, Kept
  <2>5. \A t \in Threads : SpawnedIn(AppOf[t], token'[t], spawner') /\ SpawnedIn(AppOf[t], child'[t], spawner')
    BY <1>1, <1>3, <2>1, <2>2 DEF OwnSpawned, TypeOK, Kept
  <2> QED
    BY <2>4, <2>5 DEF OwnSpawned, SpawnedBy
<1>11. GateIsKept'
  <2>1. /\ \A t \in Threads : stage[t] \in Holding <=> gate = t
        /\ gate # None => \A t \in Threads : stage[t] # "status"
    BY DEF GateIsKept, StatusReaders
  <2>2. \A t \in Threads : stage'[t] \in Holding <=> gate' = t
    BY <1>1, <1>3, <2>1, StageSets
  <2>3. gate' # None => \A t \in Threads : stage'[t] # "status"
    BY <1>1, <1>3, <2>1
  <2> QED
    BY <2>2, <2>3 DEF GateIsKept, StatusReaders
<1>12. ASSUME NEW t \in Threads PROVE RecIsCurrent(t)' /\ ChildIsRecorded(t)' /\ Stopped(t)'
  <2>1. CASE t \in mine
    BY <1>3, <2>1, KnowsNothing, StageSets
  <2>2. CASE t \notin mine
    <3>1. /\ stage'[t] = stage[t] /\ step'[t] = step[t] /\ rec'[t] = rec[t] /\ child'[t] = child[t]
          /\ found'[t] = found[t] /\ record' = record /\ proc' = proc
      BY <1>2, <1>3, <2>2
    <3> QED
      BY <1>6, <3>1, StoppedForAll DEF RecIsCurrent, ChildIsRecorded, Stopped, Gone, InSnapshot, At
  <2> QED
    BY <2>1, <2>2
<1>13. LiveIsKnown'
  BY <1>6 DEF LiveIsKnown
<1>14. StoppedMeansGone'
  BY <1>12 DEF StoppedMeansGone, Stopped, Gone, At
<1> QED
  BY <1>7, <1>8, <1>9, <1>10, <1>11, <1>12, <1>13, <1>14

-----------------------------------------------------------------------------
(* The invariant                                                           *)

LEMMA InitHolds ==
    ASSUME Init
    PROVE  LifecycleInv
<1>1. /\ 0 \in 0..MaxProcs /\ 0 \in 0..MaxCalls /\ 0 \in 0..MaxFaults /\ None \notin Threads
      /\ "none" \in Ops /\ "idle" \in Stages /\ "enter" \in Steps
  BY LifecycleAssumption, StageNames DEF Ops
<1>2. TypeOK
  BY <1>1 DEF Init, TypeOK
<1>3. ProcessTable
  BY LifecycleAssumption DEF Init, ProcessTable, Starts
<1>4. AllFit
  BY DEF Init, AllFit, FitsOf, Fits, FitsIn, IsLegacy
<1>5. OwnSpawned
  BY DEF Init, OwnSpawned, SpawnedBy, SpawnedIn
<1>6. GateIsKept
  BY <1>1, StageSets DEF Init, GateIsKept
<1>7. \A t \in Threads : RecIsCurrent(t) /\ ChildIsRecorded(t)
  BY StageSets DEF Init, RecIsCurrent, ChildIsRecorded, InSnapshot, At
<1>8. LiveIsKnown /\ StoppedMeansGone
  BY DEF Init, LiveIsKnown, IsGateway, StoppedMeansGone, At
<1> QED
  BY <1>2, <1>3, <1>4, <1>5, <1>6, <1>7, <1>8 DEF LifecycleInv

LEMMA ThreadSteps ==
    ASSUME LifecycleInv, NEW t \in Threads, ThreadStep(t)
    PROVE  LifecycleInv'
<1> USE DEF LifecycleInv
<1>1. LocalSteps(t) /\ SharedSteps(t)
  BY Effects
<1>2. OwnStep(t)
  BY OwnStepHolds
<1>3. TypeOK'
  BY <1>1, TypesStep
<1>4. ProcessTable'
  BY <1>1, OsSteps DEF SharedSteps
<1>5. AllFit' /\ OwnSpawned'
  BY <1>1, FitSteps, OwnSteps
<1>6. GateIsKept'
  BY <1>1, <1>2, GateSteps DEF OwnStep
<1>7. \A u \in Threads : RecIsCurrent(u)' /\ ChildIsRecorded(u)' /\ Stopped(u)'
  <2>1. \A u \in Threads \ {t} : RecIsCurrent(u)' /\ ChildIsRecorded(u)' /\ Stopped(u)'
    BY <1>1, <1>2, OthersKeep, StoppedForAll
  <2> QED
    BY <1>2, <2>1 DEF OwnStep
<1>8. LiveIsKnown'
  BY <1>1, <1>2, LiveSteps
<1>9. StoppedMeansGone'
  BY <1>7 DEF StoppedMeansGone, Stopped, Gone, At
<1> QED
  BY <1>3, <1>4, <1>5, <1>6, <1>7, <1>8, <1>9

LEMMA NextCases ==
    ASSUME Next
    PROVE  \/ \E t \in Threads : ThreadStep(t)
           \/ \E p \in Pids : ProcessExits(p) \/ ProcessStarts(p) \/ Binds(p)
           \/ \E b \in Bundles : Upgrade(b)
           \/ \E a \in Apps : AppCrash(a)
  BY Zenon DEF Next, Machine, ThreadStep, CallBegins

(* Every step of every call, of the machine and of a dying app keeps what   *)
(* the calls know of the record, the processes and the gate.                *)
THEOREM LifecycleSafety == Spec => []LifecycleInv
<1>1. Init => LifecycleInv
  BY InitHolds
<1>2. LifecycleInv /\ [Next]_vars => LifecycleInv'
  BY NextCases, ThreadSteps, MachineSteps, CrashSteps
<1> QED
  BY <1>1, <1>2, PTL DEF Spec

(* Whatever dies, restarts or reuses a PID: the durable record and the      *)
(* session identities name processes that were Gateways.                    *)
THEOREM IdentitiesAreGateways == Spec => []IdentitiesNameGateways
<1>1. LifecycleInv => IdentitiesNameGateways
  <2>1. SUFFICES ASSUME LifecycleInv PROVE IdentitiesNameGateways
    OBVIOUS
  <2>2. \A r \in Kept : Fits(r) => Names(r)
    BY RecordFields DEF Fits, FitsIn, Names, Kept
  <2> QED
    BY <2>1, <2>2 DEF LifecycleInv, AllFit, TypeOK, IdentitiesNameGateways, Kept
<1> QED
  BY <1>1, LifecycleSafety, PTL

(* A stop that ends well has stopped the process it found, and no other     *)
(* process ever gets its identity.                                          *)
THEOREM StopIsFinal == Spec => []StoppedMeansGone
<1>1. LifecycleInv => StoppedMeansGone
  BY DEF LifecycleInv
<1> QED
  BY <1>1, LifecycleSafety, PTL

(* Starts, restarts and failed starts of all apps together leave at most    *)
(* one Gateway alive, as long as no app died and every record could be      *)
(* written.                                                                 *)
THEOREM AtMostOneGateway == Spec => []SingleGateway
<1>1. LifecycleInv => SingleGateway
  <2>1. SUFFICES ASSUME LifecycleInv, faults = 0 PROVE Cardinality(LiveGateways) <= 1
    BY DEF SingleGateway
  <2>2. \E q : LiveGateways \subseteq {q}
    <3>1. CASE \E t \in Threads : stage[t] \in Starting
      <4>1. PICK t \in Threads : stage[t] \in Starting
        BY <3>1
      <4>2. \A p \in Pids : IsGateway(p) => Covers(child[t], p)
        BY <2>1, <4>1, StarterKnows DEF LifecycleInv
      <4> QED
        BY <4>2 DEF LiveGateways, Covers
    <3>2. CASE \A t \in Threads : stage[t] \notin Starting
      BY <2>1, <3>2, KnownByRecord DEF LiveGateways, Covers, LifecycleInv, Starting
    <3> QED
      BY <3>1, <3>2
  <2>3. PICK q : LiveGateways \subseteq {q}
    BY <2>2
  <2>4. IsFiniteSet({q}) /\ Cardinality({q}) = 1
    BY FS_Singleton
  <2>5. Cardinality(LiveGateways) <= Cardinality({q})
    BY <2>3, <2>4, FS_Subset
  <2> QED
    BY <2>4, <2>5
<1> QED
  BY <1>1, LifecycleSafety, PTL

-----------------------------------------------------------------------------
(* What a step may never do                                                *)

LEMMA OnlyKillKills ==
    ASSUME TypeOK, NEW t \in Threads, ThreadStep(t), Kills(t)
    PROVE  Kill(t)
<1>1. step[t] # "killed" /\ step'[t] = "killed"
  BY DEF Kills
<1>2. \A s, k : Moves(t, s, k) => step'[t] = k
  BY DEF Moves, TypeOK
<1>3. ~Returns(t) /\ ~StatusReturns(t) /\ \A r : ~Finds(t, r)
  BY <1>1, <1>2 DEF Returns, StatusReturns, Finds
<1>4. ~(CallBegins(t) \/ ThenStop(t) \/ Acquire(t) \/ InspectFree(t) \/ PlanGoesOn(t) \/ Prepare(t) \/ StopGoesOn(t))
  BY <1>1, <1>2 DEF CallBegins, Call, ThenStop, Acquire, InspectFree, PlanGoesOn, Prepare, StopGoesOn
<1>5. ~Snapshot(t)
  BY <1>1, <1>2, <1>3 DEF Snapshot, SnapshotProbe, SnapshotNotRunning, SnapshotRefuses, SnapshotAdopts,
                SnapshotDropsStale, SnapshotConfirms
<1>6. ~(Spawn(t) \/ SpawnHealthy(t) \/ SpawnUnconfirmed(t) \/ SpawnWriteFails(t))
  BY <1>1, <1>2 DEF Spawn, SpawnHealthy, SpawnUnconfirmed, SpawnWriteFails
<1>7. ~(\/ GateFails(t) \/ InspectHeld(t) \/ StatusEnds(t) \/ PlanEnds(t) \/ PrepareFails(t)
        \/ StopEnds(t) \/ ExistingEnds(t) \/ SpawnFails(t) \/ SpawnExited(t) \/ ConfirmEnds(t)
        \/ CleanUpConfirmed(t) \/ CleanUpUnconfirmed(t) \/ CleanUpWriteFails(t))
  BY <1>3, ReturningSteps
<1>8. Stop(t) => Kill(t)
  BY <1>1, <1>2, <1>3 DEF Stop, NothingToReplace, StopProbe, StopRefuses, StopFindsMissing, StopFindsMismatch,
         StopRequests, StopWaited, StopTimesOut, KillFindsMissing, KillVerifies, KillFindsListener
<1> QED
  BY <1>4, <1>5, <1>6, <1>7, <1>8 DEF ThreadStep, CallStep, Start, WriteFails

(* A stop about to kill: its target was its own when it was verified, and   *)
(* whatever has the PID now is that process or a later one.                  *)
Aims(t) == stage[t] \in StopStages /\ step[t] \in {"aim", "fire"}

Aimed(t) ==
    Aims(t) =>
        /\ rec[t].start # 0
        /\ stage[t] = "stop" => token[t] = Identity(rec[t])
        /\ proc[rec[t].pid] \in {0, rec[t].start} \/ proc[rec[t].pid] > checked

AimInv == checked <= procs /\ \A t \in Threads : Aimed(t)

(* Only a stop that verified its process aims.                              *)
LEMMA OnlyVerifiedAim ==
    ASSUME TypeOK, NEW t \in Threads, ThreadStep(t), Aims(t)'
    PROVE  KillVerifies(t) \/ KillFindsListener(t)
<1>1. step'[t] \in {"aim", "fire"}
  BY DEF Aims
<1>2. \A s, k : Moves(t, s, k) => step'[t] = k
  BY DEF Moves, TypeOK
<1>3. ~Returns(t) /\ ~StatusReturns(t) /\ \A r : ~Finds(t, r)
  BY <1>1, <1>2 DEF Returns, StatusReturns, Finds
<1>4. ~(CallBegins(t) \/ ThenStop(t) \/ Acquire(t) \/ InspectFree(t) \/ PlanGoesOn(t) \/ Prepare(t) \/ StopGoesOn(t))
  BY <1>1, <1>2 DEF CallBegins, Call, ThenStop, Acquire, InspectFree, PlanGoesOn, Prepare, StopGoesOn
<1>5. ~Snapshot(t)
  BY <1>1, <1>2, <1>3 DEF Snapshot, SnapshotProbe, SnapshotNotRunning, SnapshotRefuses, SnapshotAdopts,
                SnapshotDropsStale, SnapshotConfirms
<1>6. ~(Spawn(t) \/ SpawnHealthy(t) \/ SpawnUnconfirmed(t) \/ SpawnWriteFails(t))
  BY <1>1, <1>2 DEF Spawn, SpawnHealthy, SpawnUnconfirmed, SpawnWriteFails
<1>7. ~(\/ GateFails(t) \/ InspectHeld(t) \/ StatusEnds(t) \/ PlanEnds(t) \/ PrepareFails(t)
        \/ StopEnds(t) \/ ExistingEnds(t) \/ SpawnFails(t) \/ SpawnExited(t) \/ ConfirmEnds(t)
        \/ CleanUpConfirmed(t) \/ CleanUpUnconfirmed(t) \/ CleanUpWriteFails(t))
  BY <1>3, ReturningSteps
<1>8. Stop(t) => KillVerifies(t) \/ KillFindsListener(t)
  BY <1>1, <1>2, <1>3 DEF Stop, NothingToReplace, StopProbe, StopRefuses, StopFindsMissing, StopFindsMismatch,
         StopRequests, StopWaited, StopTimesOut, KillFindsMissing, Kill
<1> QED
  BY <1>4, <1>5, <1>6, <1>7, <1>8 DEF ThreadStep, CallStep, Start, WriteFails

LEMMA OnlyVerifiedChecks ==
    ASSUME TypeOK, NEW t \in Threads, ThreadStep(t), ~KillVerifies(t)
    PROVE  UNCHANGED checked
<1>1. CallBegins(t) \/ ThenStop(t) \/ Acquire(t) \/ InspectFree(t) \/ InspectHeld(t) \/ GateFails(t) => UNCHANGED checked
  BY DEF CallBegins, Call, ThenStop, Acquire, InspectFree, InspectHeld, GateFails, bounds
<1>2. Snapshot(t) \/ StatusEnds(t) \/ PlanEnds(t) \/ PlanGoesOn(t) \/ Prepare(t) \/ PrepareFails(t) => UNCHANGED checked
  BY DEF Snapshot, SnapshotProbe, SnapshotNotRunning, SnapshotRefuses, SnapshotAdopts, SnapshotDropsStale,
         SnapshotConfirms, SnapshotKeeps, StatusEnds, PlanEnds, PlanGoesOn, Prepare, PrepareFails, bounds
<1>3. Stop(t) \/ StopEnds(t) \/ StopGoesOn(t) => UNCHANGED checked
  BY DEF Stop, NothingToReplace, StopProbe, StopRefuses, StopFindsMissing, StopFindsMismatch, StopRequests,
         StopWaited, StopTimesOut, KillFindsMissing, KillFindsListener, Kill, StopKeeps, StopEnds, StopGoesOn, bounds
<1>4. Start(t) \/ WriteFails(t) => UNCHANGED checked
  BY DEF Start, ExistingEnds, Spawn, SpawnFails, SpawnHealthy, SpawnUnconfirmed, SpawnExited, ConfirmEnds,
         CleanUpConfirmed, CleanUpUnconfirmed, WriteFails, SpawnWriteFails, CleanUpWriteFails, bounds
<1> QED
  BY <1>1, <1>2, <1>3, <1>4 DEF ThreadStep, CallStep

(* Every PID keeps its process, loses it, or gets a new one.                *)
Renews == \A p \in Pids : proc'[p] \in {proc[p], 0} \/ proc'[p] > procs

LEMMA ProcessesRenew ==
    ASSUME LifecycleInv, [Next]_vars
    PROVE  procs <= procs' /\ Renews
<1> USE DEF LifecycleInv
<1>1. procs \in Nat /\ procs + 1 > procs
  BY DEF TypeOK
<1>2. UNCHANGED osVars \/ UNCHANGED <<proc, procs>> => procs <= procs' /\ Renews
  BY <1>1 DEF osVars, Renews
<1>3. ASSUME NEW p \in Pids, Dies(p), UNCHANGED procs PROVE procs <= procs' /\ Renews
  BY <1>1, <1>3 DEF Dies, Renews, TypeOK
<1>4. ASSUME NEW p \in Pids, NEW img, NEW a, NewProcess(p, img, a) PROVE procs <= procs' /\ Renews
  <2>1. procs' = procs + 1 /\ proc' = [proc EXCEPT ![p] = procs + 1]
    BY <1>4 DEF NewProcess
  <2> QED
    BY <1>1, <2>1 DEF Renews, TypeOK
<1>5. ASSUME NEW t \in Threads, ThreadStep(t) PROVE procs <= procs' /\ Renews
  BY <1>2, <1>3, <1>4, <1>5, Effects DEF SharedSteps, OsStep
<1>6. ASSUME NEW p \in Pids, ProcessExits(p) \/ ProcessStarts(p) \/ Binds(p) PROVE procs <= procs' /\ Renews
  BY <1>2, <1>3, <1>4, <1>6 DEF ProcessExits, ProcessStarts, Binds
<1>7. ASSUME NEW b \in Bundles, Upgrade(b) PROVE procs <= procs' /\ Renews
  BY <1>2, <1>7 DEF Upgrade
<1>8. ASSUME NEW a \in Apps, AppCrash(a) PROVE procs <= procs' /\ Renews
  BY <1>2, <1>8 DEF AppCrash
<1>9. CASE UNCHANGED vars
  BY <1>2, <1>9 DEF vars
<1> QED
  BY <1>5, <1>6, <1>7, <1>8, <1>9, NextCases

LEMMA AimStays ==
    ASSUME LifecycleInv, AimInv, [Next]_vars
    PROVE  AimInv'
<1> USE DEF LifecycleInv
<1>1. procs <= procs' /\ Renews
  BY ProcessesRenew
<1>2. /\ procs \in Nat /\ checked \in Nat /\ proc \in [Pids -> 0..MaxProcs] /\ MaxProcs \in Nat
      /\ \A t \in Threads : rec[t] \in Kept /\ (Aims(t) => rec[t] \in Records /\ rec[t].pid \in Pids)
  BY LifecycleAssumption, RecordFields DEF TypeOK, Kept, Aims, RecIsCurrent
<1>3. TypeOK'
  BY NextCases, ThreadSteps, MachineSteps, CrashSteps
<1>4. ASSUME NEW t \in Threads, Aims(t), Aims(t)', UNCHANGED checked,
             rec'[t] = rec[t], token'[t] = token[t], stage'[t] = stage[t]
      PROVE  Aimed(t)'
  <2>1. rec[t].pid \in Pids
    BY <1>2, <1>4
  <2>2. proc[rec[t].pid] \in Nat /\ proc'[rec[t].pid] \in Nat /\ procs' \in Nat
    BY <1>2, <1>3, <2>1 DEF TypeOK
  <2>3. \/ proc'[rec[t].pid] \in {proc[rec[t].pid], 0} \/ proc'[rec[t].pid] > procs
    BY <1>1, <2>1 DEF Renews
  <2>4. proc'[rec[t].pid] \in {0, rec[t].start} \/ proc'[rec[t].pid] > checked
    BY <1>2, <1>4, <2>2, <2>3 DEF AimInv, Aimed
  <2> QED
    BY <1>4, <2>4 DEF AimInv, Aimed
<1>5. ASSUME NEW t \in Threads, ThreadStep(t) PROVE AimInv'
  <2>1. LocalSteps(t) /\ SharedSteps(t)
    BY <1>5, Effects
  <2>2. ASSUME NEW u \in Threads \ {t}, Aims(u)' PROVE Aimed(u)'
    <3>1. /\ stage'[u] = stage[u] /\ step'[u] = step[u] /\ rec'[u] = rec[u] /\ token'[u] = token[u]
      BY <2>1 DEF LocalSteps, OthersStay
    <3>2. Aims(u)
      BY <2>2, <3>1 DEF Aims
    <3>3. stage[t] \notin StopStages
      BY <3>2, StageSets DEF GateIsKept, Aims
    <3>4. UNCHANGED checked
      BY <2>1, <3>3 DEF SharedSteps
    <3> QED
      BY <1>4, <2>2, <3>1, <3>2, <3>4
  <2>3. ASSUME Aims(t)', KillFindsListener(t) PROVE Aimed(t)'
    <3>1. Aims(t) /\ UNCHANGED <<checked, rec, token>>
      BY <2>3 DEF KillFindsListener, StopKeeps, bounds, Aims
    <3>2. stage'[t] = stage[t]
      BY <2>3, MovesIs, StageNames DEF KillFindsListener, TypeOK
    <3> QED
      BY <1>4, <2>3, <3>1, <3>2
  <2>4. ASSUME Aims(t)', KillVerifies(t) PROVE Aimed(t)'
    <3>1. /\ stage[t] \in StopStages /\ step[t] \in {"kill", "down"} /\ Verdict(rec[t]) = "verified"
          /\ stage[t] = "stop" => token[t] = Identity(rec[t])
          /\ UNCHANGED <<proc, rec, token>>
      BY <2>4 DEF KillVerifies, MayKill, At, osVars
    <3>2. rec[t] \in Records
      BY <3>1 DEF RecIsCurrent, TypeOK
    <3>3. proc[rec[t].pid] = rec[t].start /\ rec[t].start # 0
      BY <3>1, <3>2, VerdictIs
    <3>4. stage'[t] = stage[t]
      BY <2>4, MovesIs, StageNames DEF KillVerifies, TypeOK
    <3> QED
      BY <3>1, <3>3, <3>4 DEF Aimed
  <2>5. Aimed(t)'
    BY <1>5, <2>3, <2>4, OnlyVerifiedAim DEF Aimed
  <2>6. checked' <= procs'
    <3>1. checked' \in {checked, procs}
      <4>1. CASE KillVerifies(t)
        BY <4>1 DEF KillVerifies
      <4>2. CASE ~KillVerifies(t)
        BY <1>5, <4>2, OnlyVerifiedChecks
      <4> QED
        BY <4>1, <4>2
    <3> QED
      BY <1>1, <1>2, <1>3, <3>1 DEF AimInv, TypeOK
  <2> QED
    BY <2>2, <2>5, <2>6 DEF AimInv, Aimed
<1>6. ASSUME UNCHANGED <<checked, stage, step, rec, token>> PROVE AimInv'
  <2>1. \A t \in Threads : Aims(t)' => Aims(t)
    BY <1>6 DEF Aims
  <2>2. \A t \in Threads : Aimed(t)'
    BY <1>4, <1>6, <2>1 DEF Aimed
  <2>3. checked' <= procs'
    BY <1>1, <1>2, <1>3, <1>6 DEF AimInv, TypeOK
  <2> QED
    BY <2>2, <2>3 DEF AimInv
<1>7. ASSUME NEW a \in Apps, AppCrash(a) PROVE AimInv'
  <2>1. \A t \in Threads : \/ stage'[t] = "idle"
                          \/ /\ stage'[t] = stage[t] /\ step'[t] = step[t]
                             /\ rec'[t] = rec[t] /\ token'[t] = token[t]
    BY <1>7 DEF AppCrash
  <2>2. UNCHANGED checked
    BY <1>7 DEF AppCrash
  <2>3. \A t \in Threads : Aims(t)' => Aims(t) /\ rec'[t] = rec[t] /\ token'[t] = token[t] /\ stage'[t] = stage[t]
    BY <2>1, StageSets DEF Aims
  <2>4. \A t \in Threads : Aimed(t)'
    BY <1>4, <2>2, <2>3 DEF Aimed
  <2>5. checked' <= procs'
    BY <1>1, <1>2, <1>3, <2>2 DEF AimInv, TypeOK
  <2> QED
    BY <2>4, <2>5 DEF AimInv
<1>8. \A p \in Pids : ProcessExits(p) \/ ProcessStarts(p) \/ Binds(p) => UNCHANGED <<checked, stage, step, rec, token>>
  BY DEF ProcessExits, ProcessStarts, Binds, callVars, bounds
<1>9. \A b \in Bundles : Upgrade(b) => UNCHANGED <<checked, stage, step, rec, token>>
  BY DEF Upgrade, callVars, bounds
<1>10. UNCHANGED vars => UNCHANGED <<checked, stage, step, rec, token>>
  BY DEF vars, callVars, bounds
<1> QED
  BY <1>5, <1>6, <1>7, <1>8, <1>9, <1>10, NextCases

LEMMA AimHolds == Spec => []AimInv
<1>1. Init => AimInv
  BY StageSets DEF Init, AimInv, Aimed, Aims
<1>2. LifecycleInv /\ AimInv /\ [Next]_vars => AimInv'
  BY AimStays
<1> QED
  BY <1>1, <1>2, LifecycleSafety, PTL DEF Spec

KillIsRight(t) ==
    LET n == proc[rec[t].pid] IN
    \/ /\ n = rec[t].start /\ image[n] \in Bundles
       /\ stage[t] = "stop" => spawner[n] = AppOf[t]
    \/ n > checked

LEMMA KillsAreRight ==
    ASSUME LifecycleInv, AimInv, [Next]_vars, NEW t \in Threads, Kills(t)
    PROVE  KillIsRight(t)
<1> USE DEF LifecycleInv
<1>1. ThreadStep(t)
  <2>1. \A u \in Threads \ {t} : ~ThreadStep(u)
    BY Effects DEF LocalSteps, OthersStay, Kills
  <2>2. ~(UNCHANGED step)
    BY DEF Kills
  <2>3. \A p \in Pids : ~(ProcessExits(p) \/ ProcessStarts(p) \/ Binds(p))
    BY <2>2 DEF ProcessExits, ProcessStarts, Binds, callVars
  <2>4. \A b \in Bundles : ~Upgrade(b)
    BY <2>2 DEF Upgrade, callVars
  <2>5. \A a \in Apps : ~AppCrash(a)
    BY DEF AppCrash, Kills
  <2>6. ~(UNCHANGED vars)
    BY <2>2 DEF vars, callVars
  <2> QED
    BY <2>1, <2>3, <2>4, <2>5, <2>6, NextCases
<1>2. Kill(t)
  BY <1>1, OnlyKillKills
<1>3. Aims(t) /\ proc[rec[t].pid] # 0
  BY <1>2 DEF Kill, Aims
<1>4. rec[t] \in Records /\ Fits(rec[t])
  BY <1>3 DEF RecIsCurrent, TypeOK, AllFit, FitsOf, Aims
<1>5. /\ rec[t].start # 0 /\ (stage[t] = "stop" => token[t] = Identity(rec[t]))
      /\ proc[rec[t].pid] = rec[t].start \/ proc[rec[t].pid] > checked
  BY <1>3 DEF AimInv, Aimed
<1>6. image[rec[t].start] \in Bundles
  BY <1>4, <1>5, RecordFields DEF Fits, FitsIn
<1>7. stage[t] = "stop" => spawner[rec[t].start] = AppOf[t]
  BY <1>4, <1>5, IdentityIs, RecordFields DEF OwnSpawned, SpawnedBy, SpawnedIn
<1> QED
  BY <1>5, <1>6, <1>7 DEF KillIsRight

(* The record of a live Gateway.                                            *)
Lives == record # None /\ record.start # 0 /\ proc[record.pid] = record.start

LEMMA RecordIsKept ==
    ASSUME LifecycleInv, [Next]_vars, Lives, proc' = proc,
           faults = 0 \/ \A t \in Threads : stage[t] = "status" => rec[t] \in {None, record}
    PROVE  record' # None
<1> USE DEF LifecycleInv
<1>1. record \in Records /\ record.pid \in Pids /\ record.pid # None
  BY RecordFields, LifecycleAssumption DEF Lives, TypeOK
<1>2. IsGateway(record.pid) /\ Covers(record, record.pid)
  BY <1>1, RecordFields, LifecycleAssumption DEF Lives, AllFit, Fits, FitsIn, IsGateway, Covers
<1>3. CASE record' = record
  BY <1>3 DEF Lives
<1>4. ASSUME NEW t \in Threads, ThreadStep(t) PROVE record' # None
  <2>1. RecIsCurrent(t) /\ ChildIsRecorded(t) /\ rec[t] \in Kept
    BY DEF TypeOK, Kept
  <2>2. CASE Stop(t)
    <3>1. SUFFICES ASSUME record' # record PROVE record' # None
      BY <1>3
    <3>2. /\ Verdict(rec[t]) \in {"missing", "mismatch"} /\ stage[t] \in StopStages
          /\ step[t] \in {"up", "down", "wait", "kill", "aim", "fire", "killed"}
      BY <2>2, <3>1 DEF Stop, NothingToReplace, StopProbe, StopRefuses, StopFindsMissing, StopFindsMismatch,
         StopRequests, StopWaited, StopTimesOut, KillFindsMissing, KillVerifies, KillFindsListener, Kill
    <3>3. record = rec[t]
      BY <2>1, <3>2 DEF RecIsCurrent
    <3> QED
      BY <1>1, <1>2, <3>2, <3>3, VerdictIs
  <2>3. CASE Snapshot(t)
    <3>1. InSnapshot(t)
      BY <2>3 DEF Snapshot, SnapshotProbe, SnapshotNotRunning, SnapshotRefuses, SnapshotAdopts,
                SnapshotDropsStale, SnapshotConfirms
    <3>2. step[t] \in {"up", "down"} /\ rec[t] # None => Follows(rec[t], record)
      BY <2>1, <3>1 DEF RecIsCurrent, Follows
    <3>3. ASSUME rec[t] \in Records, step[t] \in {"up", "down"}
          PROVE  Verdict(Activated(rec[t])) \notin {"missing", "mismatch"}
      BY <1>1, <1>2, <3>2, <3>3, DroppedIsDead, RecordFields
    <3>4. CASE SnapshotProbe(t) \/ SnapshotRefuses(t)
      BY <1>3, <3>4 DEF SnapshotProbe, SnapshotRefuses
    <3>5. CASE SnapshotNotRunning(t)
      <4>1. rec[t] = None => record' = record
        BY <3>5 DEF SnapshotNotRunning
      <4>2. rec[t] # None => rec[t] \in Records /\ step[t] = "down" /\ Verdict(rec[t]) \in {"missing", "mismatch"}
        BY <2>1, <3>5 DEF SnapshotNotRunning, Kept
      <4>3. rec[t] # None => Activated(rec[t]) = rec[t]
        BY <4>2, VerdictIs, ActivatedIs
      <4> QED
        BY <1>3, <3>3, <4>1, <4>2, <4>3
    <3>6. CASE SnapshotDropsStale(t)
      BY <2>1, <3>3, <3>6 DEF SnapshotDropsStale, Kept
    <3>7. CASE SnapshotAdopts(t)
      BY <3>7, ClaimIs, RecordFields DEF SnapshotAdopts, IsGateway, TypeOK
    <3>8. CASE SnapshotConfirms(t)
      <4>1. rec[t] \in Records /\ record' \in {Activated(rec[t]), record}
        BY <2>1, <3>8 DEF SnapshotConfirms, Kept
      <4>2. Activated(rec[t]) \in Records
        BY <4>1, ActivatedIs
      <4>3. record' \in Records
        BY <1>1, <4>1, <4>2
      <4> QED
        BY <4>3, RecordFields
    <3> QED
      BY <2>3, <3>4, <3>5, <3>6, <3>7, <3>8 DEF Snapshot
  <2>4. CASE Spawn(t) \/ SpawnFails(t) \/ SpawnExited(t) \/ SpawnHealthy(t) \/ SpawnWriteFails(t)
    <3>1. record = None
      BY <2>1, <2>4 DEF Spawn, SpawnFails, SpawnExited, SpawnHealthy, SpawnWriteFails, RecIsCurrent, ChildIsRecorded, At
    <3> QED
      BY <1>1, <3>1, RecordFields
  <2>5. CASE CleanUpConfirmed(t) \/ CleanUpUnconfirmed(t)
    <3>1. stage[t] = "spawn"
      BY <2>5 DEF CleanUpConfirmed, CleanUpUnconfirmed, At
    <3>2. record = child[t]
      BY <1>1, <2>1, <3>1, RecordFields DEF ChildIsRecorded
    <3>3. CASE CleanUpConfirmed(t)
      <4>1. proc'[child[t].pid] = 0
        BY <1>1, <3>2, <3>3 DEF CleanUpConfirmed, Dies, TypeOK
      <4> QED
        BY <3>2, <4>1 DEF Lives
    <3>4. CASE CleanUpUnconfirmed(t)
      <4>1. Verdict(child[t]) \notin {"missing", "mismatch"}
        BY <1>1, <1>2, <3>2, VerdictIs
      <4>2. Verdict(child[t]) \in {"missing", "mismatch", "verified", "unknown"}
        BY DEF Verdict
      <4>3. record' = child[t]
        BY <3>4, <4>1, <4>2 DEF CleanUpUnconfirmed
      <4> QED
        BY <1>1, <3>2, <4>3, RecordFields
    <3> QED
      BY <2>5, <3>3, <3>4
  <2>6. CASE \/ GateFails(t) \/ InspectHeld(t) \/ StatusEnds(t) \/ PlanEnds(t) \/ PrepareFails(t)
             \/ StopEnds(t) \/ ExistingEnds(t) \/ ConfirmEnds(t) \/ CleanUpWriteFails(t)
    BY <1>3, <2>6 DEF GateFails, InspectHeld, StatusEnds, PlanEnds, PrepareFails, StopEnds, ExistingEnds,
                      ConfirmEnds, CleanUpWriteFails
  <2>7. CASE \/ CallBegins(t) \/ ThenStop(t) \/ Acquire(t) \/ InspectFree(t) \/ PlanGoesOn(t) \/ Prepare(t)
             \/ StopGoesOn(t) \/ SpawnUnconfirmed(t)
    BY <1>3, <2>7 DEF CallBegins, Call, ThenStop, Acquire, InspectFree, PlanGoesOn, Prepare, StopGoesOn,
                      SpawnUnconfirmed
  <2> QED
    BY <1>4, <2>2, <2>3, <2>4, <2>5, <2>6, <2>7 DEF ThreadStep, CallStep, Start, WriteFails
<1>5. \A p \in Pids : ProcessExits(p) \/ ProcessStarts(p) \/ Binds(p) => record' = record
  BY DEF ProcessExits, ProcessStarts, Binds
<1>6. \A b \in Bundles : Upgrade(b) => record' = record
  BY DEF Upgrade
<1>7. \A a \in Apps : AppCrash(a) => record' = record
  BY DEF AppCrash
<1>8. UNCHANGED vars => record' = record
  BY DEF vars
<1> QED
  BY <1>3, <1>4, <1>5, <1>6, <1>7, <1>8, NextCases

(* A stop kills only a Gateway that its own app session spawned, and a      *)
(* replacement only a Gateway, unless that process exited after it had been *)
(* verified and its PID went to a later one.  A live Gateway keeps its      *)
(* record through the snapshots, stops and starts of every app, unless a    *)
(* status snapshot acts on an earlier record it read.                       *)
THEOREM LiveGatewaysAreSpared == Spec => SparesLiveGateways
<1>1. LifecycleInv /\ AimInv /\ [Next]_vars =>
          [\A t \in Threads : Kills(t) =>
             LET n == proc[rec[t].pid] IN
             \/ /\ n = rec[t].start /\ image[n] \in Bundles
                /\ stage[t] = "stop" => spawner[n] = AppOf[t]
             \/ n > checked]_vars
  BY KillsAreRight DEF KillIsRight
<1>2. LifecycleInv /\ [Next]_vars =>
          [record # None /\ record.start # 0 /\ proc[record.pid] = record.start /\ proc' = proc =>
             \/ record' # None
             \/ faults > 0 /\ \E t \in Threads : stage[t] = "status" /\ rec[t] \notin {None, record}]_vars
  <2> SUFFICES ASSUME LifecycleInv, [Next]_vars, Lives, proc' = proc, record' = None
               PROVE  faults > 0 /\ \E t \in Threads : stage[t] = "status" /\ rec[t] \notin {None, record}
    BY DEF Lives
  <2>1. faults \in Nat
    BY DEF LifecycleInv, TypeOK
  <2> QED
    BY <2>1, RecordIsKept
<1> QED
  BY <1>1, <1>2, LifecycleSafety, AimHolds, PTL DEF Spec, SparesLiveGateways, KillsOnlyItsOwn, LiveRecordKept
-----------------------------------------------------------------------------
(***************************************************************************)
(* The gate itself (LifecycleGate), for any number of writers and readers: *)
(* what the lifecycle above takes from it is GateIsExclusive.  GateInv     *)
(* adds to the gate's properties what makes them inductive: who the OS     *)
(* granted the lock to, and that without faults the sidecar names a phase  *)
(* only while the transaction that owns the gate runs.                     *)
(***************************************************************************)

(* The lock the OS recorded is the one the threads believe they hold.       *)
LockIsHeld ==
    /\ \A w \in Writers : wstate[w] \in Critical => owner = w
    /\ \A r \in Readers : rstate[r] = "snapshot" => r \in shared
    /\ owner # Nobody => shared = {}

(* Without faults a phase in the sidecar is the owner's.                    *)
SidecarIsOwners ==
    gateFaults = 0 /\ sidecar \in Phases =>
        owner \in Writers /\ wstate[owner] = "held" /\ sidecar = wphase[owner]

(* A writer inside acquire or its transaction knows its phase.              *)
PhaseIsKnown ==
    \A w \in Writers : wstate[w] # "idle" => wphase[w] \in Phases

GateInv ==
    GateTypeOK /\ LockIsHeld /\ RunningPhaseIsPublished /\ SidecarIsOwners /\ PhaseIsKnown

(* Every initial state of the gate satisfies the invariant.                 *)
LEMMA GateInitially == GateInit => GateInv
  BY GateAssumption
  DEF GateInit, GateInv, GateTypeOK, LockIsHeld, RunningPhaseIsPublished, SidecarIsOwners,
      PhaseIsKnown, Critical, WriterStates, ReaderStates

(* The steps of acquire, of its Drop and of a crash preserve the invariant. *)
LEMMA WriterPreserves ==
    ASSUME GateInv, NEW w \in Writers,
           (\E p \in Phases : BeginAcquire(w, p)) \/ WriterProgress(w) \/ WriterFailure(w)
    PROVE  GateInv'
<1> USE GateAssumption
    DEF GateInv, GateTypeOK, LockIsHeld, RunningPhaseIsPublished, SidecarIsOwners,
        PhaseIsKnown, Critical, WriterStates, ReaderStates,
        lockVars, writerVars, readerVars, gateBounds, WriterGoes
<1>1. CASE \E p \in Phases : BeginAcquire(w, p)
  BY <1>1 DEF BeginAcquire
<1>2. CASE LockGateFile(w)
  BY <1>2 DEF LockGateFile
<1>3. CASE LockFails(w)
  BY <1>3 DEF LockFails
<1>4. CASE TruncatePhase(w)
  BY <1>4 DEF TruncatePhase
<1>5. CASE PublishPhase(w)
  BY <1>5 DEF PublishPhase
<1>6. CASE PublishFails(w)
  BY <1>6 DEF PublishFails
<1>7. CASE RemovePhase(w)
  BY <1>7 DEF RemovePhase
<1>8. CASE RemovePhaseFails(w)
  BY <1>8 DEF RemovePhaseFails
<1>9. CASE Unlock(w)
  BY <1>9 DEF Unlock
<1>10. CASE Crash(w)
  BY <1>10 DEF Crash
<1> QED
  BY <1>1, <1>2, <1>3, <1>4, <1>5, <1>6, <1>7, <1>8, <1>9, <1>10
  DEF WriterProgress, WriterFailure

(* The steps of inspect_for_status and of its guard preserve the invariant. *)
LEMMA ReaderPreserves ==
    ASSUME GateInv, NEW r \in Readers,
           BeginInspect(r) \/ ReaderStep(r) \/ TryLockFailed(r)
    PROVE  GateInv'
<1> USE GateAssumption
    DEF GateInv, GateTypeOK, LockIsHeld, RunningPhaseIsPublished, SidecarIsOwners,
        PhaseIsKnown, Critical, WriterStates, ReaderStates,
        lockVars, writerVars, readerVars, gateBounds, ReaderGoes
<1>1. CASE BeginInspect(r)
  BY <1>1 DEF BeginInspect
<1>2. CASE TryLockFree(r)
  BY <1>2 DEF TryLockFree
<1>3. CASE TryLockBusy(r)
  BY <1>3 DEF TryLockBusy
<1>4. CASE TryLockFailed(r)
  BY <1>4 DEF TryLockFailed
<1>5. CASE ReadPhase(r)
  BY <1>5 DEF ReadPhase
<1>6. CASE PollAgain(r)
  BY <1>6 DEF PollAgain
<1>7. CASE ReleaseRead(r)
  BY <1>7 DEF ReleaseRead
<1>8. CASE ReturnHeld(r)
  BY <1>8 DEF ReturnHeld
<1> QED
  BY <1>1, <1>2, <1>3, <1>4, <1>5, <1>6, <1>7, <1>8 DEF ReaderStep

(* Every step of the gate preserves the invariant.                          *)
LEMMA GateInductive == GateInv /\ [GateNext]_gateVars => GateInv'
<1> SUFFICES ASSUME GateInv, [GateNext]_gateVars PROVE GateInv'
  OBVIOUS
<1>1. CASE GateNext
  BY <1>1, WriterPreserves, ReaderPreserves DEF GateNext
<1>2. CASE UNCHANGED gateVars
  BY <1>2
  DEF GateInv, GateTypeOK, LockIsHeld, RunningPhaseIsPublished, SidecarIsOwners,
      PhaseIsKnown, gateVars, lockVars, writerVars, readerVars, gateBounds
<1> QED
  BY <1>1, <1>2

(* The invariant holds in every reachable state of the gate.                *)
THEOREM GateInvariant == GateSpec => []GateInv
  BY GateInitially, GateInductive, PTL DEF GateSpec

(* The variables keep their types: in particular inspect_for_status never   *)
(* reports something that is not a phase.                                   *)
THEOREM GateTypeCorrect == GateSpec => []GateTypeOK
<1>1. GateInv => GateTypeOK
  BY DEF GateInv
<1> QED
  BY <1>1, GateInvariant, PTL

(* Transactions exclude one another and status snapshots, whatever crashes. *)
THEOREM GateIsExclusive == GateSpec => []GateExcludes
<1>1. GateInv => GateExcludes
  BY GateAssumption DEF GateInv, GateTypeOK, LockIsHeld, GateExcludes
<1> QED
  BY <1>1, GateInvariant, PTL

(* The sidecar shows the phase of the running transaction, whatever crashes.*)
THEOREM PhaseStaysPublished == GateSpec => []RunningPhaseIsPublished
<1>1. GateInv => RunningPhaseIsPublished
  BY DEF GateInv
<1> QED
  BY <1>1, GateInvariant, PTL

(* Without faults Held(phase) is the phase of the gate's owner.             *)
THEOREM ReportIsActive == GateSpec => HeldPhaseIsActive
<1>1. GateInv /\ [GateNext]_gateVars =>
         [gateFaults = 0 => \A r \in Readers : Reports(r) =>
            owner # Nobody /\ answer'[r] = wphase[owner]]_gateVars
  <2> SUFFICES ASSUME GateInv, GateNext, gateFaults = 0, NEW r \in Readers, Reports(r)
               PROVE  owner # Nobody /\ answer'[r] = wphase[owner]
    BY DEF gateVars
  <2>1. ReadPhase(r)
    <3>1. rstate'[r] # rstate[r]
      BY DEF Reports
    <3>2. \A w \in Writers : ~((\E p \in Phases : BeginAcquire(w, p))
                               \/ WriterProgress(w) \/ WriterFailure(w))
      BY <3>1 DEF BeginAcquire, WriterProgress, WriterFailure, LockGateFile, LockFails,
         TruncatePhase, PublishPhase, PublishFails, RemovePhase, RemovePhaseFails,
         Unlock, Crash, readerVars
    <3>3. PICK q \in Readers : BeginInspect(q) \/ ReaderStep(q) \/ TryLockFailed(q)
      BY <3>2 DEF GateNext
    <3>4. q = r
      BY <3>1, <3>3
      DEF BeginInspect, ReaderStep, TryLockFree, TryLockBusy, TryLockFailed, ReadPhase,
          PollAgain, ReleaseRead, ReturnHeld, ReaderGoes, GateInv, GateTypeOK
    <3> QED
      BY <3>3, <3>4
      DEF Reports, BeginInspect, ReaderStep, TryLockFree, TryLockBusy, TryLockFailed,
          PollAgain, ReleaseRead, ReturnHeld, ReaderGoes, GateInv, GateTypeOK
  <2> QED
    BY <2>1, GateAssumption DEF ReadPhase, GateInv, GateTypeOK, SidecarIsOwners
<1> QED
  BY <1>1, GateInvariant, PTL DEF GateSpec, HeldPhaseIsActive
=============================================================================
