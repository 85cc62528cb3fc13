--------------------------- MODULE GatewayLifecycle ---------------------------
(***************************************************************************)
(* Start, stop, restart and status of the one managed Gateway process      *)
(* (src-tauri/src/gateway_lifecycle.rs, the coordinator of an app process, *)
(* and src-tauri/src/proxy.rs, its backend): the durable PID record that   *)
(* every CodexHub process shares, the processes and the listener of the    *)
(* operating system it is reconciled with, and the session identity that   *)
(* decides on a force kill.                                                *)
(*                                                                         *)
(* The lifecycle gate is used as LifecycleGate promises it: transactions   *)
(* exclude one another and status snapshots, status snapshots share it.    *)
(* A step of a call is the part of the code between two observations of    *)
(* the machine: read and probe, inspect and act, wait, kill.  Processes    *)
(* start, bind the port, exit and have their PID reused between any two    *)
(* steps.  One port, one install path; a bundle is the script's hash.      *)
(***************************************************************************)
EXTENDS Naturals, FiniteSets

CONSTANTS
    Apps,       \* CodexHub processes: the desktop app, a command line
    Threads,    \* the calls that may run at the same time
    AppOf,      \* the process each thread belongs to
    Pids,
    Bundles,    \* hashes of the Gateway script
    None,
    Error,      \* the result of a snapshot or a stop that failed
    MaxProcs,   \* bound on processes created (a start id is never reused)
    MaxCalls,   \* bound on calls begun
    MaxFaults   \* bound on app crashes and failed writes of the PID record

ASSUME LifecycleAssumption ==
    /\ AppOf \in [Threads -> Apps]
    /\ MaxProcs \in Nat /\ MaxCalls \in Nat /\ MaxFaults \in Nat
    /\ None \notin Threads \cup Apps \cup Pids \cup Bundles \cup {Error, "other"}
    /\ "other" \notin Bundles

VARIABLES
    proc, image, spawner, procs, listener,  \* the operating system
    installed,                              \* the bundle on disk
    record,                                 \* the durable PID record
    gate,                                   \* the exclusive holder of the gate
    owned,                                  \* session_owned of each app
    op, stage, step, token, rec, child, found,  \* locals of each call
    calls, faults,
    checked         \* history: how many processes had started when a stop last verified its target

osVars    == <<proc, image, spawner, procs, listener>>
callVars  == <<op, stage, step, token, rec, child, found>>
bounds    == <<calls, faults, checked>>
vars == <<osVars, installed, record, gate, owned, callVars, bounds>>

Starts == 1..MaxProcs

(* ProxyPidRecord.  start 0 is a missing process_start_id; a record without *)
(* one that is not a recovery record is Legacy.  adopted stands for the     *)
(* started_at stamp: it tells the record the spawn made from one that a     *)
(* snapshot made later for the same process.                                *)
Records == [pid : Pids, start : 0..MaxProcs, recovery : BOOLEAN,
            bundle : Bundles, adopted : BOOLEAN]

ASSUME RecordsAssumption == None \notin Records /\ Error \notin Records

(* GatewayIdentity::from(metadata)                                          *)
Identity(r) == [r EXCEPT !.recovery = FALSE]

IsLegacy(r) == r.start = 0 /\ ~r.recovery

Ops    == {"none", "status", "start", "stop", "restart", "close"}
SnapshotStages == {"status", "plan", "existing", "confirm"}
StopStages     == {"stop", "replace"}
Stages == SnapshotStages \cup StopStages
          \cup {"idle", "acquire", "inspect", "then", "prepare", "spawn"}
Steps  == {"enter", "up", "down", "wait", "kill", "aim", "fire", "killed", "done"}

TypeOK ==
    /\ proc \in [Pids -> 0..MaxProcs]
    /\ image \in [Starts -> Bundles \cup {"other", None}]
    /\ spawner \in [Starts -> Apps \cup {None}]
    /\ procs \in 0..MaxProcs
    /\ listener \in Pids \cup {None}
    /\ installed \in Bundles
    /\ record \in Records \cup {None}
    /\ gate \in Threads \cup {None}
    /\ owned \in [Apps -> Records \cup {None}]
    /\ op \in [Threads -> Ops]
    /\ stage \in [Threads -> Stages]
    /\ step \in [Threads -> Steps]
    /\ token \in [Threads -> Records \cup {None}]
    /\ rec \in [Threads -> Records \cup {None}]
    /\ child \in [Threads -> Records \cup {None}]
    /\ found \in [Threads -> Records \cup {None, Error}]
    /\ calls \in 0..MaxCalls
    /\ faults \in 0..MaxFaults
    /\ checked \in 0..MaxProcs

Init ==
    /\ proc = [p \in Pids |-> 0]
    /\ image = [n \in Starts |-> None]
    /\ spawner = [n \in Starts |-> None]
    /\ procs = 0
    /\ listener = None
    /\ installed \in Bundles
    /\ \/ record = None
       \/ record \in {r \in Records : IsLegacy(r) /\ ~r.adopted /\ r.bundle = installed}
    /\ gate = None
    /\ owned = [a \in Apps |-> None]
    /\ op = [t \in Threads |-> "none"]
    /\ stage = [t \in Threads |-> "idle"]
    /\ step = [t \in Threads |-> "enter"]
    /\ token = [t \in Threads |-> None]
    /\ rec = [t \in Threads |-> None]
    /\ child = [t \in Threads |-> None]
    /\ found = [t \in Threads |-> None]
    /\ calls = 0
    /\ faults = 0
    /\ checked = 0

At(t, s, k) == stage[t] = s /\ step[t] = k

Moves(t, s, k) ==
    /\ stage' = [stage EXCEPT ![t] = s]
    /\ step' = [step EXCEPT ![t] = k]

(* verify_proxy_process when the inspection succeeds; that it may fail, and *)
(* answer Unknown, is in the Refuses actions.                               *)
Verdict(r) ==
    LET n == proc[r.pid] IN
    CASE r.recovery -> "unknown"
      [] ~r.recovery /\ n = 0 -> "missing"
      [] ~r.recovery /\ n # 0 /\ image[n] = "other" -> "mismatch"
      [] ~r.recovery /\ n # 0 /\ image[n] # "other" /\ r.start = 0 -> "unknown"
      [] OTHER -> IF n = r.start THEN "verified" ELSE "mismatch"

(* health: a listener may answer, or be too slow; nobody answers for it.    *)
Health == {FALSE, listener # None}

(***************************************************************************)
(* The coordinator's state.  phase, published and last_error are written   *)
(* too, but only its tests read them.                                      *)
(***************************************************************************)

(* clear_stopped, fail and fail_with_recovery set it; fail_reconciliation   *)
(* and fail_preserving_identity leave it alone.                             *)
SessionOwns(a, id) == owned' = [owned EXCEPT ![a] = id]

(* publish_snapshot with an identity                                        *)
PublishSnapshot(a, id, spawned) ==
    SessionOwns(a, IF spawned \/ owned[a] = id THEN id ELSE None)

(* The call returns; the Drop of its guard releases the gate.               *)
Returns(t) ==
    /\ Moves(t, "idle", "enter")
    /\ op' = [op EXCEPT ![t] = "none"]
    /\ token' = [token EXCEPT ![t] = None]
    /\ rec' = [rec EXCEPT ![t] = None]
    /\ child' = [child EXCEPT ![t] = None]
    /\ found' = [found EXCEPT ![t] = None]
    /\ gate' = IF gate = t THEN None ELSE gate

Finds(t, result) ==
    /\ found' = [found EXCEPT ![t] = result]
    /\ Moves(t, stage[t], "done")

(***************************************************************************)
(* Entry points of proxy.rs                                                *)
(***************************************************************************)

(* status, start_after, stop, restart_after and stop_for_app_close.  stop   *)
(* and restart read the session identity here, before the gate; app close   *)
(* reconciles first if there is no record.                                  *)
Call(t, o) ==
    /\ stage[t] = "idle"
    /\ calls < MaxCalls
    /\ calls' = calls + 1
    /\ op' = [op EXCEPT ![t] = o]
    /\ LET inspects == o = "status" \/ (o = "close" /\ record = None)
       IN  /\ Moves(t, IF inspects THEN "inspect" ELSE "acquire", "enter")
           /\ token' = [token EXCEPT ![t] =
                  IF inspects \/ o = "start" THEN None ELSE owned[AppOf[t]]]
    /\ UNCHANGED <<osVars, installed, record, gate, owned, rec, child, found, faults, checked>>

(* stop_for_app_close goes on with stop() once status() returned Ok.        *)
ThenStop(t) ==
    /\ stage[t] = "then"
    /\ token' = [token EXCEPT ![t] = owned[AppOf[t]]]
    /\ Moves(t, "acquire", "enter")
    /\ UNCHANGED <<osVars, installed, record, gate, owned, op, rec, child, found, bounds>>

StatusReaders == {t \in Threads : stage[t] = "status"}

(* LifecycleTransactionGate::acquire                                        *)
Acquire(t) ==
    /\ stage[t] = "acquire"
    /\ gate = None
    /\ StatusReaders = {}
    /\ gate' = t
    /\ Moves(t, IF op[t] \in {"stop", "close"} THEN "stop" ELSE "plan", "enter")
    /\ UNCHANGED <<osVars, installed, record, owned, op, token, rec, child, found, bounds>>

(* inspect_for_status: ReadLocked ...                                       *)
InspectFree(t) ==
    /\ stage[t] = "inspect"
    /\ gate = None
    /\ Moves(t, "status", "enter")
    /\ UNCHANGED <<osVars, installed, record, gate, owned, op, token, rec, child, found, bounds>>

(* Opening the gate, locking it or reading the settings fails.              *)
GateFails(t) ==
    /\ stage[t] \in {"acquire", "inspect"}
    /\ Returns(t)
    /\ UNCHANGED <<osVars, installed, record, owned, bounds>>

(* status() returns Ok: app close goes on to stop().                        *)
StatusReturns(t) ==
    IF op[t] = "close"
    THEN /\ Moves(t, "then", "enter")
         /\ rec' = [rec EXCEPT ![t] = None]
         /\ found' = [found EXCEPT ![t] = None]
         /\ UNCHANGED <<gate, op, token, child>>
    ELSE Returns(t)

(* ... or Held(phase): answer with the transitional status.                 *)
InspectHeld(t) ==
    /\ stage[t] = "inspect"
    /\ gate # None
    /\ StatusReturns(t)
    /\ UNCHANGED <<osVars, installed, record, owned, bounds>>

(***************************************************************************)
(* reconciled_snapshot_with_controls                                       *)
(***************************************************************************)

InSnapshot(t) == stage[t] \in SnapshotStages

(* Read the PID record and probe /health.                                   *)
SnapshotProbe(t) ==
    /\ InSnapshot(t) /\ step[t] = "enter"
    /\ rec' = [rec EXCEPT ![t] = record]
    /\ \E healthy \in Health : Moves(t, stage[t], IF healthy THEN "up" ELSE "down")
    /\ UNCHANGED <<osVars, installed, record, gate, owned, op, token, child, found, bounds>>

SnapshotKeeps == UNCHANGED <<osVars, installed, gate, owned, op, token, rec, child, bounds>>

(* Nothing answers and nothing managed runs: remove a stale record.         *)
SnapshotNotRunning(t) ==
    /\ InSnapshot(t) /\ step[t] = "down"
    /\ \/ rec[t] = None /\ UNCHANGED record
       \/ /\ rec[t] # None
          /\ Verdict(rec[t]) \in {"missing", "mismatch"}
          /\ record' = None
    /\ Finds(t, None)
    /\ SnapshotKeeps

(* An error path: the process is alive but silent, the listener is          *)
(* somebody else, or a file or an inspection fails.                         *)
SnapshotRefuses(t) ==
    /\ InSnapshot(t) /\ step[t] \in {"enter", "up", "down"}
    /\ Finds(t, Error)
    /\ UNCHANGED record
    /\ SnapshotKeeps

(* A listener answers and no record exists: it is claimed if its process is *)
(* a Gateway.  The verification after the claim may still fail.             *)
Claim(p) == [pid |-> p, start |-> proc[p], recovery |-> FALSE,
             bundle |-> installed, adopted |-> TRUE]

IsGateway(p) == p # None /\ proc[p] # 0 /\ image[proc[p]] # "other"

SnapshotClaimsAnyListener(t) ==
    /\ InSnapshot(t) /\ step[t] = "up"
    /\ rec[t] = None
    /\ listener # None
    /\ record' = Claim(listener)
    /\ \E result \in {Claim(listener), Error} : Finds(t, result)
    /\ SnapshotKeeps

SnapshotAdopts(t) ==
    /\ InSnapshot(t) /\ step[t] = "up"
    /\ rec[t] = None
    /\ IsGateway(listener)
    /\ record' = Claim(listener)
    /\ \E result \in {Claim(listener), Error} : Finds(t, result)
    /\ SnapshotKeeps

(* A recovery record is activated by what health, process and listener say. *)
Activated(r) ==
    IF r.recovery
    THEN [r EXCEPT !.recovery = FALSE, !.start = IF @ = 0 THEN proc[r.pid] ELSE @]
    ELSE r

(* The recorded process is gone or is another: the record goes, and the     *)
(* listener is left alone.                                                  *)
SnapshotDropsStale(t) ==
    /\ InSnapshot(t) /\ step[t] = "up"
    /\ rec[t] # None
    /\ Verdict(Activated(rec[t])) \in {"missing", "mismatch"}
    /\ record' = None
    /\ Finds(t, Error)
    /\ SnapshotKeeps

(* Record, process and listener agree; an activated record is written.      *)
SnapshotConfirms(t) ==
    /\ InSnapshot(t) /\ step[t] = "up"
    /\ rec[t] # None
    /\ Verdict(Activated(rec[t])) = "verified"
    /\ listener = rec[t].pid
    /\ record' = IF rec[t].recovery THEN Activated(rec[t]) ELSE record
    /\ Finds(t, Identity(Activated(rec[t])))
    /\ SnapshotKeeps

Snapshot(t) ==
    \/ SnapshotProbe(t) \/ SnapshotNotRunning(t) \/ SnapshotRefuses(t)
    \/ SnapshotAdopts(t) \/ SnapshotDropsStale(t) \/ SnapshotConfirms(t)

(* status: publish, clear_stopped, or fail_reconciliation                   *)
StatusEnds(t) ==
    LET a == AppOf[t] IN
    /\ At(t, "status", "done")
    /\ CASE found[t] = Error -> UNCHANGED owned /\ Returns(t)
         [] found[t] = None  -> SessionOwns(a, None) /\ StatusReturns(t)
         [] OTHER -> PublishSnapshot(a, found[t], FALSE) /\ StatusReturns(t)
    /\ UNCHANGED <<osVars, installed, record, bounds>>

(* start and restart: fail, reuse (can_reuse, start only), or go on         *)
CanReuse(id) == id.bundle = installed

PlanEnds(t) ==
    LET a == AppOf[t] IN
    /\ At(t, "plan", "done")
    /\ \/ found[t] = Error /\ UNCHANGED owned
       \/ /\ found[t] \notin {Error, None}
          /\ op[t] = "start" /\ CanReuse(found[t])
          /\ PublishSnapshot(a, found[t], FALSE)
    /\ Returns(t)
    /\ UNCHANGED <<osVars, installed, record, bounds>>

PlanGoesOn(t) ==
    LET a == AppOf[t] IN
    /\ At(t, "plan", "done")
    /\ \/ found[t] = None /\ SessionOwns(a, None)
       \/ /\ found[t] \notin {Error, None}
          /\ op[t] = "start" => ~CanReuse(found[t])
          /\ PublishSnapshot(a, found[t], FALSE)
    /\ Moves(t, "prepare", "enter")
    /\ UNCHANGED <<osVars, installed, record, gate, op, token, rec, child, found, bounds>>

(* The caller's prepare closure                                             *)
Prepare(t) ==
    /\ stage[t] = "prepare"
    /\ Moves(t, IF op[t] = "restart" THEN "stop" ELSE "replace", "enter")
    /\ UNCHANGED <<osVars, installed, record, gate, owned, op, token, rec, child, found, bounds>>

PrepareFails(t) ==
    /\ stage[t] = "prepare"
    /\ Returns(t)
    /\ UNCHANGED <<osVars, installed, record, owned, bounds>>

(***************************************************************************)
(* backend.stop (stage "stop") and, in backend.start, the stop of a        *)
(* Gateway of another bundle (stage "replace")                             *)
(***************************************************************************)

StopKeeps == UNCHANGED <<osVars, installed, gate, owned, op, token, child, bounds>>

(* replace_managed_proxy_from_previous_bundle: nothing to replace           *)
NothingToReplace(t) ==
    /\ At(t, "replace", "enter")
    /\ record # None /\ ~IsLegacy(record) => record.bundle = installed
    /\ Moves(t, "existing", "enter")
    /\ UNCHANGED <<record, rec, found>>
    /\ StopKeeps

(* Read the record and probe /health.                                       *)
StopProbe(t) ==
    /\ stage[t] \in StopStages /\ step[t] = "enter"
    /\ stage[t] = "replace" =>
          record # None /\ ~IsLegacy(record) /\ record.bundle # installed
    /\ rec' = [rec EXCEPT ![t] = record]
    /\ \E healthy \in Health :
          IF record = None
          THEN Finds(t, IF healthy THEN Error ELSE None)
          ELSE Moves(t, stage[t], IF healthy THEN "up" ELSE "down") /\ UNCHANGED found
    /\ UNCHANGED record
    /\ StopKeeps

(* An inspection, a probe, a file or the kill fails, or ownership is not    *)
(* certain: the record stays.                                               *)
StopRefuses(t) ==
    /\ stage[t] \in StopStages /\ step[t] # "done"
    /\ Finds(t, Error)
    /\ UNCHANGED <<record, rec>>
    /\ StopKeeps

(* The recorded process is gone: the record goes.  Only the replacement     *)
(* takes it for an error that somebody still answers on the port.           *)
StopFindsMissing(t) ==
    /\ stage[t] \in StopStages /\ step[t] \in {"up", "down"}
    /\ Verdict(rec[t]) = "missing"
    /\ record' = None
    /\ Finds(t, IF stage[t] = "replace" /\ step[t] = "up" THEN Error ELSE None)
    /\ UNCHANGED rec
    /\ StopKeeps

(* The PID now names another process: the record goes, nothing is touched.  *)
StopFindsMismatch(t) ==
    /\ stage[t] \in StopStages /\ step[t] \in {"up", "down"}
    /\ Verdict(rec[t]) = "mismatch"
    /\ record' = None
    /\ Finds(t, IF stage[t] = "replace" /\ step[t] = "down" THEN None ELSE Error)
    /\ UNCHANGED rec
    /\ StopKeeps

(* Verified, and the listener is its own: POST /shutdown, and wait.  A      *)
(* session stop of a silent process goes straight to the wait.              *)
StopRequests(t) ==
    /\ stage[t] \in StopStages /\ step[t] \in {"up", "down"}
    /\ Verdict(rec[t]) = "verified"
    /\ \/ step[t] = "up" /\ listener = rec[t].pid
       \/ At(t, "stop", "down")
    /\ Moves(t, stage[t], "wait")
    /\ UNCHANGED <<record, rec, found>>
    /\ StopKeeps

StopTrustsKill(t) ==
    /\ stage[t] \in StopStages /\ step[t] \in {"wait", "killed"}
    /\ step[t] = "killed" \/ Verdict(rec[t]) = "missing"
    /\ record' = None
    /\ Finds(t, None)
    /\ UNCHANGED rec
    /\ StopKeeps

(* The process is gone within the budget.                                   *)
StopWaited(t) ==
    /\ stage[t] \in StopStages /\ step[t] \in {"wait", "killed"}
    /\ Verdict(rec[t]) = "missing"
    /\ record' = None
    /\ Finds(t, None)
    /\ UNCHANGED rec
    /\ StopKeeps

(* The budget is used up.                                                   *)
StopTimesOut(t) ==
    /\ stage[t] \in StopStages /\ step[t] = "wait"
    /\ Moves(t, stage[t], "kill")
    /\ UNCHANGED <<record, rec, found>>
    /\ StopKeeps

(* force_kill_...: the process exited after all.                            *)
KillFindsMissing(t) ==
    /\ stage[t] \in StopStages /\ step[t] = "kill"
    /\ stage[t] = "stop" => ~IsLegacy(rec[t]) /\ token[t] = Identity(rec[t])
    /\ \/ Verdict(rec[t]) = "missing"
       \/ stage[t] = "replace" /\ Verdict(rec[t]) = "mismatch"
    /\ record' = None
    /\ Finds(t, IF stage[t] = "stop" THEN None ELSE Error)
    /\ UNCHANGED rec
    /\ StopKeeps

(* The fence of a force kill: require_current_session_identity (a session   *)
(* stop), then verify_proxy_process ...                                     *)
KillWithoutSession(t) ==
    /\ stage[t] \in StopStages
    /\ step[t] = "kill" \/ At(t, "replace", "down")
    /\ Verdict(rec[t]) = "verified"

MayKill(t) ==
    /\ stage[t] \in StopStages
    /\ step[t] = "kill" \/ At(t, "replace", "down")
    /\ stage[t] = "stop" => ~IsLegacy(rec[t]) /\ token[t] = Identity(rec[t])
    /\ Verdict(rec[t]) = "verified"

KillVerifies(t) ==
    /\ MayKill(t)
    /\ Moves(t, stage[t], "aim")
    /\ checked' = procs
    /\ UNCHANGED <<osVars, installed, record, gate, owned, op, token, rec, child, found, calls, faults>>

(* ... then, in a look of its own, the listener ...                         *)
KillFindsListener(t) ==
    /\ stage[t] \in StopStages /\ step[t] = "aim"
    /\ listener = rec[t].pid \/ (stage[t] = "stop" /\ listener = None)
    /\ Moves(t, stage[t], "fire")
    /\ UNCHANGED <<record, rec, found>>
    /\ StopKeeps

Dies(p) ==
    /\ proc' = [proc EXCEPT ![p] = 0]
    /\ listener' = IF listener = p THEN None ELSE listener

(* ... and then killer.kill(pid) starts taskkill or kill, which finds       *)
(* whatever has the PID by now, and which it may outlive for a while.       *)
Kill(t) ==
    /\ stage[t] \in StopStages /\ step[t] = "fire"
    /\ proc[rec[t].pid] # 0
    /\ Moves(t, stage[t], "killed")
    /\ Dies(rec[t].pid) \/ UNCHANGED <<proc, listener>>
    /\ UNCHANGED <<image, spawner, procs, installed, record, gate, owned,
                   op, token, rec, child, found, bounds>>

Stop(t) ==
    \/ NothingToReplace(t) \/ StopProbe(t) \/ StopRefuses(t)
    \/ StopFindsMissing(t) \/ StopFindsMismatch(t) \/ StopRequests(t)
    \/ StopWaited(t) \/ StopTimesOut(t) \/ KillFindsMissing(t)
    \/ KillVerifies(t) \/ KillFindsListener(t) \/ Kill(t)

(* stop() and a failed restart or replacement return ...                    *)
StopEnds(t) ==
    LET a == AppOf[t] IN
    /\ \/ At(t, "stop", "done") /\ op[t] # "restart" /\ found[t] = None
          /\ SessionOwns(a, None)
       \/ At(t, "stop", "done") /\ found[t] = Error /\ UNCHANGED owned
       \/ At(t, "replace", "done") /\ found[t] = Error /\ SessionOwns(a, None)
    /\ Returns(t)
    /\ UNCHANGED <<osVars, installed, record, bounds>>

(* ... a restart and a replacement go on.                                   *)
StopGoesOn(t) ==
    LET a == AppOf[t] IN
    /\ found[t] = None
    /\ \/ /\ At(t, "stop", "done") /\ op[t] = "restart"
          /\ SessionOwns(a, None)
          /\ Moves(t, "replace", "enter")
       \/ /\ At(t, "replace", "done")
          /\ UNCHANGED owned
          /\ Moves(t, "existing", "enter")
    /\ UNCHANGED <<osVars, installed, record, gate, op, token, rec, child, found, bounds>>

(***************************************************************************)
(* backend.start: start_with_paths_and_command_builder                     *)
(***************************************************************************)

(* A Gateway is running already, or the snapshot refused.                   *)
ExistingEnds(t) ==
    LET a == AppOf[t] IN
    /\ At(t, "existing", "done")
    /\ found[t] # None
    /\ IF found[t] = Error THEN SessionOwns(a, None)
                             ELSE PublishSnapshot(a, found[t], FALSE)
    /\ Returns(t)
    /\ UNCHANGED <<osVars, installed, record, bounds>>

NewProcess(p, img, a) ==
    /\ proc[p] = 0
    /\ procs < MaxProcs
    /\ procs' = procs + 1
    /\ proc' = [proc EXCEPT ![p] = procs + 1]
    /\ image' = [image EXCEPT ![procs + 1] = img]
    /\ spawner' = [spawner EXCEPT ![procs + 1] = a]
    /\ UNCHANGED listener

(* The PID of a child is not reused while its parent holds it.              *)
Unclaimed(p) == \A t \in Threads : child[t] # None => child[t].pid # p

(* remove_pid, spawn, and the recovery record, with the start id if         *)
(* spawned_process_start_id gives it.                                       *)
SpawnRecord(p, known) ==
    [pid |-> p, start |-> IF known THEN procs + 1 ELSE 0, recovery |-> TRUE,
     bundle |-> installed, adopted |-> FALSE]

Spawn(t) ==
    /\ At(t, "existing", "done") /\ found[t] = None
    /\ record' = None
    /\ \E p \in Pids, known \in BOOLEAN :
          /\ Unclaimed(p)
          /\ NewProcess(p, installed, AppOf[t])
          /\ child' = [child EXCEPT ![t] = SpawnRecord(p, known)]
          /\ Moves(t, "spawn", IF known THEN "wait" ELSE "kill")
    /\ UNCHANGED <<installed, gate, owned, op, token, rec, found, bounds>>

(* No script, no Python, no fork; the record may be gone already.           *)
SpawnFails(t) ==
    /\ At(t, "existing", "done") /\ found[t] = None
    /\ record' \in {record, None}
    /\ SessionOwns(AppOf[t], None)
    /\ Returns(t)
    /\ UNCHANGED <<osVars, installed, bounds>>

(* The port answers, and record, process and listener are the child's.      *)
SpawnUnfenced(t) ==
    /\ At(t, "spawn", "wait")
    /\ listener # None
    /\ record' = Identity(child[t])
    /\ child' = [child EXCEPT ![t] = Identity(@)]
    /\ Moves(t, "confirm", "enter")
    /\ UNCHANGED <<osVars, installed, gate, owned, op, token, rec, found, bounds>>

SpawnHealthy(t) ==
    /\ At(t, "spawn", "wait")
    /\ Verdict(Identity(child[t])) = "verified"
    /\ listener = child[t].pid
    /\ record' = Identity(child[t])
    /\ child' = [child EXCEPT ![t] = Identity(@)]
    /\ Moves(t, "confirm", "enter")
    /\ UNCHANGED <<osVars, installed, gate, owned, op, token, rec, found, bounds>>

(* Timed out, answered by another listener, a check or the snapshot failed. *)
SpawnUnconfirmed(t) ==
    /\ \/ At(t, "spawn", "wait")
       \/ At(t, "confirm", "done") /\ found[t] = Error
    /\ Moves(t, "spawn", "kill")
    /\ UNCHANGED <<osVars, installed, record, gate, owned, op, token, rec, child, found, bounds>>

(* All is verified, and write_pid_record fails.                             *)
SpawnWriteFails(t) ==
    /\ At(t, "spawn", "wait")
    /\ faults < MaxFaults
    /\ faults' = faults + 1
    /\ Verdict(Identity(child[t])) = "verified"
    /\ listener = child[t].pid
    /\ child' = [child EXCEPT ![t] = Identity(@)]
    /\ Moves(t, "spawn", "kill")
    /\ UNCHANGED <<osVars, installed, record, gate, owned, op, token, rec, found, calls, checked>>

(* StartupOutcome::Exited                                                   *)
SpawnExited(t) ==
    /\ At(t, "spawn", "wait")
    /\ proc[child[t].pid] = 0
    /\ record' = None
    /\ SessionOwns(AppOf[t], None)
    /\ Returns(t)
    /\ UNCHANGED <<osVars, installed, bounds>>

(* The last snapshot is Ok; without an identity publish_snapshot fails.     *)
ConfirmEnds(t) ==
    LET a == AppOf[t] IN
    /\ At(t, "confirm", "done")
    /\ found[t] # Error
    /\ IF found[t] = None THEN SessionOwns(a, None)
                          ELSE PublishSnapshot(a, found[t], TRUE)
    /\ Returns(t)
    /\ UNCHANGED <<osVars, installed, record, bounds>>

(* clean_up_failed_start: the child's exit is confirmed ...                 *)
CleanUpConfirmed(t) ==
    /\ At(t, "spawn", "kill")
    /\ Dies(child[t].pid)
    /\ record' \in {record, None}
    /\ SessionOwns(AppOf[t], None)
    /\ Returns(t)
    /\ UNCHANGED <<image, spawner, procs, installed, bounds>>

(* ... or it is not: a child that may live keeps a durable record, and its  *)
(* identity stays the session's.  Verdict answers unknown for a recovery    *)
(* record; any other inspection may fail and answer unknown as well.        *)
CleanUpForgets(t) ==
    /\ At(t, "spawn", "kill")
    /\ SessionOwns(AppOf[t], None)
    /\ UNCHANGED record
    /\ Returns(t)
    /\ UNCHANGED <<osVars, installed, bounds>>

CleanUpUnconfirmed(t) ==
    LET a == AppOf[t] IN
    /\ At(t, "spawn", "kill")
    /\ \E verdict \in {Verdict(child[t]), "unknown"} :
          CASE verdict \in {"verified", "unknown"} ->
                   record' = child[t] /\ SessionOwns(a, Identity(child[t]))
            [] verdict = "missing"  -> record' = None /\ SessionOwns(a, None)
            [] verdict = "mismatch" -> UNCHANGED record /\ SessionOwns(a, None)
    /\ Returns(t)
    /\ UNCHANGED <<osVars, installed, bounds>>

(* ... unless that record cannot be written.                                *)
CleanUpWriteFails(t) ==
    /\ At(t, "spawn", "kill")
    /\ faults < MaxFaults
    /\ faults' = faults + 1
    /\ SessionOwns(AppOf[t], None)
    /\ Returns(t)
    /\ UNCHANGED <<osVars, installed, record, calls, checked>>

Start(t) ==
    \/ ExistingEnds(t) \/ Spawn(t) \/ SpawnFails(t) \/ SpawnHealthy(t)
    \/ SpawnUnconfirmed(t) \/ SpawnExited(t) \/ ConfirmEnds(t)
    \/ CleanUpConfirmed(t) \/ CleanUpUnconfirmed(t)

WriteFails(t) == SpawnWriteFails(t) \/ CleanUpWriteFails(t)

(***************************************************************************)
(* The machine                                                             *)
(***************************************************************************)

ProcessExits(p) ==
    /\ proc[p] # 0
    /\ Dies(p)
    /\ UNCHANGED <<image, spawner, procs, installed, record, gate, owned, callVars, bounds>>

(* An unrelated process takes a free PID.                                   *)
ProcessStarts(p) ==
    /\ Unclaimed(p)
    /\ NewProcess(p, "other", None)
    /\ UNCHANGED <<installed, record, gate, owned, callVars, bounds>>

(* A Gateway, or another program, binds the port.                           *)
Binds(p) ==
    /\ proc[p] # 0
    /\ listener = None
    /\ listener' = p
    /\ UNCHANGED <<proc, image, spawner, procs, installed, record, gate, owned, callVars, bounds>>

(* The app is updated in place.                                             *)
Upgrade(b) ==
    /\ b # installed
    /\ installed' = b
    /\ UNCHANGED <<osVars, record, gate, owned, callVars, bounds>>

(* An app dies with all its calls; its session ends, its Gateway lives on.  *)
AppCrash(a) ==
    LET mine == {t \in Threads : AppOf[t] = a}
        Reset(f, v) == [t \in Threads |-> IF t \in mine THEN v ELSE f[t]]
    IN  /\ faults < MaxFaults
        /\ \E t \in mine : stage[t] # "idle"
        /\ faults' = faults + 1
        /\ SessionOwns(a, None)
        /\ op' = Reset(op, "none")
        /\ stage' = Reset(stage, "idle")
        /\ step' = Reset(step, "enter")
        /\ token' = Reset(token, None)
        /\ rec' = Reset(rec, None)
        /\ child' = Reset(child, None)
        /\ found' = Reset(found, None)
        /\ gate' = IF gate \in mine THEN None ELSE gate
        /\ spawner' = [n \in Starts |-> IF spawner[n] = a THEN None ELSE spawner[n]]
        /\ UNCHANGED <<proc, image, procs, listener, installed, record, calls, checked>>

-----------------------------------------------------------------------------

CallStep(t) ==
    \/ ThenStop(t) \/ Acquire(t) \/ InspectFree(t) \/ InspectHeld(t)
    \/ Snapshot(t) \/ StatusEnds(t) \/ PlanEnds(t) \/ PlanGoesOn(t)
    \/ Prepare(t) \/ PrepareFails(t)
    \/ Stop(t) \/ StopEnds(t) \/ StopGoesOn(t) \/ Start(t)

Machine ==
    \/ \E p \in Pids : ProcessExits(p) \/ ProcessStarts(p) \/ Binds(p)
    \/ \E b \in Bundles : Upgrade(b)
    \/ \E a \in Apps : AppCrash(a)

Next ==
    \/ \E t \in Threads, o \in Ops \ {"none"} : Call(t, o)
    \/ \E t \in Threads : CallStep(t) \/ GateFails(t) \/ WriteFails(t)
    \/ Machine

Spec == Init /\ [][Next]_vars

-----------------------------------------------------------------------------
(* Properties *)

LiveGateways == {p \in Pids : IsGateway(p)}

(* Names(r) holds of what a record, an identity or a token may say: its     *)
(* start id, if it has one, was the start id of a Gateway.                  *)
Names(r) == r # None /\ r.start # 0 => image[r.start] \in Bundles

(* Whatever dies, restarts or reuses a PID, a durable record or a session   *)
(* identity never names a process that was not a Gateway: adoption, the     *)
(* activation of a recovery record without a start id, and a spawn whose    *)
(* start id could not be read all stay on the right side.                   *)
IdentitiesNameGateways ==
    /\ TypeOK
    /\ Names(record)
    /\ \A a \in Apps : Names(owned[a])

(* killer.kill is called in this step.                                      *)
Kills(t) == step[t] # "killed" /\ step'[t] = "killed"

(* stop() and restart_after() read the session identity before they wait    *)
(* for the gate, other processes start and stop Gateways meanwhile, and the *)
(* kill goes by PID, after the checks: still, a session stop only ever hits *)
(* a Gateway that this very app session spawned, and a replacement only a   *)
(* Gateway, unless that process exited after verify_proxy_process had found *)
(* it and its PID was given to a process that started later still.          *)
KillsOnlyItsOwn ==
    [][\A t \in Threads : Kills(t) =>
          LET n == proc[rec[t].pid] IN
          \/ /\ n = rec[t].start /\ image[n] \in Bundles
             /\ stage[t] = "stop" => spawner[n] = AppOf[t]
          \/ n > checked]_vars

(* A stop or the first half of a restart that ends well has stopped the     *)
(* process of the record it found, and left no record behind.               *)
StoppedMeansGone ==
    \A t \in Threads : At(t, "stop", "done") /\ found[t] = None =>
        /\ record = None
        /\ rec[t] # None /\ rec[t].start # 0 => \A p \in Pids : proc[p] # rec[t].start

(* As long as no app died and every record could be written, starts,        *)
(* restarts and failed starts never leave two Gateways alive.               *)
SingleGateway == faults = 0 => Cardinality(LiveGateways) <= 1

(* A live Gateway that has a record keeps it: snapshots, stops and starts   *)
(* remove records of processes that are gone.  The one exception is a        *)
(* status snapshot that read an earlier record, which has been replaced by   *)
(* an adoption since, and removes what is there now (status snapshots share  *)
(* the gate); that takes a Gateway nobody recorded, hence a crash or a       *)
(* record that could not be written.                                         *)
LiveRecordKept ==
    [][record # None /\ record.start # 0 /\ proc[record.pid] = record.start /\ proc' = proc =>
          \/ record' # None
          \/ faults > 0 /\ \E t \in Threads : stage[t] = "status" /\ rec[t] \notin {None, record}]_vars

(* Both together: what a stop, a replacement, a status snapshot or a start   *)
(* of one app does never costs another app its live Gateway or the record    *)
(* by which it is found.                                                     *)
SparesLiveGateways == KillsOnlyItsOwn /\ LiveRecordKept
=============================================================================
