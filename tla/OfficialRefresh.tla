-------------------------- MODULE OfficialRefresh --------------------------
(***************************************************************************)
(* The publication of an Official model snapshot: refresh_once and         *)
(* publish_prepared_snapshot of official_refresh.rs, the rollback of       *)
(* file_transaction.rs, and the switch lock and the process checks of      *)
(* codex_desktop.rs that keep it apart from Codex Desktop and from the     *)
(* writers of settings.                                                    *)
(*                                                                         *)
(* A snapshot is a number; 0 is none.  It reaches three files in turn: the *)
(* generated catalog, the managed part of Codex's configuration ("runtime")*)
(* and the refresh state, whose fence "ready" tells readers whether the    *)
(* published budgets may be trusted.  The catalog comes with a cache that  *)
(* tells when the snapshot was fetched.  All apps are of one flavor; the   *)
(* configuration may belong to another one, or to the user.                *)
(***************************************************************************)
EXTENDS Integers, FiniteSets

CONSTANTS
    Apps,           \* processes that refresh
    None,
    MaxSnapshot,    \* bound: snapshots the upstream may offer
    MaxChanges,     \* bound: how often it changes its mind
    MaxFaults,      \* bound: failed calls, files and status checks
    MaxRestoreFaults,   \* bound: failed restores of a file
    MaxCrashes      \* bound

ASSUME ConstantsAssumption ==
    /\ None \notin Apps
    /\ {MaxSnapshot, MaxChanges, MaxFaults, MaxRestoreFaults, MaxCrashes} \subseteq Nat
    /\ MaxSnapshot > 0

VARIABLES
    disk,       \* the files
    codex,      \* Codex Desktop is running
    owned,      \* its configuration is managed by this flavor
    upstream,   \* the snapshot the upstream offers
    lock,       \* the holder of the switch lock
    pc,         \* where each app is
    call,       \* the local variables of its call
    saved,      \* the last setting a user saved
    changes, faults, restoreFaults, crashes,
    unfinished, \* history: publications neither completed nor undone since the last complete one
    torn        \* history: Codex's configuration could not be restored since then

world == <<codex, owned, upstream, changes, saved, crashes>>
bounds == <<faults, restoreFaults>>
history == <<unfinished, torn>>
vars == <<disk, lock, pc, call, world, bounds, history>>

Snapshots == 0 .. MaxSnapshot

(* How long ago something happened, against the interval of twelve hours *)
Ages == {"never", "old", "recent"}

(* A resume of the machine is treated as the scheduled refresh is *)
Triggers == {"startup", "manual", "scheduled"}

(* read_state: a missing or unreadable file counts as this one.  Besides   *)
(* the fence, the budgets and the demand for a restart it has the age of   *)
(* the last success and whether automatic work was attempted recently.     *)
NoState == [ready |-> FALSE, budgets |-> 0, restart |-> FALSE, success |-> "never", tried |-> FALSE]
States == [ready : BOOLEAN, budgets : Snapshots, restart : BOOLEAN, success : Ages, tried : BOOLEAN]

(* Of the settings, include_official_models stands for all of them *)
Disks == [catalog : Snapshots, fetched : Ages, runtime : Snapshots, setting : BOOLEAN, state : States]

Installed == [catalog |-> 0, fetched |-> "never", runtime |-> 0, setting |-> TRUE, state |-> NoState]

(* What it was asked to do, its copy of the state, the files as they were  *)
(* before its transaction, what it acquired, whether the projection changed *)
(* Codex's configuration, and whether a restore failed                      *)
NoCall == [op |-> "manual", mem |-> NoState, snap |-> Installed, got |-> 0, changed |-> FALSE, bad |-> FALSE]
Calls == [op : Triggers, mem : States, snap : Disks, got : Snapshots, changed : BOOLEAN, bad : BOOLEAN]

Init ==
    /\ disk = Installed
    /\ codex \in BOOLEAN /\ owned \in BOOLEAN
    /\ upstream = 1
    /\ lock = None
    /\ pc = [a \in Apps |-> "idle"]
    /\ call = [a \in Apps |-> NoCall]
    /\ saved = TRUE
    /\ changes = 0 /\ faults = 0 /\ restoreFaults = 0 /\ crashes = 0
    /\ unfinished = 0 /\ torn = FALSE

-----------------------------------------------------------------------------
Goto(a, label) == pc' = [pc EXCEPT ![a] = label] /\ UNCHANGED lock

Going(a, label) == Goto(a, label) /\ UNCHANGED call

(* The lock is dropped with its file *)
Return(a) ==
    /\ lock' = None
    /\ pc' = [pc EXCEPT ![a] = "idle"]
    /\ call' = [call EXCEPT ![a] = NoCall]

(* A call, a check or a write fails *)
Fault == faults < MaxFaults /\ faults' = faults + 1 /\ UNCHANGED restoreFaults

(* A trigger waits for the switch lock and takes it.  Automatic work asks  *)
(* about Codex first (coordinate_unattended), a manual refresh does not.   *)
Begin(a, o) ==
    /\ pc[a] = "idle" /\ lock = None
    /\ lock' = a
    /\ call' = [call EXCEPT ![a].op = o]
    /\ pc' = [pc EXCEPT ![a] = IF o = "manual" THEN "read" ELSE "stopped"]
    /\ UNCHANGED <<disk, world, bounds, history>>

(* Mutant: settings are saved without the switch lock *)
SaveUnlocked ==
    /\ saved' = ~saved
    /\ disk' = [disk EXCEPT !.setting = saved']
    /\ UNCHANGED <<lock, pc, call, codex, owned, upstream, changes, crashes, bounds, history>>

(* save_settings under serialize_config_writer: the lock is taken and given *)
(* back around one write                                                    *)
SaveSetting ==
    /\ lock = None
    /\ saved' = ~saved
    /\ disk' = [disk EXCEPT !.setting = saved']
    /\ UNCHANGED <<lock, pc, call, codex, owned, upstream, changes, crashes, bounds, history>>

(* Automatic work is deferred while Codex Desktop runs *)
CheckStopped(a) ==
    /\ pc[a] = "stopped"
    /\ \/ codex /\ Return(a) /\ UNCHANGED bounds
       \/ ~codex /\ Going(a, "read") /\ UNCHANGED bounds
       \/ Fault /\ Return(a)
    /\ UNCHANGED <<disk, world, history>>

(* hydrate_last_success_from_cached_snapshot *)
Success == IF disk.state.success = "never" THEN disk.fetched ELSE disk.state.success

(* automatic_refresh_due *)
Due == Success # "recent" /\ ~disk.state.tried

(* Mutant: scheduled work only renews what has been published *)
AttemptIfPublished(a) == call[a].op \in {"startup", "manual"} \/ (disk.state.ready /\ Due)

(* should_attempt *)
ShouldAttempt(a) == call[a].op \in {"startup", "manual"} \/ Due

(* current_published_snapshot_available *)
Available == disk.state.ready /\ disk.state.budgets # 0 /\ disk.catalog = disk.state.budgets

(* record_attempt: lowers the fence in memory only *)
Attempted(a) ==
    [disk.state EXCEPT !.ready = FALSE, !.success = Success, !.tried = @ \/ call[a].op # "manual"]

(* Nothing is attempted for a user who does not want Official models *)
ReadState(a) ==
    /\ pc[a] = "read"
    /\ \/ disk.setting /\ ShouldAttempt(a) /\ call' = [call EXCEPT ![a].mem = Attempted(a)] /\ Goto(a, "acquire")
       \/ ~(disk.setting /\ ShouldAttempt(a)) /\ Return(a)
    /\ UNCHANGED <<disk, world, bounds, history>>

(* A failed acquisition returns before anything is written *)
Acquire(a) ==
    /\ pc[a] = "acquire"
    /\ \/ call' = [call EXCEPT ![a].got = upstream] /\ Goto(a, "prepare") /\ UNCHANGED bounds
       \/ Fault /\ Return(a)
    /\ UNCHANGED <<disk, world, history>>

Prepare(a) ==
    /\ pc[a] = "prepare"
    /\ \/ Going(a, "gate") /\ UNCHANGED bounds
       \/ Fault /\ Going(a, "fence")
    /\ UNCHANGED <<disk, world, history>>

(* commit_refresh_if_codex_stopped: the acquisition may have taken long *)
Gate(a) ==
    /\ pc[a] = "gate"
    /\ \/ codex /\ Return(a) /\ UNCHANGED bounds
       \/ ~codex /\ Going(a, "snapshot") /\ UNCHANGED bounds
       \/ Fault /\ Going(a, "fence")
    /\ UNCHANGED <<disk, world, history>>

-----------------------------------------------------------------------------
(* publish_prepared_snapshot inside with_text_file_rollback                *)

Snapshot(a) ==
    /\ pc[a] = "snapshot"
    /\ \/ call' = [call EXCEPT ![a].snap = disk] /\ Goto(a, "publish") /\ UNCHANGED bounds
       \/ Fault /\ Going(a, "fence")
    /\ UNCHANGED <<disk, world, history>>

(* Several files make up the catalog: a failure may follow any of them *)
Publish(a) ==
    LET cached == [disk EXCEPT !.fetched = "recent"]
        published == [cached EXCEPT !.catalog = call[a].got] IN
    /\ pc[a] = "publish"
    /\ \/ disk' = published /\ Going(a, "project") /\ UNCHANGED bounds
       \/ Fault /\ disk' \in {disk, cached, published} /\ Going(a, "state")
    /\ UNCHANGED <<world, history>>

(* republish_managed_codex_context_budget, if Codex is still stopped: it    *)
(* writes a configuration of this flavor and leaves any other alone         *)
Projected == IF owned THEN [disk EXCEPT !.runtime = disk.catalog] ELSE disk

Project(a) ==
    /\ pc[a] = "project"
    /\ \/ /\ ~codex
          /\ disk' = Projected
          /\ call' = [call EXCEPT ![a].changed = disk.runtime # Projected.runtime]
          /\ Goto(a, "recheck") /\ UNCHANGED bounds
       \/ codex /\ Going(a, "state") /\ UNCHANGED <<disk, bounds>>
       \/ Fault /\ disk' \in {disk, Projected} /\ Going(a, "state")
    /\ UNCHANGED <<world, history>>

Recheck(a) ==
    /\ pc[a] = "recheck"
    /\ \/ ~codex /\ Going(a, "commit") /\ UNCHANGED bounds
       \/ codex /\ Going(a, "state") /\ UNCHANGED bounds
       \/ Fault /\ Going(a, "state")
    /\ UNCHANGED <<disk, world, history>>

(* Mutant: the disclosure is that of the last publication *)
NextStateAfresh(a) == 
    [ready |-> TRUE, budgets |-> call[a].got, restart |-> call[a].changed, success |-> "recent",
     tried |-> call[a].mem.tried]

(* finalize_published_snapshot *)
NextState(a) ==
    [ready |-> TRUE, budgets |-> call[a].got, restart |-> call[a].mem.restart \/ call[a].changed,
     success |-> "recent", tried |-> call[a].mem.tried]

WriteState(a) ==
    /\ pc[a] = "commit"
    /\ \/ /\ disk' = [disk EXCEPT !.state = NextState(a)]
          /\ unfinished' = 0 /\ torn' = FALSE
          /\ Return(a) /\ UNCHANGED bounds
       \/ Fault /\ Going(a, "state") /\ UNCHANGED <<disk, history>>
    /\ UNCHANGED world

(* The files are restored last one first, each whatever became of the one  *)
(* before.  An app at the name of a file is about to restore it.           *)
AfterRestore == [state |-> "setting", setting |-> "runtime", runtime |-> "catalog", catalog |-> "rolled"]

(* The files as they were before the transaction of a, but for the file f *)
Undone(a, f) ==
    IF f = "catalog" THEN [disk EXCEPT !.catalog = call[a].snap.catalog, !.fetched = call[a].snap.fetched]
    ELSE [disk EXCEPT ![f] = call[a].snap[f]]

(* Mutant: Codex's configuration is not among the restored files *)
RestoreWithoutRuntime(a) ==
    /\ pc[a] \in DOMAIN AfterRestore
    /\ disk' = IF pc[a] = "runtime" THEN disk ELSE Undone(a, pc[a])
    /\ Going(a, AfterRestore[pc[a]])
    /\ UNCHANGED <<world, bounds, history>>

Restore(a) ==
    /\ pc[a] \in DOMAIN AfterRestore
    /\ disk' = Undone(a, pc[a])
    /\ Going(a, AfterRestore[pc[a]])
    /\ UNCHANGED <<world, bounds, history>>

RestoreFails(a) ==
    /\ pc[a] \in DOMAIN AfterRestore
    /\ restoreFaults < MaxRestoreFaults /\ restoreFaults' = restoreFaults + 1
    /\ call' = [call EXCEPT ![a].bad = TRUE]
    /\ torn' = (torn \/ (pc[a] = "runtime" /\ disk.runtime # call[a].snap.runtime))
    /\ Goto(a, AfterRestore[pc[a]])
    /\ UNCHANGED <<disk, world, faults, unfinished>>

(* The transaction of a ends here, and its files are not as they were *)
Unfinished(a) ==
    /\ pc[a] \in {"project", "recheck", "commit", "rolled"} \cup DOMAIN AfterRestore
    /\ disk.catalog # call[a].snap.catalog \/ disk.runtime # call[a].snap.runtime

CountUnfinished(a) == unfinished' = IF Unfinished(a) THEN unfinished + 1 ELSE unfinished

(* A failed rollback ends the call.  After any other failed publication the *)
(* lowered fence is written, if Codex is stopped.                           *)
RollbackFailed(a) ==
    /\ pc[a] = "rolled" /\ call[a].bad
    /\ CountUnfinished(a)
    /\ Return(a)
    /\ UNCHANGED <<disk, world, bounds, torn>>

PersistFence(a) ==
    /\ pc[a] = "fence" \/ (pc[a] = "rolled" /\ ~call[a].bad)
    /\ \/ ~codex /\ disk' = [disk EXCEPT !.state = call[a].mem] /\ UNCHANGED bounds
       \/ codex /\ UNCHANGED <<disk, bounds>>
       \/ Fault /\ UNCHANGED disk
    /\ Return(a)
    /\ UNCHANGED <<world, history>>

-----------------------------------------------------------------------------
(* The rest of the machine                                                 *)

CodexStartsOrStops ==
    /\ codex' = ~codex
    /\ UNCHANGED <<disk, lock, pc, call, owned, upstream, changes, saved, crashes, bounds, history>>

UpstreamChanges ==
    /\ changes < MaxChanges /\ changes' = changes + 1
    /\ upstream' \in Snapshots \ {0, upstream}
    /\ UNCHANGED <<disk, lock, pc, call, codex, owned, saved, crashes, bounds, history>>

Aged(age) == IF age = "recent" THEN "old" ELSE age

(* An attempt is short against the interval of twelve hours *)
IntervalPasses ==
    /\ lock = None /\ ~Due
    /\ disk' = [disk EXCEPT !.fetched = Aged(@), !.state.success = Aged(@), !.state.tried = FALSE]
    /\ UNCHANGED <<lock, pc, call, world, bounds, history>>

(* A process dies anywhere, also between two files of the catalog *)
Crash(a) ==
    /\ crashes < MaxCrashes /\ crashes' = crashes + 1
    /\ pc[a] # "idle" /\ pc' = [pc EXCEPT ![a] = "idle"]
    /\ call' = [call EXCEPT ![a] = NoCall]
    /\ lock' = IF lock = a THEN None ELSE lock
    /\ disk' \in IF pc[a] = "publish" THEN {disk, [disk EXCEPT !.fetched = "recent"]} ELSE {disk}
    /\ CountUnfinished(a)
    /\ UNCHANGED <<codex, owned, upstream, changes, saved, bounds, torn>>

Work(a) ==
    \/ CheckStopped(a) \/ ReadState(a) \/ Acquire(a) \/ Prepare(a) \/ Gate(a)
    \/ Snapshot(a) \/ Publish(a) \/ Project(a) \/ Recheck(a) \/ WriteState(a)
    \/ Restore(a) \/ RestoreFails(a) \/ RollbackFailed(a) \/ PersistFence(a)

Next ==
    \/ \E a \in Apps : (\E o \in Triggers : Begin(a, o)) \/ Work(a) \/ Crash(a)
    \/ SaveSetting \/ CodexStartsOrStops \/ UpstreamChanges \/ IntervalPasses

Spec == Init /\ [][Next]_vars

(* The thread of a call runs, the operating system grants a lock in the end, *)
(* and start_scheduled_refresh_loop keeps asking, in a thread of its own     *)
FairSpec ==
    /\ Spec
    /\ WF_vars(\E a \in Apps : Work(a))
    /\ SF_vars(\E a \in Apps : Begin(a, "scheduled"))
    /\ SF_vars(IntervalPasses)

-----------------------------------------------------------------------------
Labels == {"idle", "stopped", "read", "acquire", "prepare", "gate", "snapshot", "publish",
           "project", "recheck", "commit", "state", "setting", "runtime", "catalog", "rolled", "fence"}

(* The app that is in a call holds the switch lock *)
TypeOK ==
    /\ disk \in Disks /\ codex \in BOOLEAN /\ owned \in BOOLEAN /\ upstream \in Snapshots \ {0}
    /\ lock \in Apps \cup {None}
    /\ pc \in [Apps -> Labels] /\ call \in [Apps -> Calls]
    /\ saved \in BOOLEAN /\ unfinished \in Nat /\ torn \in BOOLEAN
    /\ changes \in 0 .. MaxChanges
    /\ faults \in 0 .. MaxFaults /\ restoreFaults \in 0 .. MaxRestoreFaults /\ crashes \in 0 .. MaxCrashes
    /\ \A a \in Apps : (pc[a] # "idle") <=> (lock = a)

(* What official_refresh.rs:598-600 says: no failure leaves a catalog that  *)
(* counts as current and that Codex's configuration does not have           *)
FenceIsKept == \A a \in Apps : pc[a] = "read" /\ Available /\ owned => disk.runtime = disk.catalog

(***************************************************************************)
(* When a refresh asks whether the published snapshot is available and is  *)
(* told that it is, a configuration of this flavor has the snapshot of the *)
(* catalog, whichever publications failed or were cut off, except after    *)
(* one of two things since a publication was last completed: the rollback  *)
(* could not restore the configuration, or two publications ended with     *)
(* files that are neither the old nor the new ones.                        *)
(***************************************************************************)
SnapshotIsSafe == FenceIsKept \/ torn \/ unfinished > 1

(***************************************************************************)
(* A rollback never overwrites a setting that a user saved meanwhile.      *)
(***************************************************************************)
SettingsSurvive == disk.setting = saved

(***************************************************************************)
(* The configuration changed: the durable demand for a restart of Codex is *)
(* not lost again by later publications, failed or not.                    *)
(***************************************************************************)
RestartIsDisclosed ==
    restoreFaults = 0 /\ crashes = 0 =>
        \A a \in Apps : pc[a] = "read" /\ disk.runtime # 0 => disk.state.restart

(***************************************************************************)
(* Once Codex Desktop stays closed, Official models stay wanted and the    *)
(* faults end, the snapshot of the upstream is published in the end, to    *)
(* the catalog and to a configuration of this flavor: no failure or crash, *)
(* nor the state they leave behind, stops the scheduled refresh for good.  *)
(***************************************************************************)
Recovers ==
    <>[](~codex /\ disk.setting) =>
        <>[](Available /\ disk.catalog = upstream /\ (owned => disk.runtime = upstream))
=============================================================================
