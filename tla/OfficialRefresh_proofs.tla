----------------------- MODULE OfficialRefresh_proofs -----------------------
(***************************************************************************)
(* Safety of the publication of an Official snapshot for any number of     *)
(* processes, snapshots, faults and crashes.  RefreshInv says what the     *)
(* files hold at every point of a transaction, in terms of the files as    *)
(* they were before it, and which of those earlier files a reader may      *)
(* trust.                                                                  *)
(***************************************************************************)
EXTENDS OfficialRefresh, TLAPS

(* The points of a call before its transaction, and inside it.              *)
Before == {"acquire", "prepare", "gate", "snapshot", "fence"}
Inside == {"publish", "project", "recheck", "commit", "state", "setting", "runtime", "catalog", "rolled"}

(* A snapshot said to be ready is in the catalog and in a configuration of  *)
(* this flavor.                                                             *)
Complete(d) == d.state.ready => d.catalog = d.state.budgets /\ (owned => d.runtime = d.state.budgets)

(* A configuration that was ever written is disclosed as needing a restart. *)
Disclosed(d) == d.runtime # 0 => d.state.restart

(* What Available relies on: it survives one unfinished publication.        *)
Trusted(d) ==
    d.state.ready /\ d.state.budgets # 0 /\ d.catalog = d.state.budgets => (owned => d.runtime = d.catalog)

Sound(d) ==
    /\ restoreFaults = 0 /\ crashes = 0 => Disclosed(d)
    /\ ~torn /\ unfinished = 0 => Complete(d)
    /\ ~torn /\ unfinished <= 1 => Trusted(d)

(* Nobody saved a setting or wrote the state since the files were recorded. *)
SnapIsCurrent(a) ==
    pc[a] \in Inside => call[a].snap.setting = disk.setting /\ call[a].snap.state = disk.state

(* The copy of the state in memory has the fence down and lost no disclosure. *)
MemIsCurrent(a) ==
    pc[a] \in Before \cup Inside => ~call[a].mem.ready /\ call[a].mem.restart = disk.state.restart

(* How far the publication got: which of the two files are new.             *)
Progress(a) ==
    LET c == call[a] IN
    /\ pc[a] = "publish" => disk.catalog = c.snap.catalog /\ disk.runtime = c.snap.runtime
    /\ pc[a] = "project" => disk.catalog = c.got /\ disk.runtime = c.snap.runtime
    /\ pc[a] \in {"recheck", "commit"} =>
           /\ disk.catalog = c.got /\ disk.runtime = (IF owned THEN c.got ELSE c.snap.runtime)
           /\ c.changed = (c.snap.runtime # disk.runtime)

(* How far the rollback got, if the restores of these files did not fail.   *)
Restored(a) ==
    /\ restoreFaults = 0 \/ pc[a] = "idle" => ~call[a].bad
    /\ restoreFaults = 0 => ~torn
    /\ ~torn /\ pc[a] \in Inside => disk.runtime \in {call[a].snap.runtime, disk.catalog}
    /\ ~torn /\ pc[a] \in {"catalog", "rolled"} => disk.runtime = call[a].snap.runtime
    /\ ~call[a].bad /\ pc[a] = "rolled" => disk.catalog = call[a].snap.catalog

(* Outside transactions the files are sound, and inside one those that a    *)
(* rollback will bring back.                                                *)
FilesAreSound ==
    /\ (\A a \in Apps : pc[a] \notin Inside) => Sound(disk)
    /\ \A a \in Apps : pc[a] \in Inside => Sound(call[a].snap)

RefreshInv ==
    /\ TypeOK
    /\ SettingsSurvive
    /\ \A a \in Apps : SnapIsCurrent(a) /\ MemIsCurrent(a) /\ Progress(a) /\ Restored(a)
    /\ FilesAreSound

(* Every initial state satisfies the invariant: nothing was published yet.  *)
LEMMA RefreshInitially == Init => RefreshInv
<1> SUFFICES ASSUME Init PROVE RefreshInv
  OBVIOUS
<1>1. 0 \in Snapshots /\ 1 \in Snapshots \ {0} /\ "never" \in Ages
  BY ConstantsAssumption DEF Snapshots, Ages
<1>2. NoState \in States
  BY <1>1 DEF NoState, States
<1>3. Installed \in Disks
  BY <1>1, <1>2 DEF Installed, Disks
<1>4. NoCall \in Calls
  BY <1>1, <1>2, <1>3 DEF NoCall, Calls, Triggers
<1>5. TypeOK
  <2>1. codex \in BOOLEAN /\ owned \in BOOLEAN /\ saved \in BOOLEAN /\ torn \in BOOLEAN
    BY Zenon DEF Init
  <2> QED
    BY <2>1, <1>1, <1>3, <1>4, ConstantsAssumption DEF Init, TypeOK, Labels
<1>6. SettingsSurvive /\ Sound(disk)
  BY DEF Init, SettingsSurvive, Installed, NoState, Sound, Complete, Disclosed, Trusted
<1>7. ~torn /\ \A a \in Apps : pc[a] = "idle" /\ ~call[a].bad
  BY DEF Init, NoCall
<1> QED
  BY <1>5, <1>6, <1>7
  DEF RefreshInv, SnapIsCurrent, MemIsCurrent, Progress, Restored, FilesAreSound, Before, Inside

-----------------------------------------------------------------------------
(* Types                                                                   *)

(* Writing one file, or one field of a call, leaves the types right.        *)
LEMMA DiskFields ==
    ASSUME NEW d \in Disks
    PROVE  /\ \A s \in Snapshots : [d EXCEPT !.catalog = s] \in Disks /\ [d EXCEPT !.runtime = s] \in Disks
           /\ \A s \in Ages : [d EXCEPT !.fetched = s] \in Disks
           /\ \A s \in BOOLEAN : [d EXCEPT !.setting = s] \in Disks
           /\ \A s \in States : [d EXCEPT !.state = s] \in Disks
           /\ d.catalog \in Snapshots /\ d.runtime \in Snapshots /\ d.fetched \in Ages
           /\ d.setting \in BOOLEAN /\ d.state \in States
  BY DEF Disks

LEMMA CallFields ==
    ASSUME NEW c \in Calls
    PROVE  /\ \A o \in Triggers : [c EXCEPT !.op = o] \in Calls
           /\ \A s \in States : [c EXCEPT !.mem = s] \in Calls
           /\ \A d \in Disks : [c EXCEPT !.snap = d] \in Calls
           /\ \A s \in Snapshots : [c EXCEPT !.got = s] \in Calls
           /\ \A b \in BOOLEAN : [c EXCEPT !.changed = b] \in Calls /\ [c EXCEPT !.bad = b] \in Calls
           /\ c.mem \in States /\ c.snap \in Disks /\ c.got \in Snapshots /\ c.changed \in BOOLEAN
  BY DEF Calls

LEMMA EmptyCall == NoCall \in Calls
<1>1. 0 \in Snapshots /\ "never" \in Ages
  BY ConstantsAssumption DEF Snapshots, Ages
<1>2. NoState \in States
  BY <1>1 DEF NoState, States
<1>3. Installed \in Disks
  BY <1>1, <1>2 DEF Installed, Disks
<1> QED
  BY <1>1, <1>2, <1>3 DEF NoCall, Calls, Triggers

(* An app in a call is the only one.                                        *)
LEMMA AloneInside ==
    ASSUME TypeOK, NEW a \in Apps, pc[a] # "idle"
    PROVE  lock = a /\ \A b \in Apps \ {a} : pc[b] = "idle"
  BY DEF TypeOK

(* Where an app goes, with or without its call, keeps the types.            *)
LEMMA TypedMoves ==
    ASSUME TypeOK, NEW a \in Apps
    PROVE  /\ \A l \in Labels \ {"idle"} : pc[a] # "idle" /\ Goto(a, l) =>
                  /\ pc' \in [Apps -> Labels] /\ lock' \in Apps \cup {None}
                  /\ \A b \in Apps : (pc'[b] # "idle") <=> (lock' = b)
           /\ pc[a] # "idle" /\ Return(a) =>
                  /\ pc' \in [Apps -> Labels] /\ lock' \in Apps \cup {None} /\ call' \in [Apps -> Calls]
                  /\ \A b \in Apps : (pc'[b] # "idle") <=> (lock' = b)
           /\ Fault => faults' \in 0 .. MaxFaults /\ restoreFaults' \in 0 .. MaxRestoreFaults
           /\ UNCHANGED bounds => faults' \in 0 .. MaxFaults /\ restoreFaults' \in 0 .. MaxRestoreFaults
           /\ UNCHANGED call => call' \in [Apps -> Calls]
<1>1. ASSUME NEW l \in Labels \ {"idle"}, pc[a] # "idle", Goto(a, l)
      PROVE  /\ pc' \in [Apps -> Labels] /\ lock' \in Apps \cup {None}
             /\ \A b \in Apps : (pc'[b] # "idle") <=> (lock' = b)
  BY <1>1 DEF TypeOK, Goto
<1>2. ASSUME pc[a] # "idle", Return(a)
      PROVE  /\ pc' \in [Apps -> Labels] /\ lock' \in Apps \cup {None} /\ call' \in [Apps -> Calls]
             /\ \A b \in Apps : (pc'[b] # "idle") <=> (lock' = b)
  BY <1>2, EmptyCall, ConstantsAssumption, AloneInside DEF TypeOK, Return, Labels
<1>3. Fault => faults' \in 0 .. MaxFaults /\ restoreFaults' \in 0 .. MaxRestoreFaults
  BY ConstantsAssumption DEF TypeOK, Fault
<1>4. UNCHANGED bounds => faults' \in 0 .. MaxFaults /\ restoreFaults' \in 0 .. MaxRestoreFaults
  BY DEF TypeOK, bounds
<1>5. UNCHANGED call => call' \in [Apps -> Calls]
  BY DEF TypeOK
<1> QED
  BY <1>1, <1>2, <1>3, <1>4, <1>5, Zenon

(* The part of the types that a step of a call can disturb.                 *)
TypedCall ==
    /\ disk \in Disks /\ lock \in Apps \cup {None}
    /\ pc \in [Apps -> Labels] /\ call \in [Apps -> Calls]
    /\ faults \in 0 .. MaxFaults /\ restoreFaults \in 0 .. MaxRestoreFaults
    /\ unfinished \in Nat /\ torn \in BOOLEAN
    /\ \A b \in Apps : (pc[b] # "idle") <=> (lock = b)

LEMMA TypedWork ==
    ASSUME TypeOK, NEW a \in Apps, Work(a)
    PROVE  TypeOK'
<1> DEFINE Lbl == Labels \ {"idle"}
<1>a. disk \in Disks /\ call[a] \in Calls /\ pc[a] \in Labels /\ upstream \in Snapshots /\ disk.state \in States
  BY DEF TypeOK, Disks
<1>b. UNCHANGED disk => disk' \in Disks
  BY <1>a
<1>h. UNCHANGED history => unfinished' \in Nat /\ torn' \in BOOLEAN
  BY DEF TypeOK, history
<1>c. UNCHANGED world /\ TypedCall' => TypeOK'
  BY DEF TypeOK, TypedCall, world
<1>d. DOMAIN AfterRestore = {"state", "setting", "runtime", "catalog"}
  BY DEF AfterRestore
<1>e. \A x \in DOMAIN AfterRestore : AfterRestore[x] \in Lbl
  BY DEF AfterRestore, Labels
<1>1. CASE CheckStopped(a)
  BY <1>1, <1>b, <1>c, <1>h, TypedMoves DEF CheckStopped, Going, TypedCall, Labels
<1>2. CASE ReadState(a)
  <2>1. Attempted(a) \in States
    BY <1>a, DiskFields DEF Attempted, Success, States
  <2>2. [call[a] EXCEPT !.mem = Attempted(a)] \in Calls
    BY <2>1, <1>a, CallFields
  <2>3. call' = [call EXCEPT ![a].mem = Attempted(a)] => call' \in [Apps -> Calls]
    BY <2>2 DEF TypeOK
  <2> QED
    BY <1>2, <2>3, <1>b, <1>c, <1>h, TypedMoves DEF ReadState, TypedCall, Labels
<1>3. CASE Acquire(a)
  <2>1. [call[a] EXCEPT !.got = upstream] \in Calls
    BY <1>a, CallFields
  <2>2. call' = [call EXCEPT ![a].got = upstream] => call' \in [Apps -> Calls]
    BY <2>1 DEF TypeOK
  <2> QED
    BY <1>3, <2>2, <1>b, <1>c, <1>h, TypedMoves DEF Acquire, TypedCall, Labels
<1>4. CASE Prepare(a)
  BY <1>4, <1>b, <1>c, <1>h, TypedMoves DEF Prepare, Going, TypedCall, Labels
<1>5. CASE Gate(a)
  BY <1>5, <1>b, <1>c, <1>h, TypedMoves DEF Gate, Going, TypedCall, Labels
<1>6. CASE Snapshot(a)
  <2>1. [call[a] EXCEPT !.snap = disk] \in Calls
    BY <1>a, CallFields
  <2>2. call' = [call EXCEPT ![a].snap = disk] => call' \in [Apps -> Calls]
    BY <2>1 DEF TypeOK
  <2> QED
    BY <1>6, <2>2, <1>b, <1>c, <1>h, TypedMoves DEF Snapshot, Going, TypedCall, Labels
<1>7. CASE Publish(a)
  <2>1. /\ [disk EXCEPT !.fetched = "recent"] \in Disks
        /\ [[disk EXCEPT !.fetched = "recent"] EXCEPT !.catalog = call[a].got] \in Disks
    BY <1>a, DiskFields, CallFields DEF Ages
  <2>2. disk' \in Disks
    BY <2>1, <1>7, <1>b DEF Publish
  <2> QED
    BY <1>7, <2>2, <1>c, <1>h, TypedMoves DEF Publish, Going, TypedCall, Labels
<1>8. CASE Project(a)
  <2>1. Projected \in Disks
    BY <1>a, DiskFields DEF Projected
  <2>2. disk' \in Disks
    BY <2>1, <1>8, <1>b DEF Project
  <2>3. [call[a] EXCEPT !.changed = disk.runtime # Projected.runtime] \in Calls
    BY <1>a, CallFields
  <2>4. call' = [call EXCEPT ![a].changed = disk.runtime # Projected.runtime] => call' \in [Apps -> Calls]
    BY <2>3 DEF TypeOK
  <2> QED
    BY <1>8, <2>2, <2>4, <1>c, <1>h, TypedMoves DEF Project, Going, TypedCall, Labels
<1>9. CASE Recheck(a)
  BY <1>9, <1>b, <1>c, <1>h, TypedMoves DEF Recheck, Going, TypedCall, Labels
<1>10. CASE WriteState(a)
  <2>1. NextState(a) \in States
    BY <1>a, CallFields DEF NextState, States, Ages
  <2>2. disk' \in Disks
    BY <2>1, <1>10, <1>a, <1>b, DiskFields DEF WriteState
  <2>3. CASE unfinished' = 0 /\ torn' = FALSE /\ Return(a) /\ UNCHANGED bounds
    <3>1. unfinished' \in Nat /\ torn' \in BOOLEAN
      BY <2>3
    <3> QED
      BY <1>10, <2>2, <2>3, <3>1, <1>c, TypedMoves DEF WriteState, TypedCall
  <2>4. CASE Fault /\ Going(a, "state") /\ UNCHANGED <<disk, history>>
    <3>1. UNCHANGED history
      BY <2>4
    <3> QED
      BY <1>10, <2>2, <2>4, <3>1, <1>c, <1>h, TypedMoves DEF WriteState, Going, TypedCall, Labels
  <2> QED
    BY <1>10, <2>3, <2>4 DEF WriteState
<1>11. CASE Restore(a)
  <2>1. call[a].snap \in Disks
    BY <1>a, CallFields
  <2>2. disk' \in Disks
    BY <2>1, <1>11, <1>a, <1>d DEF Restore, Undone, Disks
  <2> QED
    BY <1>11, <2>2, <1>c, <1>h, <1>d, <1>e, TypedMoves DEF Restore, Going, TypedCall
<1>12. CASE RestoreFails(a)
  <2>1. [call[a] EXCEPT !.bad = TRUE] \in Calls
    BY <1>a, CallFields
  <2>2. call' \in [Apps -> Calls]
    BY <2>1, <1>12 DEF TypeOK, RestoreFails
  <2>3. faults' \in 0 .. MaxFaults /\ restoreFaults' \in 0 .. MaxRestoreFaults
    BY <1>12, ConstantsAssumption DEF TypeOK, RestoreFails
  <2>4. unfinished' \in Nat /\ torn' \in BOOLEAN
    BY <1>12 DEF TypeOK, RestoreFails
  <2> QED
    BY <1>12, <2>2, <2>3, <2>4, <1>b, <1>c, <1>d, <1>e, TypedMoves DEF RestoreFails, TypedCall
<1>13. CASE RollbackFailed(a)
  <2>1. unfinished' \in Nat /\ torn' \in BOOLEAN
    BY <1>13 DEF TypeOK, RollbackFailed, CountUnfinished
  <2> QED
    BY <1>13, <2>1, <1>b, <1>c, TypedMoves DEF RollbackFailed, TypedCall
<1>14. CASE PersistFence(a)
  <2>1. disk' \in Disks
    BY <1>14, <1>a, <1>b, DiskFields, CallFields DEF PersistFence
  <2> QED
    BY <1>14, <2>1, <1>c, <1>h, TypedMoves DEF PersistFence, TypedCall
<1> QED
  BY <1>1, <1>2, <1>3, <1>4, <1>5, <1>6, <1>7, <1>8, <1>9, <1>10, <1>11, <1>12, <1>13, <1>14 DEF Work

(* Every step keeps the types and the holder of the lock.                   *)
LEMMA TypedNext ==
    ASSUME TypeOK, [Next]_vars
    PROVE  TypeOK'
<1>1. ASSUME NEW a \in Apps, NEW o \in Triggers, Begin(a, o) PROVE TypeOK'
  <2>1. [call[a] EXCEPT !.op = o] \in Calls
    BY CallFields DEF TypeOK
  <2>2. call' \in [Apps -> Calls]
    BY <1>1, <2>1 DEF TypeOK, Begin
  <2> QED
    BY <1>1, <2>2, ConstantsAssumption DEF TypeOK, Begin, world, bounds, history, Labels
<1>2. ASSUME NEW a \in Apps, Work(a) PROVE TypeOK'
  BY <1>2, TypedWork
<1>3. ASSUME NEW a \in Apps, Crash(a) PROVE TypeOK'
  <2>1. lock = a
    BY <1>3, AloneInside DEF Crash
  <2>2. disk' \in Disks
    BY <1>3, DiskFields DEF TypeOK, Crash, Ages
  <2>3. unfinished' \in Nat
    BY <1>3 DEF TypeOK, Crash, CountUnfinished
  <2> QED
    BY <1>3, <2>1, <2>2, <2>3, EmptyCall, ConstantsAssumption DEF TypeOK, Crash, bounds, Labels
<1>4. CASE SaveSetting
  <2>1. saved' \in BOOLEAN
    BY <1>4 DEF SaveSetting, TypeOK
  <2>2. disk' \in Disks
    BY <2>1, <1>4, DiskFields DEF SaveSetting, TypeOK
  <2> QED
    BY <1>4, <2>1, <2>2 DEF SaveSetting, TypeOK, bounds, history
<1>5. CASE CodexStartsOrStops
  BY <1>5 DEF CodexStartsOrStops, TypeOK, bounds, history
<1>6. CASE UpstreamChanges
  BY <1>6, ConstantsAssumption DEF UpstreamChanges, TypeOK, bounds, history
<1>7. CASE IntervalPasses
  <2>1. \A x \in Ages : Aged(x) \in Ages
    BY DEF Aged, Ages
  <2>2. disk' \in Disks
    BY <2>1, <1>7 DEF IntervalPasses, TypeOK, Disks, States
  <2> QED
    BY <1>7, <2>2 DEF IntervalPasses, TypeOK, world, bounds, history
<1>8. CASE UNCHANGED vars
  BY <1>8 DEF TypeOK, vars, world, bounds, history
<1> QED
  BY <1>1, <1>2, <1>3, <1>4, <1>5, <1>6, <1>7, <1>8 DEF Next

-----------------------------------------------------------------------------
(* The steps of a call                                                     *)

(* What the invariant says where the app a is at work.                      *)
AtWork(a) ==
    /\ SettingsSurvive
    /\ SnapIsCurrent(a) /\ MemIsCurrent(a) /\ Progress(a) /\ Restored(a)
    /\ Sound(IF pc[a] \in Inside THEN call[a].snap ELSE disk)

(* Where an app works no other one does, so its part is all there is.       *)
LEMMA WorksAlone ==
    ASSUME RefreshInv, TypeOK', NEW a \in Apps, pc[a] # "idle" \/ lock = None,
           \A b \in Apps \ {a} : pc'[b] = pc[b] /\ call'[b] = call[b]
    PROVE  AtWork(a) /\ (AtWork(a)' => RefreshInv')
<1>1. \A b \in Apps \ {a} : pc[b] = "idle" /\ pc'[b] = "idle"
  BY AloneInside, ConstantsAssumption DEF RefreshInv, TypeOK
<1>2. AtWork(a)
  BY <1>1 DEF RefreshInv, AtWork, FilesAreSound, Inside
<1>3. ASSUME AtWork(a)'
      PROVE  RefreshInv'
  <2>1. \A b \in Apps \ {a} : (SnapIsCurrent(b) /\ MemIsCurrent(b) /\ Progress(b) /\ Restored(b))'
    BY <1>1, <1>3 DEF RefreshInv, AtWork, SnapIsCurrent, MemIsCurrent, Progress, Restored, Before, Inside
  <2>2. FilesAreSound'
    BY <1>1, <1>3 DEF AtWork, FilesAreSound, Inside
  <2> QED
    BY <1>3, <2>1, <2>2 DEF RefreshInv, AtWork
<1> QED
  BY <1>2, <1>3

(* Beginning a call, and each of its steps, keeps the invariant.            *)
LEMMA BeginPreserves ==
    ASSUME RefreshInv, NEW a \in Apps, NEW o \in Triggers, Begin(a, o)
    PROVE  RefreshInv'
<1>1. TypeOK /\ TypeOK'
  BY TypedNext DEF Next, RefreshInv
<1>2. AtWork(a) /\ (AtWork(a)' => RefreshInv')
  BY <1>1, WorksAlone DEF Begin, TypeOK
<1>3. /\ pc[a] = "idle" /\ pc'[a] \in {"read", "stopped"}
      /\ call'[a] = [call[a] EXCEPT !.op = o] /\ call[a] \in Calls
      /\ UNCHANGED <<disk, saved, crashes, restoreFaults, owned, unfinished, torn>>
  BY <1>1 DEF Begin, TypeOK, world, bounds, history
<1>4. call'[a].bad = call[a].bad
  BY <1>3 DEF Calls
<1>5. AtWork(a)'
  BY <1>2, <1>3, <1>4
  DEF AtWork, SettingsSurvive, SnapIsCurrent, MemIsCurrent, Progress, Restored, Sound,
      Complete, Disclosed, Trusted, Before, Inside
<1> QED
  BY <1>2, <1>5

LEMMA WorkPreserves ==
    ASSUME RefreshInv, NEW a \in Apps, Work(a)
    PROVE  RefreshInv'
<1>1. TypeOK /\ TypeOK'
  BY TypedNext DEF Next, RefreshInv
<1>2. UNCHANGED <<saved, crashes, owned>> /\ pc[a] # "idle"
  BY <1>1 DEF Work, CheckStopped, ReadState, Acquire, Prepare, Gate, Snapshot, Publish, Project, Recheck,
              WriteState, Restore, RestoreFails, RollbackFailed, PersistFence, world, AfterRestore
<1>3. \A b \in Apps \ {a} : pc'[b] = pc[b] /\ call'[b] = call[b]
  BY <1>1
  DEF Work, CheckStopped, ReadState, Acquire, Prepare, Gate, Snapshot, Publish, Project, Recheck, WriteState,
      Restore, RestoreFails, RollbackFailed, PersistFence, Goto, Going, Return, TypeOK
<1>4. AtWork(a) /\ (AtWork(a)' => RefreshInv')
  BY <1>1, <1>2, <1>3, WorksAlone
<1>5. /\ pc \in [Apps -> Labels] /\ call \in [Apps -> Calls] /\ disk \in Disks
      /\ restoreFaults \in Nat /\ restoreFaults' \in Nat /\ unfinished \in Nat
  BY <1>1, ConstantsAssumption DEF TypeOK
<1>6. \A l : Goto(a, l) => pc'[a] = l
  BY <1>5 DEF Goto
<1>7. Return(a) => pc'[a] = "idle" /\ ~call'[a].bad
  BY <1>5 DEF Return, NoCall
<1>8. Fault \/ UNCHANGED bounds => UNCHANGED restoreFaults
  BY DEF Fault, bounds
<1>9. UNCHANGED history => UNCHANGED <<unfinished, torn>>
  BY DEF history
<1> USE DEF AtWork, SettingsSurvive, SnapIsCurrent, MemIsCurrent, Progress, Restored, Sound, Before, Inside,
            Complete, Disclosed, Trusted
<1>11. CASE CheckStopped(a)
  BY <1>11, <1>2, <1>4, <1>6, <1>7, <1>8, <1>9 DEF CheckStopped, Going
<1>12. CASE ReadState(a)
  <2>1. CASE disk.setting /\ ShouldAttempt(a)
    <3>1. /\ pc[a] = "read" /\ pc'[a] = "acquire" /\ UNCHANGED <<disk, restoreFaults, unfinished, torn>>
          /\ call'[a] = [call[a] EXCEPT !.mem = Attempted(a)]
      BY <1>12, <2>1, <1>5, <1>6, <1>8, <1>9 DEF ReadState
    <3>2. ~Attempted(a).ready /\ Attempted(a).restart = disk.state.restart
      BY <1>5 DEF Attempted, Success, Disks, States
    <3>3. call'[a].mem = Attempted(a) /\ call'[a].bad = call[a].bad
      BY <3>1, <1>5 DEF Calls
    <3> QED
      BY <3>1, <3>2, <3>3, <1>2, <1>4, <1>9
  <2>2. CASE ~(disk.setting /\ ShouldAttempt(a))
    BY <2>2, <1>12, <1>2, <1>4, <1>7, <1>8, <1>9 DEF ReadState
  <2> QED
    BY <2>1, <2>2
<1>13. CASE Acquire(a)
  BY <1>13, <1>2, <1>4, <1>5, <1>6, <1>7, <1>8, <1>9 DEF Acquire, Calls
<1>14. CASE Prepare(a)
  BY <1>14, <1>2, <1>4, <1>6, <1>7, <1>8, <1>9 DEF Prepare, Going
<1>15. CASE Gate(a)
  BY <1>15, <1>2, <1>4, <1>6, <1>7, <1>8, <1>9 DEF Gate, Going
<1>16. CASE Snapshot(a)
  BY <1>16, <1>2, <1>4, <1>5, <1>6, <1>7, <1>8, <1>9 DEF Snapshot, Going, Calls
<1>17. CASE Publish(a)
  BY <1>17, <1>2, <1>4, <1>5, <1>6, <1>7, <1>8, <1>9 DEF Publish, Going, Disks
<1>18. CASE Project(a)
  BY <1>18, <1>2, <1>4, <1>5, <1>6, <1>7, <1>8, <1>9 DEF Project, Projected, Going, Disks, Calls
<1>19. CASE Recheck(a)
  BY <1>19, <1>2, <1>4, <1>6, <1>7, <1>8, <1>9 DEF Recheck, Going
<1>20. CASE WriteState(a)
  <2>1. CASE disk' = [disk EXCEPT !.state = NextState(a)] /\ Return(a) /\ UNCHANGED bounds /\ unfinished' = 0 /\ torn' = FALSE
    <3>1. /\ disk'.catalog = call[a].got /\ disk'.setting = disk.setting
          /\ disk'.runtime = (IF owned THEN call[a].got ELSE call[a].snap.runtime)
          /\ disk'.state = NextState(a) /\ disk'.runtime = disk.runtime
      BY <2>1, <1>20, <1>4, <1>5 DEF WriteState, Disks
    <3>2. NextState(a).budgets = call[a].got
      BY DEF NextState
    <3>3. NextState(a).restart <=> call[a].mem.restart \/ call[a].changed
      BY DEF NextState
    <3>4. ASSUME restoreFaults = 0, crashes = 0, disk'.runtime # 0 PROVE NextState(a).restart
      <4>1. pc[a] = "commit" /\ call[a].mem.restart = disk.state.restart /\ call[a].snap.state = disk.state
        BY <1>20, <1>4 DEF WriteState
      <4>2. CASE call[a].snap.runtime = disk.runtime
        <5>1. call[a].snap.state.restart
          BY <4>1, <4>2, <3>1, <3>4, <1>4 DEF Disclosed
        <5> QED
          BY <5>1, <4>1, <3>3
      <4>3. CASE call[a].snap.runtime # disk.runtime
        <5>1. call[a].changed
          BY <4>1, <4>3, <1>4
        <5> QED
          BY <5>1, <3>3
      <4> QED
        BY <4>2, <4>3
    <3>5. pc'[a] = "idle" /\ ~call'[a].bad /\ UNCHANGED restoreFaults
      BY <2>1, <1>7, <1>8
    <3> QED
      BY <2>1, <3>1, <3>2, <3>4, <3>5, <1>2, <1>4 DEF Complete, Disclosed, Trusted
  <2>2. CASE Fault /\ Going(a, "state") /\ UNCHANGED <<disk, history>>
    BY <2>2, <1>20, <1>2, <1>4, <1>6, <1>8, <1>9 DEF WriteState, Going, Complete, Disclosed, Trusted
  <2> QED
    BY <2>1, <2>2, <1>20 DEF WriteState
<1>21. CASE Restore(a)
  <2>1. pc[a] \in {"state", "setting", "runtime", "catalog"} /\ pc'[a] = AfterRestore[pc[a]] /\ UNCHANGED <<call, restoreFaults, unfinished, torn>>
    BY <1>21, <1>5, <1>6, <1>8, <1>9 DEF Restore, Going, AfterRestore
  <2>2. disk' = Undone(a, pc[a])
    BY <1>21 DEF Restore
  <2> QED
    <3>1. CASE pc[a] = "state"
      BY <3>1, <2>1, <2>2, <1>2, <1>4, <1>5 DEF AfterRestore, Undone, Disks
    <3>2. CASE pc[a] = "setting"
      BY <3>2, <2>1, <2>2, <1>2, <1>4, <1>5 DEF AfterRestore, Undone, Disks
    <3>3. CASE pc[a] = "runtime"
      BY <3>3, <2>1, <2>2, <1>2, <1>4, <1>5 DEF AfterRestore, Undone, Disks
    <3>4. CASE pc[a] = "catalog"
      BY <3>4, <2>1, <2>2, <1>2, <1>4, <1>5 DEF AfterRestore, Undone, Disks
    <3> QED
      BY <3>1, <3>2, <3>3, <3>4, <2>1
<1>22. CASE RestoreFails(a)
  <2>1. /\ pc[a] \in {"state", "setting", "runtime", "catalog"} /\ pc'[a] = AfterRestore[pc[a]]
        /\ UNCHANGED <<disk, unfinished>> /\ restoreFaults' # 0
        /\ torn' = (torn \/ (pc[a] = "runtime" /\ disk.runtime # call[a].snap.runtime))
    BY <1>22, <1>5, <1>6 DEF RestoreFails, AfterRestore
  <2>2. call'[a] = [call[a] EXCEPT !.bad = TRUE]
    BY <1>22, <1>5 DEF RestoreFails
  <2> QED
    <3>1. /\ call'[a].snap = call[a].snap /\ call'[a].mem = call[a].mem /\ call'[a].bad
          /\ call'[a].got = call[a].got /\ call'[a].changed = call[a].changed
      BY <2>2, <1>5 DEF Calls
    <3>2. ~torn' => ~torn
      BY <2>1
    <3>3. Sound(call[a].snap)'
      BY <2>1, <3>1, <3>2, <1>2, <1>4
    <3>4. CASE pc[a] = "runtime"
      <4>1. pc'[a] = "catalog" /\ (~torn' => disk'.runtime = call'[a].snap.runtime)
        <5>1. torn' = (torn \/ disk.runtime # call[a].snap.runtime)
          BY <3>4, <2>1, Zenon
        <5>2. disk.runtime # call[a].snap.runtime => torn'
          BY <5>1, Zenon
        <5> QED
          BY <5>2, <3>1, <3>4, <2>1 DEF AfterRestore
      <4>2. Restored(a)'
        BY <4>1, <3>1, <2>1
      <4>3. (SettingsSurvive /\ SnapIsCurrent(a) /\ MemIsCurrent(a) /\ Progress(a))'
        BY <4>1, <3>1, <3>4, <2>1, <1>2, <1>4
      <4> QED
        BY <4>1, <4>2, <4>3, <3>3, <1>4
    <3>5. CASE pc[a] # "runtime"
      BY <3>1, <3>2, <3>3, <3>5, <2>1, <1>2, <1>4 DEF AfterRestore
    <3> QED
      BY <3>4, <3>5
<1>23. CASE RollbackFailed(a)
  <2>1. /\ pc[a] = "rolled" /\ pc'[a] = "idle" /\ ~call'[a].bad /\ UNCHANGED <<disk, restoreFaults, torn>>
        /\ unfinished' = IF disk.catalog # call[a].snap.catalog \/ disk.runtime # call[a].snap.runtime
                         THEN unfinished + 1 ELSE unfinished
    BY <1>23, <1>7, <1>8 DEF RollbackFailed, CountUnfinished, Unfinished
  <2>2. call[a].bad
    BY <1>23 DEF RollbackFailed
  <2>3. Sound(disk)'
    BY <2>1, <2>2, <1>2, <1>4, <1>5 DEF Complete, Disclosed, Trusted
  <2> QED
    BY <2>1, <2>3, <1>2, <1>4
<1>24. CASE PersistFence(a)
  BY <1>24, <1>2, <1>4, <1>5, <1>7, <1>8, <1>9 DEF PersistFence, Complete, Disclosed, Trusted, Disks
<1> QED
  BY <1>11, <1>12, <1>13, <1>14, <1>15, <1>16, <1>17, <1>18, <1>19, <1>20, <1>21, <1>22, <1>23, <1>24 DEF Work

(* A crash inside a transaction leaves the files in between: what is there  *)
(* is still what Available may trust, once.                                 *)
LEMMA CrashPreserves ==
    ASSUME RefreshInv, NEW a \in Apps, Crash(a)
    PROVE  RefreshInv'
<1>1. TypeOK /\ TypeOK'
  BY TypedNext DEF Next, RefreshInv
<1>2. \A b \in Apps \ {a} : pc'[b] = pc[b] /\ call'[b] = call[b]
  BY <1>1 DEF Crash, TypeOK
<1>3. AtWork(a) /\ (AtWork(a)' => RefreshInv')
  BY <1>1, <1>2, WorksAlone DEF Crash
<1>4. /\ pc'[a] = "idle" /\ call'[a] = NoCall /\ UNCHANGED <<saved, restoreFaults, torn, owned>>
      /\ crashes \in Nat /\ crashes' = crashes + 1 /\ unfinished \in Nat
      /\ unfinished' = IF Unfinished(a) THEN unfinished + 1 ELSE unfinished
  BY <1>1, ConstantsAssumption DEF Crash, CountUnfinished, TypeOK, bounds
<1>5. /\ disk'.catalog = disk.catalog /\ disk'.runtime = disk.runtime
      /\ disk'.setting = disk.setting /\ disk'.state = disk.state
  BY <1>1 DEF Crash, TypeOK, Disks
<1>6. ASSUME ~torn PROVE (unfinished' = 0 => Complete(disk)) /\ (unfinished' <= 1 => Trusted(disk))
  <2>1. CASE pc[a] \in Inside
    <3>1. /\ call[a].snap.state = disk.state /\ disk.runtime \in {call[a].snap.runtime, disk.catalog}
          /\ Sound(call[a].snap)
      BY <2>1, <1>3, <1>6 DEF AtWork, SnapIsCurrent, Restored
    <3>2. CASE Unfinished(a)
      BY <3>1, <3>2, <1>4, <1>6 DEF Sound, Complete, Trusted
    <3>3. CASE ~Unfinished(a)
      <4>1. disk.catalog = call[a].snap.catalog /\ disk.runtime = call[a].snap.runtime
        BY <2>1, <3>3, <1>3 DEF Unfinished, Inside, AfterRestore, AtWork, Progress
      <4> QED
        BY <3>1, <3>3, <4>1, <1>4, <1>6 DEF Sound, Complete, Trusted
    <3> QED
      BY <3>2, <3>3
  <2>2. CASE pc[a] \notin Inside
    <3>1. Sound(disk) /\ unfinished' = unfinished
      BY <2>2, <1>3, <1>4 DEF AtWork, Unfinished, Inside, AfterRestore
    <3> QED
      BY <3>1, <1>6 DEF Sound
  <2> QED
    BY <2>1, <2>2
<1>7. Sound(disk)'
  BY <1>4, <1>5, <1>6 DEF Sound, Complete, Trusted
<1> QED
  BY <1>3, <1>4, <1>5, <1>7
  DEF AtWork, SettingsSurvive, SnapIsCurrent, MemIsCurrent, Progress, Restored, Before, Inside, NoCall

(* What else happens on the machine keeps the invariant: a setting is saved *)
(* and the interval passes only outside calls.                              *)
LEMMA MachinePreserves ==
    ASSUME RefreshInv, SaveSetting \/ CodexStartsOrStops \/ UpstreamChanges \/ IntervalPasses \/ UNCHANGED vars
    PROVE  RefreshInv'
<1>1. TypeOK /\ TypeOK'
  BY TypedNext DEF Next, RefreshInv
<1>2. UNCHANGED <<pc, call, crashes, restoreFaults, owned, unfinished, torn>>
  BY DEF SaveSetting, CodexStartsOrStops, UpstreamChanges, IntervalPasses, vars, world, bounds, history
<1>3. CASE UNCHANGED <<disk, saved>>
  BY <1>1, <1>2, <1>3
  DEF RefreshInv, SettingsSurvive, SnapIsCurrent, MemIsCurrent, Progress, Restored, FilesAreSound, Sound,
      Complete, Disclosed, Trusted
<1>4. CASE SaveSetting \/ IntervalPasses
  <2>1. \A a \in Apps : pc[a] = "idle"
    BY <1>1, <1>4, ConstantsAssumption DEF SaveSetting, IntervalPasses, TypeOK
  <2>2. disk \in Disks /\ disk.state \in States
    BY <1>1 DEF TypeOK, Disks
  <2>3. /\ disk'.catalog = disk.catalog /\ disk'.runtime = disk.runtime
        /\ disk'.state.ready = disk.state.ready /\ disk'.state.budgets = disk.state.budgets
        /\ disk'.state.restart = disk.state.restart
    <3>1. CASE SaveSetting
      BY <3>1, <2>2 DEF SaveSetting, Disks
    <3>2. CASE IntervalPasses
      <4>1. /\ disk'.catalog = disk.catalog /\ disk'.runtime = disk.runtime
            /\ disk'.state = [disk.state EXCEPT !.success = Aged(@), !.tried = FALSE]
        BY <3>2, <2>2 DEF IntervalPasses, Disks
      <4> QED
        BY <4>1, <2>2 DEF States
    <3> QED
      BY <3>1, <3>2, <1>4
  <2>4. SettingsSurvive'
    BY <1>4, <2>2 DEF RefreshInv, SettingsSurvive, SaveSetting, IntervalPasses, Disks, world
  <2>5. Sound(disk) => Sound(disk)'
    BY <1>2, <2>3 DEF Sound, Complete, Disclosed, Trusted
  <2>6. FilesAreSound'
    BY <1>2, <2>1, <2>5 DEF RefreshInv, FilesAreSound, Inside
  <2> QED
    BY <1>1, <1>2, <2>1, <2>4, <2>6
    DEF RefreshInv, SnapIsCurrent, MemIsCurrent, Progress, Restored, Before, Inside
<1> QED
  BY <1>3, <1>4 DEF CodexStartsOrStops, UpstreamChanges, vars, world

-----------------------------------------------------------------------------
LEMMA RefreshInductive == Spec => []RefreshInv
<1>1. RefreshInv /\ [Next]_vars => RefreshInv'
  BY BeginPreserves, WorkPreserves, CrashPreserves, MachinePreserves DEF Next
<1> QED
  BY <1>1, RefreshInitially, PTL DEF Spec

(***************************************************************************)
(* current_published_snapshot_available vouches for a snapshot that        *)
(* Codex's configuration does not have only after a rollback that could    *)
(* not restore the configuration, or after two publications that were      *)
(* neither completed nor undone: for any number of processes, snapshots,   *)
(* failed steps and crashes.  The next complete publication heals both.    *)
(***************************************************************************)
THEOREM AvailableIsSafe == Spec => []SnapshotIsSafe
<1>1. RefreshInv => SnapshotIsSafe
  <2> SUFFICES ASSUME RefreshInv, ~torn, ~(unfinished > 1), NEW a \in Apps, pc[a] = "read", Available, owned
               PROVE  disk.runtime = disk.catalog
    BY DEF SnapshotIsSafe, FenceIsKept
  <2>1. unfinished \in Nat /\ \A b \in Apps : pc[b] \notin Inside
    BY AloneInside DEF RefreshInv, TypeOK, Inside
  <2>2. Trusted(disk)
    BY <2>1 DEF RefreshInv, FilesAreSound, Sound
  <2> QED
    BY <2>2 DEF Trusted, Available
<1> QED
  BY <1>1, RefreshInductive, PTL

(***************************************************************************)
(* with_text_file_rollback never brings back a setting older than the one  *)
(* the user saved last, even when some of its restores fail.               *)
(***************************************************************************)
THEOREM SettingsAlwaysSurvive == Spec => []SettingsSurvive
<1>1. RefreshInv => SettingsSurvive
  BY DEF RefreshInv
<1> QED
  BY <1>1, RefreshInductive, PTL

(***************************************************************************)
(* finalize_published_snapshot and the rollback keep the demand for a      *)
(* restart of Codex once its configuration has changed.                    *)
(***************************************************************************)
THEOREM RestartStaysDisclosed == Spec => []RestartIsDisclosed
<1>1. RefreshInv => RestartIsDisclosed
  <2> SUFFICES ASSUME RefreshInv, restoreFaults = 0, crashes = 0, NEW a \in Apps, pc[a] = "read", disk.runtime # 0
               PROVE  disk.state.restart
    BY DEF RestartIsDisclosed
  <2>1. \A b \in Apps : pc[b] \notin Inside
    BY AloneInside DEF RefreshInv, Inside
  <2>2. Disclosed(disk)
    BY <2>1 DEF RefreshInv, FilesAreSound, Sound
  <2> QED
    BY <2>2 DEF Disclosed
<1> QED
  BY <1>1, RefreshInductive, PTL
=============================================================================
