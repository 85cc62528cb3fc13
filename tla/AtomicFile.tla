----------------------------- MODULE AtomicFile -----------------------------
(***************************************************************************)
(* The cross-language lock and the atomic replacement of one file:         *)
(* FileLock and write_text_locked of safe_file.rs, file_lock_for,          *)
(* atomic_write_bytes and atomic_read_or_create_text of atomic_io.py.      *)
(*                                                                         *)
(* A call locks two files in turn, the guard and then the primary lock     *)
(* file, whose record it signs.  Lock files are inodes: a path can be      *)
(* unlinked and created anew while a process still holds the old inode.    *)
(***************************************************************************)
EXTENDS Integers, FiniteSets

CONSTANTS
    Procs,          \* threads and processes that write the file
    LangOf,         \* the implementation each of them runs: "rust" or "python"
    Records,        \* what the primary lock file may hold at first
    None,
    MaxInodes,      \* bound: lock files ever created
    MaxCrashes,     \* bound
    MaxRemovals     \* bound: how often lock files are unlinked

LockRecords == {"empty", "protocol", "legacy", "unknown"}

ASSUME ConstantsAssumption ==
    /\ LangOf \in [Procs -> {"rust", "python"}]
    /\ Records \subseteq LockRecords
    /\ None \notin Procs
    /\ {MaxInodes, MaxCrashes, MaxRemovals} \subseteq Nat /\ MaxInodes >= 1

ASSUME NoneIsNoRecord == None \notin LockRecords

VARIABLES
    path,       \* the inode each lock path names, 0 if none
    made,       \* inodes created so far
    record,     \* contents of the lock files
    holder,     \* the process that holds the lock of an inode
    legacy,     \* the process of a legacy record is alive
    pc,         \* where each process is
    op,         \* its operation: "write", or "create" for a check-then-write
    file,       \* the lock file it is working on
    seen,       \* the inode it found at the path before opening it
    fd,         \* the inodes it has open
    created,    \* it created the lock file it works on
    temp,       \* its temporary file exists
    target,     \* the file has been written
    crashes, removals

fs == <<path, made, record, holder>>
proc == <<op, file, seen, fd, created>>
bounds == <<crashes, removals>>
vars == <<fs, legacy, pc, proc, temp, target, bounds>>

Files == {"guard", "primary"}
Inodes == 1 .. MaxInodes
NoFds == [f \in Files |-> 0]

Init ==
    /\ \E r \in Records \cup {None} :
          /\ made = IF r = None THEN 0 ELSE 1
          /\ path = [f \in Files |-> IF f = "primary" THEN made ELSE 0]
          /\ record = [i \in Inodes |-> IF r = None THEN "empty" ELSE r]
          /\ legacy \in {b \in BOOLEAN : b => r = "legacy"}
    /\ holder = [i \in Inodes |-> None]
    /\ pc = [p \in Procs |-> "idle"]
    /\ op = [p \in Procs |-> "write"]
    /\ file = [p \in Procs |-> "guard"]
    /\ seen = [p \in Procs |-> 0]
    /\ fd = [p \in Procs |-> NoFds]
    /\ created = [p \in Procs |-> FALSE]
    /\ temp = [p \in Procs |-> FALSE]
    /\ target = FALSE
    /\ crashes = 0 /\ removals = [f \in Files |-> 0]

-----------------------------------------------------------------------------
Goto(p, label) == pc' = [pc EXCEPT ![p] = label]

(* Rust tries to create a lock file first, Python looks for it first *)
FirstStep(p) == IF LangOf[p] = "rust" THEN "create" ELSE "look"

Mine(p) == fd[p][file[p]]

(* verify_lock_identity: the path still names the inode that is open *)
Genuine(p, f) == path[f] = fd[p][f]

(* Give up: release what is held and return an error *)
Fail(p) == Goto(p, "release")

Begin(p) ==
    /\ pc[p] = "idle"
    /\ \E o \in {"write", "create"} : op' = [op EXCEPT ![p] = o]
    /\ Goto(p, FirstStep(p))
    /\ file' = [file EXCEPT ![p] = "guard"]
    /\ UNCHANGED <<fs, legacy, seen, fd, created, temp, target, bounds>>

CreateLock(p) ==
    /\ pc[p] = "create"
    /\ IF path[file[p]] # 0
       THEN /\ Goto(p, IF LangOf[p] = "rust" THEN "look" ELSE "retry")
            /\ UNCHANGED <<fs, fd, created>>
       ELSE /\ made < MaxInodes
            /\ made' = made + 1
            /\ path' = [path EXCEPT ![file[p]] = made + 1]
            /\ record' = [record EXCEPT ![made + 1] = "empty"]
            /\ fd' = [fd EXCEPT ![p][file[p]] = made + 1]
            /\ created' = [created EXCEPT ![p] = TRUE]
            /\ Goto(p, "lock") /\ UNCHANGED holder
    /\ UNCHANGED <<legacy, op, file, seen, temp, target, bounds>>

LookForLock(p) ==
    /\ pc[p] = "look"
    /\ seen' = [seen EXCEPT ![p] = path[file[p]]]
    /\ Goto(p, IF path[file[p]] # 0 THEN "open" ELSE IF LangOf[p] = "rust" THEN "retry" ELSE "create")
    /\ UNCHANGED <<fs, legacy, op, file, fd, created, temp, target, bounds>>

(* The file is gone: try again.  It is another one: give up. *)
OpenLock(p) ==
    /\ pc[p] = "open"
    /\ Goto(p, IF path[file[p]] = 0 THEN "retry" ELSE IF path[file[p]] = seen[p] THEN "lock" ELSE "release")
    /\ fd' = [fd EXCEPT ![p][file[p]] = IF path[file[p]] = seen[p] THEN seen[p] ELSE 0]
    /\ created' = [created EXCEPT ![p] = FALSE]
    /\ seen' = [seen EXCEPT ![p] = 0]
    /\ UNCHANGED <<fs, legacy, op, file, temp, target, bounds>>

(* Mutant: a primary lock that is taken counts as acquired *)
TryLockOnce(p) ==
    /\ pc[p] = "lock"
    /\ IF holder[Mine(p)] = None \/ file[p] = "primary"
       THEN /\ holder' = [holder EXCEPT ![Mine(p)] = p]
            /\ Goto(p, "verify") /\ UNCHANGED fd
       ELSE /\ fd' = [fd EXCEPT ![p][file[p]] = 0]
            /\ Goto(p, "retry") /\ UNCHANGED holder
    /\ UNCHANGED <<path, made, record, legacy, op, file, seen, created, temp, target, bounds>>

TryLock(p) ==
    /\ pc[p] = "lock"
    /\ IF holder[Mine(p)] = None
       THEN /\ holder' = [holder EXCEPT ![Mine(p)] = p]
            /\ Goto(p, "verify") /\ UNCHANGED fd
       ELSE /\ fd' = [fd EXCEPT ![p][file[p]] = 0]
            /\ Goto(p, "retry") /\ UNCHANGED holder
    /\ UNCHANGED <<path, made, record, legacy, op, file, seen, created, temp, target, bounds>>

VerifyLock(p) ==
    /\ pc[p] = "verify"
    /\ IF ~Genuine(p, file[p]) THEN Fail(p) /\ UNCHANGED file
       ELSE /\ Goto(p, IF file[p] = "guard" THEN FirstStep(p) ELSE "prepare")
            /\ file' = [file EXCEPT ![p] = "primary"]
    /\ UNCHANGED <<fs, legacy, op, seen, fd, created, temp, target, bounds>>

(* retry_lock: sleep and go to the top of the loop, or time out *)
Retry(p) ==
    /\ pc[p] = "retry"
    /\ Goto(p, FirstStep(p))
    /\ UNCHANGED <<fs, legacy, proc, temp, target, bounds>>

(* Mutant: only the wait for the guard has a time limit *)
TimeoutOfGuard(p) ==
    /\ pc[p] = "retry" /\ file[p] = "guard" /\ Fail(p)
    /\ UNCHANGED <<fs, legacy, proc, temp, target, bounds>>

Timeout(p) ==
    /\ pc[p] = "retry" /\ Fail(p)
    /\ UNCHANGED <<fs, legacy, proc, temp, target, bounds>>

(* Mutant: a legacy record counts as stale whatever its process does *)
RecoverableByAge(p) == record[Mine(p)] \in {"protocol", "legacy"} \/ created[p]

(* lock_state: what an owner of the lock may overwrite *)
Recoverable(p) ==
    \/ record[Mine(p)] = "protocol"
    \/ record[Mine(p)] = "legacy" /\ ~legacy
    \/ record[Mine(p)] = "empty" /\ created[p]

(* prepare_lock_metadata truncates the record and then writes it again. An *)
(* empty file that somebody else created is taken for one being written.   *)
PrepareRecord(p) ==
    /\ pc[p] = "prepare"
    /\ \/ /\ Recoverable(p)
          /\ record' = [record EXCEPT ![Mine(p)] = "empty"]
          /\ Goto(p, "sign") /\ UNCHANGED <<holder, fd>>
       \/ /\ ~Recoverable(p) /\ record[Mine(p)] = "empty"
          /\ holder' = [holder EXCEPT ![Mine(p)] = None]
          /\ fd' = [fd EXCEPT ![p]["primary"] = 0]
          /\ Goto(p, "retry") /\ UNCHANGED record
       \/ /\ ~Recoverable(p) /\ record[Mine(p)] # "empty"
          /\ Fail(p) /\ UNCHANGED <<record, holder, fd>>
    /\ UNCHANGED <<path, made, legacy, op, file, seen, created, temp, target, bounds>>

SignRecord(p) ==
    /\ pc[p] = "sign"
    /\ record' = [record EXCEPT ![Mine(p)] = "protocol"]
    /\ Goto(p, "recheck")
    /\ UNCHANGED <<path, made, holder, legacy, proc, temp, target, bounds>>

(* The last check of acquire; file_lock_for also looks at the guard again *)
RecheckLock(p) ==
    /\ pc[p] = "recheck"
    /\ IF Genuine(p, "primary") /\ (LangOf[p] = "python" => Genuine(p, "guard"))
       THEN Goto(p, IF op[p] = "create" THEN "read" ELSE "check") ELSE Fail(p)
    /\ UNCHANGED <<fs, legacy, proc, temp, target, bounds>>

(* Mutant: the file is not looked at again under the lock *)
TrustEarlierLook(p) ==
    /\ pc[p] = "read" /\ Goto(p, "check")
    /\ UNCHANGED <<fs, legacy, proc, temp, target, bounds>>

(* atomic_read_or_create_text, adopt_legacy_baseline_locked: nothing to do if *)
(* the file is there                                                          *)
ReadTarget(p) ==
    /\ pc[p] = "read"
    /\ Goto(p, IF target THEN "release" ELSE "check")
    /\ UNCHANGED <<fs, legacy, proc, temp, target, bounds>>

CheckGuard(p) ==
    /\ pc[p] = "check"
    /\ IF Genuine(p, "guard") THEN Goto(p, "temp") ELSE Fail(p)
    /\ UNCHANGED <<fs, legacy, proc, temp, target, bounds>>

(* The temporary file is written; a failure removes it again *)
WriteTemp(p) ==
    /\ pc[p] = "temp"
    /\ \/ Goto(p, "rename") /\ temp' = [temp EXCEPT ![p] = TRUE]
       \/ Fail(p) /\ UNCHANGED temp
    /\ UNCHANGED <<fs, legacy, proc, target, bounds>>

(* write_text_locked looks at the guard once more, or the rename fails *)
ReplaceFails(p) ==
    /\ pc[p] = "rename"
    /\ temp' = [temp EXCEPT ![p] = FALSE]
    /\ Fail(p)
    /\ UNCHANGED <<fs, legacy, proc, target, bounds>>

ReplaceTarget(p) ==
    /\ pc[p] = "rename"
    /\ LangOf[p] = "rust" => Genuine(p, "guard")
    /\ temp' = [temp EXCEPT ![p] = FALSE]
    /\ target' = TRUE
    /\ Goto(p, "release")
    /\ UNCHANGED <<fs, legacy, proc, bounds>>

Unlocked(p, i) == [holder EXCEPT ![i] = IF @ = p THEN None ELSE @]

ReleasePrimary(p) ==
    /\ pc[p] = "release"
    /\ holder' = IF fd[p]["primary"] = 0 THEN holder ELSE Unlocked(p, fd[p]["primary"])
    /\ fd' = [fd EXCEPT ![p]["primary"] = 0]
    /\ Goto(p, "unguard")
    /\ UNCHANGED <<path, made, record, legacy, op, file, seen, created, temp, target, bounds>>

(* Mutant: the guard is only released by a call that got the primary lock *)
ReleaseOfOwner(p) ==
    /\ pc[p] = "unguard"
    /\ holder' = IF file[p] = "guard" \/ ~created[p] THEN holder ELSE Unlocked(p, fd[p]["guard"])
    /\ fd' = [fd EXCEPT ![p] = NoFds]
    /\ created' = [created EXCEPT ![p] = FALSE]
    /\ Goto(p, "idle")
    /\ UNCHANGED <<path, made, record, legacy, op, file, seen, temp, target, bounds>>

ReleaseGuard(p) ==
    /\ pc[p] = "unguard"
    /\ holder' = IF fd[p]["guard"] = 0 THEN holder ELSE Unlocked(p, fd[p]["guard"])
    /\ fd' = [fd EXCEPT ![p] = NoFds]
    /\ created' = [created EXCEPT ![p] = FALSE]
    /\ Goto(p, "idle")
    /\ UNCHANGED <<path, made, record, legacy, op, file, seen, temp, target, bounds>>

-----------------------------------------------------------------------------
(* The rest of the machine                                                 *)

(* A process dies; the operating system drops its locks, its files stay *)
Crash(p) ==
    /\ crashes < MaxCrashes /\ pc[p] \notin {"idle", "dead"}
    /\ crashes' = crashes + 1
    /\ Goto(p, "dead")
    /\ holder' = [i \in Inodes |-> IF holder[i] = p THEN None ELSE holder[i]]
    /\ fd' = [fd EXCEPT ![p] = NoFds]
    /\ UNCHANGED <<path, made, record, legacy, op, file, seen, created, temp, target, removals>>

(* clear_displaced_adjacent_protocol_lock of a version that moved its locks *)
(* elsewhere unlinks lock files that a process of this one may be using.    *)
(* It looks at the two files one after the other, and each may be left      *)
(* alone, so one call is up to two of these steps                           *)
RemoveDisplaced(f) ==
    /\ removals["guard"] + removals["primary"] < MaxRemovals /\ path[f] # 0
    /\ record[path[f]] \in {"empty", "protocol"}
    /\ removals' = [removals EXCEPT ![f] = @ + 1]
    /\ path' = [path EXCEPT ![f] = 0]
    /\ UNCHANGED <<made, record, holder, legacy, pc, proc, temp, target, crashes>>

LegacyDies ==
    /\ legacy /\ legacy' = FALSE
    /\ UNCHANGED <<fs, pc, proc, temp, target, bounds>>

Step(p) ==
    \/ CreateLock(p) \/ LookForLock(p) \/ OpenLock(p) \/ TryLock(p) \/ VerifyLock(p) \/ Retry(p)
    \/ PrepareRecord(p) \/ SignRecord(p) \/ RecheckLock(p)
    \/ ReadTarget(p) \/ CheckGuard(p) \/ WriteTemp(p) \/ ReplaceTarget(p) \/ ReplaceFails(p)
    \/ ReleasePrimary(p) \/ ReleaseGuard(p)

Next ==
    \/ \E p \in Procs : Begin(p) \/ Step(p) \/ Timeout(p) \/ Crash(p)
    \/ \E f \in Files : RemoveDisplaced(f)
    \/ LegacyDies

Spec == Init /\ [][Next]_vars

(* Nothing in a call waits for another process, and the clock ends the    *)
(* retries: a call that retries again and again passes its ten seconds    *)
FairSpec == Spec /\ \A p \in Procs : WF_vars(Step(p)) /\ SF_vars(Timeout(p))

-----------------------------------------------------------------------------
Labels == {"idle", "create", "look", "open", "lock", "verify", "retry", "prepare", "sign", "recheck", "read",
           "check", "temp", "rename", "release", "unguard", "dead"}

Owns(p) == pc[p] \in {"sign", "recheck", "read", "check", "temp", "rename"}

TypeOK ==
    /\ path \in [Files -> 0 .. made] /\ made \in 0 .. MaxInodes
    /\ record \in [Inodes -> LockRecords]
    /\ holder \in [Inodes -> Procs \cup {None}]
    /\ pc \in [Procs -> Labels]
    /\ op \in [Procs -> {"write", "create"}]
    /\ file \in [Procs -> Files]
    /\ seen \in [Procs -> 0 .. made]
    /\ fd \in [Procs -> [Files -> 0 .. made]]
    /\ legacy \in BOOLEAN /\ target \in BOOLEAN
    /\ created \in [Procs -> BOOLEAN] /\ temp \in [Procs -> BOOLEAN]
    /\ crashes \in 0 .. MaxCrashes /\ removals \in [Files -> 0 .. MaxRemovals]

(* One of the two paths has never been unlinked *)
SomePathIsStable == \E f \in Files : removals[f] = 0

(***************************************************************************)
(* Two writers, of whatever language, never own the file at once, although *)
(* a process may die at any point and one of the two lock files may be     *)
(* unlinked under its owner: this is what the second lock file is for.     *)
(***************************************************************************)
OneOwner == SomePathIsStable => \A p, q \in Procs : Owns(p) /\ Owns(q) => p = q

(***************************************************************************)
(* A check-then-write operation stays atomic across processes: the file    *)
(* that it found missing is still missing when it writes it, so of several *)
(* processes that create a key or a baseline all go on with the same one.  *)
(***************************************************************************)
CreatesOnlyOnce ==
    SomePathIsStable => \A p \in Procs : op[p] = "create" /\ pc[p] \in {"check", "temp", "rename"} => ~target

(***************************************************************************)
(* No call succeeds in owning the file while the process of a legacy lock  *)
(* record is alive: legacy records are recovered only from the dead.       *)
(***************************************************************************)
LegacyIsRespected == legacy => (path["primary"] # 0 => \A p \in Procs : ~Owns(p))

(***************************************************************************)
(* A call that has returned, on any of its error paths, or that has died   *)
(* holds no lock; otherwise the next call times out although nobody writes.*)
(* Temporary files are left behind by dead processes only.                 *)
(***************************************************************************)
NothingOutlivesItsCall ==
    /\ \A i \in Inodes : holder[i] # None =>
          pc[holder[i]] \notin {"idle", "dead"} /\ \E f \in Files : fd[holder[i]][f] = i
    /\ \A p \in Procs : temp[p] => pc[p] \in {"rename", "dead"}

(***************************************************************************)
(* Every call returns, even if the lock file can never be taken again.     *)
(***************************************************************************)
CallEnds == \A p \in Procs : pc[p] # "idle" ~> pc[p] \in {"idle", "dead"}

(***************************************************************************)
(* "A holder death releases its OS byte lock, so a new owner enters": the  *)
(* owner of both locks never finds a record that no one will ever complete.*)
(***************************************************************************)
NewOwnerEnters ==
    \A p \in Procs : pc[p] = "prepare" /\ ~Recoverable(p) =>
        record[Mine(p)] # "empty" \/ \E q \in Procs \ {p} : created[q] /\ fd[q]["primary"] = Mine(p)
=============================================================================
