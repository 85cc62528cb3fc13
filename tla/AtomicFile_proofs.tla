------------------------- MODULE AtomicFile_proofs -------------------------
(***************************************************************************)
(* Proofs about AtomicFile, for any number of processes of both languages, *)
(* crashes, removals and lock files.                                       *)
(***************************************************************************)
EXTENDS AtomicFile, TLAPS

(* A process between two attempts at the lock file it works on *)
Trying(p) == pc[p] \in {"create", "look", "open", "lock", "retry"}

(* A process that has just locked a file, or that has locked both *)
Locked(p) == pc[p] = "verify" \/ pc[p] = "prepare" \/ Owns(p)

(* Where a process is tells which locks it has *)
HasLocks(p) ==
    /\ pc[p] = "prepare" \/ Owns(p) => file[p] = "primary"
    /\ pc[p] = "lock" \/ Locked(p) => fd[p][file[p]] # 0
    /\ Locked(p) => holder[fd[p][file[p]]] = p
    /\ file[p] = "primary" /\ (Trying(p) \/ Locked(p)) =>
          fd[p]["guard"] # 0 /\ holder[fd[p]["guard"]] = p

HasItsLocks == \A p \in Procs : HasLocks(p)

(* The two lock files are never the same inode *)
FilesAreApart ==
    /\ path["guard"] # 0 => path["guard"] # path["primary"]
    /\ \A p \in Procs :
          /\ path["guard"] # 0 => path["guard"] # fd[p]["primary"]
          /\ fd[p]["guard"] # 0 => fd[p]["guard"] # path["primary"] /\ fd[p]["guard"] # fd[p]["primary"]

(* Whoever has a file open that was never unlinked has the current one open *)
StableIsCurrent ==
    \A f \in Files : removals[f] = 0 =>
        \A p \in Procs : fd[p][f] # 0 => fd[p][f] = path[f]

LockInv == TypeOK /\ HasItsLocks /\ FilesAreApart /\ StableIsCurrent

LEMMA InitLock == Init => LockInv
<1> SUFFICES ASSUME Init PROVE LockInv
  OBVIOUS
<1>. USE ConstantsAssumption DEF Init, Files, Inodes, NoFds, Owns
<1>1. TypeOK
  <2>1. path \in [Files -> 0 .. made] /\ made \in 0 .. MaxInodes
    OBVIOUS
  <2>2. record \in [Inodes -> LockRecords]
    BY DEF LockRecords
  <2>3. legacy \in BOOLEAN /\ target \in BOOLEAN /\ created \in [Procs -> BOOLEAN] /\ temp \in [Procs -> BOOLEAN]
    OBVIOUS
  <2>4. holder \in [Inodes -> Procs \cup {None}] /\ pc \in [Procs -> Labels] /\ op \in [Procs -> {"write", "create"}] /\ file \in [Procs -> Files]
    BY DEF Labels
  <2>5. seen \in [Procs -> 0 .. made] /\ fd \in [Procs -> [Files -> 0 .. made]]
    BY <2>1
  <2>6. crashes \in 0 .. MaxCrashes /\ removals \in [Files -> 0 .. MaxRemovals]
    OBVIOUS
  <2>. QED
    BY <2>1, <2>2, <2>3, <2>4, <2>5, <2>6 DEF TypeOK
<1>2. HasItsLocks /\ FilesAreApart /\ StableIsCurrent
  BY DEF HasItsLocks, HasLocks, FilesAreApart, StableIsCurrent, Trying, Locked
<1>. QED
  BY <1>1, <1>2 DEF LockInv

(* Every step keeps the types *)
LEMMA TypeStep ==
  ASSUME LockInv, [Next]_vars
  PROVE  TypeOK'
<1>. USE ConstantsAssumption DEF LockInv, TypeOK, Files, Inodes, Goto, Fail, Mine, fs, proc, bounds, vars
<1>. USE DEF Labels
<1>1. ASSUME NEW p \in Procs, Begin(p) PROVE TypeOK'
  BY <1>1 DEF Begin, FirstStep
<1>2. ASSUME NEW p \in Procs, CreateLock(p) PROVE TypeOK'
  <2>1. CASE path[file[p]] # 0
    BY <1>2, <2>1, ZenonT(30) DEF CreateLock
  <2>2. CASE path[file[p]] = 0
    <3>1. made' = made + 1 /\ made' \in 0 .. MaxInodes /\ file[p] \in Files
      BY <1>2, <2>2 DEF CreateLock
    <3>2. path' \in [Files -> 0 .. made']
      BY <1>2, <2>2, <3>1 DEF CreateLock
    <3>3. fd' \in [Procs -> [Files -> 0 .. made']]
      <4>1. fd' = [fd EXCEPT ![p][file[p]] = made + 1]
        BY <1>2, <2>2 DEF CreateLock
      <4>. QED
        BY <3>1, <4>1, SMTT(30)
    <3>4. seen' \in [Procs -> 0 .. made']
      BY <1>2, <2>2, <3>1 DEF CreateLock
    <3>5. record' \in [Inodes -> LockRecords] /\ holder' \in [Inodes -> Procs \cup {None}]
      BY <1>2, <2>2 DEF CreateLock, LockRecords
    <3>6. pc' \in [Procs -> Labels] /\ op' \in [Procs -> {"write", "create"}] /\ file' \in [Procs -> Files]
      BY <1>2, <2>2, ZenonT(30) DEF CreateLock
    <3>7. /\ legacy' \in BOOLEAN /\ target' \in BOOLEAN
          /\ created' \in [Procs -> BOOLEAN] /\ temp' \in [Procs -> BOOLEAN]
      BY <1>2, <2>2 DEF CreateLock
    <3>. QED
      BY <1>2, <3>1, <3>2, <3>3, <3>4, <3>5, <3>6, <3>7 DEF CreateLock
  <2>. QED
    BY <2>1, <2>2
<1>3. ASSUME NEW p \in Procs, LookForLock(p) PROVE TypeOK'
  BY <1>3 DEF LookForLock
<1>4. ASSUME NEW p \in Procs, OpenLock(p) PROVE TypeOK'
  BY <1>4 DEF OpenLock
<1>5. ASSUME NEW p \in Procs, TryLock(p) PROVE TypeOK'
  <2>1. fd' \in [Procs -> [Files -> 0 .. made']]
    <3>1. fd' = fd \/ fd' = [fd EXCEPT ![p][file[p]] = 0]
      BY <1>5 DEF TryLock
    <3>2. made' = made /\ file[p] \in Files /\ 0 \in 0 .. made
      BY <1>5 DEF TryLock
    <3>3. CASE fd' = [fd EXCEPT ![p][file[p]] = 0]
      BY <3>2, <3>3
    <3>. QED
      BY <3>1, <3>2, <3>3
  <2>2. pc' \in [Procs -> Labels]
    <3>1. pc' = [pc EXCEPT ![p] = "verify"] \/ pc' = [pc EXCEPT ![p] = "retry"]
      BY <1>5 DEF TryLock
    <3>. QED
      BY <3>1
  <2>3. holder' \in [Inodes -> Procs \cup {None}]
    <3>1. holder' = holder \/ holder' = [holder EXCEPT ![Mine(p)] = p]
      BY <1>5 DEF TryLock
    <3>. QED
      BY <3>1
  <2>. QED
    BY <1>5, <2>1, <2>2, <2>3 DEF TryLock
<1>6. ASSUME NEW p \in Procs, VerifyLock(p) PROVE TypeOK'
  BY <1>6, ZenonT(30) DEF VerifyLock, FirstStep
<1>7. ASSUME NEW p \in Procs, Retry(p) PROVE TypeOK'
  BY <1>7 DEF Retry, FirstStep
<1>8. ASSUME NEW p \in Procs, Timeout(p) PROVE TypeOK'
  BY <1>8 DEF Timeout
<1>9. ASSUME NEW p \in Procs, PrepareRecord(p) PROVE TypeOK'
  <2>1. fd' \in [Procs -> [Files -> 0 .. made']]
    <3>1. fd' = fd \/ fd' = [fd EXCEPT ![p]["primary"] = 0]
      BY <1>9 DEF PrepareRecord
    <3>2. made' = made /\ 0 \in 0 .. made
      BY <1>9 DEF PrepareRecord
    <3>3. CASE fd' = [fd EXCEPT ![p]["primary"] = 0]
      BY <3>2, <3>3
    <3>. QED
      BY <3>1, <3>2, <3>3
  <2>2. pc' \in [Procs -> Labels] /\ holder' \in [Inodes -> Procs \cup {None}]
    BY <1>9, ZenonT(30) DEF PrepareRecord
  <2>3. record' \in [Inodes -> LockRecords]
    BY <1>9 DEF PrepareRecord, LockRecords
  <2>. QED
    BY <1>9, <2>1, <2>2, <2>3 DEF PrepareRecord
<1>10. ASSUME NEW p \in Procs, SignRecord(p) PROVE TypeOK'
  BY <1>10 DEF SignRecord, LockRecords
<1>11. ASSUME NEW p \in Procs, RecheckLock(p) PROVE TypeOK'
  BY <1>11, ZenonT(30) DEF RecheckLock
<1>12. ASSUME NEW p \in Procs, ReadTarget(p) PROVE TypeOK'
  BY <1>12 DEF ReadTarget
<1>13. ASSUME NEW p \in Procs, CheckGuard(p) PROVE TypeOK'
  BY <1>13, ZenonT(30) DEF CheckGuard
<1>14. ASSUME NEW p \in Procs, WriteTemp(p) PROVE TypeOK'
  BY <1>14 DEF WriteTemp
<1>15. ASSUME NEW p \in Procs, ReplaceTarget(p) PROVE TypeOK'
  BY <1>15 DEF ReplaceTarget
<1>16. ASSUME NEW p \in Procs, ReplaceFails(p) PROVE TypeOK'
  BY <1>16 DEF ReplaceFails
<1>17. ASSUME NEW p \in Procs, ReleasePrimary(p) PROVE TypeOK'
  <2>1. fd' \in [Procs -> [Files -> 0 .. made']]
    <3>1. fd' = [fd EXCEPT ![p]["primary"] = 0] /\ made' = made /\ 0 \in 0 .. made
      BY <1>17 DEF ReleasePrimary
    <3>. QED
      BY <3>1
  <2>2. holder' \in [Inodes -> Procs \cup {None}]
    <3>1. holder' = holder \/ holder' = Unlocked(p, fd[p]["primary"])
      BY <1>17 DEF ReleasePrimary
    <3>. QED
      BY <3>1, ZenonT(30) DEF Unlocked
  <2>. QED
    BY <1>17, <2>1, <2>2 DEF ReleasePrimary
<1>18. ASSUME NEW p \in Procs, ReleaseGuard(p) PROVE TypeOK'
  <2>1. fd' \in [Procs -> [Files -> 0 .. made']]
    <3>1. fd' = [fd EXCEPT ![p] = NoFds] /\ made' = made /\ 0 \in 0 .. made
      BY <1>18 DEF ReleaseGuard
    <3>. QED
      BY <3>1 DEF NoFds
  <2>2. holder' \in [Inodes -> Procs \cup {None}]
    <3>1. holder' = holder \/ holder' = Unlocked(p, fd[p]["guard"])
      BY <1>18 DEF ReleaseGuard
    <3>. QED
      BY <3>1, ZenonT(30) DEF Unlocked
  <2>. QED
    BY <1>18, <2>1, <2>2 DEF ReleaseGuard
<1>19. ASSUME NEW p \in Procs, Crash(p) PROVE TypeOK'
  <2>1. fd' \in [Procs -> [Files -> 0 .. made']]
    <3>1. fd' = [fd EXCEPT ![p] = NoFds] /\ made' = made /\ 0 \in 0 .. made
      BY <1>19 DEF Crash
    <3>. QED
      BY <3>1 DEF NoFds
  <2>2. holder' \in [Inodes -> Procs \cup {None}] /\ pc' \in [Procs -> Labels] /\ crashes' \in 0 .. MaxCrashes
    BY <1>19 DEF Crash
  <2>. QED
    BY <1>19, <2>1, <2>2 DEF Crash
<1>20. ASSUME NEW f \in Files, RemoveDisplaced(f) PROVE TypeOK'
  <2>1. path' \in [Files -> 0 .. made'] /\ made' = made
    <3>1. path' = [path EXCEPT ![f] = 0] /\ made' = made /\ 0 \in 0 .. made
      BY <1>20 DEF RemoveDisplaced
    <3>. QED
      BY <3>1
  <2>2. removals' \in [Files -> 0 .. MaxRemovals]
    <3>1. removals["guard"] \in Nat /\ removals["primary"] \in Nat /\ MaxRemovals \in Nat
      OBVIOUS
    <3>2. removals["guard"] + removals["primary"] < MaxRemovals
      BY <1>20 DEF RemoveDisplaced
    <3>3. removals[f] + 1 \in 0 .. MaxRemovals
      <4>1. CASE f = "guard"
        BY <3>1, <3>2, <4>1
      <4>2. CASE f = "primary"
        BY <3>1, <3>2, <4>2
      <4>. QED
        BY <4>1, <4>2
    <3>4. removals' = [removals EXCEPT ![f] = removals[f] + 1]
      BY <1>20 DEF RemoveDisplaced
    <3>. QED
      BY <3>3, <3>4
  <2>. QED
    BY <1>20, <2>1, <2>2 DEF RemoveDisplaced
<1>21. CASE LegacyDies \/ UNCHANGED vars
  BY <1>21, ZenonT(30) DEF LegacyDies
<1>. QED
  BY <1>1, <1>2, <1>3, <1>4, <1>5, <1>6, <1>7, <1>8, <1>9, <1>10, <1>11, <1>12, <1>13, <1>14, <1>15, <1>16,
     <1>17, <1>18, <1>19, <1>20, <1>21 DEF Next, Step

(* Every step leaves each process with the locks its place in the call implies *)
LEMMA LocksStep ==
  ASSUME LockInv, [Next]_vars
  PROVE  HasItsLocks'
<1>. USE ConstantsAssumption DEF LockInv, TypeOK, HasItsLocks, HasLocks, Trying, Locked, Files, Inodes, Owns, Goto, Fail, Mine,
         fs, proc, bounds, vars
<1>1. ASSUME NEW p \in Procs, Begin(p) PROVE HasItsLocks'
  BY <1>1 DEF Begin, FirstStep
<1>2. ASSUME NEW p \in Procs, CreateLock(p) PROVE HasItsLocks'
  <2>1. CASE path[file[p]] # 0
    BY <1>2, <2>1 DEF CreateLock
  <2>2. CASE path[file[p]] = 0
    <3>1. /\ pc[p] = "create" /\ pc' = [pc EXCEPT ![p] = "lock"] /\ file' = file /\ holder' = holder /\ removals' = removals
          /\ file[p] \in Files /\ made \in Nat
      BY <1>2, <2>2 DEF CreateLock
    <3>2. \A f \in Files : path'[f] = IF f = file[p] THEN made + 1 ELSE path[f]
      BY <1>2, <2>2 DEF CreateLock
    <3>3. \A q \in Procs, f \in Files : fd'[q][f] = IF q = p /\ f = file[p] THEN made + 1 ELSE fd[q][f]
      BY <1>2, <2>2 DEF CreateLock
    <3>4. \A q \in Procs, f \in Files : fd[q][f] \in 0 .. made /\ path[f] \in 0 .. made
      OBVIOUS
    <3>5. ASSUME NEW q \in Procs, q # p PROVE HasLocks(q)'
      <4>1. pc'[q] = pc[q] /\ file'[q] = file[q] /\ file[q] \in Files
        BY <3>1, <3>5
      <4>2. fd'[q]["guard"] = fd[q]["guard"] /\ fd'[q][file[q]] = fd[q][file[q]]
        BY <3>3, <3>5, <4>1
      <4>. QED
        BY <3>1, <4>1, <4>2
    <3>6. HasLocks(p)'
      <4>1. pc'[p] = "lock" /\ file'[p] = file[p] /\ Trying(p)
        BY <3>1
      <4>2. fd'[p][file[p]] = made + 1 /\ (file[p] = "primary" => fd'[p]["guard"] = fd[p]["guard"])
        BY <3>1, <3>3
      <4>. QED
        BY <3>1, <4>1, <4>2
    <3>. QED
      BY <3>5, <3>6
  <2>. QED
    BY <2>1, <2>2
<1>3. ASSUME NEW p \in Procs, LookForLock(p) PROVE HasItsLocks'
  BY <1>3 DEF LookForLock
<1>4. ASSUME NEW p \in Procs, OpenLock(p) PROVE HasItsLocks'
  BY <1>4 DEF OpenLock
<1>5. ASSUME NEW p \in Procs, TryLock(p) PROVE HasItsLocks'
  <2>1. CASE holder[Mine(p)] = None
    <3>1. /\ pc[p] = "lock" /\ pc' = [pc EXCEPT ![p] = "verify"]
          /\ holder' = [holder EXCEPT ![Mine(p)] = p] /\ UNCHANGED <<fd, file>>
      BY <1>5, <2>1 DEF TryLock
    <3>2. Mine(p) \in Inodes
      <4>0. file[p] \in Files /\ fd[p] \in [Files -> 0 .. made]
        OBVIOUS
      <4>1. fd[p][file[p]] \in 0 .. made /\ made \in 0 .. MaxInodes
        BY <4>0
      <4>2. fd[p][file[p]] # 0
        BY <3>1
      <4>. QED
        BY <4>1, <4>2
    <3>3. ASSUME NEW q \in Procs, q # p PROVE HasLocks(q)'
      BY <2>1, <3>1, <3>2, <3>3
    <3>4. HasLocks(p)'
      BY <2>1, <3>1, <3>2
    <3>. QED
      BY <3>3, <3>4
  <2>2. CASE holder[Mine(p)] # None
    <3>1. pc[p] = "lock" /\ pc' = [pc EXCEPT ![p] = "retry"] /\ file[p] \in Files /\ UNCHANGED <<file, holder, path, removals>>
      BY <1>5, <2>2 DEF TryLock
    <3>2. \A q \in Procs, f \in Files : fd'[q][f] = IF q = p /\ f = file[p] THEN 0 ELSE fd[q][f]
      BY <1>5, <2>2 DEF TryLock
    <3>3. ASSUME NEW q \in Procs, q # p PROVE HasLocks(q)'
      <4>1. pc'[q] = pc[q] /\ file'[q] = file[q] /\ file[q] \in Files
        BY <3>1, <3>3
      <4>2. fd'[q]["guard"] = fd[q]["guard"] /\ fd'[q][file[q]] = fd[q][file[q]]
        BY <3>2, <3>3, <4>1
      <4>. QED
        BY <3>1, <4>1, <4>2
    <3>4. HasLocks(p)'
      <4>1. pc'[p] = "retry" /\ file'[p] = file[p] /\ Trying(p)
        BY <3>1
      <4>2. file[p] = "primary" => fd'[p]["guard"] = fd[p]["guard"]
        BY <3>1, <3>2
      <4>. QED
        BY <3>1, <4>1, <4>2
    <3>. QED
      BY <3>3, <3>4
  <2>. QED
    BY <2>1, <2>2
<1>6. ASSUME NEW p \in Procs, VerifyLock(p) PROVE HasItsLocks'
  <2>1. pc[p] = "verify" /\ fd' = fd /\ holder' = holder
    BY <1>6 DEF VerifyLock
  <2>2. CASE ~Genuine(p, file[p])
    BY <1>6, <2>1, <2>2 DEF VerifyLock
  <2>3. CASE Genuine(p, file[p]) /\ file[p] = "guard"
    <3>1. /\ pc' = [pc EXCEPT ![p] = FirstStep(p)] /\ file' = [file EXCEPT ![p] = "primary"]
          /\ FirstStep(p) \in {"create", "look"}
      BY <1>6, <2>3 DEF VerifyLock, FirstStep
    <3>2. ASSUME NEW q \in Procs, q # p PROVE HasLocks(q)'
      BY <2>1, <3>1, <3>2
    <3>3. HasLocks(p)'
      BY <2>1, <2>3, <3>1
    <3>. QED
      BY <3>2, <3>3
  <2>4. CASE Genuine(p, file[p]) /\ file[p] = "primary"
    BY <1>6, <2>1, <2>4 DEF VerifyLock
  <2>. QED
    BY <2>2, <2>3, <2>4
<1>7. ASSUME NEW p \in Procs, Retry(p) PROVE HasItsLocks'
  BY <1>7 DEF Retry, FirstStep
<1>8. ASSUME NEW p \in Procs, Timeout(p) PROVE HasItsLocks'
  BY <1>8 DEF Timeout
<1>9. ASSUME NEW p \in Procs, PrepareRecord(p) PROVE HasItsLocks'
  <2>1. CASE fd' = fd /\ holder' = holder
    BY <1>9, <2>1, SMTT(30) DEF PrepareRecord
  <2>2. CASE fd' = [fd EXCEPT ![p]["primary"] = 0] /\ holder' = [holder EXCEPT ![Mine(p)] = None] /\ Goto(p, "retry")
    <3>1. pc[p] = "prepare" /\ pc' = [pc EXCEPT ![p] = "retry"] /\ file[p] = "primary" /\ UNCHANGED <<file, path, removals>>
      BY <1>9, <2>2 DEF PrepareRecord, HasItsLocks, HasLocks, Owns
    <3>2. \A q \in Procs, f \in Files : fd'[q][f] = IF q = p /\ f = "primary" THEN 0 ELSE fd[q][f]
      BY <2>2
    <3>3. \A q \in Procs, f \in Files : fd[q][f] \in 0 .. made /\ made <= MaxInodes
      OBVIOUS
    <3>. QED
      BY <2>2, <3>1, <3>2, <3>3 DEF FilesAreApart
  <2>. QED
    BY <1>9, <2>1, <2>2 DEF PrepareRecord
<1>10. ASSUME NEW p \in Procs, SignRecord(p) PROVE HasItsLocks'
  BY <1>10 DEF SignRecord
<1>11. ASSUME NEW p \in Procs, RecheckLock(p) PROVE HasItsLocks'
  BY <1>11 DEF RecheckLock
<1>12. ASSUME NEW p \in Procs, ReadTarget(p) PROVE HasItsLocks'
  BY <1>12 DEF ReadTarget
<1>13. ASSUME NEW p \in Procs, CheckGuard(p) PROVE HasItsLocks'
  BY <1>13 DEF CheckGuard
<1>14. ASSUME NEW p \in Procs, WriteTemp(p) PROVE HasItsLocks'
  BY <1>14, SMTT(30) DEF WriteTemp
<1>15. ASSUME NEW p \in Procs, ReplaceTarget(p) PROVE HasItsLocks'
  BY <1>15 DEF ReplaceTarget
<1>16. ASSUME NEW p \in Procs, ReplaceFails(p) PROVE HasItsLocks'
  BY <1>16 DEF ReplaceFails
<1>17. ASSUME NEW p \in Procs, ReleasePrimary(p) PROVE HasItsLocks'
  BY <1>17 DEF ReleasePrimary, Unlocked
<1>18. ASSUME NEW p \in Procs, ReleaseGuard(p) PROVE HasItsLocks'
  BY <1>18 DEF ReleaseGuard, Unlocked, NoFds
<1>19. ASSUME NEW p \in Procs, Crash(p) PROVE HasItsLocks'
  BY <1>19, SMTT(30) DEF Crash, NoFds
<1>20. ASSUME NEW f \in Files, RemoveDisplaced(f) PROVE HasItsLocks'
  BY <1>20 DEF RemoveDisplaced
<1>21. CASE LegacyDies \/ UNCHANGED vars
  BY <1>21 DEF LegacyDies
<1>. QED
  BY <1>1, <1>2, <1>3, <1>4, <1>5, <1>6, <1>7, <1>8, <1>9, <1>10, <1>11, <1>12, <1>13, <1>14, <1>15, <1>16,
     <1>17, <1>18, <1>19, <1>20, <1>21 DEF Next, Step

(* No step makes the two paths, or the two descriptors of a process, one inode *)
LEMMA ApartStep ==
  ASSUME LockInv, [Next]_vars
  PROVE  FilesAreApart'
<1>. USE ConstantsAssumption DEF LockInv, TypeOK, FilesAreApart, Files, Inodes, Owns, Goto, Fail, Mine,
         fs, proc, bounds, vars
<1>1. ASSUME NEW p \in Procs, Begin(p) PROVE FilesAreApart'
  BY <1>1 DEF Begin, FirstStep
<1>2. ASSUME NEW p \in Procs, CreateLock(p) PROVE FilesAreApart'
  <2>1. CASE path[file[p]] # 0
    BY <1>2, <2>1 DEF CreateLock
  <2>2. CASE path[file[p]] = 0
    <3>1. /\ pc' = [pc EXCEPT ![p] = "lock"] /\ file' = file /\ holder' = holder /\ removals' = removals
          /\ file[p] \in Files /\ made \in Nat
      BY <1>2, <2>2 DEF CreateLock
    <3>2. \A f \in Files : path'[f] = IF f = file[p] THEN made + 1 ELSE path[f]
      BY <1>2, <2>2 DEF CreateLock
    <3>3. \A q \in Procs, f \in Files : fd'[q][f] = IF q = p /\ f = file[p] THEN made + 1 ELSE fd[q][f]
      BY <1>2, <2>2 DEF CreateLock
    <3>4. \A q \in Procs, f \in Files : fd[q][f] \in 0 .. made /\ path[f] \in 0 .. made
      OBVIOUS
    <3>5. CASE file[p] = "guard"
      BY <2>2, <3>1, <3>2, <3>3, <3>4, <3>5
    <3>6. CASE file[p] = "primary"
      BY <2>2, <3>1, <3>2, <3>3, <3>4, <3>6
    <3>. QED
      BY <3>1, <3>5, <3>6
  <2>. QED
    BY <2>1, <2>2
<1>3. ASSUME NEW p \in Procs, LookForLock(p) PROVE FilesAreApart'
  BY <1>3 DEF LookForLock
<1>4. ASSUME NEW p \in Procs, OpenLock(p) PROVE FilesAreApart'
  BY <1>4 DEF OpenLock
<1>5. ASSUME NEW p \in Procs, TryLock(p) PROVE FilesAreApart'
  <2>1. CASE holder[Mine(p)] = None
    BY <1>5, <2>1 DEF TryLock
  <2>2. CASE holder[Mine(p)] # None
    <3>1. pc' = [pc EXCEPT ![p] = "retry"] /\ file[p] \in Files /\ UNCHANGED <<file, holder, path, removals>>
      BY <1>5, <2>2 DEF TryLock
    <3>2. \A q \in Procs, f \in Files : fd'[q][f] = IF q = p /\ f = file[p] THEN 0 ELSE fd[q][f]
      BY <1>5, <2>2 DEF TryLock
    <3>. QED
      BY <1>5, <2>2, <3>1, <3>2
  <2>. QED
    BY <2>1, <2>2
<1>6. ASSUME NEW p \in Procs, VerifyLock(p) PROVE FilesAreApart'
  BY <1>6 DEF VerifyLock, FirstStep, Genuine
<1>7. ASSUME NEW p \in Procs, Retry(p) PROVE FilesAreApart'
  BY <1>7 DEF Retry, FirstStep
<1>8. ASSUME NEW p \in Procs, Timeout(p) PROVE FilesAreApart'
  BY <1>8 DEF Timeout
<1>9. ASSUME NEW p \in Procs, PrepareRecord(p) PROVE FilesAreApart'
  <2>1. CASE fd' = fd /\ holder' = holder
    BY <1>9, <2>1 DEF PrepareRecord
  <2>2. CASE fd' = [fd EXCEPT ![p]["primary"] = 0] /\ holder' = [holder EXCEPT ![Mine(p)] = None] /\ Goto(p, "retry")
    <3>1. pc[p] = "prepare" /\ pc' = [pc EXCEPT ![p] = "retry"] /\ file[p] = "primary" /\ UNCHANGED <<file, path, removals>>
      BY <1>9, <2>2 DEF PrepareRecord, HasItsLocks, HasLocks, Owns
    <3>2. \A q \in Procs, f \in Files : fd'[q][f] = IF q = p /\ f = "primary" THEN 0 ELSE fd[q][f]
      BY <2>2
    <3>3. \A q \in Procs, f \in Files : fd[q][f] \in 0 .. made /\ made <= MaxInodes
      OBVIOUS
    <3>. QED
      BY <2>2, <3>1, <3>2, <3>3 DEF FilesAreApart
  <2>. QED
    BY <1>9, <2>1, <2>2 DEF PrepareRecord
<1>10. ASSUME NEW p \in Procs, SignRecord(p) PROVE FilesAreApart'
  BY <1>10 DEF SignRecord
<1>11. ASSUME NEW p \in Procs, RecheckLock(p) PROVE FilesAreApart'
  BY <1>11 DEF RecheckLock
<1>12. ASSUME NEW p \in Procs, ReadTarget(p) PROVE FilesAreApart'
  BY <1>12 DEF ReadTarget
<1>13. ASSUME NEW p \in Procs, CheckGuard(p) PROVE FilesAreApart'
  BY <1>13 DEF CheckGuard
<1>14. ASSUME NEW p \in Procs, WriteTemp(p) PROVE FilesAreApart'
  BY <1>14 DEF WriteTemp
<1>15. ASSUME NEW p \in Procs, ReplaceTarget(p) PROVE FilesAreApart'
  BY <1>15 DEF ReplaceTarget
<1>16. ASSUME NEW p \in Procs, ReplaceFails(p) PROVE FilesAreApart'
  BY <1>16 DEF ReplaceFails
<1>17. ASSUME NEW p \in Procs, ReleasePrimary(p) PROVE FilesAreApart'
  BY <1>17 DEF ReleasePrimary, Unlocked
<1>18. ASSUME NEW p \in Procs, ReleaseGuard(p) PROVE FilesAreApart'
  BY <1>18 DEF ReleaseGuard, Unlocked, NoFds
<1>19. ASSUME NEW p \in Procs, Crash(p) PROVE FilesAreApart'
  BY <1>19 DEF Crash, NoFds
<1>20. ASSUME NEW f \in Files, RemoveDisplaced(f) PROVE FilesAreApart'
  BY <1>20 DEF RemoveDisplaced
<1>21. CASE LegacyDies \/ UNCHANGED vars
  BY <1>21 DEF LegacyDies
<1>. QED
  BY <1>1, <1>2, <1>3, <1>4, <1>5, <1>6, <1>7, <1>8, <1>9, <1>10, <1>11, <1>12, <1>13, <1>14, <1>15, <1>16,
     <1>17, <1>18, <1>19, <1>20, <1>21 DEF Next, Step

(* Only an unlink makes an open lock file differ from the one at its path *)
LEMMA StableStep ==
  ASSUME LockInv, [Next]_vars
  PROVE  StableIsCurrent'
<1>. USE ConstantsAssumption DEF LockInv, TypeOK, StableIsCurrent, Files, Inodes, Owns, Goto, Fail, Mine,
         fs, proc, bounds, vars
<1>1. ASSUME NEW p \in Procs, Begin(p) PROVE StableIsCurrent'
  BY <1>1 DEF Begin, FirstStep
<1>2. ASSUME NEW p \in Procs, CreateLock(p) PROVE StableIsCurrent'
  <2>1. CASE path[file[p]] # 0
    BY <1>2, <2>1 DEF CreateLock
  <2>2. CASE path[file[p]] = 0
    <3>1. /\ pc' = [pc EXCEPT ![p] = "lock"] /\ file' = file /\ holder' = holder /\ removals' = removals
          /\ file[p] \in Files /\ made \in Nat
      BY <1>2, <2>2 DEF CreateLock
    <3>2. \A f \in Files : path'[f] = IF f = file[p] THEN made + 1 ELSE path[f]
      BY <1>2, <2>2 DEF CreateLock
    <3>3. \A q \in Procs, f \in Files : fd'[q][f] = IF q = p /\ f = file[p] THEN made + 1 ELSE fd[q][f]
      BY <1>2, <2>2, SMTT(30) DEF CreateLock
    <3>4. \A q \in Procs, f \in Files : fd[q][f] \in 0 .. made /\ path[f] \in 0 .. made
      OBVIOUS
    <3>5. CASE file[p] = "guard"
      BY <2>2, <3>1, <3>2, <3>3, <3>4, <3>5, SMTT(30)
    <3>6. CASE file[p] = "primary"
      BY <2>2, <3>1, <3>2, <3>3, <3>4, <3>6, SMTT(30)
    <3>. QED
      BY <3>1, <3>5, <3>6
  <2>. QED
    BY <2>1, <2>2
<1>3. ASSUME NEW p \in Procs, LookForLock(p) PROVE StableIsCurrent'
  BY <1>3 DEF LookForLock
<1>4. ASSUME NEW p \in Procs, OpenLock(p) PROVE StableIsCurrent'
  BY <1>4 DEF OpenLock
<1>5. ASSUME NEW p \in Procs, TryLock(p) PROVE StableIsCurrent'
  <2>1. CASE holder[Mine(p)] = None
    BY <1>5, <2>1 DEF TryLock
  <2>2. CASE holder[Mine(p)] # None
    <3>1. pc' = [pc EXCEPT ![p] = "retry"] /\ file[p] \in Files /\ UNCHANGED <<file, holder, path, removals>>
      BY <1>5, <2>2 DEF TryLock
    <3>2. \A q \in Procs, f \in Files : fd'[q][f] = IF q = p /\ f = file[p] THEN 0 ELSE fd[q][f]
      BY <1>5, <2>2, SMTT(30) DEF TryLock
    <3>. QED
      BY <1>5, <2>2, <3>1, <3>2
  <2>. QED
    BY <2>1, <2>2
<1>6. ASSUME NEW p \in Procs, VerifyLock(p) PROVE StableIsCurrent'
  BY <1>6 DEF VerifyLock, FirstStep, Genuine
<1>7. ASSUME NEW p \in Procs, Retry(p) PROVE StableIsCurrent'
  BY <1>7 DEF Retry, FirstStep
<1>8. ASSUME NEW p \in Procs, Timeout(p) PROVE StableIsCurrent'
  BY <1>8 DEF Timeout
<1>9. ASSUME NEW p \in Procs, PrepareRecord(p) PROVE StableIsCurrent'
  <2>1. CASE fd' = fd /\ holder' = holder
    BY <1>9, <2>1 DEF PrepareRecord
  <2>2. CASE fd' = [fd EXCEPT ![p]["primary"] = 0] /\ holder' = [holder EXCEPT ![Mine(p)] = None] /\ Goto(p, "retry")
    <3>1. pc[p] = "prepare" /\ pc' = [pc EXCEPT ![p] = "retry"] /\ file[p] = "primary" /\ UNCHANGED <<file, path, removals>>
      BY <1>9, <2>2 DEF PrepareRecord, HasItsLocks, HasLocks, Owns
    <3>2. \A q \in Procs, f \in Files : fd'[q][f] = IF q = p /\ f = "primary" THEN 0 ELSE fd[q][f]
      BY <2>2
    <3>3. \A q \in Procs, f \in Files : fd[q][f] \in 0 .. made /\ made <= MaxInodes
      OBVIOUS
    <3>. QED
      BY <2>2, <3>1, <3>2, <3>3 DEF FilesAreApart
  <2>. QED
    BY <1>9, <2>1, <2>2 DEF PrepareRecord
<1>10. ASSUME NEW p \in Procs, SignRecord(p) PROVE StableIsCurrent'
  BY <1>10 DEF SignRecord
<1>11. ASSUME NEW p \in Procs, RecheckLock(p) PROVE StableIsCurrent'
  BY <1>11 DEF RecheckLock
<1>12. ASSUME NEW p \in Procs, ReadTarget(p) PROVE StableIsCurrent'
  BY <1>12 DEF ReadTarget
<1>13. ASSUME NEW p \in Procs, CheckGuard(p) PROVE StableIsCurrent'
  BY <1>13 DEF CheckGuard
<1>14. ASSUME NEW p \in Procs, WriteTemp(p) PROVE StableIsCurrent'
  BY <1>14 DEF WriteTemp
<1>15. ASSUME NEW p \in Procs, ReplaceTarget(p) PROVE StableIsCurrent'
  BY <1>15 DEF ReplaceTarget
<1>16. ASSUME NEW p \in Procs, ReplaceFails(p) PROVE StableIsCurrent'
  BY <1>16 DEF ReplaceFails
<1>17. ASSUME NEW p \in Procs, ReleasePrimary(p) PROVE StableIsCurrent'
  BY <1>17 DEF ReleasePrimary, Unlocked
<1>18. ASSUME NEW p \in Procs, ReleaseGuard(p) PROVE StableIsCurrent'
  BY <1>18 DEF ReleaseGuard, Unlocked, NoFds
<1>19. ASSUME NEW p \in Procs, Crash(p) PROVE StableIsCurrent'
  BY <1>19 DEF Crash, NoFds
<1>20. ASSUME NEW f \in Files, RemoveDisplaced(f) PROVE StableIsCurrent'
  BY <1>20 DEF RemoveDisplaced
<1>21. CASE LegacyDies \/ UNCHANGED vars
  BY <1>21 DEF LegacyDies
<1>. QED
  BY <1>1, <1>2, <1>3, <1>4, <1>5, <1>6, <1>7, <1>8, <1>9, <1>10, <1>11, <1>12, <1>13, <1>14, <1>15, <1>16,
     <1>17, <1>18, <1>19, <1>20, <1>21 DEF Next, Step

(* Every step keeps the invariant of the lock protocol *)
LEMMA LockStep == LockInv /\ [Next]_vars => LockInv'
  BY TypeStep, LocksStep, ApartStep, StableStep DEF LockInv

(* AtomicFile keeps the invariant of the lock protocol *)
LEMMA LockInvariant == Spec => []LockInv
<1>1. Init => LockInv
  BY InitLock
<1>. QED
  BY <1>1, LockStep, PTL DEF Spec

(* safe_file.rs and atomic_io.py only ever reach well-formed states of the    *)
(* lock files and of the calls                                                *)
THEOREM FileTypeCorrect == Spec => []TypeOK
  BY LockInvariant, PTL DEF LockInv

(* Two owners have locked the same inode, the one at the stable path *)
LEMMA LocksExclude == LockInv => OneOwner
<1> SUFFICES ASSUME LockInv, NEW f \in Files, removals[f] = 0, NEW p \in Procs, NEW q \in Procs, Owns(p), Owns(q)
             PROVE  p = q
  BY DEF OneOwner, SomePathIsStable
<1>1. \A r \in {p, q} : file[r] = "primary" /\ Locked(r)
  BY DEF LockInv, HasItsLocks, HasLocks, Locked
<1>2. \A r \in {p, q} : fd[r][f] # 0 /\ holder[fd[r][f]] = r
  BY <1>1 DEF LockInv, HasItsLocks, HasLocks, Files
<1>3. \A r \in {p, q} : fd[r][f] = path[f]
  BY <1>2 DEF LockInv, StableIsCurrent
<1>. QED
  BY <1>2, <1>3

(* The second lock file does its work: file_lock_for and FileLock::acquire    *)
(* let one process in at a time while either path keeps its file, for any     *)
(* number of processes of both languages and whatever crashes                 *)
THEOREM OneOwnerHolds == Spec => []OneOwner
  BY LockInvariant, LocksExclude, PTL

-----------------------------------------------------------------------------
(* Only a call that is under way holds locks, and those of its descriptors *)
HoldsInCall(p, i) ==
    /\ pc[p] \notin {"idle", "dead"}
    /\ i = fd[p]["guard"] \/ i = fd[p]["primary"]
    /\ Trying(p) => file[p] = "primary" /\ i = fd[p]["guard"]
    /\ pc[p] = "unguard" \/ (pc[p] = "verify" /\ file[p] = "guard") => i = fd[p]["guard"]

HoldersAreInCall == \A p \in Procs : \A i \in Inodes : holder[i] = p => HoldsInCall(p, i)

TempIsInCall == \A p \in Procs : temp[p] => pc[p] \in {"rename", "dead"}

(* A step past the acquisition that moves only p's program counter keeps it *)
LEMMA HoldersQuietStep ==
  ASSUME TypeOK, HoldersAreInCall, NEW p \in Procs,
         UNCHANGED <<fd, holder, file>>,
         \A q \in Procs : q # p => pc'[q] = pc[q],
         pc[p] \in {"prepare", "sign", "recheck", "read", "check", "temp", "rename"},
         pc'[p] \in {"sign", "recheck", "read", "check", "temp", "rename", "release"}
  PROVE  HoldersAreInCall'
<1>1. SUFFICES ASSUME NEW q \in Procs, NEW i \in Inodes, holder[i] = q PROVE HoldsInCall(q, i)'
  BY DEF HoldersAreInCall
<1>2. HoldsInCall(q, i)
  BY <1>1 DEF HoldersAreInCall
<1>3. CASE q # p
  BY <1>2, <1>3 DEF HoldsInCall, Trying
<1>4. CASE q = p
  BY <1>2, <1>4 DEF HoldsInCall, Trying
<1>. QED
  BY <1>3, <1>4

LateStep(p) ==
    \/ SignRecord(p) \/ RecheckLock(p) \/ ReadTarget(p) \/ CheckGuard(p)
    \/ WriteTemp(p) \/ ReplaceTarget(p) \/ ReplaceFails(p)

(* The steps between the record and the release keep it *)
LEMMA HoldersLateStep ==
  ASSUME TypeOK, HoldersAreInCall, NEW p \in Procs, LateStep(p)
  PROVE  HoldersAreInCall'
<1>1. UNCHANGED <<fd, holder, file>>
  BY DEF LateStep, SignRecord, RecheckLock, ReadTarget, CheckGuard, WriteTemp, ReplaceTarget, ReplaceFails, fs, proc
<1>2. pc[p] \in {"sign", "recheck", "read", "check", "temp", "rename"}
  BY DEF LateStep, SignRecord, RecheckLock, ReadTarget, CheckGuard, WriteTemp, ReplaceTarget, ReplaceFails
<1>3. \E s \in {"recheck", "read", "check", "temp", "rename", "release"} : Goto(p, s)
  BY DEF LateStep, SignRecord, RecheckLock, ReadTarget, CheckGuard, WriteTemp, ReplaceTarget, ReplaceFails, Fail
<1>4. PICK s \in {"recheck", "read", "check", "temp", "rename", "release"} : Goto(p, s)
  BY <1>3
<1>5. pc'[p] = s /\ \A q \in Procs : q # p => pc'[q] = pc[q]
  BY <1>4 DEF Goto, TypeOK
<1>. QED
  BY <1>1, <1>2, <1>4, <1>5, HoldersQuietStep

(* Every step leaves locks with calls that are under way *)
LEMMA HoldersStep ==
  ASSUME LockInv, HoldersAreInCall, [Next]_vars
  PROVE  HoldersAreInCall'
<1>. USE ConstantsAssumption DEF LockInv, TypeOK, HoldersAreInCall, HoldsInCall, Trying, Files, Inodes, Owns, Goto, Fail, Mine,
         fs, proc, bounds, vars
<1>1. ASSUME NEW p \in Procs, Begin(p) PROVE HoldersAreInCall'
  BY <1>1 DEF Begin, FirstStep
<1>2. ASSUME NEW p \in Procs, CreateLock(p) PROVE HoldersAreInCall'
  <2>1. CASE path[file[p]] # 0
    BY <1>2, <2>1, SMTT(30) DEF CreateLock
  <2>2. CASE path[file[p]] = 0
    <3>1. /\ pc[p] = "create" /\ pc' = [pc EXCEPT ![p] = "lock"] /\ file' = file /\ holder' = holder
          /\ file[p] \in Files
      BY <1>2, <2>2 DEF CreateLock
    <3>2. \A q \in Procs, f \in Files : fd'[q][f] = IF q = p /\ f = file[p] THEN made + 1 ELSE fd[q][f]
      BY <1>2, <2>2, SMTT(30) DEF CreateLock
    <3>. QED
      BY <3>1, <3>2, SMTT(30)
  <2>. QED
    BY <2>1, <2>2
<1>3. ASSUME NEW p \in Procs, LookForLock(p) PROVE HoldersAreInCall'
  BY <1>3, SMTT(30) DEF LookForLock
<1>4. ASSUME NEW p \in Procs, OpenLock(p) PROVE HoldersAreInCall'
  <2>1. pc[p] = "open" /\ pc'[p] \in {"retry", "lock", "release"} /\ file' = file /\ holder' = holder /\ file[p] \in Files
    BY <1>4 DEF OpenLock
  <2>2. \A q \in Procs, f \in Files : ~(q = p /\ f = file[p]) => fd'[q][f] = fd[q][f]
    BY <1>4 DEF OpenLock
  <2>3. \A q \in Procs : q # p => pc'[q] = pc[q]
    BY <1>4 DEF OpenLock
  <2>. QED
    BY <2>1, <2>2, <2>3, SMTT(30)
<1>5. ASSUME NEW p \in Procs, TryLock(p) PROVE HoldersAreInCall'
  <2>1. CASE holder[Mine(p)] = None
    <3>1. /\ pc[p] = "lock" /\ pc' = [pc EXCEPT ![p] = "verify"]
          /\ holder' = [holder EXCEPT ![Mine(p)] = p] /\ UNCHANGED <<fd, file>>
      BY <1>5, <2>1 DEF TryLock
    <3>. QED
      BY <3>1
  <2>2. CASE holder[Mine(p)] # None
    <3>1. pc[p] = "lock" /\ pc' = [pc EXCEPT ![p] = "retry"] /\ file[p] \in Files /\ UNCHANGED <<file, holder>>
      BY <1>5, <2>2 DEF TryLock
    <3>2. \A q \in Procs, f \in Files : fd'[q][f] = IF q = p /\ f = file[p] THEN 0 ELSE fd[q][f]
      BY <1>5, <2>2 DEF TryLock
    <3>. QED
      BY <3>1, <3>2
  <2>. QED
    BY <2>1, <2>2
<1>6. ASSUME NEW p \in Procs, VerifyLock(p) PROVE HoldersAreInCall'
  <2>1. pc[p] = "verify" /\ fd' = fd /\ holder' = holder
    BY <1>6 DEF VerifyLock
  <2>2. CASE ~Genuine(p, file[p])
    <3>1. pc' = [pc EXCEPT ![p] = "release"] /\ file' = file
      BY <1>6, <2>2 DEF VerifyLock
    <3>. QED
      BY <2>1, <3>1
  <2>3. CASE Genuine(p, file[p])
    <3>1. /\ file' = [file EXCEPT ![p] = "primary"]
          /\ pc' = [pc EXCEPT ![p] = IF file[p] = "guard" THEN FirstStep(p) ELSE "prepare"]
          /\ FirstStep(p) \in {"create", "look"}
      BY <1>6, <2>3 DEF VerifyLock, FirstStep
    <3>. QED
      BY <2>1, <3>1
  <2>. QED
    BY <2>2, <2>3
<1>7. ASSUME NEW p \in Procs, Retry(p) \/ Timeout(p) PROVE HoldersAreInCall'
  BY <1>7, SMTT(30) DEF Retry, Timeout, FirstStep
<1>8. ASSUME NEW p \in Procs, PrepareRecord(p) PROVE HoldersAreInCall'
  <2>1. CASE fd' = fd /\ holder' = holder /\ (Goto(p, "sign") \/ Fail(p))
    <3>1. pc[p] = "prepare" /\ pc'[p] \in {"sign", "release"} /\ UNCHANGED <<fd, holder, file>>
      BY <1>8, <2>1 DEF PrepareRecord
    <3>2. \A q \in Procs : q # p => pc'[q] = pc[q]
      BY <2>1
    <3>. QED
      BY <3>1, <3>2, HoldersQuietStep
  <2>2. CASE fd' = [fd EXCEPT ![p]["primary"] = 0] /\ holder' = [holder EXCEPT ![Mine(p)] = None] /\ Goto(p, "retry")
    <3>1. pc[p] = "prepare" /\ pc' = [pc EXCEPT ![p] = "retry"] /\ file[p] = "primary" /\ file' = file
      BY <1>8, <2>2 DEF PrepareRecord, HasItsLocks, HasLocks
    <3>2. \A q \in Procs, f \in Files : fd'[q][f] = IF q = p /\ f = "primary" THEN 0 ELSE fd[q][f]
      BY <2>2
    <3>3. \A i \in Inodes : holder'[i] = IF i = fd[p]["primary"] THEN None ELSE holder[i]
      BY <2>2, <3>1
    <3>. QED
      BY <3>1, <3>2, <3>3
  <2>. QED
    BY <1>8, <2>1, <2>2 DEF PrepareRecord
<1>9. ASSUME NEW p \in Procs, LateStep(p) PROVE HoldersAreInCall'
  BY <1>9, HoldersLateStep
<1>11. ASSUME NEW p \in Procs, ReleasePrimary(p) PROVE HoldersAreInCall'
  <2>1. pc[p] = "release" /\ pc' = [pc EXCEPT ![p] = "unguard"] /\ file' = file
    BY <1>11 DEF ReleasePrimary
  <2>2. \A q \in Procs, f \in Files : fd'[q][f] = IF q = p /\ f = "primary" THEN 0 ELSE fd[q][f]
    BY <1>11, SMTT(30) DEF ReleasePrimary
  <2>3. \A i \in Inodes : holder'[i] = IF i = fd[p]["primary"] /\ holder[i] = p THEN None ELSE holder[i]
    BY <1>11 DEF ReleasePrimary, Unlocked
  <2>. QED
    BY <2>1, <2>2, <2>3, SMTT(30)
<1>12. ASSUME NEW p \in Procs, ReleaseGuard(p) PROVE HoldersAreInCall'
  <2>1. pc[p] = "unguard" /\ pc' = [pc EXCEPT ![p] = "idle"] /\ file' = file
    BY <1>12 DEF ReleaseGuard
  <2>2. \A q \in Procs, f \in Files : q # p => fd'[q][f] = fd[q][f]
    BY <1>12 DEF ReleaseGuard
  <2>3. \A i \in Inodes : holder'[i] = IF i = fd[p]["guard"] /\ holder[i] = p THEN None ELSE holder[i]
    BY <1>12 DEF ReleaseGuard, Unlocked
  <2>. QED
    BY <2>1, <2>2, <2>3, SMTT(30)
<1>13. ASSUME NEW p \in Procs, Crash(p) PROVE HoldersAreInCall'
  BY <1>13, SMTT(30) DEF Crash
<1>14. ASSUME NEW f \in Files, RemoveDisplaced(f) PROVE HoldersAreInCall'
  BY <1>14 DEF RemoveDisplaced
<1>15. CASE LegacyDies \/ UNCHANGED vars
  BY <1>15 DEF LegacyDies
<1>. QED
  BY <1>1, <1>2, <1>3, <1>4, <1>5, <1>6, <1>7, <1>8, <1>9, <1>11, <1>12, <1>13, <1>14, <1>15 DEF Next, Step, LateStep

(* A temporary file is renamed or removed in the call that wrote it *)
LEMMA TempStep ==
  ASSUME TypeOK, TempIsInCall, [Next]_vars
  PROVE  TempIsInCall'
<1>. USE DEF TypeOK, TempIsInCall, Goto, Fail, FirstStep, fs, proc, bounds, vars
<1>1. ASSUME NEW p \in Procs, Begin(p) \/ CreateLock(p) \/ LookForLock(p) \/ OpenLock(p) \/ TryLock(p) PROVE TempIsInCall'
  BY <1>1 DEF Begin, CreateLock, LookForLock, OpenLock, TryLock
<1>2. ASSUME NEW p \in Procs, VerifyLock(p) \/ Retry(p) \/ Timeout(p) \/ PrepareRecord(p) \/ SignRecord(p) PROVE TempIsInCall'
  BY <1>2 DEF VerifyLock, Retry, Timeout, PrepareRecord, SignRecord
<1>3. ASSUME NEW p \in Procs, RecheckLock(p) \/ ReadTarget(p) \/ CheckGuard(p) \/ ReleasePrimary(p) \/ ReleaseGuard(p) PROVE TempIsInCall'
  BY <1>3 DEF RecheckLock, ReadTarget, CheckGuard, ReleasePrimary, ReleaseGuard
<1>4. ASSUME NEW p \in Procs, WriteTemp(p) \/ ReplaceTarget(p) \/ ReplaceFails(p) \/ Crash(p) PROVE TempIsInCall'
  BY <1>4 DEF WriteTemp, ReplaceTarget, ReplaceFails, Crash
<1>5. CASE (\E f \in Files : RemoveDisplaced(f)) \/ LegacyDies \/ UNCHANGED vars
  BY <1>5 DEF RemoveDisplaced, LegacyDies
<1>. QED
  BY <1>1, <1>2, <1>3, <1>4, <1>5 DEF Next, Step

(* Whichever way a call of safe_file.rs or atomic_io.py ends, it leaves no    *)
(* lock behind, and no temporary file unless its process died                 *)
THEOREM NothingOutlives == Spec => []NothingOutlivesItsCall
<1>. DEFINE I == LockInv /\ HoldersAreInCall /\ TempIsInCall
<1>1. Init => I
  BY InitLock, ConstantsAssumption DEF Init, HoldersAreInCall, TempIsInCall
<1>2. I /\ [Next]_vars => I'
  BY LockStep, HoldersStep, TempStep DEF LockInv
<1>3. I => NothingOutlivesItsCall
  BY ConstantsAssumption DEF LockInv, TypeOK, HoldersAreInCall, HoldsInCall, TempIsInCall, NothingOutlivesItsCall, Files
<1>. QED
  BY <1>1, <1>2, <1>3, PTL DEF Spec

-----------------------------------------------------------------------------
(* While a legacy process lives, the primary path names the file it left *)
LegacyInv ==
    legacy =>
        /\ path["primary"] = 1 /\ record[1] = "legacy" /\ made >= 1
        /\ \A p \in Procs : fd[p]["primary"] \in {0, 1} /\ ~Owns(p)

(* No step overwrites the record of a living legacy process *)
LEMMA LegacyStep ==
  ASSUME LockInv, LegacyInv, [Next]_vars
  PROVE  LegacyInv'
<1>. USE ConstantsAssumption DEF LockInv, TypeOK, LegacyInv, Files, Inodes, Owns, Goto, Fail, Mine, FirstStep, fs, proc, bounds, vars
<1> SUFFICES ASSUME legacy' PROVE LegacyInv'
  OBVIOUS
<1>0. legacy
  BY DEF Next, Step, Begin, CreateLock, LookForLock, OpenLock, TryLock, VerifyLock, Retry, Timeout, PrepareRecord, SignRecord,
         RecheckLock, ReadTarget, CheckGuard, WriteTemp, ReplaceTarget, ReplaceFails, ReleasePrimary, ReleaseGuard, Crash,
         RemoveDisplaced, LegacyDies
<1>1. ASSUME NEW p \in Procs, Begin(p) \/ LookForLock(p) \/ Retry(p) \/ Timeout(p) PROVE LegacyInv'
  BY <1>0, <1>1 DEF Begin, LookForLock, Retry, Timeout
<1>2. ASSUME NEW p \in Procs, CreateLock(p) PROVE LegacyInv'
  <2>1. CASE path[file[p]] # 0
    BY <1>0, <1>2, <2>1 DEF CreateLock
  <2>2. CASE path[file[p]] = 0
    <3>1. file[p] = "guard"
      BY <1>0, <2>2
    <3>2. pc' = [pc EXCEPT ![p] = "lock"] /\ made' = made + 1 /\ made \in Nat /\ made + 1 \in Inodes
      BY <1>2, <2>2 DEF CreateLock
    <3>3. path'["primary"] = path["primary"] /\ \A q \in Procs : fd'[q]["primary"] = fd[q]["primary"]
      <4>1. path' = [path EXCEPT !["guard"] = made + 1] /\ fd' = [fd EXCEPT ![p]["guard"] = made + 1]
        BY <1>2, <2>2, <3>1 DEF CreateLock
      <4>. QED
        BY <4>1
    <3>4. record' = [record EXCEPT ![made + 1] = "empty"]
      BY <1>2, <2>2 DEF CreateLock
    <3>5. record'[1] = record[1]
      BY <1>0, <3>2, <3>4
    <3>. QED
      BY <1>0, <3>2, <3>3, <3>5
  <2>. QED
    BY <2>1, <2>2
<1>3. ASSUME NEW p \in Procs, OpenLock(p) PROVE LegacyInv'
  BY <1>0, <1>3 DEF OpenLock
<1>4. ASSUME NEW p \in Procs, TryLock(p) PROVE LegacyInv'
  <2>1. pc'[p] \in {"verify", "retry"} /\ \A q \in Procs : q # p => pc'[q] = pc[q]
    BY <1>4 DEF TryLock
  <2>2. fd' = fd \/ fd' = [fd EXCEPT ![p][file[p]] = 0]
    BY <1>4 DEF TryLock
  <2>3. \A q \in Procs : fd'[q]["primary"] \in {fd[q]["primary"], 0}
    <3>1. CASE fd' = fd
      BY <3>1
    <3>2. CASE fd' = [fd EXCEPT ![p][file[p]] = 0]
      BY <3>2
    <3>. QED
      BY <2>2, <3>1, <3>2
  <2>. QED
    BY <1>0, <1>4, <2>1, <2>3 DEF TryLock
<1>5. ASSUME NEW p \in Procs, VerifyLock(p) PROVE LegacyInv'
  BY <1>0, <1>5 DEF VerifyLock
<1>6. ASSUME NEW p \in Procs, PrepareRecord(p) PROVE LegacyInv'
  <2>1. file[p] = "primary" /\ fd[p]["primary"] # 0
    BY <1>6 DEF PrepareRecord, HasItsLocks, HasLocks, Locked
  <2>2. ~Recoverable(p) /\ record[Mine(p)] # "empty"
    BY <1>0, <2>1 DEF Recoverable
  <2>. QED
    BY <1>0, <1>6, <2>2 DEF PrepareRecord
<1>7. ASSUME NEW p \in Procs, SignRecord(p) \/ RecheckLock(p) \/ ReadTarget(p) \/ CheckGuard(p) \/ WriteTemp(p) \/ ReplaceTarget(p) \/ ReplaceFails(p)
      PROVE LegacyInv'
  BY <1>0, <1>7 DEF SignRecord, RecheckLock, ReadTarget, CheckGuard, WriteTemp, ReplaceTarget, ReplaceFails
<1>8. ASSUME NEW p \in Procs, ReleasePrimary(p) \/ ReleaseGuard(p) \/ Crash(p) PROVE LegacyInv'
  <2>1. pc'[p] \in {"unguard", "idle", "dead"} /\ \A q \in Procs : q # p => pc'[q] = pc[q]
    BY <1>8 DEF ReleasePrimary, ReleaseGuard, Crash
  <2>2. \A q \in Procs : fd'[q]["primary"] \in {fd[q]["primary"], 0}
    <3>1. CASE fd' = [fd EXCEPT ![p]["primary"] = 0]
      BY <3>1
    <3>2. CASE fd' = [fd EXCEPT ![p] = NoFds]
      BY <3>2 DEF NoFds
    <3>. QED
      BY <1>8, <3>1, <3>2 DEF ReleasePrimary, ReleaseGuard, Crash
  <2>3. UNCHANGED <<path, record, made>>
    BY <1>8 DEF ReleasePrimary, ReleaseGuard, Crash
  <2>. QED
    BY <1>0, <2>1, <2>2, <2>3
<1>9. ASSUME NEW f \in Files, RemoveDisplaced(f) PROVE LegacyInv'
  <2>1. f = "guard"
    BY <1>0, <1>9 DEF RemoveDisplaced
  <2>. QED
    BY <1>0, <1>9, <2>1 DEF RemoveDisplaced
<1>10. CASE LegacyDies \/ UNCHANGED vars
  BY <1>0, <1>10 DEF LegacyDies
<1>. QED
  BY <1>1, <1>2, <1>3, <1>4, <1>5, <1>6, <1>7, <1>8, <1>9, <1>10 DEF Next, Step

(* lock_state takes a legacy record over from the dead only: no process owns  *)
(* the file while the process that left the record is alive                   *)
THEOREM LegacyHolds == Spec => []LegacyIsRespected
<1>. DEFINE I == LockInv /\ LegacyInv
<1>1. Init => I
  <2> SUFFICES ASSUME Init PROVE LegacyInv
    BY InitLock
  <2>1. legacy => made = 1 /\ path["primary"] = 1 /\ record[1] = "legacy"
    <3> SUFFICES ASSUME legacy PROVE made = 1 /\ path["primary"] = 1 /\ record[1] = "legacy"
      OBVIOUS
    <3>1. PICK r \in Records \cup {None} :
             /\ made = IF r = None THEN 0 ELSE 1
             /\ path = [f \in Files |-> IF f = "primary" THEN made ELSE 0]
             /\ record = [i \in Inodes |-> IF r = None THEN "empty" ELSE r]
             /\ legacy \in {b \in BOOLEAN : b => r = "legacy"}
      BY DEF Init
    <3>2. r = "legacy"
      BY <3>1, Zenon
    <3>3. CASE r # None
      BY <3>1, <3>2, <3>3, ConstantsAssumption DEF Files, Inodes
    <3>4. CASE r = None
      BY <3>2, <3>4, NoneIsNoRecord DEF LockRecords
    <3>. QED
      BY <3>3, <3>4
  <2>. QED
    BY <2>1 DEF Init, LegacyInv, NoFds, Files, Owns
<1>2. I /\ [Next]_vars => I'
  BY LockStep, LegacyStep
<1>3. I => LegacyIsRespected
  BY DEF LegacyInv, LegacyIsRespected
<1>. QED
  BY <1>1, <1>2, <1>3, PTL DEF Spec

-----------------------------------------------------------------------------
(* A path that was unlinked once stays unlinked once *)
LEMMA StableBefore ==
  ASSUME TypeOK, [Next]_vars, SomePathIsStable'
  PROVE  SomePathIsStable
<1>1. CASE UNCHANGED removals
  BY <1>1 DEF SomePathIsStable
<1>2. ASSUME NEW f \in Files, RemoveDisplaced(f) PROVE SomePathIsStable
  BY <1>2 DEF RemoveDisplaced, SomePathIsStable, TypeOK, Files
<1>. QED
  BY <1>1, <1>2 DEF Next, Step, Begin, CreateLock, LookForLock, OpenLock, TryLock, VerifyLock, Retry, Timeout, PrepareRecord,
     SignRecord, RecheckLock, ReadTarget, CheckGuard, WriteTemp, ReplaceTarget, ReplaceFails, ReleasePrimary, ReleaseGuard, Crash,
     LegacyDies, vars, bounds

(* A writer that is about to create the file is its only owner *)
LEMMA CreateStep ==
  ASSUME TypeOK, OneOwner, CreatesOnlyOnce, [Next]_vars
  PROVE  CreatesOnlyOnce'
<1>. USE DEF TypeOK, CreatesOnlyOnce, Goto, Fail, FirstStep, fs, proc, bounds, vars
<1> SUFFICES ASSUME SomePathIsStable' PROVE CreatesOnlyOnce'
  OBVIOUS
<1>0. SomePathIsStable
  BY StableBefore
<1>1. ASSUME NEW p \in Procs, Begin(p) \/ CreateLock(p) \/ LookForLock(p) \/ OpenLock(p) \/ TryLock(p) PROVE CreatesOnlyOnce'
  BY <1>0, <1>1 DEF Begin, CreateLock, LookForLock, OpenLock, TryLock
<1>2. ASSUME NEW p \in Procs, VerifyLock(p) \/ Retry(p) \/ Timeout(p) \/ PrepareRecord(p) \/ SignRecord(p) PROVE CreatesOnlyOnce'
  BY <1>0, <1>2 DEF VerifyLock, Retry, Timeout, PrepareRecord, SignRecord
<1>3. ASSUME NEW p \in Procs, RecheckLock(p) \/ ReadTarget(p) \/ CheckGuard(p) \/ ReleasePrimary(p) \/ ReleaseGuard(p) PROVE CreatesOnlyOnce'
  BY <1>0, <1>3 DEF RecheckLock, ReadTarget, CheckGuard, ReleasePrimary, ReleaseGuard
<1>4. ASSUME NEW p \in Procs, WriteTemp(p) \/ ReplaceFails(p) \/ Crash(p) PROVE CreatesOnlyOnce'
  BY <1>0, <1>4 DEF WriteTemp, ReplaceFails, Crash
<1>5. ASSUME NEW p \in Procs, ReplaceTarget(p) PROVE CreatesOnlyOnce'
  <2>1. \A q \in Procs : q # p => ~Owns(q)
    BY <1>0, <1>5 DEF ReplaceTarget, OneOwner, Owns
  <2>. QED
    BY <1>5, <2>1 DEF ReplaceTarget, Owns
<1>6. CASE (\E f \in Files : RemoveDisplaced(f)) \/ LegacyDies \/ UNCHANGED vars
  BY <1>0, <1>6 DEF RemoveDisplaced, LegacyDies
<1>. QED
  BY <1>1, <1>2, <1>3, <1>4, <1>5, <1>6 DEF Next, Step

(* atomic_read_or_create_text and adopt_legacy_baseline_locked stay atomic    *)
(* across processes: what they found missing under the lock is still missing  *)
(* when they write it                                                         *)
THEOREM CreatesOnce == Spec => []CreatesOnlyOnce
<1>. DEFINE I == LockInv /\ CreatesOnlyOnce
<1>1. Init => I
  BY InitLock DEF Init, CreatesOnlyOnce
<1>2. I /\ [Next]_vars => I'
  BY LockStep, LocksExclude, CreateStep DEF LockInv
<1>. QED
  BY <1>1, <1>2, PTL DEF Spec

=============================================================================
