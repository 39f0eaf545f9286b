-------------------------- MODULE ProjectStorageProofs -------------------------
(***************************************************************************)
(* Proofs about ProjectStorage, for any number of projects, requests and   *)
(* files and for any combination of faults unless a theorem says otherwise. *)
(* Its parts: types; the storage states' diagram and the lock; retention;   *)
(* where the files are, and that a copy of them is whole.                   *)
(***************************************************************************)
EXTENDS ProjectStorage, FiniteSetTheorems, TLAPS

-----------------------------------------------------------------------------
(* Types.                                                                   *)

(* A handler that uploads has a tarball, and the tree one is about to       *)
(* rename into place was extracted from a complete one.                     *)
TreeInHand ==
    \A r \in Procs :
        /\ pc[r] = "put" => tmp[r] \in Content
        /\ pc[r] \in {"swapout", "swapin", "aside", "publish"} =>
              tmp[r] \in SUBSET Writes

Typed == TypeOK /\ TreeInHand

(* The project an idle process points at is one of the projects. *)
LEMMA HomeProject == Home \in Projects
  BY StorageAssumption DEF Home

(* Answering, from any point of any handler, leaves the processes' state    *)
(* well typed.                                                              *)
LEMMA Answering ==
    ASSUME ProcsOK, TreeInHand, NEW r \in Procs,
           Respond(r) \/ Finish(r) \/ Abandon(r)
    PROVE  ProcsOK' /\ TreeInHand'
<1>1. Goto(r, "idle") /\ Forget(r)
  BY DEF Respond, Finish, Abandon
<1>2. lock' \in [Projects -> Procs \cup {NoProc}] /\ todo' \in SUBSET Projects
  BY DEF ProcsOK, Respond, Finish, Abandon, Unlock
<1>3. pc' \in [Procs -> LockedSteps \cup OpenSteps]
  BY <1>1 DEF ProcsOK, Goto, OpenSteps
<1>4. /\ op' \in [Procs -> RouteOps \cup {"sweep", "none"}]
      /\ proj' \in [Procs -> Projects]
      /\ tmp' \in [Procs -> {NoDir} \cup Content]
      /\ name' \in [Procs -> Nat]
      /\ back' \in [Procs -> Directory]
  BY <1>1, HomeProject DEF ProcsOK, Forget, Directory
<1>5. TreeInHand'
  BY <1>1 DEF ProcsOK, TreeInHand, Goto, Forget
<1> QED
  BY <1>2, <1>3, <1>4, <1>5 DEF ProcsOK

(* So does going on to a step that has no extracted tree in its hands.      *)
LEMMA Stepping ==
    ASSUME ProcsOK, TreeInHand, NEW r \in Procs,
           NEW step \in (LockedSteps \cup OpenSteps)
                          \ {"put", "swapout", "swapin", "aside", "publish"},
           StepTo(r, step)
    PROVE  ProcsOK' /\ TreeInHand'
  BY DEF ProcsOK, TreeInHand, StepTo, Goto

LEMMA Proceeding ==
    ASSUME ProcsOK, TreeInHand, NEW r \in Procs, Proceed(r)
    PROVE  ProcsOK' /\ TreeInHand'
<1>1. CASE Body(op[r]) = "idle"
  BY <1>1, Answering DEF Proceed
<1>2. CASE Body(op[r]) # "idle"
  <2>1. Body(op[r]) \in {"start", "mkdir", "stop", "idle"}
    BY DEF Body
  <2>2. pc' \in [Procs -> LockedSteps \cup OpenSteps]
    BY <1>2, <2>1 DEF ProcsOK, Proceed, Goto, OpenSteps
  <2>3. lock' \in [Projects -> Procs \cup {NoProc}]
    BY <1>2 DEF ProcsOK, Proceed, Unlock
  <2>4. tmp' \in [Procs -> {NoDir} \cup Content]
    BY <1>2 DEF ProcsOK, Proceed
  <2>5. TreeInHand'
    BY <1>2, <2>1 DEF ProcsOK, TreeInHand, Proceed, Goto
  <2> QED
    BY <1>2, <2>2, <2>3, <2>4, <2>5 DEF ProcsOK, Proceed
<1> QED
  BY <1>1, <1>2

(* Saving a state file with another storage state keeps it well typed.      *)
LEMMA Saving ==
    ASSUME NEW f \in [Projects -> StateFile], NEW p \in Projects,
           NEW s \in StorageStates
    PROVE  [f EXCEPT ![p].storage = s] \in [Projects -> StateFile]
  BY DEF StateFile

LEMMA Marking ==
    ASSUME ProcsOK, TreeInHand, file \in [Projects -> StateFile],
           NEW r \in Procs, MarkError(r)
    PROVE  ProcsOK' /\ TreeInHand' /\ file' \in [Projects -> StateFile]
<1>1. Abandon(r)
  BY DEF MarkError
<1>2. file' \in [Projects -> StateFile]
  BY DEF MarkError, ProcsOK, StateFile, StorageStates
<1> QED
  BY <1>1, <1>2, Answering

LEMMA Clearing ==
    ASSUME DiskOK, NEW p \in Projects, RemoveDir(p) \/ RemoveSome(p)
    PROVE  /\ dir' \in [Projects -> Directory]
           /\ mount' \in [Projects -> {"none", "live", "stale"}]
<1>1. CASE RemoveDir(p)
  BY <1>1 DEF DiskOK, RemoveDir, Detached, Directory
<1>2. CASE ~RemoveDir(p)
  <2>1. /\ dir[p] # NoDir
        /\ \E rest \in SUBSET dir[p] : dir' = [dir EXCEPT ![p] = rest]
        /\ UNCHANGED mount
    BY <1>2 DEF RemoveSome
  <2> QED
    BY <2>1 DEF DiskOK, Directory
<1> QED
  BY <1>1, <1>2

LEMMA RollingBack ==
    ASSUME DiskOK, ProcsOK, NEW r \in Procs, RollBack(r)
    PROVE  /\ dir' \in [Projects -> Directory]
           /\ stray' \in [Projects -> SUBSET (SUBSET Writes)]
           /\ mount' \in [Projects -> {"none", "live", "stale"}]
<1>1. proj[r] \in Projects /\ back[r] \in Directory
  BY DEF ProcsOK
<1>2. CASE UNCHANGED stray
  BY <1>1, <1>2 DEF DiskOK, RollBack, Directory
<1>3. CASE ~UNCHANGED stray
  <2>1. /\ back[r] # NoDir
        /\ stray' = [stray EXCEPT ![proj[r]] = @ \cup {back[r]}]
        /\ UNCHANGED <<dir, mount>>
    BY <1>3 DEF RollBack
  <2>2. back[r] \in SUBSET Writes
    BY <1>1, <2>1 DEF Directory
  <2> QED
    BY <1>1, <2>1, <2>2 DEF DiskOK
<1> QED
  BY <1>2, <1>3

LEMMA Publishing ==
    ASSUME DiskOK, ProcsOK, TreeInHand, NEW r \in Procs,
           pc[r] \in {"swapin", "publish"}, PublishDir(r)
    PROVE  /\ dir' \in [Projects -> Directory]
           /\ stray' \in [Projects -> SUBSET (SUBSET Writes)]
           /\ mount' \in [Projects -> {"none", "live", "stale"}]
  BY DEF DiskOK, ProcsOK, TreeInHand, PublishDir, Directory

(* The time stamps an upload may get are numbers.                           *)
LEMMA Stamping ==
    ASSUME NEW objects \in SUBSET Object, NEW n \in Nat, NEW t \in Stamps(objects, n)
    PROVE  t \in Nat
  BY DEF Stamps, Object

\* A tarball is of the files of a directory, or torn.
LEMMA Packing ==
    ASSUME NEW d \in SUBSET Writes, NEW c \in Tarballs(d)
    PROVE  c \in Content
  BY DEF Tarballs, Regular, Content

\* What is extracted without an error is a tree of the files of the tarball.
LEMMA Unpacking ==
    ASSUME NEW a \in Object, Extracts(a)
    PROVE  Tree(a) = Regular(a.data) /\ Tree(a) \in SUBSET Writes
  BY DEF Object, Extracts, Tree, Regular, Content

(* Every variable stays in its type; in particular a tree that was cut off  *)
(* (a torn tarball, extractTarGz) is never renamed into a project's place.  *)
THEOREM TypeCorrect == Spec => []TypeOK
<1>1. Init => Typed
  <2> SUFFICES ASSUME Init PROVE Typed
    OBVIOUS
  <2>1. DiskOK
    BY StorageAssumption DEF Init, DiskOK, StateFile, StorageStates, Activity, Directory
  <2>2. ProcsOK
    BY HomeProject DEF Init, ProcsOK, Content, Directory, OpenSteps
  <2>3. owed \in [Projects -> SUBSET Writes] /\ crashes \in Nat
    BY StorageAssumption DEF Init
  <2>4. TreeInHand
    BY DEF Init, TreeInHand
  <2> QED
    BY <2>1, <2>2, <2>3, <2>4 DEF Typed, TypeOK
<1>2. Typed /\ [Next]_vars => Typed'
  <2> SUFFICES ASSUME Typed, [Next]_vars PROVE Typed'
    OBVIOUS
  <2> USE DEF Typed, TypeOK
  <2>1. ASSUME NEW r \in Requests, Arrive(r) PROVE Typed'
    <3>1. r \in Procs
      BY DEF Procs
    <3>2. PICK o \in Ops, p \in Named :
             /\ op' = [op EXCEPT ![r] = o]
             /\ proj' = [proj EXCEPT ![r] = p]
             /\ Goto(r, FirstStep(o))
      BY <2>1 DEF Arrive
    <3>3. FirstStep(o) \in {"resolve", "stop", "lock"}
      BY DEF FirstStep
    <3>4. ProcsOK' /\ TreeInHand'
      BY <2>1, <3>1, <3>2, <3>3, StorageAssumption
      DEF Arrive, ProcsOK, TreeInHand, Goto, OpenSteps
    <3> QED
      BY <2>1, <3>4 DEF Arrive, DiskOK, diskVars
  <2>2. ASSUME NEW s \in Sweepers, SweepList(s) \/ SweepNext(s) PROVE Typed'
    BY <2>2 DEF SweepList, SweepNext, DiskOK, diskVars, ProcsOK, TreeInHand, Goto, Procs, OpenSteps
  <2>3. ASSUME NEW p \in Projects, Idle(p) PROVE Typed'
    BY <2>3 DEF Idle, DiskOK, StateFile, Activity, ProcsOK, TreeInHand, procVars
  <2>4. ASSUME NEW r \in Procs, TakeLock(r) PROVE Typed'
    BY <2>4 DEF TakeLock, DiskOK, diskVars, ProcsOK, TreeInHand, Goto, LockedSteps
  <2>5. ASSUME NEW r \in Procs, Archiving(r) PROVE Typed'
    <3>1. CASE BeginArchive(r)
      <4>1. ProcsOK' /\ TreeInHand'
        BY <3>1, Answering, Stepping DEF BeginArchive, LockedSteps, ArchiveSteps
      <4>2. file' \in [Projects -> StateFile]
        <5>1. \/ file' = file
              \/ file' = [file EXCEPT ![proj[r]].storage = "archiving"]
          BY <3>1 DEF BeginArchive
        <5>2. file \in [Projects -> StateFile] /\ proj[r] \in Projects
          BY DEF DiskOK, ProcsOK
        <5>3. [file EXCEPT ![proj[r]].storage = "archiving"] \in [Projects -> StateFile]
          BY <5>2, Saving DEF StorageStates
        <5> QED
          BY <5>1, <5>2, <5>3
      <4> QED
        BY <3>1, <4>1, <4>2 DEF BeginArchive, DiskOK
    <3>2. CASE QuiesceArchive(r)
      <4>1. ProcsOK' /\ TreeInHand' /\ file' \in [Projects -> StateFile]
        BY <3>2, Marking, Stepping DEF QuiesceArchive, DiskOK, LockedSteps, ArchiveSteps
      <4>2. mount' \in [Projects -> {"none", "live", "stale"}]
        BY <3>2 DEF QuiesceArchive, DiskOK
      <4> QED
        BY <3>2, <4>1, <4>2 DEF QuiesceArchive, DiskOK
    <3>3. CASE WriteTar(r)
      <4>1. CASE MarkError(r) /\ UNCHANGED <<dir, stray, archives, backups, clock, mount, owed, crashes>>
        BY <4>1, Marking DEF DiskOK
      <4>2. CASE ~MarkError(r)
        <5>1. PICK c \in Tarballs(dir[proj[r]]) : tmp' = [tmp EXCEPT ![r] = c]
          BY <3>3, <4>2 DEF WriteTar
        <5>2. dir[proj[r]] \in SUBSET Writes
          BY <3>3, <4>2 DEF WriteTar, DiskOK, ProcsOK, Directory
        <5>3. c \in Content /\ tmp' \in [Procs -> {NoDir} \cup Content]
          BY <5>1, <5>2, Packing DEF ProcsOK
        <5>4. Goto(r, "put") /\ UNCHANGED <<file, lock, op, proj, name, back, todo>>
          BY <3>3, <4>2 DEF WriteTar
        <5>5. ProcsOK' /\ TreeInHand'
          BY <5>1, <5>2, <5>3, <5>4 DEF Content, ProcsOK, TreeInHand, Goto, LockedSteps, ArchiveSteps
        <5> QED
          BY <3>3, <5>4, <5>5 DEF WriteTar, DiskOK
      <4> QED
        BY <3>3, <4>1, <4>2 DEF WriteTar
    <3>4. CASE PutArchive(r)
      <4> DEFINE p == proj[r]
                 n == NextName(p)
      <4>1. p \in Projects /\ n \in Nat
        BY DEF ProcsOK, DiskOK, NextName
      <4>2. clock' \in [Projects -> Nat]
        BY <3>4, <4>1 DEF PutArchive, DiskOK
      <4>3. ASSUME NEW t \in Stamps(archives[p], n),
                   archives' = [archives EXCEPT ![p] =
                                 @ \cup {[name |-> n, at |-> t, data |-> tmp[r]]}]
            PROVE  archives' \in [Projects -> SUBSET Object]
        <5>1. t \in Nat
          BY <4>1, Stamping DEF DiskOK
        <5>2. tmp[r] \in Content
          BY <3>4 DEF PutArchive, TreeInHand
        <5>3. [name |-> n, at |-> t, data |-> tmp[r]] \in Object
          BY <4>1, <5>1, <5>2 DEF Object
        <5> QED
          BY <4>1, <4>3, <5>3 DEF DiskOK
      <4>4. archives' \in [Projects -> SUBSET Object]
        BY <3>4, <4>3 DEF PutArchive, DiskOK
      <4>5. CASE MarkError(r)
        BY <3>4, <4>2, <4>4, <4>5, Marking DEF PutArchive, DiskOK
      <4>6. CASE ~MarkError(r)
        <5>1. /\ name' = [name EXCEPT ![r] = n]
              /\ Goto(r, "remove")
              /\ UNCHANGED <<file, lock, op, proj, tmp, back, todo>>
          BY <3>4, <4>6 DEF PutArchive
        <5>2. ProcsOK' /\ TreeInHand'
          BY <4>1, <5>1 DEF ProcsOK, TreeInHand, Goto, LockedSteps, ArchiveSteps
        <5> QED
          BY <3>4, <4>2, <4>4, <5>1, <5>2 DEF PutArchive, DiskOK
      <4> QED
        BY <4>5, <4>6
    <3>5. CASE RemoveLocal(r)
      <4>1. ProcsOK' /\ TreeInHand' /\ file' \in [Projects -> StateFile]
        BY <3>5, Marking, Stepping DEF RemoveLocal, DiskOK, LockedSteps, ArchiveSteps
      <4>2. dir' \in [Projects -> Directory] /\ mount' \in [Projects -> {"none", "live", "stale"}]
        BY <3>5, Clearing DEF RemoveLocal, ProcsOK
      <4> QED
        BY <3>5, <4>1, <4>2 DEF RemoveLocal, DiskOK
    <3>6. CASE MarkArchived(r)
      <4>1. ProcsOK' /\ TreeInHand'
        BY <3>6, Answering, Stepping DEF MarkArchived, LockedSteps
      <4>2. file' \in [Projects -> StateFile]
        <5> DEFINE p == proj[r]
                   archived == [file[p] EXCEPT !.storage = "archived", !.archive = name[r]]
        <5>1. p \in Projects /\ name[r] \in Nat /\ file \in [Projects -> StateFile]
          BY DEF ProcsOK, DiskOK
        <5>2. file[p] \in StateFile
          BY <5>1
        <5>3. archived \in StateFile
          BY <5>1, <5>2 DEF StateFile, StorageStates
        <5>4. file' = [file EXCEPT ![p] = archived] \/ file' = file
          BY <3>6 DEF MarkArchived
        <5> HIDE DEF p, archived
        <5> QED
          BY <5>1, <5>3, <5>4
      <4> QED
        BY <3>6, <4>1, <4>2 DEF MarkArchived, DiskOK
    <3>7. CASE PruneArchives(r)
      <4>1. ProcsOK' /\ TreeInHand'
        BY <3>7, Answering DEF PruneArchives
      <4>2. archives' \in [Projects -> SUBSET Object]
        BY <3>7 DEF PruneArchives, Kept, PartlyPruned, DiskOK, ProcsOK
      <4> QED
        BY <3>7, <4>1, <4>2 DEF PruneArchives, DiskOK
    <3> QED
      BY <2>5, <3>1, <3>2, <3>3, <3>4, <3>5, <3>6, <3>7 DEF Archiving
  <2>6. ASSUME NEW r \in Procs, Restoring(r) PROVE Typed'
    <3>1. CASE EnsureLocal(r)
      <4>1. ProcsOK' /\ TreeInHand'
        BY <3>1, Answering, Proceeding, Stepping DEF EnsureLocal, LockedSteps, RestoreSteps
      <4>2. file' \in [Projects -> StateFile]
        <5>1. \/ file' = file
              \/ file' = [file EXCEPT ![proj[r]].storage = "restoring"]
              \/ file' = [file EXCEPT ![proj[r]].last = "recent"]
          BY <3>1 DEF EnsureLocal
        <5>2. file \in [Projects -> StateFile] /\ proj[r] \in Projects
          BY DEF DiskOK, ProcsOK
        <5>3. [file EXCEPT ![proj[r]].storage = "restoring"] \in [Projects -> StateFile]
          BY <5>2, Saving DEF StorageStates
        <5>4. [file EXCEPT ![proj[r]].last = "recent"] \in [Projects -> StateFile]
          BY <5>2 DEF StateFile, Activity
        <5> QED
          BY <5>1, <5>2, <5>3, <5>4
      <4> QED
        BY <3>1, <4>1, <4>2 DEF EnsureLocal, DiskOK
    <3>2. CASE GetArchive(r)
      <4>1. CASE MarkError(r)
        BY <3>2, <4>1, Marking DEF GetArchive, DiskOK
      <4>2. CASE ~MarkError(r)
        <5>1. PICK a \in archives[proj[r]] :
                 Extracts(a) /\ tmp' = [tmp EXCEPT ![r] = Tree(a)]
          BY <3>2, <4>2 DEF GetArchive
        <5>2. Tree(a) \in SUBSET Writes
          BY <5>1, Unpacking DEF DiskOK, ProcsOK
        <5>3. Goto(r, "swapout") /\ UNCHANGED <<file, lock, op, proj, name, back, todo>>
          BY <3>2, <4>2 DEF GetArchive
        <5>4. ProcsOK' /\ TreeInHand'
          BY <5>1, <5>2, <5>3 DEF ProcsOK, TreeInHand, Goto, LockedSteps, RestoreSteps, Content
        <5> QED
          BY <3>2, <5>3, <5>4 DEF GetArchive, DiskOK
      <4> QED
        BY <4>1, <4>2
    <3>3. CASE SwapOut(r)
      <4>1. CASE MarkError(r) /\ UNCHANGED <<dir, mount>>
        BY <3>3, <4>1, Marking DEF SwapOut, DiskOK
      <4>2. CASE ~(MarkError(r) /\ UNCHANGED <<dir, mount>>)
        <5>1. /\ MoveAside(r)
              /\ Goto(r, "swapin")
              /\ UNCHANGED <<file, lock, op, proj, tmp, name, todo>>
          BY <3>3, <4>2 DEF SwapOut
        <5>2. pc[r] = "swapout"
          BY <3>3 DEF SwapOut
        <5>3. ProcsOK' /\ TreeInHand'
          BY <5>1, <5>2 DEF DiskOK, ProcsOK, TreeInHand, Goto, MoveAside, LockedSteps, RestoreSteps
        <5>4. dir' \in [Projects -> Directory] /\ mount' \in [Projects -> {"none", "live", "stale"}]
          BY <5>1, Clearing DEF MoveAside, ProcsOK
        <5> QED
          BY <3>3, <5>1, <5>3, <5>4 DEF SwapOut, DiskOK
      <4> QED
        BY <4>1, <4>2
    <3>4. CASE SwapIn(r)
      <4>0. /\ pc[r] = "swapin"
            /\ UNCHANGED <<archives, backups, clock, owed, crashes>>
        BY <3>4 DEF SwapIn
      <4>1. CASE RollBack(r) /\ MarkError(r)
        BY <4>0, <4>1, Marking, RollingBack DEF DiskOK
      <4>2. CASE ~(RollBack(r) /\ MarkError(r))
        <5>1. /\ PublishDir(r)
              /\ Goto(r, "local")
              /\ back' = [back EXCEPT ![r] = NoDir]
              /\ UNCHANGED <<file, lock, op, proj, tmp, name, todo>>
          BY <3>4, <4>2 DEF SwapIn
        <5>2. ProcsOK' /\ TreeInHand'
          BY <5>1 DEF ProcsOK, TreeInHand, Goto, LockedSteps, RestoreSteps, Directory
        <5> QED
          BY <4>0, <5>1, <5>2, Publishing DEF DiskOK
      <4> QED
        BY <4>1, <4>2
    <3>5. CASE MarkLocal(r)
      <4>1. ProcsOK' /\ TreeInHand'
        BY <3>5, Answering, Proceeding DEF MarkLocal
      <4>2. file' \in [Projects -> StateFile]
        <5> DEFINE p == proj[r]
                   local == [file[p] EXCEPT !.storage = "local", !.last = "recent"]
        <5>1. p \in Projects /\ file \in [Projects -> StateFile]
          BY DEF ProcsOK, DiskOK
        <5>2. file[p] \in StateFile
          BY <5>1
        <5>3. local \in StateFile
          BY <5>2 DEF StateFile, StorageStates, Activity
        <5>4. file' = [file EXCEPT ![p] = local] \/ file' = file
          BY <3>5 DEF MarkLocal
        <5> HIDE DEF p, local
        <5> QED
          BY <5>1, <5>3, <5>4
      <4> QED
        BY <3>5, <4>1, <4>2 DEF MarkLocal, DiskOK
    <3> QED
      BY <2>6, <3>1, <3>2, <3>3, <3>4, <3>5 DEF Restoring
  <2>7. ASSUME NEW r \in Procs, Operating(r) PROVE Typed'
    <3> DEFINE p == proj[r]
    <3>0. p \in Projects
      BY DEF ProcsOK
    <3>1. CASE StartContainer(r)
      <4>1. ProcsOK' /\ TreeInHand'
        <5>1. Respond(r) \/ StepTo(r, "attach") \/ StepTo(r, "run")
          BY <3>1 DEF StartContainer
        <5> QED
          BY <5>1, Answering, Stepping DEF OpenSteps
      <4>2. dir' \in [Projects -> Directory] /\ mount' \in [Projects -> {"none", "live", "stale"}]
        BY <3>0, <3>1 DEF StartContainer, DiskOK, Made, Directory
      <4> QED
        BY <3>1, <4>1, <4>2 DEF StartContainer, DiskOK
    <3>2. CASE RunCommand(r)
      <4>1. ProcsOK' /\ TreeInHand'
        BY <3>2, Answering DEF RunCommand
      <4>2. dir' \in [Projects -> Directory] /\ owed' \in [Projects -> SUBSET Writes]
        BY <3>0, <3>2 DEF RunCommand, DiskOK, Fresh, Directory
      <4> QED
        BY <3>2, <4>1, <4>2 DEF RunCommand, DiskOK
    <3>3. CASE EnsureWorkspace(r)
      <4>1. ProcsOK' /\ TreeInHand'
        BY <3>3, Stepping DEF EnsureWorkspace, OpenSteps
      <4>2. dir' \in [Projects -> Directory]
        BY <3>0, <3>3 DEF EnsureWorkspace, DiskOK, Made, Directory
      <4> QED
        BY <3>3, <4>1, <4>2 DEF EnsureWorkspace, DiskOK
    <3>4. CASE WriteFile(r)
      <4>1. ProcsOK' /\ TreeInHand'
        BY <3>4, Answering DEF WriteFile
      <4>2. dir' \in [Projects -> Directory] /\ owed' \in [Projects -> SUBSET Writes]
        BY <3>0, <3>4 DEF WriteFile, DiskOK, Fresh, Made, Directory
      <4> QED
        BY <3>4, <4>1, <4>2 DEF WriteFile, DiskOK
    <3>5. CASE StopContainer(r)
      <4>1. ProcsOK' /\ TreeInHand'
        <5>1. AfterStop(op[r]) \in {"rm", "copy", "dump", "fetch", "idle"}
          BY DEF AfterStop
        <5> QED
          BY <3>5, <5>1, Answering, Stepping DEF StopContainer, OpenSteps
      <4>2. /\ mount' \in [Projects -> {"none", "live", "stale"}]
            /\ owed' \in [Projects -> SUBSET Writes]
        BY <3>0, <3>5 DEF StopContainer, DiskOK
      <4> QED
        BY <3>5, <4>1, <4>2 DEF StopContainer, DiskOK
    <3>6. CASE DeleteWorkspace(r)
      <4>1. ProcsOK' /\ TreeInHand'
        BY <3>6, Answering DEF DeleteWorkspace
      <4>2. dir' \in [Projects -> Directory] /\ mount' \in [Projects -> {"none", "live", "stale"}]
        BY <3>0, <3>6, Clearing DEF DeleteWorkspace
      <4> QED
        BY <3>6, <4>1, <4>2 DEF DeleteWorkspace, DiskOK
    <3>7. CASE CloneWorkspace(r)
      <4>1. ProcsOK' /\ TreeInHand'
        BY <3>7, Answering DEF CloneWorkspace
      <4>2. dir' \in [Projects -> Directory] /\ owed' \in [Projects -> SUBSET Writes]
        BY <3>0, <3>7 DEF CloneWorkspace, DiskOK, Directory
      <4> QED
        BY <3>7, <4>1, <4>2 DEF CloneWorkspace, DiskOK
    <3>8. CASE DumpBackup(r)
      <4>1. ProcsOK' /\ TreeInHand'
        BY <3>8, Answering, Stepping DEF DumpBackup, OpenSteps
      <4>2. clock' \in [Projects -> Nat] /\ backups' \in [Projects -> SUBSET Object]
        <5>1. CASE UNCHANGED <<clock, backups>>
          BY <5>1 DEF DiskOK
        <5>2. CASE ~UNCHANGED <<clock, backups>>
          <6> DEFINE n == NextName(p)
          <6>1. n \in Nat
            BY <3>0 DEF DiskOK, NextName
          <6>2. /\ dir[p] # NoDir
                /\ clock' = [clock EXCEPT ![p] = n]
                /\ \E c \in Tarballs(dir[p]), t \in Stamps(backups[p], n) :
                     backups' = [backups EXCEPT ![p] =
                        @ \cup {[name |-> n, at |-> t, data |-> c]}]
            BY <3>8, <5>2 DEF DumpBackup
          <6>3. PICK c \in Tarballs(dir[p]), t \in Stamps(backups[p], n) :
                   backups' = [backups EXCEPT ![p] =
                      @ \cup {[name |-> n, at |-> t, data |-> c]}]
            BY <6>2
          <6>4. t \in Nat
            BY <3>0, <6>1, Stamping DEF DiskOK
          <6>5. c \in Content
            BY <3>0, <6>2, <6>3, Packing DEF DiskOK, Directory
          <6>6. [name |-> n, at |-> t, data |-> c] \in Object
            BY <6>1, <6>4, <6>5 DEF Object
          <6> QED
            BY <3>0, <6>1, <6>2, <6>3, <6>6 DEF DiskOK
        <5> QED
          BY <5>1, <5>2
      <4> QED
        BY <3>8, <4>1, <4>2 DEF DumpBackup, DiskOK
    <3>9. CASE PruneBackups(r)
      <4>1. ProcsOK' /\ TreeInHand'
        BY <3>9, Answering DEF PruneBackups
      <4>2. backups' \in [Projects -> SUBSET Object]
        BY <3>9, <3>0 DEF PruneBackups, Kept, PartlyPruned, DiskOK
      <4> QED
        BY <3>9, <4>1, <4>2 DEF PruneBackups, DiskOK
    <3>10. CASE ResolveBackup(r)
      <4>1. ProcsOK' /\ TreeInHand'
        <5>1. CASE Respond(r)
          BY <5>1, Answering
        <5>2. CASE ~Respond(r)
          <6>1. PICK b \in backups[p] : name' = [name EXCEPT ![r] = b.name]
            BY <3>10, <5>2 DEF ResolveBackup
          <6>2. b.name \in Nat
            BY <3>0, <6>1 DEF DiskOK, Object
          <6>3. Goto(r, "stop") /\ UNCHANGED <<lock, op, proj, tmp, back, todo>>
            BY <3>10, <5>2 DEF ResolveBackup
          <6> QED
            BY <6>1, <6>2, <6>3 DEF ProcsOK, TreeInHand, Goto, OpenSteps
        <5> QED
          BY <5>1, <5>2
      <4> QED
        BY <3>10, <4>1 DEF ResolveBackup, DiskOK, diskVars
    <3>11. CASE FetchBackup(r)
      <4>1. ProcsOK' /\ TreeInHand'
        <5>1. CASE Respond(r)
          BY <5>1, Answering
        <5>2. CASE ~Respond(r)
          <6>1. PICK b \in backups[p] :
                   Extracts(b) /\ tmp' = [tmp EXCEPT ![r] = Tree(b)]
            BY <3>11, <5>2 DEF FetchBackup
          <6>2. Tree(b) \in SUBSET Writes
            BY <3>0, <6>1, Unpacking DEF DiskOK
          <6>3. Goto(r, "aside") /\ UNCHANGED <<lock, op, proj, name, back, todo>>
            BY <3>11, <5>2 DEF FetchBackup
          <6> QED
            BY <6>1, <6>2, <6>3 DEF ProcsOK, TreeInHand, Goto, OpenSteps, Content
        <5> QED
          BY <5>1, <5>2
      <4> QED
        BY <3>11, <4>1 DEF FetchBackup, DiskOK, diskVars
    <3>12. CASE RestoreAside(r)
      <4>1. CASE Respond(r) /\ UNCHANGED <<dir, mount>>
        BY <3>12, <4>1, Answering DEF RestoreAside, DiskOK
      <4>2. CASE ~(Respond(r) /\ UNCHANGED <<dir, mount>>)
        <5>1. /\ MoveAside(r)
              /\ Goto(r, "publish")
              /\ UNCHANGED <<lock, op, proj, tmp, name, todo>>
          BY <3>12, <4>2 DEF RestoreAside
        <5>2. pc[r] = "aside"
          BY <3>12 DEF RestoreAside
        <5>3. ProcsOK' /\ TreeInHand'
          BY <3>0, <5>1, <5>2 DEF DiskOK, ProcsOK, TreeInHand, Goto, MoveAside, OpenSteps
        <5>4. dir' \in [Projects -> Directory] /\ mount' \in [Projects -> {"none", "live", "stale"}]
          BY <3>0, <5>1, Clearing DEF MoveAside
        <5> QED
          BY <3>12, <5>3, <5>4 DEF RestoreAside, DiskOK
      <4> QED
        BY <4>1, <4>2
    <3>13. CASE RestorePublish(r)
      <4>1. ProcsOK' /\ TreeInHand'
        BY <3>13, Answering DEF RestorePublish
      <4>2. /\ dir' \in [Projects -> Directory]
            /\ stray' \in [Projects -> SUBSET (SUBSET Writes)]
            /\ mount' \in [Projects -> {"none", "live", "stale"}]
        BY <3>13, RollingBack, Publishing DEF RestorePublish
      <4>3. owed' \in [Projects -> SUBSET Writes]
        BY <3>0, <3>13 DEF RestorePublish, TreeInHand
      <4> QED
        BY <3>13, <4>1, <4>2, <4>3 DEF RestorePublish, DiskOK
    <3> QED
      BY <2>7, <3>1, <3>2, <3>3, <3>4, <3>5, <3>6, <3>7, <3>8, <3>9, <3>10,
         <3>11, <3>12, <3>13 DEF Operating
  <2>8. ASSUME Crash PROVE Typed'
    <3>1. stray' \in [Projects -> SUBSET (SUBSET Writes)]
      <4>1. \A p \in Projects : MovedAside(p) \subseteq SUBSET Writes
        BY DEF MovedAside, ProcsOK, Directory
      <4> QED
        BY <2>8, <4>1 DEF Crash, DiskOK
    <3>2. ProcsOK' /\ TreeInHand'
      BY <2>8, HomeProject DEF Crash, ProcsOK, TreeInHand, OpenSteps, Directory
    <3> QED
      BY <2>8, <3>1, <3>2 DEF Crash, DiskOK
  <2>9. CASE UNCHANGED vars
    BY <2>9 DEF vars, diskVars, procVars, DiskOK, ProcsOK, TreeInHand
  <2> QED
    BY <2>1, <2>2, <2>3, <2>4, <2>5, <2>6, <2>7, <2>8, <2>9 DEF Next, Step
<1>3. Typed => TypeOK
  BY DEF Typed
<1> QED
  BY <1>1, <1>2, <1>3, PTL DEF Spec

-----------------------------------------------------------------------------
(* What a step of a handler may do to the lock and to the storage state of  *)
(* its project.  The invariants below need to know no more of a handler.    *)

Stays(p) == file'[p].storage = file[p].storage

Becomes(p, state) == file'[p].storage = state

(* A step outside the critical section. *)
Outside(r) ==
    /\ pc[r] \notin LockedSteps
    /\ pc'[r] \notin LockedSteps
    /\ UNCHANGED <<lock, file>>

Enters(r) ==
    /\ lock[proj[r]] = NoProc
    /\ lock' = [lock EXCEPT ![proj[r]] = r]
    /\ pc'[r] \in {"archive", "ensure"}
    /\ proj'[r] = proj[r]
    /\ UNCHANGED file

(* A step from one point of the critical section to another. *)
Inside(r) ==
    /\ UNCHANGED <<lock, proj>>
    /\ \/ /\ pc[r] = "archive" /\ pc'[r] = "quiesce"
          /\ file[proj[r]].storage \in {"local", "error"}
          /\ Becomes(proj[r], "archiving")
       \/ pc[r] \in ArchiveSteps /\ pc'[r] \in ArchiveSteps /\ UNCHANGED file
       \/ pc[r] \in ArchiveSteps /\ pc'[r] = "prune" /\ Becomes(proj[r], "archived")
       \/ /\ pc[r] = "ensure" /\ pc'[r] = "get"
          /\ file[proj[r]].storage = "archived"
          /\ Becomes(proj[r], "restoring")
       \/ pc[r] \in RestoreSteps /\ pc'[r] \in RestoreSteps /\ UNCHANGED file

Leaves(r) ==
    /\ pc'[r] \notin LockedSteps
    /\ lock' = [lock EXCEPT ![proj[r]] = NoProc]
    /\ \/ pc[r] \in {"archive", "ensure", "prune"} /\ Stays(proj[r])
       \/ pc[r] \in ArchiveSteps /\ Becomes(proj[r], "error")
       \/ pc[r] \in RestoreSteps /\ Becomes(proj[r], "error")
       \/ pc[r] \in RestoreSteps /\ Becomes(proj[r], "local")
       \/ pc[r] \in LockedSteps /\ Fault("save") /\ Stays(proj[r])

Alone(r) ==
    /\ \A q \in Procs \ {r} : pc'[q] = pc[q] /\ proj'[q] = proj[q]
    /\ \A p \in Projects \ {proj[r]} : Stays(p)

Effect(r) == Alone(r) /\ (Outside(r) \/ Enters(r) \/ Inside(r) \/ Leaves(r))

(* The ways a handler returns or goes on, in those terms.                   *)
LEMMA ReturnEffect ==
    ASSUME TypeOK, NEW r \in Procs, Respond(r) \/ Finish(r) \/ Abandon(r)
    PROVE  /\ \A q \in Procs \ {r} : pc'[q] = pc[q] /\ proj'[q] = proj[q]
           /\ pc'[r] = "idle" /\ pc'[r] \notin LockedSteps
           /\ Respond(r) => UNCHANGED lock
           /\ ~Respond(r) => lock' = [lock EXCEPT ![proj[r]] = NoProc]
  BY DEF TypeOK, ProcsOK, Respond, Finish, Abandon, Goto, Forget, Unlock,
         LockedSteps, ArchiveSteps, RestoreSteps

LEMMA StepToEffect ==
    ASSUME TypeOK, NEW r \in Procs, NEW step, StepTo(r, step)
    PROVE  /\ \A q \in Procs \ {r} : pc'[q] = pc[q] /\ proj'[q] = proj[q]
           /\ pc'[r] = step
           /\ UNCHANGED <<lock, proj>>
  BY DEF TypeOK, ProcsOK, StepTo, Goto

LEMMA ProceedEffect ==
    ASSUME TypeOK, NEW r \in Procs, Proceed(r)
    PROVE  /\ \A q \in Procs \ {r} : pc'[q] = pc[q] /\ proj'[q] = proj[q]
           /\ pc'[r] \notin LockedSteps
           /\ lock' = [lock EXCEPT ![proj[r]] = NoProc]
<1>1. Body(op[r]) \in {"start", "mkdir", "stop", "idle"}
  BY DEF Body
<1> QED
  BY <1>1 DEF TypeOK, ProcsOK, Proceed, Finish, Goto, Forget, Unlock,
              LockedSteps, ArchiveSteps, RestoreSteps

LEMMA MarkErrorEffect ==
    ASSUME TypeOK, NEW r \in Procs, MarkError(r),
           pc[r] \in ArchiveSteps \cup RestoreSteps
    PROVE  Effect(r)
<1>1. Abandon(r)
  BY DEF MarkError
<1>2. pc'[r] \notin LockedSteps /\ lock' = [lock EXCEPT ![proj[r]] = NoProc]
  BY <1>1 DEF TypeOK, ProcsOK, Abandon, Goto, Unlock, LockedSteps, ArchiveSteps, RestoreSteps
<1>3. \A q \in Procs \ {r} : pc'[q] = pc[q] /\ proj'[q] = proj[q]
  BY <1>1 DEF TypeOK, ProcsOK, Abandon, Goto, Forget
<1>4. \A p \in Projects \ {proj[r]} : Stays(p)
  BY DEF TypeOK, DiskOK, MarkError, Stays
<1>5. Becomes(proj[r], "error") \/ (Fault("save") /\ Stays(proj[r]))
  BY DEF TypeOK, DiskOK, ProcsOK, StateFile, MarkError, Stays, Becomes
<1> QED
  BY <1>2, <1>3, <1>4, <1>5 DEF Effect, Alone, Leaves, LockedSteps

(* A step inside one of the two transitions that leaves the state file be.  *)
LEMMA WithinEffect ==
    ASSUME TypeOK, NEW r \in Procs, NEW steps \in {ArchiveSteps, RestoreSteps},
           NEW step \in steps, pc[r] \in steps,
           Goto(r, step), UNCHANGED <<lock, proj, file>>
    PROVE  Effect(r)
  BY DEF TypeOK, ProcsOK, Goto, Effect, Alone, Inside, Stays

(* A step of a handler that does not hold the lock.                         *)
LEMMA OpenEffect ==
    ASSUME TypeOK, NEW r \in Procs, NEW step \in OpenSteps, pc[r] \in OpenSteps,
           \/ Respond(r)
           \/ Goto(r, step) /\ UNCHANGED <<lock, proj>>,
           UNCHANGED file
    PROVE  Effect(r)
<1>1. OpenSteps \cap LockedSteps = {}
  BY DEF OpenSteps, LockedSteps, ArchiveSteps, RestoreSteps
<1>2. CASE Respond(r)
  BY <1>1, <1>2, ReturnEffect DEF Effect, Alone, Outside, Stays
<1>3. CASE Goto(r, step) /\ UNCHANGED <<lock, proj>>
  BY <1>1, <1>3 DEF TypeOK, ProcsOK, Goto, Effect, Alone, Outside, Stays
<1> QED
  BY <1>2, <1>3

LEMMA ArchivingEffect ==
    ASSUME TypeOK, NEW r \in Procs, Archiving(r)
    PROVE  Effect(r)
<1> USE DEF Effect, Alone
<1>1. CASE MarkError(r) /\ pc[r] \in ArchiveSteps
  BY <1>1, MarkErrorEffect
<1>2. CASE BeginArchive(r)
  <2>1. CASE StepTo(r, "quiesce")
    <3>1. MayArchive(r) /\ file' = [file EXCEPT ![proj[r]].storage = "archiving"]
      BY <1>2, <2>1, StepToEffect, ReturnEffect DEF BeginArchive
    <3>2. file[proj[r]].storage \in {"local", "error"}
      BY <3>1 DEF MayArchive
    <3> QED
      BY <1>2, <2>1, <3>1, <3>2, StepToEffect
      DEF BeginArchive, TypeOK, DiskOK, ProcsOK, StateFile, Inside, Stays, Becomes
  <2>2. CASE ~StepTo(r, "quiesce")
    BY <1>2, <2>2, ReturnEffect DEF BeginArchive, Finish, Abandon, Leaves, Stays, LockedSteps, TypeOK, ProcsOK, Goto, Forget, Unlock, ArchiveSteps, RestoreSteps
  <2> QED
    BY <2>1, <2>2
<1>3. CASE QuiesceArchive(r) \/ WriteTar(r) \/ PutArchive(r) \/ RemoveLocal(r)
  <2>1. pc[r] \in ArchiveSteps
    BY <1>3 DEF QuiesceArchive, WriteTar, PutArchive, RemoveLocal, ArchiveSteps
  <2>2. CASE ~MarkError(r)
    <3>1. PICK step \in ArchiveSteps : Goto(r, step)
      BY <1>3, <2>2 DEF QuiesceArchive, WriteTar, PutArchive, RemoveLocal, StepTo, ArchiveSteps
    <3>2. UNCHANGED <<lock, proj, file>>
      BY <1>3, <2>2 DEF QuiesceArchive, WriteTar, PutArchive, RemoveLocal, StepTo
    <3> QED
      BY <2>1, <3>1, <3>2, WithinEffect
  <2> QED
    BY <1>1, <2>1, <2>2
<1>4. CASE MarkArchived(r)
  <2>1. pc[r] = "mark"
    BY <1>4 DEF MarkArchived
  <2>2. CASE StepTo(r, "prune")
    <3>1. file' = [file EXCEPT ![proj[r]].storage = "archived",
                               ![proj[r]].archive = name[r]]
      BY <1>4, <2>2, StepToEffect, ReturnEffect DEF MarkArchived
    <3>2. Becomes(proj[r], "archived") /\ \A p \in Projects \ {proj[r]} : Stays(p)
      BY <3>1 DEF TypeOK, DiskOK, ProcsOK, StateFile, Becomes, Stays
    <3> QED
      BY <2>1, <2>2, <3>2, StepToEffect DEF Inside, ArchiveSteps
  <2>3. CASE ~StepTo(r, "prune")
    BY <1>4, <2>1, <2>3, ReturnEffect
    DEF MarkArchived, Abandon, Unlock, Leaves, Stays, LockedSteps, ArchiveSteps
  <2> QED
    BY <2>2, <2>3
<1>5. CASE PruneArchives(r)
  BY <1>5, ReturnEffect
  DEF PruneArchives, Finish, Abandon, Unlock, Leaves, Stays
<1> QED
  BY <1>2, <1>3, <1>4, <1>5 DEF Archiving

LEMMA RestoringEffect ==
    ASSUME TypeOK, NEW r \in Procs, Restoring(r)
    PROVE  Effect(r)
<1> USE DEF Effect, Alone
<1>1. CASE EnsureLocal(r)
  <2>1. CASE StepTo(r, "get")
    <3>1. /\ file[proj[r]].storage = "archived"
          /\ file' = [file EXCEPT ![proj[r]].storage = "restoring"]
      BY <1>1, <2>1, StepToEffect, ReturnEffect, ProceedEffect
      DEF EnsureLocal, LockedSteps, RestoreSteps
    <3>2. Becomes(proj[r], "restoring") /\ \A p \in Projects \ {proj[r]} : Stays(p)
      BY <3>1 DEF TypeOK, DiskOK, ProcsOK, StateFile, Becomes, Stays
    <3> QED
      BY <1>1, <2>1, <3>1, <3>2, StepToEffect DEF EnsureLocal, Inside
  <2>2. CASE ~StepTo(r, "get")
    <3>1. /\ pc[r] = "ensure"
          /\ Proceed(r) \/ Abandon(r)
          /\ file' = file \/ file' = [file EXCEPT ![proj[r]].last = "recent"]
      BY <1>1, <2>2 DEF EnsureLocal
    <3>2. \A p \in Projects : Stays(p)
      <4>1. CASE file' = file
        BY <4>1 DEF Stays
      <4>2. CASE file' = [file EXCEPT ![proj[r]].last = "recent"]
        BY <4>2 DEF TypeOK, DiskOK, ProcsOK, StateFile, Stays
      <4> QED
        BY <3>1, <4>1, <4>2
    <3> QED
      BY <3>1, <3>2, ReturnEffect, ProceedEffect
      DEF Abandon, Unlock, Leaves, TypeOK, ProcsOK
  <2> QED
    BY <2>1, <2>2
<1>2. CASE GetArchive(r) \/ SwapOut(r) \/ SwapIn(r)
  <2>1. pc[r] \in RestoreSteps
    BY <1>2 DEF GetArchive, SwapOut, SwapIn, RestoreSteps
  <2>2. CASE ~MarkError(r)
    <3>1. PICK step \in RestoreSteps : Goto(r, step)
      BY <1>2, <2>2 DEF GetArchive, SwapOut, SwapIn, RestoreSteps
    <3>2. UNCHANGED <<lock, proj, file>>
      BY <1>2, <2>2 DEF GetArchive, SwapOut, SwapIn
    <3> QED
      BY <2>1, <3>1, <3>2, WithinEffect
  <2> QED
    BY <2>1, <2>2, MarkErrorEffect
<1>3. CASE MarkLocal(r)
  <2>1. pc[r] \in RestoreSteps /\ pc[r] \in LockedSteps
    BY <1>3 DEF MarkLocal, LockedSteps, RestoreSteps
  <2>2. CASE /\ file' = [file EXCEPT ![proj[r]].storage = "local",
                                     ![proj[r]].last = "recent"]
             /\ Proceed(r)
    <3>1. Becomes(proj[r], "local") /\ \A p \in Projects \ {proj[r]} : Stays(p)
      BY <2>2 DEF TypeOK, DiskOK, ProcsOK, StateFile, Becomes, Stays
    <3> QED
      BY <2>1, <2>2, <3>1, ProceedEffect DEF Leaves
  <2>3. CASE Fault("save") /\ Abandon(r) /\ UNCHANGED file
    BY <2>1, <2>3, ReturnEffect DEF Abandon, Unlock, Leaves, Stays
  <2> QED
    BY <1>3, <2>2, <2>3 DEF MarkLocal
<1> QED
  BY <1>1, <1>2, <1>3 DEF Restoring

LEMMA OperatingEffect ==
    ASSUME TypeOK, NEW r \in Procs, Operating(r)
    PROVE  Effect(r)
<1>1. pc[r] \in OpenSteps
  BY DEF Operating, StartContainer, RunCommand, EnsureWorkspace, WriteFile, StopContainer,
     DeleteWorkspace, CloneWorkspace, DumpBackup, PruneBackups, ResolveBackup,
     FetchBackup, RestoreAside, RestorePublish, OpenSteps
<1>2. UNCHANGED file
  BY DEF Operating, StartContainer, RunCommand, EnsureWorkspace, WriteFile, StopContainer,
     DeleteWorkspace, CloneWorkspace, DumpBackup, PruneBackups, ResolveBackup,
     FetchBackup, RestoreAside, RestorePublish, diskVars
<1>3. Respond(r) \/ \E step \in OpenSteps : Goto(r, step) /\ UNCHANGED <<lock, proj>>
  <2>1. AfterStop(op[r]) \in OpenSteps
    BY DEF AfterStop, OpenSteps
  <2>2. {"attach", "run", "file", "rotate", "stop", "aside", "publish"} \subseteq OpenSteps
    BY DEF OpenSteps
  <2>3. CASE StartContainer(r)
    BY <2>2, <2>3 DEF StartContainer, StepTo
  <2>4. CASE StopContainer(r)
    BY <2>1, <2>4 DEF StopContainer, StepTo
  <2>5. CASE EnsureWorkspace(r) \/ DumpBackup(r) \/ ResolveBackup(r)
                \/ FetchBackup(r) \/ RestoreAside(r)
    BY <2>2, <2>5 DEF EnsureWorkspace, DumpBackup, ResolveBackup, FetchBackup, RestoreAside, StepTo
  <2>6. CASE RunCommand(r) \/ WriteFile(r) \/ DeleteWorkspace(r) \/ CloneWorkspace(r)
                \/ PruneBackups(r) \/ RestorePublish(r)
    BY <2>6 DEF RunCommand, WriteFile, DeleteWorkspace, CloneWorkspace, PruneBackups, RestorePublish
  <2> QED
    BY <2>3, <2>4, <2>5, <2>6 DEF Operating
<1>4. "idle" \in OpenSteps
  BY DEF OpenSteps
<1> QED
  BY <1>1, <1>2, <1>3, <1>4, OpenEffect

(* The table above is complete: every step of a handler is one of its rows. *)
LEMMA StepEffect ==
    ASSUME TypeOK, NEW r \in Procs, Step(r)
    PROVE  Effect(r)
<1>1. CASE TakeLock(r)
  BY <1>1 DEF TakeLock, TypeOK, ProcsOK, Goto, diskVars, Effect, Alone, Enters, Stays
<1> QED
  BY <1>1, ArchivingEffect, RestoringEffect, OperatingEffect DEF Step

-----------------------------------------------------------------------------
(* The storage states' diagram.                                             *)

(* The lock of a project keeps everybody but its holder out of the critical *)
(* section, and the state file says archiving or restoring while the holder *)
(* is at it.                                                                *)
LockHeld == \A r \in Procs : pc[r] \in LockedSteps => lock[proj[r]] = r

PhaseRecorded ==
    \A r \in Procs :
        /\ pc[r] \in ArchiveSteps => file[proj[r]].storage = "archiving"
        /\ pc[r] \in RestoreSteps => file[proj[r]].storage = "restoring"

Guarded == LockHeld /\ PhaseRecorded

LEMMA GuardedInit == Init => Guarded
  BY DEF Init, Guarded, LockHeld, PhaseRecorded, LockedSteps, ArchiveSteps, RestoreSteps

(* Steps that are not a handler's change no storage state and enter no      *)
(* critical section.                                                        *)
LEMMA BystanderEffect ==
    ASSUME TypeOK,
           \/ \E r \in Requests : Arrive(r)
           \/ \E s \in Sweepers : SweepList(s) \/ SweepNext(s)
           \/ \E p \in Projects : Idle(p)
           \/ UNCHANGED vars
    PROVE  /\ \A p \in Projects : Stays(p)
           /\ UNCHANGED lock
           /\ \A q \in Procs : \/ pc'[q] = pc[q] /\ proj'[q] = proj[q]
                               \/ pc'[q] \notin LockedSteps /\ pc[q] = "idle"
<1>1. CASE \E r \in Requests : Arrive(r)
  <2>1. PICK r \in Requests : Arrive(r)
    BY <1>1
  <2>2. PICK o \in Ops, p \in Named :
           proj' = [proj EXCEPT ![r] = p] /\ Goto(r, FirstStep(o))
    BY <2>1 DEF Arrive
  <2>3. FirstStep(o) \notin LockedSteps
    BY DEF FirstStep, LockedSteps, ArchiveSteps, RestoreSteps
  <2> QED
    BY <2>1, <2>2, <2>3 DEF Arrive, diskVars, Stays, TypeOK, ProcsOK, Goto, Procs
<1>2. CASE \E s \in Sweepers : SweepList(s) \/ SweepNext(s)
  BY <1>2 DEF SweepList, SweepNext, diskVars, Stays, TypeOK, ProcsOK, Goto, Procs,
              LockedSteps, ArchiveSteps, RestoreSteps
<1>3. CASE \E p \in Projects : Idle(p)
  <2>1. PICK p \in Projects : file' = [file EXCEPT ![p].last = "old"]
    BY <1>3 DEF Idle
  <2>2. \A q \in Projects : Stays(q)
    BY <2>1 DEF TypeOK, DiskOK, StateFile, Stays
  <2> QED
    BY <1>3, <2>2 DEF Idle, procVars
<1>4. CASE UNCHANGED vars
  BY <1>4 DEF vars, diskVars, procVars, Stays
<1> QED
  BY <1>1, <1>2, <1>3, <1>4

LEMMA GuardedStep ==
    ASSUME TypeOK, Guarded, [Next]_vars
    PROVE  Guarded'
<1>1. ASSUME NEW r \in Procs, Step(r) PROVE Guarded'
  <2> DEFINE p == proj[r]
  <2>1. Effect(r) /\ p \in Projects /\ NoProc \notin Procs
    BY <1>1, StepEffect, StorageAssumption DEF TypeOK, ProcsOK, Procs
  <2>2. ASSUME NEW q \in Procs \ {r}, pc'[q] \in LockedSteps
        PROVE  proj[q] # p \/ (Outside(r) /\ UNCHANGED file)
    BY <2>1, <2>2 DEF Effect, Alone, Outside, Enters, Inside, Leaves, Guarded, LockHeld,
                      LockedSteps
  <2>3. LockHeld'
    <3> SUFFICES ASSUME NEW q \in Procs, pc'[q] \in LockedSteps
                 PROVE  lock'[proj'[q]] = q
      BY DEF LockHeld
    <3>1. CASE q = r
      BY <2>1, <3>1 DEF Effect, Outside, Enters, Inside, Leaves, Guarded, LockHeld,
                        TypeOK, ProcsOK, LockedSteps
    <3>2. CASE q # r
      <4>1. pc[q] \in LockedSteps /\ proj'[q] = proj[q] /\ proj[q] \in Projects
        BY <2>1, <3>2 DEF Effect, Alone, TypeOK, ProcsOK
      <4>2. lock'[proj[q]] = lock[proj[q]]
        BY <2>1, <2>2, <3>2, <4>1
        DEF Effect, Outside, Enters, Inside, Leaves, TypeOK, ProcsOK
      <4> QED
        BY <4>1, <4>2 DEF Guarded, LockHeld
    <3> QED
      BY <3>1, <3>2
  <2>4. PhaseRecorded'
    <3> SUFFICES ASSUME NEW q \in Procs
                 PROVE  /\ pc'[q] \in ArchiveSteps => file'[proj'[q]].storage = "archiving"
                        /\ pc'[q] \in RestoreSteps => file'[proj'[q]].storage = "restoring"
      BY DEF PhaseRecorded
    <3>1. CASE q = r
      BY <2>1, <3>1 DEF Effect, Outside, Enters, Inside, Leaves, Guarded, PhaseRecorded,
                        Becomes, LockedSteps, ArchiveSteps, RestoreSteps
    <3>2. CASE q # r
      <4>1. pc'[q] = pc[q] /\ proj'[q] = proj[q] /\ proj[q] \in Projects
        BY <2>1, <3>2 DEF Effect, Alone, TypeOK, ProcsOK
      <4>2. pc'[q] \in LockedSteps => Stays(proj[q])
        BY <2>1, <2>2, <3>2, <4>1 DEF Effect, Alone, Stays
      <4> QED
        BY <4>1, <4>2 DEF Guarded, PhaseRecorded, Stays, LockedSteps
    <3> QED
      BY <3>1, <3>2
  <2> QED
    BY <2>3, <2>4 DEF Guarded
<1>2. CASE Crash
  BY <1>2 DEF Crash, Guarded, LockHeld, PhaseRecorded, LockedSteps, ArchiveSteps, RestoreSteps
<1>3. CASE ~Crash /\ ~\E r \in Procs : Step(r)
  <2>1. /\ \A p \in Projects : Stays(p)
        /\ UNCHANGED lock
        /\ \A q \in Procs : \/ pc'[q] = pc[q] /\ proj'[q] = proj[q]
                            \/ pc'[q] \notin LockedSteps /\ pc[q] = "idle"
    BY <1>3, BystanderEffect DEF Next
  <2> QED
    BY <2>1 DEF Guarded, LockHeld, PhaseRecorded, Stays, TypeOK, ProcsOK, LockedSteps
<1> QED
  BY <1>1, <1>2, <1>3

LEMMA GuardedCorrect == Spec => []Guarded
<1>1. TypeOK /\ Guarded /\ [Next]_vars => Guarded'
  BY GuardedStep
<1> QED
  BY <1>1, GuardedInit, TypeCorrect, PTL DEF Spec

(* The state file only moves along the diagram of the storage states: no    *)
(* handler saves a copy it loaded before somebody else's transition.        *)
THEOREM TransitionsLegal == Spec => LegalTransition
<1>1. ASSUME TypeOK, Guarded, [Next]_vars, NEW p \in Projects,
             file'[p].storage # file[p].storage
      PROVE  <<file[p].storage, file'[p].storage>> \in LegalMoves
  <2>1. CASE \E r \in Procs : Step(r)
    <3>1. PICK r \in Procs : Step(r)
      BY <2>1
    <3>2. Effect(r)
      BY <1>1, <3>1, StepEffect
    <3>3. p = proj[r]
      BY <1>1, <3>2 DEF Effect, Alone, Stays
    <3> QED
      BY <1>1, <3>2, <3>3
      DEF Effect, Outside, Enters, Inside, Leaves, Stays, Becomes, Guarded, PhaseRecorded,
          LegalMoves
  <2>2. CASE ~\E r \in Procs : Step(r)
    BY <1>1, <2>2, BystanderEffect DEF Next, Crash, Stays
  <2> QED
    BY <2>1, <2>2
<1>2. TypeOK /\ Guarded /\ [Next]_vars =>
        [\A p \in Projects :
            file'[p].storage # file[p].storage =>
                <<file[p].storage, file'[p].storage>> \in LegalMoves]_file
  BY <1>1
<1> QED
  BY <1>2, TypeCorrect, GuardedCorrect, PTL DEF Spec, LegalTransition

(* The lock of a project is only ever held by a handler that is inside the  *)
(* critical section of that project.                                        *)
LocksAtWork ==
    \A p \in Projects :
        lock[p] # NoProc =>
            lock[p] \in Procs /\ pc[lock[p]] \in LockedSteps /\ proj[lock[p]] = p

(* No return of a handler forgets the unlock, so a request that waits for a *)
(* lock waits for somebody who is at work on that project (the deferred     *)
(* Unlock of projectStates.lock; the safety that Answered rests on).        *)
THEOREM LocksReleased == Spec => []LocksAtWork
<1>1. Init => LocksAtWork
  BY DEF Init, LocksAtWork
<1>2. ASSUME TypeOK, LocksAtWork, [Next]_vars
      PROVE  LocksAtWork'
  <2>1. ASSUME NEW r \in Procs, Step(r), NEW p \in Projects, lock'[p] # NoProc
        PROVE  /\ lock'[p] \in Procs /\ pc'[lock'[p]] \in LockedSteps
               /\ proj'[lock'[p]] = p
    <3>1. Effect(r) /\ proj[r] \in Projects /\ lock \in [Projects -> Procs \cup {NoProc}]
      BY <1>2, <2>1, StepEffect DEF TypeOK, ProcsOK
    <3>2. Inside(r) => pc'[r] \in LockedSteps /\ proj'[r] = proj[r]
      BY <1>2 DEF Inside, LockedSteps, ArchiveSteps, RestoreSteps
    <3>3. CASE lock'[p] = r
      BY <1>2, <2>1, <3>1, <3>2, <3>3
      DEF LocksAtWork, Effect, Outside, Enters, Leaves, Inside, LockedSteps
    <3>4. CASE lock'[p] # r
      <4>1. lock'[p] = lock[p]
        BY <2>1, <3>1, <3>4 DEF Effect, Outside, Enters, Inside, Leaves
      <4> QED
        BY <1>2, <2>1, <3>1, <3>4, <4>1 DEF LocksAtWork, Effect, Alone
    <3> QED
      BY <3>3, <3>4
  <2>2. CASE Crash
    BY <2>2 DEF Crash, LocksAtWork
  <2>3. CASE ~Crash /\ ~\E r \in Procs : Step(r)
    <3>1. /\ UNCHANGED lock
          /\ \A q \in Procs : \/ pc'[q] = pc[q] /\ proj'[q] = proj[q]
                              \/ pc'[q] \notin LockedSteps /\ pc[q] = "idle"
      BY <1>2, <2>3, BystanderEffect DEF Next
    <3> QED
      BY <1>2, <3>1 DEF LocksAtWork, LockedSteps, ArchiveSteps, RestoreSteps
  <2> QED
    BY <2>1, <2>2, <2>3 DEF LocksAtWork
<1> QED
  BY <1>1, <1>2, TypeCorrect, PTL DEF Spec

-----------------------------------------------------------------------------
(* No transition is left behind.                                            *)

(* TransitionDriven with the project its holder works on: the inductive     *)
(* form.                                                                    *)
HolderAtWork(p, steps) ==
    lock[p] \in Procs /\ proj[lock[p]] = p /\ pc[lock[p]] \in steps

HolderDrives ==
    \A p \in Projects :
        /\ file[p].storage = "archiving" => HolderAtWork(p, ArchiveSteps)
        /\ file[p].storage = "restoring" => HolderAtWork(p, RestoreSteps)

LEMMA HolderStep ==
    ASSUME Faults \cap {"crash", "save"} = {},
           TypeOK, Guarded, HolderDrives, [Next]_vars
    PROVE  HolderDrives'
<1>1. ASSUME NEW r \in Procs, Step(r) PROVE HolderDrives'
  <2>1. Effect(r) /\ proj[r] \in Projects /\ NoProc \notin Procs
    BY <1>1, StepEffect, StorageAssumption DEF TypeOK, ProcsOK, Procs
  <2>2. LockedSteps \cap {"idle"} = {} /\ ArchiveSteps \cap RestoreSteps = {}
        /\ ArchiveSteps \subseteq LockedSteps /\ RestoreSteps \subseteq LockedSteps
    BY DEF LockedSteps, ArchiveSteps, RestoreSteps
  <2>3. ASSUME NEW p \in Projects, NEW steps \in {ArchiveSteps, RestoreSteps},
               HolderAtWork(p, steps), p # proj[r]
        PROVE  HolderAtWork(p, steps)'
    <3>1. lock[p] # r
      BY <2>3 DEF HolderAtWork
    <3>2. lock'[p] = lock[p]
      BY <2>1, <2>3 DEF Effect, Outside, Enters, Inside, Leaves, TypeOK, ProcsOK
    <3> QED
      BY <2>1, <2>3, <3>1, <3>2 DEF Effect, Alone, HolderAtWork
  <2>4. ASSUME NEW p \in Projects, p # proj[r]
        PROVE  /\ file'[p].storage = "archiving" => HolderAtWork(p, ArchiveSteps)'
               /\ file'[p].storage = "restoring" => HolderAtWork(p, RestoreSteps)'
    BY <2>1, <2>3, <2>4 DEF Effect, Alone, Stays, HolderDrives
  <2>5. ASSUME NEW p \in Projects, p = proj[r]
        PROVE  /\ Becomes(p, "archiving") => HolderAtWork(p, ArchiveSteps)'
               /\ Becomes(p, "restoring") => HolderAtWork(p, RestoreSteps)'
    <3>1. CASE Outside(r)
      <4>1. ASSUME NEW steps \in {ArchiveSteps, RestoreSteps}, HolderAtWork(p, steps)
            PROVE  HolderAtWork(p, steps)'
        <5>1. lock[p] # r
          BY <2>2, <3>1, <4>1 DEF HolderAtWork, Outside
        <5>2. lock[p] \in Procs \ {r} /\ lock'[p] = lock[p]
          BY <3>1, <4>1, <5>1 DEF HolderAtWork, Outside
        <5>3. pc'[lock[p]] = pc[lock[p]] /\ proj'[lock[p]] = proj[lock[p]]
          BY <2>1, <5>2 DEF Effect, Alone
        <5> QED
          BY <4>1, <5>2, <5>3 DEF HolderAtWork
      <4> QED
        BY <2>1, <2>5, <3>1, <4>1 DEF HolderDrives, Outside, Becomes
    <3>2. CASE Enters(r)
      BY <2>1, <2>5, <3>2 DEF HolderDrives, HolderAtWork, Enters, Becomes
    <3>3. CASE Inside(r)
      <4>1. lock'[p] = r /\ proj'[r] = p
        BY <2>5, <3>3 DEF Inside, Guarded, LockHeld, LockedSteps
      <4> QED
        BY <2>1, <2>2, <2>5, <3>3, <4>1
        DEF Inside, Guarded, PhaseRecorded, HolderAtWork, Becomes, ArchiveSteps, RestoreSteps
    <3>4. CASE Leaves(r)
      <4>1. lock[p] = r
        BY <2>5, <3>4 DEF Leaves, Guarded, LockHeld, LockedSteps
      <4>2. CASE pc[r] \in {"archive", "ensure", "prune"} /\ Stays(p)
        BY <2>1, <2>5, <4>1, <4>2 DEF HolderDrives, HolderAtWork, Stays, Becomes, ArchiveSteps, RestoreSteps
      <4>3. CASE Becomes(p, "error") \/ Becomes(p, "local")
        BY <4>3 DEF Becomes
      <4>4. ~Fault("save")
        BY DEF Fault
      <4> QED
        BY <2>5, <3>4, <4>2, <4>3, <4>4 DEF Leaves
    <3> QED
      BY <2>1, <3>1, <3>2, <3>3, <3>4 DEF Effect
  <2> QED
    BY <2>4, <2>5 DEF HolderDrives, Becomes
<1>2. CASE ~\E r \in Procs : Step(r)
  <2>1. ~Crash
    BY DEF Crash, Fault
  <2>2. /\ \A p \in Projects : Stays(p)
        /\ UNCHANGED lock
        /\ \A q \in Procs : \/ pc'[q] = pc[q] /\ proj'[q] = proj[q]
                            \/ pc'[q] \notin LockedSteps /\ pc[q] = "idle"
    BY <1>2, <2>1, BystanderEffect DEF Next
  <2> QED
    BY <2>2 DEF HolderDrives, HolderAtWork, Stays, ArchiveSteps, RestoreSteps
<1> QED
  BY <1>1, <1>2

(* As long as the service lives and its state files can be written, a       *)
(* project is archiving or restoring only while the handler that holds its  *)
(* lock is at it: every return of handleProjectArchive, archiveProject and  *)
(* ensureProjectLocalLocked records how the transition ended.               *)
THEOREM TransitionsDriven ==
    ASSUME Faults \cap {"crash", "save"} = {}
    PROVE  Spec => []TransitionDriven
<1>1. Init => HolderDrives
  BY DEF Init, HolderDrives
<1>2. TypeOK /\ Guarded /\ HolderDrives /\ [Next]_vars => HolderDrives'
  BY HolderStep
<1>3. HolderDrives => TransitionDriven
  BY DEF HolderDrives, HolderAtWork, TransitionDriven
<1> QED
  BY <1>1, <1>2, <1>3, TypeCorrect, GuardedCorrect, PTL DEF Spec

-----------------------------------------------------------------------------
(* The archive a state file names is in the store.                          *)

IsNewest(p, n) ==
    /\ \E a \in archives[p] : a.name = n
    /\ \A a \in archives[p] : a.name <= n

(* Upload times order the archives as their names do, and the archive that  *)
(* is about to be marked, or has just been, is the newest one when the      *)
(* retention loop looks at them.                                            *)
ArchivesOrdered ==
    \A p \in Projects :
        /\ IsFiniteSet(archives[p])
        /\ \A a \in archives[p] : a.at = a.name /\ a.name <= clock[p]

NewestAtHand ==
    \A r \in Procs :
        /\ pc[r] \in {"remove", "mark"} => IsNewest(proj[r], name[r])
        /\ pc[r] = "prune" => IsNewest(proj[r], file[proj[r]].archive)

Retained == ArchivesOrdered /\ NewestAtHand /\ ArchiveStored

(* The retention loop keeps the newest archive, whatever else it deletes.   *)
LEMMA NewestKept ==
    ASSUME NEW objects \in SUBSET Object, IsFiniteSet(objects),
           \A a \in objects : a.at = a.name,
           NEW top \in objects, \A a \in objects : a.name <= top.name,
           NEW kept \in Kept(objects, ArchiveRetention)
    PROVE  \E a \in kept : a.name = top.name
<1>1. kept \subseteq objects
  BY DEF Kept
<1>2. Cardinality(objects) \in Nat /\ Cardinality(objects) # 0
  BY FS_CardinalityType, FS_EmptySet
<1>3. Cardinality(kept) # 0
  BY <1>2, StorageAssumption DEF Kept
<1>4. PICK a \in kept : TRUE
  BY <1>3, FS_EmptySet
<1>5. CASE top \in kept
  BY <1>5
<1>6. CASE top \notin kept
  <2>1. a.at >= top.at
    BY <1>6 DEF Kept
  <2>2. a.name = top.name
    BY <1>1, <2>1 DEF Object
  <2> QED
    BY <2>2
<1> QED
  BY <1>5, <1>6

(* All other steps leave the archives alone, and the handlers reach the     *)
(* marking of an archive only through its upload.                           *)
Untouched ==
    /\ UNCHANGED archives
    /\ \A p \in Projects : /\ file'[p].archive = file[p].archive
                           /\ clock'[p] \in Nat /\ clock'[p] >= clock[p]
    /\ \A q \in Procs :
          \/ pc'[q] = pc[q] /\ proj'[q] = proj[q] /\ name'[q] = name[q]
          \/ pc[q] = "remove" /\ pc'[q] = "mark" /\ proj'[q] = proj[q] /\ name'[q] = name[q]
          \/ pc'[q] \notin {"remove", "mark", "prune"}

LEMMA UntouchedRetained ==
    ASSUME TypeOK, Retained, Untouched
    PROVE  Retained'
<1>1. ArchivesOrdered'
  <2> SUFFICES ASSUME NEW p \in Projects, NEW a \in archives[p]
               PROVE  a.at = a.name /\ a.name <= clock'[p]
    BY DEF Untouched, Retained, ArchivesOrdered
  <2>1. a.at = a.name /\ a.name \in Nat /\ a.name <= clock[p] /\ clock[p] \in Nat
    BY DEF Retained, ArchivesOrdered, TypeOK, DiskOK, Object
  <2> QED
    BY <2>1 DEF Untouched
<1>2. NewestAtHand'
  BY DEF Untouched, Retained, NewestAtHand, IsNewest, TypeOK, ProcsOK
<1>3. ArchiveStored'
  BY DEF Untouched, Retained, ArchiveStored
<1> QED
  BY <1>1, <1>2, <1>3 DEF Retained

Marked == {"remove", "mark", "prune"}

Keeps(q) == pc'[q] = pc[q] /\ proj'[q] = proj[q] /\ name'[q] = name[q]

LEMMA ReturnKeeps ==
    ASSUME TypeOK, NEW r \in Procs, Respond(r) \/ Finish(r) \/ Abandon(r) \/ Proceed(r)
    PROVE  pc'[r] \notin Marked /\ \A q \in Procs \ {r} : Keeps(q)
<1>1. Body(op[r]) \in {"start", "mkdir", "stop", "idle"}
  BY DEF Body
<1> QED
  BY <1>1 DEF TypeOK, ProcsOK, Respond, Finish, Abandon, Proceed, Goto, Forget, Keeps, Marked

LEMMA GotoKeeps ==
    ASSUME TypeOK, NEW r \in Procs, NEW step, Goto(r, step), UNCHANGED proj,
           NEW n, UNCHANGED name \/ name' = [name EXCEPT ![r] = n]
    PROVE  pc'[r] = step /\ \A q \in Procs \ {r} : Keeps(q)
  BY DEF TypeOK, ProcsOK, Goto, Keeps

LEMMA FileKeepsArchive ==
    ASSUME TypeOK,
           \/ \E r \in Procs : MarkError(r) \/ BeginArchive(r) \/ EnsureLocal(r) \/ MarkLocal(r)
           \/ \E p \in Projects : Idle(p)
    PROVE  \A p \in Projects : file'[p].archive = file[p].archive
<1>1. \/ file' = file
      \/ \E p \in Projects, v \in StorageStates : file' = [file EXCEPT ![p].storage = v]
      \/ \E p \in Projects, l \in Activity : file' = [file EXCEPT ![p].last = l]
      \/ \E p \in Projects : file' = [file EXCEPT ![p].storage = "local", ![p].last = "recent"]
  BY DEF MarkError, BeginArchive, EnsureLocal, MarkLocal, Idle, StorageStates, Activity, TypeOK, ProcsOK
<1>2. file \in [Projects -> StateFile]
  BY DEF TypeOK, DiskOK
<1>3. CASE file' = file
  BY <1>3
<1>4. CASE \E p \in Projects, v \in StorageStates : file' = [file EXCEPT ![p].storage = v]
  BY <1>2, <1>4 DEF StateFile
<1>5. CASE \E p \in Projects, l \in Activity : file' = [file EXCEPT ![p].last = l]
  BY <1>2, <1>5 DEF StateFile
<1>6. CASE \E p \in Projects : file' = [file EXCEPT ![p].storage = "local", ![p].last = "recent"]
  BY <1>2, <1>6 DEF StateFile
<1> QED
  BY <1>1, <1>3, <1>4, <1>5, <1>6

LEMMA StepUntouched ==
    ASSUME TypeOK, NEW r \in Procs, Step(r),
           ~PutArchive(r), ~MarkArchived(r), ~PruneArchives(r)
    PROVE  Untouched
<1> USE DEF Marked
<1>1. UNCHANGED archives
  BY DEF Step, TakeLock, Archiving, Restoring, Operating, BeginArchive, QuiesceArchive, WriteTar,
     RemoveLocal, EnsureLocal, GetArchive, SwapOut, SwapIn, MarkLocal, StartContainer,
     RunCommand, EnsureWorkspace, WriteFile, StopContainer, DeleteWorkspace, CloneWorkspace,
     DumpBackup, PruneBackups, ResolveBackup, FetchBackup, RestoreAside, RestorePublish, diskVars
<1>2. \A p \in Projects : file'[p].archive = file[p].archive
  <2>1. CASE UNCHANGED file
    BY <2>1
  <2>2. CASE ~UNCHANGED file
    <3>1. MarkError(r) \/ BeginArchive(r) \/ EnsureLocal(r) \/ MarkLocal(r)
      BY <2>2
      DEF Step, TakeLock, Archiving, Restoring, Operating, QuiesceArchive, WriteTar,
          RemoveLocal, GetArchive, SwapOut, SwapIn, StartContainer,
          RunCommand, EnsureWorkspace, WriteFile, StopContainer, DeleteWorkspace,
          CloneWorkspace, DumpBackup, PruneBackups, ResolveBackup, FetchBackup,
          RestoreAside, RestorePublish, diskVars, StepTo
    <3> QED
      BY <3>1, FileKeepsArchive
  <2> QED
    BY <2>1, <2>2
<1>3. \A p \in Projects : clock'[p] \in Nat /\ clock'[p] >= clock[p]
  <2>1. CASE UNCHANGED clock
    BY <2>1 DEF TypeOK, DiskOK
  <2>2. CASE DumpBackup(r)
    BY <2>2 DEF TypeOK, DiskOK, ProcsOK, DumpBackup, NextName
  <2> QED
    BY <2>1, <2>2
    DEF Step, TakeLock, Archiving, Restoring, Operating, BeginArchive, QuiesceArchive, WriteTar,
        RemoveLocal, EnsureLocal, GetArchive, SwapOut, SwapIn, MarkLocal, StartContainer,
        RunCommand, EnsureWorkspace, WriteFile, StopContainer, DeleteWorkspace, CloneWorkspace,
        PruneBackups, ResolveBackup, FetchBackup, RestoreAside, RestorePublish, diskVars
<1>4. /\ \A q \in Procs \ {r} : Keeps(q)
      /\ \/ pc'[r] \notin Marked
         \/ pc[r] = "remove" /\ pc'[r] = "mark" /\ proj'[r] = proj[r] /\ name'[r] = name[r]
  <2>1. CASE Respond(r) \/ Finish(r) \/ Abandon(r) \/ Proceed(r)
    BY <2>1, ReturnKeeps
  <2>2. CASE StepTo(r, "mark") /\ RemoveLocal(r)
    BY <2>2, GotoKeeps DEF StepTo, RemoveLocal
  <2>3. CASE \E step \in (LockedSteps \cup OpenSteps) \ Marked :
                /\ Goto(r, step)
                /\ UNCHANGED proj
                /\ UNCHANGED name \/ \E n \in Nat : name' = [name EXCEPT ![r] = n]
    BY <2>3, GotoKeeps
  <2>4. \/ Respond(r) \/ Finish(r) \/ Abandon(r) \/ Proceed(r)
        \/ StepTo(r, "mark") /\ RemoveLocal(r)
        \/ \E step \in (LockedSteps \cup OpenSteps) \ Marked :
                /\ Goto(r, step)
                /\ UNCHANGED proj
                /\ UNCHANGED name \/ \E n \in Nat : name' = [name EXCEPT ![r] = n]
    <3>1. CASE TakeLock(r)
      BY <3>1 DEF TakeLock, LockedSteps
    <3>2. CASE Archiving(r)
      BY <3>2 DEF Archiving, BeginArchive, QuiesceArchive, WriteTar, RemoveLocal,
                  MarkError, StepTo, LockedSteps, ArchiveSteps
    <3>3. CASE Restoring(r)
      BY <3>3 DEF Restoring, EnsureLocal, GetArchive, SwapOut, SwapIn, MarkLocal,
                  MarkError, StepTo, LockedSteps, RestoreSteps
    <3>4. CASE Operating(r)
      <4>1. AfterStop(op[r]) \in {"rm", "copy", "dump", "fetch", "idle"}
        BY DEF AfterStop
      <4>2. CASE ResolveBackup(r)
        BY <4>2 DEF ResolveBackup, OpenSteps, TypeOK, DiskOK, ProcsOK, Object
      <4>3. CASE ~ResolveBackup(r)
        BY <3>4, <4>1, <4>3
        DEF Operating, StartContainer, RunCommand, EnsureWorkspace, WriteFile, StopContainer,
            DeleteWorkspace, CloneWorkspace, DumpBackup, PruneBackups, FetchBackup,
            RestoreAside, RestorePublish, StepTo, OpenSteps
      <4> QED
        BY <4>2, <4>3
    <3> QED
      BY <3>1, <3>2, <3>3, <3>4 DEF Step
  <2> QED
    BY <2>1, <2>2, <2>3, <2>4
<1> QED
  BY <1>1, <1>2, <1>3, <1>4 DEF Untouched, Keeps

(* Two handlers that are past the lock work on different projects.          *)
LEMMA Apart ==
    ASSUME Guarded, NEW r \in Procs, NEW q \in Procs \ {r},
           pc[r] \in LockedSteps, pc[q] \in LockedSteps
    PROVE  proj[q] # proj[r]
  BY DEF Guarded, LockHeld

LEMMA PutRetained ==
    ASSUME "tie" \notin Faults, TypeOK, Guarded, Retained, NEW r \in Procs, PutArchive(r)
    PROVE  Retained'
<1> DEFINE n == NextName(proj[r])
           new == [name |-> n, at |-> n, data |-> tmp[r]]
<1>1. proj[r] \in Projects /\ n \in Nat /\ n = clock[proj[r]] + 1
  BY DEF TypeOK, DiskOK, ProcsOK, NextName
<1>2. Stamps(archives[proj[r]], n) = {n}
  BY DEF Stamps, Fault
<1>3. /\ clock' = [clock EXCEPT ![proj[r]] = n]
      /\ \/ archives' = archives
         \/ archives' = [archives EXCEPT ![proj[r]] = @ \cup {new}]
  BY <1>2 DEF PutArchive
<1>4. \A p \in Projects :
         /\ archives[p] \subseteq archives'[p]
         /\ p # proj[r] => archives'[p] = archives[p]
         /\ archives'[p] = archives[p] \/ archives'[p] = archives[p] \cup {new}
  BY <1>1, <1>3 DEF TypeOK, DiskOK
<1>5. ArchivesOrdered'
  <2> SUFFICES ASSUME NEW p \in Projects
               PROVE  /\ IsFiniteSet(archives'[p])
                      /\ \A a \in archives'[p] : a.at = a.name /\ a.name <= clock'[p]
    BY DEF ArchivesOrdered
  <2>1. IsFiniteSet(archives'[p])
    <3>1. IsFiniteSet(archives[p])
      BY DEF Retained, ArchivesOrdered
    <3>2. IsFiniteSet(archives[p] \cup {new})
      BY <3>1, FS_AddElement
    <3> QED
      BY <1>4, <3>1, <3>2
  <2>2. ASSUME NEW a \in archives[p] PROVE a.at = a.name /\ a.name <= clock'[p]
    <3>1. a.at = a.name /\ a.name \in Nat /\ a.name <= clock[p] /\ clock[p] \in Nat
      BY DEF Retained, ArchivesOrdered, TypeOK, DiskOK, Object
    <3>2. clock'[p] = clock[p] \/ clock'[p] = clock[p] + 1
      BY <1>1, <1>3 DEF TypeOK, DiskOK
    <3> QED
      BY <3>1, <3>2
  <2>3. p = proj[r] => new.at = new.name /\ new.name <= clock'[p]
    BY <1>1, <1>3 DEF TypeOK, DiskOK
  <2> QED
    BY <1>4, <2>1, <2>2, <2>3
<1>6. /\ pc[r] = "put"
      /\ \A p \in Projects : file'[p].archive = file[p].archive
  <2>1. UNCHANGED file \/ MarkError(r)
    BY DEF PutArchive
  <2> QED
    BY <2>1, FileKeepsArchive DEF PutArchive
<1>7. /\ \A q \in Procs \ {r} : Keeps(q)
      /\ \/ pc'[r] \notin Marked
         \/ /\ pc'[r] = "remove" /\ proj'[r] = proj[r] /\ name'[r] = n
            /\ archives'[proj[r]] = archives[proj[r]] \cup {new}
  <2>1. CASE MarkError(r)
    BY <2>1, ReturnKeeps DEF MarkError
  <2>2. CASE ~MarkError(r)
    <3>1. /\ name' = [name EXCEPT ![r] = n]
          /\ Goto(r, "remove")
          /\ UNCHANGED proj
          /\ archives' = [archives EXCEPT ![proj[r]] = @ \cup {new}]
      BY <1>2, <2>2 DEF PutArchive
    <3>2. pc'[r] = "remove" /\ \A q \in Procs \ {r} : Keeps(q)
      BY <1>1, <3>1, GotoKeeps
    <3> QED
      BY <1>1, <3>1, <3>2 DEF TypeOK, DiskOK, ProcsOK
  <2> QED
    BY <2>1, <2>2
<1>8. NewestAtHand'
  <2> SUFFICES ASSUME NEW q \in Procs
               PROVE  /\ pc'[q] \in {"remove", "mark"} => IsNewest(proj[q], name[q])'
                      /\ pc'[q] = "prune" => IsNewest(proj[q], file[proj[q]].archive)'
    BY DEF NewestAtHand
  <2>1. CASE q = r
    <3>1. ASSUME pc'[r] = "remove" PROVE IsNewest(proj[r], name[r])'
      <4>1. /\ proj'[r] = proj[r] /\ name'[r] = n
            /\ archives'[proj[r]] = archives[proj[r]] \cup {new}
        BY <1>7, <3>1 DEF Marked
      <4>2. \A a \in archives[proj[r]] : a.name <= n
        BY <1>1 DEF Retained, ArchivesOrdered, TypeOK, DiskOK, Object
      <4>3. new.name = n /\ n <= n
        BY <1>1
      <4> QED
        BY <4>1, <4>2, <4>3 DEF IsNewest
    <3> QED
      BY <1>7, <2>1, <3>1 DEF Marked
  <2>2. CASE q # r
    <3>1. Keeps(q)
      BY <1>7, <2>2
    <3>2. ASSUME pc[q] \in Marked PROVE archives'[proj[q]] = archives[proj[q]] /\ proj[q] \in Projects
      <4>1. pc[q] \in LockedSteps /\ pc[r] \in LockedSteps
        BY <1>6, <3>2 DEF Marked, LockedSteps, ArchiveSteps
      <4> QED
        BY <1>4, <2>2, <4>1, Apart DEF TypeOK, ProcsOK
    <3> QED
      BY <1>6, <3>1, <3>2 DEF Keeps, Marked, Retained, NewestAtHand, IsNewest
  <2> QED
    BY <2>1, <2>2
<1>9. ArchiveStored'
  BY <1>4, <1>6 DEF Retained, ArchiveStored
<1> QED
  BY <1>5, <1>8, <1>9 DEF Retained

LEMMA MarkRetained ==
    ASSUME TypeOK, Guarded, Retained, NEW r \in Procs, MarkArchived(r)
    PROVE  Retained'
<1>1. pc[r] = "mark" /\ UNCHANGED <<archives, clock>> /\ proj[r] \in Projects
  BY DEF MarkArchived, TypeOK, ProcsOK
<1>2. CASE UNCHANGED file /\ Abandon(r)
  <2>1. Untouched
    BY <1>1, <1>2, ReturnKeeps DEF Untouched, Keeps, Marked, TypeOK, DiskOK
  <2> QED
    BY <2>1, UntouchedRetained
<1>3. CASE ~(UNCHANGED file /\ Abandon(r))
  <2>1. /\ file' = [file EXCEPT ![proj[r]].storage = "archived",
                               ![proj[r]].archive = name[r]]
        /\ StepTo(r, "prune")
    BY <1>3 DEF MarkArchived
  <2>2. /\ file'[proj[r]].archive = name[r]
        /\ \A p \in Projects \ {proj[r]} : file'[p].archive = file[p].archive
    BY <2>1 DEF TypeOK, DiskOK, ProcsOK, StateFile
  <2>3. /\ pc'[r] = "prune" /\ UNCHANGED <<proj, name>>
        /\ \A q \in Procs \ {r} : Keeps(q)
    BY <2>1, GotoKeeps DEF StepTo
  <2>4. IsNewest(proj[r], name[r])
    BY <1>1 DEF Retained, NewestAtHand
  <2>5. ArchivesOrdered'
    BY <1>1 DEF Retained, ArchivesOrdered
  <2>6. NewestAtHand'
    <3> SUFFICES ASSUME NEW q \in Procs
                 PROVE  /\ pc'[q] \in {"remove", "mark"} => IsNewest(proj[q], name[q])'
                        /\ pc'[q] = "prune" => IsNewest(proj[q], file[proj[q]].archive)'
      BY DEF NewestAtHand
    <3>1. CASE q = r
      BY <1>1, <2>2, <2>3, <2>4, <3>1 DEF IsNewest
    <3>2. CASE q # r
      <4>1. pc[q] = "prune" => file'[proj[q]].archive = file[proj[q]].archive
        BY <1>1, <2>2, <3>2, Apart DEF LockedSteps, ArchiveSteps, TypeOK, ProcsOK
      <4> QED
        BY <1>1, <2>3, <3>2, <4>1 DEF Keeps, Retained, NewestAtHand, IsNewest
    <3> QED
      BY <3>1, <3>2
  <2>7. ArchiveStored'
    BY <1>1, <2>2, <2>4 DEF Retained, ArchiveStored, IsNewest
  <2> QED
    BY <2>5, <2>6, <2>7 DEF Retained
<1> QED
  BY <1>2, <1>3

LEMMA PruneRetained ==
    ASSUME TypeOK, Guarded, Retained, NEW r \in Procs, PruneArchives(r)
    PROVE  Retained'
<1>1. pc[r] = "prune" /\ UNCHANGED <<file, clock>> /\ proj[r] \in Projects
  BY DEF PruneArchives, TypeOK, ProcsOK
<1>2. pc'[r] \notin Marked /\ \A q \in Procs \ {r} : Keeps(q)
  BY ReturnKeeps DEF PruneArchives
<1>3. PICK kept \in Kept(archives[proj[r]], ArchiveRetention), rest \in SUBSET archives[proj[r]] :
         kept \subseteq rest /\ archives' = [archives EXCEPT ![proj[r]] = rest]
  BY DEF PruneArchives, PartlyPruned, Kept
<1>4. /\ archives'[proj[r]] = rest
      /\ \A p \in Projects \ {proj[r]} : archives'[p] = archives[p]
      /\ \A p \in Projects : archives'[p] \subseteq archives[p]
  BY <1>1, <1>3 DEF TypeOK, DiskOK
<1>5. ArchivesOrdered'
  BY <1>1, <1>4, FS_Subset DEF Retained, ArchivesOrdered
<1>6. NewestAtHand'
  <2> SUFFICES ASSUME NEW q \in Procs, pc'[q] \in Marked
               PROVE  /\ Keeps(q) /\ pc[q] \in Marked
                      /\ archives'[proj[q]] = archives[proj[q]]
    BY <1>1 DEF Retained, NewestAtHand, IsNewest, Keeps, Marked
  <2>1. q # r /\ Keeps(q)
    BY <1>2
  <2>2. pc[q] \in LockedSteps /\ pc[r] \in LockedSteps
    BY <1>1, <2>1 DEF Keeps, Marked, LockedSteps, ArchiveSteps
  <2> QED
    BY <1>4, <2>1, <2>2, Apart DEF Keeps, TypeOK, ProcsOK
<1>7. ArchiveStored'
  <2>1. PICK top \in archives[proj[r]] :
           /\ top.name = file[proj[r]].archive
           /\ \A a \in archives[proj[r]] : a.name <= top.name
    BY <1>1 DEF Retained, NewestAtHand, IsNewest
  <2>2. \E a \in kept : a.name = top.name
    BY <1>1, <1>3, <2>1, NewestKept DEF Retained, ArchivesOrdered, TypeOK, DiskOK
  <2> QED
    BY <1>1, <1>3, <1>4, <2>1, <2>2 DEF Retained, ArchiveStored
<1> QED
  BY <1>5, <1>6, <1>7 DEF Retained

LEMMA RetainedCorrect ==
    ASSUME "tie" \notin Faults
    PROVE  Spec => []Retained
<1>1. Init => Retained
  BY FS_EmptySet DEF Init, Retained, ArchivesOrdered, NewestAtHand, ArchiveStored
<1>2. TypeOK /\ Guarded /\ Retained /\ [Next]_vars => Retained'
  <2> SUFFICES ASSUME TypeOK, Guarded, Retained, [Next]_vars PROVE Retained'
    OBVIOUS
  <2>1. CASE \E r \in Procs : Step(r)
    BY <2>1, StepUntouched, UntouchedRetained, PutRetained, MarkRetained, PruneRetained
  <2>2. CASE ~\E r \in Procs : Step(r)
    <3>1. UNCHANGED <<archives, clock>>
      BY <2>2 DEF Next, Arrive, SweepList, SweepNext, Idle, Crash, vars, diskVars
    <3>2. \A p \in Projects : file'[p].archive = file[p].archive
      BY <2>2, FileKeepsArchive DEF Next, Arrive, SweepList, SweepNext, Idle, Crash, vars, diskVars
    <3>3. \A q \in Procs : Keeps(q) \/ pc'[q] \notin Marked
      <4>1. CASE Crash
        BY <4>1 DEF Crash, Marked
      <4>2. CASE ~Crash
        <5>1. UNCHANGED name
          BY <2>2, <4>2 DEF Next, Arrive, SweepList, SweepNext, Idle, vars, procVars
        <5>2. \A q \in Procs : \/ pc'[q] = pc[q] /\ proj'[q] = proj[q]
                               \/ pc'[q] \notin LockedSteps /\ pc[q] = "idle"
          BY <2>2, <4>2, BystanderEffect DEF Next
        <5> QED
          BY <5>1, <5>2 DEF Keeps, Marked, LockedSteps, ArchiveSteps
      <4> QED
        BY <4>1, <4>2
    <3>4. Untouched
      BY <3>1, <3>2, <3>3 DEF Untouched, Keeps, Marked, TypeOK, DiskOK
    <3> QED
      BY <3>4, UntouchedRetained
  <2> QED
    BY <2>1, <2>2
<1> QED
  BY <1>1, <1>2, TypeCorrect, GuardedCorrect, PTL DEF Spec

(* As long as the store's clock orders the uploads of a project, its state  *)
(* file never names an archive that is gone: pruneArchives runs under the   *)
(* lock, right after the newest archive has been recorded, and keeps at     *)
(* least that one; a backup, a clone, a restore or a crash changes nothing. *)
THEOREM ArchivesStored ==
    ASSUME "tie" \notin Faults
    PROVE  Spec => []ArchiveStored
<1>1. Retained => ArchiveStored
  BY DEF Retained
<1> QED
  BY <1>1, RetainedCorrect, PTL

-----------------------------------------------------------------------------
(* Where the files are, while nobody disturbs an archival.                  *)

\* Where a request is that ensureProjectLocal admitted to the directory.
Admitted == {"start", "attach", "run", "mkdir", "file"}

(* No lock says so, and the theorems below name it: while an exec or a      *)
(* write that was admitted is under way, nobody archives or deletes its     *)
(* project.                                                                 *)
Calm ==
    \A r, q \in Procs :
        pc[r] \in Admitted /\ pc[q] \in ArchiveSteps \cup {"rm"} => proj[q] # proj[r]

\* The routes of a clone and of the restore of a backup, which look at no
\* state file before they make a directory.
Unchecked == {"copy", "resolve", "fetch", "aside", "publish"}

Routes ==
    \A r \in Procs : op[r] \notin {"clone", "restore"} /\ pc[r] \notin Unchecked

SameWork(q) ==
    /\ pc'[q] = pc[q] /\ proj'[q] = proj[q] /\ op'[q] = op[q]
    /\ tmp'[q] = tmp[q] /\ name'[q] = name[q] /\ back'[q] = back[q]

SamePlace(p) ==
    /\ file'[p].storage = file[p].storage /\ file'[p].archive = file[p].archive
    /\ dir'[p] = dir[p] /\ mount'[p] = mount[p]
    /\ owed'[p] = owed[p] /\ archives'[p] = archives[p]

\* The ways a handler returns or goes on leave the work of others alone.
LEMMA ReturnFrame ==
    ASSUME TypeOK, NEW r \in Procs, NEW step,
           Respond(r) \/ Finish(r) \/ Abandon(r) \/ Proceed(r) \/ MarkError(r) \/ StepTo(r, step)
    PROVE  \A q \in Procs \ {r} : SameWork(q)
  BY DEF TypeOK, ProcsOK, Respond, Finish, Abandon, Proceed, MarkError, StepTo, Goto, Forget,
         SameWork

LEMMA StepOthers ==
    ASSUME TypeOK, NEW r \in Procs, Step(r)
    PROVE  \A q \in Procs \ {r} : SameWork(q)
<1>1. CASE TakeLock(r)
  BY <1>1 DEF TakeLock, Goto, TypeOK, ProcsOK, SameWork
<1>2. CASE Archiving(r)
  BY <1>2, ReturnFrame
  DEF Archiving, BeginArchive, QuiesceArchive, WriteTar, PutArchive, RemoveLocal, MarkArchived,
      PruneArchives, Goto, TypeOK, ProcsOK, SameWork
<1>3. CASE Restoring(r)
  BY <1>3, ReturnFrame
  DEF Restoring, EnsureLocal, GetArchive, SwapOut, SwapIn, MarkLocal, MoveAside, Goto, TypeOK,
      ProcsOK, SameWork
<1>4. CASE Operating(r)
  BY <1>4, ReturnFrame
  DEF Operating, StartContainer, RunCommand, EnsureWorkspace, WriteFile, StopContainer,
      DeleteWorkspace, CloneWorkspace, DumpBackup, PruneBackups, ResolveBackup, FetchBackup,
      RestoreAside, RestorePublish, MoveAside, Goto, TypeOK, ProcsOK, SameWork
<1> QED
  BY <1>1, <1>2, <1>3, <1>4 DEF Step

LEMMA StepElsewhere ==
    ASSUME TypeOK, Routes, NEW r \in Procs, Step(r), NEW p \in Projects \ {proj[r]}
    PROVE  SamePlace(p)
<1> USE DEF SamePlace
<1>0. proj[r] \in Projects /\ pc[r] \notin Unchecked
  BY DEF TypeOK, ProcsOK, Routes
<1>1. MarkError(r) => file'[p].storage = file[p].storage /\ file'[p].archive = file[p].archive
  BY <1>0 DEF MarkError, TypeOK, DiskOK
<1>2. RemoveDir(proj[r]) \/ RemoveSome(proj[r]) => dir'[p] = dir[p] /\ mount'[p] = mount[p]
  BY <1>0 DEF RemoveDir, RemoveSome, TypeOK, DiskOK
<1>3. CASE TakeLock(r)
  BY <1>3 DEF TakeLock, diskVars
<1>4. CASE Archiving(r)
  BY <1>0, <1>1, <1>2, <1>4
  DEF Archiving, BeginArchive, QuiesceArchive, WriteTar, PutArchive, RemoveLocal, MarkArchived,
      PruneArchives, TypeOK, DiskOK
<1>5. CASE Restoring(r)
  BY <1>0, <1>1, <1>2, <1>5
  DEF Restoring, EnsureLocal, GetArchive, SwapOut, SwapIn, MarkLocal, MoveAside, PublishDir,
      RollBack, TypeOK, DiskOK
<1>6. CASE Operating(r)
  BY <1>0, <1>2, <1>6
  DEF Operating, StartContainer, RunCommand, EnsureWorkspace, WriteFile, StopContainer,
      DeleteWorkspace, CloneWorkspace, DumpBackup, PruneBackups, ResolveBackup, FetchBackup,
      RestoreAside, RestorePublish, diskVars, Unchecked, TypeOK, DiskOK
<1> QED
  BY <1>3, <1>4, <1>5, <1>6 DEF Step

LEMMA RoutesCorrect ==
    ASSUME Ops \cap {"clone", "restore"} = {}
    PROVE  Spec => []Routes
<1>1. Init => Routes
  BY DEF Init, Routes, Unchecked
<1>2. ASSUME TypeOK, Routes, [Next]_vars
      PROVE  Routes'
  <2>1. ASSUME NEW r \in Procs, Step(r)
        PROVE  Routes'
    <3>1. \A q \in Procs \ {r} : op'[q] = op[q] /\ pc'[q] = pc[q]
      BY <2>1, <1>2, StepOthers DEF SameWork
    <3>2. op'[r] \notin {"clone", "restore"}
      BY <1>2, <2>1
      DEF Step, TakeLock, Archiving, Restoring, Operating, BeginArchive, QuiesceArchive, WriteTar,
          PutArchive, RemoveLocal, MarkArchived, PruneArchives, EnsureLocal, GetArchive, SwapOut,
          SwapIn, MarkLocal, StartContainer, RunCommand, EnsureWorkspace, WriteFile,
          StopContainer, DeleteWorkspace, CloneWorkspace, DumpBackup, PruneBackups,
          ResolveBackup, FetchBackup, RestoreAside, RestorePublish, Respond, Finish, Abandon,
          Proceed, MarkError, StepTo, Forget, Routes, TypeOK, ProcsOK
    <3>3. pc'[r] \notin Unchecked
      <4>1. /\ Body(op[r]) \in {"start", "mkdir", "stop", "idle"}
            /\ AfterStop(op[r]) \notin Unchecked
        BY <1>2 DEF Body, AfterStop, Routes, Unchecked
      <4>2. pc[r] \notin Unchecked
        BY <1>2 DEF Routes
      <4> QED
        BY <1>2, <2>1, <4>1, <4>2
        DEF Step, TakeLock, Archiving, Restoring, Operating, BeginArchive, QuiesceArchive,
            WriteTar, PutArchive, RemoveLocal, MarkArchived, PruneArchives, EnsureLocal,
            GetArchive, SwapOut, SwapIn, MarkLocal, StartContainer, RunCommand,
            EnsureWorkspace, WriteFile, StopContainer, DeleteWorkspace, CloneWorkspace,
            DumpBackup, PruneBackups, ResolveBackup, FetchBackup, RestoreAside, RestorePublish,
            Respond, Finish, Abandon, Proceed, MarkError, StepTo, Goto, Unchecked, TypeOK, ProcsOK
    <3> QED
      BY <1>2, <3>1, <3>2, <3>3 DEF Routes
  <2>2. ASSUME NEW r \in Requests, Arrive(r)
        PROVE  Routes'
    <3>1. PICK o \in Ops : op' = [op EXCEPT ![r] = o] /\ pc' = [pc EXCEPT ![r] = FirstStep(o)]
      BY <2>2 DEF Arrive, Goto
    <3>2. o \notin {"clone", "restore"} /\ FirstStep(o) \notin Unchecked
      BY DEF FirstStep, Unchecked
    <3> QED
      BY <1>2, <3>1, <3>2 DEF Routes, TypeOK, ProcsOK
  <2>3. CASE \/ \E s \in Sweepers : SweepList(s) \/ SweepNext(s)
             \/ \E p \in Projects : Idle(p)
             \/ UNCHANGED vars
    BY <1>2, <2>3 DEF SweepList, SweepNext, Idle, Goto, vars, procVars, Routes, Unchecked, TypeOK,
                      ProcsOK
  <2>4. CASE Crash
    BY <2>4 DEF Crash, Routes, Unchecked
  <2> QED
    BY <1>2, <2>1, <2>2, <2>3, <2>4 DEF Next
<1> QED
  BY <1>1, <1>2, TypeCorrect, PTL DEF Spec

(* OneHome and Attached with what each handler relies on: an archived       *)
(* project has neither a directory nor a container from the steps of its    *)
(* archival on, and a restore finds it so.                                  *)
PlaceOK(p) ==
    /\ file[p].storage = "archived" => dir[p] = NoDir
    /\ file[p].storage \in {"archived", "restoring"} => mount[p] = "none"
    /\ mount[p] # "stale"

AtPlace(r) ==
    /\ back[r] = NoDir
    /\ pc[r] \in Admitted => file[proj[r]].storage = "local"
    /\ pc[r] \in {"rm", "tar", "put", "remove", "mark"} => mount[proj[r]] = "none"
    /\ pc[r] \in {"mark", "get", "swapout", "swapin"} => dir[proj[r]] = NoDir

Placed == (\A p \in Projects : PlaceOK(p)) /\ (\A r \in Procs : AtPlace(r))

LEMMA PlacedInit == Init => Placed
  BY StorageAssumption DEF Init, Placed, PlaceOK, AtPlace, Admitted

\* Whoever answers relies on nothing any more.
LEMMA ReturnPlace ==
    ASSUME TypeOK, NEW r \in Procs, Respond(r) \/ Finish(r) \/ Abandon(r)
    PROVE  pc'[r] = "idle" /\ back'[r] = NoDir
  BY DEF TypeOK, ProcsOK, Respond, Finish, Abandon, Goto, Forget

(* A step outside of the critical section, on a project in no transition it *)
(* would matter to.                                                         *)
LEMMA OpenPlace ==
    ASSUME TypeOK, Routes, Placed, NEW r \in Procs, Operating(r), pc[r] \notin Admitted
    PROVE  LET p == proj[r] IN
           /\ UNCHANGED file
           /\ dir[p] = NoDir => dir'[p] = NoDir
           /\ mount'[p] \in {mount[p], "none"}
           /\ back'[r] = NoDir
           /\ pc'[r] \in {"idle", "dump", "rotate", "rm"}
           /\ pc'[r] = "rm" => mount'[p] = "none" /\ proj'[r] = p
<1> DEFINE p == proj[r]
<1>1. /\ p \in Projects /\ pc[r] \notin Unchecked /\ op[r] \notin {"clone", "restore"}
      /\ back[r] = NoDir /\ mount[p] # "stale" /\ (pc[r] = "rm" => mount[p] = "none")
  BY DEF TypeOK, ProcsOK, Routes, Placed, PlaceOK, AtPlace
<1>2. AfterStop(op[r]) \in {"rm", "dump", "idle"}
  BY <1>1 DEF AfterStop
<1>3. CASE StopContainer(r)
  BY <1>1, <1>2, <1>3, ReturnPlace DEF StopContainer, StepTo, Goto, TypeOK, DiskOK, ProcsOK
<1>4. CASE DeleteWorkspace(r)
  BY <1>1, <1>4, ReturnPlace
  DEF DeleteWorkspace, RemoveDir, RemoveSome, Detached, TypeOK, DiskOK, ProcsOK
<1>5. CASE DumpBackup(r)
  BY <1>1, <1>5, ReturnPlace DEF DumpBackup, StepTo, Goto, TypeOK, DiskOK, ProcsOK
<1>6. CASE PruneBackups(r)
  BY <1>1, <1>6, ReturnPlace DEF PruneBackups
<1> QED
  BY <1>1, <1>3, <1>4, <1>5, <1>6
  DEF Operating, StartContainer, RunCommand, EnsureWorkspace, WriteFile, CloneWorkspace,
      ResolveBackup, FetchBackup, RestoreAside, RestorePublish, Admitted, Unchecked

\* A step of a request that was admitted.
LEMMA AdmittedPlace ==
    ASSUME TypeOK, Placed, NEW r \in Procs, Operating(r), pc[r] \in Admitted
    PROVE  LET p == proj[r] IN
           /\ UNCHANGED file
           /\ file[p].storage = "local"
           /\ mount'[p] \in {mount[p], "live"}
           /\ back'[r] = NoDir
           /\ pc'[r] # "idle" => pc'[r] \in Admitted /\ proj'[r] = p
<1> DEFINE p == proj[r]
<1>1. p \in Projects /\ back[r] = NoDir /\ file[p].storage = "local"
  BY DEF TypeOK, ProcsOK, Placed, AtPlace
<1> QED
  BY <1>1, ReturnPlace
  DEF Operating, StartContainer, RunCommand, EnsureWorkspace, WriteFile, StopContainer,
      DeleteWorkspace, CloneWorkspace, DumpBackup, PruneBackups, ResolveBackup, FetchBackup,
      RestoreAside, RestorePublish, StepTo, Goto, Admitted, TypeOK, DiskOK, ProcsOK

\* A transition that ends in error, or in nothing that is recorded.
LEMMA MarkErrorPlace ==
    ASSUME TypeOK, NEW r \in Procs, MarkError(r)
    PROVE  /\ file'[proj[r]].storage \in {"error", file[proj[r]].storage}
           /\ pc'[r] = "idle" /\ back'[r] = NoDir
  BY ReturnPlace DEF MarkError, TypeOK, DiskOK, ProcsOK, StateFile

LEMMA ProceedPlace ==
    ASSUME TypeOK, Placed, NEW r \in Procs, Proceed(r)
    PROVE  /\ pc'[r] \in {"idle", "start", "mkdir", "stop"}
           /\ back'[r] = NoDir
           /\ pc'[r] # "idle" => proj'[r] = proj[r]
<1>1. Body(op[r]) \in {"start", "mkdir", "stop", "idle"}
  BY DEF Body
<1>2. CASE Body(op[r]) = "idle"
  BY <1>2, ReturnPlace DEF Proceed
<1>3. CASE Body(op[r]) # "idle"
  BY <1>1, <1>3 DEF Proceed, Goto, Placed, AtPlace, TypeOK, ProcsOK
<1> QED
  BY <1>2, <1>3

(* The steps of an archival: where the project is while each of them has to *)
(* find it, and what each leaves.                                           *)
LEMMA ArchivingPlace ==
    ASSUME TypeOK, Guarded, Placed, NEW r \in Procs, NEW p \in Projects, p = proj[r],
           Archiving(r)
    PROVE  /\ PlaceOK(p)' /\ AtPlace(r)'
           /\ mount[p] = "none" => mount'[p] = "none"
<1>1. /\ PlaceOK(p) /\ AtPlace(r)
      /\ (pc[r] \in ArchiveSteps => file[p].storage = "archiving")
  BY DEF TypeOK, ProcsOK, Placed, Guarded, PhaseRecorded
<1>2. /\ file \in [Projects -> StateFile] /\ dir \in [Projects -> Directory]
      /\ mount \in [Projects -> {"none", "live", "stale"}]
      /\ pc \in [Procs -> LockedSteps \cup OpenSteps]
      /\ back \in [Procs -> Directory]
  BY DEF TypeOK, DiskOK, ProcsOK
<1> USE DEF Admitted, StepTo, Goto
<1>3. CASE BeginArchive(r)
  BY <1>1, <1>2, <1>3, ReturnPlace DEF BeginArchive, StateFile, PlaceOK, AtPlace
<1>4. CASE QuiesceArchive(r)
  BY <1>1, <1>2, <1>4, MarkErrorPlace DEF QuiesceArchive, ArchiveSteps, PlaceOK, AtPlace
<1>5. CASE WriteTar(r)
  BY <1>1, <1>2, <1>5, MarkErrorPlace DEF WriteTar, ArchiveSteps, PlaceOK, AtPlace
<1>6. CASE PutArchive(r)
  <2>1. /\ pc[r] = "put" /\ dir' = dir /\ mount' = mount
        /\ MarkError(r) \/ (UNCHANGED <<file, proj, back>> /\ pc' = [pc EXCEPT ![r] = "remove"])
    BY <1>6 DEF PutArchive
  <2> QED
    BY <1>1, <1>2, <2>1, MarkErrorPlace DEF ArchiveSteps, PlaceOK, AtPlace
<1>7. CASE RemoveLocal(r)
  <2>1. CASE RemoveDir(p) /\ StepTo(r, "mark") /\ UNCHANGED file
    BY <1>1, <1>2, <1>7, <2>1
    DEF RemoveLocal, RemoveDir, Detached, ArchiveSteps, PlaceOK, AtPlace
  <2>2. CASE RemoveSome(p) /\ MarkError(r)
    <3>1. mount'[p] = "none"
      BY <1>1, <1>2, <1>7, <2>2 DEF RemoveLocal, RemoveSome, RemoveDir, Detached, AtPlace
    <3> QED
      BY <1>1, <1>7, <2>2, <3>1, MarkErrorPlace DEF RemoveLocal, ArchiveSteps, PlaceOK, AtPlace
  <2> QED
    BY <1>7, <2>1, <2>2 DEF RemoveLocal
<1>8. CASE MarkArchived(r)
  <2>1. /\ pc[r] = "mark" /\ dir'[p] = NoDir /\ mount'[p] = "none" /\ back[r] = NoDir
        /\ Abandon(r) \/ (StepTo(r, "prune"))
    BY <1>1, <1>8 DEF MarkArchived, AtPlace
  <2> QED
    BY <1>2, <2>1, ReturnPlace DEF PlaceOK, AtPlace
<1>9. CASE PruneArchives(r)
  BY <1>1, <1>9, ReturnPlace DEF PruneArchives, PlaceOK, AtPlace
<1> QED
  BY <1>3, <1>4, <1>5, <1>6, <1>7, <1>8, <1>9 DEF Archiving

LEMMA RestoringPlace ==
    ASSUME TypeOK, Guarded, Placed, NEW r \in Procs, NEW p \in Projects, p = proj[r],
           Restoring(r)
    PROVE  /\ PlaceOK(p)' /\ AtPlace(r)'
           /\ mount[p] = "none" => mount'[p] = "none"
<1>1. /\ PlaceOK(p) /\ AtPlace(r)
      /\ (pc[r] \in RestoreSteps => file[p].storage = "restoring" /\ mount[p] = "none")
  BY DEF TypeOK, ProcsOK, Placed, PlaceOK, Guarded, PhaseRecorded
<1>2. /\ file \in [Projects -> StateFile] /\ dir \in [Projects -> Directory]
      /\ mount \in [Projects -> {"none", "live", "stale"}]
      /\ pc \in [Procs -> LockedSteps \cup OpenSteps]
      /\ back \in [Procs -> Directory]
  BY DEF TypeOK, DiskOK, ProcsOK
<1> USE DEF Admitted
<1>3. CASE EnsureLocal(r)
  <2>1. /\ pc[r] = "ensure" /\ dir' = dir /\ mount' = mount
    BY <1>3 DEF EnsureLocal
  <2>2. CASE file[p].storage = "local" /\ file' = [file EXCEPT ![p].last = "recent"] /\ Proceed(r)
    <3>1. file'[p].storage = "local"
      BY <1>1, <1>2, <2>2 DEF StateFile
    <3> QED
      BY <1>1, <2>1, <2>2, <3>1, ProceedPlace DEF PlaceOK, AtPlace
  <2>3. CASE Abandon(r) /\ UNCHANGED file
    BY <1>1, <2>1, <2>3, ReturnPlace DEF PlaceOK, AtPlace
  <2>4. CASE /\ file[p].storage = "archived"
             /\ file' = [file EXCEPT ![p].storage = "restoring"]
             /\ StepTo(r, "get")
    <3>1. file'[p].storage = "restoring" /\ pc'[r] = "get" /\ proj'[r] = p /\ back'[r] = NoDir
      BY <1>1, <1>2, <2>4 DEF StateFile, StepTo, Goto, AtPlace
    <3> QED
      BY <1>1, <2>1, <2>4, <3>1 DEF PlaceOK, AtPlace
  <2> QED
    BY <1>3, <2>2, <2>3, <2>4 DEF EnsureLocal
<1>4. CASE GetArchive(r)
  <2>1. /\ pc[r] = "get" /\ dir' = dir /\ mount' = mount
        /\ \/ MarkError(r)
           \/ UNCHANGED <<file, proj, back>> /\ pc' = [pc EXCEPT ![r] = "swapout"]
    BY <1>4 DEF GetArchive, Goto
  <2> QED
    BY <1>1, <1>2, <2>1, MarkErrorPlace DEF RestoreSteps, PlaceOK, AtPlace
<1>5. CASE SwapOut(r)
  <2>1. CASE MoveAside(r)
    <3>1. /\ dir'[p] = NoDir /\ mount'[p] = "none" /\ back'[r] = NoDir
      BY <1>1, <1>2, <1>5, <2>1 DEF SwapOut, MoveAside, RemoveDir, Detached, RestoreSteps, AtPlace
    <3>2. MarkError(r) \/ (UNCHANGED <<file, proj>> /\ pc' = [pc EXCEPT ![r] = "swapin"])
      BY <1>5 DEF SwapOut, Goto
    <3> QED
      BY <1>1, <1>2, <1>5, <3>1, <3>2, MarkErrorPlace DEF SwapOut, RestoreSteps, PlaceOK, AtPlace
  <2>2. CASE MarkError(r) /\ UNCHANGED <<dir, mount>>
    BY <1>1, <1>5, <2>2, MarkErrorPlace DEF SwapOut, RestoreSteps, PlaceOK, AtPlace
  <2> QED
    BY <1>5, <2>1, <2>2 DEF SwapOut
<1>6. CASE SwapIn(r)
  <2>1. mount' = mount
    BY <1>1, <1>6 DEF SwapIn, PublishDir, RollBack, AtPlace
  <2>2. \/ MarkError(r)
        \/ UNCHANGED <<file, proj>> /\ pc'[r] = "local" /\ back'[r] = NoDir
    BY <1>2, <1>6 DEF SwapIn, Goto
  <2> QED
    BY <1>1, <1>6, <2>1, <2>2, MarkErrorPlace DEF SwapIn, RestoreSteps, PlaceOK, AtPlace
<1>7. CASE MarkLocal(r)
  <2>1. /\ pc[r] = "local" /\ dir' = dir /\ mount' = mount
    BY <1>7 DEF MarkLocal
  <2>2. CASE Proceed(r) /\ file' = [file EXCEPT ![p].storage = "local", ![p].last = "recent"]
    <3>1. file'[p].storage = "local"
      BY <1>1, <1>2, <2>2 DEF StateFile
    <3> QED
      BY <1>1, <2>1, <2>2, <3>1, ProceedPlace DEF PlaceOK, AtPlace
  <2>3. CASE Abandon(r) /\ UNCHANGED file
    BY <1>1, <2>1, <2>3, ReturnPlace DEF PlaceOK, AtPlace
  <2> QED
    BY <1>7, <2>2, <2>3 DEF MarkLocal
<1> QED
  BY <1>3, <1>4, <1>5, <1>6, <1>7 DEF Restoring

\* The step of a handler, and what it does to the others at its project.
LEMMA StepPlace ==
    ASSUME TypeOK, Guarded, Routes, Placed, Calm, NEW r \in Procs, NEW p \in Projects,
           p = proj[r], Step(r)
    PROVE  /\ PlaceOK(p)' /\ AtPlace(r)'
           /\ pc[r] \notin Admitted /\ mount[p] = "none" => mount'[p] = "none"
           /\ pc[r] \in OpenSteps /\ dir[p] = NoDir =>
                 dir'[p] = NoDir \/ file[p].storage = "local"
<1>1. PlaceOK(p) /\ AtPlace(r)
  BY DEF Placed
<1>2. CASE TakeLock(r)
  <2>1. /\ pc'[r] \in {"archive", "ensure"} /\ UNCHANGED <<file, dir, mount, back, proj>>
    BY <1>2 DEF TakeLock, Goto, diskVars, TypeOK, ProcsOK
  <2> QED
    BY <1>1, <2>1 DEF PlaceOK, AtPlace, Admitted
<1>3. CASE Archiving(r)
  BY <1>3, ArchivingPlace
  DEF Archiving, BeginArchive, QuiesceArchive, WriteTar, PutArchive, RemoveLocal, MarkArchived,
      PruneArchives, OpenSteps
<1>4. CASE Restoring(r)
  BY <1>4, RestoringPlace
  DEF Restoring, EnsureLocal, GetArchive, SwapOut, SwapIn, MarkLocal, OpenSteps
<1>5. CASE Operating(r) /\ pc[r] \notin Admitted
  BY <1>1, <1>5, OpenPlace DEF PlaceOK, AtPlace, Admitted
<1>6. CASE Operating(r) /\ pc[r] \in Admitted
  BY <1>1, <1>6, AdmittedPlace DEF PlaceOK, AtPlace, Admitted
<1> QED
  BY <1>2, <1>3, <1>4, <1>5, <1>6 DEF Step

\* What the project's other handlers do meanwhile.
LEMMA OthersAtPlace ==
    ASSUME TypeOK, Guarded, Routes, Placed, Calm, Calm', NEW r \in Procs, Step(r),
           NEW q \in Procs \ {r}
    PROVE  AtPlace(q)'
<1> DEFINE p == proj[q]
<1>1. SameWork(q) /\ p \in Projects /\ AtPlace(q)
  BY StepOthers DEF TypeOK, ProcsOK, Placed
<1>2. CASE proj[r] # p
  BY <1>1, <1>2, StepElsewhere DEF SameWork, SamePlace, AtPlace
<1>3. CASE proj[r] = p
  <2>1. Effect(r)
    BY StepEffect
  <2>2. ASSUME pc[q] \in Admitted
        PROVE  file'[p].storage = "local"
    <3>1. file[p].storage = "local"
      BY <1>1, <2>2 DEF AtPlace
    <3>2. /\ pc[r] \notin ArchiveSteps \cup RestoreSteps
      BY <1>3, <3>1 DEF Guarded, PhaseRecorded
    <3>3. ~(pc'[r] \in ArchiveSteps /\ proj'[r] = p)
      BY <1>1, <2>2 DEF Calm, SameWork
    <3>4. pc[r] \in LockedSteps /\ pc[r] \notin ArchiveSteps \cup RestoreSteps
             => pc[r] \in {"archive", "ensure", "prune"}
      BY DEF LockedSteps
    <3> QED
      BY <1>3, <2>1, <3>1, <3>2, <3>3, <3>4
      DEF Effect, Outside, Enters, Inside, Leaves, Stays, ArchiveSteps
  <2>3. ASSUME pc[q] \in {"rm", "tar", "put", "remove", "mark"}
        PROVE  mount'[p] = "none"
    <3>1. pc[r] \notin Admitted
      BY <1>3, <2>3 DEF Calm, ArchiveSteps
    <3> QED
      BY <1>1, <1>3, <2>3, <3>1, StepPlace DEF AtPlace
  <2>4. ASSUME pc[q] \in {"mark", "get", "swapout", "swapin"}
        PROVE  dir'[p] = NoDir
    <3>1. pc[q] \in LockedSteps /\ file[p].storage # "local" /\ dir[p] = NoDir
      BY <1>1, <2>4
      DEF Guarded, PhaseRecorded, AtPlace, LockedSteps, ArchiveSteps, RestoreSteps
    <3>2. pc[r] \notin LockedSteps
      BY <1>3, <3>1, Apart
    <3>3. pc[r] \in OpenSteps
      BY <3>2 DEF TypeOK, ProcsOK
    <3> QED
      BY <1>1, <1>3, <3>1, <3>3, StepPlace
  <2> QED
    BY <1>1, <2>2, <2>3, <2>4 DEF SameWork, AtPlace
<1> QED
  BY <1>2, <1>3

LEMMA PlacedStep ==
    ASSUME TypeOK, Guarded, Routes, Placed, Calm, Calm', [Next]_vars
    PROVE  Placed'
<1>1. ASSUME NEW r \in Procs, Step(r)
      PROVE  Placed'
  <2>1. proj[r] \in Projects
    BY DEF TypeOK, ProcsOK
  <2>2. \A p \in Projects : PlaceOK(p)'
    BY <1>1, <2>1, StepPlace, StepElsewhere DEF Placed, PlaceOK, SamePlace
  <2>3. \A q \in Procs : AtPlace(q)'
    BY <1>1, <2>1, StepPlace, OthersAtPlace
  <2> QED
    BY <2>2, <2>3 DEF Placed
<1>2. CASE Crash
  <2>1. /\ UNCHANGED <<file, mount>>
        /\ \A p \in Projects : dir[p] = NoDir => dir'[p] = NoDir
        /\ \A r \in Procs : pc'[r] = "idle" /\ back'[r] = NoDir
    BY <1>2 DEF Crash
  <2> QED
    BY <2>1 DEF Placed, PlaceOK, AtPlace, Admitted
<1>3. CASE ~Crash /\ ~\E r \in Procs : Step(r)
  <2>1. /\ \A p \in Projects : file'[p].storage = file[p].storage
        /\ \A q \in Procs : \/ pc'[q] = pc[q] /\ proj'[q] = proj[q]
                            \/ pc'[q] \notin LockedSteps /\ pc[q] = "idle"
    BY <1>3, BystanderEffect DEF Next, Stays
  <2>2. UNCHANGED <<dir, mount, back>>
    BY <1>3 DEF Next, Arrive, SweepList, SweepNext, Idle, vars, diskVars, procVars
  <2>3. \A q \in Procs : pc[q] = "idle" /\ pc'[q] # pc[q] => pc'[q] \in {"lock", "stop", "resolve"}
    BY <1>3 DEF Next, Arrive, SweepList, SweepNext, Idle, vars, procVars, FirstStep, Goto, TypeOK,
                ProcsOK
  <2>4. ASSUME NEW q \in Procs
        PROVE  AtPlace(q)'
    <3>1. proj[q] \in Projects /\ AtPlace(q)
      BY DEF TypeOK, ProcsOK, Placed
    <3>2. CASE pc'[q] = pc[q] /\ proj'[q] = proj[q]
      BY <2>1, <2>2, <3>1, <3>2 DEF AtPlace
    <3>3. CASE pc'[q] \in {"idle", "lock", "stop", "resolve"}
      BY <2>2, <3>1, <3>3 DEF AtPlace, Admitted
    <3> QED
      BY <2>1, <2>3, <3>2, <3>3
  <2> QED
    BY <2>1, <2>2, <2>4 DEF Placed, PlaceOK
<1> QED
  BY <1>1, <1>2, <1>3

LEMMA PlacedCorrect ==
    ASSUME Ops \cap {"clone", "restore"} = {}
    PROVE  Spec /\ []Calm => []Placed
<1>1. TypeOK /\ Guarded /\ Routes /\ Placed /\ Calm /\ Calm' /\ [Next]_vars => Placed'
  BY PlacedStep
<1> QED
  BY <1>1, PlacedInit, TypeCorrect, GuardedCorrect, RoutesCorrect, PTL DEF Spec

(* While admitted requests do not meet an archival or a deletion of their   *)
(* project, an archived project has no directory, whatever fails and        *)
(* wherever the service dies: a request that is admitted afterwards has the *)
(* archive put back first (archiveProject, ensureProjectLocalLocked).       *)
THEOREM ArchivedHasOneHome ==
    ASSUME Ops \cap {"clone", "restore"} = {}
    PROVE  Spec /\ []Calm => []OneHome
<1>1. Placed => OneHome
  BY DEF Placed, PlaceOK, OneHome
<1> QED
  BY <1>1, PlacedCorrect, PTL

(* Under the same condition no directory is removed or moved from under the *)
(* container that runs on it: every handler that does so has stopped it     *)
(* (archiveProject, handleDeleteProject, restoreBackup).                    *)
THEOREM ContainersAttached ==
    ASSUME Ops \cap {"clone", "restore"} = {}
    PROVE  Spec /\ []Calm => []Attached
<1>1. Placed => Attached
  BY DEF Placed, PlaceOK, Attached
<1> QED
  BY <1>1, PlacedCorrect, PTL

-----------------------------------------------------------------------------
(* That some copy is whole.                                                 *)

USE DEF Due, Regular

ArchiveWhole(p, n) ==
    \E a \in archives[p] : a.name = n /\ a.data # Torn /\ Due(p) \subseteq a.data

SomeWhole(p) == \E a \in archives[p] : a.data # Torn /\ Due(p) \subseteq a.data

\* The directory is.
Hot(p) == Due(p) \subseteq Made(dir[p])

\* A failed restore leaves no directory; its archive is still there.
Left(p) == Hot(p) \/ (dir[p] = NoDir /\ SomeWhole(p))

(* Which copy it is, by what the state file says.                           *)
CopyOK(p) ==
    /\ file[p].storage = "local" => Hot(p)
    /\ file[p].storage = "archiving" => Hot(p) \/ SomeWhole(p)
    /\ file[p].storage \in {"archived", "restoring"} => ArchiveWhole(p, file[p].archive)
    /\ file[p].storage = "error" => Left(p)
    /\ \A a \in archives[p] : a.name # 0 /\ \A b \in archives[p] : a.name = b.name => a = b

(* What a handler has of it in its hands.                                   *)
InHand(r) ==
    LET p == proj[r] IN
    /\ pc[r] = "rm" => owed[p] = {}
    /\ pc[r] \in {"quiesce", "tar"} => Left(p)
    /\ pc[r] \in {"put", "remove", "local"} => Hot(p)
    /\ pc[r] \in {"put", "swapout", "swapin"} =>
          tmp[r] \in SUBSET Writes /\ Due(p) \subseteq tmp[r]
    /\ pc[r] \in {"remove", "mark"} => ArchiveWhole(p, name[r])
    /\ pc[r] = "prune" => file[p].storage = "archived"

Copied == (\A p \in Projects : CopyOK(p)) /\ (\A r \in Procs : InHand(r))

LEMMA CopiedInit == Init => Copied
<1> SUFFICES ASSUME Init PROVE Copied
  OBVIOUS
<1>1. ASSUME NEW p \in Projects
      PROVE  CopyOK(p)
  BY StorageAssumption DEF Init, CopyOK, Hot, Made
<1>2. ASSUME NEW r \in Procs
      PROVE  InHand(r)
  BY DEF Init, InHand
<1> QED
  BY <1>1, <1>2 DEF Copied

LEMMA SameCopies ==
    ASSUME NEW p, dir'[p] = dir[p], owed'[p] = owed[p], archives'[p] = archives[p]
    PROVE  /\ Hot(p)' <=> Hot(p)
           /\ SomeWhole(p)' <=> SomeWhole(p)
           /\ Left(p)' <=> Left(p)
           /\ \A n : ArchiveWhole(p, n)' <=> ArchiveWhole(p, n)
  BY DEF Hot, SomeWhole, Left, ArchiveWhole

LEMMA SameCopyOK ==
    ASSUME NEW p, CopyOK(p), dir'[p] = dir[p], owed'[p] = owed[p], archives'[p] = archives[p],
           file'[p].storage = file[p].storage, file'[p].archive = file[p].archive
    PROVE  CopyOK(p)'
  BY SameCopies DEF CopyOK, ArchiveWhole

\* Whose clients expect nothing more loses nothing.
LEMMA LessOwed ==
    ASSUME NEW p, archives'[p] = archives[p],
           \/ owed'[p] = owed[p] /\ dir'[p] = dir[p]
           \/ owed'[p] = {} /\ dir'[p] \in {dir[p], NoDir}
    PROVE  /\ Hot(p) => Hot(p)'
           /\ SomeWhole(p) => SomeWhole(p)'
           /\ Left(p) => Left(p)'
<1>1. CASE owed'[p] = owed[p] /\ dir'[p] = dir[p]
  BY <1>1, SameCopies
<1>2. CASE owed'[p] = {}
  BY <1>2 DEF Hot, SomeWhole, Left
<1> QED
  BY <1>1, <1>2

(* A step outside of the critical section.                                  *)
LEMMA OpenCopies ==
    ASSUME "delete" \notin Faults, TypeOK, Routes, Copied, NEW r \in Procs, NEW p \in Projects,
           p = proj[r], Operating(r), pc[r] \notin Admitted
    PROVE  /\ UNCHANGED <<file, archives>>
           /\ \/ owed'[p] = owed[p] /\ dir'[p] = dir[p]
              \/ owed'[p] = {} /\ dir'[p] \in {dir[p], NoDir}
           /\ InHand(r)'
<1>1. /\ pc[r] \notin Unchecked /\ op[r] \notin {"clone", "restore"}
      /\ (pc[r] = "rm" => owed[p] = {})
  BY DEF Routes, Copied, InHand
<1>2. /\ dir \in [Projects -> Directory] /\ owed \in [Projects -> SUBSET Writes]
      /\ pc \in [Procs -> LockedSteps \cup OpenSteps]
  BY DEF TypeOK, DiskOK, ProcsOK
<1>3. CASE StopContainer(r)
  <2>1. AfterStop(op[r]) \in {"rm", "dump", "idle"} /\ (AfterStop(op[r]) = "rm" => op[r] = "delete")
    BY <1>1 DEF AfterStop
  <2>2. /\ UNCHANGED <<file, archives, dir>>
        /\ owed'[p] \in {owed[p], {}}
    BY <1>2, <1>3 DEF StopContainer
  <2>3. /\ pc'[r] \in {"rm", "dump", "idle"}
        /\ pc'[r] = "rm" => owed'[p] = {} /\ proj' = proj
    BY <1>2, <1>3, <2>1, ReturnPlace DEF StopContainer, StepTo, Goto
  <2> QED
    BY <2>2, <2>3 DEF InHand
<1>4. CASE DeleteWorkspace(r)
  <2>1. /\ UNCHANGED <<file, archives, owed>> /\ owed[p] = {} /\ dir'[p] = NoDir /\ pc'[r] = "idle"
    BY <1>1, <1>2, <1>4, ReturnPlace DEF DeleteWorkspace, RemoveDir, Fault
  <2> QED
    BY <2>1 DEF InHand
<1>5. CASE DumpBackup(r) \/ PruneBackups(r)
  <2>1. UNCHANGED <<file, archives, owed, dir>> /\ pc'[r] \in {"idle", "rotate"}
    BY <1>2, <1>5, ReturnPlace DEF DumpBackup, PruneBackups, StepTo, Goto
  <2> QED
    BY <2>1 DEF InHand
<1> QED
  BY <1>1, <1>3, <1>4, <1>5
  DEF Operating, StartContainer, RunCommand, EnsureWorkspace, WriteFile, CloneWorkspace,
      ResolveBackup, FetchBackup, RestoreAside, RestorePublish, Admitted, Unchecked

\* What an admitted request writes is owed and is in the directory.
LEMMA AdmittedCopies ==
    ASSUME TypeOK, Placed, Copied, NEW r \in Procs, NEW p \in Projects, p = proj[r],
           Operating(r), pc[r] \in Admitted
    PROVE  UNCHANGED <<file, archives>> /\ Hot(p)' /\ InHand(r)'
<1>1. file[p].storage = "local" /\ Hot(p)
  BY DEF Placed, AtPlace, Copied, CopyOK
<1>2. dir \in [Projects -> Directory] /\ owed \in [Projects -> SUBSET Writes]
  BY DEF TypeOK, DiskOK
<1>3. UNCHANGED <<file, archives>> /\ pc'[r] \in Admitted \cup {"idle"}
  BY AdmittedPlace
  DEF Operating, StartContainer, RunCommand, EnsureWorkspace, WriteFile, StopContainer,
      DeleteWorkspace, CloneWorkspace, DumpBackup, PruneBackups, ResolveBackup, FetchBackup,
      RestoreAside, RestorePublish, Admitted
<1>4. \/ owed'[p] = owed[p] /\ dir'[p] \in {dir[p], Made(dir[p])}
      \/ \E w \in Writes : owed'[p] = owed[p] \cup {w} /\ dir'[p] = Made(dir[p]) \cup {w}
  <2>1. CASE StartContainer(r) \/ EnsureWorkspace(r)
    BY <1>2, <2>1 DEF StartContainer, EnsureWorkspace
  <2>2. CASE RunCommand(r)
    BY <1>2, <2>2 DEF RunCommand, Fresh, Made
  <2>3. CASE WriteFile(r)
    BY <1>2, <2>3 DEF WriteFile, Fresh
  <2> QED
    BY <2>1, <2>2, <2>3
    DEF Operating, StopContainer, DeleteWorkspace, CloneWorkspace, DumpBackup, PruneBackups,
        ResolveBackup, FetchBackup, RestoreAside, RestorePublish, Admitted
<1>5. Hot(p)'
  BY <1>1, <1>2, <1>4, StorageAssumption DEF Hot, Made, Directory
<1> QED
  BY <1>3, <1>5 DEF InHand, Admitted

\* A transition that ends in error keeps the name of its archive.
LEMMA MarkErrorCopies ==
    ASSUME TypeOK, NEW r \in Procs, NEW p \in Projects, p = proj[r], MarkError(r)
    PROVE  /\ file'[p].storage \in {"error", file[p].storage}
           /\ file'[p].archive = file[p].archive
           /\ pc'[r] = "idle"
  BY MarkErrorPlace, FileKeepsArchive

\* The upload has a name that no archive of the project has.
LEMMA PutCopies ==
    ASSUME "torn" \notin Faults, TypeOK, Guarded, Retained, Copied, NEW r \in Procs,
           NEW p \in Projects, p = proj[r], PutArchive(r)
    PROVE  CopyOK(p)' /\ InHand(r)'
<1> DEFINE n == NextName(p)
<1>1. /\ CopyOK(p) /\ Hot(p) /\ tmp[r] # Torn /\ Due(p) \subseteq tmp[r]
      /\ pc[r] = "put" /\ file[p].storage = "archiving"
      /\ dir' = dir /\ owed' = owed
  BY StorageAssumption DEF PutArchive, Copied, InHand, Guarded, PhaseRecorded, ArchiveSteps
<1>2. /\ archives \in [Projects -> SUBSET Object] /\ file \in [Projects -> StateFile]
      /\ pc \in [Procs -> LockedSteps \cup OpenSteps] /\ name \in [Procs -> Nat]
  BY DEF TypeOK, DiskOK, ProcsOK
<1>3. n # 0 /\ \A a \in archives[p] : a.name # n
  <2>1. clock[p] \in Nat /\ \A a \in archives[p] : a.name <= clock[p] /\ a.name \in Nat
    BY <1>2 DEF TypeOK, DiskOK, Object, Retained, ArchivesOrdered
  <2> QED
    BY <2>1 DEF NextName
<1>4. Hot(p)'
  BY <1>1 DEF Hot
<1>5. \/ archives'[p] = archives[p]
      \/ \E t : archives'[p] = archives[p] \cup {[name |-> n, at |-> t, data |-> tmp[r]]}
  BY <1>2 DEF PutArchive
<1>6. \A a \in archives'[p] : a.name # 0 /\ \A b \in archives'[p] : a.name = b.name => a = b
  BY <1>1, <1>3, <1>5 DEF CopyOK
<1>7. CASE MarkError(r)
  BY <1>1, <1>4, <1>6, <1>7, MarkErrorCopies DEF CopyOK, Left, InHand
<1>8. CASE /\ UNCHANGED <<file, proj>> /\ pc'[r] = "remove" /\ name'[r] = n
           /\ \E t : archives'[p] = archives[p] \cup {[name |-> n, at |-> t, data |-> tmp[r]]}
  <2>1. \E a \in archives'[p] : a.name = n /\ a.data # Torn /\ Due(p)' \subseteq a.data
    <3>1. PICK t : archives'[p] = archives[p] \cup {[name |-> n, at |-> t, data |-> tmp[r]]}
      BY <1>8
    <3> DEFINE new == [name |-> n, at |-> t, data |-> tmp[r]]
    <3>2. new \in archives'[p] /\ new.name = n /\ new.data = tmp[r]
      BY <3>1
    <3> HIDE DEF new
    <3> QED
      BY <1>1, <3>2
  <2>2. InHand(r)'
    <3>1. proj'[r] = p /\ name'[r] = n /\ pc'[r] = "remove"
      BY <1>8
    <3> QED
      BY <1>4, <2>1, <3>1 DEF InHand, ArchiveWhole, Hot
  <2>3. SomeWhole(p)'
    BY <2>1 DEF SomeWhole
  <2> QED
    BY <1>1, <1>4, <1>6, <1>8, <2>2 DEF CopyOK
<1>9. \/ MarkError(r)
      \/ /\ UNCHANGED <<file, proj>> /\ pc'[r] = "remove" /\ name'[r] = n
         /\ \E t : archives'[p] = archives[p] \cup {[name |-> n, at |-> t, data |-> tmp[r]]}
  BY <1>2 DEF PutArchive, Goto
<1> QED
  BY <1>7, <1>8, <1>9

\* Retention takes no archive that the state file names.
LEMMA PruneCopies ==
    ASSUME TypeOK, Copied, Retained', NEW r \in Procs, NEW p \in Projects, p = proj[r],
           PruneArchives(r)
    PROVE  CopyOK(p)' /\ InHand(r)'
<1>1. /\ CopyOK(p) /\ file[p].storage = "archived"
      /\ file' = file /\ owed' = owed /\ dir' = dir
  BY DEF PruneArchives, Copied, InHand
<1>2. archives'[p] \subseteq archives[p]
  BY DEF PruneArchives, Kept, PartlyPruned, TypeOK, DiskOK
<1>3. pc'[r] = "idle"
  BY ReturnPlace DEF PruneArchives
<1>4. PICK a \in archives[p] : /\ a.name = file[p].archive /\ a.data # Torn
                               /\ Due(p) \subseteq a.data
  BY <1>1 DEF CopyOK, ArchiveWhole
<1>5. a \in archives'[p]
  <2>1. CASE file[p].archive # 0
    <3>1. PICK b \in archives'[p] : b.name = file'[p].archive
      BY <1>1, <2>1 DEF Retained, ArchiveStored
    <3> QED
      BY <1>1, <1>2, <1>4, <3>1 DEF CopyOK
  <2>2. CASE file[p].archive = 0
    BY <1>1, <1>4, <2>2 DEF CopyOK
  <2> QED
    BY <2>1, <2>2
<1>6. CopyOK(p)'
  BY <1>1, <1>2, <1>4, <1>5 DEF CopyOK, ArchiveWhole
<1> QED
  BY <1>3, <1>6 DEF InHand

(* The steps of an archival.                                                *)
LEMMA ArchivingCopies ==
    ASSUME Faults \cap {"torn", "delete"} = {}, TypeOK, Guarded, Placed, Retained, Retained',
           Copied, NEW r \in Procs, NEW p \in Projects, p = proj[r], Archiving(r)
    PROVE  CopyOK(p)' /\ InHand(r)' /\ owed'[p] = owed[p]
<1>1. /\ CopyOK(p) /\ InHand(r) /\ AtPlace(r)
      /\ (pc[r] \in ArchiveSteps => file[p].storage = "archiving")
  BY DEF Copied, Placed, Guarded, PhaseRecorded
<1>2. /\ file \in [Projects -> StateFile] /\ dir \in [Projects -> Directory]
      /\ pc \in [Procs -> LockedSteps \cup OpenSteps]
      /\ tmp \in [Procs -> {NoDir} \cup Content]
  BY DEF TypeOK, DiskOK, ProcsOK
<1>3. owed' = owed
  BY DEF Archiving, BeginArchive, QuiesceArchive, WriteTar, PutArchive, RemoveLocal,
         MarkArchived, PruneArchives
<1>4. ASSUME archives' = archives, dir' = dir
      PROVE  /\ Hot(p)' <=> Hot(p)
             /\ SomeWhole(p)' <=> SomeWhole(p)
             /\ Left(p)' <=> Left(p)
             /\ \A n : ArchiveWhole(p, n)' <=> ArchiveWhole(p, n)
  BY <1>3, <1>4, SameCopies
<1>5. CASE BeginArchive(r)
  <2>1. archives' = archives /\ dir' = dir
    BY <1>5 DEF BeginArchive
  <2>2. CASE (Finish(r) \/ Abandon(r)) /\ UNCHANGED file
    BY <1>1, <1>3, <2>1, <2>2, ReturnPlace, SameCopyOK DEF InHand
  <2>3. CASE /\ MayArchive(r) /\ StepTo(r, "quiesce")
             /\ file' = [file EXCEPT ![proj[r]].storage = "archiving"]
    <3>1. Left(p)
      BY <1>1, <2>3 DEF MayArchive, CopyOK, Left
    <3>2. /\ file'[p].storage = "archiving" /\ pc'[r] = "quiesce" /\ proj'[r] = p
      BY <1>2, <2>3 DEF StepTo, Goto, StateFile
    <3>3. Left(p)' /\ Left(proj[r])'
      BY <1>4, <2>1, <3>1, <3>2 DEF Left, Hot, SomeWhole
    <3> QED
      BY <1>1, <1>3, <2>1, <3>2, <3>3 DEF CopyOK, InHand, Left
  <2> QED
    BY <1>5, <2>2, <2>3 DEF BeginArchive
<1>6. CASE QuiesceArchive(r)
  <2>1. archives' = archives /\ dir' = dir /\ pc[r] = "quiesce" /\ Left(p)
    BY <1>1, <1>6 DEF QuiesceArchive, InHand
  <2>2. Left(p)'
    BY <1>4, <2>1
  <2>3. CASE StepTo(r, "tar") /\ UNCHANGED file
    <3>1. pc'[r] = "tar" /\ proj'[r] = p
      BY <1>2, <2>3 DEF StepTo, Goto
    <3>2. InHand(r)'
      BY <2>2, <3>1 DEF InHand, Left, Hot, SomeWhole
    <3> QED
      BY <1>1, <1>3, <1>4, <2>1, <2>3, <3>2 DEF CopyOK
  <2>4. CASE MarkError(r)
    BY <1>1, <1>3, <1>4, <2>1, <2>2, <2>4, MarkErrorCopies DEF CopyOK, InHand, ArchiveSteps
  <2> QED
    BY <1>6, <2>3, <2>4 DEF QuiesceArchive
<1>7. CASE WriteTar(r)
  <2>1. archives' = archives /\ dir' = dir /\ pc[r] = "tar" /\ Left(p)
    BY <1>1, <1>7 DEF WriteTar, InHand
  <2>2. Left(p)'
    BY <1>4, <2>1
  <2>3. CASE /\ dir[p] # NoDir /\ tmp' = [tmp EXCEPT ![r] = Regular(dir[p])] /\ Goto(r, "put")
             /\ UNCHANGED <<file, proj>>
    <3>1. pc'[r] = "put" /\ proj'[r] = p /\ tmp'[r] = Regular(dir[p])
      BY <1>2, <2>3 DEF Goto
    <3>2. /\ Hot(p) /\ Regular(dir[p]) \in SUBSET Writes
          /\ Due(p) \subseteq Regular(dir[p])
      BY <1>2, <2>1, <2>3 DEF Left, Hot, Made, Directory, Due, Regular
    <3>3. InHand(r)'
      BY <1>3, <2>1, <3>1, <3>2 DEF InHand, Hot
    <3> QED
      BY <1>1, <1>3, <1>4, <2>1, <2>3, <3>3 DEF CopyOK
  <2>4. CASE MarkError(r)
    BY <1>1, <1>3, <1>4, <2>1, <2>2, <2>4, MarkErrorCopies DEF CopyOK, InHand, ArchiveSteps
  <2> QED
    BY <1>7, <2>3, <2>4 DEF WriteTar, Tarballs, Fault
<1>8. CASE PutArchive(r)
  BY <1>3, <1>8, PutCopies
<1>9. CASE RemoveLocal(r)
  <2>1. archives' = archives /\ UNCHANGED name /\ pc[r] = "remove" /\ ArchiveWhole(p, name[r])
    BY <1>1, <1>9 DEF RemoveLocal, InHand, StepTo, Fault
  <2>2. UNCHANGED file /\ pc'[r] = "mark" /\ proj'[r] = p /\ name'[r] = name[r]
    BY <1>2, <1>9 DEF RemoveLocal, StepTo, Goto, Fault
  <2>3. /\ \E a \in archives'[p] : /\ a.name = name[r] /\ a.data # Torn
                                   /\ Due(p)' \subseteq a.data
    BY <1>3, <2>1 DEF ArchiveWhole
  <2>4. InHand(r)' /\ SomeWhole(p)'
    BY <2>2, <2>3 DEF InHand, ArchiveWhole, SomeWhole
  <2> QED
    BY <1>1, <1>3, <2>1, <2>2, <2>4 DEF CopyOK, ArchiveSteps
<1>10. CASE MarkArchived(r)
  <2>1. archives' = archives /\ dir' = dir /\ pc[r] = "mark" /\ ArchiveWhole(p, name[r])
    BY <1>1, <1>10 DEF MarkArchived, InHand
  <2>2. ArchiveWhole(p, name[r]) /\ (\A n : ArchiveWhole(p, n)' <=> ArchiveWhole(p, n))
    BY <1>4, <2>1
  <2>3. CASE /\ StepTo(r, "prune")
             /\ file' = [file EXCEPT ![proj[r]].storage = "archived",
                                     ![proj[r]].archive = name[r]]
    <3>1. /\ file'[p].storage = "archived" /\ file'[p].archive = name[r]
          /\ pc'[r] = "prune" /\ proj'[r] = p
      BY <1>2, <2>3 DEF StepTo, Goto, StateFile
    <3>2. \E a \in archives'[p] : /\ a.name = file'[p].archive /\ a.data # Torn
                                  /\ Due(p)' \subseteq a.data
      BY <1>3, <2>1, <3>1 DEF ArchiveWhole
    <3> QED
      BY <1>1, <1>3, <2>1, <3>1, <3>2 DEF CopyOK, InHand, ArchiveWhole
  <2>4. CASE Abandon(r) /\ UNCHANGED file
    BY <1>1, <1>3, <1>4, <2>1, <2>4, ReturnPlace DEF CopyOK, InHand
  <2> QED
    BY <1>10, <2>3, <2>4 DEF MarkArchived
<1>11. CASE PruneArchives(r)
  BY <1>3, <1>11, PruneCopies
<1> QED
  BY <1>3, <1>5, <1>6, <1>7, <1>8, <1>9, <1>10, <1>11 DEF Archiving

(* The steps of a restore.                                                  *)
LEMMA RestoringCopies ==
    ASSUME TypeOK, Guarded, Placed, Copied, NEW r \in Procs, NEW p \in Projects, p = proj[r],
           Restoring(r)
    PROVE  CopyOK(p)' /\ InHand(r)' /\ owed'[p] = owed[p]
<1>1. /\ CopyOK(p) /\ InHand(r) /\ AtPlace(r)
      /\ (pc[r] \in RestoreSteps =>
             file[p].storage = "restoring" /\ ArchiveWhole(p, file[p].archive) /\ SomeWhole(p))
  BY DEF Copied, CopyOK, Placed, Guarded, PhaseRecorded, ArchiveWhole, SomeWhole
<1>2. /\ file \in [Projects -> StateFile] /\ dir \in [Projects -> Directory]
      /\ pc \in [Procs -> LockedSteps \cup OpenSteps]
      /\ tmp \in [Procs -> {NoDir} \cup Content]
  BY DEF TypeOK, DiskOK, ProcsOK
<1>3. owed' = owed /\ archives' = archives
  BY DEF Restoring, EnsureLocal, GetArchive, SwapOut, SwapIn, MarkLocal
<1>4. SomeWhole(p)' <=> SomeWhole(p)
  BY <1>3 DEF SomeWhole
<1>5. ASSUME pc[r] \in {"get", "swapout", "swapin"}, MarkError(r), dir'[p] = NoDir
      PROVE  CopyOK(p)' /\ InHand(r)'
  <2>1. file[p].storage = "restoring" /\ SomeWhole(p)' /\ ArchiveWhole(p, file[p].archive)
    BY <1>1, <1>4, <1>5 DEF RestoreSteps
  <2>2. /\ file'[p].storage \in {"error", "restoring"} /\ file'[p].archive = file[p].archive
        /\ pc'[r] = "idle"
    BY <1>5, <2>1, MarkErrorCopies
  <2>3. \E a \in archives'[p] : /\ a.name = file'[p].archive /\ a.data # Torn
                                /\ Due(p)' \subseteq a.data
    BY <1>3, <2>1, <2>2 DEF ArchiveWhole
  <2>4. Left(p)'
    BY <1>5, <2>1 DEF Left, SomeWhole
  <2> QED
    BY <1>1, <1>3, <2>2, <2>3, <2>4 DEF CopyOK, ArchiveWhole, InHand
<1>6. CASE EnsureLocal(r)
  <2>1. dir' = dir
    BY <1>6 DEF EnsureLocal
  <2>2. CASE file[p].storage = "local" /\ file' = [file EXCEPT ![p].last = "recent"] /\ Proceed(r)
    <3>1. file'[p].storage = file[p].storage /\ file'[p].archive = file[p].archive
      BY <1>2, <2>2 DEF StateFile
    <3> QED
      BY <1>1, <1>3, <2>1, <2>2, <3>1, SameCopyOK, ProceedPlace DEF InHand
  <2>3. CASE Abandon(r) /\ UNCHANGED file
    BY <1>1, <1>3, <2>1, <2>3, SameCopyOK, ReturnPlace DEF InHand
  <2>4. CASE /\ file[p].storage = "archived"
             /\ file' = [file EXCEPT ![p].storage = "restoring"]
             /\ StepTo(r, "get")
    <3>1. /\ file'[p].storage = "restoring" /\ file'[p].archive = file[p].archive
          /\ pc'[r] = "get"
      BY <1>2, <2>4 DEF StateFile, StepTo, Goto
    <3>2. ArchiveWhole(p, file[p].archive)
      BY <1>1, <2>4 DEF CopyOK
    <3> QED
      BY <1>1, <1>3, <3>1, <3>2 DEF CopyOK, ArchiveWhole, InHand
  <2> QED
    BY <1>6, <2>2, <2>3, <2>4 DEF EnsureLocal
<1>7. CASE GetArchive(r)
  <2>1. dir' = dir /\ pc[r] = "get" /\ dir[p] = NoDir
    BY <1>1, <1>7 DEF GetArchive, AtPlace
  <2>2. CASE MarkError(r)
    BY <1>3, <1>5, <2>1, <2>2
  <2>3. CASE ~MarkError(r)
    <3>1. PICK a \in archives[p] : /\ a.name = file[p].archive /\ Extracts(a)
                                   /\ tmp' = [tmp EXCEPT ![r] = Tree(a)]
                                   /\ Goto(r, "swapout")
                                   /\ UNCHANGED <<file, proj>>
      BY <1>7, <2>3 DEF GetArchive
    <3>2. Tree(a) \in SUBSET Writes /\ Due(p) \subseteq Tree(a)
      <4>1. PICK b \in archives[p] : b.name = file[p].archive /\ Due(p) \subseteq b.data
        BY <1>1, <2>1 DEF RestoreSteps, ArchiveWhole
      <4>2. a = b
        BY <1>1, <3>1, <4>1 DEF CopyOK
      <4>3. Tree(a) \in SUBSET Writes /\ Tree(a) = Regular(a.data)
        BY <3>1, Unpacking DEF TypeOK, DiskOK
      <4> QED
        BY <4>1, <4>2, <4>3 DEF Due, Regular
    <3>3. pc'[r] = "swapout" /\ tmp'[r] = Tree(a) /\ proj'[r] = p
      BY <1>2, <3>1 DEF Goto
    <3> QED
      BY <1>1, <1>3, <2>1, <3>1, <3>2, <3>3, SameCopyOK DEF InHand
  <2> QED
    BY <2>2, <2>3
<1>8. CASE SwapOut(r)
  <2>1. pc[r] = "swapout" /\ dir[p] = NoDir
    BY <1>1, <1>8 DEF SwapOut, AtPlace
  <2>2. dir'[p] = NoDir
    BY <1>2, <1>8, <2>1 DEF SwapOut, MoveAside, RemoveDir
  <2>3. CASE MarkError(r)
    BY <1>3, <1>5, <2>1, <2>2, <2>3
  <2>4. CASE ~MarkError(r)
    <3>1. UNCHANGED <<file, proj, tmp>> /\ pc'[r] = "swapin"
      BY <1>2, <1>8, <2>4 DEF SwapOut, Goto
    <3>2. tmp[r] \in SUBSET Writes /\ Due(p) \subseteq tmp[r]
      BY <1>1, <2>1 DEF InHand
    <3> QED
      BY <1>1, <1>3, <2>1, <2>2, <3>1, <3>2, SameCopyOK DEF InHand
  <2> QED
    BY <2>3, <2>4
<1>9. CASE SwapIn(r)
  <2>1. pc[r] = "swapin" /\ dir[p] = NoDir /\ back[r] = NoDir
    BY <1>1, <1>9 DEF SwapIn, AtPlace
  <2>2. CASE RollBack(r) /\ MarkError(r)
    <3>1. dir'[p] = NoDir
      BY <2>1, <2>2 DEF RollBack
    <3> QED
      BY <1>3, <1>5, <2>1, <2>2, <3>1
  <2>3. CASE PublishDir(r) /\ UNCHANGED <<file, proj>> /\ Goto(r, "local")
    <3>1. dir'[p] = tmp[r] /\ pc'[r] = "local" /\ proj'[r] = p
      BY <1>2, <2>3 DEF PublishDir, Goto
    <3>2. Hot(p)'
      <4>1. Due(p) \subseteq tmp[r] /\ (tmp[r] = NoDir => owed[p] = {})
        BY <1>1, <2>1, StorageAssumption DEF InHand
      <4> QED
        BY <1>3, <3>1, <4>1 DEF Hot, Made
    <3>3. file[p].storage = "restoring" /\ ArchiveWhole(p, file[p].archive)
      BY <1>1, <2>1 DEF RestoreSteps
    <3>4. CopyOK(p)'
      BY <1>1, <1>3, <2>3, <3>3 DEF CopyOK, ArchiveWhole
    <3> QED
      BY <1>3, <3>1, <3>2, <3>4 DEF InHand, Hot
  <2> QED
    BY <1>9, <2>2, <2>3 DEF SwapIn
<1>10. CASE MarkLocal(r)
  <2>1. dir' = dir /\ pc[r] = "local" /\ Hot(p)
    BY <1>1, <1>10 DEF MarkLocal, InHand
  <2>2. CASE Proceed(r) /\ file' = [file EXCEPT ![p].storage = "local", ![p].last = "recent"]
    <3>1. file'[p].storage = "local" /\ Hot(p)'
      BY <1>2, <1>3, <2>1, <2>2 DEF StateFile, Hot
    <3> QED
      BY <1>1, <1>3, <2>2, <3>1, ProceedPlace DEF CopyOK, InHand
  <2>3. CASE Abandon(r) /\ UNCHANGED file
    BY <1>1, <1>3, <2>1, <2>3, SameCopyOK, ReturnPlace DEF InHand
  <2> QED
    BY <1>10, <2>2, <2>3 DEF MarkLocal
<1> QED
  BY <1>3, <1>6, <1>7, <1>8, <1>9, <1>10 DEF Restoring

\* The step of a handler, for its project and itself.
LEMMA StepCopies ==
    ASSUME Faults \cap {"torn", "delete"} = {}, TypeOK, Guarded, Routes, Placed, Retained,
           Retained', Copied, NEW r \in Procs, NEW p \in Projects, p = proj[r], Step(r)
    PROVE  CopyOK(p)' /\ InHand(r)'
<1>1. CopyOK(p)
  BY DEF Copied
<1>2. CASE TakeLock(r)
  <2>1. /\ pc'[r] \in {"archive", "ensure"} /\ UNCHANGED <<file, dir, archives, owed>>
    BY <1>2 DEF TakeLock, Goto, diskVars, TypeOK, ProcsOK
  <2> QED
    BY <1>1, <2>1, SameCopyOK DEF InHand
<1>3. CASE Archiving(r)
  BY <1>3, ArchivingCopies
<1>4. CASE Restoring(r)
  BY <1>4, RestoringCopies
<1>5. CASE Operating(r) /\ pc[r] \notin Admitted
  <2>1. /\ UNCHANGED <<file, archives>> /\ InHand(r)'
        /\ \/ owed'[p] = owed[p] /\ dir'[p] = dir[p]
           \/ owed'[p] = {} /\ dir'[p] \in {dir[p], NoDir}
    BY <1>5, OpenCopies
  <2>2. /\ Hot(p) => Hot(p)'
        /\ SomeWhole(p) => SomeWhole(p)'
        /\ Left(p) => Left(p)'
    BY <2>1, LessOwed
  <2>3. ASSUME file[p].storage \in {"archived", "restoring"}
        PROVE  \E a \in archives'[p] : /\ a.name = file'[p].archive /\ a.data # Torn
                                       /\ Due(p)' \subseteq a.data
    BY <1>1, <2>1, <2>3 DEF CopyOK, ArchiveWhole
  <2> QED
    BY <1>1, <2>1, <2>2, <2>3 DEF CopyOK, ArchiveWhole
<1>6. CASE Operating(r) /\ pc[r] \in Admitted
  <2>1. UNCHANGED <<file, archives>> /\ Hot(p)' /\ InHand(r)'
    BY <1>6, AdmittedCopies
  <2>2. file[p].storage = "local"
    BY <1>6 DEF Placed, AtPlace
  <2> QED
    BY <1>1, <2>1, <2>2 DEF CopyOK
<1> QED
  BY <1>2, <1>3, <1>4, <1>5, <1>6 DEF Step

\* What is owed only grows by an admitted request; the critical section leaves it alone.
LEMMA LockedOwed ==
    ASSUME TypeOK, NEW r \in Procs, Step(r), pc[r] \in LockedSteps
    PROVE  owed' = owed
<1>1. pc[r] \notin OpenSteps
  BY DEF LockedSteps, OpenSteps, ArchiveSteps, RestoreSteps
<1> QED
  BY <1>1
  DEF Step, TakeLock, Archiving, Restoring, Operating, BeginArchive, QuiesceArchive, WriteTar,
      PutArchive, RemoveLocal, MarkArchived, PruneArchives, EnsureLocal, GetArchive, SwapOut,
      SwapIn, MarkLocal, StartContainer, RunCommand, EnsureWorkspace, WriteFile, StopContainer,
      DeleteWorkspace, CloneWorkspace, DumpBackup, PruneBackups, ResolveBackup, FetchBackup,
      RestoreAside, RestorePublish, OpenSteps

\* The step of a handler outside of the critical section is one of these.
LEMMA OpenStep ==
    ASSUME NEW r \in Procs, Step(r), pc[r] \notin LockedSteps
    PROVE  TakeLock(r) \/ Operating(r)
  BY DEF Step, Archiving, Restoring, BeginArchive, QuiesceArchive, WriteTar, PutArchive,
         RemoveLocal, MarkArchived, PruneArchives, EnsureLocal, GetArchive, SwapOut, SwapIn,
         MarkLocal, LockedSteps, ArchiveSteps, RestoreSteps

LEMMA OthersInHand ==
    ASSUME "delete" \notin Faults, TypeOK, Guarded, Routes, Placed, Copied, Calm,
           NEW r \in Procs, Step(r), NEW q \in Procs \ {r}, NEW p \in Projects, p = proj[q]
    PROVE  InHand(q)'
<1>1. SameWork(q) /\ InHand(q)
  BY StepOthers DEF Copied
<1>2. CASE proj[r] # p
  <2>1. SamePlace(p)
    BY <1>1, <1>2, StepElsewhere
  <2>2. /\ proj'[q] = p /\ pc'[q] = pc[q] /\ tmp'[q] = tmp[q] /\ name'[q] = name[q]
        /\ owed'[p] = owed[p] /\ dir'[p] = dir[p] /\ archives'[p] = archives[p]
        /\ file'[p].storage = file[p].storage
    BY <1>1, <2>1 DEF SameWork, SamePlace
  <2> QED
    BY <1>1, <2>2 DEF InHand, Left, Hot, SomeWhole, ArchiveWhole
<1>3. CASE proj[r] = p /\ pc[q] = "rm"
  <2>1. owed[p] = {} /\ pc[r] \notin Admitted
    BY <1>1, <1>3 DEF InHand, Calm
  <2>2. owed'[p] = {}
    <3>1. CASE pc[r] \in LockedSteps
      BY <2>1, <3>1, LockedOwed
    <3>2. CASE TakeLock(r)
      BY <2>1, <3>2 DEF TakeLock
    <3>3. CASE Operating(r)
      BY <1>1, <1>3, <2>1, <3>3, OpenCopies
    <3> QED
      BY <3>1, <3>2, <3>3, OpenStep
  <2> QED
    BY <1>1, <1>3, <2>2 DEF SameWork, InHand
<1>4. CASE proj[r] = p /\ pc[q] \in ArchiveSteps \cup RestoreSteps \cup {"prune"}
  <2>1. pc[r] \notin LockedSteps
    BY <1>4, Apart DEF LockedSteps
  <2>2. pc[r] \notin Admitted
    <3>1. file[p].storage # "local"
      BY <1>1, <1>4 DEF Guarded, PhaseRecorded, InHand, ArchiveSteps, RestoreSteps
    <3> QED
      BY <1>4, <3>1 DEF Placed, AtPlace
  <2>3. /\ UNCHANGED <<file, archives>>
        /\ \/ owed'[p] = owed[p] /\ dir'[p] = dir[p]
           \/ owed'[p] = {} /\ dir'[p] \in {dir[p], NoDir}
    <3>1. CASE TakeLock(r)
      BY <3>1 DEF TakeLock, diskVars
    <3>2. CASE Operating(r)
      BY <1>1, <1>4, <2>2, <3>2, OpenCopies
    <3> QED
      BY <2>1, <3>1, <3>2, OpenStep
  <2>4. /\ Hot(p) => Hot(p)'
        /\ Left(p) => Left(p)'
    BY <2>3, LessOwed
  <2>5. Due(p)' \subseteq Due(p)
    BY <2>3
  <2>6. proj'[q] = p /\ pc'[q] = pc[q] /\ tmp'[q] = tmp[q] /\ name'[q] = name[q]
    BY <1>1 DEF SameWork
  <2>7. /\ pc[q] \in {"quiesce", "tar"} => Left(proj[q])'
        /\ pc[q] \in {"put", "remove", "local"} => Hot(proj[q])'
        /\ pc[q] \in {"remove", "mark"} => ArchiveWhole(proj[q], name[q])'
    <3>1. pc[q] \in {"quiesce", "tar"} => Left(proj[q])'
      BY <1>1, <2>4, <2>6 DEF InHand, Left, Hot, SomeWhole
    <3>2. pc[q] \in {"put", "remove", "local"} => Hot(proj[q])'
      BY <1>1, <2>4, <2>6 DEF InHand, Hot
    <3>3. pc[q] \in {"remove", "mark"} => ArchiveWhole(proj[q], name[q])'
      BY <1>1, <2>3, <2>5, <2>6 DEF InHand, ArchiveWhole
    <3> QED
      BY <3>1, <3>2, <3>3
  <2> QED
    BY <1>1, <1>4, <2>3, <2>5, <2>6, <2>7 DEF InHand, ArchiveSteps, RestoreSteps
<1>5. CASE pc[q] \notin ArchiveSteps \cup RestoreSteps \cup {"prune", "rm"}
  BY <1>1, <1>5 DEF SameWork, InHand, ArchiveSteps, RestoreSteps
<1> QED
  BY <1>2, <1>3, <1>4, <1>5

LEMMA CopiedStep ==
    ASSUME Faults \cap {"torn", "delete"} = {}, TypeOK, Guarded, Routes, Placed, Retained,
           Retained', Copied, Calm, [Next]_vars
    PROVE  Copied'
<1>1. ASSUME NEW r \in Procs, Step(r)
      PROVE  Copied'
  <2>1. proj[r] \in Projects
    BY DEF TypeOK, ProcsOK
  <2>2. ASSUME NEW p \in Projects \ {proj[r]}
        PROVE  CopyOK(p)'
    <3>1. SamePlace(p) /\ CopyOK(p)
      BY <1>1, <2>2, StepElsewhere DEF Copied
    <3> QED
      BY <3>1, SameCopyOK DEF SamePlace
  <2>3. ASSUME NEW q \in Procs
        PROVE  InHand(q)'
    <3>1. PICK p \in Projects : p = proj[q]
      BY DEF TypeOK, ProcsOK
    <3> QED
      BY <1>1, <3>1, StepCopies, OthersInHand
  <2>4. \A p \in Projects : CopyOK(p)'
    BY <1>1, <2>2, StepCopies
  <2> QED
    BY <2>3, <2>4 DEF Copied
<1>2. CASE Crash
  <2>1. /\ UNCHANGED <<file, archives, owed>>
        /\ \A r \in Procs : pc'[r] = "idle"
    BY <1>2 DEF Crash
  <2>2. ASSUME NEW p \in Projects
        PROVE  CopyOK(p)'
    <3>1. CopyOK(p)
      BY DEF Copied
    <3>2. CASE dir'[p] = dir[p]
      BY <2>1, <3>1, <3>2, SameCopyOK
    <3>3. CASE dir'[p] # dir[p]
      <4>1. dir[p] # NoDir /\ \E r \in Procs : proj[r] = p /\ pc[r] \in {"remove", "rm"}
        BY <1>2, <3>3 DEF Crash, Removing
      <4>2. CASE \E r \in Procs : proj[r] = p /\ pc[r] = "rm"
        <5>1. owed[p] = {}
          BY <4>2 DEF Copied, InHand
        <5>2. Hot(p)'
          BY <2>1, <5>1 DEF Hot
        <5> QED
          BY <2>1, <3>1, <5>2 DEF CopyOK, Left, ArchiveWhole
      <4>3. CASE \E r \in Procs : proj[r] = p /\ pc[r] = "remove"
        <5>1. file[p].storage = "archiving" /\ SomeWhole(p)
          BY <4>3 DEF Copied, InHand, ArchiveWhole, SomeWhole, Guarded, PhaseRecorded, ArchiveSteps
        <5>2. SomeWhole(p)'
          BY <2>1, <5>1 DEF SomeWhole
        <5> QED
          BY <2>1, <3>1, <5>1, <5>2 DEF CopyOK
      <4> QED
        BY <4>1, <4>2, <4>3
    <3> QED
      BY <3>2, <3>3
  <2> QED
    BY <2>1, <2>2 DEF Copied, InHand
<1>3. CASE ~Crash /\ ~\E r \in Procs : Step(r)
  <2>1. UNCHANGED <<dir, archives, owed, tmp, name>>
    BY <1>3 DEF Next, Arrive, SweepList, SweepNext, Idle, vars, diskVars, procVars
  <2>2. \A p \in Projects : /\ file'[p].storage = file[p].storage
                            /\ file'[p].archive = file[p].archive
    BY <1>3, BystanderEffect, FileKeepsArchive
    DEF Next, Stays, Arrive, SweepList, SweepNext, vars, diskVars
  <2>3. \A q \in Procs : \/ pc'[q] = pc[q] /\ proj'[q] = proj[q]
                         \/ pc'[q] \in {"lock", "stop", "resolve"}
    BY <1>3 DEF Next, Arrive, SweepList, SweepNext, Idle, vars, procVars, FirstStep, Goto, TypeOK,
                ProcsOK
  <2>4. ASSUME NEW q \in Procs
        PROVE  InHand(q)'
    <3>1. proj[q] \in Projects /\ InHand(q)
      BY DEF TypeOK, ProcsOK, Copied
    <3>2. CASE pc'[q] = pc[q] /\ proj'[q] = proj[q]
      BY <2>1, <2>2, <3>1, <3>2 DEF InHand, Left, Hot, SomeWhole, ArchiveWhole
    <3>3. CASE pc'[q] \in {"lock", "stop", "resolve"}
      BY <3>3 DEF InHand
    <3> QED
      BY <2>3, <3>2, <3>3
  <2>5. \A p \in Projects : CopyOK(p)'
    BY <2>1, <2>2, SameCopyOK DEF Copied
  <2> QED
    BY <2>4, <2>5 DEF Copied
<1> QED
  BY <1>1, <1>2, <1>3

LEMMA CopiedCorrect ==
    ASSUME Ops \cap {"clone", "restore"} = {}, Faults \cap {"torn", "delete", "tie"} = {}
    PROVE  Spec /\ []Calm => []Copied
<1>1. "tie" \notin Faults /\ Faults \cap {"torn", "delete"} = {}
  OBVIOUS
<1>2. TypeOK /\ Guarded /\ Routes /\ Placed /\ Retained /\ Retained' /\ Copied /\ Calm
        /\ [Next]_vars => Copied'
  BY <1>1, CopiedStep
<1>3. Spec => []Retained
  BY <1>1, RetainedCorrect
<1> QED
  BY <1>2, <1>3, CopiedInit, TypeCorrect, GuardedCorrect, RoutesCorrect, PlacedCorrect, PTL
  DEF Spec

(* While admitted requests do not meet an archival or a deletion of their   *)
(* project, the object that the state file of an archived project names is  *)
(* whole and has every file its clients may expect, whatever calls fail,    *)
(* whatever state files are not saved and wherever the service dies.  Three *)
(* faults are excluded: a tarball torn in silence, a removal that gives up  *)
(* half way with an error, and uploads the store cannot tell apart in time  *)
(* (archiveProject, pruneArchives, ensureProjectLocalLocked).               *)
THEOREM ArchivesComplete ==
    ASSUME Ops \cap {"clone", "restore"} = {}, Faults \cap {"torn", "delete", "tie"} = {}
    PROVE  Spec /\ []Calm => []ArchiveComplete
<1>1. Copied => ArchiveComplete
  BY DEF Copied, CopyOK, ArchiveWhole, ArchiveComplete
<1> QED
  BY <1>1, CopiedCorrect, PTL

(* Under the same conditions one copy of every project has all files that   *)
(* its clients may expect, also while it is in transition, in error, or stuck   *)
(* in a transition that a crash or a failed save cut off.                   *)
THEOREM AllRecoverable ==
    ASSUME Ops \cap {"clone", "restore"} = {}, Faults \cap {"torn", "delete", "tie"} = {}
    PROVE  Spec /\ []Calm => []Recoverable
<1>1. ASSUME TypeOK, Copied, NEW p \in Projects
      PROVE  \E c \in Copies(p) : Due(p) \subseteq c
  <2>1. Hot(p) \/ SomeWhole(p)
    <3>1. CopyOK(p) /\ file[p].storage \in StorageStates
      BY <1>1 DEF Copied, TypeOK, DiskOK, StateFile
    <3> QED
      BY <3>1 DEF CopyOK, Left, ArchiveWhole, SomeWhole, StorageStates
  <2>2. CASE Hot(p)
    BY <2>2 DEF Hot, Copies
  <2>3. CASE SomeWhole(p)
    BY <2>3 DEF SomeWhole, Copies
  <2> QED
    BY <2>1, <2>2, <2>3
<1>2. TypeOK /\ Copied => Recoverable
  BY <1>1 DEF Recoverable
<1> QED
  BY <1>2, TypeCorrect, CopiedCorrect, PTL

(* The condition holds by itself where no route but those that keep the     *)
(* project's lock to their end, and a delete, a stop and a backup, are used *)
(* (archive and unarchive, beside the sweeper).                             *)
THEOREM LockedRoutesCalm ==
    ASSUME Ops \cap {"exec", "write"} = {}
    PROVE  Spec => []Calm
<1> DEFINE NoneAdmitted ==
               \A r \in Procs : pc[r] \notin Admitted /\ op[r] \notin {"exec", "write"}
<1>1. Init => NoneAdmitted
  BY DEF Init, Admitted
<1>2. ASSUME TypeOK, NoneAdmitted, [Next]_vars
      PROVE  NoneAdmitted'
  <2>1. ASSUME NEW r \in Procs, Step(r)
        PROVE  NoneAdmitted'
    <3>1. \A q \in Procs \ {r} : op'[q] = op[q] /\ pc'[q] = pc[q]
      BY <2>1, <1>2, StepOthers DEF SameWork
    <3>2. op'[r] \notin {"exec", "write"}
      BY <1>2, <2>1
      DEF Step, TakeLock, Archiving, Restoring, Operating, BeginArchive, QuiesceArchive, WriteTar,
          PutArchive, RemoveLocal, MarkArchived, PruneArchives, EnsureLocal, GetArchive, SwapOut,
          SwapIn, MarkLocal, StartContainer, RunCommand, EnsureWorkspace, WriteFile,
          StopContainer, DeleteWorkspace, CloneWorkspace, DumpBackup, PruneBackups,
          ResolveBackup, FetchBackup, RestoreAside, RestorePublish, Respond, Finish, Abandon,
          Proceed, MarkError, StepTo, Forget, TypeOK, ProcsOK
    <3>3. pc'[r] \notin Admitted
      <4>1. /\ Body(op[r]) \in {"stop", "idle"}
            /\ AfterStop(op[r]) \notin Admitted
            /\ pc[r] \notin Admitted
        BY <1>2 DEF Body, AfterStop, Admitted
      <4> QED
        BY <1>2, <2>1, <4>1
        DEF Step, TakeLock, Archiving, Restoring, Operating, BeginArchive, QuiesceArchive,
            WriteTar, PutArchive, RemoveLocal, MarkArchived, PruneArchives, EnsureLocal,
            GetArchive, SwapOut, SwapIn, MarkLocal, StartContainer, RunCommand,
            EnsureWorkspace, WriteFile, StopContainer, DeleteWorkspace, CloneWorkspace,
            DumpBackup, PruneBackups, ResolveBackup, FetchBackup, RestoreAside, RestorePublish,
            Respond, Finish, Abandon, Proceed, MarkError, StepTo, Goto, Admitted, TypeOK, ProcsOK
    <3> QED
      BY <1>2, <3>1, <3>2, <3>3
  <2>2. ASSUME NEW r \in Requests, Arrive(r)
        PROVE  NoneAdmitted'
    <3>1. PICK o \in Ops : op' = [op EXCEPT ![r] = o] /\ pc' = [pc EXCEPT ![r] = FirstStep(o)]
      BY <2>2 DEF Arrive, Goto
    <3>2. o \notin {"exec", "write"} /\ FirstStep(o) \notin Admitted
      BY DEF FirstStep, Admitted
    <3> QED
      BY <1>2, <3>1, <3>2 DEF TypeOK, ProcsOK
  <2>3. CASE \/ \E s \in Sweepers : SweepList(s) \/ SweepNext(s)
             \/ \E p \in Projects : Idle(p)
             \/ UNCHANGED vars
    BY <1>2, <2>3 DEF SweepList, SweepNext, Idle, Goto, vars, procVars, Admitted, TypeOK, ProcsOK
  <2>4. CASE Crash
    BY <2>4 DEF Crash, Admitted
  <2> QED
    BY <1>2, <2>1, <2>2, <2>3, <2>4 DEF Next
<1>3. NoneAdmitted => Calm
  BY DEF Calm
<1> HIDE DEF NoneAdmitted
<1> QED
  BY <1>1, <1>2, <1>3, TypeCorrect, PTL DEF Spec

\* So it does for one client that waits for each answer, whatever it asks for.
LEMMA OneClientCalm ==
    ASSUME \A r, q \in Procs : r = q
    PROVE  Calm
  BY DEF Calm, Admitted, ArchiveSteps
=============================================================================
