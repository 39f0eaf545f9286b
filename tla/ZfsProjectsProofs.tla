-------------------------- MODULE ZfsProjectsProofs --------------------------
(***************************************************************************)
(* Theorems about ZfsProjects: its type invariant, that the locks of        *)
(* clones make no circle, and that a restore leaves no dataset behind that  *)
(* nobody knows of.                                                         *)
(***************************************************************************)
EXTENDS ZfsProjects, FiniteSetTheorems, WellFoundedInduction, TLAPS

-----------------------------------------------------------------------------
(* Types: what the helpers do to the datasets and to the requests.          *)

LEMMA NewDataSetTyped ==
    ASSUME NEW d \in Data, NEW s \in Snaps \cup {NoSnap}, NEW path \in Names \cup {Off}
    PROVE  NewDataSet(d, s, path) \in DataSet
  BY DEF NewDataSet, DataSet

LEMMA StoreTyped ==
    ASSUME DisksOK, NEW n \in Names, NEW d \in DataSet \cup {NoDs}
    PROVE  [ds EXCEPT ![n] = d] \in [Names -> DataSet \cup {NoDs}]
  BY DEF DisksOK

LEMMA ExistingTyped ==
    ASSUME DisksOK, NEW n \in Names, Exists(n)
    PROVE  ds[n] \in DataSet
  BY DEF DisksOK, Exists

LEMMA RenamedTyped ==
    ASSUME DisksOK, NEW n \in Names, NEW m \in Names
    PROVE  Renamed(n, m) \in [Names -> DataSet \cup {NoDs}]
  BY DEF DisksOK, Renamed

LEMMA DestroyedTyped ==
    ASSUME DisksOK, NEW n \in Names
    PROVE  Destroyed(n) \in [Names -> DataSet \cup {NoDs}]
  BY StoreTyped DEF Destroyed

LEMMA MountedTyped ==
    ASSUME DisksOK, NEW n \in Names, Exists(n), NEW path \in Names \cup {Off}
    PROVE  MountedDs(n, path) \in [Names -> DataSet \cup {NoDs}]
<1>1. [ds[n] EXCEPT !.at = path] \in DataSet
  BY ExistingTyped DEF DataSet
<1>2. MountedDs(n, path) = [ds EXCEPT ![n] = [ds[n] EXCEPT !.at = path]]
  BY DEF MountedDs, DisksOK
<1> QED
  BY <1>1, <1>2, StoreTyped

LEMMA WipedTyped ==
    ASSUME DisksOK, NEW p \in Projects
    PROVE  WipedAt(p) \in [Names -> DataSet \cup {NoDs}]
<1>1. ASSUME NEW n \in Names
      PROVE  (IF n \in Top(p) THEN [ds[n] EXCEPT !.data = Wiped] ELSE ds[n])
                 \in DataSet \cup {NoDs}
  <2>1. CASE n \in Top(p)
    <3>1. ds[n] \in DataSet
      BY <2>1, ExistingTyped DEF Top, MountedAt
    <3> QED
      BY <2>1, <3>1 DEF DataSet, Data
  <2>2. CASE n \notin Top(p)
    BY <2>2 DEF DisksOK
  <2> QED
    BY <2>1, <2>2
<1> QED
  BY <1>1 DEF WipedAt

LEMMA DropSnapTyped ==
    ASSUME DisksOK, NEW n, NEW s, DropSnap(n, s)
    PROVE  ds' \in [Names -> DataSet \cup {NoDs}]
<1>1. CASE CanDropSnap(n, s) /\ ds' = [ds EXCEPT ![n].snaps = @ \ {s}]
  <2>1. n \in Names /\ Exists(n)
    BY <1>1 DEF CanDropSnap
  <2>2. [ds[n] EXCEPT !.snaps = @ \ {s}] \in DataSet
    BY <2>1, ExistingTyped DEF DataSet
  <2>3. ds' = [ds EXCEPT ![n] = [ds[n] EXCEPT !.snaps = @ \ {s}]]
    BY <1>1, <2>1 DEF DisksOK
  <2> QED
    BY <2>1, <2>2, <2>3, StoreTyped
<1>2. CASE UNCHANGED ds
  BY <1>2 DEF DisksOK
<1> QED
  BY <1>1, <1>2 DEF DropSnap

LEMMA DiscardTyped ==
    ASSUME DisksOK, GhostsOK, NEW n \in Names, Discard(n)
    PROVE  /\ ds' \in [Names -> DataSet \cup {NoDs}]
           /\ lost' \subseteq Names
  BY DestroyedTyped DEF Discard, DisksOK, GhostsOK, Lose

(* A handler that returns leaves the requests and the locks in their types. *)
LEMMA AnswerTyped ==
    ASSUME RequestsOK, LocksOK, NEW r \in Requests, Answer(r)
    PROVE  /\ RequestsOK'
           /\ held' \in [Projects -> Requests \cup {Free}]
<1>1. RequestsOK'
  BY DEF RequestsOK, Answer, Goto
<1>2. held' \in [Projects -> Requests \cup {Free}]
  BY DEF LocksOK, Answer
<1> QED
  BY <1>1, <1>2

(* A request goes on to a step of its route with locals that fit it.        *)
LEMMA MoveTyped ==
    ASSUME RequestsOK, NEW r \in Requests, NEW j \in Job, Fits(j),
           NEW step, OnRoute(j.op, step),
           job' = [job EXCEPT ![r] = j], Goto(r, step)
    PROVE  RequestsOK'
<1>1. step \in Steps
  BY DEF OnRoute, Steps
<1> QED
  BY <1>1 DEF RequestsOK, Goto, Fits

LEMMA GotoTyped ==
    ASSUME RequestsOK, NEW r \in Requests, pc[r] # "idle",
           NEW step, OnRoute(job[r].op, step), UNCHANGED job, Goto(r, step)
    PROVE  RequestsOK'
<1>1. job[r] \in Job /\ Fits(job[r])
  BY DEF RequestsOK
<1>2. job' = [job EXCEPT ![r] = job[r]]
  BY DEF RequestsOK
<1> QED
  BY <1>1, <1>2, MoveTyped

(* Each set of steps is of one route (or, for the locks, of three).         *)
LEMMA RouteOf ==
    ASSUME RequestsOK, NEW r \in Requests, pc[r] # "idle"
    PROVE  /\ job[r] \in Job
           /\ Fits(job[r])
           /\ pc[r] \in EnsureSteps => job[r].op = "ensure"
           /\ pc[r] \in DeleteSteps => job[r].op = "delete"
           /\ pc[r] \in CloneSteps => job[r].op = "clone"
           /\ pc[r] \in BackupSteps => job[r].op = "backup"
           /\ pc[r] \in RestoreSteps => job[r].op = "restore"
           /\ pc[r] = "lock" => job[r].op \in {"ensure", "delete", "clone"}
<1>1. job[r] \in Job /\ Fits(job[r]) /\ OnRoute(job[r].op, pc[r])
  BY DEF RequestsOK
<1> QED
  BY <1>1 DEF OnRoute, EnsureSteps, DeleteSteps, CloneSteps, BackupSteps, RestoreSteps

LEMMA BeginTyped ==
    ASSUME TypeOK, NEW r \in Requests, NEW j \in Job, Fits(j), NEW step,
           OnRoute(j.op, step), Begin(r, j, step)
    PROVE  TypeOK'
<1>1. RequestsOK'
  BY MoveTyped DEF TypeOK, Begin
<1> QED
  BY <1>1 DEF TypeOK, Begin, DisksOK, LocksOK, GhostsOK, diskVars, ghostVars

LEMMA AskTyped ==
    ASSUME TypeOK, NEW r \in Requests, Ask(r)
    PROVE  TypeOK'
<1>1. PICK p \in Projects :
          \/ AskEnsure(r, p)
          \/ AskDelete(r, p)
          \/ \E q \in Projects : AskClone(r, p, q)
          \/ AskBackup(r, p)
          \/ \E t \in Trees : AskRestore(r, p, t)
  BY DEF Ask
<1>2. CASE AskEnsure(r, p)
  <2> DEFINE j == [NewJob("ensure", p) EXCEPT !.need = {p}]
  <2>1. j \in Job /\ Fits(j) /\ OnRoute(j.op, "lock")
    BY DEF NewJob, Job, Fits, OnRoute, AllOps, Data, Names
  <2> HIDE DEF j
  <2>2. Begin(r, j, "lock")
    BY <1>2 DEF AskEnsure, j
  <2> QED
    BY <2>1, <2>2, BeginTyped
<1>3. CASE AskDelete(r, p)
  <2> DEFINE j == [NewJob("delete", p) EXCEPT !.need = {p}]
  <2>1. j \in Job /\ Fits(j) /\ OnRoute(j.op, "lock")
    BY DEF NewJob, Job, Fits, OnRoute, AllOps, Data, Names
  <2> HIDE DEF j
  <2>2. Begin(r, j, "lock")
    BY <1>3 DEF AskDelete, j
  <2> QED
    BY <2>1, <2>2, BeginTyped
<1>4. ASSUME NEW q \in Projects, AskClone(r, p, q)
      PROVE  TypeOK'
  <2> DEFINE j == [NewJob("clone", p) EXCEPT !.q = q, !.need = {p, q}]
  <2>1. j \in Job /\ Fits(j) /\ OnRoute(j.op, "lock")
    BY DEF NewJob, Job, Fits, OnRoute, AllOps, Data, Names
  <2> HIDE DEF j
  <2>2. Begin(r, j, "lock")
    BY <1>4 DEF AskClone, j
  <2> QED
    BY <2>1, <2>2, BeginTyped
<1>5. CASE AskBackup(r, p)
  <2>1. NewJob("backup", p) \in Job /\ Fits(NewJob("backup", p))
        /\ OnRoute(NewJob("backup", p).op, "dump")
    BY DEF NewJob, Job, Fits, OnRoute, AllOps, Data, Names, BackupSteps
  <2> QED
    BY <1>5, <2>1, BeginTyped DEF AskBackup
<1>6. ASSUME NEW t \in Trees, AskRestore(r, p, t)
      PROVE  TypeOK'
  <2>1. PICK a \in FreshAsides, b \in FreshAsides, step \in {"receive", "prepare"} :
            Begin(r, [NewJob("restore", p) EXCEPT !.tmp = a, !.rb = b, !.data = t], step)
    BY <1>6 DEF AskRestore
  <2> DEFINE j == [NewJob("restore", p) EXCEPT !.tmp = a, !.rb = b, !.data = t]
  <2>2. j \in Job /\ Fits(j) /\ OnRoute(j.op, step)
    BY <2>1 DEF NewJob, Job, Fits, OnRoute, AllOps, Data, Names, RestoreSteps, FreshAsides
  <2> HIDE DEF j
  <2>3. Begin(r, j, step)
    BY <2>1 DEF j
  <2> QED
    BY <2>2, <2>3, BeginTyped
<1> QED
  BY <1>1, <1>2, <1>3, <1>4, <1>5, <1>6

LEMMA TakeLockTyped ==
    ASSUME TypeOK, NEW r \in Requests, TakeLock(r)
    PROVE  TypeOK'
<1>1. job[r] \in Job /\ Fits(job[r]) /\ job[r].op \in {"ensure", "delete", "clone"}
  BY RouteOf DEF TypeOK, TakeLock, At
<1>2. PICK p \in NextLock(job[r]) :
          /\ held' = [held EXCEPT ![p] = r]
          /\ job' = [job EXCEPT ![r].need = @ \ {p}]
          /\ IF job[r].need = {p} THEN Goto(r, FirstStep(job[r].op)) ELSE UNCHANGED pc
  BY DEF TakeLock
<1> DEFINE j == [job[r] EXCEPT !.need = @ \ {p}]
<1>3. j \in Job /\ Fits(j) /\ j.op = job[r].op
  BY <1>1 DEF Job, Fits
<1>4. job' = [job EXCEPT ![r] = j]
  BY <1>2 DEF TypeOK, RequestsOK
<1>5. OnRoute(j.op, FirstStep(j.op)) /\ OnRoute(j.op, "lock")
  BY <1>1, <1>3 DEF OnRoute, FirstStep, EnsureSteps, DeleteSteps, CloneSteps
<1> HIDE DEF j
<1>6. RequestsOK'
  <2>1. CASE Goto(r, FirstStep(job[r].op))
    BY <1>3, <1>4, <1>5, <2>1, MoveTyped DEF TypeOK
  <2>2. CASE UNCHANGED pc
    <3>1. Goto(r, "lock")
      BY <2>2 DEF TakeLock, At, Goto, TypeOK, RequestsOK
    <3> QED
      BY <1>3, <1>4, <1>5, <3>1, MoveTyped DEF TypeOK
  <2> QED
    BY <1>2, <2>1, <2>2
<1>7. held' \in [Projects -> Requests \cup {Free}]
  BY <1>2 DEF TypeOK, LocksOK
<1> QED
  BY <1>6, <1>7 DEF TypeOK, TakeLock, DisksOK, LocksOK, GhostsOK, diskVars, ghostVars

LEMMA EnsureTyped ==
    ASSUME TypeOK, NEW r \in Requests, EnsureStep(r)
    PROVE  TypeOK'
<1>1. CASE EnsureCached(r) \/ EnsureFails(r)
  <2>1. Answer(r) /\ UNCHANGED <<diskVars, known, ghostVars, crashes>>
    BY <1>1 DEF EnsureCached, EnsureFails
  <2> QED
    BY <2>1, AnswerTyped DEF TypeOK, DisksOK, LocksOK, GhostsOK, diskVars, ghostVars
<1>2. CASE EnsureDataset(r)
  <2>1. job[r] \in Job /\ job[r].op = "ensure" /\ job[r].p \in Projects
    BY <1>2, RouteOf DEF TypeOK, EnsureDataset, At, EnsureSteps, Job
  <2>2. RequestsOK'
    <3>1. OnRoute(job[r].op, "attach")
      BY <2>1 DEF OnRoute, EnsureSteps
    <3> QED
      BY <1>2, <3>1, GotoTyped DEF TypeOK, EnsureDataset, At
  <2>3. DisksOK'
    <3> DEFINE p == job[r].p
    <3>1. CASE /\ ds' = [ds EXCEPT ![p] = NewDataSet(Empty, NoSnap, p)]
               /\ dirs' = dirs \cup {p}
      <4>1. NewDataSet(Empty, NoSnap, p) \in DataSet
        BY <2>1, NewDataSetTyped DEF Data, Names
      <4> QED
        BY <2>1, <3>1, <4>1, StoreTyped DEF TypeOK, DisksOK, Names
    <3>2. CASE Exists(p) /\ ds' = MountedDs(p, IF ds[p].at = Off THEN Off ELSE p)
               /\ dirs' \in {dirs, dirs \cup {p}}
      BY <2>1, <3>2, MountedTyped DEF TypeOK, DisksOK, Names
    <3>3. CASE UNCHANGED diskVars
      BY <3>3 DEF TypeOK, DisksOK, diskVars
    <3> QED
      BY <1>2, <3>1, <3>2, <3>3 DEF EnsureDataset
  <2> QED
    BY <1>2, <2>2, <2>3 DEF TypeOK, EnsureDataset, LocksOK, GhostsOK, ghostVars
<1>3. CASE EnsureMounted(r)
  <2>1. job[r] \in Job /\ job[r].p \in Projects
    BY <1>3, RouteOf DEF TypeOK, EnsureMounted, At, Job
  <2>2. RequestsOK' /\ held' \in [Projects -> Requests \cup {Free}]
    BY <1>3, AnswerTyped DEF TypeOK, EnsureMounted
  <2>3. DisksOK'
    <3>1. ds[job[r].p].at \in Names \cup {Off}
      BY <1>3, <2>1, ExistingTyped DEF EnsureMounted, TypeOK, DataSet, Names
    <3>2. ds' \in [Names -> DataSet \cup {NoDs}]
      BY <1>3, <2>1, <3>1, MountedTyped DEF EnsureMounted, TypeOK, Names
    <3> QED
      BY <1>3, <2>1, <3>2 DEF EnsureMounted, TypeOK, DisksOK
  <2> QED
    BY <1>3, <2>1, <2>2, <2>3 DEF TypeOK, EnsureMounted, LocksOK, GhostsOK, ghostVars
<1> QED
  BY <1>1, <1>2, <1>3 DEF EnsureStep

LEMMA DeleteTyped ==
    ASSUME TypeOK, NEW r \in Requests, DeleteStep(r)
    PROVE  TypeOK'
<1>0. pc[r] # "idle" /\ job[r] \in Job /\ Fits(job[r]) /\ job[r].op = "delete"
      /\ job[r].p \in Projects
  BY RouteOf DEF TypeOK, DeleteStep, FindDataset, DestroyDataset, DestroyOrigin, RemovePath,
     At, DeleteSteps, Job
<1>1. CASE FindDataset(r)
  <2>1. RequestsOK'
    <3>1. OnRoute("delete", "destroy") /\ OnRoute("delete", "rmdir")
      BY DEF OnRoute, DeleteSteps
    <3>2. ASSUME NEW n \in Origins(job[r].p), Goto(r, "destroy"), Exists(job[r].p),
                 job' = [job EXCEPT ![r].q = n, ![r].snap = ds[job[r].p].origin]
          PROVE  RequestsOK'
      <4> DEFINE j == [job[r] EXCEPT !.q = n, !.snap = ds[job[r].p].origin]
      <4>1. n \in Names /\ ds[job[r].p].origin \in Snaps \cup {NoSnap}
        BY <1>0, <3>2, ExistingTyped DEF Origins, TypeOK, DataSet, Names
      <4>2. j \in Job /\ Fits(j) /\ j.op = "delete"
        BY <1>0, <4>1 DEF Job, Fits
      <4>3. job' = [job EXCEPT ![r] = j]
        BY <3>2 DEF TypeOK, RequestsOK
      <4> HIDE DEF j
      <4> QED
        BY <3>1, <3>2, <4>2, <4>3, MoveTyped DEF TypeOK
    <3>3. ASSUME UNCHANGED job, Goto(r, "destroy") \/ Goto(r, "rmdir")
          PROVE  RequestsOK'
      BY <1>0, <3>1, <3>3, GotoTyped DEF TypeOK
    <3> QED
      BY <1>1, <3>2, <3>3 DEF FindDataset
  <2> QED
    BY <1>1, <2>1 DEF FindDataset, TypeOK, DisksOK, LocksOK, GhostsOK, diskVars, ghostVars
<1>2. CASE DestroyDataset(r)
  <2>1. CASE /\ ds' = Destroyed(job[r].p)
             /\ owed' = [owed EXCEPT ![job[r].p] = Nothing]
             /\ lost' = lost \ {job[r].p}
             /\ Goto(r, IF job[r].snap = NoSnap THEN "rmdir" ELSE "origin")
             /\ UNCHANGED <<held, job>>
    <3>1. OnRoute("delete", "origin") /\ OnRoute("delete", "rmdir")
      BY DEF OnRoute, DeleteSteps
    <3>2. RequestsOK'
      BY <1>0, <2>1, <3>1, GotoTyped DEF TypeOK
    <3>3. DisksOK'
      BY <1>0, <1>2, <2>1, DestroyedTyped DEF DestroyDataset, TypeOK, DisksOK, Names
    <3> QED
      BY <1>2, <2>1, <3>2, <3>3 DEF DestroyDataset, TypeOK, LocksOK, GhostsOK
  <2>2. CASE Answer(r) /\ UNCHANGED <<ds, ghostVars>>
    BY <1>2, <2>2, AnswerTyped
       DEF DestroyDataset, TypeOK, DisksOK, LocksOK, GhostsOK, ghostVars
  <2> QED
    BY <1>2, <2>1, <2>2 DEF DestroyDataset
<1>3. CASE DestroyOrigin(r)
  <2>1. OnRoute("delete", "rmdir")
    BY DEF OnRoute, DeleteSteps
  <2>2. RequestsOK'
    BY <1>0, <1>3, <2>1, GotoTyped DEF DestroyOrigin, TypeOK
  <2>3. DisksOK'
    BY <1>3, DropSnapTyped DEF DestroyOrigin, TypeOK, DisksOK
  <2> QED
    BY <1>3, <2>2, <2>3 DEF DestroyOrigin, TypeOK, LocksOK, GhostsOK, ghostVars
<1>4. CASE RemovePath(r)
  <2>1. RequestsOK' /\ held' \in [Projects -> Requests \cup {Free}]
    BY <1>4, AnswerTyped DEF RemovePath, TypeOK
  <2>2. DisksOK'
    BY <1>0, <1>4, WipedTyped DEF RemovePath, TypeOK, DisksOK
  <2> QED
    BY <1>4, <2>1, <2>2 DEF RemovePath, TypeOK, LocksOK, GhostsOK
<1> QED
  BY <1>1, <1>2, <1>3, <1>4 DEF DeleteStep

(* A snapshot is taken by a clone or by a backup.                           *)
LEMMA SnapshotTyped ==
    ASSUME TypeOK, NEW r \in Requests, pc[r] # "idle", NEW step,
           OnRoute(job[r].op, step), TakeSnapshot(r, step)
    PROVE  TypeOK'
<1>0. job[r] \in Job /\ Fits(job[r]) /\ job[r].p \in Projects /\ job[r].p \in Names
  BY RouteOf DEF TypeOK, Job, Names
<1>1. ASSUME NEW s \in FreshSnaps, Exists(job[r].p),
             ds' = [ds EXCEPT ![job[r].p].snaps = @ \cup {s}],
             job' = [job EXCEPT ![r].snap = s, ![r].data = ds[job[r].p].data],
             Goto(r, step), UNCHANGED held
      PROVE  TypeOK'
  <2> DEFINE p == job[r].p
             j == [job[r] EXCEPT !.snap = s, !.data = ds[p].data]
             d == [ds[p] EXCEPT !.snaps = @ \cup {s}]
  <2>1. s \in Snaps /\ ds[p] \in DataSet
    BY <1>0, <1>1, ExistingTyped DEF FreshSnaps, TypeOK
  <2>2. j \in Job /\ Fits(j) /\ j.op = job[r].op
    BY <1>0, <2>1 DEF Job, Fits, DataSet
  <2>3. job' = [job EXCEPT ![r] = j]
    BY <1>1 DEF TypeOK, RequestsOK
  <2>4. d \in DataSet
    BY <2>1 DEF DataSet
  <2>5. ds' = [ds EXCEPT ![p] = d]
    BY <1>1 DEF TypeOK, DisksOK
  <2> HIDE DEF j, d
  <2>6. RequestsOK'
    BY <1>1, <2>2, <2>3, MoveTyped DEF TypeOK
  <2>7. DisksOK'
    BY <1>0, <2>4, <2>5, StoreTyped DEF TypeOK, DisksOK, TakeSnapshot
  <2> QED
    BY <1>1, <2>6, <2>7 DEF TakeSnapshot, TypeOK, LocksOK, GhostsOK, ghostVars
<1>2. CASE Answer(r) /\ UNCHANGED ds
  BY <1>2, AnswerTyped DEF TakeSnapshot, TypeOK, DisksOK, LocksOK, GhostsOK, ghostVars
<1> QED
  BY <1>1, <1>2 DEF TakeSnapshot

LEMMA CloneTyped ==
    ASSUME TypeOK, NEW r \in Requests, CloneStep(r)
    PROVE  TypeOK'
<1>0. /\ pc[r] # "idle" /\ job[r] \in Job /\ Fits(job[r]) /\ job[r].op = "clone"
      /\ job[r].p \in Projects /\ job[r].q \in Projects
      /\ job[r].p \in Names /\ job[r].q \in Names
  BY RouteOf DEF TypeOK, CloneStep, CheckClone, SnapshotSource, CloneDataset, FinishClone,
     UndoClone, UndoSnapshot, UndoPath, At, CloneSteps, Job, Fits, Names
<1>a. \A step \in CloneSteps : OnRoute(job[r].op, step)
  BY <1>0 DEF OnRoute
<1>1. CASE CheckClone(r)
  <2>1. CASE Goto(r, "snap") /\ UNCHANGED <<held, job>>
    <3>1. RequestsOK'
      BY <1>0, <1>a, <2>1, GotoTyped DEF TypeOK, CloneSteps
    <3> QED
      BY <1>1, <2>1, <3>1
         DEF CheckClone, TypeOK, DisksOK, LocksOK, GhostsOK, diskVars, ghostVars
  <2>2. CASE Answer(r)
    BY <1>1, <2>2, AnswerTyped
       DEF CheckClone, TypeOK, DisksOK, LocksOK, GhostsOK, diskVars, ghostVars
  <2> QED
    BY <1>1, <2>1, <2>2 DEF CheckClone
<1>2. CASE SnapshotSource(r)
  BY <1>0, <1>a, <1>2, SnapshotTyped DEF SnapshotSource, CloneSteps
<1>3. CASE CloneDataset(r)
  <2>1. RequestsOK'
    BY <1>0, <1>a, <1>3, GotoTyped DEF CloneDataset, TypeOK, CloneSteps
  <2>2. DisksOK'
    <3>1. job[r].data \in Data /\ job[r].snap \in Snaps \cup {NoSnap}
      BY <1>0 DEF Job
    <3>2. \A path \in Names \cup {Off} :
              [ds EXCEPT ![job[r].q] = NewDataSet(job[r].data, job[r].snap, path)]
                  \in [Names -> DataSet \cup {NoDs}]
      BY <1>0, <3>1, NewDataSetTyped, StoreTyped DEF TypeOK
    <3> QED
      BY <1>0, <1>3, <3>2 DEF CloneDataset, TypeOK, DisksOK, diskVars
  <2> QED
    BY <1>3, <2>1, <2>2 DEF CloneDataset, TypeOK, LocksOK, GhostsOK, ghostVars
<1>4. CASE FinishClone(r)
  <2>1. CASE /\ known' = known \cup {job[r].q}
             /\ owed' = [owed EXCEPT ![job[r].q] = job[r].data]
             /\ lost' = lost \ {job[r].q}
             /\ Answer(r)
    <3>1. job[r].data \in Data
      BY <1>0 DEF Job
    <3>2. GhostsOK'
      BY <1>0, <2>1, <3>1 DEF TypeOK, GhostsOK
    <3> QED
      BY <1>0, <1>4, <2>1, <3>2, AnswerTyped
         DEF FinishClone, TypeOK, DisksOK, LocksOK, diskVars
  <2>2. CASE Goto(r, "unclone") /\ UNCHANGED <<known, held, job, ghostVars>>
    <3>1. RequestsOK'
      BY <1>0, <1>a, <2>2, GotoTyped DEF TypeOK, CloneSteps
    <3> QED
      BY <1>4, <2>2, <3>1
         DEF FinishClone, TypeOK, DisksOK, LocksOK, GhostsOK, diskVars, ghostVars
  <2> QED
    BY <1>4, <2>1, <2>2 DEF FinishClone
<1>5. CASE UndoClone(r)
  <2>1. RequestsOK'
    BY <1>0, <1>a, <1>5, GotoTyped DEF UndoClone, TypeOK, CloneSteps
  <2>2. DisksOK'
    BY <1>0, <1>5, DestroyedTyped DEF UndoClone, TypeOK, DisksOK
  <2> QED
    BY <1>5, <2>1, <2>2 DEF UndoClone, TypeOK, LocksOK, GhostsOK, ghostVars
<1>6. CASE UndoSnapshot(r)
  <2>1. RequestsOK'
    BY <1>0, <1>a, <1>6, GotoTyped DEF UndoSnapshot, TypeOK, CloneSteps
  <2>2. DisksOK'
    BY <1>6, DropSnapTyped DEF UndoSnapshot, TypeOK, DisksOK
  <2> QED
    BY <1>6, <2>1, <2>2 DEF UndoSnapshot, TypeOK, LocksOK, GhostsOK, ghostVars
<1>7. CASE UndoPath(r)
  <2>1. DisksOK'
    BY <1>0, <1>7, WipedTyped DEF UndoPath, TypeOK, DisksOK
  <2> QED
    BY <1>7, <2>1, AnswerTyped DEF UndoPath, TypeOK, LocksOK, GhostsOK, ghostVars
<1> QED
  BY <1>1, <1>2, <1>3, <1>4, <1>5, <1>6, <1>7 DEF CloneStep

LEMMA BackupTyped ==
    ASSUME TypeOK, NEW r \in Requests, BackupStep(r)
    PROVE  TypeOK'
<1>0. pc[r] # "idle" /\ job[r].op = "backup"
  BY RouteOf DEF TypeOK, BackupStep, DumpSnapshot, StartSend, FinishSend, DropDump, At,
     BackupSteps
<1>a. \A step \in BackupSteps : OnRoute(job[r].op, step)
  BY <1>0 DEF OnRoute
<1>1. CASE DumpSnapshot(r)
  BY <1>0, <1>a, <1>1, SnapshotTyped DEF DumpSnapshot, BackupSteps
<1>2. CASE StartSend(r) \/ FinishSend(r)
  <2>1. RequestsOK'
    BY <1>0, <1>a, <1>2, GotoTyped DEF StartSend, FinishSend, TypeOK, BackupSteps
  <2> QED
    BY <1>2, <2>1 DEF StartSend, FinishSend, TypeOK, DisksOK, LocksOK, GhostsOK,
       diskVars, ghostVars
<1>3. CASE DropDump(r)
  <2>1. DisksOK'
    BY <1>3, DropSnapTyped DEF DropDump, TypeOK, DisksOK
  <2> QED
    BY <1>3, <2>1, AnswerTyped DEF DropDump, TypeOK, LocksOK, GhostsOK, ghostVars
<1> QED
  BY <1>1, <1>2, <1>3 DEF BackupStep

LEMMA RestoreTyped ==
    ASSUME TypeOK, NEW r \in Requests, RestoreStep(r)
    PROVE  TypeOK'
<1> DEFINE p == job[r].p
           tmp == job[r].tmp
           rb == job[r].rb
<1>0. /\ pc[r] # "idle" /\ job[r] \in Job /\ Fits(job[r]) /\ job[r].op = "restore"
      /\ p \in Projects /\ tmp \in Asides /\ rb \in Asides
      /\ p \in Names /\ tmp \in Names /\ rb \in Names
      /\ job[r].data \in Data
  BY RouteOf DEF TypeOK, RestoreStep, Receive, PrepareTemp, CopyInto, LookTarget, MoveAside,
     Publish, Remount, Mount, Unpublish, PutBack, DropAside, CleanUp, At, RestoreSteps, Job,
     Fits, Names
<1>a. \A step \in RestoreSteps : OnRoute(job[r].op, step)
  BY <1>0 DEF OnRoute
<1>b. \A d \in Data, path \in Names \cup {Off} :
          [ds EXCEPT ![tmp] = NewDataSet(d, NoSnap, path)] \in [Names -> DataSet \cup {NoDs}]
  BY <1>0, NewDataSetTyped, StoreTyped DEF TypeOK
<1>1. CASE Receive(r)
  <2>1. DisksOK'
    BY <1>0, <1>1, <1>b DEF Receive, TypeOK, DisksOK, Data
  <2>2. RequestsOK' /\ held' \in [Projects -> Requests \cup {Free}]
    BY <1>0, <1>a, <1>1, GotoTyped, AnswerTyped DEF Receive, TypeOK, LocksOK, RestoreSteps
  <2>3. GhostsOK'
    BY <1>0, <1>1 DEF Receive, TypeOK, GhostsOK, Lose
  <2> QED
    BY <1>1, <2>1, <2>2, <2>3 DEF Receive, TypeOK, LocksOK
<1>2. CASE PrepareTemp(r)
  <2>1. DisksOK'
    BY <1>0, <1>2, <1>b DEF PrepareTemp, TypeOK, DisksOK, Data
  <2>2. RequestsOK' /\ held' \in [Projects -> Requests \cup {Free}]
    BY <1>0, <1>a, <1>2, GotoTyped, AnswerTyped DEF PrepareTemp, TypeOK, LocksOK, RestoreSteps
  <2>3. GhostsOK'
    BY <1>0, <1>2 DEF PrepareTemp, TypeOK, GhostsOK, Lose
  <2> QED
    BY <1>2, <2>1, <2>2, <2>3 DEF PrepareTemp, TypeOK, LocksOK
<1>3. CASE CopyInto(r)
  <2>1. RequestsOK'
    BY <1>0, <1>a, <1>3, GotoTyped DEF CopyInto, TypeOK, RestoreSteps
  <2>2. DisksOK'
    <3>1. CASE Exists(tmp) /\ ds' = [ds EXCEPT ![tmp].data = job[r].data]
      <4>1. [ds[tmp] EXCEPT !.data = job[r].data] \in DataSet
        BY <1>0, <3>1, ExistingTyped DEF TypeOK, DataSet
      <4>2. ds' = [ds EXCEPT ![tmp] = [ds[tmp] EXCEPT !.data = job[r].data]]
        BY <3>1 DEF TypeOK, DisksOK
      <4> QED
        BY <1>0, <1>3, <4>1, <4>2, StoreTyped DEF CopyInto, TypeOK, DisksOK
    <3>2. CASE UNCHANGED ds
      BY <1>3, <3>2 DEF CopyInto, TypeOK, DisksOK
    <3> QED
      BY <1>3, <3>1, <3>2 DEF CopyInto
  <2> QED
    BY <1>3, <2>1, <2>2 DEF CopyInto, TypeOK, LocksOK, GhostsOK, ghostVars
<1>4. CASE LookTarget(r)
  <2>1. RequestsOK'
    <3>1. CASE UNCHANGED job /\ Goto(r, "publish")
      BY <1>0, <1>a, <3>1, GotoTyped DEF TypeOK, RestoreSteps
    <3>2. CASE /\ job' = [job EXCEPT ![r].had = Exists(p)]
               /\ Goto(r, IF Exists(p) THEN "aside" ELSE "publish")
      <4> DEFINE j == [job[r] EXCEPT !.had = Exists(p)]
                 step == IF Exists(p) THEN "aside" ELSE "publish"
      <4>1. Exists(p) \in BOOLEAN
        BY DEF Exists
      <4>2. j \in Job /\ Fits(j) /\ j.op = "restore"
        BY <1>0, <4>1 DEF Job, Fits
      <4>3. job' = [job EXCEPT ![r] = j]
        BY <3>2 DEF TypeOK, RequestsOK
      <4>4. OnRoute("restore", step)
        BY DEF OnRoute, RestoreSteps
      <4> HIDE DEF j
      <4> QED
        BY <3>2, <4>2, <4>3, <4>4, MoveTyped DEF TypeOK
    <3> QED
      BY <1>4, <3>1, <3>2 DEF LookTarget
  <2> QED
    BY <1>4, <2>1 DEF LookTarget, TypeOK, DisksOK, LocksOK, GhostsOK, diskVars, ghostVars
<1>5. CASE MoveAside(r)
  <2>1. RequestsOK'
    BY <1>0, <1>a, <1>5, GotoTyped DEF MoveAside, TypeOK, RestoreSteps
  <2>2. DisksOK'
    BY <1>0, <1>5, RenamedTyped DEF MoveAside, TypeOK, DisksOK
  <2> QED
    BY <1>5, <2>1, <2>2 DEF MoveAside, TypeOK, LocksOK, GhostsOK, ghostVars
<1>6. CASE Publish(r)
  <2>1. RequestsOK'
    BY <1>0, <1>a, <1>6, GotoTyped DEF Publish, TypeOK, RestoreSteps
  <2>2. DisksOK'
    BY <1>0, <1>6, RenamedTyped DEF Publish, TypeOK, DisksOK
  <2> QED
    BY <1>6, <2>1, <2>2 DEF Publish, TypeOK, LocksOK, GhostsOK, ghostVars
<1>7. CASE Remount(r)
  <2>1. RequestsOK'
    BY <1>0, <1>a, <1>7, GotoTyped DEF Remount, TypeOK, RestoreSteps
  <2>2. DisksOK'
    BY <1>0, <1>7, MountedTyped DEF Remount, TypeOK, DisksOK, diskVars
  <2> QED
    BY <1>7, <2>1, <2>2 DEF Remount, TypeOK, LocksOK, GhostsOK, ghostVars
<1>8. CASE Mount(r)
  <2>1. RequestsOK'
    BY <1>0, <1>a, <1>8, GotoTyped DEF Mount, TypeOK, RestoreSteps
  <2>2. DisksOK'
    BY <1>0, <1>8, MountedTyped DEF Mount, TypeOK, DisksOK, diskVars
  <2>3. GhostsOK'
    BY <1>0, <1>8 DEF Mount, TypeOK, GhostsOK, ghostVars
  <2> QED
    BY <1>8, <2>1, <2>2, <2>3 DEF Mount, TypeOK, LocksOK
<1>9. CASE Unpublish(r)
  <2>1. RequestsOK'
    BY <1>0, <1>a, <1>9, GotoTyped DEF Unpublish, TypeOK, RestoreSteps
  <2>2. DisksOK' /\ GhostsOK'
    BY <1>0, <1>9, RenamedTyped DEF Unpublish, TypeOK, DisksOK, GhostsOK, Lose
  <2> QED
    BY <1>9, <2>1, <2>2 DEF Unpublish, TypeOK, LocksOK
<1>10. CASE PutBack(r)
  <2>1. RequestsOK'
    BY <1>0, <1>a, <1>10, GotoTyped DEF PutBack, TypeOK, RestoreSteps
  <2>2. DisksOK' /\ GhostsOK'
    BY <1>0, <1>10, RenamedTyped DEF PutBack, TypeOK, DisksOK, GhostsOK
  <2> QED
    BY <1>10, <2>1, <2>2 DEF PutBack, TypeOK, LocksOK
<1>11. CASE DropAside(r)
  <2>1. RequestsOK'
    BY <1>0, <1>a, <1>11, GotoTyped DEF DropAside, TypeOK, RestoreSteps
  <2>2. DisksOK' /\ GhostsOK'
    BY <1>0, <1>11, DiscardTyped DEF DropAside, TypeOK, DisksOK, GhostsOK
  <2> QED
    BY <1>0, <1>11, <2>1, <2>2 DEF DropAside, TypeOK, LocksOK
<1>12. CASE CleanUp(r)
  <2>1. DisksOK' /\ GhostsOK'
    BY <1>0, <1>12, DiscardTyped DEF CleanUp, TypeOK, DisksOK, GhostsOK
  <2> QED
    BY <1>12, <2>1, AnswerTyped DEF CleanUp, TypeOK, LocksOK
<1> QED
  BY <1>1, <1>2, <1>3, <1>4, <1>5, <1>6, <1>7, <1>8, <1>9, <1>10, <1>11, <1>12
     DEF RestoreStep

LEMMA CrashTyped ==
    ASSUME TypeOK, Crash
    PROVE  TypeOK'
<1>1. RequestsOK'
  BY DEF Crash, RequestsOK
<1>2. LocksOK' /\ crashes' \in Nat
  BY DEF TypeOK, Crash, LocksOK
<1>3. GhostsOK'
  <2>1. ASSUME NEW r \in Requests
        PROVE  Touched(r) \subseteq Names
    BY RouteOf DEF TypeOK, Touched, MidSwap, RestoreSteps, Job, Fits, Names
  <2> QED
    BY <2>1 DEF TypeOK, GhostsOK, Crash
<1> QED
  BY <1>1, <1>2, <1>3 DEF TypeOK, Crash, DisksOK, diskVars

LEMMA InitTyped == Init => TypeOK
<1> SUFFICES ASSUME Init PROVE TypeOK
  OBVIOUS
<1>1. DisksOK
  <2>1. [data : Trees, snaps : {{}}, origin : {NoSnap}, at : Projects] \subseteq DataSet
    BY DEF DataSet, Data, Names
  <2>2. ds \in [Names -> DataSet \cup {NoDs}]
    BY <2>1 DEF Init
  <2> QED
    BY <2>2 DEF Init, DisksOK
<1>2. RequestsOK
  BY DEF Init, RequestsOK
<1>3. GhostsOK
  <2>1. \A p \in Projects : ds[p] # NoDs => ds[p].data \in Data
    BY <1>1 DEF DisksOK, DataSet, Names
  <2> QED
    BY <2>1 DEF Init, GhostsOK
<1> QED
  BY <1>1, <1>2, <1>3 DEF Init, TypeOK, LocksOK

LEMMA TypeInductive ==
    ASSUME TypeOK, [Next]_vars
    PROVE  TypeOK'
<1>1. ASSUME NEW r \in Requests, Ask(r) \/ TakeLock(r) \/ Work(r)
      PROVE  TypeOK'
  BY <1>1, AskTyped, TakeLockTyped, EnsureTyped, DeleteTyped, CloneTyped, BackupTyped,
     RestoreTyped DEF Work
<1>2. CASE UNCHANGED vars
  BY <1>2 DEF vars, diskVars, requestVars, ghostVars, TypeOK, DisksOK, LocksOK, RequestsOK,
     GhostsOK, Fits
<1> QED
  BY <1>1, <1>2, CrashTyped DEF Next

(* In every reachable state each variable is in its type, and a request at  *)
(* a step has what the step works on, whatever the zfs commands answer and  *)
(* whenever the service dies.                                               *)
THEOREM TypeCorrect == Spec => []TypeOK
<1> QED
  BY InitTyped, TypeInductive, PTL DEF Spec

-----------------------------------------------------------------------------
(* The locks.  A lock is of a request that runs, and comes before every     *)
(* lock that its holder has still to take.                                  *)

Ordered(r, p) ==
    /\ pc[r] # "idle"
    /\ p \notin job[r].need
    /\ \A q \in job[r].need : Rank[p] < Rank[q]

LocksOrdered == \A p \in Projects, r \in Requests : held[p] = r => Ordered(r, p)

\* What a step between the locks and the answer does to them: nothing.
HoldsOn(r) ==
    /\ UNCHANGED held
    /\ pc'[r] # "idle"
    /\ job'[r].need = job[r].need
    /\ \A o \in Requests \ {r} : pc'[o] = pc[o] /\ job'[o] = job[o]

LEMMA GotoHolds ==
    ASSUME RequestsOK, NEW r \in Requests, NEW step, step # "idle", Goto(r, step),
           UNCHANGED <<held, job>>
    PROVE  HoldsOn(r)
  BY DEF RequestsOK, HoldsOn, Goto

LEMMA SnapshotHolds ==
    ASSUME TypeOK, NEW r \in Requests, pc[r] # "idle", NEW step, step # "idle",
           TakeSnapshot(r, step)
    PROVE  Answer(r) \/ HoldsOn(r)
<1>0. job[r] \in Job
  BY RouteOf DEF TypeOK
<1>1. ASSUME NEW s, job' = [job EXCEPT ![r].snap = s, ![r].data = ds[job[r].p].data],
             Goto(r, step), UNCHANGED held
      PROVE  HoldsOn(r)
  BY <1>0, <1>1 DEF TypeOK, RequestsOK, HoldsOn, Goto, Job
<1> QED
  BY <1>1 DEF TakeSnapshot

LEMMA WorkHolds ==
    ASSUME TypeOK, NEW r \in Requests, Work(r)
    PROVE  Answer(r) \/ HoldsOn(r)
<1>1. CASE EnsureStep(r)
  BY <1>1, GotoHolds DEF TypeOK, EnsureStep, EnsureCached, EnsureDataset, EnsureFails,
     EnsureMounted
<1>2. CASE DeleteStep(r)
  <2>1. CASE FindDataset(r)
    <3>0. job[r] \in Job
      BY <2>1, RouteOf DEF TypeOK, FindDataset, At
    <3>1. ASSUME NEW n, job' = [job EXCEPT ![r].q = n, ![r].snap = ds[job[r].p].origin],
                 Goto(r, "destroy"), UNCHANGED held
          PROVE  HoldsOn(r)
      BY <3>0, <3>1 DEF TypeOK, RequestsOK, HoldsOn, Goto, Job
    <3> QED
      BY <2>1, <3>1, GotoHolds DEF TypeOK, FindDataset
  <2>2. CASE DestroyDataset(r)
    BY <2>2, GotoHolds DEF TypeOK, DestroyDataset
  <2>3. CASE DestroyOrigin(r) \/ RemovePath(r)
    BY <2>3, GotoHolds DEF TypeOK, DestroyOrigin, RemovePath
  <2> QED
    BY <1>2, <2>1, <2>2, <2>3 DEF DeleteStep
<1>3. CASE CloneStep(r)
  <2>1. CASE SnapshotSource(r)
    BY <2>1, SnapshotHolds DEF SnapshotSource, At
  <2>2. CASE CheckClone(r) \/ CloneDataset(r) \/ FinishClone(r)
    BY <2>2, GotoHolds DEF TypeOK, CheckClone, CloneDataset, FinishClone
  <2>3. CASE UndoClone(r) \/ UndoSnapshot(r) \/ UndoPath(r)
    BY <2>3, GotoHolds DEF TypeOK, UndoClone, UndoSnapshot, UndoPath
  <2> QED
    BY <1>3, <2>1, <2>2, <2>3 DEF CloneStep
<1>4. CASE BackupStep(r)
  <2>1. CASE DumpSnapshot(r)
    BY <2>1, SnapshotHolds DEF DumpSnapshot, At
  <2>2. CASE StartSend(r) \/ FinishSend(r) \/ DropDump(r)
    BY <2>2, GotoHolds DEF TypeOK, StartSend, FinishSend, DropDump
  <2> QED
    BY <1>4, <2>1, <2>2 DEF BackupStep
<1>5. CASE RestoreStep(r)
  <2>1. CASE LookTarget(r)
    <3>0. job[r] \in Job
      BY <2>1, RouteOf DEF TypeOK, LookTarget, At
    <3>1. ASSUME NEW b, NEW step, step # "idle", job' = [job EXCEPT ![r].had = b],
                 Goto(r, step), UNCHANGED held
          PROVE  HoldsOn(r)
      BY <3>0, <3>1 DEF TypeOK, RequestsOK, HoldsOn, Goto, Job
    <3> QED
      BY <2>1, <3>1, GotoHolds DEF TypeOK, LookTarget
  <2>2. CASE Receive(r) \/ PrepareTemp(r) \/ CopyInto(r)
    BY <2>2, GotoHolds DEF TypeOK, Receive, PrepareTemp, CopyInto
  <2>3. CASE MoveAside(r) \/ Publish(r) \/ Remount(r) \/ Mount(r)
    BY <2>3, GotoHolds DEF TypeOK, MoveAside, Publish, Remount, Mount
  <2>4. CASE Unpublish(r) \/ PutBack(r) \/ DropAside(r) \/ CleanUp(r)
    BY <2>4, GotoHolds DEF TypeOK, Unpublish, PutBack, DropAside, CleanUp
  <2> QED
    BY <1>5, <2>1, <2>2, <2>3, <2>4 DEF RestoreStep
<1> QED
  BY <1>1, <1>2, <1>3, <1>4, <1>5 DEF Work

LEMMA HoldsOnOrdered ==
    ASSUME TypeOK, LocksOrdered, NEW r \in Requests, HoldsOn(r)
    PROVE  LocksOrdered'
  BY DEF LocksOrdered, HoldsOn, Ordered

LEMMA AnswerOrdered ==
    ASSUME TypeOK, LocksOrdered, NEW r \in Requests, Answer(r)
    PROVE  LocksOrdered'
<1>1. ASSUME NEW p \in Projects, NEW o \in Requests, held'[p] = o
      PROVE  Ordered(o, p)'
  <2>1. o # r /\ held[p] = o
    BY <1>1, ZfsAssumption DEF Answer
  <2> QED
    BY <2>1 DEF LocksOrdered, Ordered, Answer, Goto, TypeOK, RequestsOK
<1> QED
  BY <1>1 DEF LocksOrdered

LEMMA BeginOrdered ==
    ASSUME TypeOK, LocksOrdered, NEW r \in Requests, NEW j, NEW step, Begin(r, j, step)
    PROVE  LocksOrdered'
<1>1. ASSUME NEW p \in Projects, NEW o \in Requests, held'[p] = o
      PROVE  Ordered(o, p)'
  <2>1. o # r /\ Ordered(o, p)
    BY <1>1 DEF LocksOrdered, Ordered, Begin, At
  <2> QED
    BY <2>1 DEF Ordered, Begin, Goto, TypeOK, RequestsOK
<1> QED
  BY <1>1 DEF LocksOrdered

LEMMA TakeLockOrdered ==
    ASSUME TypeOK, LocksOrdered, NEW r \in Requests, TakeLock(r)
    PROVE  LocksOrdered'
<1>1. job[r] \in Job /\ pc[r] # "idle"
  BY RouteOf DEF TypeOK, TakeLock, At
<1>2. PICK l \in NextLock(job[r]) :
          /\ held' = [held EXCEPT ![l] = r]
          /\ job' = [job EXCEPT ![r].need = @ \ {l}]
          /\ IF job[r].need = {l} THEN Goto(r, FirstStep(job[r].op)) ELSE UNCHANGED pc
  BY DEF TakeLock
<1>3. job'[r].need = job[r].need \ {l} /\ pc'[r] # "idle"
  BY <1>1, <1>2 DEF TypeOK, RequestsOK, Job, Goto, FirstStep
<1>4. \A o \in Requests \ {r} : job'[o] = job[o] /\ pc'[o] = pc[o]
  BY <1>2 DEF TypeOK, RequestsOK, Goto
<1>5. l \in Projects /\ \A q \in job[r].need \ {l} : Rank[l] < Rank[q]
  <2>1. job[r].need \subseteq Projects
    BY <1>1 DEF Job
  <2> QED
    BY <2>1, ZfsAssumption, FS_CardinalityType DEF NextLock
<1>6. ASSUME NEW p \in Projects, NEW o \in Requests, held'[p] = o
      PROVE  Ordered(o, p)'
  <2>1. CASE p = l
    <3>1. o = r
      BY <1>2, <1>6, <2>1 DEF TypeOK, LocksOK
    <3> QED
      BY <1>3, <1>5, <2>1, <3>1 DEF Ordered
  <2>2. CASE p # l
    <3>1. Ordered(o, p)
      BY <1>2, <1>6, <2>2 DEF TypeOK, LocksOK, LocksOrdered
    <3> QED
      BY <1>3, <1>4, <3>1 DEF Ordered
  <2> QED
    BY <2>1, <2>2
<1> QED
  BY <1>6 DEF LocksOrdered

LEMMA OrderInductive ==
    ASSUME TypeOK, LocksOrdered, [Next]_vars
    PROVE  LocksOrdered'
<1>1. ASSUME NEW r \in Requests, Ask(r)
      PROVE  LocksOrdered'
  BY <1>1, BeginOrdered DEF Ask, AskEnsure, AskDelete, AskClone, AskBackup, AskRestore
<1>2. ASSUME NEW r \in Requests, Work(r)
      PROVE  LocksOrdered'
  BY <1>2, WorkHolds, AnswerOrdered, HoldsOnOrdered
<1>3. CASE Crash
  BY <1>3, ZfsAssumption DEF Crash, LocksOrdered
<1>4. CASE UNCHANGED vars
  BY <1>4 DEF vars, requestVars, LocksOrdered, Ordered
<1> QED
  BY <1>1, <1>2, <1>3, <1>4, TakeLockOrdered DEF Next

(* Of finitely many locks one is the last.                                  *)
LEMMA LastInOrder ==
    ASSUME NEW W \in SUBSET Projects, W # {}
    PROVE  \E p \in W : \A q \in W : ~(Rank[p] < Rank[q])
<1> DEFINE R == OpToRel(<, Nat)
           gap(p) == Cardinality(Projects) - Rank[p]
           T == {gap(p) : p \in W}
<1>0. Cardinality(Projects) \in Nat /\ \A p \in W : Rank[p] \in 1 .. Cardinality(Projects)
  BY ZfsAssumption, FS_CardinalityType
<1>1. T \subseteq Nat /\ T # {}
  BY <1>0
<1>2. IsWellFoundedOn(R, Nat)
  BY NatLessThanWellFounded
<1> HIDE DEF T
<1>3. PICK n \in T : \A m \in T : ~(<<m, n>> \in R)
  BY <1>1, <1>2, WFMin
<1>4. PICK p \in W : n = gap(p)
  BY <1>3 DEF T
<1>5. ASSUME NEW q \in W, Rank[p] < Rank[q]
      PROVE  FALSE
  <2>1. gap(q) \in T /\ gap(q) \in Nat /\ n \in Nat
    BY <1>1, <1>3 DEF T
  <2>2. gap(q) < n
    BY <1>0, <1>4, <1>5
  <2>3. <<gap(q), n>> \in R
    BY <2>1, <2>2 DEF OpToRel
  <2> QED
    BY <1>3, <2>1, <2>3
<1> QED
  BY <1>5

(* In a circle every lock waited for is held by one who waits for a later   *)
(* one, and there is a last one.                                            *)
LEMMA OrderBreaksCircles == ASSUME TypeOK, LocksOrdered PROVE NoCircle
<1> SUFFICES ASSUME NEW S \in SUBSET Requests, S # {},
                    \A r \in S : \E other \in S : Waits(r, other)
             PROVE  FALSE
  BY DEF NoCircle
<1> DEFINE Wanted == {p \in Projects : held[p] \in S}
<1>1. ASSUME NEW r \in S
      PROVE  \E p \in Wanted : p \in job[r].need
  <2>1. job[r] \in Job
    BY RouteOf DEF TypeOK, Waits, At
  <2> QED
    BY <2>1 DEF Waits, NextLock, Job
<1>2. Wanted # {}
  BY <1>1
<1>3. PICK p \in Wanted : \A q \in Wanted : ~(Rank[p] < Rank[q])
  BY <1>2, LastInOrder
<1>4. PICK q \in Wanted : q \in job[held[p]].need
  BY <1>1
<1>5. Rank[p] < Rank[q]
  BY <1>4 DEF LocksOrdered, Ordered
<1> QED
  BY <1>3, <1>5

(* However many requests lock names, one of any that wait waits for nobody  *)
(* among them: CloneZFS's sorted locks cannot deadlock with one another or  *)
(* with Ensure and Delete.                                                  *)
THEOREM LocksFree == Spec => []NoCircle
<1>1. Init => LocksOrdered
  BY ZfsAssumption DEF Init, LocksOrdered
<1> QED
  BY <1>1, OrderInductive, OrderBreaksCircles, TypeCorrect, PTL DEF Spec

-----------------------------------------------------------------------------
(* The names of restores.  Nobody else gives a dataset one of them, and at  *)
(* each step the restore knows which of its two names may be in use.        *)

Elsewhere(r) == \A o \in Requests \ {r} : pc'[o] = pc[o] /\ job'[o] = job[o]

\* Asides that are not in N do not come into being, and none is found again.
Steady(N) == \A a \in Asides : /\ a \in lost => a \in lost'
                               /\ a \notin N /\ ds'[a] # NoDs => Exists(a)

Own(r) == {job[r].tmp, job[r].rb}

Prepared(r) ==
    /\ job[r].tmp # job[r].rb
    /\ pc[r] \in {"receive", "prepare"} => ~Exists(job[r].tmp)
    /\ pc[r] \in {"receive", "prepare", "copy", "look", "aside"} \/ ~job[r].had
           => ~Exists(job[r].rb)
    /\ pc[r] = "aside" => job[r].had
    /\ pc[r] = "cleanup" => ~Exists(job[r].rb) \/ job[r].rb \in lost

Apart ==
    \A r, o \in Requests :
        pc[r] \in RestoreSteps /\ pc[o] \in RestoreSteps /\ r # o => Own(r) \cap Own(o) = {}

Accounted ==
    /\ \A a \in Asides : Exists(a) =>
           a \in lost \/ \E r \in Requests : pc[r] \in RestoreSteps /\ a \in Own(r)
    /\ \A r \in Requests : pc[r] \in RestoreSteps => Prepared(r)
    /\ Apart

LEMMA DropSnapSteady ==
    ASSUME DisksOK, NEW n, NEW s, DropSnap(n, s), UNCHANGED lost
    PROVE  Steady({})
<1>1. ASSUME NEW a \in Asides, ds'[a] # NoDs
      PROVE  Exists(a)
  <2>1. CASE CanDropSnap(n, s) /\ ds' = [ds EXCEPT ![n].snaps = @ \ {s}]
    <3>1. Exists(n) /\ (a # n => ds'[a] = ds[a])
      BY <2>1 DEF CanDropSnap, DisksOK, Names
    <3> QED
      BY <1>1, <3>1 DEF Exists
  <2>2. CASE UNCHANGED ds
    BY <1>1, <2>2 DEF Exists
  <2> QED
    BY <2>1, <2>2 DEF DropSnap
<1> QED
  BY <1>1 DEF Steady

LEMMA WipedSteady ==
    ASSUME DisksOK, NEW p \in Projects, ds' = WipedAt(p), UNCHANGED lost
    PROVE  Steady({})
<1>1. ASSUME NEW a \in Asides, ds'[a] # NoDs
      PROVE  Exists(a)
  <2>1. CASE a \in Top(p)
    BY <2>1 DEF Top, MountedAt
  <2>2. CASE a \notin Top(p)
    BY <1>1, <2>2 DEF WipedAt, Names, Exists
  <2> QED
    BY <2>1, <2>2
<1> QED
  BY <1>1 DEF Steady

\* A step of a request that is not a restore, and does not become one.
Aloof(r) == /\ Elsewhere(r)
            /\ Steady({})
            /\ pc[r] \notin RestoreSteps
            /\ pc'[r] \notin RestoreSteps

LEMMA MovesElsewhere ==
    ASSUME RequestsOK, NEW r \in Requests, NEW step, Goto(r, step),
           UNCHANGED job \/ \E j : job' = [job EXCEPT ![r] = j]
    PROVE  Elsewhere(r) /\ pc'[r] = step
  BY DEF RequestsOK, Goto, Elsewhere

LEMMA AnswerElsewhere ==
    ASSUME RequestsOK, NEW r \in Requests, Answer(r)
    PROVE  Elsewhere(r) /\ pc'[r] = "idle"
  BY MovesElsewhere DEF Answer

LEMMA AskAloof ==
    ASSUME TypeOK, NEW r \in Requests, NEW p \in Projects,
           \/ AskEnsure(r, p)
           \/ AskDelete(r, p)
           \/ \E q \in Projects : AskClone(r, p, q)
           \/ AskBackup(r, p)
    PROVE  Aloof(r)
<1>1. ASSUME NEW j, NEW step \in {"lock", "dump"}, Begin(r, j, step)
      PROVE  Aloof(r)
  <2>1. Elsewhere(r) /\ pc'[r] = step
    BY <1>1, MovesElsewhere DEF Begin, TypeOK
  <2> QED
    BY <1>1, <2>1 DEF Begin, Aloof, Steady, Exists, At, RestoreSteps, diskVars, ghostVars
<1> QED
  BY <1>1 DEF AskEnsure, AskDelete, AskClone, AskBackup

LEMMA TakeLockAloof ==
    ASSUME TypeOK, NEW r \in Requests, TakeLock(r)
    PROVE  Aloof(r)
<1>1. Elsewhere(r)
  BY DEF TakeLock, TypeOK, RequestsOK, Goto, Elsewhere
<1>2. pc'[r] \in {"lock", "ensure", "find", "check"}
  BY DEF TakeLock, At, TypeOK, RequestsOK, Goto, FirstStep
<1> QED
  BY <1>1, <1>2 DEF TakeLock, Aloof, Steady, Exists, At, RestoreSteps, diskVars, ghostVars

LEMMA EnsureAloof ==
    ASSUME TypeOK, NEW r \in Requests, EnsureStep(r)
    PROVE  Aloof(r)
<1>1. pc[r] \in EnsureSteps /\ job[r].p \in Projects
  BY RouteOf DEF TypeOK, EnsureStep, EnsureCached, EnsureDataset, EnsureFails, EnsureMounted,
     At, EnsureSteps, Job
<1>2. Elsewhere(r) /\ pc'[r] \in {"attach", "idle"}
  BY MovesElsewhere, AnswerElsewhere
     DEF TypeOK, EnsureStep, EnsureCached, EnsureDataset, EnsureFails, EnsureMounted
<1>3. \A a \in Asides : ds'[a] = ds[a]
  BY <1>1, ZfsAssumption DEF TypeOK, DisksOK, EnsureStep, EnsureCached, EnsureDataset,
     EnsureFails, EnsureMounted, MountedDs, Names, diskVars
<1>4. UNCHANGED lost
  BY DEF EnsureStep, EnsureCached, EnsureDataset, EnsureFails, EnsureMounted, ghostVars
<1> QED
  BY <1>1, <1>2, <1>3, <1>4 DEF Aloof, Steady, Exists, EnsureSteps, RestoreSteps

LEMMA DeleteAloof ==
    ASSUME TypeOK, NEW r \in Requests, DeleteStep(r)
    PROVE  Aloof(r)
<1>1. pc[r] \in DeleteSteps /\ job[r].p \in Projects
  BY RouteOf DEF TypeOK, DeleteStep, FindDataset, DestroyDataset, DestroyOrigin, RemovePath,
     At, DeleteSteps, Job
<1>2. Elsewhere(r) /\ pc'[r] \in DeleteSteps \cup {"idle"}
  <2>1. CASE FindDataset(r)
    BY <2>1 DEF FindDataset, TypeOK, RequestsOK, Goto, Elsewhere, DeleteSteps
  <2>2. CASE DestroyDataset(r) \/ DestroyOrigin(r) \/ RemovePath(r)
    BY <2>2, MovesElsewhere, AnswerElsewhere
       DEF TypeOK, DestroyDataset, DestroyOrigin, RemovePath, DeleteSteps
  <2> QED
    BY <2>1, <2>2 DEF DeleteStep
<1>3. Steady({})
  <2>1. CASE FindDataset(r)
    BY <2>1 DEF FindDataset, Steady, Exists, diskVars, ghostVars
  <2>2. CASE DestroyDataset(r)
    BY <1>1, <2>2, ZfsAssumption
       DEF DestroyDataset, Destroyed, Steady, Exists, TypeOK, DisksOK, Names, ghostVars
  <2>3. CASE DestroyOrigin(r)
    BY <2>3, DropSnapSteady DEF DestroyOrigin, TypeOK, ghostVars
  <2>4. CASE RemovePath(r)
    BY <1>1, <2>4, WipedSteady DEF RemovePath, TypeOK
  <2> QED
    BY <2>1, <2>2, <2>3, <2>4 DEF DeleteStep
<1> QED
  BY <1>1, <1>2, <1>3 DEF Aloof, DeleteSteps, RestoreSteps

LEMMA SnapshotAloof ==
    ASSUME TypeOK, NEW r \in Requests, NEW step, TakeSnapshot(r, step),
           job[r].p \in Projects
    PROVE  Elsewhere(r) /\ pc'[r] \in {step, "idle"} /\ Steady({})
<1>1. Elsewhere(r) /\ pc'[r] \in {step, "idle"}
  BY AnswerElsewhere DEF TakeSnapshot, TypeOK, RequestsOK, Goto, Elsewhere
<1>2. \A a \in Asides : ds'[a] = ds[a]
  BY ZfsAssumption DEF TakeSnapshot, TypeOK, DisksOK, Names
<1> QED
  BY <1>1, <1>2 DEF TakeSnapshot, Steady, Exists, ghostVars

LEMMA CloneAloof ==
    ASSUME TypeOK, NEW r \in Requests, CloneStep(r)
    PROVE  Aloof(r)
<1>1. pc[r] \in CloneSteps /\ job[r].p \in Projects /\ job[r].q \in Projects
  BY RouteOf DEF TypeOK, CloneStep, CheckClone, SnapshotSource, CloneDataset, FinishClone,
     UndoClone, UndoSnapshot, UndoPath, At, CloneSteps, Job, Fits
<1>2. Elsewhere(r) /\ pc'[r] \in CloneSteps \cup {"idle"}
  <2>1. CASE SnapshotSource(r)
    BY <1>1, <2>1, SnapshotAloof DEF SnapshotSource, CloneSteps
  <2>2. CASE CheckClone(r) \/ CloneDataset(r) \/ FinishClone(r)
    BY <2>2, MovesElsewhere, AnswerElsewhere
       DEF TypeOK, CheckClone, CloneDataset, FinishClone, CloneSteps
  <2>3. CASE UndoClone(r) \/ UndoSnapshot(r) \/ UndoPath(r)
    BY <2>3, MovesElsewhere, AnswerElsewhere
       DEF TypeOK, UndoClone, UndoSnapshot, UndoPath, CloneSteps
  <2> QED
    BY <2>1, <2>2, <2>3 DEF CloneStep
<1>3. Steady({})
  <2>1. CASE SnapshotSource(r)
    BY <1>1, <2>1, SnapshotAloof DEF SnapshotSource
  <2>2. CASE CheckClone(r) \/ CloneDataset(r) \/ FinishClone(r) \/ UndoClone(r)
    BY <1>1, <2>2, ZfsAssumption DEF CheckClone, CloneDataset, FinishClone, UndoClone,
       Destroyed, Steady, Exists, TypeOK, DisksOK, Names, diskVars, ghostVars
  <2>3. CASE UndoSnapshot(r)
    BY <2>3, DropSnapSteady DEF UndoSnapshot, TypeOK, ghostVars
  <2>4. CASE UndoPath(r)
    BY <1>1, <2>4, WipedSteady DEF UndoPath, TypeOK, ghostVars
  <2> QED
    BY <2>1, <2>2, <2>3, <2>4 DEF CloneStep
<1> QED
  BY <1>1, <1>2, <1>3 DEF Aloof, CloneSteps, RestoreSteps

LEMMA BackupAloof ==
    ASSUME TypeOK, NEW r \in Requests, BackupStep(r)
    PROVE  Aloof(r)
<1>1. pc[r] \in BackupSteps /\ job[r].p \in Projects
  BY RouteOf DEF TypeOK, BackupStep, DumpSnapshot, StartSend, FinishSend, DropDump, At,
     BackupSteps, Job
<1>2. CASE DumpSnapshot(r)
  BY <1>1, <1>2, SnapshotAloof DEF DumpSnapshot, Aloof, BackupSteps, RestoreSteps
<1>3. CASE StartSend(r) \/ FinishSend(r)
  <2>1. Elsewhere(r) /\ pc'[r] \in BackupSteps
    BY <1>3, MovesElsewhere DEF TypeOK, StartSend, FinishSend, BackupSteps
  <2> QED
    BY <1>1, <1>3, <2>1 DEF StartSend, FinishSend, Aloof, Steady, Exists, BackupSteps,
       RestoreSteps, diskVars, ghostVars
<1>4. CASE DropDump(r)
  BY <1>1, <1>4, DropSnapSteady, AnswerElsewhere
     DEF DropDump, TypeOK, Aloof, BackupSteps, RestoreSteps, ghostVars
<1> QED
  BY <1>2, <1>3, <1>4 DEF BackupStep

LEMMA AloofAccounted ==
    ASSUME TypeOK, Accounted, NEW r \in Requests, Aloof(r)
    PROVE  Accounted'
<1>1. ASSUME NEW o \in Requests, pc'[o] \in RestoreSteps
      PROVE  o # r /\ pc[o] \in RestoreSteps /\ job'[o] = job[o] /\ pc'[o] = pc[o]
  BY <1>1 DEF Aloof, Elsewhere
<1>2. \A o \in Requests : pc'[o] \in RestoreSteps =>
          job[o].tmp \in Asides /\ job[o].rb \in Asides
  BY <1>1, RouteOf DEF TypeOK, Fits, RestoreSteps
<1>3. \A o \in Requests : pc'[o] \in RestoreSteps => Prepared(o)'
  BY <1>1, <1>2 DEF Accounted, Prepared, Aloof, Steady, Exists
<1>4. Apart'
  BY <1>1 DEF Accounted, Apart, Own
<1>5. ASSUME NEW a \in Asides, Exists(a)'
      PROVE  a \in lost' \/ \E o \in Requests : pc'[o] \in RestoreSteps /\ a \in Own(o)'
  <2>1. Exists(a) /\ (a \in lost => a \in lost')
    BY <1>5 DEF Aloof, Steady, Exists
  <2>2. CASE a \in lost
    BY <2>1, <2>2
  <2>3. CASE \E o \in Requests : pc[o] \in RestoreSteps /\ a \in Own(o)
    BY <2>3 DEF Aloof, Elsewhere, Own
  <2> QED
    BY <2>1, <2>2, <2>3 DEF Accounted
<1> QED
  BY <1>3, <1>4, <1>5 DEF Accounted

(* A restore goes on with its two names, or returns and leaves neither      *)
(* unaccounted for.                                                         *)
Continues(r) ==
    /\ pc'[r] \in RestoreSteps
    /\ job'[r].tmp = job[r].tmp /\ job'[r].rb = job[r].rb
    /\ Prepared(r)'

Ends(r) ==
    /\ pc'[r] = "idle"
    /\ \A a \in Own(r) : ds'[a] # NoDs => a \in lost'

LEMMA RestoreAccounted ==
    ASSUME TypeOK, Accounted, NEW r \in Requests, pc[r] \in RestoreSteps,
           Elsewhere(r), Steady(Own(r)), Continues(r) \/ Ends(r)
    PROVE  Accounted'
<1>1. ASSUME NEW o \in Requests, o # r, pc'[o] \in RestoreSteps
      PROVE  /\ pc[o] \in RestoreSteps /\ job'[o] = job[o] /\ pc'[o] = pc[o]
             /\ job[o].tmp \in Asides \ Own(r) /\ job[o].rb \in Asides \ Own(r)
  <2>1. pc[o] \in RestoreSteps /\ job'[o] = job[o] /\ pc'[o] = pc[o]
    BY <1>1 DEF Elsewhere
  <2>2. job[o].tmp \in Asides /\ job[o].rb \in Asides
    BY <2>1, RouteOf DEF TypeOK, Fits, RestoreSteps
  <2>3. Own(r) \cap Own(o) = {}
    BY <1>1, <2>1 DEF Accounted, Apart
  <2> QED
    BY <2>1, <2>2, <2>3 DEF Own
<1>2. \A o \in Requests : pc'[o] \in RestoreSteps => Prepared(o)'
  <2>1. ASSUME NEW o \in Requests, o # r, pc'[o] \in RestoreSteps
        PROVE  Prepared(o)'
    BY <1>1, <2>1 DEF Accounted, Prepared, Steady, Exists
  <2>2. pc'[r] \in RestoreSteps => Prepared(r)'
    BY DEF Continues, Ends, RestoreSteps
  <2> QED
    BY <2>1, <2>2
<1>3. Apart'
  <2>1. pc'[r] \in RestoreSteps => Own(r)' = Own(r)
    BY DEF Continues, Ends, RestoreSteps, Own
  <2>2. \A o \in Requests : o # r /\ pc'[o] \in RestoreSteps =>
            pc[o] \in RestoreSteps /\ Own(o)' = Own(o)
    BY <1>1 DEF Own
  <2> QED
    BY <2>1, <2>2 DEF Accounted, Apart
<1>4. ASSUME NEW a \in Asides, ds'[a] # NoDs
      PROVE  a \in lost' \/ \E o \in Requests : pc'[o] \in RestoreSteps /\ a \in Own(o)'
  <2>1. CASE a \in Own(r)
    BY <1>4, <2>1 DEF Continues, Ends, Own
  <2>2. CASE a \notin Own(r)
    <3>1. Exists(a) /\ (a \in lost => a \in lost')
      BY <1>4, <2>2 DEF Steady
    <3>2. ASSUME NEW o \in Requests, pc[o] \in RestoreSteps, a \in Own(o)
          PROVE  pc'[o] \in RestoreSteps /\ a \in Own(o)'
      BY <2>2, <3>2 DEF Elsewhere, Own
    <3> QED
      BY <3>1, <3>2 DEF Accounted
  <2> QED
    BY <2>1, <2>2
<1> QED
  BY <1>2, <1>3, <1>4 DEF Accounted, Exists

LEMMA AskRestoreAccounted ==
    ASSUME TypeOK, Accounted, NEW r \in Requests, NEW p \in Projects, NEW t \in Trees,
           AskRestore(r, p, t)
    PROVE  Accounted'
<1>1. PICK a \in FreshAsides, b \in FreshAsides, step \in {"receive", "prepare"} :
          a # b /\ Begin(r, [NewJob("restore", p) EXCEPT !.tmp = a, !.rb = b, !.data = t], step)
  BY DEF AskRestore
<1> DEFINE j == [NewJob("restore", p) EXCEPT !.tmp = a, !.rb = b, !.data = t]
<1>2. j.tmp = a /\ j.rb = b
  BY DEF NewJob
<1> HIDE DEF j
<1>3. job' = [job EXCEPT ![r] = j] /\ Goto(r, step) /\ pc[r] = "idle"
      /\ UNCHANGED <<ds, lost>>
  BY <1>1 DEF Begin, At, j, diskVars, ghostVars
<1>4. job'[r] = j /\ pc'[r] = step /\ Elsewhere(r)
  BY <1>3 DEF TypeOK, RequestsOK, Goto, Elsewhere
<1>5. \A o \in Requests \ {r} : pc[o] \in RestoreSteps => a \notin Own(o) /\ b \notin Own(o)
  <2>1. \A o \in Requests : pc[o] \in RestoreSteps => job[o] # NoJob
    BY RouteOf, ZfsAssumption DEF TypeOK, RestoreSteps
  <2> QED
    BY <2>1 DEF FreshAsides, Own
<1>6. Own(r)' = {a, b}
  BY <1>2, <1>4 DEF Own
<1>7. \A o \in Requests \ {r} : pc'[o] = pc[o] /\ Own(o)' = Own(o)
  BY <1>4 DEF Elsewhere, Own
<1>8. Apart'
  BY <1>5, <1>6, <1>7 DEF Accounted, Apart
<1>9. ~Exists(a) /\ ~Exists(b)
  BY DEF FreshAsides
<1>10. Prepared(r)'
  BY <1>1, <1>2, <1>3, <1>4, <1>9 DEF Prepared, Exists
<1>11. \A o \in Requests \ {r} : pc'[o] \in RestoreSteps => Prepared(o)'
  BY <1>3, <1>4 DEF Accounted, Prepared, Elsewhere, Exists
<1>12. ASSUME NEW n \in Asides, ds'[n] # NoDs
       PROVE  n \in lost' \/ \E o \in Requests : pc'[o] \in RestoreSteps /\ n \in Own(o)'
  <2>1. Exists(n) /\ (n \in lost => n \in lost')
    BY <1>3, <1>12 DEF Exists
  <2>2. ASSUME NEW o \in Requests, pc[o] \in RestoreSteps, n \in Own(o)
        PROVE  pc'[o] \in RestoreSteps /\ n \in Own(o)'
    BY <1>3, <1>7, <2>2 DEF RestoreSteps
  <2> QED
    BY <2>1, <2>2 DEF Accounted
<1> QED
  BY <1>8, <1>10, <1>11, <1>12 DEF Accounted, Exists

(* The steps of a restore.                                                  *)
LEMMA RestoreStepAccounted ==
    ASSUME TypeOK, Accounted, NEW r \in Requests, RestoreStep(r)
    PROVE  Accounted'
<1> DEFINE p == job[r].p
           tmp == job[r].tmp
           rb == job[r].rb
<1>0. /\ pc[r] \in RestoreSteps /\ job[r] \in Job
      /\ p \in Projects /\ tmp \in Asides /\ rb \in Asides /\ Prepared(r)
      /\ p # tmp /\ p # rb /\ tmp # rb
      /\ p \in Names /\ tmp \in Names /\ rb \in Names
      /\ \A a \in Asides : a \in Names /\ a # p
  <2>1. pc[r] \in RestoreSteps
    BY DEF RestoreStep, Receive, PrepareTemp, CopyInto, LookTarget, MoveAside, Publish, Remount,
       Mount, Unpublish, PutBack, DropAside, CleanUp, At, RestoreSteps
  <2>2. /\ job[r] \in Job /\ p \in Projects /\ tmp \in Asides /\ rb \in Asides /\ Prepared(r)
    BY <2>1, RouteOf DEF Accounted, TypeOK, Fits, Job, RestoreSteps
  <2> QED
    BY <2>1, <2>2, ZfsAssumption DEF Prepared, Names
<1>1. CASE Receive(r)
  <2>0. /\ ds'[rb] = NoDs
        /\ \A a \in Asides : a # tmp => ds'[a] = ds[a]
        /\ \A a \in Asides : a \in lost => a \in lost'
    BY <1>0, <1>1 DEF TypeOK, DisksOK, Receive, Lose, Prepared, At, Exists
  <2>1. CASE Goto(r, "look") /\ UNCHANGED job
    <3>1. Elsewhere(r) /\ pc'[r] = "look"
      BY <2>1, MovesElsewhere DEF TypeOK
    <3>2. Continues(r)
      BY <1>0, <2>0, <2>1, <3>1 DEF Continues, Prepared, RestoreSteps, Exists
    <3> QED
      BY <1>0, <2>0, <3>1, <3>2, RestoreAccounted DEF Steady, Own, Exists
  <2>2. CASE Answer(r) /\ (Lose(tmp) \/ UNCHANGED <<ds, lost>>)
    <3>1. Elsewhere(r) /\ pc'[r] = "idle"
      BY <2>2, AnswerElsewhere DEF TypeOK
    <3>2. ds'[tmp] = NoDs \/ tmp \in lost'
      BY <1>0, <1>1, <2>2 DEF Receive, Lose, Prepared, At, Exists
    <3>3. Ends(r)
      BY <2>0, <3>1, <3>2 DEF Ends, Own
    <3> QED
      BY <1>0, <2>0, <3>1, <3>3, RestoreAccounted DEF Steady, Own, Exists
  <2> QED
    BY <1>1, <2>1, <2>2 DEF Receive
<1>2. CASE PrepareTemp(r)
  <2>0. /\ ds'[rb] = NoDs
        /\ \A a \in Asides : a # tmp => ds'[a] = ds[a]
        /\ \A a \in Asides : a \in lost => a \in lost'
    BY <1>0, <1>2 DEF TypeOK, DisksOK, PrepareTemp, Lose, Prepared, At, Exists
  <2>1. CASE Goto(r, "copy") /\ UNCHANGED job
    <3>1. Elsewhere(r) /\ pc'[r] = "copy"
      BY <2>1, MovesElsewhere DEF TypeOK
    <3>2. Continues(r)
      BY <1>0, <2>0, <2>1, <3>1 DEF Continues, Prepared, RestoreSteps, Exists
    <3> QED
      BY <1>0, <2>0, <3>1, <3>2, RestoreAccounted DEF Steady, Own, Exists
  <2>2. CASE Answer(r) /\ (Lose(tmp) \/ UNCHANGED <<ds, lost>>)
    <3>1. Elsewhere(r) /\ pc'[r] = "idle"
      BY <2>2, AnswerElsewhere DEF TypeOK
    <3>2. ds'[tmp] = NoDs \/ tmp \in lost'
      BY <1>0, <1>2, <2>2 DEF PrepareTemp, Lose, Prepared, At, Exists
    <3>3. Ends(r)
      BY <2>0, <3>1, <3>2 DEF Ends, Own
    <3> QED
      BY <1>0, <2>0, <3>1, <3>3, RestoreAccounted DEF Steady, Own, Exists
  <2> QED
    BY <1>2, <2>1, <2>2 DEF PrepareTemp
<1>3. CASE CopyInto(r)
  <2>1. Elsewhere(r) /\ pc'[r] \in {"look", "cleanup"} /\ job' = job
    BY <1>3, MovesElsewhere DEF TypeOK, CopyInto
  <2>2. Steady({tmp}) /\ ~Exists(rb)'
    BY <1>0, <1>3 DEF TypeOK, DisksOK, CopyInto, Steady, Prepared, At, Exists, ghostVars
  <2>3. Continues(r)
    BY <1>0, <2>1, <2>2 DEF Continues, Prepared, RestoreSteps, Exists
  <2> QED
    BY <1>0, <2>1, <2>2, <2>3, RestoreAccounted DEF Steady, Own
<1>4. CASE LookTarget(r)
  <2>1. Elsewhere(r) /\ pc'[r] \in {"aside", "publish"}
    BY <1>4 DEF TypeOK, RequestsOK, LookTarget, Goto, Elsewhere
  <2>2. job'[r].tmp = tmp /\ job'[r].rb = rb /\ (pc'[r] = "aside" => job'[r].had)
    BY <1>0, <1>4 DEF TypeOK, RequestsOK, LookTarget, Goto, Job
  <2>3. Steady({}) /\ ds'[rb] = NoDs
    BY <1>0, <1>4 DEF LookTarget, Steady, Prepared, At, Exists, diskVars, ghostVars
  <2>4. Continues(r)
    BY <1>0, <2>1, <2>2, <2>3 DEF Continues, Prepared, RestoreSteps, Exists
  <2> QED
    BY <1>0, <2>1, <2>3, <2>4, RestoreAccounted DEF Steady, Own
<1>5. CASE MoveAside(r)
  <2>1. Elsewhere(r) /\ pc'[r] \in {"publish", "cleanup"} /\ job' = job
    BY <1>5, MovesElsewhere DEF TypeOK, MoveAside
  <2>2. Steady({rb}) /\ (pc'[r] = "cleanup" => ~Exists(rb)')
    BY <1>0, <1>5, MovesElsewhere DEF TypeOK, DisksOK, MoveAside, Renamed, CanRename, Steady,
       Prepared, At, Exists, ghostVars
  <2>3. job[r].had
    BY <1>0, <1>5 DEF MoveAside, Prepared, At
  <2>4. Continues(r)
    BY <1>0, <2>1, <2>2, <2>3 DEF Continues, Prepared, RestoreSteps, Exists
  <2> QED
    BY <1>0, <2>1, <2>2, <2>4, RestoreAccounted DEF Steady, Own
<1>6. CASE Publish(r)
  <2>1. Elsewhere(r) /\ pc'[r] \in {"remount", "putback", "cleanup"} /\ job' = job
        /\ (pc'[r] = "cleanup" => ~job[r].had)
    BY <1>6, MovesElsewhere DEF TypeOK, Publish
  <2>2. Steady({tmp}) /\ (~job[r].had => ~Exists(rb)')
    BY <1>0, <1>6 DEF TypeOK, DisksOK, Publish, Renamed, CanRename, Steady, Prepared, Exists,
       ghostVars
  <2>3. Continues(r)
    BY <1>0, <2>1, <2>2 DEF Continues, Prepared, RestoreSteps, Exists
  <2> QED
    BY <1>0, <2>1, <2>2, <2>3, RestoreAccounted DEF Steady, Own
<1>7. CASE Remount(r) \/ Mount(r)
  <2>1. Elsewhere(r) /\ pc'[r] \in {"mount", "dropaside", "unpublish"} /\ job' = job
    BY <1>7, MovesElsewhere DEF TypeOK, Remount, Mount
  <2>2. Steady({}) /\ (~job[r].had => ~Exists(rb)')
    BY <1>0, <1>7 DEF TypeOK, DisksOK, Remount, Mount, MountedDs, Steady, Prepared, Exists,
       diskVars, ghostVars
  <2>3. Continues(r)
    BY <1>0, <2>1, <2>2 DEF Continues, Prepared, RestoreSteps, Exists
  <2> QED
    BY <1>0, <2>1, <2>2, <2>3, RestoreAccounted DEF Steady, Own
<1>8. CASE Unpublish(r)
  <2>1. Elsewhere(r) /\ pc'[r] \in {"putback", "cleanup"} /\ job' = job
        /\ (pc'[r] = "cleanup" => ~job[r].had)
    BY <1>8, MovesElsewhere DEF TypeOK, Unpublish
  <2>2. Steady({tmp}) /\ (~job[r].had => ~Exists(rb)')
    BY <1>0, <1>8 DEF TypeOK, DisksOK, Unpublish, Renamed, Lose, Steady, Prepared, Exists
  <2>3. Continues(r)
    BY <1>0, <2>1, <2>2 DEF Continues, Prepared, RestoreSteps, Exists
  <2> QED
    BY <1>0, <2>1, <2>2, <2>3, RestoreAccounted DEF Steady, Own
<1>9. CASE PutBack(r)
  <2>1. Elsewhere(r) /\ pc'[r] = "cleanup" /\ job' = job
    BY <1>9, MovesElsewhere DEF TypeOK, PutBack
  <2>2. Steady({}) /\ (~Exists(rb)' \/ rb \in lost') /\ (~job[r].had => ~Exists(rb)')
    BY <1>0, <1>9 DEF TypeOK, DisksOK, PutBack, Renamed, CanRename, Steady, Prepared, Exists
  <2>3. Continues(r)
    BY <1>0, <2>1, <2>2 DEF Continues, Prepared, RestoreSteps, Exists
  <2> QED
    BY <1>0, <2>1, <2>2, <2>3, RestoreAccounted DEF Steady, Own
<1>10. CASE DropAside(r)
  <2>1. Elsewhere(r) /\ pc'[r] = "cleanup" /\ job' = job
    BY <1>10, MovesElsewhere DEF TypeOK, DropAside
  <2>2. Steady({}) /\ (~Exists(rb)' \/ rb \in lost') /\ (~job[r].had => ~Exists(rb)')
    BY <1>0, <1>10 DEF TypeOK, DisksOK, DropAside, Discard, Destroyed, Lose, Steady, Prepared,
       At, Exists
  <2>3. Continues(r)
    BY <1>0, <2>1, <2>2 DEF Continues, Prepared, RestoreSteps, Exists
  <2> QED
    BY <1>0, <2>1, <2>2, <2>3, RestoreAccounted DEF Steady, Own
<1>11. CASE CleanUp(r)
  <2>1. Elsewhere(r) /\ pc'[r] = "idle"
    BY <1>11, AnswerElsewhere DEF TypeOK, CleanUp
  <2>2. /\ Steady({})
        /\ ds'[rb] = NoDs \/ rb \in lost'
        /\ ds'[tmp] = NoDs \/ tmp \in lost'
    BY <1>0, <1>11 DEF TypeOK, DisksOK, CleanUp, Discard, Destroyed, Lose, Steady, Prepared,
       At, Exists
  <2>3. Ends(r)
    BY <2>1, <2>2 DEF Ends, Own
  <2> QED
    BY <1>0, <2>1, <2>2, <2>3, RestoreAccounted DEF Steady, Own
<1> QED
  BY <1>1, <1>2, <1>3, <1>4, <1>5, <1>6, <1>7, <1>8, <1>9, <1>10, <1>11 DEF RestoreStep

LEMMA CrashAccounted ==
    ASSUME TypeOK, Accounted, Crash
    PROVE  Accounted'
<1>1. \A r \in Requests : pc'[r] \notin RestoreSteps
  BY DEF Crash, RestoreSteps
<1>2. ASSUME NEW a \in Asides, Exists(a)
      PROVE  a \in lost'
  <2>1. CASE a \in lost
    BY <2>1 DEF Crash
  <2>2. ASSUME NEW r \in Requests, pc[r] \in RestoreSteps, a \in Own(r)
        PROVE  a \in lost'
    <3>1. a \in Touched(r)
      BY <2>2 DEF Touched, Own
    <3> QED
      BY <1>2, <3>1 DEF Crash
  <2> QED
    BY <1>2, <2>1, <2>2 DEF Accounted
<1> QED
  BY <1>1, <1>2 DEF Accounted, Apart, Crash, Exists, diskVars

LEMMA AccountInductive ==
    ASSUME TypeOK, Accounted, [Next]_vars
    PROVE  Accounted'
<1>1. ASSUME NEW r \in Requests, Ask(r)
      PROVE  Accounted'
  BY <1>1, AskAloof, AloofAccounted, AskRestoreAccounted DEF Ask
<1>2. ASSUME NEW r \in Requests, TakeLock(r) \/ Work(r)
      PROVE  Accounted'
  BY <1>2, TakeLockAloof, EnsureAloof, DeleteAloof, CloneAloof, BackupAloof, AloofAccounted,
     RestoreStepAccounted DEF Work
<1>3. CASE UNCHANGED vars
  BY <1>3 DEF vars, diskVars, requestVars, ghostVars, Accounted, Apart, Prepared, Own, Exists
<1> QED
  BY <1>1, <1>2, <1>3, CrashAccounted DEF Next

(* No path of the two restore handlers, whichever command fails and         *)
(* whatever other requests do meanwhile, forgets a dataset it made: what is *)
(* under a restore's name belongs to a restore that runs, or a destroy, a   *)
(* rename back, or the service failed.                                      *)
THEOREM RestoresAccounted == Spec => []AsidesAccounted
<1>1. Init => Accounted
  <2> SUFFICES ASSUME Init PROVE Accounted
    OBVIOUS
  <2>1. \A r \in Requests : pc[r] \notin RestoreSteps
    BY DEF Init, RestoreSteps
  <2> QED
    BY <2>1 DEF Init, Accounted, Apart, Exists
<1>2. TypeOK /\ Accounted => AsidesAccounted
  <2>1. TypeOK => \A r \in Requests : pc[r] \in RestoreSteps => job[r] # NoJob
    BY RouteOf, ZfsAssumption DEF TypeOK, RestoreSteps
  <2> QED
    BY <2>1 DEF Accounted, AsidesAccounted, Uses, Own
<1> QED
  BY <1>1, <1>2, AccountInductive, TypeCorrect, PTL DEF Spec
=============================================================================
