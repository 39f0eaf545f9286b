--------------------------- MODULE ZfsRestoreProofs ---------------------------
(***************************************************************************)
(* Theorems about ZfsProjects: while clients ask for one replacement of a   *)
(* project at a time, what they are owed is never lost, and a restore that  *)
(* fails puts it back, whichever commands fail and whenever the service     *)
(* dies.                                                                    *)
(***************************************************************************)
EXTENDS ZfsProjectsProofs

-----------------------------------------------------------------------------
(* What a request keeps of its route from step to step.                     *)

SameRoute(j, k) ==
    /\ k.op = j.op /\ k.p = j.p /\ k.need = j.need
    /\ k.tmp = j.tmp /\ k.rb = j.rb
    /\ j.op = "clone" => k.q = j.q
    /\ j.op = "restore" => k.data = j.data

GoesOn(r) == pc'[r] # "idle" /\ SameRoute(job[r], job'[r])

LEMMA GotoGoesOn ==
    ASSUME RequestsOK, NEW r \in Requests, NEW step, step # "idle", Goto(r, step),
           UNCHANGED job
    PROVE  GoesOn(r)
  BY DEF RequestsOK, Goto, GoesOn, SameRoute

LEMMA SnapshotGoesOn ==
    ASSUME TypeOK, NEW r \in Requests, pc[r] # "idle", job[r].op # "restore",
           NEW step, step # "idle", TakeSnapshot(r, step)
    PROVE  Answer(r) \/ GoesOn(r)
<1>0. job[r] \in Job
  BY RouteOf DEF TypeOK
<1>1. ASSUME NEW s, job' = [job EXCEPT ![r].snap = s, ![r].data = ds[job[r].p].data],
             Goto(r, step)
      PROVE  GoesOn(r)
  BY <1>0, <1>1 DEF TypeOK, RequestsOK, GoesOn, SameRoute, Goto, Job
<1> QED
  BY <1>1 DEF TakeSnapshot

LEMMA WorkGoesOn ==
    ASSUME TypeOK, NEW r \in Requests, Work(r)
    PROVE  Answer(r) \/ GoesOn(r)
<1>1. CASE EnsureStep(r)
  BY <1>1, GotoGoesOn DEF TypeOK, EnsureStep, EnsureCached, EnsureDataset, EnsureFails,
     EnsureMounted
<1>2. CASE DeleteStep(r)
  <2>1. CASE FindDataset(r)
    <3>0. job[r] \in Job /\ job[r].op = "delete"
      BY <2>1, RouteOf DEF TypeOK, FindDataset, At, DeleteSteps
    <3>1. ASSUME NEW n, job' = [job EXCEPT ![r].q = n, ![r].snap = ds[job[r].p].origin],
                 Goto(r, "destroy")
          PROVE  GoesOn(r)
      BY <3>0, <3>1 DEF TypeOK, RequestsOK, GoesOn, SameRoute, Goto, Job
    <3> QED
      BY <2>1, <3>1, GotoGoesOn DEF TypeOK, FindDataset
  <2>2. CASE DestroyDataset(r)
    BY <2>2, GotoGoesOn DEF TypeOK, DestroyDataset
  <2>3. CASE DestroyOrigin(r) \/ RemovePath(r)
    BY <2>3, GotoGoesOn DEF TypeOK, DestroyOrigin, RemovePath
  <2> QED
    BY <1>2, <2>1, <2>2, <2>3 DEF DeleteStep
<1>3. CASE CloneStep(r)
  <2>1. CASE SnapshotSource(r)
    <3>1. pc[r] = "snap" /\ job[r].op = "clone"
      BY <2>1, RouteOf DEF TypeOK, SnapshotSource, At, CloneSteps
    <3> QED
      BY <2>1, <3>1, SnapshotGoesOn DEF SnapshotSource
  <2>2. CASE CheckClone(r) \/ CloneDataset(r) \/ FinishClone(r)
    BY <2>2, GotoGoesOn DEF TypeOK, CheckClone, CloneDataset, FinishClone
  <2>3. CASE UndoClone(r) \/ UndoSnapshot(r) \/ UndoPath(r)
    BY <2>3, GotoGoesOn DEF TypeOK, UndoClone, UndoSnapshot, UndoPath
  <2> QED
    BY <1>3, <2>1, <2>2, <2>3 DEF CloneStep
<1>4. CASE BackupStep(r)
  <2>1. CASE DumpSnapshot(r)
    <3>1. pc[r] = "dump" /\ job[r].op = "backup"
      BY <2>1, RouteOf DEF TypeOK, DumpSnapshot, At, BackupSteps
    <3> QED
      BY <2>1, <3>1, SnapshotGoesOn DEF DumpSnapshot
  <2>2. CASE StartSend(r) \/ FinishSend(r) \/ DropDump(r)
    BY <2>2, GotoGoesOn DEF TypeOK, StartSend, FinishSend, DropDump
  <2> QED
    BY <1>4, <2>1, <2>2 DEF BackupStep
<1>5. CASE RestoreStep(r)
  <2>1. CASE LookTarget(r)
    <3>0. job[r] \in Job
      BY <2>1, RouteOf DEF TypeOK, LookTarget, At
    <3>1. ASSUME NEW b, NEW step, step # "idle", job' = [job EXCEPT ![r].had = b],
                 Goto(r, step)
          PROVE  GoesOn(r)
      BY <3>0, <3>1 DEF TypeOK, RequestsOK, GoesOn, SameRoute, Goto, Job
    <3> QED
      BY <2>1, <3>1, GotoGoesOn DEF TypeOK, LookTarget
  <2>2. CASE Receive(r) \/ PrepareTemp(r) \/ CopyInto(r)
    BY <2>2, GotoGoesOn DEF TypeOK, Receive, PrepareTemp, CopyInto
  <2>3. CASE MoveAside(r) \/ Publish(r) \/ Remount(r) \/ Mount(r)
    BY <2>3, GotoGoesOn DEF TypeOK, MoveAside, Publish, Remount, Mount
  <2>4. CASE Unpublish(r) \/ PutBack(r) \/ DropAside(r) \/ CleanUp(r)
    BY <2>4, GotoGoesOn DEF TypeOK, Unpublish, PutBack, DropAside, CleanUp
  <2> QED
    BY <1>5, <2>1, <2>2, <2>3, <2>4 DEF RestoreStep
<1> QED
  BY <1>1, <1>2, <1>3, <1>4, <1>5 DEF Work

-----------------------------------------------------------------------------
(* The locks that a route works under.                                      *)

Locked(j) == IF j.op = "clone" THEN {j.p, j.q}
             ELSE IF j.op \in {"ensure", "delete"} THEN {j.p} ELSE {}

LocksTaken ==
    \A r \in Requests : pc[r] # "idle" =>
        /\ pc[r] # "lock" => job[r].need = {}
        /\ \A p \in Locked(job[r]) \ job[r].need : held[p] = r

LEMMA WorkingElsewhere ==
    ASSUME TypeOK, NEW r \in Requests, Work(r)
    PROVE  Elsewhere(r) /\ pc[r] \notin {"idle", "lock"} /\ pc'[r] # "lock"
<1>1. Elsewhere(r)
  BY WorkHolds, AnswerElsewhere DEF TypeOK, HoldsOn, Elsewhere
<1>2. \A step : Goto(r, step) => pc'[r] = step
  BY DEF TypeOK, RequestsOK, Goto
<1>3. CASE EnsureStep(r)
  BY <1>1, <1>2, <1>3 DEF EnsureStep, EnsureCached, EnsureDataset, EnsureFails, EnsureMounted, Answer, At
<1>4. CASE DeleteStep(r)
  BY <1>1, <1>2, <1>4 DEF DeleteStep, FindDataset, DestroyDataset, DestroyOrigin, RemovePath, Answer, At
<1>5. CASE CloneStep(r)
  BY <1>1, <1>2, <1>5 DEF CloneStep, CheckClone, SnapshotSource, CloneDataset, FinishClone, UndoClone,
     UndoSnapshot, UndoPath, TakeSnapshot, Answer, At
<1>6. CASE BackupStep(r)
  BY <1>1, <1>2, <1>6 DEF BackupStep, DumpSnapshot, StartSend, FinishSend, DropDump, TakeSnapshot,
     Answer, At
<1>7. CASE RestoreStep(r)
  BY <1>1, <1>2, <1>7 DEF RestoreStep, Receive, PrepareTemp, CopyInto, LookTarget, MoveAside, Publish,
     Remount, Mount, Unpublish, PutBack, DropAside, CleanUp, Answer, At
<1> QED
  BY <1>1, <1>3, <1>4, <1>5, <1>6, <1>7 DEF Work

LEMMA BeginEffects ==
    ASSUME TypeOK, NEW r \in Requests, NEW j, NEW step, step # "idle", Begin(r, j, step)
    PROVE  /\ Elsewhere(r) /\ pc[r] = "idle" /\ pc'[r] = step /\ job'[r] = j
           /\ UNCHANGED <<ds, dirs, held, owed, lost>>
           /\ Undisturbed(Replaced(j))
  BY MovesElsewhere DEF Begin, At, TypeOK, RequestsOK, diskVars, ghostVars

(* What a client asks for is a route of which nothing is done yet.          *)
NewRequest(r) ==
    /\ Elsewhere(r) /\ pc[r] = "idle" /\ pc'[r] \in {"lock", "dump", "receive", "prepare"}
    /\ UNCHANGED <<ds, dirs, held, owed, lost>>
    /\ Undisturbed(Replaced(job'[r]))
    /\ pc'[r] \in {"lock", "dump"} => job'[r].tmp = NoName /\ job'[r].rb = NoName
    /\ pc'[r] = "lock" => job'[r].need = Locked(job'[r])
    /\ pc'[r] = "dump" => job'[r].op = "backup" /\ job'[r].need = {}
    /\ pc'[r] \in {"receive", "prepare"} =>
           /\ job'[r].op = "restore" /\ job'[r].need = {} /\ ~job'[r].had
           /\ job'[r].tmp \in FreshAsides /\ job'[r].rb \in FreshAsides

LEMMA AskEffects ==
    ASSUME TypeOK, NEW r \in Requests, Ask(r)
    PROVE  NewRequest(r)
<1>1. PICK p \in Projects :
          \/ AskEnsure(r, p)
          \/ AskDelete(r, p)
          \/ \E q \in Projects : AskClone(r, p, q)
          \/ AskBackup(r, p)
          \/ \E t \in Trees : AskRestore(r, p, t)
  BY DEF Ask
<1>2. ASSUME NEW op \in {"ensure", "delete"},
             Begin(r, [NewJob(op, p) EXCEPT !.need = {p}], "lock")
      PROVE  NewRequest(r)
  BY <1>2, BeginEffects DEF NewRequest, NewJob, Locked
<1>3. ASSUME NEW q \in Projects, AskClone(r, p, q)
      PROVE  NewRequest(r)
  <2> DEFINE j == [NewJob("clone", p) EXCEPT !.q = q, !.need = {p, q}]
  <2>1. j.op = "clone" /\ j.p = p /\ j.q = q /\ j.need = {p, q} /\ j.tmp = NoName /\ j.rb = NoName
    BY DEF NewJob
  <2> HIDE DEF j
  <2>2. Begin(r, j, "lock")
    BY <1>3 DEF AskClone, j
  <2> QED
    BY <2>1, <2>2, BeginEffects DEF NewRequest, Locked
<1>4. CASE AskBackup(r, p)
  BY <1>4, BeginEffects DEF AskBackup, NewRequest, NewJob
<1>5. ASSUME NEW t \in Trees, AskRestore(r, p, t)
      PROVE  NewRequest(r)
  <2>1. PICK a \in FreshAsides, b \in FreshAsides, step \in {"receive", "prepare"} :
            Begin(r, [NewJob("restore", p) EXCEPT !.tmp = a, !.rb = b, !.data = t], step)
    BY <1>5 DEF AskRestore
  <2> DEFINE j == [NewJob("restore", p) EXCEPT !.tmp = a, !.rb = b, !.data = t]
  <2>2. j.op = "restore" /\ j.need = {} /\ ~j.had /\ j.tmp = a /\ j.rb = b
    BY DEF NewJob
  <2> HIDE DEF j
  <2>3. Begin(r, j, step)
    BY <2>1 DEF j
  <2> QED
    BY <2>2, <2>3, BeginEffects DEF NewRequest
<1> QED
  BY <1>1, <1>2, <1>3, <1>4, <1>5 DEF AskEnsure, AskDelete

LEMMA TakeLockEffects ==
    ASSUME TypeOK, NEW r \in Requests, TakeLock(r)
    PROVE  /\ Elsewhere(r) /\ pc[r] = "lock" /\ UNCHANGED <<ds, dirs, owed, lost>>
           /\ job'[r].op = job[r].op /\ job'[r].p = job[r].p /\ job'[r].q = job[r].q
           /\ job'[r].tmp = job[r].tmp /\ job'[r].rb = job[r].rb
           /\ \E p \in job[r].need :
                  /\ held[p] = Free
                  /\ held' = [held EXCEPT ![p] = r]
                  /\ job'[r].need = job[r].need \ {p}
                  /\ pc'[r] = IF job[r].need = {p} THEN FirstStep(job[r].op) ELSE "lock"
<1>1. job[r] \in Job /\ pc[r] = "lock"
  BY RouteOf DEF TypeOK, TakeLock, At, Job
<1>2. PICK p \in NextLock(job[r]) :
          /\ held[p] = Free
          /\ held' = [held EXCEPT ![p] = r]
          /\ job' = [job EXCEPT ![r].need = @ \ {p}]
          /\ IF job[r].need = {p} THEN Goto(r, FirstStep(job[r].op)) ELSE UNCHANGED pc
  BY DEF TakeLock
<1>3. job'[r] = [job[r] EXCEPT !.need = job[r].need \ {p}]
  BY <1>1, <1>2 DEF TypeOK, RequestsOK
<1>4. /\ job'[r].need = job[r].need \ {p}
      /\ job'[r].op = job[r].op /\ job'[r].p = job[r].p /\ job'[r].q = job[r].q
      /\ job'[r].tmp = job[r].tmp /\ job'[r].rb = job[r].rb
  BY <1>1, <1>3 DEF Job
<1>5. Elsewhere(r)
  BY <1>2 DEF TypeOK, RequestsOK, Goto, Elsewhere
<1>6. pc'[r] = IF job[r].need = {p} THEN FirstStep(job[r].op) ELSE "lock"
  BY <1>1, <1>2 DEF TypeOK, RequestsOK, Goto
<1> QED
  BY <1>1, <1>2, <1>3, <1>4, <1>5, <1>6 DEF TakeLock, NextLock, diskVars, ghostVars

LEMMA LocksInductive ==
    ASSUME TypeOK, LocksTaken, [Next]_vars
    PROVE  LocksTaken'
<1>1. ASSUME NEW r \in Requests, Ask(r)
      PROVE  LocksTaken'
  <2>1. NewRequest(r)
    BY <1>1, AskEffects
  <2> QED
    BY <2>1 DEF NewRequest, LocksTaken, Elsewhere, Locked
<1>2. ASSUME NEW r \in Requests, TakeLock(r)
      PROVE  LocksTaken'
  <2>1. PICK p \in job[r].need :
            /\ held[p] = Free
            /\ held' = [held EXCEPT ![p] = r]
            /\ job'[r].need = job[r].need \ {p}
            /\ pc'[r] = IF job[r].need = {p} THEN FirstStep(job[r].op) ELSE "lock"
    BY <1>2, TakeLockEffects
  <2>2. Elsewhere(r) /\ pc[r] = "lock" /\ Locked(job[r])' = Locked(job[r])
    BY <1>2, TakeLockEffects DEF Locked
  <2>a. job[r].need \subseteq Projects /\ Locked(job[r]) \subseteq Projects
    BY <2>2, RouteOf DEF TypeOK, Job, Locked, Fits
  <2>3. pc'[r] # "lock" => job'[r].need = {}
    BY <2>1
  <2>4. \A q \in Locked(job[r]) \ job'[r].need : held'[q] = r
    BY <2>1, <2>2, <2>a DEF LocksTaken, TypeOK, LocksOK
  <2>5. ASSUME NEW o \in Requests, o # r, pc'[o] # "idle"
        PROVE  /\ pc'[o] # "lock" => job'[o].need = {}
               /\ \A q \in Locked(job[o])' \ job'[o].need : held'[q] = o
    <3>1. pc[o] = pc'[o] /\ job'[o] = job[o]
      BY <2>2, <2>5 DEF Elsewhere
    <3>2. Locked(job[o]) \subseteq Projects
      BY <2>5, <3>1, RouteOf DEF TypeOK, Job, Locked, Fits
    <3> QED
      BY <2>1, <2>a, <2>5, <3>1, <3>2, ZfsAssumption DEF LocksTaken, TypeOK, LocksOK
  <2> QED
    BY <2>2, <2>3, <2>4, <2>5 DEF LocksTaken
<1>3. ASSUME NEW r \in Requests, Work(r)
      PROVE  LocksTaken'
  <2>1. Elsewhere(r) /\ pc[r] \notin {"idle", "lock"} /\ pc'[r] # "lock"
    BY <1>3, WorkingElsewhere
  <2>2. CASE Answer(r)
    <3>1. \A o \in Requests \ {r} : pc[o] # "idle" => Locked(job[o]) \subseteq Projects
      BY RouteOf DEF TypeOK, Job, Locked, Fits
    <3>2. pc'[r] = "idle"
      BY <2>2, AnswerElsewhere DEF TypeOK
    <3> QED
      BY <2>1, <2>2, <3>1, <3>2 DEF LocksTaken, Elsewhere, Answer, Locked
  <2>3. CASE HoldsOn(r) /\ GoesOn(r)
    <3>1. Locked(job[r])' = Locked(job[r])
      BY <2>3 DEF GoesOn, SameRoute, Locked
    <3> QED
      BY <2>1, <2>3, <3>1 DEF LocksTaken, Elsewhere, HoldsOn, Locked
  <2> QED
    BY <1>3, <2>2, <2>3, WorkHolds, WorkGoesOn
<1>4. CASE Crash
  BY <1>4 DEF Crash, LocksTaken
<1>5. CASE UNCHANGED vars
  BY <1>5 DEF vars, requestVars, LocksTaken, Locked
<1> QED
  BY <1>1, <1>2, <1>3, <1>4, <1>5 DEF Next

-----------------------------------------------------------------------------
(* One request at a time replaces a project.                                *)

Replacing(r, p) == pc[r] # "idle" /\ p \in Replaced(job[r])

OneReplaces ==
    \A r, o \in Requests, p \in Projects : Replacing(r, p) /\ Replacing(o, p) => r = o

LEMMA SameReplaced ==
    ASSUME NEW j, NEW k, k.op = j.op, k.p = j.p, j.op = "clone" => k.q = j.q
    PROVE  Replaced(k) = Replaced(j)
  BY DEF Replaced

LEMMA ReplacesInductive ==
    ASSUME Exclusive, TypeOK, OneReplaces, [Next]_vars
    PROVE  OneReplaces'
<1>1. ASSUME NEW r \in Requests, Ask(r)
      PROVE  OneReplaces'
  <2>1. NewRequest(r)
    BY <1>1, AskEffects
  <2>2. \A o \in Requests : pc[o] # "idle" => job[o] # NoJob
    BY RouteOf, ZfsAssumption DEF TypeOK
  <2>3. ASSUME NEW o \in Requests \ {r}, NEW p \in Projects, Replacing(o, p)'
        PROVE  Replacing(o, p) /\ p \notin Replaced(job[r])'
    <3>1. pc[o] # "idle" /\ job'[o] = job[o] /\ p \in Replaced(job[o])
      BY <2>1, <2>3 DEF NewRequest, Elsewhere, Replacing, Replaced
    <3>2. Replaced(job[o]) \cap Replaced(job'[r]) = {}
      BY <2>1, <2>2, <3>1 DEF NewRequest, Undisturbed
    <3> QED
      BY <3>1, <3>2 DEF Replacing, Replaced
  <2> QED
    BY <2>3 DEF OneReplaces, Replacing
<1>2. ASSUME NEW r \in Requests, Elsewhere(r), pc[r] # "idle",
             pc'[r] = "idle" \/ Replaced(job'[r]) = Replaced(job[r])
      PROVE  OneReplaces'
  <2>1. ASSUME NEW o \in Requests, NEW p \in Projects, Replacing(o, p)'
        PROVE  Replacing(o, p)
    BY <1>2, <2>1 DEF Elsewhere, Replacing, Replaced
  <2> QED
    BY <2>1 DEF OneReplaces
<1>3. ASSUME NEW r \in Requests, TakeLock(r)
      PROVE  OneReplaces'
  <2>1. Elsewhere(r) /\ pc[r] # "idle" /\ Replaced(job'[r]) = Replaced(job[r])
    BY <1>3, TakeLockEffects, SameReplaced
  <2> QED
    BY <1>2, <2>1
<1>4. ASSUME NEW r \in Requests, Work(r)
      PROVE  OneReplaces'
  <2>1. Elsewhere(r) /\ pc[r] # "idle"
    BY <1>4, WorkingElsewhere
  <2>2. pc'[r] = "idle" \/ Replaced(job'[r]) = Replaced(job[r])
    BY <1>4, WorkGoesOn, AnswerElsewhere, SameReplaced DEF TypeOK, GoesOn, SameRoute
  <2> QED
    BY <1>2, <2>1, <2>2
<1>5. CASE Crash
  BY <1>5 DEF Crash, OneReplaces, Replacing
<1>6. CASE UNCHANGED vars
  BY <1>6 DEF vars, requestVars, OneReplaces, Replacing, Replaced
<1> QED
  BY <1>1, <1>3, <1>4, <1>5, <1>6 DEF Next

-----------------------------------------------------------------------------
(* What a step may do to the datasets.                                      *)

StaysPut(n) == /\ ds'[n] # NoDs <=> Exists(n)
               /\ Exists(n) => ds'[n].at = ds[n].at

KeepsData(n) == Exists(n) => ds'[n].data = ds[n].data

\* The names whose datasets a route makes, moves, mounts or destroys.
Reach(j) == IF j.op \in {"ensure", "delete"} THEN {j.p}
            ELSE IF j.op = "clone" THEN {j.q}
            ELSE IF j.op = "restore" THEN {j.p, j.tmp, j.rb} ELSE {}

LEMMA SnapsStay ==
    ASSUME DisksOK, NEW n \in Names, Exists(n), NEW S \in SUBSET Snaps,
           ds' = [ds EXCEPT ![n].snaps = S]
    PROVE  \A m \in Names : StaysPut(m) /\ KeepsData(m)
<1> DEFINE d == [ds[n] EXCEPT !.snaps = S]
<1>1. d \in DataSet /\ d.at = ds[n].at /\ d.data = ds[n].data
  BY ExistingTyped DEF DataSet
<1>2. ds' = [ds EXCEPT ![n] = d]
  BY DEF DisksOK
<1> HIDE DEF d
<1> QED
  BY <1>1, <1>2, ZfsAssumption DEF DisksOK, StaysPut, KeepsData, Exists

LEMMA DropSnapStays ==
    ASSUME DisksOK, NEW n, NEW s, DropSnap(n, s)
    PROVE  \A m \in Names : StaysPut(m) /\ KeepsData(m)
<1>1. CASE CanDropSnap(n, s) /\ ds' = [ds EXCEPT ![n].snaps = @ \ {s}]
  <2>1. n \in Names /\ Exists(n) /\ ds[n].snaps \ {s} \in SUBSET Snaps
    BY <1>1, ExistingTyped DEF CanDropSnap, DataSet
  <2> QED
    BY <1>1, <2>1, SnapsStay
<1>2. CASE UNCHANGED ds
  BY <1>2 DEF StaysPut, KeepsData, Exists
<1> QED
  BY <1>1, <1>2 DEF DropSnap

LEMMA SnapshotStays ==
    ASSUME DisksOK, NEW r \in Requests, job[r].p \in Names, NEW step, TakeSnapshot(r, step)
    PROVE  \A m \in Names : StaysPut(m) /\ KeepsData(m)
<1> DEFINE p == job[r].p
<1>1. ASSUME NEW s \in FreshSnaps, Exists(p), ds' = [ds EXCEPT ![p].snaps = @ \cup {s}]
      PROVE  \A m \in Names : StaysPut(m) /\ KeepsData(m)
  <2>1. ds[p].snaps \cup {s} \in SUBSET Snaps
    BY <1>1, ExistingTyped DEF FreshSnaps, DataSet
  <2> QED
    BY <1>1, <2>1, SnapsStay
<1>2. CASE UNCHANGED ds
  BY <1>2 DEF StaysPut, KeepsData, Exists
<1> QED
  BY <1>1, <1>2 DEF TakeSnapshot

LEMMA WipedStays ==
    ASSUME DisksOK, NEW p \in Projects, ds' = WipedAt(p)
    PROVE  \A m \in Names : StaysPut(m) /\ (Exists(m) /\ ds[m].at # p => KeepsData(m))
<1> SUFFICES ASSUME NEW m \in Names
             PROVE  StaysPut(m) /\ (Exists(m) /\ ds[m].at # p => KeepsData(m))
  OBVIOUS
<1>1. CASE m \in Top(p)
  <2>1. Exists(m) /\ ds[m].at = p /\ ds[m] \in DataSet
    BY <1>1, ExistingTyped DEF Top, MountedAt
  <2>2. [ds[m] EXCEPT !.data = Wiped] \in DataSet /\ [ds[m] EXCEPT !.data = Wiped].at = p
    BY <2>1 DEF DataSet, Data
  <2> QED
    BY <1>1, <2>1, <2>2, ZfsAssumption DEF WipedAt, StaysPut, Exists
<1>2. CASE m \notin Top(p)
  BY <1>2 DEF WipedAt, StaysPut, KeepsData, Exists
<1> QED
  BY <1>1, <1>2

LEMMA OnlyThese ==
    ASSUME NEW N, \A n \in Names \ N : ds'[n] = ds[n]
    PROVE  \A n \in Names \ N : StaysPut(n) /\ KeepsData(n)
  BY DEF StaysPut, KeepsData, Exists

(* Outside of its names a request changes snapshots, and removes the files  *)
(* of what is mounted at the project that it replaces.                      *)
LEMMA WorkStays ==
    ASSUME TypeOK, NEW r \in Requests, Work(r), NEW n \in Names \ Reach(job[r])
    PROVE  /\ StaysPut(n)
           /\ Exists(n) /\ ds[n].at \notin Replaced(job[r]) => KeepsData(n)
<1>0. /\ pc[r] # "idle" /\ job[r] \in Job /\ Fits(job[r]) /\ job[r].p \in Projects
      /\ job[r].p \in Names
  BY WorkingElsewhere, RouteOf DEF TypeOK, Job, Names
<1>1. CASE EnsureStep(r)
  <2>1. Reach(job[r]) = {job[r].p}
    BY <1>1, RouteOf DEF TypeOK, EnsureStep, EnsureCached, EnsureDataset, EnsureFails,
       EnsureMounted, At, EnsureSteps, Reach
  <2> QED
    BY <1>1, <2>1, OnlyThese DEF EnsureStep, EnsureCached, EnsureDataset, EnsureFails,
       EnsureMounted, MountedDs, TypeOK, DisksOK, diskVars
<1>2. CASE DeleteStep(r)
  <2>1. Reach(job[r]) = {job[r].p} /\ Replaced(job[r]) = {job[r].p}
    BY <1>0, <1>2, RouteOf DEF TypeOK, DeleteStep, FindDataset, DestroyDataset, DestroyOrigin,
       RemovePath, At, DeleteSteps, Reach, Replaced
  <2>2. CASE FindDataset(r) \/ DestroyDataset(r)
    BY <2>1, <2>2, OnlyThese DEF FindDataset, DestroyDataset, Destroyed, TypeOK, DisksOK, diskVars
  <2>3. CASE DestroyOrigin(r)
    BY <2>3, DropSnapStays DEF DestroyOrigin, TypeOK
  <2>4. CASE RemovePath(r)
    BY <1>0, <2>1, <2>4, WipedStays DEF RemovePath, TypeOK
  <2> QED
    BY <1>2, <2>2, <2>3, <2>4 DEF DeleteStep
<1>3. CASE CloneStep(r)
  <2>1. /\ Reach(job[r]) = {job[r].q} /\ Replaced(job[r]) = {job[r].q}
        /\ job[r].q \in Projects
    BY <1>0, <1>3, RouteOf DEF TypeOK, CloneStep, CheckClone, SnapshotSource, CloneDataset,
       FinishClone, UndoClone, UndoSnapshot, UndoPath, At, CloneSteps, Reach, Replaced, Fits
  <2>2. CASE CheckClone(r) \/ CloneDataset(r) \/ FinishClone(r) \/ UndoClone(r)
    BY <2>1, <2>2, OnlyThese DEF CheckClone, CloneDataset, FinishClone, UndoClone, Destroyed,
       TypeOK, DisksOK, diskVars
  <2>3. CASE SnapshotSource(r)
    BY <1>0, <2>3, SnapshotStays DEF SnapshotSource, TypeOK
  <2>4. CASE UndoSnapshot(r)
    BY <2>4, DropSnapStays DEF UndoSnapshot, TypeOK
  <2>5. CASE UndoPath(r)
    BY <2>1, <2>5, WipedStays DEF UndoPath, TypeOK
  <2> QED
    BY <1>3, <2>2, <2>3, <2>4, <2>5 DEF CloneStep
<1>4. CASE BackupStep(r)
  <2>1. CASE StartSend(r) \/ FinishSend(r)
    BY <2>1 DEF StartSend, FinishSend, StaysPut, KeepsData, Exists, diskVars
  <2> QED
    BY <1>0, <1>4, <2>1, SnapshotStays, DropSnapStays DEF BackupStep, DumpSnapshot, DropDump, TypeOK
<1>5. CASE RestoreStep(r)
  <2>1. Reach(job[r]) = {job[r].p, job[r].tmp, job[r].rb}
    BY <1>5, RouteOf DEF TypeOK, RestoreStep, Receive, PrepareTemp, CopyInto, LookTarget,
       MoveAside, Publish, Remount, Mount, Unpublish, PutBack, DropAside, CleanUp, At,
       RestoreSteps, Reach
  <2>2. CASE Receive(r) \/ PrepareTemp(r) \/ CopyInto(r) \/ LookTarget(r)
    BY <2>1, <2>2, OnlyThese DEF Receive, PrepareTemp, CopyInto, LookTarget, TypeOK, DisksOK,
       diskVars
  <2>3. CASE MoveAside(r) \/ Publish(r) \/ Unpublish(r) \/ PutBack(r)
    BY <2>1, <2>3, OnlyThese DEF MoveAside, Publish, Unpublish, PutBack, Renamed, TypeOK, DisksOK
  <2>4. CASE Remount(r) \/ Mount(r)
    BY <2>1, <2>4, OnlyThese DEF Remount, Mount, MountedDs, TypeOK, DisksOK, diskVars
  <2>5. CASE DropAside(r) \/ CleanUp(r)
    BY <2>1, <2>5, OnlyThese DEF DropAside, CleanUp, Discard, Destroyed, TypeOK, DisksOK
  <2> QED
    BY <1>5, <2>2, <2>3, <2>4, <2>5 DEF RestoreStep
<1> QED
  BY <1>1, <1>2, <1>3, <1>4, <1>5 DEF Work
-----------------------------------------------------------------------------
(* Where a project's content is.  At home means: complete, under the        *)
(* project's name or one that its restore has set it aside under, and not   *)
(* mounted where another route would remove it.                             *)

Owed(p) == owed[p] # Nothing

SetAside(r, n, p) == job[r].p = p /\ job[r].rb = n /\ (MidSwap(r) \/ pc[r] = "cleanup")

HomeOf(n, p) ==
    /\ n \in {p} \cup Asides
    /\ Holds(n, p)
    /\ ds[n].at \notin Projects \ {p}
    /\ n # p => \A r \in Requests : pc[r] \in RestoreSteps /\ n \in Own(r) => SetAside(r, n, p)

InPlace(p) == Owed(p) /\ ~Swapping(p) /\ p \notin lost => HomeOf(p, p)

HasHome(p) == Owed(p) => \E n \in {p} \cup Asides : HomeOf(n, p)

AtHome(p) == Exists(p) => ds[p].at \notin Projects \ {p}

\* The temporary dataset, before it is published.
TempOK(r) ==
    pc[r] \in {"copy", "look", "aside", "publish"} /\ Exists(job[r].tmp) =>
        /\ ds[job[r].tmp].at \notin Projects
        /\ pc[r] # "copy" => ds[job[r].tmp].data = job[r].data

\* What the old dataset's place says of it, at each step of the swap.
SwapOK(r) ==
    LET p == job[r].p  rb == job[r].rb IN
    /\ MidSwap(r) /\ Exists(rb) => ds[rb].at \notin Projects \ {p}
    /\ MidSwap(r) /\ job[r].had /\ p \notin lost /\ Owed(p) => HomeOf(rb, p)
    /\ pc[r] = "publish" /\ ~job[r].had /\ p \notin lost /\ Owed(p) => HomeOf(p, p)
    /\ pc[r] \in {"remount", "mount", "unpublish"} /\ Owed(p) =>
           /\ \E n \in Asides : HomeOf(n, p)
           /\ ~job[r].had => p \in lost
    /\ pc[r] \in {"remount", "mount"} => Exists(p) /\ ds[p].data = job[r].data
    /\ pc[r] = "dropaside" /\ Owed(p) => HomeOf(p, p)

RestoreOK(r) ==
    /\ pc[r] \in {"receive", "prepare", "copy", "look"} => ~job[r].had
    /\ pc[r] \in {"aside", "putback"} => job[r].had
    /\ TempOK(r)
    /\ SwapOK(r)

\* A home that nothing mounted at a project's path shows.
Unmounted(n, p) == HomeOf(n, p) /\ ds[n].at \notin Projects

CloneOK(r) ==
    LET q == job[r].q IN
    /\ pc[r] # "check" /\ Owed(q) =>
           /\ \E n \in {q} \cup Asides : Unmounted(n, q)
           /\ q \notin lost => Unmounted(q, q)
    /\ pc[r] \in {"finish", "unclone"} /\ Owed(q) =>
           /\ q \in lost
           /\ \E n \in Asides : Unmounted(n, q)
    /\ pc[r] = "finish" => Exists(q) /\ ds[q].data = job[r].data

Safe(p) ==
    /\ InPlace(p) /\ HasHome(p) /\ AtHome(p)
    /\ \A r \in Requests : pc[r] \in RestoreSteps /\ job[r].p = p => RestoreOK(r)
    /\ \A r \in Requests : pc[r] \in CloneSteps /\ job[r].q = p => CloneOK(r)

\* What is mounted at a project's path has a directory there.
Mounted == \A n \in Names : Exists(n) /\ ds[n].at \in Projects => ds[n].at \in dirs


(* What of a project's content a step of a request leaves as it is that     *)
(* does not replace the project.                                            *)
Spares(r, p) ==
    /\ Elsewhere(r)
    /\ owed'[p] = owed[p]
    /\ p \in lost' <=> p \in lost
    /\ pc[r] \in RestoreSteps => job[r].p # p
    /\ pc'[r] \in RestoreSteps /\ job'[r].p = p => RestoreOK(r)' /\ ~MidSwap(r)'
    /\ pc'[r] \in CloneSteps /\ job'[r].q = p => CloneOK(r)'
    /\ \A a \in Asides : pc'[r] \in RestoreSteps /\ a \in Own(r)' =>
           ~Exists(a) \/ (pc[r] \in RestoreSteps /\ a \in Own(r))
    /\ \A a \in Asides : ~(pc[r] \in RestoreSteps /\ a \in Own(r)) =>
           /\ StaysPut(a)
           /\ Exists(a) /\ ds[a].at \notin Projects \ {p} => KeepsData(a)
    /\ AtHome(p) => AtHome(p)'
    /\ Exists(p) /\ ds[p].at \notin Projects \ {p} =>
           /\ ds'[p] # NoDs
           /\ KeepsData(p)
           /\ ds'[p].at = ds[p].at \/ (ds'[p].at = p /\ held[p] = r)

LEMMA SparedHome ==
    ASSUME TypeOK, NEW p \in Projects, NEW r \in Requests, Spares(r, p), NEW n, HomeOf(n, p)
    PROVE  /\ HomeOf(n, p)'
           /\ ds'[n].at = ds[n].at \/ (n = p /\ held[p] = r)
<1>1. n \in {p} \cup Asides /\ Holds(n, p) /\ ds[n].at \notin Projects \ {p}
  BY DEF HomeOf
<1>2. CASE n = p
  BY <1>1, <1>2 DEF Spares, HomeOf, Holds, Exists, KeepsData
<1>3. CASE n \in Asides /\ n # p
  <2>1. ~(pc[r] \in RestoreSteps /\ n \in Own(r))
    BY <1>3 DEF HomeOf, SetAside, Spares
  <2>2. ds'[n] # NoDs /\ ds'[n].data = ds[n].data /\ ds'[n].at = ds[n].at
    BY <1>1, <1>3, <2>1 DEF Spares, StaysPut, KeepsData, Holds
  <2>3. ASSUME NEW o \in Requests, pc'[o] \in RestoreSteps, n \in Own(o)'
        PROVE  SetAside(o, n, p)'
    <3>1. o # r
      BY <1>1, <1>3, <2>1, <2>3 DEF Spares, Holds
    <3>2. pc'[o] = pc[o] /\ job'[o] = job[o]
      BY <3>1 DEF Spares, Elsewhere
    <3> QED
      BY <1>3, <2>3, <3>2 DEF HomeOf, SetAside, Own, MidSwap
  <2> QED
    BY <1>1, <1>3, <2>2, <2>3 DEF Spares, HomeOf, Holds, Exists
<1> QED
  BY <1>1, <1>2, <1>3

LEMMA SparedRestore ==
    ASSUME TypeOK, Accounted, NEW p \in Projects, NEW r \in Requests, Spares(r, p),
           NEW o \in Requests \ {r}, pc[o] \in RestoreSteps, job[o].p = p, RestoreOK(o),
           AtHome(p)
    PROVE  RestoreOK(o)'
<1>0. pc'[o] = pc[o] /\ job'[o] = job[o] /\ owed'[p] = owed[p] /\ (p \in lost' <=> p \in lost)
  BY DEF Spares, Elsewhere
<1>1. job[o].tmp \in Asides /\ job[o].rb \in Asides
  BY RouteOf DEF TypeOK, Fits, RestoreSteps
<1>2. \A a \in {job[o].tmp, job[o].rb} : ~(pc[r] \in RestoreSteps /\ a \in Own(r))
  BY DEF Accounted, Apart, Own
<1>3. StaysPut(job[o].tmp) /\ StaysPut(job[o].rb)
      /\ (Exists(job[o].tmp) /\ ds[job[o].tmp].at \notin Projects => KeepsData(job[o].tmp))
  BY <1>1, <1>2 DEF Spares
<1>4. TempOK(o)'
  BY <1>0, <1>3 DEF RestoreOK, TempOK, StaysPut, KeepsData, Exists
<1>5. \A n : HomeOf(n, p) => HomeOf(n, p)'
  BY SparedHome
<1>6. Exists(p) => ds'[p] # NoDs /\ ds'[p].data = ds[p].data
  BY DEF AtHome, Spares, KeepsData
<1>7. SwapOK(o)'
  <2>1. MidSwap(o)' = MidSwap(o) /\ Owed(p)' = Owed(p)
    BY <1>0 DEF MidSwap, Owed
  <2> QED
    BY <1>0, <1>3, <1>5, <1>6, <2>1 DEF RestoreOK, SwapOK, StaysPut, Exists
<1> QED
  BY <1>0, <1>4, <1>7 DEF RestoreOK

LEMMA SparedClone ==
    ASSUME TypeOK, LocksTaken, NEW p \in Projects, NEW r \in Requests, Spares(r, p),
           NEW o \in Requests \ {r}, pc[o] \in CloneSteps, job[o].q = p, CloneOK(o), AtHome(p)
    PROVE  CloneOK(o)'
<1>0. pc'[o] = pc[o] /\ job'[o] = job[o] /\ owed'[p] = owed[p] /\ (p \in lost' <=> p \in lost)
  BY DEF Spares, Elsewhere
<1>1. held[p] = o
  BY RouteOf DEF TypeOK, LocksTaken, Locked, CloneSteps
<1>2. \A n : Unmounted(n, p) => Unmounted(n, p)'
  BY <1>1, SparedHome DEF Unmounted
<1>3. Exists(p) => ds'[p] # NoDs /\ ds'[p].data = ds[p].data
  BY DEF AtHome, Spares, KeepsData
<1> QED
  BY <1>0, <1>2, <1>3 DEF CloneOK, Owed, Exists

LEMMA SparedSafe ==
    ASSUME TypeOK, Accounted, LocksTaken, NEW p \in Projects, NEW r \in Requests, Spares(r, p),
           Safe(p)
    PROVE  Safe(p)'
<1>1. \A n : HomeOf(n, p) => HomeOf(n, p)'
  BY SparedHome
<1>2. HasHome(p)' /\ AtHome(p)'
  BY <1>1 DEF Safe, Spares, HasHome, Owed
<1>3. InPlace(p)'
  <2>1. Swapping(p) => Swapping(p)'
    <3>1. ASSUME NEW o \in Requests, MidSwap(o), job[o].p = p
          PROVE  MidSwap(o)' /\ job'[o].p = p
      <4>1. o # r
        BY <3>1 DEF Spares, MidSwap, RestoreSteps
      <4> QED
        BY <3>1, <4>1 DEF Spares, Elsewhere, MidSwap
    <3> QED
      BY <3>1 DEF Swapping
  <2> QED
    BY <1>1, <2>1 DEF Safe, Spares, InPlace, Owed
<1>4. ASSUME NEW o \in Requests, pc'[o] \in RestoreSteps, job'[o].p = p
      PROVE  RestoreOK(o)'
  <2>1. CASE o = r
    BY <1>4, <2>1 DEF Spares
  <2>2. CASE o # r
    <3>1. pc[o] \in RestoreSteps /\ job[o].p = p
      BY <1>4, <2>2 DEF Spares, Elsewhere
    <3> QED
      BY <2>2, <3>1, SparedRestore DEF Safe
  <2> QED
    BY <2>1, <2>2
<1>5. ASSUME NEW o \in Requests, pc'[o] \in CloneSteps, job'[o].q = p
      PROVE  CloneOK(o)'
  <2>1. CASE o = r
    BY <1>5, <2>1 DEF Spares
  <2>2. CASE o # r
    <3>1. pc[o] \in CloneSteps /\ job[o].q = p
      BY <1>5, <2>2 DEF Spares, Elsewhere
    <3> QED
      BY <2>2, <3>1, SparedClone DEF Safe
  <2> QED
    BY <2>1, <2>2
<1> QED
  BY <1>2, <1>3, <1>4, <1>5 DEF Safe

LEMMA AskSpares ==
    ASSUME TypeOK, NEW r \in Requests, Ask(r), NEW p \in Projects
    PROVE  Spares(r, p)
<1>1. NewRequest(r)
  BY AskEffects
<1>2. pc'[r] \notin CloneSteps /\ pc[r] \notin RestoreSteps /\ ~MidSwap(r)'
  BY <1>1 DEF NewRequest, CloneSteps, RestoreSteps, MidSwap
<1>3. pc'[r] \in RestoreSteps =>
          /\ RestoreOK(r)'
          /\ \A a \in Own(r)' : ~Exists(a)
  <2>1. pc'[r] \in RestoreSteps => pc'[r] \in {"receive", "prepare"}
    BY <1>1 DEF NewRequest, RestoreSteps
  <2> QED
    BY <1>1, <1>2, <2>1 DEF NewRequest, RestoreOK, TempOK, SwapOK, Own, FreshAsides
<1> QED
  BY <1>1, <1>2, <1>3 DEF NewRequest, Spares, StaysPut, KeepsData, Exists, AtHome

LEMMA TakeLockSpares ==
    ASSUME TypeOK, NEW r \in Requests, TakeLock(r), NEW p \in Projects
    PROVE  Spares(r, p)
<1>1. pc[r] = "lock" /\ pc'[r] \in {"lock", "ensure", "find", "check"}
  BY TakeLockEffects DEF FirstStep
<1>2. pc[r] \notin RestoreSteps /\ pc'[r] \notin RestoreSteps
      /\ (pc'[r] \in CloneSteps => pc'[r] = "check")
  BY <1>1 DEF RestoreSteps, CloneSteps
<1>3. pc'[r] = "check" => CloneOK(r)'
  BY DEF CloneOK
<1> QED
  BY <1>2, <1>3, TakeLockEffects DEF Spares, StaysPut, KeepsData, Exists, AtHome

(* A project that a request does not replace is owed what it was.           *)
LEMMA WorkOwes ==
    ASSUME TypeOK, NEW r \in Requests, Work(r), NEW p \in Projects \ Replaced(job[r])
    PROVE  owed'[p] = owed[p] /\ (p \in lost' <=> p \in lost)
<1>0. pc[r] # "idle" /\ job[r] \in Job /\ Fits(job[r]) /\ job[r].p \in Projects
  BY WorkingElsewhere, RouteOf DEF TypeOK, Job
<1>1. CASE EnsureStep(r)
  BY <1>1 DEF EnsureStep, EnsureCached, EnsureDataset, EnsureFails, EnsureMounted, ghostVars
<1>2. CASE DeleteStep(r)
  <2>1. p # job[r].p
    BY <1>2, RouteOf DEF TypeOK, DeleteStep, FindDataset, DestroyDataset, DestroyOrigin,
       RemovePath, At, DeleteSteps, Replaced
  <2> QED
    BY <1>0, <1>2, <2>1 DEF DeleteStep, FindDataset, DestroyDataset, DestroyOrigin, RemovePath,
       ghostVars, TypeOK, GhostsOK
<1>3. CASE CloneStep(r)
  <2>1. p # job[r].q
    BY <1>3, RouteOf DEF TypeOK, CloneStep, CheckClone, SnapshotSource, CloneDataset,
       FinishClone, UndoClone, UndoSnapshot, UndoPath, At, CloneSteps, Replaced
  <2> QED
    BY <1>0, <1>3, <2>1 DEF CloneStep, CheckClone, SnapshotSource, TakeSnapshot, CloneDataset,
       FinishClone, UndoClone, UndoSnapshot, UndoPath, ghostVars, TypeOK, GhostsOK
<1>4. CASE BackupStep(r)
  BY <1>4 DEF BackupStep, DumpSnapshot, TakeSnapshot, StartSend, FinishSend, DropDump, ghostVars
<1>5. CASE RestoreStep(r)
  <2>1. pc[r] \in RestoreSteps
    BY <1>5 DEF RestoreStep, Receive, PrepareTemp, CopyInto, LookTarget, MoveAside, Publish,
       Remount, Mount, Unpublish, PutBack, DropAside, CleanUp, At, RestoreSteps
  <2>2. p # job[r].p /\ p # job[r].tmp /\ p # job[r].rb
    BY <1>0, <2>1, RouteOf, ZfsAssumption DEF TypeOK, Replaced, Fits, RestoreSteps
  <2>3. CASE Receive(r) \/ PrepareTemp(r) \/ CopyInto(r) \/ LookTarget(r) \/ MoveAside(r)
    BY <2>2, <2>3 DEF Receive, PrepareTemp, CopyInto, LookTarget, MoveAside, Lose, ghostVars
  <2>4. CASE Publish(r) \/ Remount(r) \/ Mount(r)
    BY <1>0, <2>2, <2>4 DEF Publish, Remount, Mount, ghostVars, TypeOK, GhostsOK
  <2>5. CASE Unpublish(r) \/ PutBack(r) \/ DropAside(r) \/ CleanUp(r)
    BY <2>2, <2>5 DEF Unpublish, PutBack, DropAside, CleanUp, Discard, Lose
  <2> QED
    BY <1>5, <2>3, <2>4, <2>5 DEF RestoreStep
<1> QED
  BY <1>1, <1>2, <1>3, <1>4, <1>5 DEF Work

(* Ensure mounts a project's dataset at the project's path, if at all.      *)
LEMMA EnsureSpares ==
    ASSUME TypeOK, LocksTaken, NEW r \in Requests, EnsureStep(r), NEW p, p = job[r].p
    PROVE  /\ held[p] = r
           /\ Exists(p) => /\ ds'[p] # NoDs /\ KeepsData(p)
                           /\ ds'[p].at \in {ds[p].at, p}
           /\ ~Exists(p) => ds'[p] = NoDs \/ ds'[p].at = p
<1>1. pc[r] \in EnsureSteps /\ job[r].p \in Names
  BY RouteOf DEF TypeOK, EnsureStep, EnsureCached, EnsureDataset, EnsureFails, EnsureMounted,
     At, EnsureSteps, Job, Names
<1>2. held[p] = r
  BY <1>1, RouteOf DEF TypeOK, LocksTaken, Locked, EnsureSteps
<1>3. ASSUME Exists(p), NEW path \in {ds[p].at, p}, ds' = MountedDs(p, path)
      PROVE  ds'[p] # NoDs /\ KeepsData(p) /\ ds'[p].at \in {ds[p].at, p}
  <2>1. ds[p] \in DataSet /\ path \in Names \cup {Off}
    BY <1>1, <1>3, ExistingTyped DEF TypeOK, DataSet
  <2> DEFINE d == [ds[p] EXCEPT !.at = path]
  <2>2. d \in DataSet /\ d.data = ds[p].data /\ d.at = path
    BY <2>1 DEF DataSet
  <2>3. ds'[p] = d
    BY <1>1, <1>3 DEF MountedDs, TypeOK, DisksOK
  <2> HIDE DEF d
  <2> QED
    BY <1>3, <2>2, <2>3, ZfsAssumption DEF KeepsData
<1>4. CASE UNCHANGED ds
  BY <1>2, <1>4 DEF KeepsData, Exists
<1>5. CASE ~Exists(p) /\ ds' = [ds EXCEPT ![p] = NewDataSet(Empty, NoSnap, p)]
  BY <1>1, <1>2, <1>5 DEF NewDataSet, TypeOK, DisksOK
<1>6. \/ UNCHANGED ds
      \/ ~Exists(p) /\ ds' = [ds EXCEPT ![p] = NewDataSet(Empty, NoSnap, p)]
      \/ Exists(p) /\ \E path \in {ds[p].at, p} : ds' = MountedDs(p, path)
  BY DEF EnsureStep, EnsureCached, EnsureDataset, EnsureFails, EnsureMounted, diskVars
<1> QED
  BY <1>2, <1>3, <1>4, <1>5, <1>6

LEMMA WorkSpares ==
    ASSUME TypeOK, TypeOK', LocksTaken, NEW r \in Requests, Work(r),
           NEW p \in Projects \ Replaced(job[r])
    PROVE  Spares(r, p)
<1>0. /\ Elsewhere(r) /\ pc[r] \notin {"idle", "lock"} /\ job[r] \in Job /\ Fits(job[r])
      /\ job[r].p \in Projects /\ OnRoute(job[r].op, pc[r])
  BY WorkingElsewhere DEF TypeOK, RequestsOK, Job
<1>1. pc'[r] = "idle" \/ (SameRoute(job[r], job'[r]) /\ OnRoute(job'[r].op, pc'[r]))
  BY WorkGoesOn, AnswerElsewhere DEF TypeOK, RequestsOK, GoesOn
<1>2. pc[r] \in RestoreSteps => job[r].op = "restore"
  BY RouteOf DEF TypeOK, RestoreSteps
<1>3. pc[r] \in RestoreSteps => job[r].p # p
  BY <1>2 DEF Replaced
<1>4. pc'[r] \in RestoreSteps =>
          job[r].op = "restore" /\ Own(r)' = Own(r) /\ job'[r].p = job[r].p
  BY <1>1 DEF SameRoute, OnRoute, Own, EnsureSteps, DeleteSteps, CloneSteps, BackupSteps,
     RestoreSteps
<1>5. job[r].op = "restore" => pc[r] \in RestoreSteps
  BY <1>0 DEF OnRoute
<1>6. ~(pc'[r] \in RestoreSteps /\ job'[r].p = p)
  BY <1>3, <1>4, <1>5
<1>7. ~(pc'[r] \in CloneSteps /\ job'[r].q = p)
  <2>1. pc'[r] \in CloneSteps => job[r].op = "clone" /\ job'[r].q = job[r].q
    BY <1>1 DEF SameRoute, OnRoute, EnsureSteps, DeleteSteps, CloneSteps, BackupSteps,
       RestoreSteps
  <2> QED
    BY <2>1 DEF Replaced
<1>8. Replaced(job[r]) \subseteq Projects \ {p}
  BY DEF Replaced
<1>9. ASSUME NEW a \in Asides, ~(pc[r] \in RestoreSteps /\ a \in Own(r))
      PROVE  /\ StaysPut(a)
             /\ Exists(a) /\ ds[a].at \notin Projects \ {p} => KeepsData(a)
  <2>1. a \in Names \ Reach(job[r])
    BY <1>0, <1>5, <1>9, ZfsAssumption DEF Reach, Own, Names, Fits
  <2> QED
    BY <1>8, <2>1, WorkStays
<1>10. /\ AtHome(p) => AtHome(p)'
       /\ Exists(p) /\ ds[p].at \notin Projects \ {p} =>
              /\ ds'[p] # NoDs
              /\ KeepsData(p)
              /\ ds'[p].at = ds[p].at \/ (ds'[p].at = p /\ held[p] = r)
  <2>1. CASE p \notin Reach(job[r])
    <3>1. /\ StaysPut(p)
          /\ Exists(p) /\ ds[p].at \notin Replaced(job[r]) => KeepsData(p)
      BY <2>1, WorkStays DEF Names
    <3> QED
      BY <1>8, <3>1 DEF AtHome, StaysPut, Exists
  <2>2. CASE p \in Reach(job[r])
    <3>1. job[r].op = "ensure" /\ p = job[r].p
      BY <1>0, <2>2, ZfsAssumption DEF Reach, Replaced, Fits
    <3>2. EnsureStep(r)
      <4>1. pc[r] \in EnsureSteps
        BY <1>0, <3>1 DEF OnRoute
      <4> QED
        BY <4>1 DEF Work, EnsureSteps, DeleteStep, FindDataset, DestroyDataset, DestroyOrigin,
           RemovePath, CloneStep, CheckClone, SnapshotSource, CloneDataset, FinishClone,
           UndoClone, UndoSnapshot, UndoPath, BackupStep, DumpSnapshot, StartSend, FinishSend,
           DropDump, RestoreStep, Receive, PrepareTemp, CopyInto, LookTarget, MoveAside,
           Publish, Remount, Mount, Unpublish, PutBack, DropAside, CleanUp, At
    <3> QED
      BY <3>1, <3>2, EnsureSpares DEF AtHome, Exists
  <2> QED
    BY <2>1, <2>2
<1>11. owed'[p] = owed[p] /\ (p \in lost' <=> p \in lost)
  BY WorkOwes
<1> QED
  BY <1>0, <1>3, <1>4, <1>5, <1>6, <1>7, <1>9, <1>10, <1>11 DEF Spares

-----------------------------------------------------------------------------
(* The requests that replace a project.                                     *)

(* Nobody else restores or clones to the project meanwhile.                 *)
LEMMA OwnSafe ==
    ASSUME TypeOK, OneReplaces, NEW r \in Requests, NEW p \in Projects, Elsewhere(r),
           Replacing(r, p), InPlace(p)', HasHome(p)', AtHome(p)',
           pc'[r] \in RestoreSteps => RestoreOK(r)',
           pc'[r] \in CloneSteps => CloneOK(r)'
    PROVE  Safe(p)'
<1>1. ASSUME NEW o \in Requests, o # r
      PROVE  /\ pc'[o] \in RestoreSteps => job'[o].p # p
             /\ pc'[o] \in CloneSteps => job'[o].q # p
  <2>1. pc'[o] = pc[o] /\ job'[o] = job[o] /\ ~Replacing(o, p)
    BY <1>1 DEF Elsewhere, OneReplaces
  <2> QED
    BY <2>1, RouteOf DEF TypeOK, Replacing, Replaced, RestoreSteps, CloneSteps
<1> QED
  BY <1>1 DEF Safe

(* A deletion: either the content stays, or nothing is owed any more.       *)
LEMMA DeleteSafe ==
    ASSUME TypeOK, TypeOK', Accounted, LocksTaken, OneReplaces, NEW r \in Requests,
           DeleteStep(r), NEW p \in Projects, p = job[r].p, Safe(p)
    PROVE  Safe(p)'
<1>0. /\ Elsewhere(r) /\ pc[r] \in DeleteSteps /\ pc'[r] \in DeleteSteps \cup {"idle"}
      /\ job[r].op = "delete" /\ p \in Names
  <2>1. pc[r] \in DeleteSteps
    BY DEF DeleteStep, FindDataset, DestroyDataset, DestroyOrigin, RemovePath, At, DeleteSteps
  <2>2. Elsewhere(r) /\ (Answer(r) \/ GoesOn(r))
    BY WorkingElsewhere, WorkGoesOn DEF Work
  <2>3. job[r].op = "delete"
    BY <2>1, RouteOf DEF TypeOK, DeleteSteps
  <2>4. pc'[r] # "lock"
    BY WorkingElsewhere DEF Work
  <2>5. GoesOn(r) => OnRoute("delete", pc'[r])
    BY <2>3 DEF GoesOn, SameRoute, TypeOK, RequestsOK
  <2> QED
    BY <2>1, <2>2, <2>3, <2>4, <2>5, AnswerElsewhere DEF TypeOK, OnRoute, Names
<1>1. Replacing(r, p)
  BY <1>0 DEF Replacing, Replaced, DeleteSteps
<1>2. pc[r] \notin RestoreSteps /\ pc'[r] \notin RestoreSteps /\ pc'[r] \notin CloneSteps
  BY <1>0 DEF DeleteSteps, RestoreSteps, CloneSteps
<1>3. ASSUME \A n \in Names : StaysPut(n) /\ KeepsData(n), UNCHANGED ghostVars
      PROVE  Safe(p)'
  <2>1. Spares(r, p)
    BY <1>0, <1>2, <1>3 DEF Spares, StaysPut, KeepsData, Exists, AtHome, Names, ghostVars
  <2> QED
    BY <2>1, SparedSafe
<1>4. ASSUME owed'[p] = Nothing, AtHome(p)'
      PROVE  Safe(p)'
  BY <1>0, <1>1, <1>2, <1>4, OwnSafe DEF InPlace, HasHome, Owed
<1>5. ASSUME UNCHANGED ds
      PROVE  \A n \in Names : StaysPut(n) /\ KeepsData(n)
  BY <1>5 DEF StaysPut, KeepsData, Exists
<1>6. CASE FindDataset(r)
  BY <1>3, <1>5, <1>6 DEF FindDataset, diskVars
<1>7. CASE DestroyDataset(r)
  <2>1. CASE ds' = Destroyed(p) /\ owed' = [owed EXCEPT ![p] = Nothing]
    <3>1. owed'[p] = Nothing /\ ds'[p] = NoDs
      BY <1>0, <2>1 DEF Destroyed, TypeOK, DisksOK, GhostsOK
    <3> QED
      BY <1>4, <3>1 DEF AtHome, Exists
  <2> QED
    BY <1>3, <1>5, <1>7, <2>1 DEF DestroyDataset
<1>8. CASE DestroyOrigin(r)
  BY <1>3, <1>8, DropSnapStays DEF DestroyOrigin, TypeOK
<1>9. CASE RemovePath(r)
  <2>1. \A n \in Names : StaysPut(n)
    BY <1>9, WipedStays DEF RemovePath, TypeOK
  <2>2. CASE Top(p) = {}
    <3>1. UNCHANGED ds /\ UNCHANGED ghostVars
      BY <1>9, <2>2 DEF RemovePath, WipedAt, TypeOK, DisksOK, ghostVars
    <3> QED
      BY <1>3, <1>5, <3>1
  <2>3. CASE Top(p) # {}
    <3>1. owed'[p] = Nothing
      BY <1>9, <2>3 DEF RemovePath, TypeOK, GhostsOK
    <3>2. AtHome(p)'
      BY <1>0, <2>1 DEF Safe, AtHome, StaysPut, Exists
    <3> QED
      BY <1>4, <3>1, <3>2
  <2> QED
    BY <2>2, <2>3
<1> QED
  BY <1>6, <1>7, <1>8, <1>9 DEF DeleteStep

LEMMA HomeStays ==
    ASSUME NEW p \in Projects, NEW r \in Requests, Elsewhere(r), owed'[p] = owed[p],
           NEW n, HomeOf(n, p),
           ds'[n] # NoDs, ds'[n].data = ds[n].data, ds'[n].at \notin Projects \ {p},
           n # p /\ pc'[r] \in RestoreSteps /\ n \in Own(r)' => SetAside(r, n, p)'
    PROVE  HomeOf(n, p)'
<1>1. ASSUME n # p, NEW o \in Requests, o # r, pc'[o] \in RestoreSteps, n \in Own(o)'
      PROVE  SetAside(o, n, p)'
  BY <1>1 DEF Elsewhere, HomeOf, SetAside, Own, MidSwap
<1> QED
  BY <1>1 DEF HomeOf, Holds, Exists

(* A clone: it begins where nothing is mounted, and what it removes in the  *)
(* end is nothing that the clients are owed.                                *)
LEMMA CloneSafe ==
    ASSUME TypeOK, TypeOK', Accounted, LocksTaken, OneReplaces, Mounted, NEW r \in Requests,
           CloneStep(r), NEW p \in Projects, p = job[r].q, Safe(p)
    PROVE  Safe(p)'
<1>0. /\ Elsewhere(r) /\ pc[r] \in CloneSteps /\ pc'[r] \in CloneSteps \cup {"idle"}
      /\ job[r].op = "clone" /\ p \in Names /\ CloneOK(r)
      /\ pc'[r] # "idle" => job'[r].q = p
  <2>1. pc[r] \in CloneSteps
    BY DEF CloneStep, CheckClone, SnapshotSource, CloneDataset, FinishClone, UndoClone,
       UndoSnapshot, UndoPath, At, CloneSteps
  <2>2. Elsewhere(r) /\ (Answer(r) \/ GoesOn(r)) /\ pc'[r] # "lock"
    BY WorkingElsewhere, WorkGoesOn DEF Work
  <2>3. job[r].op = "clone"
    BY <2>1, RouteOf DEF TypeOK, CloneSteps
  <2>4. GoesOn(r) => OnRoute("clone", pc'[r]) /\ job'[r].q = p
    BY <2>3 DEF GoesOn, SameRoute, TypeOK, RequestsOK
  <2> QED
    BY <2>1, <2>2, <2>3, <2>4, AnswerElsewhere DEF TypeOK, OnRoute, Names, Safe
<1>1. Replacing(r, p)
  BY <1>0 DEF Replacing, Replaced, CloneSteps
<1>2. pc[r] \notin RestoreSteps /\ pc'[r] \notin RestoreSteps
  BY <1>0 DEF RestoreSteps, CloneSteps
<1>3. ASSUME owed'[p] = owed[p], NEW n, Unmounted(n, p), StaysPut(n), KeepsData(n)
      PROVE  Unmounted(n, p)' /\ HomeOf(n, p)'
  <2>1. HomeOf(n, p) /\ Exists(n) /\ ds'[n] # NoDs /\ ds'[n].at = ds[n].at
        /\ ds'[n].data = ds[n].data
    BY <1>3 DEF Unmounted, HomeOf, Holds, StaysPut, KeepsData
  <2>2. HomeOf(n, p)'
    BY <1>0, <1>2, <1>3, <2>1, HomeStays DEF HomeOf
  <2> QED
    BY <1>3, <2>1, <2>2 DEF Unmounted
<1>4. ASSUME owed'[p] = owed[p], NEW n \in Asides, Unmounted(n, p), ds'[n] = ds[n]
      PROVE  Unmounted(n, p)' /\ HomeOf(n, p)'
  <2>1. Exists(n)
    BY <1>4 DEF Unmounted, HomeOf, Holds
  <2> QED
    BY <1>3, <1>4, <2>1 DEF StaysPut, KeepsData, Exists
<1>5. ASSUME \A n \in Names : StaysPut(n) /\ KeepsData(n), UNCHANGED ghostVars,
             pc'[r] # "finish", pc'[r] = "unclone" => pc[r] = "finish",
             pc[r] = "check" /\ pc'[r] # "idle" => p \notin dirs
      PROVE  Safe(p)'
  <2>1. ASSUME Owed(p), pc'[r] # "idle"
        PROVE  /\ \E n \in {p} \cup Asides : Unmounted(n, p)
               /\ p \notin lost => Unmounted(p, p)
    <3>1. CASE pc[r] = "check"
      <4>1. \A n \in Names : Exists(n) => ds[n].at # p
        BY <1>5, <2>1, <3>1 DEF Mounted
      <4>2. \A n \in {p} \cup Asides : HomeOf(n, p) => Unmounted(n, p)
        BY <1>0, <4>1 DEF Unmounted, HomeOf, Holds, Names
      <4>3. ~Swapping(p)
        <5>1. ASSUME NEW o \in Requests, MidSwap(o), job[o].p = p
              PROVE  FALSE
          <6>1. pc[o] \in RestoreSteps
            BY <5>1 DEF MidSwap, RestoreSteps
          <6>2. Replacing(o, p)
            BY <5>1, <6>1, RouteOf DEF TypeOK, Replacing, Replaced, RestoreSteps
          <6> QED
            BY <1>1, <1>2, <6>1, <6>2 DEF OneReplaces
        <5> QED
          BY <5>1 DEF Swapping
      <4> QED
        BY <2>1, <4>2, <4>3 DEF Safe, HasHome, InPlace
    <3>2. CASE pc[r] # "check"
      BY <1>0, <2>1, <3>2 DEF CloneOK
    <3> QED
      BY <3>1, <3>2
  <2>2. owed'[p] = owed[p] /\ lost' = lost /\ {p} \cup Asides \subseteq Names
    BY <1>5 DEF ghostVars, Names
  <2>3. \A n \in {p} \cup Asides : Unmounted(n, p) => Unmounted(n, p)'
    BY <1>3, <1>5, <2>2
  <2>4. pc'[r] \in CloneSteps => CloneOK(r)'
    BY <1>0, <1>5, <2>1, <2>2, <2>3 DEF CloneOK, Owed, CloneSteps
  <2>5. Spares(r, p)
    BY <1>0, <1>2, <1>5, <2>2, <2>4 DEF Spares, StaysPut, KeepsData, Exists, AtHome, Names
  <2> QED
    BY <2>5, SparedSafe
<1>6. ASSUME UNCHANGED ds
      PROVE  \A n \in Names : StaysPut(n) /\ KeepsData(n)
  BY <1>6 DEF StaysPut, KeepsData, Exists
<1>7. \A step : Goto(r, step) => pc'[r] = step
  BY DEF TypeOK, RequestsOK, Goto
<1>8. Answer(r) => pc'[r] = "idle"
  BY AnswerElsewhere DEF TypeOK
<1>9. CASE CheckClone(r)
  BY <1>5, <1>6, <1>7, <1>8, <1>9 DEF CheckClone, diskVars
<1>10. CASE SnapshotSource(r)
  <2>1. \A n \in Names : StaysPut(n) /\ KeepsData(n)
    BY <1>10, RouteOf, SnapshotStays DEF SnapshotSource, At, TypeOK, Job, Names
  <2>2. pc[r] = "snap" /\ pc'[r] \in {"clone", "idle"} /\ UNCHANGED ghostVars
    BY <1>7, <1>8, <1>10 DEF SnapshotSource, TakeSnapshot, At
  <2> QED
    BY <1>5, <2>1, <2>2
<1>11. CASE CloneDataset(r)
  <2>1. ASSUME NEW path \in {p, Off}, ~Exists(p), pc'[r] = IF path = p THEN "finish" ELSE "unsnap",
               ds' = [ds EXCEPT ![p] = NewDataSet(job[r].data, job[r].snap, path)]
        PROVE  Safe(p)'
    <3>1. /\ owed'[p] = owed[p] /\ lost' = lost
          /\ \A n \in Asides : ds'[n] = ds[n]
          /\ ds'[p] = NewDataSet(job[r].data, job[r].snap, path)
      BY <1>0, <1>11, <2>1, ZfsAssumption DEF CloneDataset, TypeOK, DisksOK, Names, ghostVars
    <3>2. Owed(p) => p \in lost /\ \E n \in Asides : Unmounted(n, p)
      <4>1. ~Unmounted(p, p) /\ pc[r] # "check"
        BY <1>11, <2>1 DEF Unmounted, HomeOf, Holds, CloneDataset, At
      <4> QED
        BY <1>0, <4>1 DEF CloneOK
    <3>3. Owed(p)' => p \in lost' /\ \E n \in Asides : Unmounted(n, p)' /\ HomeOf(n, p)'
      BY <1>4, <3>1, <3>2 DEF Owed
    <3>4. ds'[p] # NoDs
      <4>1. job[r].data \in Data /\ job[r].snap \in Snaps \cup {NoSnap}
        BY <1>0, RouteOf DEF TypeOK, Job, CloneSteps
      <4>2. ds'[p] \in DataSet
        BY <1>0, <2>1, <3>1, <4>1, NewDataSetTyped
      <4> QED
        BY <4>2, ZfsAssumption
    <3>5. ds'[p].at = path /\ ds'[p].data = job[r].data
      BY <3>1 DEF NewDataSet
    <3>6. AtHome(p)'
      BY <2>1, <3>5, ZfsAssumption DEF AtHome, Names
    <3>7. job'[r].data = job[r].data /\ job'[r].q = p
      BY <1>0, <1>11, <2>1 DEF CloneDataset
    <3>8. CloneOK(r)'
      BY <2>1, <3>3, <3>4, <3>5, <3>7 DEF CloneOK, Exists
    <3> QED
      BY <1>0, <1>1, <1>2, <3>3, <3>6, <3>8, OwnSafe DEF InPlace, HasHome
  <2>2. CASE Goto(r, "unsnap") /\ UNCHANGED diskVars
    <3>1. pc[r] = "clone" /\ pc'[r] = "unsnap" /\ UNCHANGED <<ds, ghostVars>>
      BY <1>7, <1>11, <2>2 DEF CloneDataset, At, diskVars
    <3> QED
      BY <1>5, <1>6, <3>1
  <2>3. p # Off
    BY ZfsAssumption DEF Names
  <2> QED
    BY <1>7, <1>11, <2>1, <2>2, <2>3 DEF CloneDataset
<1>12. CASE FinishClone(r)
  <2>1. CASE Exists(p) /\ owed' = [owed EXCEPT ![p] = job[r].data] /\ Answer(r)
    <3>1. owed'[p] = job[r].data /\ UNCHANGED ds /\ ds[p].data = job[r].data
          /\ pc'[r] = "idle"
      BY <1>0, <1>8, <1>12, <2>1 DEF FinishClone, CloneOK, At, TypeOK, GhostsOK, diskVars
    <3>2. HomeOf(p, p)' /\ AtHome(p)'
      BY <2>1, <3>1 DEF HomeOf, Holds, Exists, Safe, AtHome
    <3> QED
      BY <1>0, <1>1, <3>1, <3>2, OwnSafe DEF InPlace, HasHome, RestoreSteps, CloneSteps
  <2>2. CASE Goto(r, "unclone") /\ UNCHANGED ghostVars
    <3>1. pc[r] = "finish" /\ pc'[r] = "unclone" /\ UNCHANGED <<ds, ghostVars>>
      BY <1>7, <1>12, <2>2 DEF FinishClone, At, diskVars
    <3> QED
      BY <1>5, <1>6, <3>1
  <2> QED
    BY <1>12, <2>1, <2>2 DEF FinishClone
<1>13. CASE UndoClone(r)
  <2>0. pc[r] = "unclone" /\ pc'[r] = "unsnap" /\ UNCHANGED ghostVars
    BY <1>7, <1>13 DEF UndoClone, At
  <2>1. CASE ds' = Destroyed(p)
    <3>1. ds'[p] = NoDs /\ \A n \in Asides : ds'[n] = ds[n]
      BY <1>0, <2>1, ZfsAssumption DEF Destroyed, TypeOK, DisksOK, Names
    <3>2. Owed(p) => p \in lost /\ \E n \in Asides : Unmounted(n, p)
      BY <1>0, <2>0 DEF CloneOK
    <3>3. Owed(p)' => p \in lost' /\ \E n \in Asides : Unmounted(n, p)' /\ HomeOf(n, p)'
      BY <1>4, <2>0, <3>1, <3>2 DEF Owed, ghostVars
    <3>4. CloneOK(r)'
      BY <1>0, <2>0, <3>3 DEF CloneOK
    <3> QED
      BY <1>0, <1>1, <1>2, <3>1, <3>3, <3>4, OwnSafe DEF InPlace, HasHome, AtHome, Exists
  <2>2. CASE UNCHANGED ds
    BY <1>5, <1>6, <2>0, <2>2
  <2> QED
    BY <1>13, <2>1, <2>2 DEF UndoClone
<1>14. CASE UndoSnapshot(r)
  <2>1. \A n \in Names : StaysPut(n) /\ KeepsData(n)
    BY <1>14, DropSnapStays DEF UndoSnapshot, TypeOK
  <2>2. pc[r] = "unsnap" /\ pc'[r] = "unpath" /\ UNCHANGED ghostVars
    BY <1>7, <1>14 DEF UndoSnapshot, At
  <2> QED
    BY <1>5, <2>1, <2>2
<1>15. CASE UndoPath(r)
  <2>0. pc[r] = "unpath" /\ pc'[r] = "idle" /\ owed'[p] = owed[p] /\ lost' = lost
    BY <1>8, <1>15 DEF UndoPath, At, ghostVars
  <2>1. \A n \in Names : StaysPut(n) /\ (Exists(n) /\ ds[n].at # p => KeepsData(n))
    BY <1>15, WipedStays DEF UndoPath, TypeOK
  <2>2. ASSUME NEW n \in {p} \cup Asides, Unmounted(n, p)
        PROVE  HomeOf(n, p)'
    <3>1. n \in Names /\ Exists(n) /\ ds[n].at # p
      BY <2>2 DEF Unmounted, HomeOf, Holds, Names
    <3> QED
      BY <1>3, <2>0, <2>1, <2>2, <3>1
  <2>3. InPlace(p)' /\ HasHome(p)'
    BY <1>0, <2>0, <2>2 DEF CloneOK, InPlace, HasHome, Owed
  <2>4. AtHome(p)'
    BY <1>0, <2>1 DEF Safe, AtHome, StaysPut, Exists
  <2> QED
    BY <1>0, <1>1, <2>0, <2>3, <2>4, OwnSafe DEF RestoreSteps, CloneSteps
<1> QED
  BY <1>9, <1>10, <1>11, <1>12, <1>13, <1>14, <1>15 DEF CloneStep

(* A restore: who has its names, and who else swaps its project (nobody).   *)
LEMMA Restoring ==
    ASSUME TypeOK, Accounted, OneReplaces, NEW r \in Requests, pc[r] \in RestoreSteps,
           NEW p, p = job[r].p
    PROVE  /\ job[r] \in Job /\ p \in Projects /\ p \in Names /\ p \notin Asides
           /\ job[r].tmp \in Asides /\ job[r].rb \in Asides /\ job[r].tmp # job[r].rb
           /\ job[r].tmp \in Names /\ job[r].rb \in Names
           /\ Replacing(r, p) /\ Prepared(r)
           /\ ~MidSwap(r) => ~Swapping(p)
           /\ \A o \in Requests \ {r} : pc[o] \in RestoreSteps =>
                  job[r].tmp \notin Own(o) /\ job[r].rb \notin Own(o)
<1>1. /\ job[r] \in Job /\ p \in Projects /\ job[r].op = "restore"
      /\ job[r].tmp \in Asides /\ job[r].rb \in Asides
  BY RouteOf DEF TypeOK, Job, Fits, RestoreSteps
<1>2. Prepared(r)
  BY DEF Accounted
<1>3. Replacing(r, p)
  BY <1>1 DEF Replacing, Replaced, RestoreSteps
<1>4. ~MidSwap(r) => ~Swapping(p)
  <2>1. ASSUME NEW o \in Requests, MidSwap(o), job[o].p = p
        PROVE  o = r
    <3>1. pc[o] \in RestoreSteps
      BY <2>1 DEF MidSwap, RestoreSteps
    <3>2. Replacing(o, p)
      BY <1>1, <2>1, <3>1, RouteOf DEF TypeOK, Replacing, Replaced, RestoreSteps
    <3> QED
      BY <1>1, <1>3, <3>2 DEF OneReplaces
  <2> QED
    BY <2>1 DEF Swapping
<1>5. \A o \in Requests \ {r} : pc[o] \in RestoreSteps =>
          job[r].tmp \notin Own(o) /\ job[r].rb \notin Own(o)
  BY DEF Accounted, Apart, Own
<1> QED
  BY <1>1, <1>2, <1>3, <1>4, <1>5, ZfsAssumption DEF Prepared, Names

Proceeds(r) == pc'[r] = "idle" \/ GoesOn(r)

(* A dataset that keeps the content of the restore's own project goes on to *)
(* do so if the step leaves it alone.                                       *)
LEMMA OwnHome ==
    ASSUME TypeOK, Accounted, OneReplaces, NEW r \in Requests, pc[r] \in RestoreSteps,
           NEW p, p = job[r].p, Elsewhere(r), Proceeds(r), owed'[p] = owed[p],
           NEW n, HomeOf(n, p)
    PROVE  /\ n \in Names /\ n # job[r].tmp
           /\ n = job[r].rb => MidSwap(r) \/ pc[r] = "cleanup"
           /\ /\ ds'[n] = ds[n]
              /\ n = job[r].rb => MidSwap(r)' \/ pc'[r] \in {"cleanup", "idle"}
              => HomeOf(n, p)'
<1>1. /\ p \in Projects /\ p \notin Asides /\ job[r].tmp # job[r].rb
      /\ job[r].tmp \in Asides /\ job[r].rb \in Asides
  BY Restoring
<1>2. n \in {p} \cup Asides /\ Exists(n) /\ ds[n].at \notin Projects \ {p}
  BY DEF HomeOf, Holds
<1>3. n \in Own(r) => SetAside(r, n, p)
  BY <1>1, <1>2 DEF HomeOf, Own
<1>4. n # job[r].tmp /\ (n = job[r].rb => MidSwap(r) \/ pc[r] = "cleanup")
  BY <1>1, <1>3 DEF Own, SetAside
<1>5. ASSUME ds'[n] = ds[n],
             n = job[r].rb => MidSwap(r)' \/ pc'[r] \in {"cleanup", "idle"}
      PROVE  HomeOf(n, p)'
  <2>1. ASSUME n # p, pc'[r] \in RestoreSteps, n \in Own(r)'
        PROVE  SetAside(r, n, p)'
    <3>1. pc'[r] # "idle" /\ job'[r].p = p /\ job'[r].tmp = job[r].tmp /\ job'[r].rb = job[r].rb
      BY <2>1 DEF Proceeds, GoesOn, SameRoute, RestoreSteps
    <3>2. n = job[r].rb
      BY <1>4, <2>1, <3>1 DEF Own
    <3> QED
      BY <1>5, <3>1, <3>2 DEF SetAside
  <2> QED
    BY <1>1, <1>2, <1>5, <2>1, HomeStays DEF Exists
<1> QED
  BY <1>1, <1>2, <1>4, <1>5 DEF Names

(* Before and after the swap nothing but the restore's own names changes.   *)
LEMMA OutsideSwap ==
    ASSUME TypeOK, Accounted, OneReplaces, NEW r \in Requests, pc[r] \in RestoreSteps,
           NEW p, p = job[r].p, Elsewhere(r), Proceeds(r), Safe(p),
           owed'[p] = owed[p], p \in lost' <=> p \in lost,
           ~MidSwap(r), pc[r] = "cleanup" => pc'[r] = "idle",
           \A n \in Names : n # job[r].tmp /\ (n = job[r].rb => pc[r] = "cleanup")
               => ds'[n] = ds[n],
           pc'[r] \in RestoreSteps => RestoreOK(r)',
           pc'[r] \notin CloneSteps
    PROVE  Safe(p)'
<1>1. /\ p \in Projects /\ p \in Names /\ p # job[r].tmp /\ p # job[r].rb
      /\ Replacing(r, p) /\ ~Swapping(p)
  BY Restoring
<1>2. ASSUME NEW n, HomeOf(n, p)
      PROVE  HomeOf(n, p)'
  BY <1>2, OwnHome
<1>3. HasHome(p)' /\ InPlace(p)'
  BY <1>1, <1>2 DEF Safe, HasHome, InPlace, Owed
<1>4. AtHome(p)'
  BY <1>1 DEF Safe, AtHome, Exists
<1> QED
  BY <1>1, <1>3, <1>4, OwnSafe

LEMMA BeforeSwapSafe ==
    ASSUME TypeOK, Accounted, OneReplaces, NEW r \in Requests, NEW p, p = job[r].p, Safe(p),
           Receive(r) \/ PrepareTemp(r) \/ CopyInto(r) \/ LookTarget(r)
    PROVE  Safe(p)'
<1> DEFINE tmp == job[r].tmp
           rb == job[r].rb
<1>0. /\ pc[r] \in {"receive", "prepare", "copy", "look"} /\ pc[r] \in RestoreSteps /\ ~MidSwap(r)
      /\ Elsewhere(r) /\ Proceeds(r)
  BY WorkingElsewhere, WorkGoesOn, AnswerElsewhere DEF Work, RestoreStep, Receive, PrepareTemp,
     CopyInto, LookTarget, At, RestoreSteps, MidSwap, Proceeds, TypeOK
<1>1. /\ p \in Projects /\ p \in Names /\ p # tmp /\ tmp \in Names /\ tmp \in Asides
      /\ job[r] \in Job /\ Prepared(r) /\ ~Swapping(p) /\ rb \in Names /\ tmp # rb
  BY <1>0, Restoring
<1>2. RestoreOK(r) /\ ~job[r].had /\ ~Exists(rb)
  BY <1>0, <1>1 DEF Safe, RestoreOK, Prepared
<1>3. \A step : Goto(r, step) => pc'[r] = step
  BY DEF TypeOK, RequestsOK, Goto
<1>4. Answer(r) => pc'[r] = "idle"
  BY AnswerElsewhere DEF TypeOK
<1>5. /\ \A n \in Names \ {tmp} : ds'[n] = ds[n]
      /\ owed'[p] = owed[p]
      /\ p \in lost' <=> p \in lost
  BY <1>1 DEF Receive, PrepareTemp, CopyInto, LookTarget, Lose, TypeOK, DisksOK, diskVars, ghostVars
<1>6. pc'[r] \in {"look", "copy", "cleanup", "aside", "publish", "idle"}
  BY <1>3, <1>4 DEF Receive, PrepareTemp, CopyInto, LookTarget
<1>7. pc'[r] # "idle" => job'[r].p = p /\ job'[r].tmp = tmp /\ job'[r].rb = rb
                         /\ job'[r].data = job[r].data
  <2>1. job[r].op = "restore"
    BY <1>0, RouteOf DEF TypeOK
  <2> QED
    BY <1>0, <2>1 DEF Proceeds, GoesOn, SameRoute
<1>8. pc'[r] # "idle" => /\ pc'[r] = "aside" => job'[r].had
                         /\ pc'[r] # "aside" => ~job'[r].had
  <2>1. CASE LookTarget(r)
    <3>1. CASE job' = [job EXCEPT ![r].had = Exists(p)]
               /\ Goto(r, IF Exists(p) THEN "aside" ELSE "publish")
      <4>1. job'[r].had = Exists(p)
        BY <1>1, <3>1 DEF TypeOK, RequestsOK, Job
      <4> QED
        BY <1>3, <3>1, <4>1
    <3> QED
      BY <1>2, <1>3, <2>1, <3>1 DEF LookTarget
  <2>2. CASE Receive(r) \/ PrepareTemp(r) \/ CopyInto(r)
    BY <1>2, <1>3, <1>4, <2>2 DEF Receive, PrepareTemp, CopyInto
  <2> QED
    BY <2>1, <2>2
<1>9. TempOK(r)'
  <2>1. \A d, path : ds' = [ds EXCEPT ![tmp] = NewDataSet(d, NoSnap, path)] =>
            ds'[tmp].at = path /\ ds'[tmp].data = d
    BY <1>1 DEF NewDataSet, TypeOK, DisksOK
  <2>2. CASE Receive(r)
    BY <1>1, <1>3, <1>4, <1>7, <2>1, <2>2, ZfsAssumption DEF Receive, TempOK, Names
  <2>3. CASE PrepareTemp(r)
    BY <1>1, <1>3, <1>4, <1>7, <2>1, <2>3, ZfsAssumption DEF PrepareTemp, TempOK, Names
  <2>4. CASE CopyInto(r)
    <3>1. CASE Exists(tmp) /\ ds' = [ds EXCEPT ![tmp].data = job[r].data]
      <4>1. ds'[tmp].data = job[r].data /\ ds'[tmp].at = ds[tmp].at
        <5>1. ds[tmp] \in DataSet
          BY <1>1, <3>1, ExistingTyped DEF TypeOK
        <5>2. ds'[tmp] = [ds[tmp] EXCEPT !.data = job[r].data]
          BY <1>1, <3>1 DEF TypeOK, DisksOK
        <5> QED
          BY <5>1, <5>2 DEF DataSet
      <4>2. ds[tmp].at \notin Projects
        BY <1>2, <2>4, <3>1 DEF RestoreOK, TempOK, CopyInto, At
      <4> QED
        BY <1>7, <4>1, <4>2 DEF TempOK
    <3>2. CASE Goto(r, "cleanup")
      BY <1>3, <3>2 DEF TempOK
    <3> QED
      BY <2>4, <3>1, <3>2 DEF CopyInto
  <2>5. CASE LookTarget(r)
    BY <1>2, <1>6, <1>7, <2>5 DEF LookTarget, RestoreOK, TempOK, Exists, At, diskVars
  <2> QED
    BY <2>2, <2>3, <2>4, <2>5
<1>10. ASSUME HomeOf(p, p)
       PROVE  HomeOf(p, p)'
  BY <1>0, <1>1, <1>5, <1>10, OwnHome, ZfsAssumption DEF Names
<1>11. pc'[r] # "idle" => SwapOK(r)'
  <2>1. ds'[rb] = NoDs
    BY <1>1, <1>2, <1>5 DEF Exists
  <2>2. p \notin lost /\ Owed(p) => HomeOf(p, p)
    BY <1>1 DEF Safe, InPlace
  <2>3. MidSwap(r)' => pc'[r] = "publish"
    BY <1>6 DEF MidSwap
  <2> QED
    BY <1>2, <1>5, <1>6, <1>7, <1>8, <1>10, <2>1, <2>2, <2>3 DEF SwapOK, Owed, Exists
<1>12. pc'[r] # "idle" => RestoreOK(r)'
  BY <1>6, <1>8, <1>9, <1>11 DEF RestoreOK
<1>13. pc'[r] \in RestoreSteps => RestoreOK(r)'
  BY <1>12 DEF RestoreSteps
<1>14. pc'[r] \notin CloneSteps
  BY <1>6 DEF CloneSteps
<1> QED
  BY <1>0, <1>5, <1>13, <1>14, OutsideSwap

LEMMA AfterSwapSafe ==
    ASSUME TypeOK, Accounted, OneReplaces, NEW r \in Requests, NEW p, p = job[r].p, Safe(p),
           \/ DropAside(r) \/ CleanUp(r)
           \/ MoveAside(r) /\ pc'[r] = "cleanup"
    PROVE  Safe(p)'
<1>0. /\ pc[r] \in {"dropaside", "cleanup", "aside"} /\ pc[r] \in RestoreSteps /\ ~MidSwap(r)
      /\ Elsewhere(r) /\ Proceeds(r)
  BY WorkingElsewhere, WorkGoesOn, AnswerElsewhere DEF Work, RestoreStep, DropAside, CleanUp,
     MoveAside, At, RestoreSteps, MidSwap, Proceeds, TypeOK
<1>1. /\ p \in Projects /\ p \in Names /\ p # job[r].tmp /\ p # job[r].rb
      /\ job[r].tmp \in Names /\ job[r].rb \in Names
  BY <1>0, Restoring
<1>2. /\ pc[r] = "cleanup" => pc'[r] = "idle"
      /\ pc[r] # "cleanup" => pc'[r] = "cleanup"
  BY AnswerElsewhere DEF DropAside, CleanUp, MoveAside, At, Goto, TypeOK, RequestsOK
<1>3. owed'[p] = owed[p] /\ (p \in lost' <=> p \in lost)
  BY <1>1 DEF DropAside, CleanUp, MoveAside, Discard, Lose, ghostVars
<1>4. \A n \in Names : n # job[r].tmp /\ (n = job[r].rb => pc[r] = "cleanup") => ds'[n] = ds[n]
  <2>1. CASE DropAside(r)
    BY <1>1, <2>1 DEF DropAside, Discard, Destroyed, At, TypeOK, DisksOK
  <2>2. CASE CleanUp(r)
    BY <1>1, <2>2 DEF CleanUp, Discard, Destroyed, TypeOK, DisksOK
  <2>3. CASE MoveAside(r) /\ pc'[r] = "cleanup"
    BY <2>3 DEF MoveAside, Goto, TypeOK, RequestsOK
  <2> QED
    BY <2>1, <2>2, <2>3
<1>5. pc'[r] = "cleanup" => RestoreOK(r)'
  BY DEF RestoreOK, TempOK, SwapOK, MidSwap
<1>6. (pc'[r] \in RestoreSteps => pc'[r] = "cleanup") /\ pc'[r] \notin CloneSteps
  BY <1>2 DEF RestoreSteps, CloneSteps
<1> QED
  BY <1>0, <1>2, <1>3, <1>4, <1>5, <1>6, OutsideSwap

(* The swap: one rename or mount after the other, with its way back.        *)
SwapStep(r) ==
    \/ MoveAside(r) /\ pc'[r] = "publish"
    \/ Publish(r) \/ Remount(r) \/ Mount(r) \/ Unpublish(r) \/ PutBack(r)

LEMMA Swaps ==
    ASSUME TypeOK, Accounted, OneReplaces, NEW r \in Requests, NEW p, p = job[r].p, Safe(p),
           SwapStep(r)
    PROVE  /\ pc[r] \in RestoreSteps /\ Elsewhere(r) /\ Proceeds(r) /\ job' = job
           /\ pc'[r] \notin CloneSteps /\ pc'[r] # "idle"
           /\ RestoreOK(r) /\ Replacing(r, p)
           /\ \A step : Goto(r, step) => pc'[r] = step
           /\ p \in Projects /\ p \in Names /\ p # job[r].tmp /\ p # job[r].rb
           /\ job[r].tmp \in Names /\ job[r].rb \in Names /\ job[r].tmp # job[r].rb
           /\ job[r].tmp \in Asides /\ job[r].rb \in Asides
<1>1. pc[r] \in RestoreSteps
  BY DEF SwapStep, MoveAside, Publish, Remount, Mount, Unpublish, PutBack, At, RestoreSteps
<1>2. \A step : Goto(r, step) => pc'[r] = step
  BY DEF TypeOK, RequestsOK, Goto
<1>3. pc'[r] \in RestoreSteps /\ job' = job
  BY <1>2 DEF SwapStep, MoveAside, Publish, Remount, Mount, Unpublish, PutBack, RestoreSteps
<1>4. Elsewhere(r)
  BY WorkingElsewhere DEF Work, RestoreStep, SwapStep
<1>5. Proceeds(r)
  BY <1>3 DEF Proceeds, GoesOn, SameRoute, RestoreSteps
<1>6. pc'[r] \notin CloneSteps /\ pc'[r] # "idle"
  BY <1>3 DEF CloneSteps, RestoreSteps
<1>7. RestoreOK(r)
  BY <1>1 DEF Safe
<1> QED
  BY <1>1, <1>2, <1>3, <1>4, <1>5, <1>6, <1>7, Restoring

LEMMA MoveAsideSafe ==
    ASSUME TypeOK, Accounted, OneReplaces, NEW r \in Requests, NEW p, p = job[r].p, Safe(p),
           MoveAside(r), pc'[r] = "publish"
    PROVE  Safe(p)'
<1> DEFINE tmp == job[r].tmp
           rb == job[r].rb
<1>0. /\ pc[r] \in RestoreSteps /\ Elsewhere(r) /\ Proceeds(r) /\ job' = job
      /\ pc'[r] \notin CloneSteps /\ RestoreOK(r) /\ Replacing(r, p)
      /\ p \in Projects /\ p \in Names /\ p # tmp /\ p # rb
      /\ tmp \in Names /\ rb \in Names /\ tmp # rb /\ rb \in Asides
  BY Swaps DEF SwapStep
<1>1. /\ ds'[rb] = ds[p] /\ ds'[p] = NoDs
      /\ \A n \in Names : n # p /\ n # rb => ds'[n] = ds[n]
      /\ owed'[p] = owed[p] /\ lost' = lost
      /\ pc[r] = "aside" /\ job[r].had /\ Exists(p)
  BY <1>0 DEF MoveAside, CanRename, Renamed, At, Goto, TypeOK, DisksOK, RequestsOK, RestoreOK,
     ghostVars
<1>2. MidSwap(r)' /\ ~MidSwap(r) /\ ~Swapping(p) /\ Swapping(p)'
  BY <1>0, <1>1, Restoring DEF MidSwap, Swapping
<1>3. ASSUME HomeOf(p, p)
      PROVE  HomeOf(rb, p)'
  <2>1. ASSUME NEW o \in Requests, pc'[o] \in RestoreSteps, rb \in Own(o)'
        PROVE  SetAside(o, rb, p)'
    <3>1. CASE o = r
      BY <1>0, <1>2, <3>1 DEF SetAside
    <3>2. CASE o # r
      BY <1>0, <2>1, <3>2, Restoring DEF Elsewhere, Own
    <3> QED
      BY <3>1, <3>2
  <2> QED
    BY <1>0, <1>1, <1>3, <2>1 DEF HomeOf, Holds, Exists
<1>4. ASSUME NEW n, HomeOf(n, p)
      PROVE  HomeOf(IF n = p THEN rb ELSE n, p)'
  <2>1. CASE n = p
    BY <1>3, <1>4, <2>1
  <2>2. CASE n # p
    BY <1>0, <1>1, <1>2, <1>4, <2>2, OwnHome
  <2> QED
    BY <2>1, <2>2
<1>5. HasHome(p)'
  BY <1>0, <1>1, <1>4 DEF Safe, HasHome, Owed
<1>6. InPlace(p)' /\ AtHome(p)'
  BY <1>1, <1>2 DEF InPlace, AtHome, Exists
<1>7. TempOK(r)'
  BY <1>0, <1>1 DEF RestoreOK, TempOK, Exists
<1>8. SwapOK(r)'
  <2>1. ds[p].at \notin Projects \ {p}
    BY <1>1 DEF Safe, AtHome
  <2>2. p \notin lost /\ Owed(p) => HomeOf(rb, p)'
    BY <1>2, <1>3 DEF Safe, InPlace
  <2> QED
    BY <1>0, <1>1, <2>1, <2>2 DEF SwapOK, Owed
<1>9. RestoreOK(r)'
  BY <1>0, <1>7, <1>8 DEF RestoreOK
<1> QED
  BY <1>0, <1>5, <1>6, <1>9, OwnSafe

LEMMA PublishSafe ==
    ASSUME TypeOK, Accounted, OneReplaces, NEW r \in Requests, NEW p, p = job[r].p, Safe(p),
           Publish(r)
    PROVE  Safe(p)'
<1> DEFINE tmp == job[r].tmp
           rb == job[r].rb
<1>0. /\ pc[r] \in RestoreSteps /\ Elsewhere(r) /\ Proceeds(r) /\ job' = job
      /\ pc'[r] \notin CloneSteps /\ RestoreOK(r) /\ Replacing(r, p)
      /\ p \in Projects /\ p \in Names /\ p # tmp /\ p # rb
      /\ tmp \in Names /\ rb \in Names /\ tmp # rb
      /\ \A step : Goto(r, step) => pc'[r] = step
  BY Swaps DEF SwapStep
<1>1. pc[r] = "publish" /\ MidSwap(r) /\ owed'[p] = owed[p] /\ lost' = lost
  BY DEF Publish, At, MidSwap, ghostVars
<1>2. CASE CanRename(tmp, p) /\ ds' = Renamed(tmp, p) /\ Goto(r, "remount")
  <2>1. /\ ~Exists(p) /\ Exists(tmp) /\ ds'[p] = ds[tmp] /\ pc'[r] = "remount"
        /\ \A n \in Names : n # p /\ n # tmp => ds'[n] = ds[n]
    BY <1>0, <1>2 DEF CanRename, Renamed, TypeOK, DisksOK
  <2>2. MidSwap(r)' /\ Swapping(p)'
    BY <1>0, <2>1 DEF MidSwap, Swapping
  <2>3. ASSUME NEW n, HomeOf(n, p)
        PROVE  n \in Asides /\ HomeOf(n, p)'
    <3>1. n # p /\ n \in {p} \cup Asides
      BY <2>1, <2>3 DEF HomeOf, Holds
    <3> QED
      BY <1>0, <1>1, <2>1, <2>2, <2>3, <3>1, OwnHome
  <2>4. HasHome(p)' /\ InPlace(p)'
    BY <1>1, <2>2, <2>3 DEF Safe, HasHome, InPlace, Owed
  <2>5. ds[tmp].at \notin Projects /\ ds[tmp].data = job[r].data
    BY <1>0, <1>1, <2>1 DEF RestoreOK, TempOK
  <2>6. AtHome(p)'
    BY <2>1, <2>5 DEF AtHome
  <2>7. SwapOK(r)'
    <3>1. Owed(p) => p \in lost \/ job[r].had
      BY <1>0, <1>1, <2>1 DEF RestoreOK, SwapOK, HomeOf, Holds
    <3>2. Owed(p)' => \E n \in Asides : HomeOf(n, p)'
      BY <1>1, <2>3 DEF Safe, HasHome, Owed
    <3>3. job[r].had /\ p \notin lost /\ Owed(p) => HomeOf(rb, p)'
      BY <1>0, <1>1, <2>3 DEF RestoreOK, SwapOK
    <3>4. Exists(rb)' => ds'[rb].at \notin Projects \ {p}
      BY <1>0, <1>1, <2>1 DEF RestoreOK, SwapOK, Exists
    <3> QED
      BY <1>0, <1>1, <2>1, <2>5, <3>1, <3>2, <3>3, <3>4 DEF SwapOK, Owed, Exists
  <2>8. RestoreOK(r)'
    BY <2>1, <2>7 DEF RestoreOK, TempOK
  <2> QED
    BY <1>0, <2>4, <2>6, <2>8, OwnSafe
<1>3. CASE Goto(r, IF job[r].had THEN "putback" ELSE "cleanup") /\ UNCHANGED ds
  <2>1. pc'[r] = IF job[r].had THEN "putback" ELSE "cleanup"
    BY <1>0, <1>3
  <2>2. job[r].had => MidSwap(r)' /\ Swapping(p)'
    BY <1>0, <2>1 DEF MidSwap, Swapping
  <2>3. ASSUME NEW n, HomeOf(n, p)
        PROVE  HomeOf(n, p)'
    BY <1>0, <1>1, <1>3, <2>1, <2>2, <2>3, OwnHome
  <2>4. HasHome(p)' /\ AtHome(p)'
    BY <1>1, <1>3, <2>3 DEF Safe, HasHome, AtHome, Owed, Exists
  <2>5. InPlace(p)'
    BY <1>0, <1>1, <2>2, <2>3 DEF InPlace, RestoreOK, SwapOK, Owed
  <2>6. SwapOK(r)'
    BY <1>0, <1>1, <1>3, <2>1, <2>3 DEF RestoreOK, SwapOK, MidSwap, Owed, Exists
  <2>7. RestoreOK(r)'
    BY <1>0, <2>1, <2>6 DEF RestoreOK, TempOK
  <2> QED
    BY <1>0, <2>4, <2>5, <2>7, OwnSafe
<1> QED
  BY <1>2, <1>3 DEF Publish

LEMMA RemountedDs ==
    ASSUME DisksOK, NEW p \in Names, Exists(p), NEW path \in Names \cup {Off},
           ds' = MountedDs(p, path)
    PROVE  /\ ds'[p] # NoDs /\ ds'[p].data = ds[p].data /\ ds'[p].at = path
           /\ \A n \in Names \ {p} : ds'[n] = ds[n]
<1> DEFINE d == [ds[p] EXCEPT !.at = path]
<1>1. d \in DataSet /\ d.data = ds[p].data /\ d.at = path
  BY ExistingTyped DEF DataSet
<1>2. ds' = [ds EXCEPT ![p] = d]
  BY DEF MountedDs, DisksOK
<1> HIDE DEF d
<1> QED
  BY <1>1, <1>2, ZfsAssumption DEF DisksOK

\* A failure in the swap: the datasets stay, and the way back is next.
LEMMA TurnBackSafe ==
    ASSUME TypeOK, Accounted, OneReplaces, NEW r \in Requests, NEW p, p = job[r].p, Safe(p),
           SwapStep(r), pc[r] \in {"remount", "mount"}, pc'[r] = "unpublish",
           UNCHANGED <<ds, owed, lost>>
    PROVE  Safe(p)'
<1>0. /\ pc[r] \in RestoreSteps /\ Elsewhere(r) /\ Proceeds(r) /\ job' = job
      /\ pc'[r] \notin CloneSteps /\ RestoreOK(r) /\ Replacing(r, p) /\ p \in Projects
  BY Swaps
<1>1. MidSwap(r) /\ MidSwap(r)' /\ Swapping(p)'
  BY <1>0 DEF MidSwap, Swapping
<1>2. ASSUME NEW n, HomeOf(n, p)
      PROVE  HomeOf(n, p)'
  BY <1>0, <1>1, <1>2, OwnHome
<1>3. HasHome(p)' /\ AtHome(p)' /\ InPlace(p)'
  BY <1>1, <1>2 DEF Safe, HasHome, AtHome, InPlace, Owed, Exists
<1>4. SwapOK(r)'
  BY <1>0, <1>1, <1>2 DEF RestoreOK, SwapOK, Owed, Exists
<1>5. RestoreOK(r)'
  BY <1>4 DEF RestoreOK, TempOK
<1> QED
  BY <1>0, <1>3, <1>5, OwnSafe

LEMMA RemountSafe ==
    ASSUME TypeOK, Accounted, OneReplaces, NEW r \in Requests, NEW p, p = job[r].p, Safe(p),
           Remount(r)
    PROVE  Safe(p)'
<1> DEFINE rb == job[r].rb
<1>0. /\ pc[r] \in RestoreSteps /\ Elsewhere(r) /\ Proceeds(r) /\ job' = job
      /\ pc'[r] \notin CloneSteps /\ RestoreOK(r) /\ Replacing(r, p)
      /\ p \in Projects /\ p \in Names /\ p # rb /\ rb \in Names /\ rb \in Asides
      /\ \A step : Goto(r, step) => pc'[r] = step
  BY Swaps DEF SwapStep
<1>1. pc[r] = "remount" /\ MidSwap(r) /\ owed'[p] = owed[p] /\ lost' = lost
  BY DEF Remount, At, MidSwap, ghostVars
<1>2. CASE /\ Exists(p) /\ Goto(r, "mount")
           /\ ds' = MountedDs(p, IF ds[p].at = Off THEN Off ELSE p)
  <2>1. /\ ds'[p] # NoDs /\ ds'[p].data = ds[p].data /\ ds'[p].at \in {Off, p}
        /\ \A n \in Names \ {p} : ds'[n] = ds[n]
    BY <1>0, <1>2, RemountedDs DEF TypeOK
  <2>2. pc'[r] = "mount" /\ MidSwap(r)' /\ Swapping(p)'
    BY <1>0, <1>2 DEF MidSwap, Swapping
  <2>3. ASSUME NEW n \in Asides, HomeOf(n, p)
        PROVE  HomeOf(n, p)'
    <3>1. n # p /\ n \in Names
      BY <1>0, ZfsAssumption DEF Names
    <3>2. ds'[n] = ds[n]
      BY <2>1, <3>1
    <3> QED
      BY <1>0, <1>1, <2>2, <2>3, <3>2, OwnHome
  <2>4. Owed(p)' => \E n \in Asides : HomeOf(n, p)'
    BY <1>0, <1>1, <2>3 DEF RestoreOK, SwapOK, Owed
  <2>5. HasHome(p)' /\ InPlace(p)' /\ AtHome(p)'
    BY <1>0, <2>1, <2>2, <2>4, ZfsAssumption DEF HasHome, InPlace, AtHome, Names
  <2>6. SwapOK(r)'
    BY <1>0, <1>1, <2>1, <2>2, <2>3, <2>4 DEF RestoreOK, SwapOK, Owed, Exists
  <2>7. RestoreOK(r)'
    BY <2>2, <2>6 DEF RestoreOK, TempOK
  <2> QED
    BY <1>0, <2>5, <2>7, OwnSafe
<1>3. CASE Goto(r, "unpublish") /\ UNCHANGED diskVars
  BY <1>0, <1>1, <1>3, TurnBackSafe DEF SwapStep, Remount, diskVars, ghostVars
<1> QED
  BY <1>2, <1>3 DEF Remount

LEMMA MountSafe ==
    ASSUME TypeOK, Accounted, OneReplaces, NEW r \in Requests, NEW p, p = job[r].p, Safe(p),
           Mount(r)
    PROVE  Safe(p)'
<1>0. /\ pc[r] \in RestoreSteps /\ Elsewhere(r) /\ Proceeds(r) /\ job' = job
      /\ pc'[r] \notin CloneSteps /\ RestoreOK(r) /\ Replacing(r, p)
      /\ p \in Projects /\ p \in Names
      /\ \A step : Goto(r, step) => pc'[r] = step
  BY Swaps DEF SwapStep
<1>1. pc[r] = "mount" /\ MidSwap(r)
  BY DEF Mount, At, MidSwap
<1>2. CASE /\ Exists(p) /\ ds' = MountedDs(p, p) /\ Goto(r, "dropaside")
           /\ owed' = [owed EXCEPT ![p] = job[r].data]
  <2>1. /\ ds'[p] # NoDs /\ ds'[p].data = ds[p].data /\ ds'[p].at = p
        /\ owed'[p] = job[r].data /\ pc'[r] = "dropaside"
    BY <1>0, <1>2, RemountedDs DEF TypeOK, GhostsOK
  <2>2. ds[p].data = job[r].data
    BY <1>0, <1>1 DEF RestoreOK, SwapOK
  <2>3. HomeOf(p, p)'
    BY <1>0, <2>1, <2>2 DEF HomeOf, Holds, Exists
  <2>4. HasHome(p)' /\ InPlace(p)' /\ AtHome(p)'
    BY <2>1, <2>3 DEF HasHome, InPlace, AtHome
  <2>5. RestoreOK(r)'
    BY <1>0, <2>1, <2>3 DEF RestoreOK, TempOK, SwapOK, MidSwap
  <2> QED
    BY <1>0, <2>4, <2>5, OwnSafe
<1>3. CASE Goto(r, "unpublish") /\ UNCHANGED <<diskVars, ghostVars>>
  BY <1>0, <1>1, <1>3, TurnBackSafe DEF SwapStep, Mount, diskVars, ghostVars
<1> QED
  BY <1>2, <1>3 DEF Mount

LEMMA UnpublishSafe ==
    ASSUME TypeOK, Accounted, OneReplaces, NEW r \in Requests, NEW p, p = job[r].p, Safe(p),
           Unpublish(r)
    PROVE  Safe(p)'
<1> DEFINE tmp == job[r].tmp
           rb == job[r].rb
<1>0. /\ pc[r] \in RestoreSteps /\ Elsewhere(r) /\ Proceeds(r) /\ job' = job
      /\ pc'[r] \notin CloneSteps /\ RestoreOK(r) /\ Replacing(r, p)
      /\ p \in Projects /\ p \in Names /\ p # tmp /\ p # rb
      /\ tmp \in Names /\ rb \in Names /\ tmp # rb /\ rb \in Asides
      /\ \A step : Goto(r, step) => pc'[r] = step
  BY Swaps DEF SwapStep
<1>1. /\ pc[r] = "unpublish" /\ MidSwap(r) /\ owed'[p] = owed[p]
      /\ pc'[r] = IF job[r].had THEN "putback" ELSE "cleanup"
  BY <1>0 DEF Unpublish, At, MidSwap
<1>2. /\ \A n \in Names : n # p /\ n # tmp => ds'[n] = ds[n]
      /\ ds'[p] \in {ds[p], NoDs}
      /\ p \in lost => p \in lost'
  BY <1>0 DEF Unpublish, Renamed, Lose, TypeOK, DisksOK
<1>3. job[r].had => MidSwap(r)' /\ Swapping(p)'
  BY <1>0, <1>1 DEF MidSwap, Swapping
<1>4. ASSUME NEW n \in Asides, HomeOf(n, p)
      PROVE  HomeOf(n, p)'
  <2>1. n # p /\ n \in Names
    BY <1>0, ZfsAssumption DEF Names
  <2> QED
    BY <1>0, <1>1, <1>2, <1>3, <1>4, <2>1, OwnHome
<1>5. Owed(p)' => \E n \in Asides : HomeOf(n, p)'
  BY <1>0, <1>1, <1>4 DEF RestoreOK, SwapOK, Owed
<1>6. HasHome(p)' /\ AtHome(p)'
  BY <1>2, <1>5 DEF HasHome, Safe, AtHome, Exists
<1>7. InPlace(p)'
  BY <1>0, <1>1, <1>2, <1>3 DEF InPlace, RestoreOK, SwapOK, Owed
<1>8. SwapOK(r)'
  BY <1>0, <1>1, <1>2, <1>4 DEF RestoreOK, SwapOK, MidSwap, Owed, Exists
<1>9. RestoreOK(r)'
  BY <1>0, <1>1, <1>8 DEF RestoreOK, TempOK
<1> QED
  BY <1>0, <1>6, <1>7, <1>9, OwnSafe

LEMMA PutBackSafe ==
    ASSUME TypeOK, Accounted, OneReplaces, NEW r \in Requests, NEW p, p = job[r].p, Safe(p),
           PutBack(r)
    PROVE  Safe(p)'
<1> DEFINE tmp == job[r].tmp
           rb == job[r].rb
<1>0. /\ pc[r] \in RestoreSteps /\ Elsewhere(r) /\ Proceeds(r) /\ job' = job
      /\ pc'[r] \notin CloneSteps /\ RestoreOK(r) /\ Replacing(r, p)
      /\ p \in Projects /\ p \in Names /\ p # tmp /\ p # rb
      /\ tmp \in Names /\ rb \in Names /\ tmp # rb /\ rb \in Asides
      /\ \A step : Goto(r, step) => pc'[r] = step
  BY Swaps DEF SwapStep
<1>1. /\ pc[r] = "putback" /\ MidSwap(r) /\ owed'[p] = owed[p] /\ job[r].had
      /\ pc'[r] = "cleanup"
  BY <1>0 DEF PutBack, At, MidSwap, RestoreOK
<1>2. RestoreOK(r)'
  BY <1>1 DEF RestoreOK, TempOK, SwapOK, MidSwap
<1>3. CASE CanRename(rb, p) /\ ds' = Renamed(rb, p) /\ UNCHANGED lost
  <2>1. /\ ~Exists(p) /\ Exists(rb) /\ ds'[p] = ds[rb]
        /\ \A n \in Names : n # p /\ n # rb => ds'[n] = ds[n]
    BY <1>0, <1>3 DEF CanRename, Renamed, TypeOK, DisksOK
  <2>2. ds[rb].at \notin Projects \ {p}
    BY <1>0, <1>1, <2>1 DEF RestoreOK, SwapOK
  <2>3. ASSUME HomeOf(rb, p)
        PROVE  HomeOf(p, p)'
    BY <1>0, <1>1, <2>1, <2>2, <2>3 DEF HomeOf, Holds, Exists
  <2>4. ASSUME NEW n, HomeOf(n, p)
        PROVE  HomeOf(p, p)' \/ HomeOf(n, p)'
    <3>1. CASE n = rb
      <4>1. HomeOf(rb, p)
        BY <2>4, <3>1
      <4> QED
        BY <2>3, <4>1
    <3>2. CASE n # rb
      <4>1. n # p
        BY <2>1, <2>4 DEF HomeOf, Holds
      <4> QED
        BY <1>0, <1>1, <2>1, <2>4, <3>2, <4>1, OwnHome
    <3> QED
      BY <3>1, <3>2
  <2>5. HasHome(p)'
    BY <1>1, <2>4 DEF Safe, HasHome, Owed
  <2>6. InPlace(p)'
    BY <1>0, <1>1, <1>3, <2>3 DEF InPlace, RestoreOK, SwapOK, Owed
  <2>7. AtHome(p)'
    BY <2>1, <2>2 DEF AtHome
  <2> QED
    BY <1>0, <1>2, <2>5, <2>6, <2>7, OwnSafe
<1>4. CASE lost' = lost \cup {p, rb} /\ UNCHANGED ds
  <2>1. ASSUME NEW n, HomeOf(n, p)
        PROVE  HomeOf(n, p)'
    BY <1>0, <1>1, <1>4, <2>1, OwnHome
  <2>2. HasHome(p)' /\ AtHome(p)' /\ InPlace(p)'
    BY <1>1, <1>4, <2>1 DEF Safe, HasHome, AtHome, InPlace, Owed, Exists
  <2> QED
    BY <1>0, <1>2, <2>2, OwnSafe
<1> QED
  BY <1>3, <1>4 DEF PutBack

-----------------------------------------------------------------------------
(* The directories that datasets are mounted on.                            *)

LEMMA MountedStays ==
    ASSUME Mounted, dirs \subseteq dirs',
           \A n \in Names : ds'[n] # NoDs /\ ds'[n].at \in Projects =>
               \/ ds'[n].at \in dirs'
               \/ \E m \in Names : Exists(m) /\ ds[m].at = ds'[n].at
    PROVE  Mounted'
  BY DEF Mounted, Exists

LEMMA DatasetsStay ==
    ASSUME Mounted, dirs \subseteq dirs', \A n \in Names : StaysPut(n)
    PROVE  Mounted'
  BY MountedStays DEF StaysPut, Exists

LEMMA PathRemoved ==
    ASSUME DisksOK, Mounted, NEW p \in Projects, ds' = WipedAt(p),
           dirs' = dirs \/ (Top(p) = {} /\ dirs' = dirs \ {p})
    PROVE  Mounted'
<1>1. \A n \in Names : StaysPut(n)
  BY WipedStays
<1>2. CASE dirs' = dirs
  BY <1>1, <1>2, DatasetsStay
<1>3. CASE Top(p) = {} /\ dirs' = dirs \ {p}
  <2>1. \A n \in Names : ~(Exists(n) /\ ds[n].at = p)
    BY <1>3 DEF Top, MountedAt
  <2> QED
    BY <1>1, <1>3, <2>1 DEF StaysPut, Mounted, Exists
<1> QED
  BY <1>2, <1>3

LEMMA DestroyedMounted ==
    ASSUME DisksOK, Mounted, NEW n \in Names, ds' = Destroyed(n), UNCHANGED dirs
    PROVE  Mounted'
  BY MountedStays DEF Destroyed, DisksOK, Exists

LEMMA RenamedMounted ==
    ASSUME DisksOK, Mounted, NEW n \in Names, NEW m \in Names, Exists(n), ds' = Renamed(n, m),
           UNCHANGED dirs
    PROVE  Mounted'
<1>1. \A k \in Names : ds'[k] \in {ds[k], ds[n], NoDs}
  BY DEF Renamed, DisksOK
<1> QED
  BY <1>1, MountedStays DEF Exists

LEMMA RemountedMounted ==
    ASSUME DisksOK, Mounted, NEW p \in Names, Exists(p), NEW path \in Names \cup {Off},
           ds' = MountedDs(p, path), dirs \subseteq dirs', path \in Projects => path \in dirs'
    PROVE  Mounted'
<1>1. ds'[p].at = path /\ \A n \in Names \ {p} : ds'[n] = ds[n]
  BY RemountedDs
<1> QED
  BY <1>1, MountedStays DEF Exists

LEMMA MadeMounted ==
    ASSUME DisksOK, Mounted, NEW n \in Names, NEW d, d.at \in Projects => d.at \in dirs',
           ds' = [ds EXCEPT ![n] = d], dirs \subseteq dirs'
    PROVE  Mounted'
<1>1. ds'[n] = d /\ \A m \in Names \ {n} : ds'[m] = ds[m]
  BY DEF DisksOK
<1> QED
  BY <1>1, MountedStays DEF Exists

LEMMA EnsureMountedOn ==
    ASSUME TypeOK, Mounted, NEW r \in Requests, EnsureStep(r)
    PROVE  Mounted'
<1> DEFINE p == job[r].p
<1>0. DisksOK /\ p \in Projects /\ p \in Names
  BY RouteOf DEF TypeOK, EnsureStep, EnsureCached, EnsureDataset, EnsureFails, EnsureMounted,
     At, EnsureSteps, Job, Names
<1>1. CASE UNCHANGED diskVars
  BY <1>1, MountedStays DEF diskVars, Exists
<1>2. CASE ds' = [ds EXCEPT ![p] = NewDataSet(Empty, NoSnap, p)] /\ dirs' = dirs \cup {p}
  BY <1>0, <1>2, MadeMounted DEF NewDataSet
<1>3. CASE Exists(p) /\ (EnsureDataset(r) \/ EnsureMounted(r)) /\ ~UNCHANGED diskVars
  <2>1. PICK path : /\ ds' = MountedDs(p, path)
                    /\ path = p \/ path = ds[p].at
                    /\ \/ path = Off /\ dirs' = dirs
                       \/ path = p /\ dirs' = dirs \cup {p}
                       \/ path = ds[p].at /\ dirs' = dirs
    BY <1>3 DEF EnsureDataset, EnsureMounted
  <2>2. path \in Names \cup {Off} /\ (ds[p].at \in Projects => ds[p].at \in dirs)
    BY <1>0, <1>3, <2>1, ExistingTyped DEF DataSet, Mounted
  <2> QED
    BY <1>0, <1>3, <2>1, <2>2, RemountedMounted, ZfsAssumption DEF Names
<1> QED
  BY <1>1, <1>2, <1>3 DEF EnsureStep, EnsureCached, EnsureDataset, EnsureFails, EnsureMounted

LEMMA DeleteMountedOn ==
    ASSUME TypeOK, Mounted, NEW r \in Requests, DeleteStep(r)
    PROVE  Mounted'
<1> DEFINE p == job[r].p
<1>0. DisksOK /\ p \in Projects /\ p \in Names
  BY RouteOf DEF TypeOK, DeleteStep, FindDataset, DestroyDataset, DestroyOrigin, RemovePath,
     At, DeleteSteps, Job, Names
<1>1. CASE UNCHANGED diskVars
  BY <1>1, MountedStays DEF diskVars, Exists
<1>2. CASE DestroyDataset(r)
  BY <1>0, <1>1, <1>2, DestroyedMounted DEF DestroyDataset, diskVars
<1>3. CASE DestroyOrigin(r)
  BY <1>0, <1>3, DropSnapStays, DatasetsStay DEF DestroyOrigin
<1>4. CASE RemovePath(r)
  BY <1>0, <1>4, PathRemoved DEF RemovePath
<1> QED
  BY <1>1, <1>2, <1>3, <1>4 DEF DeleteStep, FindDataset

LEMMA CloneMountedOn ==
    ASSUME TypeOK, Mounted, NEW r \in Requests, CloneStep(r)
    PROVE  Mounted'
<1> DEFINE q == job[r].q
<1>0. /\ DisksOK /\ q \in Projects /\ q \in Names
      /\ job[r].p \in Projects /\ job[r].p \in Names
  BY RouteOf DEF TypeOK, CloneStep, CheckClone, SnapshotSource, CloneDataset, FinishClone,
     UndoClone, UndoSnapshot, UndoPath, At, CloneSteps, Job, Fits, Names
<1>1. CASE UNCHANGED diskVars
  BY <1>1, MountedStays DEF diskVars, Exists
<1>2. CASE SnapshotSource(r)
  BY <1>0, <1>2, SnapshotStays, DatasetsStay DEF SnapshotSource, TakeSnapshot
<1>3. CASE CloneDataset(r)
  <2>1. ASSUME NEW d, NEW s, ds' = [ds EXCEPT ![q] = NewDataSet(d, s, q)], dirs' = dirs \cup {q}
        PROVE  Mounted'
    BY <1>0, <2>1, MadeMounted DEF NewDataSet
  <2>2. ASSUME NEW d, NEW s, ds' = [ds EXCEPT ![q] = NewDataSet(d, s, Off)], dirs' = dirs
        PROVE  Mounted'
    BY <1>0, <2>2, MadeMounted, ZfsAssumption DEF NewDataSet, Names
  <2> QED
    BY <1>1, <1>3, <2>1, <2>2 DEF CloneDataset
<1>4. CASE UndoClone(r)
  BY <1>0, <1>1, <1>4, DestroyedMounted DEF UndoClone, diskVars
<1>5. CASE UndoSnapshot(r)
  BY <1>0, <1>5, DropSnapStays, DatasetsStay DEF UndoSnapshot
<1>6. CASE UndoPath(r)
  BY <1>0, <1>6, PathRemoved DEF UndoPath
<1> QED
  BY <1>1, <1>2, <1>3, <1>4, <1>5, <1>6 DEF CloneStep, CheckClone, FinishClone

LEMMA BackupMountedOn ==
    ASSUME TypeOK, Mounted, NEW r \in Requests, BackupStep(r)
    PROVE  Mounted'
<1>0. DisksOK /\ job[r].p \in Names
  BY RouteOf DEF TypeOK, BackupStep, DumpSnapshot, StartSend, FinishSend, DropDump, At,
     BackupSteps, Job, Names
<1>1. CASE UNCHANGED diskVars
  BY <1>1, MountedStays DEF diskVars, Exists
<1>2. CASE DumpSnapshot(r)
  BY <1>0, <1>2, SnapshotStays, DatasetsStay DEF DumpSnapshot, TakeSnapshot
<1>3. CASE DropDump(r)
  BY <1>0, <1>3, DropSnapStays, DatasetsStay DEF DropDump
<1> QED
  BY <1>1, <1>2, <1>3 DEF BackupStep, StartSend, FinishSend

LEMMA RestoreMountedOn ==
    ASSUME TypeOK, Mounted, NEW r \in Requests, RestoreStep(r)
    PROVE  Mounted'
<1> DEFINE p == job[r].p
           tmp == job[r].tmp
           rb == job[r].rb
<1>0. /\ DisksOK /\ p \in Projects /\ tmp \in Asides /\ rb \in Asides
      /\ p \in Names /\ tmp \in Names /\ rb \in Names /\ tmp \notin Projects /\ Off \notin Projects
      /\ job[r].data \in Data
  <2>1. pc[r] \in RestoreSteps
    BY DEF RestoreStep, Receive, PrepareTemp, CopyInto, LookTarget, MoveAside, Publish, Remount,
       Mount, Unpublish, PutBack, DropAside, CleanUp, At, RestoreSteps
  <2>2. p \in Projects /\ tmp \in Asides /\ rb \in Asides /\ job[r].data \in Data
    BY <2>1, RouteOf DEF TypeOK, Fits, Job, RestoreSteps
  <2> QED
    BY <2>2, ZfsAssumption DEF TypeOK, Names
<1>1. CASE UNCHANGED diskVars
  BY <1>1, MountedStays DEF diskVars, Exists
<1>2. ASSUME NEW d, NEW path, path \notin Projects, UNCHANGED dirs,
             ds' = [ds EXCEPT ![tmp] = NewDataSet(d, NoSnap, path)]
      PROVE  Mounted'
  BY <1>0, <1>2, MadeMounted DEF NewDataSet
<1>3. CASE Receive(r) \/ PrepareTemp(r)
  BY <1>0, <1>1, <1>2, <1>3 DEF Receive, PrepareTemp, diskVars
<1>4. CASE CopyInto(r)
  <2>1. ASSUME Exists(tmp), ds' = [ds EXCEPT ![tmp].data = job[r].data]
        PROVE  \A n \in Names : StaysPut(n)
    <3> DEFINE d == [ds[tmp] EXCEPT !.data = job[r].data]
    <3>1. d.at = ds[tmp].at /\ d \in DataSet
      BY <1>0, <2>1, ExistingTyped DEF DataSet
    <3>2. ds' = [ds EXCEPT ![tmp] = d]
      BY <1>0, <2>1 DEF DisksOK
    <3> HIDE DEF d
    <3> QED
      BY <1>0, <2>1, <3>1, <3>2, ZfsAssumption DEF DisksOK, StaysPut, Exists
  <2> QED
    BY <1>1, <1>4, <2>1, DatasetsStay DEF CopyInto, diskVars
<1>5. CASE MoveAside(r) \/ Publish(r) \/ Unpublish(r) \/ PutBack(r)
  BY <1>0, <1>1, <1>5, RenamedMounted
     DEF MoveAside, Publish, Unpublish, PutBack, CanRename, diskVars
<1>6. CASE Remount(r)
  <2>1. CASE Exists(p) /\ ds' = MountedDs(p, Off) /\ dirs' = dirs
    BY <1>0, <2>1, RemountedMounted
  <2>2. CASE Exists(p) /\ ds' = MountedDs(p, p) /\ dirs' = dirs \cup {p}
    BY <1>0, <2>2, RemountedMounted
  <2> QED
    BY <1>1, <1>6, <2>1, <2>2 DEF Remount
<1>7. CASE Mount(r)
  BY <1>0, <1>1, <1>7, RemountedMounted DEF Mount
<1>8. CASE DropAside(r) \/ CleanUp(r)
  BY <1>0, <1>1, <1>8, DestroyedMounted DEF DropAside, CleanUp, Discard, diskVars
<1> QED
  BY <1>1, <1>3, <1>4, <1>5, <1>6, <1>7, <1>8 DEF RestoreStep, LookTarget

LEMMA MountedInductive ==
    ASSUME TypeOK, Mounted, [Next]_vars
    PROVE  Mounted'
<1>1. CASE UNCHANGED <<ds, dirs>>
  BY <1>1 DEF Mounted, Exists
<1>2. ASSUME NEW r \in Requests, Ask(r) \/ TakeLock(r)
      PROVE  Mounted'
  BY <1>1, <1>2, AskEffects, TakeLockEffects DEF NewRequest
<1>3. ASSUME NEW r \in Requests, Work(r)
      PROVE  Mounted'
  BY <1>3, EnsureMountedOn, DeleteMountedOn, CloneMountedOn, BackupMountedOn, RestoreMountedOn
     DEF Work
<1> QED
  BY <1>1, <1>2, <1>3 DEF Next, Crash, vars, diskVars

-----------------------------------------------------------------------------
(* Every project's content is safe whatever step comes next.                *)

LEMMA CrashSafe ==
    ASSUME Crash, NEW p \in Projects, Safe(p)
    PROVE  Safe(p)'
<1>1. /\ \A r \in Requests : pc'[r] = "idle"
      /\ ds' = ds /\ owed' = owed
  BY DEF Crash, diskVars
<1>2. ASSUME NEW n, HomeOf(n, p)
      PROVE  HomeOf(n, p)'
  BY <1>1, <1>2 DEF HomeOf, Holds, Exists, RestoreSteps
<1>3. p \notin lost' => p \notin lost /\ ~Swapping(p)
  <2>1. ASSUME NEW r \in Requests, MidSwap(r), job[r].p = p
        PROVE  p \in lost'
    <3>1. p \in Touched(r)
      BY <2>1 DEF Touched, MidSwap, RestoreSteps
    <3> QED
      BY <3>1 DEF Crash
  <2> QED
    BY <2>1 DEF Crash, Swapping
<1> QED
  BY <1>1, <1>2, <1>3 DEF Safe, InPlace, HasHome, AtHome, Owed, Exists, RestoreSteps, CloneSteps

LEMMA RestoreStepSafe ==
    ASSUME TypeOK, Accounted, OneReplaces, NEW r \in Requests, NEW p, p = job[r].p, Safe(p),
           RestoreStep(r)
    PROVE  Safe(p)'
<1>1. CASE Receive(r) \/ PrepareTemp(r) \/ CopyInto(r) \/ LookTarget(r)
  BY <1>1, BeforeSwapSafe
<1>2. CASE MoveAside(r)
  <2>1. pc'[r] \in {"publish", "cleanup"}
    BY <1>2 DEF MoveAside, Goto, TypeOK, RequestsOK
  <2> QED
    BY <1>2, <2>1, MoveAsideSafe, AfterSwapSafe
<1>3. CASE Publish(r) \/ Remount(r) \/ Mount(r) \/ Unpublish(r) \/ PutBack(r)
  BY <1>3, PublishSafe, RemountSafe, MountSafe, UnpublishSafe, PutBackSafe
<1>4. CASE DropAside(r) \/ CleanUp(r)
  BY <1>4, AfterSwapSafe
<1> QED
  BY <1>1, <1>2, <1>3, <1>4 DEF RestoreStep

\* A step of the request that replaces the project.
LEMMA ReplacerSafe ==
    ASSUME TypeOK, TypeOK', Accounted, LocksTaken, OneReplaces, Mounted, NEW r \in Requests,
           Work(r), NEW p \in Replaced(job[r]), Safe(p)
    PROVE  Safe(p)'
<1>1. /\ pc[r] # "idle" /\ job[r].op \in {"restore", "delete", "clone"} /\ p \in Projects
      /\ p = IF job[r].op = "clone" THEN job[r].q ELSE job[r].p
  BY WorkingElsewhere DEF Replaced
<1>2. CASE DeleteStep(r)
  <2>1. job[r].op = "delete"
    BY <1>1, <1>2, RouteOf DEF TypeOK, DeleteStep, FindDataset, DestroyDataset, DestroyOrigin,
       RemovePath, At, DeleteSteps
  <2> QED
    BY <1>1, <1>2, <2>1, DeleteSafe
<1>3. CASE CloneStep(r)
  <2>1. job[r].op = "clone"
    BY <1>1, <1>3, RouteOf DEF TypeOK, CloneStep, CheckClone, SnapshotSource, CloneDataset,
       FinishClone, UndoClone, UndoSnapshot, UndoPath, At, CloneSteps
  <2> QED
    BY <1>1, <1>3, <2>1, CloneSafe
<1>4. CASE RestoreStep(r)
  <2>1. job[r].op = "restore"
    BY <1>1, <1>4, RouteOf DEF TypeOK, RestoreStep, Receive, PrepareTemp, CopyInto, LookTarget,
       MoveAside, Publish, Remount, Mount, Unpublish, PutBack, DropAside, CleanUp, At,
       RestoreSteps
  <2> QED
    BY <1>1, <1>4, <2>1, RestoreStepSafe
<1>5. CASE EnsureStep(r) \/ BackupStep(r)
  <2>1. job[r].op \in {"ensure", "backup"}
    BY <1>1, <1>5, RouteOf DEF TypeOK, EnsureStep, EnsureCached, EnsureDataset, EnsureFails,
       EnsureMounted, BackupStep, DumpSnapshot, StartSend, FinishSend, DropDump, At,
       EnsureSteps, BackupSteps
  <2> QED
    BY <1>1, <2>1
<1> QED
  BY <1>2, <1>3, <1>4, <1>5 DEF Work

AllSafe == \A p \in Projects : Safe(p)

LEMMA SafeInductive ==
    ASSUME TypeOK, TypeOK', Accounted, LocksTaken, OneReplaces, Mounted, AllSafe, [Next]_vars
    PROVE  AllSafe'
<1> SUFFICES ASSUME NEW p \in Projects
             PROVE  Safe(p)'
  BY DEF AllSafe
<1>0. Safe(p)
  BY DEF AllSafe
<1>1. ASSUME NEW r \in Requests, Ask(r) \/ TakeLock(r)
      PROVE  Safe(p)'
  BY <1>0, <1>1, AskSpares, TakeLockSpares, SparedSafe
<1>2. ASSUME NEW r \in Requests, Work(r)
      PROVE  Safe(p)'
  <2>1. CASE p \in Replaced(job[r])
    BY <1>0, <1>2, <2>1, ReplacerSafe
  <2>2. CASE p \notin Replaced(job[r])
    BY <1>0, <1>2, <2>2, WorkSpares, SparedSafe
  <2> QED
    BY <2>1, <2>2
<1>3. CASE Crash
  BY <1>0, <1>3, CrashSafe
<1>4. CASE UNCHANGED vars
  BY <1>0, <1>4 DEF vars, diskVars, requestVars, ghostVars, Safe, InPlace, HasHome, AtHome,
     RestoreOK, TempOK, SwapOK, CloneOK, Unmounted, HomeOf, SetAside, Holds, Exists, Owed, Own,
     MidSwap, Swapping
<1> QED
  BY <1>1, <1>2, <1>3, <1>4 DEF Next

Guarded == Accounted /\ LocksTaken /\ OneReplaces /\ Mounted /\ AllSafe

LEMMA InitGuarded == Init => Guarded
<1> SUFFICES ASSUME Init
             PROVE  Guarded
  OBVIOUS
<1>1. \A r \in Requests : pc[r] = "idle"
  BY DEF Init
<1>2. Accounted /\ LocksTaken /\ OneReplaces
  BY <1>1 DEF Init, Accounted, Apart, Exists, LocksTaken, OneReplaces, Replacing, RestoreSteps
<1>3. \A n \in Names : Exists(n) => n \in Projects /\ ds[n].at = n
  BY DEF Init, Names, Exists
<1>4. Mounted
  BY <1>3 DEF Mounted, Init, Exists
<1>5. ASSUME NEW p \in Projects
      PROVE  Safe(p)
  <2>1. p \in Names /\ AtHome(p)
    BY <1>3 DEF AtHome, Names
  <2>2. Owed(p) => Holds(p, p)
    BY DEF Owed, Holds, Exists, Init
  <2>3. Owed(p) => HomeOf(p, p)
    BY <1>3, <2>1, <2>2 DEF HomeOf, Holds
  <2> QED
    BY <1>1, <2>1, <2>3 DEF Safe, InPlace, HasHome, RestoreSteps, CloneSteps
<1> QED
  BY <1>2, <1>4, <1>5 DEF Guarded, AllSafe

LEMMA GuardedInductive ==
    ASSUME Exclusive, TypeOK, Guarded, [Next]_vars
    PROVE  Guarded'
  BY TypeInductive, AccountInductive, LocksInductive, ReplacesInductive, MountedInductive,
     SafeInductive DEF Guarded

LEMMA AlwaysGuarded ==
    ASSUME Exclusive
    PROVE  Spec => [](TypeOK /\ Guarded)
  BY InitGuarded, GuardedInductive, TypeCorrect, PTL DEF Spec

(* zfs.go (RestoreZFSBackup, ReplaceWithDirectory, CloneZFS, Delete): what a *)
(* project's clients are owed is complete in a dataset at every moment,      *)
(* under the project's name or under one that a restore gave it, whichever   *)
(* command fails and whenever the service dies, as long as no two requests   *)
(* replace the same project at a time.                                       *)
THEOREM ContentKept ==
    ASSUME Exclusive
    PROVE  Spec => []Kept
<1>1. Guarded => Kept
  BY DEF Guarded, AllSafe, Safe, HasHome, HomeOf, Kept, Owed
<1> QED
  BY <1>1, AlwaysGuarded, PTL

(* zfs.go (rollbackPublish and the deferred removals): outside of a swap the *)
(* project's own dataset has what its clients are owed, unless a rename back *)
(* failed, the service died in the swap, or the name was taken meanwhile.    *)
THEOREM RestorePutBack ==
    ASSUME Exclusive
    PROVE  Spec => []RestorePutsBack
<1>1. Guarded => RestorePutsBack
  BY DEF Guarded, AllSafe, Safe, InPlace, HomeOf, RestorePutsBack, Owed
<1> QED
  BY <1>1, AlwaysGuarded, PTL
=============================================================================
