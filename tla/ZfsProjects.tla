----------------------------- MODULE ZfsProjects -----------------------------
(***************************************************************************)
(* Projects as ZFS datasets (internal/workspace/zfs.go and the parts of     *)
(* workspace.go that lead there): a project is a dataset under the          *)
(* project's name, mounted at the project's path.  A restore receives into  *)
(* a dataset of another name and swaps it in with renames; a clone hangs on *)
(* a snapshot of its source; a backup sends a snapshot.                     *)
(*                                                                          *)
(* A step is one zfs command or one look at the disk, which other requests  *)
(* may come between.  Ensure, Delete and Clone take the per-name locks of   *)
(* the manager; restores and backups take none.                             *)
(*                                                                          *)
(* A dataset's content is a member of Trees, Empty when it is new, or Wiped *)
(* when its files were removed under it.  Client writes are left out: what  *)
(* a request does to them is in ProjectStorage.  So are the properties of a *)
(* dataset other than its mountpoint, and the snapshot a received stream    *)
(* brings with it.                                                          *)
(***************************************************************************)
EXTENDS Integers, FiniteSets

CONSTANTS
    Projects,
    Rank,       \* the order of their names
    Requests,   \* goroutines that serve requests
    Named,      \* the projects that a run's clients name, for each route
    Trees,      \* contents of projects and backups
    Asides,     \* bound: names <project>-restore-<ns>, <project>-rollback-<ns>
    Snaps,      \* bound: names of snapshots at one time
    Faults,     \* the commands that may fail in a run
    Exclusive,  \* clients ask for one replacement of a project at a time
    MaxCrashes, \* bound: crashes of the service
    Empty, Wiped, Nothing, NoDs, NoSnap, NoName, NoJob, Off, Free

Names == Projects \cup Asides

Data == Trees \cup {Empty, Wiped}

DataSet == [data : Data,
            snaps : SUBSET Snaps,
            origin : Snaps \cup {NoSnap},  \* the snapshot it is a clone of
            at : Names \cup {Off}]         \* the path it is mounted at

AllOps == {"ensure", "delete", "clone", "backup", "restore"}

FaultKinds == {"list", "create", "mount", "destroy", "get", "remove", "snapshot",
               "clone", "send", "receive", "copy", "rename", "back", "set"}

VARIABLES
    ds,      \* the dataset of each name
    dirs,    \* paths of projects that exist, mounted or not
    known,   \* Manager.mounts
    held,    \* Manager.ensureMu
    pc, job, \* what each request does, and its local variables
    owed,    \* ghost: what a project contains for its clients
    lost,    \* ghost: names that are not what the code meant, as an undo failed
    crashes

diskVars == <<ds, dirs>>
requestVars == <<pc, job>>
ghostVars == <<owed, lost>>
vars == <<diskVars, known, held, requestVars, ghostVars, crashes>>

-----------------------------------------------------------------------------
(* Types.                                                                   *)

Job == [p : Projects,                \* the project of the route
        op : AllOps,
        data : Data,                 \* what the stream or the snapshot contains
        q : Names \cup {NoName},     \* a clone's target; whose snapshot the origin is
        need : SUBSET Projects,      \* locks still to be taken
        tmp : Asides \cup {NoName},  \* tempDataset
        rb : Asides \cup {NoName},   \* rollbackDataset
        had : BOOLEAN,               \* targetExists
        snap : Snaps \cup {NoSnap}]

ASSUME ZfsAssumption ==
    /\ IsFiniteSet(Projects)
    /\ Rank \in [Projects -> 1 .. Cardinality(Projects)]
    /\ \A p, q \in Projects : Rank[p] = Rank[q] => p = q
    /\ Projects \cap Asides = {}
    /\ NoJob \notin Job
    /\ NoName \notin Names /\ Off \notin Names
    /\ NoSnap \notin Snaps
    /\ NoDs \notin DataSet
    /\ Free \notin Requests
    /\ Empty \notin Trees /\ Wiped \notin Trees /\ Nothing \notin Data
    /\ Named \in [AllOps -> SUBSET Projects]
    /\ Faults \subseteq FaultKinds
    /\ Exclusive \in BOOLEAN
    /\ MaxCrashes \in Nat

EnsureSteps == {"ensure", "attach"}

DeleteSteps == {"find", "destroy", "origin", "rmdir"}

CloneSteps == {"check", "snap", "clone", "finish", "unclone", "unsnap", "unpath"}

BackupSteps == {"dump", "send", "sending", "unsend"}

RestoreSteps == {"receive", "prepare", "copy", "look", "aside", "publish", "remount",
                 "mount", "unpublish", "putback", "dropaside", "cleanup"}

Steps == {"lock"} \cup EnsureSteps \cup DeleteSteps \cup CloneSteps \cup BackupSteps
         \cup RestoreSteps

OnRoute(op, step) ==
    \/ op = "ensure" /\ step \in EnsureSteps \cup {"lock"}
    \/ op = "delete" /\ step \in DeleteSteps \cup {"lock"}
    \/ op = "clone" /\ step \in CloneSteps \cup {"lock"}
    \/ op = "backup" /\ step \in BackupSteps
    \/ op = "restore" /\ step \in RestoreSteps

DisksOK ==
    /\ ds \in [Names -> DataSet \cup {NoDs}]
    /\ dirs \subseteq Projects

LocksOK ==
    /\ known \subseteq Projects
    /\ held \in [Projects -> Requests \cup {Free}]

\* A clone has a target, and a restore, alone, has two names of its own.
Fits(j) ==
    /\ j.op = "clone" => j.q \in Projects
    /\ IF j.op = "restore" THEN j.tmp \in Asides /\ j.rb \in Asides
       ELSE j.tmp = NoName /\ j.rb = NoName

RequestsOK ==
    /\ pc \in [Requests -> Steps \cup {"idle"}]
    /\ job \in [Requests -> Job \cup {NoJob}]
    /\ \A r \in Requests :
           pc[r] # "idle" => job[r] \in Job /\ Fits(job[r]) /\ OnRoute(job[r].op, pc[r])

GhostsOK ==
    /\ owed \in [Projects -> Data \cup {Nothing}]
    /\ lost \subseteq Names

(* Every variable stays in its type, and a request at a step of a route is  *)
(* one of that route and has what the step works on.                        *)
TypeOK == DisksOK /\ LocksOK /\ RequestsOK /\ GhostsOK /\ crashes \in Nat

Init ==
    /\ ds \in [Names -> [data : Trees, snaps : {{}}, origin : {NoSnap}, at : Projects]
                        \cup {NoDs}]
    /\ \A a \in Asides : ds[a] = NoDs
    /\ \A p \in Projects : ds[p] # NoDs => ds[p].at = p
    /\ dirs = {p \in Projects : ds[p] # NoDs}
    /\ known = {}
    /\ held = [p \in Projects |-> Free]
    /\ pc = [r \in Requests |-> "idle"]
    /\ job = [r \in Requests |-> NoJob]
    /\ owed = [p \in Projects |-> IF ds[p] = NoDs THEN Nothing ELSE ds[p].data]
    /\ lost = {}
    /\ crashes = 0

-----------------------------------------------------------------------------
(* The zfs command and the mounts.  A dataset of the project's name is on   *)
(* top of whatever else is mounted at the project's path.                   *)

Fault(kind) == kind \in Faults

Exists(n) == ds[n] # NoDs

MountedAt(p) == {n \in Names : Exists(n) /\ ds[n].at = p}

Top(p) == IF p \in MountedAt(p) THEN {p} ELSE MountedAt(p)

HasClone(n) == \E m \in Names : Exists(m) /\ ds[m].origin \in ds[n].snaps

\* A send that has begun holds its snapshot, under whatever name it is now.
BeingSent(s) == \E r \in Requests : pc[r] = "sending" /\ job[r].snap = s

CanDestroy(n) == Exists(n) /\ ~HasClone(n) /\ \A s \in ds[n].snaps : ~BeingSent(s)

Destroyed(n) == [ds EXCEPT ![n] = NoDs]

Renamed(n, m) == [ds EXCEPT ![m] = ds[n], ![n] = NoDs]

CanRename(n, m) == Exists(n) /\ ~Exists(m)

NewDataSet(d, s, path) == [data |-> d, snaps |-> {}, origin |-> s, at |-> path]

MountedDs(n, path) == [ds EXCEPT ![n].at = path]

\* os.RemoveAll on a project's path empties what is mounted there.
WipedAt(p) == [n \in Names |-> IF n \in Top(p) THEN [ds[n] EXCEPT !.data = Wiped] ELSE ds[n]]

\* `zfs destroy n@s`, which fails while the snapshot has a clone or is being sent.
CanDropSnap(n, s) ==
    /\ n \in Names /\ Exists(n) /\ s \in ds[n].snaps
    /\ \A m \in Names : Exists(m) => ds[m].origin # s
    /\ ~BeingSent(s)

DropSnap(n, s) ==
    \/ /\ CanDropSnap(n, s)
       /\ ds' = [ds EXCEPT ![n].snaps = @ \ {s}]
    \/ /\ ~CanDropSnap(n, s) \/ Fault("destroy")
       /\ UNCHANGED ds

FreshSnaps == {s \in Snaps : /\ \A n \in Names : Exists(n) => s \notin ds[n].snaps
                             /\ \A r \in Requests : job[r] # NoJob => job[r].snap # s}

FreshAsides == {a \in Asides : /\ ~Exists(a)
                               /\ \A r \in Requests : job[r] # NoJob =>
                                      a # job[r].tmp /\ a # job[r].rb}

-----------------------------------------------------------------------------
(* Requests.                                                                *)

Goto(r, step) == pc' = [pc EXCEPT ![r] = step]

Lose(n) == lost' = lost \cup {n}

\* The handler returns, and its deferred unlocks run.
Answer(r) ==
    /\ Goto(r, "idle")
    /\ job' = [job EXCEPT ![r] = NoJob]
    /\ held' = [p \in Projects |-> IF held[p] = r THEN Free ELSE held[p]]

At(r, step) == pc[r] = step

\* The project whose content a request replaces.
Replaced(j) == {p \in Projects : \/ j.op \in {"restore", "delete"} /\ p = j.p
                                 \/ j.op = "clone" /\ p = j.q}

Undisturbed(targets) ==
    Exclusive => \A r \in Requests : job[r] # NoJob => Replaced(job[r]) \cap targets = {}

NewJob(op, p) == [p |-> p, op |-> op, data |-> Empty, q |-> NoName, need |-> {},
                  tmp |-> NoName, rb |-> NoName, had |-> FALSE, snap |-> NoSnap]

Begin(r, j, step) ==
    /\ At(r, "idle")
    /\ j.p \in Named[j.op]
    /\ Undisturbed(Replaced(j))
    /\ job' = [job EXCEPT ![r] = j]
    /\ Goto(r, step)
    /\ UNCHANGED <<diskVars, known, held, ghostVars, crashes>>

AskEnsure(r, p) == Begin(r, [NewJob("ensure", p) EXCEPT !.need = {p}], "lock")

AskDelete(r, p) == Begin(r, [NewJob("delete", p) EXCEPT !.need = {p}], "lock")

AskClone(r, p, q) ==
    /\ p # q
    /\ Begin(r, [NewJob("clone", p) EXCEPT !.q = q, !.need = {p, q}], "lock")

AskBackup(r, p) == Begin(r, NewJob("backup", p), "dump")

\* restoreBackup, by the suffix of the backup's name; both take their names first.
AskRestore(r, p, t) ==
    \E a, b \in FreshAsides :
        /\ a # b
        /\ \E step \in {"receive", "prepare"} :
               Begin(r, [NewJob("restore", p) EXCEPT !.tmp = a, !.rb = b, !.data = t], step)

\* Mutant: the source is locked first, then the target.
NextLockAsGiven(j) == IF j.p \in j.need THEN {j.p} ELSE j.need

\* Locks are taken in the order of the names.
NextLock(j) == {p \in j.need : \A q \in j.need : Rank[p] <= Rank[q]}

FirstStep(op) == IF op = "ensure" THEN "ensure"
                 ELSE IF op = "delete" THEN "find" ELSE "check"

TakeLock(r) ==
    /\ At(r, "lock")
    /\ \E p \in NextLock(job[r]) :
           /\ held[p] = Free
           /\ held' = [held EXCEPT ![p] = r]
           /\ job' = [job EXCEPT ![r].need = @ \ {p}]
           /\ IF job[r].need = {p} THEN Goto(r, FirstStep(job[r].op)) ELSE UNCHANGED pc
    /\ UNCHANGED <<diskVars, known, ghostVars, crashes>>

-----------------------------------------------------------------------------
(* Ensure: the cached mount, or ensureZFSDataset.                           *)

EnsureCached(r) ==
    /\ At(r, "ensure")
    /\ job[r].p \in known \cap dirs
    /\ Answer(r)
    /\ UNCHANGED <<diskVars, known, ghostVars, crashes>>

\* The dataset is looked up and created, or its mountpoint is set.
EnsureDataset(r) ==
    LET p == job[r].p IN
    /\ At(r, "ensure")
    /\ p \notin known \cap dirs
    /\ \/ /\ ~Exists(p)
          /\ ds' = [ds EXCEPT ![p] = NewDataSet(Empty, NoSnap, p)]
          /\ dirs' = dirs \cup {p}
       \/ /\ Exists(p)
          /\ ds' = MountedDs(p, IF ds[p].at = Off THEN Off ELSE p)
          /\ dirs' = IF ds[p].at = Off THEN dirs ELSE dirs \cup {p}
       \/ /\ Exists(p)           \* it was not seen, and `create -p` minds it not
          /\ Fault("list")
          /\ UNCHANGED diskVars
    /\ Goto(r, "attach")
    /\ UNCHANGED <<known, held, job, ghostVars, crashes>>

EnsureFails(r) ==
    /\ \/ At(r, "ensure") /\ job[r].p \notin known \cap dirs /\ Fault("create")
       \/ At(r, "attach") /\ (Fault("mount") \/ ~Exists(job[r].p))
    /\ Answer(r)
    /\ UNCHANGED <<diskVars, known, ghostVars, crashes>>

EnsureMounted(r) ==
    LET p == job[r].p IN
    /\ At(r, "attach")
    /\ Exists(p)
    /\ ds' = MountedDs(p, IF ds[p].at = Off THEN p ELSE ds[p].at)
    /\ dirs' = IF ds[p].at = Off THEN dirs \cup {p} ELSE dirs
    /\ known' = known \cup {p}
    /\ Answer(r)
    /\ UNCHANGED <<ghostVars, crashes>>

-----------------------------------------------------------------------------
(* Delete: destroyZFSDataset, then the entry of Manager.mounts.             *)

Origins(p) == {n \in Names : Exists(n) /\ ds[p].origin \in ds[n].snaps}

FindDataset(r) ==
    LET p == job[r].p IN
    /\ At(r, "find")
    /\ \/ /\ Exists(p)
          /\ Goto(r, "destroy")
          /\ \/ \E n \in Origins(p) :
                    job' = [job EXCEPT ![r].q = n, ![r].snap = ds[p].origin]
             \/ /\ Origins(p) = {} \/ Fault("get")
                /\ UNCHANGED job
       \/ /\ ~Exists(p) \/ Fault("list")
          /\ Goto(r, "rmdir")
          /\ UNCHANGED job
    /\ UNCHANGED <<diskVars, known, held, ghostVars, crashes>>

DestroyDataset(r) ==
    LET p == job[r].p IN
    /\ At(r, "destroy")
    /\ \/ /\ CanDestroy(p)
          /\ ds' = Destroyed(p)
          /\ owed' = [owed EXCEPT ![p] = Nothing]
          /\ lost' = lost \ {p}
          /\ Goto(r, IF job[r].snap = NoSnap THEN "rmdir" ELSE "origin")
          /\ UNCHANGED <<held, job>>
       \/ /\ ~CanDestroy(p) \/ Fault("destroy")
          /\ Answer(r)
          /\ UNCHANGED <<ds, ghostVars>>
    /\ UNCHANGED <<dirs, known, crashes>>

DestroyOrigin(r) ==
    /\ At(r, "origin")
    /\ DropSnap(job[r].q, job[r].snap)
    /\ Goto(r, "rmdir")
    /\ UNCHANGED <<dirs, known, held, job, ghostVars, crashes>>

\* What is mounted at the path loses its files, and the directory cannot go.
RemovePath(r) ==
    LET p == job[r].p IN
    /\ At(r, "rmdir")
    /\ ds' = WipedAt(p)
    /\ owed' = IF Top(p) = {} THEN owed ELSE [owed EXCEPT ![p] = Nothing]
    /\ \/ /\ Top(p) = {}
          /\ dirs' = dirs \ {p}
          /\ known' = known \ {p}
       \/ /\ Top(p) # {} \/ Fault("remove")
          /\ UNCHANGED <<dirs, known>>
    /\ Answer(r)
    /\ UNCHANGED <<lost, crashes>>

-----------------------------------------------------------------------------
(* CloneZFS.                                                                *)

CheckClone(r) ==
    LET p == job[r].p  q == job[r].q IN
    /\ At(r, "check")
    /\ \/ /\ Exists(p)
          /\ ~Exists(q) \/ Fault("list")
          /\ q \notin dirs
          /\ Goto(r, "snap")
          /\ UNCHANGED <<held, job>>
       \/ /\ ~Exists(p) \/ Exists(q) \/ q \in dirs \/ Fault("list")
          /\ Answer(r)
    /\ UNCHANGED <<diskVars, known, ghostVars, crashes>>

\* `zfs snapshot`, of a clone or of a backup.
TakeSnapshot(r, next) ==
    LET p == job[r].p IN
    /\ \/ \E s \in FreshSnaps :
              /\ Exists(p)
              /\ ds' = [ds EXCEPT ![p].snaps = @ \cup {s}]
              /\ job' = [job EXCEPT ![r].snap = s, ![r].data = ds[p].data]
              /\ Goto(r, next)
              /\ UNCHANGED held
       \/ /\ ~Exists(p) \/ Fault("snapshot")
          /\ Answer(r)
          /\ UNCHANGED ds
    /\ UNCHANGED <<dirs, known, ghostVars, crashes>>

SnapshotSource(r) == At(r, "snap") /\ TakeSnapshot(r, "clone")

\* `zfs clone`: it may fail, or make the dataset and fail to mount it.
CloneDataset(r) ==
    LET p == job[r].p  q == job[r].q  s == job[r].snap
        CanClone == Exists(p) /\ s \in ds[p].snaps /\ ~Exists(q)
    IN
    /\ At(r, "clone")
    /\ \/ /\ CanClone
          /\ ds' = [ds EXCEPT ![q] = NewDataSet(job[r].data, s, q)]
          /\ dirs' = dirs \cup {q}
          /\ Goto(r, "finish")
       \/ /\ CanClone
          /\ Fault("mount")
          /\ ds' = [ds EXCEPT ![q] = NewDataSet(job[r].data, s, Off)]
          /\ Goto(r, "unsnap")
          /\ UNCHANGED dirs
       \/ /\ ~CanClone \/ Fault("clone")
          /\ Goto(r, "unsnap")
          /\ UNCHANGED diskVars
    /\ UNCHANGED <<known, held, job, ghostVars, crashes>>

FinishClone(r) ==
    LET q == job[r].q IN
    /\ At(r, "finish")
    /\ \/ /\ Exists(q)
          /\ known' = known \cup {q}
          /\ owed' = [owed EXCEPT ![q] = job[r].data]
          /\ lost' = lost \ {q}
          /\ Answer(r)
       \/ /\ ~Exists(q) \/ Fault("set")
          /\ Goto(r, "unclone")
          /\ UNCHANGED <<known, held, job, ghostVars>>
    /\ UNCHANGED <<diskVars, crashes>>

UndoClone(r) ==
    LET q == job[r].q IN
    /\ At(r, "unclone")
    /\ \/ CanDestroy(q) /\ ds' = Destroyed(q)
       \/ (~CanDestroy(q) \/ Fault("destroy")) /\ UNCHANGED ds
    /\ Goto(r, "unsnap")
    /\ UNCHANGED <<dirs, known, held, job, ghostVars, crashes>>

UndoSnapshot(r) ==
    /\ At(r, "unsnap")
    /\ DropSnap(job[r].p, job[r].snap)
    /\ Goto(r, "unpath")
    /\ UNCHANGED <<dirs, known, held, job, ghostVars, crashes>>

UndoPath(r) ==
    LET q == job[r].q IN
    /\ At(r, "unpath")
    /\ ds' = WipedAt(q)
    /\ \/ Top(q) = {} /\ dirs' = dirs \ {q}
       \/ (Top(q) # {} \/ Fault("remove")) /\ UNCHANGED dirs
    /\ Answer(r)
    /\ UNCHANGED <<known, ghostVars, crashes>>

-----------------------------------------------------------------------------
(* WriteZFSBackup.  Nothing holds the project's name meanwhile.             *)

DumpSnapshot(r) == At(r, "dump") /\ TakeSnapshot(r, "send")

StartSend(r) ==
    LET p == job[r].p
        CanSend == Exists(p) /\ job[r].snap \in ds[p].snaps
    IN
    /\ At(r, "send")
    /\ \/ CanSend /\ Goto(r, "sending")
       \/ (~CanSend \/ Fault("send")) /\ Goto(r, "unsend")
    /\ UNCHANGED <<diskVars, known, held, job, ghostVars, crashes>>

FinishSend(r) ==
    /\ At(r, "sending")
    /\ Goto(r, "unsend")
    /\ UNCHANGED <<diskVars, known, held, job, ghostVars, crashes>>

DropDump(r) ==
    /\ At(r, "unsend")
    /\ DropSnap(job[r].p, job[r].snap)
    /\ Answer(r)
    /\ UNCHANGED <<dirs, known, ghostVars, crashes>>

-----------------------------------------------------------------------------
(* RestoreZFSBackup and, for an archive of the other driver,                *)
(* ReplaceWithDirectory.                                                    *)

\* What a receive that failed made is destroyed, or stays when that fails too.
Receive(r) ==
    LET tmp == job[r].tmp
        received(d) == [ds EXCEPT ![tmp] = NewDataSet(d, NoSnap, Off)]
    IN
    /\ At(r, "receive")
    /\ \/ /\ ds' = received(job[r].data)
          /\ Goto(r, "look")
          /\ UNCHANGED <<held, job, lost>>
       \/ /\ Fault("receive")
          /\ Answer(r)
          /\ \/ ds' = received(Empty) /\ Lose(tmp)
             \/ UNCHANGED <<ds, lost>>
    /\ UNCHANGED <<dirs, known, owed, crashes>>

\* ensureZFSDataset of the temporary name; its failure comes before the defer.
PrepareTemp(r) ==
    LET tmp == job[r].tmp
        made == [ds EXCEPT ![tmp] = NewDataSet(Empty, NoSnap, tmp)]
    IN
    /\ At(r, "prepare")
    /\ \/ /\ ds' = made
          /\ Goto(r, "copy")
          /\ UNCHANGED <<held, job, lost>>
       \/ /\ Fault("create")
          /\ Answer(r)
          /\ \/ ds' = made /\ Lose(tmp)
             \/ UNCHANGED <<ds, lost>>
    /\ UNCHANGED <<dirs, known, owed, crashes>>

\* Mutant: the deferred removal is set up after the copy.
CopyIntoNoDefer(r) ==
    LET tmp == job[r].tmp IN
    /\ At(r, "copy")
    /\ \/ /\ Exists(tmp)
          /\ ds' = [ds EXCEPT ![tmp].data = job[r].data]
          /\ Goto(r, "look")
          /\ UNCHANGED <<job, held>>
       \/ /\ ~Exists(tmp) \/ Fault("copy")
          /\ Answer(r)
          /\ UNCHANGED ds
    /\ UNCHANGED <<dirs, known, ghostVars, crashes>>

CopyInto(r) ==
    LET tmp == job[r].tmp IN
    /\ At(r, "copy")
    /\ \/ /\ Exists(tmp)
          /\ ds' = [ds EXCEPT ![tmp].data = job[r].data]
          /\ Goto(r, "look")
       \/ /\ ~Exists(tmp) \/ Fault("copy")
          /\ Goto(r, "cleanup")
          /\ UNCHANGED ds
    /\ UNCHANGED <<dirs, known, held, job, ghostVars, crashes>>

LookTarget(r) ==
    LET had == Exists(job[r].p) IN
    /\ At(r, "look")
    /\ \/ /\ job' = [job EXCEPT ![r].had = had]
          /\ Goto(r, IF had THEN "aside" ELSE "publish")
       \/ /\ Fault("list")
          /\ Goto(r, "publish")
          /\ UNCHANGED job
    /\ UNCHANGED <<diskVars, known, held, ghostVars, crashes>>

MoveAside(r) ==
    LET p == job[r].p  rb == job[r].rb IN
    /\ At(r, "aside")
    /\ \/ /\ CanRename(p, rb)
          /\ ds' = Renamed(p, rb)
          /\ Goto(r, "publish")
       \/ /\ ~CanRename(p, rb) \/ Fault("rename")
          /\ Goto(r, "cleanup")
          /\ UNCHANGED ds
    /\ UNCHANGED <<dirs, known, held, job, ghostVars, crashes>>

Publish(r) ==
    LET p == job[r].p  tmp == job[r].tmp IN
    /\ At(r, "publish")
    /\ \/ /\ CanRename(tmp, p)
          /\ ds' = Renamed(tmp, p)
          /\ Goto(r, "remount")
       \/ /\ ~CanRename(tmp, p) \/ Fault("rename")
          /\ Goto(r, IF job[r].had THEN "putback" ELSE "cleanup")
          /\ UNCHANGED ds
    /\ UNCHANGED <<dirs, known, held, job, ghostVars, crashes>>

\* `zfs set mountpoint`, which moves a dataset that is mounted.
Remount(r) ==
    LET p == job[r].p IN
    /\ At(r, "remount")
    /\ \/ /\ Exists(p)
          /\ ds' = MountedDs(p, IF ds[p].at = Off THEN Off ELSE p)
          /\ dirs' = IF ds[p].at = Off THEN dirs ELSE dirs \cup {p}
          /\ Goto(r, "mount")
       \/ /\ ~Exists(p) \/ Fault("set")
          /\ Goto(r, "unpublish")
          /\ UNCHANGED diskVars
    /\ UNCHANGED <<known, held, job, ghostVars, crashes>>

\* The quota, the mount and the owner: after them the restore cannot fail.
Mount(r) ==
    LET p == job[r].p IN
    /\ At(r, "mount")
    /\ \/ /\ Exists(p)
          /\ ds' = MountedDs(p, p)
          /\ dirs' = dirs \cup {p}
          /\ owed' = [owed EXCEPT ![p] = job[r].data]
          /\ lost' = lost \ {p}
          /\ Goto(r, "dropaside")
       \/ /\ ~Exists(p) \/ Fault("mount")
          /\ Goto(r, "unpublish")
          /\ UNCHANGED <<diskVars, ghostVars>>
    /\ UNCHANGED <<known, held, job, crashes>>

\* Mutant: rollbackPublish takes the restored dataset away and leaves it at that.
UnpublishOnly(r) ==
    LET p == job[r].p  tmp == job[r].tmp IN
    /\ At(r, "unpublish")
    /\ \/ /\ CanRename(p, tmp)
          /\ ds' = Renamed(p, tmp)
          /\ UNCHANGED lost
       \/ /\ ~CanRename(p, tmp) \/ Fault("back")
          /\ Lose(p)
          /\ UNCHANGED ds
    /\ Goto(r, "cleanup")
    /\ UNCHANGED <<dirs, known, held, job, owed, crashes>>

\* rollbackPublish, and the rename back after a failed publish.
Unpublish(r) ==
    LET p == job[r].p  tmp == job[r].tmp IN
    /\ At(r, "unpublish")
    /\ \/ /\ CanRename(p, tmp)
          /\ ds' = Renamed(p, tmp)
          /\ UNCHANGED lost
       \/ /\ ~CanRename(p, tmp) \/ Fault("back")
          /\ Lose(p)
          /\ UNCHANGED ds
    /\ Goto(r, IF job[r].had THEN "putback" ELSE "cleanup")
    /\ UNCHANGED <<dirs, known, held, job, owed, crashes>>

PutBack(r) ==
    LET p == job[r].p  rb == job[r].rb IN
    /\ At(r, "putback")
    /\ \/ CanRename(rb, p) /\ ds' = Renamed(rb, p) /\ UNCHANGED lost
       \/ /\ ~CanRename(rb, p) \/ Fault("back")
          /\ lost' = lost \cup {p, rb}
          /\ UNCHANGED ds
    /\ Goto(r, "cleanup")
    /\ UNCHANGED <<dirs, known, held, job, owed, crashes>>

\* `zfs destroy -r` of a name the request made, whose failure is dropped.
Discard(n) ==
    \/ CanDestroy(n) /\ ds' = Destroyed(n) /\ UNCHANGED lost
    \/ ~Exists(n) /\ UNCHANGED <<ds, lost>>
    \/ /\ Exists(n) /\ (~CanDestroy(n) \/ Fault("destroy"))
       /\ Lose(n)
       /\ UNCHANGED ds

DropAside(r) ==
    /\ At(r, "dropaside")
    /\ IF job[r].had THEN Discard(job[r].rb) ELSE UNCHANGED <<ds, lost>>
    /\ known' = known \cup {job[r].p}
    /\ Goto(r, "cleanup")
    /\ UNCHANGED <<dirs, held, job, owed, crashes>>

\* Mutant: the deferred removal takes the rollback dataset along.
CleanUpBoth(r) ==
    /\ At(r, "cleanup")
    /\ ds' = [n \in Names |-> IF n \in {job[r].tmp, job[r].rb} /\ CanDestroy(n)
                              THEN NoDs ELSE ds[n]]
    /\ lost' = lost \cup {n \in {job[r].tmp, job[r].rb} : Exists(n) /\ ~CanDestroy(n)}
    /\ Answer(r)
    /\ UNCHANGED <<dirs, known, owed, crashes>>

\* The deferred removal of the temporary dataset.
CleanUp(r) ==
    /\ At(r, "cleanup")
    /\ Discard(job[r].tmp)
    /\ Answer(r)
    /\ UNCHANGED <<dirs, known, owed, crashes>>

-----------------------------------------------------------------------------
(* The service dies between two commands and starts again.                  *)

MidSwap(r) == pc[r] \in {"publish", "remount", "mount", "unpublish", "putback"}

Touched(r) ==
    IF pc[r] \notin RestoreSteps THEN {}
    ELSE {job[r].tmp, job[r].rb} \cup IF MidSwap(r) THEN {job[r].p} ELSE {}

Crash ==
    /\ crashes < MaxCrashes
    /\ crashes' = crashes + 1
    /\ lost' = lost \cup {n \in UNION {Touched(r) : r \in Requests} :
                            n \in Projects \/ Exists(n)}
    /\ known' = {}
    /\ held' = [p \in Projects |-> Free]
    /\ pc' = [r \in Requests |-> "idle"]
    /\ job' = [r \in Requests |-> NoJob]
    /\ UNCHANGED <<diskVars, owed>>

-----------------------------------------------------------------------------
Ask(r) ==
    \E p \in Projects :
        \/ AskEnsure(r, p)
        \/ AskDelete(r, p)
        \/ \E q \in Projects : AskClone(r, p, q)
        \/ AskBackup(r, p)
        \/ \E t \in Trees : AskRestore(r, p, t)

EnsureStep(r) == EnsureCached(r) \/ EnsureDataset(r) \/ EnsureFails(r) \/ EnsureMounted(r)

DeleteStep(r) == FindDataset(r) \/ DestroyDataset(r) \/ DestroyOrigin(r) \/ RemovePath(r)

CloneStep(r) == \/ CheckClone(r) \/ SnapshotSource(r) \/ CloneDataset(r) \/ FinishClone(r)
                \/ UndoClone(r) \/ UndoSnapshot(r) \/ UndoPath(r)

BackupStep(r) == DumpSnapshot(r) \/ StartSend(r) \/ FinishSend(r) \/ DropDump(r)

RestoreStep(r) == \/ Receive(r) \/ PrepareTemp(r) \/ CopyInto(r) \/ LookTarget(r)
                  \/ MoveAside(r) \/ Publish(r) \/ Remount(r) \/ Mount(r)
                  \/ Unpublish(r) \/ PutBack(r) \/ DropAside(r) \/ CleanUp(r)

\* A request between its locks and its answer.
Work(r) == EnsureStep(r) \/ DeleteStep(r) \/ CloneStep(r) \/ BackupStep(r) \/ RestoreStep(r)

Next == (\E r \in Requests : Ask(r) \/ TakeLock(r) \/ Work(r)) \/ Crash

Spec == Init /\ [][Next]_vars

-----------------------------------------------------------------------------
(* Properties.                                                              *)

Holds(n, p) == Exists(n) /\ ds[n].data = owed[p]

(* What a project's clients are owed is complete in a dataset, under the    *)
(* project's name or under one that a restore gave it (RestoreZFSBackup     *)
(* destroys the old dataset only when nothing can fail any more).           *)
Kept == \A p \in Projects : owed[p] # Nothing => \E n \in {p} \cup Asides : Holds(n, p)

Swapping(p) == \E r \in Requests : MidSwap(r) /\ job[r].p = p

(* Outside of a restore's swap a project has its content under its own      *)
(* name: every failure puts it back, unless a rename back failed, the       *)
(* service died in the swap, or somebody made a new dataset of the name.    *)
RestorePutsBack ==
    \A p \in Projects : (owed[p] # Nothing /\ ~Swapping(p) /\ p \notin lost) => Holds(p, p)

(* The same without the excuses: README.md, "a failed restore cannot        *)
(* replace a valid project with an empty filesystem".                       *)
FailedRestoreHarmless ==
    \A p \in Projects : (owed[p] # Nothing /\ ~Swapping(p)) => Holds(p, p)

Uses(r, a) == job[r] # NoJob /\ a \in {job[r].tmp, job[r].rb}

(* A dataset under a restore's own name belongs to a restore that runs, or  *)
(* a command or the service failed: no path of the two handlers forgets one *)
(* (the deferred destroy, rollbackPublish).                                 *)
AsidesAccounted ==
    \A a \in Asides : Exists(a) => a \in lost \/ \E r \in Requests : Uses(r, a)

Waits(r, other) == At(r, "lock") /\ \E p \in NextLock(job[r]) : held[p] = other

(* Requests that lock two names do not wait for one another in a circle     *)
(* (CloneZFS takes its locks in the order of the names).                    *)
NoCircle ==
    \A S \in (SUBSET Requests) \ {{}} : \E r \in S : \A other \in S : ~Waits(r, other)
=============================================================================
