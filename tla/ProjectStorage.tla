---------------------------- MODULE ProjectStorage ----------------------------
(***************************************************************************)
(* Where a project's files live: the hot directory under WORKSPACES_ROOT,  *)
(* the archive objects in the S3-compatible store, and the per-project     *)
(* state file that says which of the two is current.  The module follows   *)
(* internal/app/project_archive.go, project_storage_state.go,              *)
(* project_routes.go and backups.go (directory storage driver).            *)
(*                                                                         *)
(* Every HTTP request runs in a goroutine of its own; the archive sweeper  *)
(* is one more.  Each call that touches the disk, the object store or the  *)
(* container daemon is one step of a process, so that any other process   *)
(* may run between two of them.  What a directory, an archive or a backup  *)
(* contains is a set of writes; the writes of links no tarball holds.      *)
(***************************************************************************)
EXTENDS Integers, FiniteSets

CONSTANTS
    Projects,          \* runtime names (projectName of a project id)
    Named,             \* bound: the projects requests name; clone targets are others
    Requests,          \* concurrent HTTP requests of the control plane
    Sweepers,          \* the goroutine of startArchiveSweeper, or none of it
    Writes,            \* identities of the changes clients make to files
    Links,             \* the writes that make a link, not a file or a directory
    Seed,              \* files of a project that exists when the run starts
    Ops,               \* the routes the requests of a run may call
    Faults,            \* what the environment of a run may do wrong
    ArchiveRetention,  \* PROJECT_RUNTIME_ARCHIVE_RETENTION, at least 1
    BackupRetention,   \* PROJECT_RUNTIME_BACKUP_RETENTION, at least 1
    MaxNames,          \* bound: archive and backup names given to a project
    MaxCrashes,        \* bound: crashes of the service
    NoDir, Torn, NoProc

RouteOps == {"archive", "unarchive", "exec", "write", "clone", "backup",
             "restore", "delete", "terminate"}

FaultKinds == {"stop", "start", "tar", "torn", "put", "putlost", "tie",
               "delete", "save", "get", "swap", "copy", "prune", "crash"}

ASSUME StorageAssumption ==
    /\ Projects # {}
    /\ Named \subseteq Projects
    /\ Requests \cap Sweepers = {}
    /\ NoProc \notin Requests \cup Sweepers
    /\ Seed \subseteq Writes
    /\ Links \subseteq Writes
    /\ NoDir # Torn
    /\ \A c \in SUBSET Writes : c # NoDir /\ c # Torn
    /\ Ops \subseteq RouteOps
    /\ Faults \subseteq FaultKinds
    /\ ArchiveRetention \in Nat \ {0}
    /\ BackupRetention \in Nat \ {0}
    /\ MaxNames \in Nat
    /\ MaxCrashes \in Nat

Procs == Requests \cup Sweepers

VARIABLES
    file,      \* the state file of each project (a missing file is the default)
    dir,       \* the project's directory: the writes in it, or NoDir
    stray,     \* contents of rollback directories no request will put back
    archives,  \* archive objects of each project
    backups,   \* backup objects of each project
    clock,     \* names given so far: object names are increasing timestamps
    mount,     \* the project's container: not running, or bound to the
               \* current directory, or to one that was since removed
    lock,      \* holder of projectStates.lock
    pc, op, proj,  \* what each process does, for which route, on which project
    tmp,       \* the tarball or the extracted tree in a process's hands
    name,      \* the object name a process works with
    back,      \* what restoreBackup of a process moved to its rollback directory
    todo,      \* projects left in the sweeper's list
    owed,      \* ghost: the writes a project's clients may expect to find
    crashes    \* number of crashes so far

diskVars == <<file, dir, stray, archives, backups, clock, mount>>
procVars == <<lock, pc, op, proj, tmp, name, back, todo>>
vars == <<diskVars, procVars, owed, crashes>>

-----------------------------------------------------------------------------
(* Types.                                                                   *)

StorageStates == {"local", "archiving", "archived", "restoring", "error"}

Activity == {"none", "recent", "old"}  \* LastActivityAt against ArchiveAfter

StateFile == [storage : StorageStates, archive : Nat, last : Activity]

Content == {Torn} \cup SUBSET Writes

Directory == {NoDir} \cup SUBSET Writes

Object == [name : Nat, at : Nat, data : Content]

ArchiveSteps == {"quiesce", "tar", "put", "remove", "mark"}

RestoreSteps == {"get", "swapout", "swapin", "local"}

LockedSteps == {"archive", "ensure", "prune"} \cup ArchiveSteps \cup RestoreSteps

OpenSteps == {"idle", "lock", "start", "attach", "run", "mkdir", "file", "stop",
              "rm", "copy", "dump", "rotate", "resolve", "fetch", "aside",
              "publish"}

DiskOK ==
    /\ file \in [Projects -> StateFile]
    /\ dir \in [Projects -> Directory]
    /\ stray \in [Projects -> SUBSET (SUBSET Writes)]
    /\ archives \in [Projects -> SUBSET Object]
    /\ backups \in [Projects -> SUBSET Object]
    /\ clock \in [Projects -> Nat]
    /\ mount \in [Projects -> {"none", "live", "stale"}]

ProcsOK ==
    /\ lock \in [Projects -> Procs \cup {NoProc}]
    /\ pc \in [Procs -> LockedSteps \cup OpenSteps]
    /\ op \in [Procs -> RouteOps \cup {"sweep", "none"}]
    /\ proj \in [Procs -> Projects]
    /\ tmp \in [Procs -> {NoDir} \cup Content]
    /\ name \in [Procs -> Nat]
    /\ back \in [Procs -> Directory]
    /\ todo \in SUBSET Projects

(* Every variable stays in its type.  A project's directory is a whole tree *)
(* or nothing: what could be extracted of a torn tarball never becomes one  *)
(* (restoreBackup, on every route that restores).                           *)
TypeOK ==
    /\ DiskOK
    /\ ProcsOK
    /\ owed \in [Projects -> SUBSET Writes]
    /\ crashes \in Nat

Home == CHOOSE p \in Projects : TRUE  \* what an idle process points at

(* The service starts on an empty host or beside one project that has files. *)
Init ==
    /\ file = [p \in Projects |->
                 [storage |-> "local", archive |-> 0, last |-> "none"]]
    /\ dir \in [Projects -> {NoDir, Seed}]
    /\ stray = [p \in Projects |-> {}]
    /\ archives = [p \in Projects |-> {}]
    /\ backups = [p \in Projects |-> {}]
    /\ clock = [p \in Projects |-> 0]
    /\ mount = [p \in Projects |-> "none"]
    /\ lock = [p \in Projects |-> NoProc]
    /\ pc = [r \in Procs |-> "idle"]
    /\ op = [r \in Procs |-> "none"]
    /\ proj = [r \in Procs |-> Home]
    /\ tmp = [r \in Procs |-> NoDir]
    /\ name = [r \in Procs |-> 0]
    /\ back = [r \in Procs |-> NoDir]
    /\ todo = {}
    /\ owed = [p \in Projects |-> IF dir[p] = NoDir THEN {} ELSE dir[p]]
    /\ crashes = 0

-----------------------------------------------------------------------------
(* How a process moves on and how it ends.                                  *)

Fault(kind) == kind \in Faults

Goto(r, step) == pc' = [pc EXCEPT ![r] = step]

Forget(r) ==
    /\ op' = [op EXCEPT ![r] = "none"]
    /\ proj' = [proj EXCEPT ![r] = Home]
    /\ tmp' = [tmp EXCEPT ![r] = NoDir]
    /\ name' = [name EXCEPT ![r] = 0]
    /\ back' = [back EXCEPT ![r] = NoDir]

Unlock(r) == lock' = [lock EXCEPT ![proj[r]] = NoProc]

(* A handler that holds no lock writes its response. *)
Respond(r) ==
    /\ Goto(r, "idle")
    /\ Forget(r)
    /\ UNCHANGED <<lock, todo>>

(* A handler that holds the project's lock returns: the deferred unlock. *)
Finish(r) ==
    /\ Goto(r, "idle")
    /\ Forget(r)
    /\ Unlock(r)
    /\ UNCHANGED todo

(* Mutated form of Abandon: the deferred unlock is missing. *)
AbandonLocked(r) ==
    /\ Goto(r, "idle")
    /\ Forget(r)
    /\ todo' = IF r \in Sweepers THEN {} ELSE todo
    /\ UNCHANGED lock

(* The same with an error, which ends a whole sweep. *)
Abandon(r) ==
    /\ Goto(r, "idle")
    /\ Forget(r)
    /\ Unlock(r)
    /\ todo' = IF r \in Sweepers THEN {} ELSE todo

StepTo(r, step) ==
    /\ Goto(r, step)
    /\ UNCHANGED <<lock, op, proj, tmp, name, back, todo>>

(* Mutated form of MarkError: the error is returned and not recorded. *)
ReturnError(r) == UNCHANGED file /\ Abandon(r)

(* markProjectStorageError: reload, mark, save (a failed save is ignored). *)
MarkError(r) ==
    /\ \/ file' = [file EXCEPT ![proj[r]].storage = "error"]
       \/ Fault("save") /\ UNCHANGED file
    /\ Abandon(r)

Made(d) == IF d = NoDir THEN {} ELSE d

(* The container keeps the directory it was started on; once that one is   *)
(* renamed or removed its writes no longer reach the project.              *)
Detached(m) == IF m = "live" THEN "stale" ELSE m

(* Mutated form of RemoveDir: the local copy stays. *)
LeaveDir(p) == p \in Projects /\ UNCHANGED <<dir, mount>>

RemoveDir(p) ==
    /\ dir' = [dir EXCEPT ![p] = NoDir]
    /\ mount' = [mount EXCEPT ![p] = Detached(@)]

(* os.RemoveAll gives up half way, or the quota cleanup after it fails.     *)
RemoveSome(p) ==
    \/ RemoveDir(p)
    \/ /\ dir[p] # NoDir
       /\ \E rest \in SUBSET dir[p] : dir' = [dir EXCEPT ![p] = rest]
       /\ UNCHANGED mount

-----------------------------------------------------------------------------
(* Requests arrive; the sweeper lists and picks.                            *)

(* Mutated form of FirstStep: DELETE does not stop the container. *)
FirstStepUnstopped(o) ==
    CASE o = "restore" -> "resolve"
      [] o = "terminate" -> "stop"
      [] o = "delete" -> "rm"
      [] OTHER -> "lock"

FirstStep(o) ==
    CASE o = "restore" -> "resolve"
      [] o \in {"delete", "terminate"} -> "stop"
      [] OTHER -> "lock"

GivesName(o) == o \in {"archive", "sweep", "backup"}

Arrive(r) ==
    /\ pc[r] = "idle"
    /\ \E o \in Ops, p \in Named :
        /\ GivesName(o) => clock[p] < MaxNames
        /\ op' = [op EXCEPT ![r] = o]
        /\ proj' = [proj EXCEPT ![r] = p]
        /\ Goto(r, FirstStep(o))
    /\ UNCHANGED <<diskVars, lock, tmp, name, back, todo, owed, crashes>>

Inactive(p) ==
    /\ file[p].storage = "local"
    /\ file[p].last = "old"
    /\ clock[p] < MaxNames

(* archiveInactiveProjects reads every state file without a lock ... *)
SweepList(s) ==
    /\ pc[s] = "idle"
    /\ todo = {}
    /\ \E p \in Projects : Inactive(p)
    /\ todo' = {p \in Projects : Inactive(p)}
    /\ UNCHANGED <<diskVars, lock, pc, op, proj, tmp, name, back, owed, crashes>>

(* ... and calls archiveProject on what it found then. *)
SweepNext(s) ==
    /\ pc[s] = "idle"
    /\ \E p \in todo :
        /\ todo' = todo \ {p}
        /\ proj' = [proj EXCEPT ![s] = p]
        /\ op' = [op EXCEPT ![s] = "sweep"]
        /\ Goto(s, "lock")
    /\ UNCHANGED <<diskVars, lock, tmp, name, back, owed, crashes>>

(* ArchiveAfter goes by without a request for the project. *)
Idle(p) ==
    /\ file[p].last = "recent"
    /\ file' = [file EXCEPT ![p].last = "old"]
    /\ UNCHANGED <<dir, stray, archives, backups, clock, mount, procVars, owed,
                   crashes>>

TakeLock(r) ==
    /\ pc[r] = "lock"
    /\ lock[proj[r]] = NoProc
    /\ lock' = [lock EXCEPT ![proj[r]] = r]
    /\ Goto(r, IF op[r] \in {"archive", "sweep"} THEN "archive" ELSE "ensure")
    /\ UNCHANGED <<diskVars, op, proj, tmp, name, back, todo, owed, crashes>>

-----------------------------------------------------------------------------
(* handleProjectArchive and archiveProject, under the project's lock.       *)

(* Mutated form of MayArchive: the sweeper trusts its list. *)
MayArchiveListed(r) ==
    op[r] = "sweep" \/ file[proj[r]].storage \in {"local", "error"}

MayArchive(r) ==
    file[proj[r]].storage \in
        IF op[r] = "sweep" THEN {"local"} ELSE {"local", "error"}

BeginArchive(r) ==
    /\ pc[r] = "archive"
    /\ \/ /\ ~MayArchive(r)
          /\ Finish(r)
          /\ UNCHANGED file
       \/ /\ MayArchive(r)
          /\ file' = [file EXCEPT ![proj[r]].storage = "archiving"]
          /\ StepTo(r, "quiesce")
       \/ /\ MayArchive(r)
          /\ Fault("save")
          /\ Abandon(r)
          /\ UNCHANGED file
    /\ UNCHANGED <<dir, stray, archives, backups, clock, mount, owed, crashes>>

QuiesceArchive(r) ==
    /\ pc[r] = "quiesce"
    /\ \/ /\ mount' = [mount EXCEPT ![proj[r]] = "none"]
          /\ StepTo(r, "tar")
          /\ UNCHANGED file
       \/ /\ Fault("stop")
          /\ MarkError(r)
          /\ UNCHANGED mount
    /\ UNCHANGED <<dir, stray, archives, backups, clock, owed, crashes>>

(* What a tarball holds: of anything but a file or a directory writeTarGz   *)
(* writes a header, of a link one without its target.  (Of a socket it     *)
(* cannot, and fails: "tar".)                                               *)
Regular(c) == c \ Links

(* writeTarGz drops the errors of its deferred Close calls, so a full disk *)
(* under BackupRoot can leave a torn tarball and no error.                  *)
Tarballs(d) == {Regular(d)} \cup IF Fault("torn") THEN {Torn} ELSE {}

WriteTar(r) ==
    /\ pc[r] = "tar"
    /\ \/ /\ dir[proj[r]] # NoDir
          /\ \E c \in Tarballs(dir[proj[r]]) : tmp' = [tmp EXCEPT ![r] = c]
          /\ Goto(r, "put")
          /\ UNCHANGED <<file, lock, op, proj, name, back, todo>>
       \/ /\ dir[proj[r]] = NoDir \/ Fault("tar")
          /\ MarkError(r)
    /\ UNCHANGED <<dir, stray, archives, backups, clock, mount, owed, crashes>>

(* The store's LastModified may be too coarse to tell two uploads apart.    *)
Stamps(objects, n) ==
    {n} \cup IF Fault("tie") THEN {b.at : b \in {b \in objects :
                                  \A c \in objects : c.at <= b.at}} ELSE {}

(* Names are the time of the upload.                                        *)
NextName(p) == clock[p] + 1

PutArchive(r) ==
    /\ pc[r] = "put"
    /\ LET p == proj[r]
           n == NextName(p)
           Stored == \E t \in Stamps(archives[p], n) :
                       archives' = [archives EXCEPT ![p] =
                           @ \cup {[name |-> n, at |-> t, data |-> tmp[r]]}]
       IN  /\ clock' = [clock EXCEPT ![p] = n]
           /\ \/ /\ Stored
                 /\ name' = [name EXCEPT ![r] = n]
                 /\ Goto(r, "remove")
                 /\ UNCHANGED <<file, lock, op, proj, tmp, back, todo>>
              \/ /\ Fault("put")
                 /\ MarkError(r)
                 /\ UNCHANGED archives
              \/ /\ Fault("putlost")
                 /\ Stored
                 /\ MarkError(r)
    /\ UNCHANGED <<dir, stray, backups, mount, owed, crashes>>

RemoveLocal(r) ==
    /\ pc[r] = "remove"
    /\ \/ /\ RemoveDir(proj[r])
          /\ StepTo(r, "mark")
          /\ UNCHANGED file
       \/ /\ Fault("delete")
          /\ RemoveSome(proj[r])
          /\ MarkError(r)
    /\ UNCHANGED <<stray, archives, backups, clock, owed, crashes>>

MarkArchived(r) ==
    /\ pc[r] = "mark"
    /\ \/ /\ file' = [file EXCEPT ![proj[r]].storage = "archived",
                                 ![proj[r]].archive = name[r]]
          /\ StepTo(r, "prune")
       \/ /\ Fault("save")
          /\ Abandon(r)
          /\ UNCHANGED file
    /\ UNCHANGED <<dir, stray, archives, backups, clock, mount, owed, crashes>>

(* Mutated forms of Kept: the sort is the wrong way round; the loop starts  *)
(* one too early.                                                           *)
KeptOldest(objects, retention) ==
    {kept \in SUBSET objects :
        /\ Cardinality(kept) = IF Cardinality(objects) < retention
                               THEN Cardinality(objects) ELSE retention
        /\ \A a \in kept, b \in objects \ kept : a.at <= b.at}

KeptOneLess(objects, retention) ==
    {kept \in SUBSET objects :
        /\ Cardinality(kept) = IF Cardinality(objects) < retention
                               THEN Cardinality(objects) ELSE retention - 1
        /\ \A a \in kept, b \in objects \ kept : a.at >= b.at}

(* The retention loop keeps the newest generations and deletes the others  *)
(* from the newest on, until the first error.                               *)
Kept(objects, retention) ==
    {kept \in SUBSET objects :
        /\ Cardinality(kept) = IF Cardinality(objects) < retention
                               THEN Cardinality(objects) ELSE retention
        /\ \A a \in kept, b \in objects \ kept : a.at >= b.at}

PartlyPruned(objects, kept) ==
    {rest \in SUBSET objects :
        /\ kept \subseteq rest
        /\ \A a \in rest \ kept, b \in objects \ rest : a.at <= b.at}

PruneArchives(r) ==
    /\ pc[r] = "prune"
    /\ \E kept \in Kept(archives[proj[r]], ArchiveRetention) :
        \/ /\ archives' = [archives EXCEPT ![proj[r]] = kept]
           /\ Finish(r)
        \/ /\ Fault("prune")
           /\ \E rest \in PartlyPruned(archives[proj[r]], kept) :
                 archives' = [archives EXCEPT ![proj[r]] = rest]
           /\ Abandon(r)
    /\ UNCHANGED <<file, dir, stray, backups, clock, mount, owed, crashes>>

-----------------------------------------------------------------------------
(* ensureProjectLocalLocked, on behalf of unarchive and of the hot path.    *)
(* Its branch for an archived project without an archive object is left    *)
(* out: ArchiveStored below says that no step leads there.                  *)

Body(o) ==
    CASE o = "exec" -> "start"
      [] o = "write" -> "mkdir"
      [] o \in {"clone", "backup"} -> "stop"
      [] OTHER -> "idle"

(* The project is local: unlock, and only then go on with the operation.    *)
Proceed(r) ==
    IF Body(op[r]) = "idle"
    THEN Finish(r)
    ELSE /\ Goto(r, Body(op[r]))
         /\ Unlock(r)
         /\ tmp' = [tmp EXCEPT ![r] = NoDir]
         /\ UNCHANGED <<op, proj, name, back, todo>>

EnsureLocal(r) ==
    /\ pc[r] = "ensure"
    /\ LET p == proj[r]
           s == file[p].storage
       IN  \/ /\ s = "local"
              /\ file' = [file EXCEPT ![p].last = "recent"]
              /\ Proceed(r)
           \/ /\ s \in {"archiving", "restoring", "error"}
              /\ Abandon(r)
              /\ UNCHANGED file
           \/ /\ s = "archived"
              /\ file' = [file EXCEPT ![p].storage = "restoring"]
              /\ StepTo(r, "get")
           \/ /\ s \in {"local", "archived"} /\ Fault("save")
              /\ Abandon(r)
              /\ UNCHANGED file
    /\ UNCHANGED <<dir, stray, archives, backups, clock, mount, owed, crashes>>

(* Mutated form of Extracts: the error of extractTarGz is dropped.          *)
ExtractsPart(object) == object.name # 0

(* extractTarGz reads to the end of the stream, or it fails.                *)
Extracts(object) == object.data # Torn

(* What it makes of an object: headers without a content make nothing.      *)
Tree(object) == IF object.data = Torn THEN Torn ELSE Regular(object.data)

(* restoreArchiveObject up to the extracted tree: download, size check,     *)
(* extraction into a directory beside the project.                          *)
GetArchive(r) ==
    /\ pc[r] = "get"
    /\ LET found == {a \in archives[proj[r]] :
                        a.name = file[proj[r]].archive /\ Extracts(a)}
       IN  \/ /\ \E a \in found : tmp' = [tmp EXCEPT ![r] = Tree(a)]
              /\ Goto(r, "swapout")
              /\ UNCHANGED <<file, lock, op, proj, name, back, todo>>
           \/ /\ found = {} \/ Fault("get")
              /\ MarkError(r)
    /\ UNCHANGED <<dir, stray, archives, backups, clock, mount, owed, crashes>>

(* restoreBackup: the current directory moves to a rollback name ...        *)
MoveAside(r) ==
    /\ back' = [back EXCEPT ![r] = dir[proj[r]]]
    /\ RemoveDir(proj[r])

(* ... and the extracted tree is renamed into its place.  os.Rename refuses *)
(* a target that is a directory, so one made in the meantime stops it.      *)
Vacant(d) == d = NoDir

PublishDir(r) ==
    /\ Vacant(dir[proj[r]])
    /\ dir' = [dir EXCEPT ![proj[r]] = tmp[r]]
    /\ UNCHANGED <<stray, mount>>

(* The rename failed: move the old directory back, ignoring errors.         *)
RollBack(r) ==
    LET p == proj[r]
    IN  \/ /\ back[r] # NoDir /\ Vacant(dir[p])
          /\ dir' = [dir EXCEPT ![p] = back[r]]
          /\ mount' \in {mount, [mount EXCEPT ![p] =
                                   IF @ = "none" THEN "none" ELSE "live"]}
          /\ UNCHANGED stray
       \/ /\ back[r] # NoDir /\ (~Vacant(dir[p]) \/ Fault("swap"))
          /\ stray' = [stray EXCEPT ![p] = @ \cup {back[r]}]
          /\ UNCHANGED <<dir, mount>>
       \/ /\ back[r] = NoDir
          /\ UNCHANGED <<dir, stray, mount>>

CannotPublish(r) == ~Vacant(dir[proj[r]]) \/ Fault("swap")

SwapOut(r) ==
    /\ pc[r] = "swapout"
    /\ \/ /\ MoveAside(r)
          /\ Goto(r, "swapin")
          /\ UNCHANGED <<file, lock, op, proj, tmp, name, todo>>
       \/ /\ Fault("swap") /\ dir[proj[r]] # NoDir
          /\ MarkError(r)
          /\ UNCHANGED <<dir, mount>>
    /\ UNCHANGED <<stray, archives, backups, clock, owed, crashes>>

SwapIn(r) ==
    /\ pc[r] = "swapin"
    /\ \/ /\ PublishDir(r)
          /\ Goto(r, "local")
          /\ back' = [back EXCEPT ![r] = NoDir]
          /\ UNCHANGED <<file, lock, op, proj, tmp, name, todo>>
       \/ /\ CannotPublish(r)
          /\ RollBack(r)
          /\ MarkError(r)
    /\ UNCHANGED <<archives, backups, clock, owed, crashes>>

MarkLocal(r) ==
    /\ pc[r] = "local"
    /\ \/ /\ file' = [file EXCEPT ![proj[r]].storage = "local",
                                 ![proj[r]].last = "recent"]
          /\ Proceed(r)
       \/ /\ Fault("save")
          /\ Abandon(r)
          /\ UNCHANGED file
    /\ UNCHANGED <<dir, stray, archives, backups, clock, mount, owed, crashes>>

-----------------------------------------------------------------------------
(* The operations themselves; none of them holds the project's lock.        *)

(* EnsureContainer, called by handleExec and again by Manager.Exec: makes  *)
(* the directory only when it has to create the container.                  *)
StartContainer(r) ==
    /\ pc[r] \in {"start", "attach"}
    /\ LET p == proj[r]
           next == IF pc[r] = "start" THEN "attach" ELSE "run"
       IN  \/ /\ mount[p] # "none"
              /\ StepTo(r, next)
              /\ UNCHANGED <<dir, mount>>
           \/ /\ mount[p] = "none"
              /\ dir' = [dir EXCEPT ![p] = Made(@)]
              /\ mount' = [mount EXCEPT ![p] = "live"]
              /\ StepTo(r, next)
           \/ /\ mount[p] = "none" /\ Fault("start")
              /\ dir' = [dir EXCEPT ![p] = Made(@)]
              /\ Respond(r)
              /\ UNCHANGED mount
    /\ UNCHANGED <<file, stray, archives, backups, clock, owed, crashes>>

Fresh == Writes \ UNION {owed[p] : p \in Projects}

(* The command runs in the container and may change a file.                 *)
RunCommand(r) ==
    /\ pc[r] = "run"
    /\ LET p == proj[r]
       IN  \/ /\ mount[p] = "live" /\ dir[p] # NoDir
              /\ \E w \in Fresh :
                    /\ dir' = [dir EXCEPT ![p] = @ \cup {w}]
                    /\ owed' = [owed EXCEPT ![p] = @ \cup {w}]
           \/ UNCHANGED <<dir, owed>>
    /\ Respond(r)
    /\ UNCHANGED <<file, stray, archives, backups, clock, mount, crashes>>

(* workspaces.Ensure before a mutating file route.                          *)
EnsureWorkspace(r) ==
    /\ pc[r] = "mkdir"
    /\ dir' = [dir EXCEPT ![proj[r]] = Made(@)]
    /\ StepTo(r, "file")
    /\ UNCHANGED <<file, stray, archives, backups, clock, mount, owed, crashes>>

(* fsops.Write makes the parent directories itself.                         *)
WriteFile(r) ==
    /\ pc[r] = "file"
    /\ \/ \E w \in Fresh :
            /\ dir' = [dir EXCEPT ![proj[r]] = Made(@) \cup {w}]
            /\ owed' = [owed EXCEPT ![proj[r]] = @ \cup {w}]
       \/ UNCHANGED <<dir, owed>>
    /\ Respond(r)
    /\ UNCHANGED <<file, stray, archives, backups, clock, mount, crashes>>

AfterStop(o) ==
    CASE o = "delete" -> "rm"
      [] o = "clone" -> "copy"
      [] o = "backup" -> "dump"
      [] o = "restore" -> "fetch"
      [] OTHER -> "idle"

(* TerminateContainer without the lock.  From here on a client that called  *)
(* DELETE expects none of the files.                                        *)
StopContainer(r) ==
    /\ pc[r] = "stop"
    /\ \/ /\ mount' = [mount EXCEPT ![proj[r]] = "none"]
          /\ owed' = [owed EXCEPT ![proj[r]] = IF op[r] = "delete" THEN {} ELSE @]
          /\ IF AfterStop(op[r]) = "idle" THEN Respond(r)
                                          ELSE StepTo(r, AfterStop(op[r]))
       \/ /\ Fault("stop")
          /\ Respond(r)
          /\ UNCHANGED <<mount, owed>>
    /\ UNCHANGED <<file, dir, stray, archives, backups, clock, crashes>>

(* DELETE of the project: the state file and the archives stay.             *)
DeleteWorkspace(r) ==
    /\ pc[r] = "rm"
    /\ \/ RemoveDir(proj[r])
       \/ Fault("delete") /\ RemoveSome(proj[r])
    /\ Respond(r)
    /\ UNCHANGED <<file, stray, archives, backups, clock, owed, crashes>>

(* CloneReflink into a project that has no directory.                       *)
CloneWorkspace(r) ==
    /\ pc[r] = "copy"
    /\ LET p == proj[r]
           free == {q \in Projects \ {p} : dir[q] = NoDir}
       IN  \/ /\ dir[p] # NoDir
              /\ \E q \in free :
                    /\ dir' = [dir EXCEPT ![q] = dir[p]]
                    /\ owed' = [owed EXCEPT ![q] = dir[p]]
           \/ /\ dir[p] = NoDir \/ Fault("copy") \/ free # Projects \ {p}
              /\ UNCHANGED <<dir, owed>>
    /\ Respond(r)
    /\ UNCHANGED <<file, stray, archives, backups, clock, mount, crashes>>

(* createBackup: tar and upload.                                            *)
DumpBackup(r) ==
    /\ pc[r] = "dump"
    /\ LET p == proj[r]
           n == NextName(p)
       IN  \/ /\ dir[p] # NoDir
              /\ clock' = [clock EXCEPT ![p] = n]
              /\ \E c \in Tarballs(dir[p]), t \in Stamps(backups[p], n) :
                    backups' = [backups EXCEPT ![p] =
                        @ \cup {[name |-> n, at |-> t, data |-> c]}]
              /\ StepTo(r, "rotate")
           \/ /\ dir[p] = NoDir \/ Fault("put")
              /\ Respond(r)
              /\ UNCHANGED <<clock, backups>>
    /\ UNCHANGED <<file, dir, stray, archives, mount, owed, crashes>>

PruneBackups(r) ==
    /\ pc[r] = "rotate"
    /\ \E kept \in Kept(backups[proj[r]], BackupRetention) :
        \/ backups' = [backups EXCEPT ![proj[r]] = kept]
        \/ /\ Fault("prune")
           /\ \E rest \in PartlyPruned(backups[proj[r]], kept) :
                 backups' = [backups EXCEPT ![proj[r]] = rest]
    /\ Respond(r)
    /\ UNCHANGED <<file, dir, stray, archives, clock, mount, owed, crashes>>

(* handleProjectRestore: neither the lock nor the storage state.            *)
ResolveBackup(r) ==
    /\ pc[r] = "resolve"
    /\ \/ /\ \E b \in backups[proj[r]] : name' = [name EXCEPT ![r] = b.name]
          /\ Goto(r, "stop")
          /\ UNCHANGED <<lock, op, proj, tmp, back, todo>>
       \/ /\ backups[proj[r]] = {}
          /\ Respond(r)
    /\ UNCHANGED <<diskVars, owed, crashes>>

FetchBackup(r) ==
    /\ pc[r] = "fetch"
    /\ LET found == {b \in backups[proj[r]] : b.name = name[r] /\ Extracts(b)}
       IN  \/ /\ \E b \in found : tmp' = [tmp EXCEPT ![r] = Tree(b)]
              /\ Goto(r, "aside")
              /\ UNCHANGED <<lock, op, proj, name, back, todo>>
           \/ /\ found = {} \/ Fault("get")
              /\ Respond(r)
    /\ UNCHANGED <<diskVars, owed, crashes>>

RestoreAside(r) ==
    /\ pc[r] = "aside"
    /\ \/ /\ MoveAside(r)
          /\ Goto(r, "publish")
          /\ UNCHANGED <<lock, op, proj, tmp, name, todo>>
       \/ /\ Fault("swap") /\ dir[proj[r]] # NoDir
          /\ Respond(r)
          /\ UNCHANGED <<dir, mount>>
    /\ UNCHANGED <<file, stray, archives, backups, clock, owed, crashes>>

RestorePublish(r) ==
    /\ pc[r] = "publish"
    /\ \/ /\ PublishDir(r)
          /\ owed' = [owed EXCEPT ![proj[r]] = tmp[r]]
       \/ /\ CannotPublish(r)
          /\ RollBack(r)
          /\ UNCHANGED owed
    /\ Respond(r)
    /\ UNCHANGED <<file, archives, backups, clock, crashes>>

-----------------------------------------------------------------------------
(* The service dies and is started again: the disk, the store and the      *)
(* containers stay, nothing in NewServer looks at an unfinished transition. *)

Removing(p) == \E r \in Procs : proj[r] = p /\ pc[r] \in {"remove", "rm"}

MovedAside(p) ==
    {back[r] : r \in {q \in Procs : proj[q] = p /\ back[q] # NoDir}}

Crash ==
    /\ Fault("crash")
    /\ crashes < MaxCrashes
    /\ crashes' = crashes + 1
    /\ dir' \in {d \in [Projects -> Directory] : \A p \in Projects :
                  \/ d[p] = dir[p]
                  \/ /\ Removing(p) /\ dir[p] # NoDir /\ d[p] # NoDir
                     /\ d[p] \subseteq dir[p]}
    /\ stray' = [p \in Projects |-> stray[p] \cup MovedAside(p)]
    /\ lock' = [p \in Projects |-> NoProc]
    /\ pc' = [r \in Procs |-> "idle"]
    /\ op' = [r \in Procs |-> "none"]
    /\ proj' = [r \in Procs |-> Home]
    /\ tmp' = [r \in Procs |-> NoDir]
    /\ name' = [r \in Procs |-> 0]
    /\ back' = [r \in Procs |-> NoDir]
    /\ todo' = {}
    /\ UNCHANGED <<file, archives, backups, clock, mount, owed>>

-----------------------------------------------------------------------------

Archiving(r) ==
    \/ BeginArchive(r) \/ QuiesceArchive(r) \/ WriteTar(r) \/ PutArchive(r)
    \/ RemoveLocal(r) \/ MarkArchived(r) \/ PruneArchives(r)

Restoring(r) ==
    \/ EnsureLocal(r) \/ GetArchive(r) \/ SwapOut(r) \/ SwapIn(r) \/ MarkLocal(r)

Operating(r) ==
    \/ StartContainer(r) \/ RunCommand(r) \/ EnsureWorkspace(r) \/ WriteFile(r)
    \/ StopContainer(r) \/ DeleteWorkspace(r) \/ CloneWorkspace(r)
    \/ DumpBackup(r) \/ PruneBackups(r) \/ ResolveBackup(r) \/ FetchBackup(r)
    \/ RestoreAside(r) \/ RestorePublish(r)

Step(r) == TakeLock(r) \/ Archiving(r) \/ Restoring(r) \/ Operating(r)

Next ==
    \/ \E r \in Requests : Arrive(r)
    \/ \E s \in Sweepers : SweepList(s) \/ SweepNext(s)
    \/ \E p \in Projects : Idle(p)
    \/ \E r \in Procs : Step(r)
    \/ Crash

Spec == Init /\ [][Next]_vars

(* Every call on the disk, the store or the daemon returns or times out,   *)
(* so a handler keeps going; a Go mutex in starvation mode serves waiters  *)
(* in turn.  Nobody has to call the service.                                *)
FairSpec ==
    /\ Spec
    /\ \A r \in Procs : WF_vars(Archiving(r) \/ Restoring(r) \/ Operating(r))
    /\ \A r \in Procs : SF_vars(TakeLock(r))
    /\ \A s \in Sweepers : WF_vars(SweepNext(s))

-----------------------------------------------------------------------------
(* Safety.                                                                  *)

(* The archive that a state file names is in the object store: retention    *)
(* and failed uploads never leave a reference that dangles (pruneArchives   *)
(* after the save in handleProjectArchive and archiveProject).              *)
ArchiveStored ==
    \A p \in Projects : file[p].archive # 0 =>
        \E a \in archives[p] : a.name = file[p].archive

(* Of what a project's clients expect, what archival keeps: every file and  *)
(* directory.  Links it drops with the directory: no copy has them.         *)
Due(p) == Regular(owed[p])

(* While a project is archived or on its way back, the object its state     *)
(* file names holds every file its clients may expect, so that restoring it *)
(* in ensureProjectLocalLocked loses none of them.                          *)
ArchiveComplete ==
    \A p \in Projects : file[p].storage \in {"archived", "restoring"} =>
        \E a \in archives[p] : /\ a.name = file[p].archive
                               /\ a.data # Torn
                               /\ Due(p) \subseteq a.data

Copies(p) ==
    {Made(dir[p])} \cup stray[p] \cup MovedAside(p)
        \cup {a.data : a \in {b \in archives[p] : b.data # Torn}}

(* Whatever fails and wherever the service dies, one copy of every file (a  *)
(* link is none) is left: in the hot directory, in a rollback directory of  *)
(* restoreBackup, or in an archive object.                                  *)
Recoverable == \A p \in Projects : \E c \in Copies(p) : Due(p) \subseteq c

(* An archived project has no hot directory: anything in one would be       *)
(* thrown away by the swap of the next unarchive.                           *)
OneHome == \A p \in Projects : file[p].storage = "archived" => dir[p] = NoDir

(* A container that runs is bound to the directory that is the project: a   *)
(* handler stops it before the directory is moved or removed.               *)
Attached == \A p \in Projects : mount[p] # "stale"

(* A project is archiving or restoring only while a handler that holds its  *)
(* lock is doing just that: no return of the handlers forgets to mark the   *)
(* outcome, so a project is never stuck in a transition.                    *)
TransitionDriven ==
    \A p \in Projects :
        /\ file[p].storage = "archiving" =>
              lock[p] \in Procs /\ pc[lock[p]] \in ArchiveSteps
        /\ file[p].storage = "restoring" =>
              lock[p] \in Procs /\ pc[lock[p]] \in RestoreSteps

LegalMoves ==
    {<<"local", "archiving">>, <<"error", "archiving">>,
     <<"archiving", "archived">>, <<"archiving", "error">>,
     <<"archived", "restoring">>,
     <<"restoring", "local">>, <<"restoring", "error">>}

(* The state file moves along the storage states' diagram and no other way: *)
(* what handleProjectArchive, archiveProject, ensureProjectLocalLocked and  *)
(* markProjectStorageError save from a copy they loaded earlier is never    *)
(* written over a state that somebody else has changed since.               *)
LegalTransition ==
    [][\A p \in Projects :
          file'[p].storage # file[p].storage =>
              <<file[p].storage, file'[p].storage>> \in LegalMoves]_file

-----------------------------------------------------------------------------
(* Liveness.                                                                *)

(* Every request is answered: no handler waits for ever on the lock of its  *)
(* project, whatever the other handlers and the sweeper run into.           *)
Answered == \A r \in Requests : pc[r] # "idle" ~> pc[r] = "idle"

(* A transition ends: archiving in archived or error, restoring in local or *)
(* error.                                                                   *)
TransitionsEnd ==
    \A p \in Projects :
        /\ file[p].storage = "archiving" ~> file[p].storage \in {"archived", "error"}
        /\ file[p].storage = "restoring" ~> file[p].storage \in {"local", "error"}

=============================================================================
