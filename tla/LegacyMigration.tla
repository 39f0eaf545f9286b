---------------------------- MODULE LegacyMigration ----------------------------
(***************************************************************************)
(* Moving a legacy workspace into a project: the leases that a workflow     *)
(* takes on the workspace (internal/app/migration_locks.go), the routes     *)
(* they hold off (server.go), and the import that clears the project,       *)
(* copies the workspace into a staging directory with a pool of workers,    *)
(* and publishes it entry by entry (project_legacy_import.go).              *)
(*                                                                          *)
(* A file's content is the workspace and the version it was written in.     *)
(* The configured legacy root is the one the workspace routes write to.     *)
(* Files are regular files and links, the kinds that are copied; the        *)
(* .gitignore and .git that an import adds or drops are left out, and       *)
(* ensureProjectLocal, which precedes an import, is in ProjectStorage.      *)
(***************************************************************************)
EXTENDS Integers, FiniteSets

CONSTANTS
    Keys,       \* orgId/workspaceId of the legacy workspaces
    Projects,
    Owners,     \* workflows that take leases
    Imports,    \* concurrent requests of the legacy-import route
    Mutators,   \* concurrent requests that change a legacy workspace
    Entries,    \* names at the top of a workspace
    Folders,    \* those that are directories; the others are files
    Files,      \* every file below them that ignoreGlobs leave in
    EntryOf,    \* the top entry of each file
    Versions,   \* bound: contents a client may give a file
    LeaseIds,   \* bound: lease ids given out
    Stamps,     \* bound: names of staging directories (UnixNano)
    Workers,    \* legacyImportCopyConcurrency
    Faults,     \* what the host of a run may do wrong
    MaxCrashes, \* bound: crashes of the service
    None, NoLease, NoKey

FaultKinds == {"ensure", "clear", "stage", "plan", "copy", "git", "rename",
               "crash"}

VARIABLES
    lease,    \* migrationLockStore.locks
    given,    \* ids of the leases each workflow was given on each workspace
    over,     \* ghost: ids of leases that were released, ran out or were lost
    src,      \* the legacy workspaces
    target,   \* the projects' files outside staging directories
    staging,  \* staging directories, in whichever project they are
    change,   \* the workspace each mutator was admitted to
    pc, job,  \* what each import does, and its local variables
    latest,   \* ghost: the import of each project that was asked for last
    crashes

leaseVars == <<lease, given, over>>
treeVars == <<src, target, staging>>
importVars == <<pc, job>>
vars == <<leaseVars, treeVars, change, importVars, latest, crashes>>

-----------------------------------------------------------------------------
(* Types.                                                                   *)

\* "due" once its time is up: the lease is there until somebody prunes.  The
\* ghost "quiet" tells that no mutation was under way when it was taken.
Lease == [id : LeaseIds, owner : Owners, due : BOOLEAN, quiet : BOOLEAN]

Content == {None} \cup (Keys \X Versions)

Tree == [Files -> Content]

Staging == [project : Projects, tree : Tree]

Job == [key : Keys, project : Projects,
        seen : LeaseIds,                      \* ghost: the lease it found
        stamp : Stamps \cup {None},
        list : SUBSET (Entries \cup Stamps),  \* names left of a ReadDir
        plan : SUBSET Files,
        queue : SUBSET Files,                 \* tasks not sent to a worker yet
        hand : SUBSET Files,                  \* tasks the workers have received
        failed : BOOLEAN,                     \* firstErr is set
        done : BOOLEAN]                       \* ghost: answered with success

ASSUME MigrationAssumption ==
    /\ NoKey \notin Keys
    /\ None \notin (Keys \X Versions) \cup Stamps \cup Imports
    /\ None \notin Job /\ None \notin Staging
    /\ NoLease \notin Lease
    /\ Entries \cap Stamps = {}
    /\ Folders \subseteq Entries
    /\ EntryOf \in [Files -> Entries]
    /\ IsFiniteSet(Files)
    /\ Workers \in Nat \ {0}
    /\ Faults \subseteq FaultKinds
    /\ MaxCrashes \in Nat

ImportSteps == {"list", "clear", "stage", "plan", "pool", "git", "read", "publish"}

StagedSteps == {"plan", "pool", "git", "read", "publish"}

LeasesOK ==
    /\ lease \in [Keys -> Lease \cup {NoLease}]
    /\ given \in [Owners -> [Keys -> SUBSET LeaseIds]]
    /\ over \subseteq LeaseIds

TreesOK ==
    /\ src \in [Keys -> Tree]
    /\ target \in [Projects -> Tree]
    /\ staging \in [Stamps -> Staging \cup {None}]

ImportsOK ==
    /\ pc \in [Imports -> {"idle"} \cup ImportSteps]
    /\ job \in [Imports -> Job \cup {None}]
    /\ \A r \in Imports : pc[r] # "idle" => job[r] \in Job
    /\ \A r \in Imports : pc[r] \in StagedSteps => job[r].stamp \in Stamps

(* Every variable stays in its type, and an import past its staging step    *)
(* has a name for the directory.                                            *)
TypeOK ==
    /\ LeasesOK
    /\ TreesOK
    /\ change \in [Mutators -> Keys \cup {NoKey}]
    /\ ImportsOK
    /\ latest \in [Projects -> Imports \cup {None}]
    /\ crashes \in Nat

Empty == [f \in Files |-> None]

Init ==
    /\ lease = [k \in Keys |-> NoLease]
    /\ given = [o \in Owners |-> [k \in Keys |-> {}]]
    /\ over = {}
    /\ \E v \in Versions : src = [k \in Keys |-> [f \in Files |-> <<k, v>>]]
    /\ target \in [Projects ->
                     {Empty} \cup {[f \in Files |-> c] : c \in Keys \X Versions}]
    /\ staging = [s \in Stamps |-> None]
    /\ change = [m \in Mutators |-> NoKey]
    /\ pc = [r \in Imports |-> "idle"]
    /\ job = [r \in Imports |-> None]
    /\ latest = [p \in Projects |-> None]
    /\ crashes = 0

Fault(kind) == kind \in Faults

-----------------------------------------------------------------------------
(* Leases.                                                                  *)

\* What pruneExpiredLocked leaves, before every lookup.
Pruned ==
    [k \in Keys |-> IF lease[k] # NoLease /\ lease[k].due THEN NoLease
                                                          ELSE lease[k]]

Quiet(k) == \A m \in Mutators : change[m] # k

\* A workflow that has the lease is given it again, as it stands.
Acquire(o, k) ==
    /\ \/ /\ Pruned[k] # NoLease
          /\ lease' = Pruned
          /\ given' = IF Pruned[k].owner = o
                      THEN [given EXCEPT ![o][k] = @ \cup {Pruned[k].id}]
                      ELSE given
       \/ /\ Pruned[k] = NoLease
          /\ \E id \in LeaseIds :
                /\ \A q \in Owners, j \in Keys : id \notin given[q][j]
                /\ lease' = [Pruned EXCEPT ![k] = [id |-> id, owner |-> o,
                                due |-> FALSE, quiet |-> Quiet(k)]]
                /\ given' = [given EXCEPT ![o][k] = @ \cup {id}]
    /\ UNCHANGED <<over, treeVars, change, importVars, latest, crashes>>

\* A mutated form of Releases: the id in the request is not compared.
ReleasesAny(k, id) == lease[k] # NoLease

Releases(k, id) == lease[k] # NoLease /\ lease[k].id = id

Release(o, k) ==
    /\ \E id \in given[o][k] :
        /\ lease' = IF Releases(k, id) THEN [lease EXCEPT ![k] = NoLease] ELSE lease
        /\ over' = over \cup {id}
    /\ UNCHANGED <<given, treeVars, change, importVars, latest, crashes>>

\* A GET of the lock, which prunes as every lookup does.  The answer names the
\* lease to anybody; a workflow releases only what Acquire gave it.
Status ==
    /\ lease' = Pruned
    /\ UNCHANGED <<given, over, treeVars, change, importVars, latest, crashes>>

RunOut(k) ==
    /\ lease[k] # NoLease
    /\ ~lease[k].due
    /\ lease' = [lease EXCEPT ![k].due = TRUE]
    /\ over' = over \cup {lease[k].id}
    /\ UNCHANGED <<given, treeVars, change, importVars, latest, crashes>>

-----------------------------------------------------------------------------
(* Mutations of a legacy workspace: the check, and later the change itself. *)

\* A mutated form of MayMutate: a route that isLegacyWorkspaceMutation leaves out.
MayMutateAlways(k) == TRUE

MayMutate(k) == Pruned[k] = NoLease

Admit(m, k) ==
    /\ change[m] = NoKey
    /\ lease' = Pruned
    /\ change' = IF MayMutate(k) THEN [change EXCEPT ![m] = k] ELSE change
    /\ UNCHANGED <<given, over, treeVars, importVars, latest, crashes>>

\* An exec or a file route changes a file, a purge removes them all.
Mutate(m) ==
    /\ change[m] # NoKey
    /\ LET k == change[m]
       IN  \/ \E f \in Files, v \in {None} \cup {<<k, w>> : w \in Versions} :
                 src' = [src EXCEPT ![k][f] = v]
           \/ src' = [src EXCEPT ![k] = Empty]
    /\ UNCHANGED <<leaseVars, target, staging, change, importVars, latest, crashes>>

FinishMutation(m) ==
    /\ change[m] # NoKey
    /\ change' = [change EXCEPT ![m] = NoKey]
    /\ UNCHANGED <<leaseVars, treeVars, importVars, latest, crashes>>

-----------------------------------------------------------------------------
(* The import.                                                              *)

Goto(r, step) == pc' = [pc EXCEPT ![r] = step]

\* The handler returns an error; what it made stays behind.
Fail(r) == Goto(r, "idle") /\ job' = [job EXCEPT ![r] = None]

FilesOf(e) == {f \in Files : EntryOf[f] = e}

Holds(tree, e) == \E f \in FilesOf(e) : tree[f] # None

Without(tree, gone) == [f \in Files |-> IF f \in gone THEN None ELSE tree[f]]

NewJob(k, p) ==
    [key |-> k, project |-> p, seen |-> lease[k].id, stamp |-> None, list |-> {},
     plan |-> {}, queue |-> {}, hand |-> {}, failed |-> FALSE, done |-> FALSE]

(* The one look at the lease.                                               *)
StartImport(r, k, p) ==
    /\ pc[r] = "idle"
    /\ lease' = Pruned
    /\ \/ /\ Pruned[k] = NoLease
          /\ UNCHANGED <<importVars, latest>>
       \/ /\ Pruned[k] # NoLease
          /\ job' = [job EXCEPT ![r] = NewJob(k, p)]
          /\ Goto(r, "list")
          /\ latest' = [latest EXCEPT ![p] = r]
    /\ UNCHANGED <<given, over, treeVars, change, crashes>>

StagedIn(p) == {s \in Stamps : staging[s] # None /\ staging[s].project = p}

\* A mutated form of Residue: names with a leading dot are passed over.
VisibleResidue(p) == {e \in Entries : Holds(target[p], e)}

Residue(p) == {e \in Entries : Holds(target[p], e)} \cup StagedIn(p)

ListTarget(r) ==
    /\ pc[r] = "list"
    /\ \/ /\ job' = [job EXCEPT ![r].list = Residue(job[r].project)]
          /\ Goto(r, "clear")
       \/ Fault("ensure") /\ Fail(r)
    /\ UNCHANGED <<leaseVars, treeVars, change, latest, crashes>>

RemoveEntry(r, e) ==
    LET p == job[r].project
    IN  \/ /\ target' = [target EXCEPT ![p] = Without(@, FilesOf(e))]
           /\ job' = [job EXCEPT ![r].list = @ \ {e}]
           /\ UNCHANGED pc
        \/ /\ Fault("clear")
           /\ \E some \in SUBSET FilesOf(e) :
                 target' = [target EXCEPT ![p] = Without(@, some)]
           /\ Fail(r)

RemoveStaging(r, s) ==
    \/ /\ staging' = [staging EXCEPT ![s] = None]
       /\ job' = [job EXCEPT ![r].list = @ \ {s}]
       /\ UNCHANGED pc
    \/ Fault("clear") /\ Fail(r) /\ UNCHANGED staging

ClearTarget(r) ==
    /\ pc[r] = "clear"
    /\ \/ /\ \E e \in job[r].list \cap Entries : RemoveEntry(r, e)
          /\ UNCHANGED staging
       \/ /\ \E s \in job[r].list \cap Stamps : RemoveStaging(r, s)
          /\ UNCHANGED target
       \/ /\ job[r].list = {}
          /\ Goto(r, "stage")
          /\ UNCHANGED <<job, target, staging>>
    /\ UNCHANGED <<leaseVars, src, change, latest, crashes>>

\* A name no import knows stands for one never used before.
Unknown(s) ==
    /\ staging[s] = None
    /\ \A q \in Imports : job[q] # None => s # job[q].stamp /\ s \notin job[q].list

Made(p) == [project |-> p, tree |-> Empty]

\* A mutated form of NotStaged: the error is dropped.
NotStagedIgnored(r) == Goto(r, "plan") /\ UNCHANGED job

NotStaged(r) == Fail(r)

MakeStaging(r) ==
    /\ pc[r] = "stage"
    /\ \/ \E s \in Stamps :
            /\ Unknown(s)
            /\ staging' = [staging EXCEPT ![s] = Made(job[r].project)]
            /\ \/ job' = [job EXCEPT ![r].stamp = s] /\ Goto(r, "plan")
               \/ Fault("stage") /\ NotStaged(r)
       \/ Fault("stage") /\ NotStaged(r) /\ UNCHANGED staging
    /\ UNCHANGED <<leaseVars, src, target, change, latest, crashes>>

\* What MkdirAll makes of the staging directory of an import: if somebody
\* removed it, it is there again, without what it held.
Remade(r) ==
    LET s == job[r].stamp
    IN  IF staging[s] = None THEN Made(job[r].project) ELSE staging[s]

PlanCopy(r) ==
    /\ pc[r] = "plan"
    /\ LET found == {f \in Files : src[job[r].key][f] # None}
       IN  \/ /\ job' = [job EXCEPT ![r].plan = found, ![r].queue = found]
              /\ staging' = [staging EXCEPT ![job[r].stamp] = Remade(r)]
              /\ Goto(r, "pool")
           \/ /\ found = {} \/ Fault("plan")
              /\ Fail(r)
              /\ UNCHANGED staging
    /\ UNCHANGED <<leaseVars, src, target, change, latest, crashes>>

-----------------------------------------------------------------------------
(* The pool of copy workers, and the handler that feeds it.                 *)

\* A mutated form of Receiving: a worker that sees an error returns.
ReceivingUntilError(r) == ~job[r].failed /\ Cardinality(job[r].hand) < Workers

Receiving(r) == Cardinality(job[r].hand) < Workers

HandTask(r) ==
    /\ pc[r] = "pool"
    /\ Receiving(r)
    /\ \E f \in job[r].queue :
          job' = [job EXCEPT ![r].queue = @ \ {f}, ![r].hand = @ \cup {f}]
    /\ UNCHANGED <<leaseVars, treeVars, change, pc, latest, crashes>>

\* hasErr and the copy are one step: a copy that an error overtakes only adds
\* to what a failed import leaves behind.
CopyTask(r) ==
    /\ pc[r] = "pool"
    /\ \E f \in job[r].hand :
        \/ /\ job[r].failed
           /\ job' = [job EXCEPT ![r].hand = @ \ {f}]
           /\ UNCHANGED staging
        \/ /\ ~job[r].failed
           /\ src[job[r].key][f] # None
           /\ staging' = [staging EXCEPT ![job[r].stamp] =
                 [Remade(r) EXCEPT !.tree[f] = src[job[r].key][f]]]
           /\ job' = [job EXCEPT ![r].hand = @ \ {f}]
        \/ /\ ~job[r].failed
           /\ src[job[r].key][f] = None \/ Fault("copy")
           /\ job' = [job EXCEPT ![r].hand = @ \ {f}, ![r].failed = TRUE]
           /\ UNCHANGED staging
    /\ UNCHANGED <<leaseVars, src, target, change, pc, latest, crashes>>

FinishPool(r) ==
    /\ pc[r] = "pool"
    /\ job[r].queue = {}
    /\ job[r].hand = {}
    /\ IF job[r].failed THEN Fail(r) ELSE Goto(r, "git") /\ UNCHANGED job
    /\ UNCHANGED <<leaseVars, treeVars, change, latest, crashes>>

-----------------------------------------------------------------------------
(* Publishing what was staged.                                              *)

Staged(r) == staging[job[r].stamp] # None

ConfigureGit(r) ==
    /\ pc[r] = "git"
    /\ \/ Staged(r) /\ Goto(r, "read") /\ UNCHANGED job
       \/ (~Staged(r) \/ Fault("git")) /\ Fail(r)
    /\ UNCHANGED <<leaseVars, treeVars, change, latest, crashes>>

ReadStaging(r) ==
    /\ pc[r] = "read"
    /\ \/ /\ Staged(r)
          /\ job' = [job EXCEPT ![r].list =
                {e \in Entries : Holds(staging[job[r].stamp].tree, e)}]
          /\ Goto(r, "publish")
       \/ ~Staged(r) /\ Fail(r)
    /\ UNCHANGED <<leaseVars, treeVars, change, latest, crashes>>

\* A directory is not renamed over one with files in it.
Movable(r, e) ==
    /\ Staged(r)
    /\ Holds(staging[job[r].stamp].tree, e)
    /\ e \in Folders => ~Holds(target[job[r].project], e)

Rename(r, e) ==
    LET p == job[r].project
        s == job[r].stamp
    IN  /\ target' = [target EXCEPT ![p] =
              [f \in Files |-> IF f \in FilesOf(e) THEN staging[s].tree[f] ELSE @[f]]]
        /\ staging' = [staging EXCEPT ![s].tree = Without(@, FilesOf(e))]
        /\ job' = [job EXCEPT ![r].list = @ \ {e}]
        /\ UNCHANGED pc

PublishEntry(r) ==
    /\ pc[r] = "publish"
    /\ \E e \in job[r].list :
        \/ Movable(r, e) /\ Rename(r, e)
        \/ (~Movable(r, e) \/ Fault("rename")) /\ Fail(r) /\ UNCHANGED <<target, staging>>
    /\ UNCHANGED <<leaseVars, src, change, latest, crashes>>

RemoveStagingRoot(r) ==
    /\ pc[r] = "publish"
    /\ job[r].list = {}
    /\ LET s == job[r].stamp
           removable == Staged(r) /\ staging[s].tree = Empty
       IN  \/ /\ removable
              /\ staging' = [staging EXCEPT ![s] = None]
              /\ job' = [job EXCEPT ![r].stamp = None, ![r].done = TRUE]
              /\ Goto(r, "idle")
           \/ /\ ~removable
              /\ Fail(r)
              /\ UNCHANGED staging
    /\ UNCHANGED <<leaseVars, src, target, change, latest, crashes>>

-----------------------------------------------------------------------------

(* The service dies and is started again: leases were in memory only, the   *)
(* disk stays as it is.                                                     *)
Crash ==
    /\ Fault("crash")
    /\ crashes < MaxCrashes
    /\ crashes' = crashes + 1
    /\ over' = over \cup UNION {given[o][k] : o \in Owners, k \in Keys}
    /\ lease' = [k \in Keys |-> NoLease]
    /\ change' = [m \in Mutators |-> NoKey]
    /\ pc' = [r \in Imports |-> "idle"]
    /\ job' = [r \in Imports |->
                 IF job[r] # None /\ job[r].done THEN job[r] ELSE None]
    /\ UNCHANGED <<given, treeVars, latest>>

Leasing ==
    \/ \E o \in Owners, k \in Keys : Acquire(o, k) \/ Release(o, k)
    \/ \E k \in Keys : RunOut(k)
    \/ Status

Mutating ==
    \E m \in Mutators :
        \/ \E k \in Keys : Admit(m, k)
        \/ Mutate(m)
        \/ FinishMutation(m)

Importing(r) ==
    \/ ListTarget(r) \/ ClearTarget(r) \/ MakeStaging(r) \/ PlanCopy(r)
    \/ HandTask(r) \/ CopyTask(r) \/ FinishPool(r)
    \/ ConfigureGit(r) \/ ReadStaging(r) \/ PublishEntry(r) \/ RemoveStagingRoot(r)

Next ==
    \/ Leasing
    \/ Mutating
    \/ \E r \in Imports, k \in Keys, p \in Projects : StartImport(r, k, p)
    \/ \E r \in Imports : Importing(r)
    \/ Crash

Spec == Init /\ [][Next]_vars

(* The host's calls return, so an import goes on; nobody has to ask for one. *)
FairSpec == Spec /\ \A r \in Imports : WF_vars(Importing(r))

-----------------------------------------------------------------------------
(* Properties.                                                              *)

\* The last import that was asked for of its project, and its answer: success.
Done(r) == job[r] # None /\ job[r].done /\ latest[job[r].project] = r

(* A lease that a workflow was given is its own until the workflow releases *)
(* it, its time is up or the service dies: no other workflow is given it,   *)
(* and no late release of another lease takes it away (migrationLockStore). *)
LeaseHonoured ==
    \A o \in Owners, k \in Keys : \A id \in given[o][k] \ over :
        lease[k] # NoLease /\ lease[k].id = id /\ lease[k].owner = o

(* An import that answers with success has left in the project what it      *)
(* planned, and nothing else: neither earlier files nor what earlier        *)
(* imports left in staging (handleProjectLegacyImport).                     *)
ImportReplaces ==
    \A r \in Imports : Done(r) =>
        /\ {f \in Files : target[job[r].project][f] # None} = job[r].plan
        /\ StagedIn(job[r].project) = {}

(* Every file that an import planned and reported as copied is in the       *)
(* project, until somebody asks for another import of it: an earlier one    *)
(* that still runs takes nothing away (clearLegacyImportTarget).            *)
ImportWhole ==
    \A r \in Imports : Done(r) =>
        \A f \in job[r].plan : target[job[r].project][f] # None

(* While the lease that an import found is still in force, the project is   *)
(* the workspace, file by file: the copy is of one moment, if no mutation   *)
(* was under way when the lease was taken                                   *)
(* (rejectLockedLegacyWorkspaceMutation).                                   *)
Snapshot ==
    \A r \in Imports : Done(r) =>
        LET k == job[r].key
            held == lease[k] # NoLease /\ lease[k].id = job[r].seen
        IN  held /\ lease[k].quiet /\ ~lease[k].due
                => target[job[r].project] = src[k]

(* Every import is answered: the handler is never left waiting for a worker *)
(* to take a task (copyLegacyImportTasks).                                  *)
Answered == \A r \in Imports : pc[r] # "idle" ~> pc[r] = "idle"

=============================================================================
