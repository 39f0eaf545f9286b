# Verification of project-runtime-service

The service in `src/` runs on one host and gives every *project* a directory, a
Docker container bound to it, backups and cold archives in an S3-compatible store,
and HTTP routes for all of these.  It is written in Go: each HTTP request is served
by a goroutine of its own, and a few background goroutines (the archive sweeper, one
timer per container) work beside them.  What runs *in* a container is in the repository
too: two command-line tools that make and publish apps, and the starter app itself, a
chat on Cloudflare workers, in JavaScript and TypeScript.  The modules here model the
parts of both where the order of steps matters, TLC checks them on small instances, and
TLAPS proves some of the results for every value of the constants.

Contents

1. [The system](#1-the-system): components, state, interactions, what is hard
2. [Modules](#2-modules): how each one corresponds to the code
3. [Properties](#3-properties)
4. [Runs](#4-runs): what each run checks, its bounds, and why they are enough
5. [Fairness](#5-fairness)
6. [What the runs found](#6-what-the-runs-found)
7. [Proofs](#7-proofs)
8. [What is only model-checked, and what is not modelled](#8-what-is-only-model-checked-and-what-is-not-modelled)
9. [Plan](#9-plan)
10. [How to run it](#10-how-to-run-it)

## 1. The system

| Component | Source (under `src/internal`, the last five under `src/sandbox`) | State | Operations | Here |
| --- | --- | --- | --- | --- |
| Project storage | `app/project_archive.go`, `app/project_storage_state.go` | one JSON state file per project (storage state, archive key, last activity), one mutex per project | archive, unarchive, `ensureProjectLocal`, activity marks, retention, sweeper | `ProjectStorage` |
| Backups | `app/backups.go`, `app/object_store.go` | backup objects, temporary files, rollback directories | create, rotate, list, restore | `ProjectStorage` (directory driver), `ZfsProjects` |
| Project routes | `app/project_routes.go`, `app/server.go` | none of their own | exec, fs, clone, delete, terminate, ... | the `RouteOps` of both modules |
| Container manager | `container/manager.go` | records, address index, idle timers, flights, in-flight counts; the daemon's containers | ensure, touch, exec, terminate, idle expiry, lookup by address, discovery | `ContainerManager` |
| R2 mount credentials | `container/r2_mount.go` | one directory per container that mounts a bucket | prepare, clean up | `ContainerManager` (their lifetime) |
| Workspaces, quotas | `workspace/workspace.go` | directories; `projid` and `projects` maps of the quota system | ensure, delete, clone, set quota | directory steps in `ProjectStorage`, locks and known mounts in `ZfsProjects` |
| ZFS driver | `workspace/zfs.go` | datasets, snapshots | ensure, destroy, clone, send, receive, publish swap | `ZfsProjects` |
| Host file operations | `fsops/fs.go` | none | read, write, list, ... | the write, in `ProjectStorage` |
| Migration leases, legacy import | `app/migration_locks.go`, `app/project_legacy_import.go` | leases in memory; a staging directory | acquire, look up, release, expire; clear, copy, publish | `LegacyMigration` |
| Usage store | `state/usage_store.go` | one SQLite ledger per organisation, one analytics database | record, set limits, check limits, summarise, rebuild | planned |
| Data proxy | `app/data_proxy*.go` | a table of SSH tunnels | query, tunnel ensure and clean-up | the table: planned |
| Transcript readers | `app/pi_session_*.go`, `app/codex_*.go`, `app/chat_jsonl_parser.go` | none | parse and convert transcripts | no (formats) |
| Server, configuration, proxies | `app/server.go`, `app/config.go`, `app/proxy_capabilities.go`, `app/auth.go` | configuration | routing, header rewriting | no (wiring) |
| Starter chat | `create-worker/templates/starter`: `app/routes/chat.tsx`, `workers/app.ts`, `workers/chat.ts`, `workers/chat-sessions.ts` | an owner cookie per browser, a table of sessions per owner, the messages of each session, what each tab shows | open, new, delete, title, say, answer, clear | `ChatSessions`, `Conversations` |
| create-worker | `create-worker/create-worker.mjs` | a project directory | parse, validate, copy, fetch a preset, style, rename bindings | `Scaffold` |
| publish | `create-worker/publish.mjs` | a directory, a deployed worker | parse, write, copy, deploy | `Scaffold` |
| Local services | `workers/data-proxy.ts`, `workers/connections.ts`, `app/lib/connections.ts`, `workers/camelai-service.ts`, `workers/camelai-ai.ts` of the template | none beyond a call | a query with a limit and a time-out, a call of a connection, an image | `LocalServices` |
| Image, components, scripts | the rest of `src/sandbox/`, `src/scripts/` | - | - | no |

**How the components interact.**  A route first calls `ensureProjectLocal`, which takes
the project's mutex, restores an archive if there is one, and *drops the mutex again*.
Only then does the route use the project: it asks the container manager for a container
(which makes the directory if it is missing, through the workspace manager), or it
writes a file on the host.  The archive routes hold the mutex from the first state save
to the last, stop the container, make a tarball, upload it, delete the directory and
save the new state.  `restore` and `clone` look at neither the mutex nor the state file.
The container manager learns of its containers from the daemon; a container that ends
tells nobody, and its address may be given to the next one.

In a container somebody runs `create-worker`, which copies the starter into a directory and
adapts it file by file, or `publish`, which wraps a file in a static worker and deploys
it.  Both work in the current directory without any lock.  The dev server of a created project
reaches its three services through bindings to *its own* worker, which `create-worker` has to
rename.  Its chat page is a loader that finds or makes a session, an action that deletes and
titles sessions through one fetcher per tab, and two kinds of durable object: one per owner
with the list of sessions, one per session with its messages.  Nothing joins the two: deleting
a conversation is a call of each.

**What is hard.**

* *Interleaving.*  Every call of the disk, the store or the daemon is a point where any
  other request may run.  Checks made under a mutex are used after it was released.
* *Partial failure.*  Each handler is a chain of about eight calls, any of which can
  fail, and what it leaves behind is what the next request starts from.
* *Crash and restart.*  State files, directories, objects and containers survive the
  service; leases, records, timers and mutexes do not.
* *Stale data.*  The sweeper works from a list; the address index and the records are
  caches of the daemon's state.
* *Liveness.*  Waiters on a flight's channel or a project's mutex depend on every
  error path of somebody else; a tab depends on redirects that come to an end.
* *Order of delivery.*  A browser sends a request with the cookie of that moment, abandons it,
  or supersedes it; the worker may handle it, or half of it, later.

`PROJECT.json` lists these hazards one by one, each at its line of the source.

**What makes each component correct.**

* Storage: one complete copy of a project's files exists at all times; a state file that
  names an archive names a complete one (of links neither is true: section 6); the storage state follows the diagram of
  `src/README.md`; a project never stays in a transition; every request is answered.
* Containers: at most one request starts a container for a name; an address is never
  resolved to a project that lost it; counts of in-flight requests are neither too high
  (the container would never idle) nor below zero; no flight strands its waiters; unused
  containers stop; credentials do not outlive their container.
* Workspaces: a publish swap leaves the old or the new tree under the project's name, and
  nothing under any other; requests that lock two names do not deadlock; two workspaces never
  share a quota project.
* Migration: an import reads a workspace that nobody changes and publishes all of it or
  reports an error; a lease has one owner.
* Usage: what the analytics index says follows from the ledgers.
* Tunnels: one tunnel per destination, none closed while a query uses it, none leaked.
* Chat: a conversation belongs to the owner it was made for, and nobody else lists it, sees it or
  talks in it; a deleted one keeps nothing; reopening one asks for no title; every tab that
  waits gets a page.
* create-worker and publish: what the user is told to run, and what is live, is whole and its own,
  whatever runs failed or were killed before.
* Local services: an app reaches its own; data is given for a whole body only; no body beyond the
  limit is kept; a query ends although its service stalls; the image shown is the first one.

## 2. Modules

```
ProjectStorage <--- MCProjectStorage         (runs)
       ^----------- ProjectStorageProofs     (theorems)
ContainerManager <- MCContainerManager       (runs)
       ^----------- ContainerManagerProofs   (theorems)
LegacyMigration <-- MCLegacyMigration        (runs)
       ^----------- LegacyMigrationProofs    (theorems)
ZfsProjects <------ MCZfsProjects            (runs)
       ^----------- ZfsProjectsProofs        (theorems: types, locks, names of restores)
                         ^-- ZfsRestoreProofs    (theorems: what a project contains)
Conversations       what a chat promises
       ^ INSTANCE
ChatSessions <----- MCChatSessions           (runs)
       ^----------- ChatSessionsProofs       (theorems, the refinement among them)
Scaffold <--------- LocalServices <- MCLocalServices   (runs)
       ^----------- ScaffoldProofs           (theorems)
                         ^-- LocalServicesProofs (theorems; extends LocalServices too)
```

An `MC` module extends its component with the sets of routes and faults of its runs; the
other constants are in the `.cfg` files.  Each proof module extends its component and
`TLAPS`.

### ProjectStorage

The directory driver's project: `file` is the state file, `dir` the project's directory
(or `NoDir`), `archives` and `backups` the objects, `stray` the contents of rollback
directories that nobody will put back, `mount` the container's relation to the
directory, `lock` the holder of `projectStates.lock`.  Each process has a program counter
`pc` and the local variables of its handler (`tmp`, `name`, `back`, `todo`).

The content of a directory, a tarball or a backup is the *set of writes it contains*, or
`Torn` for a tarball that is cut off.  Some writes (`Links`) make a symbolic link, as an install
in a container does in `node_modules/.bin`: `writeTarGz` writes for it a header without the target,
of which `extractTarGz` makes nothing, so what a tarball holds is the `Regular` part of the
directory (`Tarballs`, `Tree`), on both routes that make tarballs, archive and backup.  A
clone (`cp -a`) keeps links.  `owed` is a ghost: the writes a client may expect
to find.  It grows when a write is answered, and is set anew by what replaces the
project's content on purpose (delete, restore, a clone's target).

| Code | Actions |
| --- | --- |
| `handleProjectRoute` | `Arrive`, then the first step of the route |
| `projectStates.lock` | `TakeLock`; released by the helper that answers |
| `handleProjectArchive`, `archiveProject` | `BeginArchive`, `QuiesceArchive`, `WriteTar`, `PutArchive`, `RemoveLocal`, `MarkArchived`, `PruneArchives` |
| `ensureProjectLocalLocked` | `EnsureLocal`, `GetArchive`, `SwapOut`, `SwapIn`, `MarkLocal` |
| `markProjectStorageError` | `MarkError`, in each failing alternative |
| `archiveInactiveProjects` | `SweepList`, `SweepNext`, then the archive's actions |
| exec, fs, terminate, delete, clone | `StartContainer`, `RunCommand`, `EnsureWorkspace`, `WriteFile`, `StopContainer`, `DeleteWorkspace`, `CloneWorkspace` |
| `createProjectBackup`, `restoreBackup` | `DumpBackup`, `PruneBackups`, `ResolveBackup`, `FetchBackup`, `RestoreAside`, `RestorePublish` |
| the process dies | `Crash`: processes and mutexes vanish, a removal that ran may be half done, what was moved aside stays where it is |
| time passes | `Idle`: the last activity becomes older than `ArchiveAfter` |

A *fault* is a call that fails where the handler has a path for it.  The constant
`Faults` names those that a run's environment may produce, so that the assumptions of a
property are visible: `"putlost"` is an upload that the store kept although it answered
with an error, `"torn"` a tarball cut off by a full disk, `"tie"` a store whose
`LastModified` cannot order two uploads.

Bounds, all in the guards: `MaxNames` (archive and backup names per project),
`MaxCrashes`, and `Named` (the projects that requests name).

### ContainerManager

`cont` and `creds` are the world outside: the daemon's container of each name and the
names with a credentials directory.  `rec`, `index`, `timer`, `flight` and `pending` are
the fields of `Manager`.  One step is one critical section of `Manager.mu` or one call of
the daemon: `job` carries the local variables from one to the next.

| Code | Actions |
| --- | --- |
| `TouchContainer`, `AddInFlightRequest`, `RemoveInFlightRequest` | actions of the same names |
| `EnsureContainer` | `EnsureContainer` (find a flight or start one), `Land`, and the waiters it wakes |
| `ensureContainerUnlocked` | `Cached`, `InspectCached`, `CacheHit`, `Evict`, `DropStale`, `InspectExisting`, `Adopt`, `Clear`, `Prepare`, `CreateContainer`, `StartContainer`, `ReadAddress`, `RecordContainer` |
| `expireIdleContainer` and its timer | `Fire`, `ExpireIdle`, then the terminate steps |
| `TerminateContainer` | `StopContainer`, `ForceRemove`, `CleanCredentials`, `ProbeStopped`, `ForgetContainer` |
| `ResolveContainerBySourceIP` | `CallProxy`, `LookUp`, `Scan`, `Reindex`, `CopyFound` |
| `discoverRunningContainers` | `Restart` |
| a container's process ends | `Die` |

The image configured in the service is a generation number: a restart may bring a new one,
after which records and containers of the old one are stale.

Bounds: `MaxRestarts`, and the number of `Janitors` (timer goroutines at work at once).
`GetContainer` has no caller and is left out; the commands of one `Exec` are one step.

### LegacyMigration

A workflow takes a lease on a legacy workspace, asks for an import of it into a project, and
releases the lease.  `lease` is `migrationLockStore.locks`, `given` the ids each workflow was
told; `src` and `target` are the files of workspaces and projects, `staging` the hidden
directories next to the latter.  A file's content is the workspace and version it was written
in.  `over` (leases that ended), `latest` (the import of a project that was asked for last)
and the fields `quiet`, `seen` and `done` are ghosts that only properties read.

| Code | Actions |
| --- | --- |
| `acquire`, `release`, `get` | `Acquire`, `Release`, `Status`; a lease whose time is up stays until the next lookup (`RunOut`, `Pruned`) |
| `rejectLockedLegacyWorkspaceMutation` and the routes behind it | `Admit`, `Mutate`, `FinishMutation` |
| `handleProjectLegacyImport` | `StartImport`, `ListTarget`, `ClearTarget` (one entry a step), `MakeStaging`, `PlanCopy` |
| `copyLegacyImportTasks`, `copyLegacyImportFile` | `HandTask`, `CopyTask`, `FinishPool` |
| `configureImportedGitRepository` | `ConfigureGit` (its failure; what it writes is left out) |
| `publishLegacyImportStagingRoot` | `ReadStaging`, `PublishEntry` (one rename a step), `RemoveStagingRoot` |
| the process dies | `Crash`: leases and requests vanish, directories stay |

The module takes the configured legacy root and prefix to name the very directories that the
workspace routes write to (the defaults of the two differ: an operator sets them), and leaves
out clients of the project while it is imported.  Two things change a legacy workspace without
passing the lease: background processes left in its container, and commands that outlive a
crash of the service.  `Snapshot` says nothing about either.

Bounds: `LeaseIds`, `Versions`, `Stamps` (a name that no import knows any more stands for a new
one) and `MaxCrashes`.

### ZfsProjects

The other driver: a project is a dataset under the project's name.  `ds` maps a name to its
dataset (content, snapshots, the snapshot it was cloned from, where it is mounted) or to `NoDs`;
a name is a project or one of the *asides* that a restore makes up,
`<project>-restore-<ns>` and `<project>-rollback-<ns>`.  `dirs` are the paths that exist,
`known` is `Manager.mounts`, `held` the per-name locks.  `pc` and `job` are each request's step
and local variables.  A step is one `zfs` command, or one look at the disk; other requests come
between any two.

`owed` is a ghost, what a project contains for its clients: it is set when a restore or a clone
can no longer fail, and forgotten when the project is deleted.  `lost` is the other one: names
whose undo failed, which the code logs or drops and nobody looks for again.

| Code | Actions |
| --- | --- |
| `Ensure`, `ensureZFSDataset` | `AskEnsure`, `EnsureCached`, `EnsureDataset`, `EnsureFails`, `EnsureMounted` |
| `Delete`, `destroyZFSDataset` | `AskDelete`, `FindDataset`, `DestroyDataset`, `DestroyOrigin`, `RemovePath` |
| `CloneZFS` | `AskClone`, `CheckClone`, `SnapshotSource`, `CloneDataset`, `FinishClone`; its defers: `UndoClone`, `UndoSnapshot`, `UndoPath` |
| `WriteZFSBackup` | `AskBackup`, `DumpSnapshot`, `StartSend`, `FinishSend`, `DropDump` |
| `RestoreZFSBackup`, `ReplaceWithDirectory` | `AskRestore`, then `Receive`, or `PrepareTemp` and `CopyInto`; both go on with `LookTarget`, `MoveAside`, `Publish`, `Remount`, `Mount`, `DropAside`; their undo steps and defers: `Unpublish`, `PutBack`, `CleanUp` |
| `ensureLock` | `TakeLock`, one lock a step; `Answer` releases |
| the service dies | `Crash`: requests, locks and `Manager.mounts` vanish, datasets stay |

Left out: clients that write to a project (what a request does to their writes is in
`ProjectStorage`), quotas and other properties of a dataset, the snapshot that a received stream
brings along, and who is told of an error.  `zfs list` and `zfs create` of `ensureZFSDataset` are
one step.  Of several datasets mounted at one path the project's own is on top.  That
`Manager.mounts` may still name a project whose dataset a failed restore withdrew is in the model
but no property: the next `Ensure` trusts it only if the directory is there.

Bounds: `Asides`, `Snaps` (names in use at a time; a name that nothing has any more stands for a
new one) and `MaxCrashes`.  `Named` says which projects the routes of a run name, and
`Exclusive` whether clients ask for one replacement of a project at a time (section 4).

### Conversations and ChatSessions

`Conversations` is what a user of the chat relies on, in four variables: who owns a conversation
(`by`), whose list it is in (`listed`), on whose page it is (`viewed`) and what was said in it.
Its actions say that only an owner looks at a conversation, that what a user says in it is said by
somebody who looks at it, that its messages go when it is out of every list or at the wish of somebody
who looks at it, and that an owner never changes.

`ChatSessions` is the program.  `rows` are the tables of the owners' `ChatSessionsDO`, `chat` the
messages of each session's `Chat`, `answering` the answers that are being written.  `browser` and
`cookie` say which browser a tab is of and which `chat-owner` it has; `page` is what a tab shows,
with the loader's data and the two hooks of `ChatClient` that matter (`first`, the count the
session was opened with, and `titleSet`); `nav` is the request a tab waits for, `late` the owners
for whom an abandoned one may still be handled, `acts` the requests of fetchers, each at its next
step.  `madeBy`, `heard` and `left` are histories: no guard reads them but `madeBy`, to pick an id that
is fresh, as `crypto.randomUUID` does, or one that a user can have a link to.

| Code | Actions |
| --- | --- |
| the router: a link, a bookmark, "New Chat" | `navigate`; `Goes` sends the request and abandons the one before |
| `fetch` of `workers/app.ts` | `OwnerOf`, in each loader action: a request without a cookie gets an owner, its answer the cookie |
| `loader` | `LoaderNew` (`ensureSession`), `LoaderShow`, `LoaderTurnAway`; `LateLoader` for a request nobody waits for |
| `handleDeleteSession`, `handleTitleUpdate` | `handleDeleteSession`, `Submits`: the one fetcher of a tab supersedes what it had under way |
| `action` | `ActDelete`, then `ActWipe` if a row went; `ActTitle`; `Replies` runs the loader again; `ActLost` at any step |
| the title effect of `ChatClient` | `Titles`, in `onSubmit` and in `Sync`, which is what a tab hears from others |
| `onSubmit`, `clearHistory`; `onChatMessage` of `Chat` | `onSubmit`, `clearHistory`; `onFinish` |

`C == INSTANCE Conversations WITH` maps `by` to `madeBy`, `listed` to the rows of all tables,
`viewed` to the pages that are shown with the owner they were loaded for, and `said` to `chat`.
Every step of the program is a step of `Conversations` or leaves these four alone.

Left out: texts of titles and messages, the order of the list, parts of messages that are streamed,
and what `useAgentChat` does on a broken socket beyond losing a message.

Bounds: `MaxMsgs` per conversation, `MaxClicks` (things users do), `MaxActs` (requests of fetchers
under way), and the sets of owners and sessions.

### Scaffold and LocalServices

`dir` is what a directory holds: whether the template was copied, `wrangler.jsonc`, the options in
`app.css` and in `components.json`, the static worker, the file the viewer opens and the published
files with their versions.  `live` is what was deployed under a name, `version` the content of the files a user
edits.  `run` is each run of a tool at its next write, with its arguments; `ready` are the names
whose last command told the user what to run next.  `mixed` is a history: the names that two runs,
or a run and a deploy by hand, worked on at once, and those that a directory left so was deployed
as (`Mixing`: one that still has the template's name is deployed as `starter`).

| Code | Actions |
| --- | --- |
| `parseArgs` of both tools, `validateOptions`, `main` | `CreateArgs`, `PublishArgs`, `validateOptions`, `Creates`, `Publishes` |
| `createProject` | `Create` (no such directory yet), `CopyTemplate`, `FetchPreset`, `WriteCss`, `WriteComponents`, `Configure` (`wrangler.jsonc`), `Install` (`package.json`, which no property reads, and `bun install`, whose failure is a warning) |
| `publish`, `copyRendererBundle` | `Publish`, `WriteConfig`, `WriteWorker`, `CopyBundle`, `WriteIndex`, `CopyFile`, `Deploy` |
| the user | `DeployByHand`, `Edit`, `Kill` |

A run may be killed between any two writes and fail at the copy, the fetch and the deploy.  Theme and
base color stand for all seven style options; the others are checked and written the same way.

`LocalServices` extends `Scaffold` with the dev server of a project the tools have finished
(`dev`) and the last call of its app (`call`): the bindings that `Configure` renamed decide whether
a call arrives.  `CAMELAI` keeps the template's name, so that `generateImage` reaches its service
only in a project that is itself called `starter`; such a one is in the run for that reason.

| Code | Actions |
| --- | --- |
| `request`, `readTextWithLimit`, `readJson` of `data-proxy.ts` | `SqlQuery`, `SqlNowhere`, `Respond`, `Chunk`, `EndOfBody`, `Broken`, `Timeout`, `Aborted` |
| `createConnections`, `request` of `connections.ts` | `Connect`, `ConnectNowhere`, `Connected` |
| `generateImage` and the functions it calls | `GenerateImage`, with `Images` for the order of the list |

The services behind answer, stall or break off, and declare a length that need not be that of the
body.  A length is counted in chunks.

Bounds: `MaxRuns`, `MaxEdits`, `MaxBody`, and `DefaultMax` in chunks.

## 3. Properties

| Property | Kind | What it says |
| --- | --- | --- |
| `ArchiveComplete` | invariant | while a project is archived or being restored, the object its state file names is whole and holds every file that is owed (`Due`: all but links) |
| `ArchiveStored` | invariant | an archive that a state file names is in the store |
| `Recoverable` | invariant | some single copy (directory, rollback directory, archive) holds every file that is owed |
| `OneHome` | invariant | an archived project has no directory |
| `Attached` | invariant | no running container is bound to a directory that is no longer the project's |
| `TransitionDriven` | invariant | `archiving` and `restoring` are only seen while the holder of the lock is at it |
| `LegalTransition` | action | the state file moves along the documented diagram |
| `Answered`, `TransitionsEnd` | liveness | requests are answered; transitions end |
| `NameFree` | invariant | when a flight creates a container, its name is free |
| `IndexSound` | invariant | an index entry leads to a record of that very address |
| `InFlightBacked` | invariant | a record counts no request that is over |
| `CredentialsOwned` | invariant | credentials without a container are about to be used or removed |
| `Watched` | invariant | a record has an armed idle timer, or somebody is about to remove it |
| `Answered`, `IdleEnds` | liveness | no waiter is stranded; unused containers stop |
| `LeaseHonoured` | invariant | a lease that a workflow was given is its own until it is released, runs out or is lost in a crash |
| `ImportReplaces` | invariant | an import that answers with success left what it planned, and nothing of what was there |
| `Snapshot` | invariant | while the lease an import found is in force, the project is the workspace, if no mutation was under way when the lease was taken |
| `ImportWhole` | invariant | files reported as imported are there until somebody asks for another import |
| `Answered` | liveness | an import is answered: its handler is never left sending to workers that are gone |
| `Kept` | invariant | what a project's clients are owed is whole in some dataset, under the project's name or an aside |
| `RestorePutsBack` | invariant | outside of a restore's swap it is under the project's own name, unless an undo failed or the service died in the swap |
| `AsidesAccounted` | invariant | a dataset under an aside belongs to a restore that runs, or a command or the service failed |
| `NoCircle` | invariant | requests that lock two names do not wait for one another in a circle |
| `FailedRestoreHarmless` | invariant | `RestorePutsBack` without its excuses |
| `Conversation` | refinement | the chat implements `Conversations` |
| `Removed` | invariant | a conversation that is in no list has no messages, but for a wipe that failed and what was said after the row went |
| `TitleEarned` | action | a title is asked for only if something was said since the tab opened the session |
| `Settles` | liveness | a tab that waits gets a page, however loaders, deletions and redirects meet |
| `AppWhole` | invariant | an app that may be run, or is live, was copied to the end, is styled as one valid command line asked, and has its own name on itself and on `DATA_PROXY` and `CONNECTIONS` (not on `CAMELAI`: section 6) |
| `PublishedWhole` | invariant | a live viewer has its worker and opens a file that is live with it and at least as new as its publish |
| `AnswerSound` | invariant | a query's data is of a whole body of a good answer, and never more than the limit is kept, whatever was declared |
| `FirstShown` | invariant | if an image of an answer has a url, the first of the list has one and none with a url has a lower index |
| `SqlAnswered` | liveness | a query ends, also if its service stops in the middle of a body |

Each module of a component has one type invariant, `TypeOK`, at most.  A run checks it where it has some
content.  In `ProjectStorage` a project's directory is never a part of a torn tarball, on any route
that restores; in `ContainerManager` in-flight counts stay in `Nat`, and a process always has the name
and the address its next step works on; in `LegacyMigration` an import past `MakeStaging` has a
directory of its own; in `ChatSessions` a tab waits for one request of its fetcher at
most; in `LocalServices` a query's timer is off exactly when the query has ended.  That of
`ZfsProjects` only says what the proofs start from and is proved there (section 7).

Every property of a passing run has a *mutant* in `PROJECT.json`: a definition of the model
changed as a plausible slip of the code would change it (retention that keeps the oldest,
an error path that forgets to mark the state or to unlock, a timer that is not set again, a
decrement that is lost), under which TLC finds that property violated.
The mutants are operators defined above the definition they would replace.

## 4. Runs

| Run | Question | Distinct states |
| --- | --- | --- |
| `archive_race` | two clients that archive, unarchive and stop one project, beside the sweeper, with nearly every call failing | 41 thousand, with liveness |
| `serial_crash` | one client that waits for answers; two crashes at any point; state files that are not saved | 1.3 million |
| `all_routes` | all nine routes beside the sweeper, two projects, six kinds of faults | 2.0 million |
| `write_during_archive` | does archiving move the whole project? (no: section 6) | counterexample |
| `container_idle` | one name, two requests (exec, health check, terminate, a caller of the proxy port) and a timer goroutine, the daemon failing | 160 thousand, with liveness |
| `container_restart` | two names and two addresses that are taken again, two requests (exec, chat, terminate, a caller of the proxy port), every failure, a restart with another image | 884 thousand, up to symmetry |
| `migration` | two workflows that contend for one lease, a client of the workspace, one import at a time, every call failing, a crash | 143 thousand, with liveness |
| `import_retry` | does the retry of an import that still runs copy everything? (no: section 6) | counterexample |
| `zfs_routes` | all routes on a project and one that it is cloned to or from, two requests at once, commands failing, a crash | 929 thousand, up to symmetry |
| `zfs_restore` | can a failed restore never leave a valid project empty? (no: section 6) | counterexample |
| `chat` | two tabs of one browser or of two, requests abandoned, superseded, lost and handled late | 373 thousand, with liveness and refinement |
| `starter` | two runs of create-worker or publish on one name, or of create-worker on the template's, killed and failing, then the app and its calls | 1.5 million, with liveness |

**Why these bounds.**  The state of a project is touched by no handler of another project
except `clone`, and the mutex, the state file and the objects are per project; so one
project shows the races, and a second one is there for the clone (`all_routes`).  A race on
one project needs a holder, somebody who comes after it, and a third party that acts from
old data: two requests and the sweeper.  Archive retention of one is the hardest case (any
extra object pushes out the one that matters); `serial_crash` takes two, to have an older
generation at hand.  `archive_race` has a file and a link to tell what an archive keeps,
`serial_crash` two files and a link.  Three archive names allow an archive, a restore, another archive and a
failed upload.  Two crashes allow a crash during the recovery from one.

An address is reused by another container only if there are two names; a third name adds
nothing, as an index entry relates one address and one name.  The races of one name need a
leader, a follower and a terminate at the same time: two requests and a timer goroutine, in
`container_idle`, which also has the faults after which somebody still has to clean up.  What goes
wrong between two names needs addresses that are freed, a service that forgets its records, and a
caller whose address is looked up while somebody else makes or ends a container: in
`container_restart` two requests do, and there is no timer goroutine, whose steps are those of a
terminate.  Names, addresses and requests are interchangeable there.

`migration` has one workspace and one project: leases are per workspace, and imports of different
projects share nothing but the lease.  Two workflows and two lease ids allow a lease that runs
out, is given to the other one, and a late release of the first.  Two files, one of them in a
directory, give a publication of two entries that stops in the middle, and a queue longer than
the single worker.  Two stamps allow the directory of a failed import beside that of the next.  One version of the files is
enough: a client removes files and brings them back, and the project starts empty or full, so that
the workspace, its state when the lease was taken and what the project held before all differ.

`zfs_routes` has two projects because a clone takes two locks and two datasets.  Two requests are
enough for its races: what one leaves half done is met by the other.  Two asides are the names of
one restore; the two restores that they would allow to overlap are of one project, which
`Exclusive` rules out, or of two, which share nothing.  One snapshot name lets a clone and its
origin, or a backup and a clone, come one after the other with a snapshot that stays behind from
a failure; two snapshots at once are related only by the lists they are in.  The instance is
symmetric in requests, contents, asides and snapshots, none of which has an order; it is not in
the projects, whose names have one.

`chat` has two tabs because a tab can only be surprised by another one, or by its own requests that
overtake one another; a third tab does what the second can.  Both are of one browser, which share
a cookie, or of two, whose owners differ.  Two sessions are an old one and the one a tab is sent to.
Four clicks allow a message, a deletion, a navigation away and one more thing meanwhile; two
requests of fetchers are one that was superseded and the one that did it.  Two messages are one
more than a title needs.

`starter` works on one name, as runs on different names share nothing, but for one thing: a directory
that two runs left with the template's name is deployed as `starter`.  So `starter` is the second
name, and in a project that is called so all three bindings fit.  Two runs are one that is
killed half way and one that finds what it left, or two at once.  The command lines of
`MCLocalServices` are a good one of each shape and each way to be refused.  Two files, one of which
may change once, tell a stale copy and a stale index from good ones.  A limit of one or two chunks and
bodies and declared lengths of up to two put the boundary inside, at and beyond what is read and what
is declared.  Lists of up to two images, each with a url or none and with an index or none, have the
cases of the order: two is all that a comparison sees.

**Which fault is missing where, and why.**  A property may hold only because its run leaves a
fault out; these are the cases:

* `ArchiveComplete` is checked (and proved) without `"torn"` and `"delete"`: the code ignores the errors of
  deferred closes in `writeTarGz`, and after a `Delete` that fails half way the project in
  `error` is a part of itself, which a retried archive uploads.  Both are listed as hazards.
* `ArchiveComplete` and `Recoverable` speak of files (`Due`).  Of links both are false after any
  archive, without a fault: no tarball has them (section 6).
* `TransitionDriven` is checked (and proved) without crashes and failed saves: after either,
  the state file stays in a transition that nothing at start-up looks for.
* `ArchiveStored` is checked (and proved) without `"tie"`.  In `all_routes` the service does not die
  and the calls whose failure only ends a handler early succeed; `archive_race` and
  `serial_crash` have those.
* `NameFree` is checked (and proved) without `"remove"`: if the daemon does not remove a
  container, creating one fails in the daemon, which reports it.
* `ImportReplaces` and `Snapshot` are checked with one import at a time: `import_retry` shows what
  two do to each other.
* `Kept` and `RestorePutsBack` are checked where clients ask for one replacement (restore, delete,
  clone to it) of a project at a time, `Exclusive = TRUE`.  With `FALSE`, two restores undo one
  another, and a clone that fails because a restore has published its target meanwhile removes
  the target's files; the second is listed as a hazard.  `AsidesAccounted` and `NoCircle` need
  no such assumption (they are proved without it).
* In `zfs_routes` a `zfs destroy` and the rename that undoes a publish fail only where they cannot be
  carried out (another dataset holds the name, a clone hangs on the snapshot), not by themselves:
  after such a failure the code logs and gives up, and `lost` and `AsidesAccounted` excuse it.  The
  removal of what a failed receive made may fail too (`Receive`).
  `AsidesAccounted` and `NoCircle` are proved with both failures.
* `Removed` excuses a wipe that failed (its error is dropped, `chat.tsx:115`) and what is said after
  the row is gone: no code looks for either again.
* `AppWhole` and `PublishedWhole` leave out names in `mixed`: two runs of a tool on one directory write
  into each other's files and the code has no lock.
* `Watched` and `IdleEnds` are checked without `"remove"` and `"clean"`: `expireIdleContainer`
  drops those errors and there is no second try.

## 5. Fairness

Storage: a call of the disk, the store or the daemon returns or fails (store calls run under
a ten-minute context, `backups.go:377`; daemon calls under contexts of two seconds to a
minute), so a handler that has started goes on: weak fairness of each process's own steps.  A
waiter on a `sync.Mutex` is served in turn once it has waited for a millisecond (Go's
starvation mode): strong fairness of `TakeLock`.  No fairness for `Arrive`, `Idle` and
`SweepList`: nobody has to call the service, and the sweeper only has to finish what it began.

Containers: weak fairness for the steps of a request and of a timer goroutine, and a set timer
fires.  None for the command that runs in a container: `RemoveInFlightRequest`, which ends it,
may never come, and `Answered` therefore only promises that a request gets as far as its
command.  `IdleEnds` allows for a request that is still concerned with the container.

Migration: the calls of an import return or fail, so it goes on: weak fairness of its steps.
Nobody has to take a lease, change a workspace or ask for an import.

ZFS projects: only invariants are checked; the specification has no fairness.

Chat: weak fairness of `Loads`: the worker answers the request that a tab waits for, as it would a
page.  None for users, for the requests of fetchers, for answers of the model and for abandoned
requests, each of which may be lost.

Local services: weak fairness of `Timeout` and `Aborted`: the clock of `setTimeout` goes on, and a
`fetch` or a read whose signal is aborted ends.  None for the service behind or its chunks, which is
the point of `SqlAnswered`.  The tools have none: they may be killed.

## 6. What the runs found

A sentence of `src/README.md` does not hold because `ensureProjectLocal` releases the project's
lock before the route it admitted uses the project.

* `write_during_archive`: an exec passes `ensureProjectLocal`; an archive stops the container
  and makes its tarball; the exec starts the container again and writes; the archive deletes
  the directory.  The file is in no archive.  `src/README.md:295` says that archival moves the
  filesystem after the container is stopped.  For the same reason an exec that was admitted before
  an unarchive failed makes a fresh directory for a project in `error`, which `src/README.md:307`
  says the service does not.

Another one does not hold because restores take no lock of the workspace manager.

* `zfs_restore`: the service has just started, so `Manager.mounts` is empty.  A restore receives
  its stream and renames the project's dataset aside; an exec's `Ensure` finds no dataset of the
  name and creates an empty one; the rename that publishes fails, and so does the rename that
  should put the old dataset back, whose error is dropped.  The restore answers with an error and
  the project is an empty filesystem; the old one stays under its rollback name.
  `src/README.md:286` says that a failed restore cannot do this.  No command has to fail by
  itself for it: `NoFaults` is the run's environment.

One test expects more of the code than it does when requests overlap.

* `import_retry`: a workflow asks for an import, gives up on it and asks again, under the same
  lease (`acquire` and the import's one look at the lease both let it).  The first import has
  listed the project and is about to clear it, or lists it now; the second makes its staging
  directory and copies a file; the first removes that directory.  The next copy makes it again
  (`os.MkdirAll`), so the second import publishes the rest and answers with success.
  `TestLegacyWorkspaceImportReplacesExistingProjectContentsOnRetry`, which retries after the
  first import has ended, expects the source files to be there (`project_runtime_test.go:807`).

Three observations made while reading have no run of their own; each is in the model.

* With the directory driver an archive drops symbolic links.  `writeTarGz` makes a link's header
  without its target (`backups.go:407`) and `extractTarGz` makes nothing of an entry that is no file
  and no directory (`backups.go:466`), and archival removes the directory that had them.
  `src/README.md:303` says that archive uploads the current project filesystem.  (The legacy import
  does keep links, `project_legacy_import.go:324`.)  `Regular`, `Tarballs` and `Tree` have it, and
  `ArchiveComplete` and `Recoverable` leave links out.
* `create-worker.mjs:310` says "Keep starter local self-bindings pointed at the generated worker
  name", and the two replacements that follow rename the service of `DATA_PROXY` and of
  `CONNECTIONS`.  The template has a third one, `CAMELAI` (`wrangler.jsonc:93-98`), which keeps the
  template's name, so that in a created project that is not called `starter` it names a worker that
  does not run.  `Renamed` has it, and `AppWhole` speaks of the two that are renamed only.
* `data-proxy.ts:173` reads a field of a payload that may be `null` when the body of an error response
  is: the status of that response is replaced by the message of a `TypeError`.  `EndOfBody` has it.

## 7. Proofs

All theorems are of the form `Spec => []P` or `Spec => [][A]_v`, for any set of projects,
names, writes and addresses, any set of routes, and any faults unless a theorem's `ASSUME`
excludes some; the two about imports have the further premise `[]Serial`, four about
storage `[]Calm`.  The assumptions on constants are `StorageAssumption` and
`ContainerAssumption`: the special values differ from the others, retention is at least one
(`config.go:85` enforces it), and the container manager's requests are finitely many; `MigrationAssumption` only tells
special values, entries and staging names apart, and so does `ZfsAssumption`, which also says that
projects are finitely many and their names in a linear order, `Rank`.  `Distinct` (chat) and
`ScaffoldAssumption` tell special values apart; a project may be called `starter`, as the template is.

### ProjectStorageProofs

* `TypeCorrect` : `TypeOK`.  The inductive invariant is `Typed`, which adds to `TypeOK` what
  each process has in its hands at each step: without it the steps that publish `tmp` or put
  `back` in place would not keep `dir` in its type.
* `TransitionsLegal` : `LegalTransition`.  A table, `StepEffect`, says for each step which
  storage state it finds and which it leaves.  It needs `Guarded`: whoever is at a locked step
  holds the lock (`LockHeld`), and the state file still says what it said when that process
  entered its phase (`PhaseRecorded`).  This is the heart of it: the code saves a copy of the
  state that it loaded before a dozen slow calls, and `PhaseRecorded` says nobody wrote the
  file in between.
* `TransitionsDriven` : `TransitionDriven`, without crashes and failed saves.  It adds
  `HolderDrives`, the invariant's own inductive form.
* `ArchivesStored` : `ArchiveStored`, if the store's clock orders uploads.  The inductive
  invariant `Retained` says that objects are ordered by name as by time, and that the archive
  of the state file is among the newest that retention would keep.
* `LocksReleased` : whoever holds a project's lock is at a locked step of that project
  (`LocksAtWork`), with every fault.  No run checks it by name; `Answered` rests on it.
* `ArchivedHasOneHome` : `OneHome`, and `ContainersAttached` : `Attached`, for all faults and crashes,
  and `ArchivesComplete` : `ArchiveComplete`, and `AllRecoverable` : `Recoverable`, of every file (`Due`;
  links are in the model and in no tarball), without the faults `"torn"`, `"delete"` and `"tie"`.  All four are about routes other than clone and restore, which look at
  no state file before they make a directory, and under the premise `[]Calm`: while an exec or a
  write that `ensureProjectLocal` admitted is under way, nobody archives or deletes its project.  No
  lock of the code says so, and `write_during_archive` shows what happens without it.  `Calm` says
  nothing of requests that wait, of other execs and writes, or of archive and unarchive among themselves.
  It is proved where no route admits anybody to a directory (`LockedRoutesCalm`, the run
  `archive_race`) and where there is one client that waits for each answer (`OneClientCalm`, the
  run `serial_crash`).

  There are two invariants, one on the other.  `Placed` says where directories and containers may be:
  `PlaceOK` for each project by its storage state, `AtPlace` what each handler at each step finds
  (from the stop of the container to the mark nothing is mounted; a restore finds no directory, so the
  rollback of `SwapIn` never has anything to put back).  `Copied` says which copy is whole: `CopyOK` the
  directory, the named archive, either or some archive, by the storage state; `InHand` what is in
  the tarball or the extracted tree at each step, that what the next step names is whole, and that
  a delete removes only what nobody expects any more.  In a transition that a crash cut off, some archive
  is whole although the state file may not name it.  A step of a handler leaves other
  projects alone (`StepElsewhere`) and other handlers of its own project in possession of what they need
  (`OthersAtPlace`, `OthersInHand`): outside of the critical section a step at most lessens what is
  owed (`OpenCopies`, `LessOwed`) or, if it adds to it, finds the project local (`AdmittedCopies`).
  `Retained` gives the rest: retention keeps the archive that the state file names.

### ContainerManagerProofs

* `TypeCorrect` : `TypeOK`; inductive with `Fits`, which is a part of it.
* `OneLeader` : `Led`, a strengthening no run checks by name: a request at a step of
  `ensureContainerUnlocked` is the one `ensureInFlight` names.  Everything else rests on it.
* `IndexAlwaysSound` : `IndexSound`.  `RecordFree` says that a flight past the eviction of a
  record has none, `Addressed` that known records have addresses; with both, each action that
  writes the index keeps it sound.
* `NameFreeToCreate` : `NameFree`, if removals do not fail.  Only a leader creates; a
  terminate at the same time only takes away.
* `CredentialsAlwaysOwned` : `CredentialsOwned`, until the service starts again (it forgets who
  was responsible: `restarts = 0`, as in the run) and if no removal of credentials fails.  The
  property alone is not inductive: a route that does not mount R2 creates a container at the same
  step `create`, and on failure removes nothing.  `CredentialsAccounted` narrows the owners to those
  who will remove them (`Responsible`).  `DutiesKept` says that only its own next step takes a
  process from what it has to finish: no flight that lands moves somebody who is not waiting for it.
* `AlwaysWatched` : `Watched`, with restarts, where the daemon and the host remove what they are
  told to.  It adds `Unprobed`: `TerminateContainer` asks whether a container still runs, and keeps
  its record if so, only when a removal failed.
* `CountsBacked` : `InFlightBacked`.  `Counted` says that a counted request is inside its
  second `EnsureContainer` or its command, `Uncounted` that a name without a record counts
  nobody; the rest is arithmetic of cardinalities, as one request joins or leaves the finite
  set `InFlight(n)`.

Each of the container theorems follows one argument: a lemma says what any single step does to the variables
concerned (`StepEffect`, `FlightEffects`, `RecordEffects`, `DaemonEffects`, `CountEffects`,
with one case per action), and a short second lemma derives the invariant from that effect.
The case analysis over the actions is done once for each group of variables.

### LegacyMigrationProofs

* `TypeCorrect` : `TypeOK`, with one lemma per action.  It is inductive as it stands because it
  says of an import past `MakeStaging` that it has a name for its directory.
* `LeaseAlwaysHonoured` : `LeaseHonoured`.  The inductive invariant `LeaseInv` adds `GivenOnce`
  (an id names one workflow and one workspace), `HeldIsGiven` (the lease in force is one its
  owner was told, so that asking again adds no id) and `DueIsOver` (a lease whose time is up
  counts as over before anybody prunes it, so that pruning takes nothing away: `PruneKeeps`).
* `ImportLeavesPlan` : `ImportReplaces`, and `ImportIsSnapshot` : `Snapshot`, under `[]Serial`: no
  two imports of one project run at the same time.  No lock of the code says so; with one import at
  a time, as in the run `migration`, it holds by itself, and `import_retry` shows what happens
  without it.  `ImportOK` says of each import what it has done at each step (`FilesOK`: the project
  empty from `stage` on, its directory the only one there, copied files and tasks in hand together
  the plan, published and staged files together the plan), whose staging directories it has to do with
  (`NamesOK`), and what it left if it was the last (`LeftOK`).  A step of one import keeps within
  its project (`ImportWithin`), which leaves the others as they are (`OtherImportOK`).
  For `Snapshot`, `QuietInForce` says that nobody is inside a mutation of a workspace while a lease
  that began quietly is in force, and `SeenGiven` that an import's lease was given to somebody: ids are
  not given twice, so a lease that comes into force later is not the one the import found
  (`ForceBefore`, `FrozenBefore`).  `CopyOK` follows the copies from then on.

### ZfsProjectsProofs

* `TypeCorrect` : `TypeOK`, with one lemma per route.  It is inductive because `RequestsOK` says
  which steps are of which route (`OnRoute`) and that a restore has its two names (`Fits`).  It has no run
  of its own: it is what the other theorems start from.
* `LocksFree` : `NoCircle`.  The inductive invariant `LocksOrdered` says that every lock is held
  by a request that runs and comes before each lock that this request has still to take; all but
  `TakeLock` and the steps that answer leave locks alone (`WorkHolds`).  In a circle of waiters
  every lock waited for is held by one who waits for a later lock, but of finitely many locks one
  is the last (`LastInOrder`, from the well-foundedness of `<` on the naturals).
* `RestoresAccounted` : `AsidesAccounted`, for any number of overlapping requests, with or without
  `Exclusive`.  The inductive invariant `Accounted` adds that restores have different names
  (`Apart`) and which of its two names a restore may have in use at each step (`Prepared`).  Steps
  that are not a restore's bring no dataset into being under an aside (`Aloof`); a step of a
  restore goes on with its names or answers leaving neither unaccounted for (`Continues`,
  `Ends`).

### ZfsRestoreProofs

* `ContentKept` : `Kept`, and `RestorePutBack` : `RestorePutsBack`, assuming `Exclusive`: clients ask
  for one replacement of a project at a time (section 4 says what two do).  The inductive invariant
  `Guarded` has five parts: `Accounted`; `LocksTaken` (a request works under the locks of its
  route, except restores and backups, which take none); `OneReplaces` (one request at most
  replaces a project); `Mounted` (what is mounted at a project's path has a directory there);
  and `AllSafe`, which says of each project where its content is.  A dataset is a `HomeOf` a
  project if it has what the clients are owed, is not mounted at another project's path, and, under
  an aside, belongs to no restore but one that set it aside (`SetAside`).  `RestoreOK` and
  `CloneOK` say what a swap or a clone relies on at each step.  A request that does not replace a
  project `Spares` it; the steps of the one that does are taken one by one (`BeforeSwapSafe` to
  `AfterSwapSafe`).

### ChatSessionsProofs

* `TypeCorrect` : `TypeOK`.  It is inductive with `Known` (the browser of a tab that shows a chat, or
  asked for one with a cookie, still has a cookie: the fetchers' requests carry it) and `Owned`, below.
* `Implements` : `Conversation`, the refinement.  `Owned` says that a table has only sessions made for
  its owner, that a page shows a session of the owner it was loaded for, that only sessions somebody made
  are answered in, and that one on its way to be wiped is in no list.  With it each action maps to one of `Conversations`' or a stutter: a wipe
  to `Forget`, a message to `Say`, an id that is fresh to `Begin` (`StepImplements`, one case per
  action).
* `TitlesEarned` : `TitleEarned`.  The invariant `Counted` says that a tab whose session has more messages
  than when it was opened has heard one: each action either leaves the counts alone, adds a message
  that every tab of the session hears, or empties the session.

* `DeletedRemoved` : `Removed`, inductive beside the refinement's invariant.  No request that
  supersedes a deletion takes its wipe away (`SubmitsWiping`); whoever writes to a session whose row
  is gone, or fails to wipe it, is noted in `left`.

### ScaffoldProofs

* `AppsWhole` : `AppWhole`, and `ViewersWhole` : `PublishedWhole`, from one inductive invariant in eight
  parts.  `Typed` and `Begun` (a run's options are coherent, and its file is no older than when it
  began); `Named` (a configuration
  has the directory's name or still the template's); `Made` (a run past its first write, and a name that is ready, has a
  configuration); `Alone` (outside of `mixed` a name has one run at most, and is not ready while it has); `Staged` (what a run at each step has
  already written, which is the heart of it: a run of create-worker builds on nothing a killed one
  left); `Told` and `Live` (what is ready, or live, is sound; a directory that may be deployed under another
  name than its own is in `mixed`, and `Mixing` says so of that name).  The lemmas `WritesKeeps`, `EndKeeps` and
  `BeginKeeps` say once what a write, the end and the start of a run must satisfy, and each action's
  lemma shows that it does.

### LocalServicesProofs

* `ServicesTypeCorrect` : `TypeOK`, and `AnswersSound` : `AnswerSound`, assuming `Limits` and
  `ScaffoldAssumption`.  The inductive invariant is that of `ScaffoldProofs` with `Serving`: there is a
  server while there is a call, and the call is what its service makes of it.  Of a query,
  `SqlOK` says that all that came of the body is kept, within the limit, until it is answered, which is
  what makes "all of the body" and "never too much of it" hold together.  Nothing is assumed of chunks or
  of what was declared.
* `FirstAlwaysShown` : `FirstShown`, from the same invariant.  The smallest index with a url and then the
  smallest place exist (`LeastNat`), so the list has a first item and it is one that none comes before
  (`FirstImage`).

## 8. What is only model-checked, and what is not modelled

Only model-checked:

* Liveness (`Answered`, `TransitionsEnd`, `IdleEnds`, `Settles`, `SqlAnswered`): fairness and `ENABLED` are out of the
  prover's reach.

Not modelled: the transcript readers (parsers of files written by agents), HTTP routing, header
rewriting and configuration (wiring without state), the SQL drivers of the data proxy, the
image, the renderer's bundle and the presentation components of the starter, host set-up scripts,
`GetContainer` (no caller).  Within the modelled parts: the bytes of tarballs, names and timestamps
beyond their order, ownership and modes of files, quotas of directories, titles, markup, the
conversion of headers and request bodies, and the texts of errors.  Not modelled yet: section 9.

## 9. Plan

Done: `ProjectStorage`, `ContainerManager`, `LegacyMigration` and `ZfsProjects`, their runs and
first theorems; `ChatSessions`, which implements `Conversations`, and `Scaffold` with
`LocalServices`, with theirs.  Next, in this order:

1. `WorkspaceStore`: quotas of the directory driver, whose ids are in two files and a table of
   the kernel, beside `CloneReflink` and its clean-up; names that collide.
2. `UsageLedger`: ledgers and analytics index under their two locks, limits, the rebuild.
   An abstract module in which the index is a function of the ledgers, implemented by the
   detailed one at rest.
3. `SshTunnels`: the table, idle clean-up, the readiness probe, close.
4. `ProjectStore`: what storage promises a client, in a few lines (a project's content is what
   was written, unavailable while in a transition), implemented by `ProjectStorage` for the
   routes that take the lock.
5. Pure algorithms as functions with a reference definition: pagination of the usage log, the
   next free quota id, selection of backups and archives to delete.

Theorems to come: the refinement of 4; no index entry without a ledger entry.

## 10. How to run it

    tlc -workers 2 -config archive_race.cfg MCProjectStorage
    tlc -workers 2 -config container_restart.cfg MCContainerManager
    tlc -workers 2 -config migration.cfg MCLegacyMigration
    tlc -workers 2 -config zfs_routes.cfg MCZfsProjects
    tlc -workers 2 -config chat.cfg MCChatSessions
    tlc -workers 2 -config starter.cfg MCLocalServices
    tlapm ProjectStorageProofs.tla
    tlapm ContainerManagerProofs.tla
    tlapm LegacyMigrationProofs.tla
    tlapm ZfsProjectsProofs.tla
    tlapm ZfsRestoreProofs.tla
    tlapm ChatSessionsProofs.tla
    tlapm ScaffoldProofs.tla
    tlapm LocalServicesProofs.tla

The runs named `container_*` use `MCContainerManager`, `migration` and `import_retry` use
`MCLegacyMigration`, the two `zfs_*` runs `MCZfsProjects`, `chat` uses `MCChatSessions`, `starter`
`MCLocalServices`, the others `MCProjectStorage`.  No run
takes more than three minutes on two cores.
