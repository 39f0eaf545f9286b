--------------------------- MODULE ContainerManager ---------------------------
(***************************************************************************)
(* The container manager of internal/container/manager.go: the records it  *)
(* keeps of project containers, its index of their addresses, the shared   *)
(* flights that start a container, the idle timers and the in-flight       *)
(* counts, against the Docker daemon, which other requests and the         *)
(* containers themselves change at any time.                               *)
(*                                                                         *)
(* One step of a process is one critical section of Manager.mu or one call *)
(* of the daemon.  GetContainer has no caller in the repository and is     *)
(* left out.                                                                *)
(***************************************************************************)
EXTENDS Integers, FiniteSets

CONSTANTS
    Names,        \* runtime names of projects and legacy workspaces
    Requests,     \* concurrent HTTP requests
    Janitors,     \* bound: goroutines of fired idle timers that run at once
    IPs,          \* addresses of the container network
    Ops,          \* the routes the requests of a run may call
    Faults,       \* what the daemon and the host of a run may do wrong
    MaxRestarts,  \* bound: restarts of the service
    NoName, NoProc, NoIP

\* "exec" is a project's, "wexec" a legacy workspace's, which mounts R2.
RouteOps == {"exec", "wexec", "health", "chat", "terminate", "proxy"}

FaultKinds == {"die", "inspect", "port", "ensure", "creds", "create", "start",
               "stop", "remove", "clean"}

ASSUME ContainerAssumption ==
    /\ Names # {}
    /\ NoName \notin Names
    /\ NoIP \notin IPs
    /\ NoProc \notin Requests
    /\ Requests \cap Janitors = {}
    /\ IsFiniteSet(Requests)
    /\ Ops \subseteq RouteOps
    /\ Faults \subseteq FaultKinds
    /\ MaxRestarts \in Nat

Procs == Requests \cup Janitors

VARIABLES
    cont,      \* the daemon's container of each name
    creds,     \* names with a directory of temporary R2 credentials
    rec,       \* Manager.containers
    index,     \* Manager.containerIPIndex
    timer,     \* Manager.idleTimers
    flight,    \* Manager.ensureInFlight: the request that starts a container
    pending,   \* Manager.pendingWorkspaces
    image,     \* the configured image, as a generation
    restarts,
    pc, job    \* what each process does, and its local variables

daemonVars == <<cont, creds>>
recordVars == <<rec, index, timer>>
flightVars == <<flight, pending>>
hostVars == <<image, restarts>>
procVars == <<pc, job>>
vars == <<daemonVars, recordVars, flightVars, hostVars, procVars>>

-----------------------------------------------------------------------------
(* Types.                                                                   *)

Address == IPs \cup {NoIP}

Container == [status : {"none", "down", "up"}, ip : Address, image : Nat]

Record == [known : BOOLEAN, ip : Address, inFlight : Nat, old : BOOLEAN]

Job == [op : RouteOps \cup {"expire", "none"},
        name : Names \cup {NoName},
        ip : Address,       \* an address read from the daemon
        src : Address,      \* the caller's, for "proxy"
        todo : SUBSET Names,
        gone : BOOLEAN,     \* noSuchContainer of TerminateContainer
        ok : BOOLEAN,       \* outcome of the flight
        counted : BOOLEAN]  \* between AddInFlightRequest and its deferred end

NoContainer == [status |-> "none", ip |-> NoIP, image |-> 0]

NoRecord == [known |-> FALSE, ip |-> NoIP, inFlight |-> 0, old |-> FALSE]

NoJob == [op |-> "none", name |-> NoName, ip |-> NoIP, src |-> NoIP, todo |-> {},
          gone |-> FALSE, ok |-> FALSE, counted |-> FALSE]

\* The steps of ensureContainerUnlocked, which only the leader of a flight takes.
FlightSteps == {"cached", "inspect", "hit", "evict", "drop", "reinspect", "adopt",
                "clear", "credentials", "create", "boot", "address", "record",
                "land"}

TerminateSteps == {"stop", "remove", "clean", "probe", "forget"}

OtherSteps == {"idle", "touch", "ensure", "wait", "open", "close", "lookup",
               "scan", "reindex", "copy", "check"}

Steps == FlightSteps \cup TerminateSteps \cup OtherSteps

(* What a process at a step works on: a name, an address the daemon gave,   *)
(* a caller's address.                                                      *)
Fits(step, j) ==
    /\ step \notin {"idle", "lookup", "scan"} => j.name \in Names
    /\ step \in {"adopt", "record", "reindex"} => j.ip \in IPs
    /\ step \in {"lookup", "scan", "reindex", "copy"} => j.src \in IPs

DaemonOK ==
    /\ cont \in [Names -> Container]
    /\ \A n \in Names : cont[n].status = "up" => cont[n].ip \in IPs
    /\ creds \subseteq Names

RecordsOK ==
    /\ rec \in [Names -> Record]
    /\ index \in [IPs -> Names \cup {NoName}]
    /\ timer \in [Names -> {"none", "armed", "fired"}]

FlightsOK ==
    /\ flight \in [Names -> Requests \cup {NoProc}]
    /\ pending \in [Names -> Nat]

ProcsOK ==
    /\ pc \in [Procs -> Steps]
    /\ job \in [Procs -> Job]
    /\ \A r \in Procs : Fits(pc[r], job[r])

(* Every variable stays in its type: in-flight counts never go below zero,  *)
(* and a process has what its step works on.                                *)
TypeOK ==
    /\ DaemonOK
    /\ RecordsOK
    /\ FlightsOK
    /\ image \in Nat /\ restarts \in Nat
    /\ ProcsOK

Init ==
    /\ cont = [n \in Names |-> NoContainer]
    /\ creds = {}
    /\ rec = [n \in Names |-> NoRecord]
    /\ index = [i \in IPs |-> NoName]
    /\ timer = [n \in Names |-> "none"]
    /\ flight = [n \in Names |-> NoProc]
    /\ pending = [n \in Names |-> 0]
    /\ image = 0
    /\ restarts = 0
    /\ pc = [r \in Procs |-> "idle"]
    /\ job = [r \in Procs |-> NoJob]

-----------------------------------------------------------------------------
(* How a process moves on.                                                  *)

Fault(kind) == kind \in Faults

Goto(r, step) == pc' = [pc EXCEPT ![r] = step]

Continue(r, step) == Goto(r, step) /\ UNCHANGED job

Respond(r) ==
    /\ Goto(r, "idle")
    /\ job' = [job EXCEPT ![r] = NoJob]

\* The two routes that pass both an organisation and a workspace id.
MountsR2(r) == job[r].op \in {"wexec", "health"}

Executes(r) == job[r].op \in {"exec", "wexec"}

-----------------------------------------------------------------------------
(* The manager's own bookkeeping, always under its mutex.                   *)

(* LastAccessedAt becomes now, and the idle timer starts afresh.            *)
Use(n) ==
    /\ rec' = [rec EXCEPT ![n].old = FALSE]
    /\ timer' = [timer EXCEPT ![n] = "armed"]
    /\ UNCHANGED index

(* A record for a container at ip, indexed and timed.                       *)
Enter(n, ip) ==
    /\ rec' = [rec EXCEPT ![n] =
                 [known |-> TRUE, ip |-> ip, inFlight |-> 0, old |-> FALSE]]
    /\ index' = [index EXCEPT ![ip] = n]
    /\ timer' = [timer EXCEPT ![n] = "armed"]

(* Mutated form of Drop: the address stays in the index.                    *)
DropIndexed(n) ==
    /\ rec' = [rec EXCEPT ![n] = NoRecord]
    /\ timer' = [timer EXCEPT ![n] = "none"]
    /\ UNCHANGED index

(* removeContainerRecordLocked: with the index entry of its address.        *)
Drop(n) ==
    /\ rec' = [rec EXCEPT ![n] = NoRecord]
    /\ timer' = [timer EXCEPT ![n] = "none"]
    /\ index' = IF rec[n].known THEN [index EXCEPT ![rec[n].ip] = NoName]
                                ELSE index

TouchContainer(r) ==
    /\ pc[r] = "touch"
    /\ IF rec[job[r].name].known THEN Use(job[r].name) ELSE UNCHANGED recordVars
    /\ CASE job[r].op \in {"wexec", "health"} -> Continue(r, "ensure")
         [] job[r].op = "chat" -> Continue(r, "open")
         [] job[r].op = "terminate" -> Continue(r, "stop")
         [] OTHER -> Respond(r)
    /\ UNCHANGED <<daemonVars, flightVars, hostVars>>

AddInFlightRequest(r) ==
    /\ pc[r] = "open"
    /\ LET n == job[r].name
       IN  /\ rec' = IF rec[n].known
                     THEN [rec EXCEPT ![n].inFlight = @ + 1, ![n].old = FALSE]
                     ELSE rec
           /\ timer' = IF rec[n].known THEN [timer EXCEPT ![n] = "armed"] ELSE timer
    /\ job' = [job EXCEPT ![r].counted = TRUE]
    /\ Goto(r, IF Executes(r) THEN "ensure" ELSE "close")
    /\ UNCHANGED <<daemonVars, index, flightVars, hostVars>>

(* Mutated forms of Less: the count may go below zero; it never goes down.  *)
LessOne(count) == count - 1
Same(count) == count

Less(count) == IF count > 0 THEN count - 1 ELSE count

(* The command or the transcript is done: the deferred call.                *)
RemoveInFlightRequest(r) ==
    /\ pc[r] = "close"
    /\ LET n == job[r].name
       IN  /\ rec' = IF rec[n].known
                     THEN [rec EXCEPT ![n].inFlight = Less(@), ![n].old = FALSE]
                     ELSE rec
           /\ timer' = IF rec[n].known THEN [timer EXCEPT ![n] = "armed"] ELSE timer
    /\ Respond(r)
    /\ UNCHANGED <<daemonVars, index, flightVars, hostVars>>

-----------------------------------------------------------------------------
(* Requests.                                                                *)

FirstSteps(o) ==
    CASE o = "exec" -> {"ensure"}
      [] o = "terminate" -> {"touch", "stop"}
      [] o = "proxy" -> {"lookup"}
      [] OTHER -> {"touch"}

Up(n) == cont[n].status = "up"

Arrive(r) ==
    /\ pc[r] = "idle"
    /\ \E o \in Ops \ {"proxy"}, n \in Names :
        /\ job' = [job EXCEPT ![r] = [NoJob EXCEPT !.op = o, !.name = n]]
        /\ \E step \in FirstSteps(o) : Goto(r, step)
    /\ UNCHANGED <<daemonVars, recordVars, flightVars, hostVars>>

(* A running container calls the proxy port.                                *)
CallProxy(r) ==
    /\ pc[r] = "idle"
    /\ "proxy" \in Ops
    /\ \E n \in Names :
        /\ Up(n)
        /\ job' = [job EXCEPT ![r] = [NoJob EXCEPT !.op = "proxy", !.src = cont[n].ip]]
    /\ Goto(r, "lookup")
    /\ UNCHANGED <<daemonVars, recordVars, flightVars, hostVars>>

-----------------------------------------------------------------------------
(* EnsureContainer: one flight per name.                                    *)

(* Mutated form of Taken: everybody flies.                                  *)
NeverTaken(n) == n \notin Names

Taken(n) == flight[n] # NoProc

EnsureContainer(r) ==
    /\ pc[r] = "ensure"
    /\ LET n == job[r].name
       IN  \/ /\ Taken(n)
              /\ Continue(r, "wait")
              /\ UNCHANGED flightVars
           \/ /\ ~Taken(n)
              /\ flight' = [flight EXCEPT ![n] = r]
              /\ pending' = [pending EXCEPT ![n] = @ + 1]
              /\ Continue(r, "cached")
    /\ UNCHANGED <<daemonVars, recordVars, hostVars>>

(* Where EnsureContainer returns to: handleExec calls it itself and again   *)
(* through Manager.Exec, the health route once.                             *)
After(r, ok) ==
    CASE job[r].counted -> "close"
      [] ~job[r].counted /\ Executes(r) /\ ok -> "open"
      [] OTHER -> "idle"

Waiters(n) == {w \in Requests : pc[w] = "wait" /\ job[w].name = n}

(* Mutated form of Woken: an error wakes nobody.                            *)
WokenBySuccess(r) ==
    {r} \cup IF job[r].ok THEN Waiters(job[r].name) ELSE {}

Woken(r) == {r} \cup Waiters(job[r].name)

(* The leader publishes the outcome and closes the channel.                 *)
Land(r) ==
    /\ pc[r] = "land"
    /\ LET n == job[r].name
       IN  /\ flight' = [flight EXCEPT ![n] = NoProc]
           /\ pending' = [pending EXCEPT ![n] = IF @ <= 1 THEN 0 ELSE @ - 1]
    /\ pc' = [w \in Procs |-> IF w \in Woken(r) THEN After(w, job[r].ok) ELSE pc[w]]
    /\ job' = [w \in Procs |->
                 IF w \in Woken(r)
                 THEN IF After(w, job[r].ok) = "idle"
                      THEN NoJob
                      ELSE [job[w] EXCEPT !.ip = NoIP, !.ok = FALSE]
                 ELSE job[w]]
    /\ UNCHANGED <<daemonVars, recordVars, hostVars>>

Outcome(r, ok) ==
    /\ Goto(r, "land")
    /\ job' = [job EXCEPT ![r].ok = ok]

Cached(r) ==
    /\ pc[r] = "cached"
    /\ Continue(r, IF rec[job[r].name].known THEN "inspect" ELSE "reinspect")
    /\ UNCHANGED <<daemonVars, recordVars, flightVars, hostVars>>

InspectCached(r) ==
    /\ pc[r] = "inspect"
    /\ LET n == job[r].name
       IN  \/ Up(n) /\ cont[n].image = image /\ Continue(r, "hit")
           \/ Up(n) /\ cont[n].image # image /\ Continue(r, "evict")
           \/ (~Up(n) \/ Fault("inspect")) /\ Continue(r, "drop")
    /\ UNCHANGED <<daemonVars, recordVars, flightVars, hostVars>>

CacheHit(r) ==
    /\ pc[r] = "hit"
    /\ LET n == job[r].name
       IN  \/ /\ rec[n].known
              /\ Use(n)
              /\ Outcome(r, TRUE)
           \/ /\ ~rec[n].known
              /\ Continue(r, "reinspect")
              /\ UNCHANGED recordVars
    /\ UNCHANGED <<daemonVars, flightVars, hostVars>>

(* removeContainerIfExists, force: the container, then its credentials.  A  *)
(* leader may take both at once: only leaders make either.                  *)
RemoveContainer(n) ==
    \/ /\ cont' = [cont EXCEPT ![n] = NoContainer]
       /\ creds' \in {creds \ {n}} \cup IF Fault("clean") THEN {creds} ELSE {}
    \/ Fault("remove") /\ UNCHANGED daemonVars

Evict(r) ==
    /\ pc[r] = "evict"
    /\ RemoveContainer(job[r].name)
    /\ Continue(r, "drop")
    /\ UNCHANGED <<recordVars, flightVars, hostVars>>

DropStale(r) ==
    /\ pc[r] = "drop"
    /\ Drop(job[r].name)
    /\ Continue(r, "reinspect")
    /\ UNCHANGED <<daemonVars, flightVars, hostVars>>

(* A container that runs is taken over; one of another image goes.          *)
InspectExisting(r) ==
    /\ pc[r] = "reinspect"
    /\ LET n == job[r].name
       IN  \/ /\ Up(n) /\ cont[n].image = image
              /\ job' = [job EXCEPT ![r].ip = cont[n].ip]
              /\ Goto(r, "adopt")
              /\ UNCHANGED daemonVars
           \/ /\ Up(n) /\ cont[n].image # image
              /\ RemoveContainer(n)
              /\ Continue(r, "clear")
           \/ /\ ~Up(n) \/ Fault("inspect") \/ Fault("port")
              /\ Continue(r, "clear")
              /\ UNCHANGED daemonVars
    /\ UNCHANGED <<recordVars, flightVars, hostVars>>

Adopt(r) ==
    /\ pc[r] = "adopt"
    /\ Enter(job[r].name, job[r].ip)
    /\ Outcome(r, TRUE)
    /\ UNCHANGED <<daemonVars, flightVars, hostVars>>

Clear(r) ==
    /\ pc[r] = "clear"
    /\ RemoveContainer(job[r].name)
    /\ Continue(r, "credentials")
    /\ UNCHANGED <<recordVars, flightVars, hostVars>>

(* workspaces.Ensure and prepareContainerR2Config, which starts by removing *)
(* what an earlier container left.                                          *)
Prepare(r) ==
    /\ pc[r] = "credentials"
    /\ LET n == job[r].name
       IN  \/ /\ creds' = IF MountsR2(r) THEN creds \cup {n} ELSE creds
              /\ Continue(r, "create")
           \/ /\ Fault("ensure")
              /\ Outcome(r, FALSE)
              /\ UNCHANGED creds
           \/ /\ MountsR2(r) /\ Fault("creds")
              /\ creds' = creds \ {n}
              /\ Outcome(r, FALSE)
    /\ UNCHANGED <<cont, recordVars, flightVars, hostVars>>

(* Mutated form of Discard: the credentials stay.                           *)
KeepCreds(r) == r \in Procs /\ UNCHANGED creds

(* ContainerCreate failed: the credentials made for it go.                  *)
Discard(r) ==
    creds' = IF MountsR2(r) THEN creds \ {job[r].name} ELSE creds

CreateContainer(r) ==
    /\ pc[r] = "create"
    /\ LET n == job[r].name
       IN  \/ /\ cont[n].status = "none"
              /\ cont' = [cont EXCEPT ![n] =
                            [status |-> "down", ip |-> NoIP, image |-> image]]
              /\ Continue(r, "boot")
              /\ UNCHANGED creds
           \/ /\ cont[n].status # "none" \/ Fault("create")
              /\ Discard(r)
              /\ Outcome(r, FALSE)
              /\ UNCHANGED cont
    /\ UNCHANGED <<recordVars, flightVars, hostVars>>

FreeIPs == IPs \ {cont[n].ip : n \in Names}

(* ContainerStart: an error leaves the container where it is.               *)
StartContainer(r) ==
    /\ pc[r] = "boot"
    /\ LET n == job[r].name
       IN  \/ /\ cont[n].status = "down"
              /\ \E ip \in FreeIPs :
                    cont' = [cont EXCEPT ![n].status = "up", ![n].ip = ip]
              /\ Continue(r, "address")
           \/ /\ cont[n].status = "none" \/ Fault("start")
              /\ Outcome(r, FALSE)
              /\ UNCHANGED cont
    /\ UNCHANGED <<creds, recordVars, flightVars, hostVars>>

(* getHostPortAndIP, then up to 30 seconds of health checks.                *)
ReadAddress(r) ==
    /\ pc[r] = "address"
    /\ LET n == job[r].name
       IN  \/ /\ Up(n)
              /\ job' = [job EXCEPT ![r].ip = cont[n].ip]
              /\ Goto(r, "record")
           \/ /\ ~Up(n) \/ Fault("inspect") \/ Fault("port")
              /\ Outcome(r, FALSE)
    /\ UNCHANGED <<daemonVars, recordVars, flightVars, hostVars>>

RecordContainer(r) ==
    /\ pc[r] = "record"
    /\ Enter(job[r].name, job[r].ip)
    /\ Outcome(r, TRUE)
    /\ UNCHANGED <<daemonVars, flightVars, hostVars>>

-----------------------------------------------------------------------------
(* TerminateContainer, for a request or a fired timer; no flight, no lock   *)
(* between its calls.                                                       *)

StopContainer(r) ==
    /\ pc[r] = "stop"
    /\ LET n == job[r].name
       IN  \/ /\ cont' = IF cont[n].status = "none" THEN cont
                         ELSE [cont EXCEPT ![n].status = "down", ![n].ip = NoIP]
              /\ job' = [job EXCEPT ![r].gone = cont[n].status = "none"]
           \/ Fault("stop") /\ UNCHANGED <<cont, job>>
    /\ Goto(r, "remove")
    /\ UNCHANGED <<creds, recordVars, flightVars, hostVars>>

(* An error of removeContainerIfExists counts unless the container was gone.*)
AfterError(r) == IF job[r].gone THEN "forget" ELSE "probe"

ForceRemove(r) ==
    /\ pc[r] = "remove"
    /\ \/ /\ cont' = [cont EXCEPT ![job[r].name] = NoContainer]
          /\ Continue(r, "clean")
       \/ /\ Fault("remove")
          /\ Continue(r, AfterError(r))
          /\ UNCHANGED cont
    /\ UNCHANGED <<creds, recordVars, flightVars, hostVars>>

CleanCredentials(r) ==
    /\ pc[r] = "clean"
    /\ \/ /\ creds' = creds \ {job[r].name}
          /\ Continue(r, "forget")
       \/ /\ Fault("clean")
          /\ Continue(r, AfterError(r))
          /\ UNCHANGED creds
    /\ UNCHANGED <<cont, recordVars, flightVars, hostVars>>

(* Is it still running?  An error of the inspection is taken for a no.      *)
ProbeStopped(r) ==
    /\ pc[r] = "probe"
    /\ \/ Up(job[r].name) /\ Respond(r)
       \/ (~Up(job[r].name) \/ Fault("inspect")) /\ Continue(r, "forget")
    /\ UNCHANGED <<daemonVars, recordVars, flightVars, hostVars>>

ForgetContainer(r) ==
    /\ pc[r] = "forget"
    /\ Drop(job[r].name)
    /\ Respond(r)
    /\ UNCHANGED <<daemonVars, flightVars, hostVars>>

-----------------------------------------------------------------------------
(* Idle timers.                                                             *)

(* idleTimeout has gone by since the timer was last reset, which is when    *)
(* the record was last used; its goroutine starts.                          *)
Fire(n, j) ==
    /\ timer[n] = "armed"
    /\ pc[j] = "idle"
    /\ timer' = [timer EXCEPT ![n] = "fired"]
    /\ rec' = [rec EXCEPT ![n].old = TRUE]
    /\ Goto(j, "check")
    /\ job' = [job EXCEPT ![j] = [NoJob EXCEPT !.op = "expire", !.name = n]]
    /\ UNCHANGED <<daemonVars, index, flightVars, hostVars>>

(* Mutated form of Rearm: the timer is not set again.                       *)
LeaveFired(n) == n \in Names /\ UNCHANGED timer

Rearm(n) == timer' = [timer EXCEPT ![n] = "armed"]

Busy(n) == pending[n] > 0 \/ rec[n].inFlight > 0 \/ ~rec[n].old

(* expireIdleContainer decides under the mutex and stops without it.        *)
ExpireIdle(j) ==
    /\ pc[j] = "check"
    /\ LET n == job[j].name
       IN  \/ /\ ~rec[n].known
              /\ timer' = [timer EXCEPT ![n] = "none"]
              /\ Respond(j)
           \/ /\ rec[n].known /\ Busy(n)
              /\ Rearm(n)
              /\ Respond(j)
           \/ /\ rec[n].known /\ ~Busy(n)
              /\ Continue(j, "stop")
              /\ UNCHANGED timer
    /\ UNCHANGED <<daemonVars, rec, index, flightVars, hostVars>>

-----------------------------------------------------------------------------
(* ResolveContainerBySourceIP, for a caller of the proxy port, and the      *)
(* touch of the container that is found.                                    *)

(* getContainerBySourceIPCached: the index, then the records.               *)
LookUp(r) ==
    /\ pc[r] = "lookup"
    /\ LET src == job[r].src
           hit == index[src] # NoName /\ rec[index[src]].known
           same == {n \in Names : rec[n].known /\ rec[n].ip = src}
           Found(n) == /\ job' = [job EXCEPT ![r].name = n]
                       /\ Goto(r, "touch")
       IN  \/ /\ hit
              /\ Found(index[src])
              /\ UNCHANGED index
           \/ /\ ~hit
              /\ \E n \in same : Found(n) /\ index' = [index EXCEPT ![src] = n]
           \/ /\ ~hit /\ same = {}
              /\ index' = [index EXCEPT ![src] = NoName]
              /\ job' = [job EXCEPT ![r].todo = {n \in Names : rec[n].known}]
              /\ Goto(r, "scan")
    /\ UNCHANGED <<daemonVars, rec, timer, flightVars, hostVars>>

(* Ask the daemon for the address of each container in turn.                *)
Scan(r) ==
    /\ pc[r] = "scan"
    /\ \/ job[r].todo = {} /\ Respond(r)
       \/ \E n \in job[r].todo :
            LET rest == job[r].todo \ {n}
            IN  \/ /\ Up(n)
                   /\ job' = [job EXCEPT ![r].todo = rest, ![r].name = n,
                                         ![r].ip = cont[n].ip]
                   /\ Goto(r, "reindex")
                \/ /\ ~Up(n) \/ Fault("inspect")
                   /\ job' = [job EXCEPT ![r].todo = rest]
                   /\ UNCHANGED pc
    /\ UNCHANGED <<daemonVars, recordVars, flightVars, hostVars>>

Reindex(r) ==
    /\ pc[r] = "reindex"
    /\ LET n == job[r].name
           ip == job[r].ip
           moved == IF rec[n].ip = ip THEN index
                                      ELSE [index EXCEPT ![rec[n].ip] = NoName]
       IN  \/ /\ ~rec[n].known
              /\ Continue(r, "scan")
              /\ UNCHANGED recordVars
           \/ /\ rec[n].known
              /\ rec' = [rec EXCEPT ![n].ip = ip]
              /\ index' = [moved EXCEPT ![ip] = n]
              /\ Continue(r, IF ip = job[r].src THEN "copy" ELSE "scan")
              /\ UNCHANGED timer
    /\ UNCHANGED <<daemonVars, flightVars, hostVars>>

CopyFound(r) ==
    /\ pc[r] = "copy"
    /\ Continue(r, IF rec[job[r].name].known THEN "touch" ELSE "scan")
    /\ UNCHANGED <<daemonVars, recordVars, flightVars, hostVars>>

-----------------------------------------------------------------------------
(* What happens without the manager.                                        *)

(* The container's main process ends; its address is free again.            *)
Die(n) ==
    /\ Fault("die")
    /\ Up(n)
    /\ cont' = [cont EXCEPT ![n].status = "down", ![n].ip = NoIP]
    /\ UNCHANGED <<creds, recordVars, flightVars, hostVars, procVars>>

(* The service starts again, perhaps with another image, and discovers the  *)
(* containers that run before it serves; it skips those it cannot inspect.  *)
Restart ==
    /\ restarts < MaxRestarts
    /\ restarts' = restarts + 1
    /\ image' \in {image, image + 1}
    /\ LET up == {n \in Names : Up(n)}
       IN  \E found \in IF Fault("inspect") THEN SUBSET up ELSE {up} :
            /\ rec' = [n \in Names |->
                         IF n \in found
                         THEN [known |-> TRUE, ip |-> cont[n].ip, inFlight |-> 0,
                               old |-> FALSE]
                         ELSE NoRecord]
            /\ index' = [i \in IPs |->
                           IF \E n \in found : cont[n].ip = i
                           THEN CHOOSE n \in found : cont[n].ip = i
                           ELSE NoName]
            /\ timer' = [n \in Names |-> IF n \in found THEN "armed" ELSE "none"]
    /\ flight' = [n \in Names |-> NoProc]
    /\ pending' = [n \in Names |-> 0]
    /\ pc' = [r \in Procs |-> "idle"]
    /\ job' = [r \in Procs |-> NoJob]
    /\ UNCHANGED daemonVars

-----------------------------------------------------------------------------

Flying(r) ==
    \/ Cached(r) \/ InspectCached(r) \/ CacheHit(r) \/ Evict(r) \/ DropStale(r)
    \/ InspectExisting(r) \/ Adopt(r) \/ Clear(r) \/ Prepare(r)
    \/ CreateContainer(r) \/ StartContainer(r) \/ ReadAddress(r)
    \/ RecordContainer(r) \/ Land(r)

Terminating(r) ==
    \/ StopContainer(r) \/ ForceRemove(r) \/ CleanCredentials(r)
    \/ ProbeStopped(r) \/ ForgetContainer(r)

Resolving(r) == LookUp(r) \/ Scan(r) \/ Reindex(r) \/ CopyFound(r)

Serving(r) ==
    \/ TouchContainer(r) \/ AddInFlightRequest(r) \/ EnsureContainer(r)
    \/ Flying(r) \/ Resolving(r)

Next ==
    \/ \E r \in Requests :
        Arrive(r) \/ CallProxy(r) \/ Serving(r) \/ RemoveInFlightRequest(r)
    \/ \E r \in Procs : Terminating(r)
    \/ \E j \in Janitors : ExpireIdle(j) \/ \E n \in Names : Fire(n, j)
    \/ \E n \in Names : Die(n)
    \/ Restart

Spec == Init /\ [][Next]_vars

(* Calls of the daemon return or time out and timers fire.  A command that  *)
(* runs in a container may do so for ever, and nobody has to send requests. *)
FairSpec ==
    /\ Spec
    /\ \A r \in Requests : WF_vars(Serving(r) \/ Terminating(r))
    /\ \A j \in Janitors : WF_vars(ExpireIdle(j) \/ Terminating(j))
    /\ \A n \in Names : WF_vars(\E j \in Janitors : Fire(n, j))

-----------------------------------------------------------------------------
(* Safety.                                                                  *)

(* An index entry always leads to a record of that very address, so that   *)
(* getContainerBySourceIPCached never answers with a container the caller's *)
(* address was taken from: no path that replaces a record leaves its old    *)
(* entry behind.                                                            *)
IndexSound ==
    \A i \in IPs : index[i] # NoName =>
        rec[index[i]].known /\ rec[index[i]].ip = i

InFlight(n) == {r \in Requests : job[r].counted /\ job[r].name = n}

(* A record never counts a request that is over: one such request too many  *)
(* and expireIdleContainer would keep the container for ever.  Records come *)
(* and go between AddInFlightRequest and RemoveInFlightRequest.             *)
InFlightBacked == \A n \in Names : rec[n].inFlight <= Cardinality(InFlight(n))

(* When a flight is about to create a container, the name is free: only the *)
(* flight creates, and it removed what was there (ensureContainerUnlocked   *)
(* ignores the errors of that removal).                                     *)
NameFree ==
    \A r \in Requests : pc[r] \in {"credentials", "create"} =>
        cont[job[r].name].status = "none"

(* Temporary R2 credentials never outlive their container: somebody is      *)
(* about to create it or to remove them.                                    *)
CredentialsOwned ==
    \A n \in creds :
        \/ cont[n].status # "none"
        \/ \E r \in Procs : job[r].name = n /\ pc[r] \in {"create", "clean"}

Ending == {"check"} \cup TerminateSteps

(* A record is never left without an idle timer, except while the goroutine *)
(* of its last one, or a request, is about to remove it.                    *)
Watched ==
    \A n \in Names : rec[n].known =>
        \/ timer[n] = "armed"
        \/ \E r \in Procs : job[r].name = n /\ pc[r] \in Ending

-----------------------------------------------------------------------------
(* Liveness.                                                                *)

(* A request gets as far as its command, or is answered: a flight always    *)
(* lands and wakes everybody who waits for it, whatever failed on the way.  *)
Answered ==
    \A r \in Requests : pc[r] # "idle" ~> pc[r] \in {"idle", "close"}

(* A container that no request is concerned with is stopped in the end, and *)
(* its record removed: no timer is lost and no in-flight count is stuck.    *)
IdleEnds ==
    \A n \in Names :
        rec[n].known ~> \/ ~rec[n].known
                        \/ \E r \in Requests : pc[r] # "idle" /\ job[r].name = n

=============================================================================
