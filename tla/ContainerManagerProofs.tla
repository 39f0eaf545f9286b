------------------------ MODULE ContainerManagerProofs ------------------------
(***************************************************************************)
(* Theorems about ContainerManager: type correctness, one leader per        *)
(* flight, the address index, the free name, the in-flight counts, the      *)
(* owners of credentials and the idle timers, for any sets of names,        *)
(* requests and addresses.                                                  *)
(***************************************************************************)
EXTENDS ContainerManager, FiniteSetTheorems, TLAPS

-----------------------------------------------------------------------------
(* Type correctness.                                                        *)

(* A process that moves to a step with what the step works on is well typed. *)
LEMMA Moving ==
    ASSUME ProcsOK, NEW r \in Procs, NEW s \in Steps, NEW j \in Job,
           pc' = [pc EXCEPT ![r] = s], job' = [job EXCEPT ![r] = j], Fits(s, j)
    PROVE  ProcsOK'
  BY DEF ProcsOK, Fits

(* So is one that moves on and keeps its variables.                         *)
LEMMA Continuing ==
    ASSUME ProcsOK, NEW r \in Procs, NEW s \in Steps, Continue(r, s),
           Fits(s, job[r])
    PROVE  ProcsOK'
  BY DEF ProcsOK, Fits, Continue, Goto

(* A process starts from, and answers into, a well typed job.               *)
LEMMA NoJobTyped == NoJob \in Job
  BY DEF NoJob, Job, Address

(* A request that is answered, or a timer's goroutine that returns.         *)
LEMMA Responding ==
    ASSUME ProcsOK, NEW r \in Procs, Respond(r)
    PROVE  ProcsOK'
<1>1. "idle" \in Steps
  BY DEF Steps, OtherSteps
<1>2. Fits("idle", NoJob)
  BY DEF Fits
<1> QED
  BY <1>1, <1>2, Moving, NoJobTyped DEF Respond, Goto

(* A leader that is about to publish the outcome of its flight.             *)
LEMMA Landing ==
    ASSUME ProcsOK, NEW r \in Procs, NEW ok \in BOOLEAN, Outcome(r, ok),
           job[r].name \in Names
    PROVE  ProcsOK'
<1>1. [job[r] EXCEPT !.ok = ok] \in Job
  BY DEF ProcsOK, Job
<1>2. job' = [job EXCEPT ![r] = [job[r] EXCEPT !.ok = ok]]
  BY DEF Outcome
<1>3. "land" \in Steps
  BY DEF Steps, FlightSteps
<1>4. Fits("land", [job[r] EXCEPT !.ok = ok])
  BY DEF Fits, ProcsOK, Job
<1> QED
  BY <1>1, <1>2, <1>3, <1>4, Moving DEF Outcome, Goto

(* Using, entering and dropping a record keep the records well typed.       *)
LEMMA Bookkeeping ==
    ASSUME RecordsOK, NEW n \in Names
    PROVE  /\ Use(n) => RecordsOK'
           /\ Drop(n) => RecordsOK'
           /\ \A ip \in IPs : Enter(n, ip) => RecordsOK'
<1>1. NoRecord \in Record
  BY DEF NoRecord, Record, Address
<1>2. Use(n) => RecordsOK'
  BY DEF RecordsOK, Use, Record
<1>3. Drop(n) => RecordsOK'
  BY <1>1 DEF RecordsOK, Drop
<1>4. ASSUME NEW ip \in IPs, Enter(n, ip)
      PROVE  RecordsOK'
  <2>1. [known |-> TRUE, ip |-> ip, inFlight |-> 0, old |-> FALSE] \in Record
    BY DEF Record, Address
  <2> QED
    BY <2>1, <1>4 DEF RecordsOK, Enter
<1> QED
  BY <1>2, <1>3, <1>4

(* So does removing a container with its credentials, or failing to.        *)
LEMMA Removing ==
    ASSUME DaemonOK, NEW n \in Names, RemoveContainer(n)
    PROVE  DaemonOK'
<1>1. NoContainer \in Container /\ NoContainer.status # "up"
  BY DEF NoContainer, Container, Address
<1> QED
  BY <1>1 DEF DaemonOK, RemoveContainer, daemonVars

(* So does a change of one container, whoever makes it.                     *)
LEMMA Changing ==
    ASSUME DaemonOK, NEW n \in Names, NEW c \in Container,
           c.status = "up" => c.ip \in IPs,
           cont' = [cont EXCEPT ![n] = c], UNCHANGED creds
    PROVE  DaemonOK'
  BY DEF DaemonOK

(* What an action leaves alone stays well typed.                            *)
LEMMA Untouched ==
    ASSUME TypeOK
    PROVE  /\ UNCHANGED daemonVars => DaemonOK'
           /\ UNCHANGED recordVars => RecordsOK'
           /\ UNCHANGED flightVars => FlightsOK'
           /\ UNCHANGED hostVars => image' \in Nat /\ restarts' \in Nat
           /\ UNCHANGED procVars => ProcsOK'
  BY DEF TypeOK, DaemonOK, RecordsOK, FlightsOK, ProcsOK, Fits,
         daemonVars, recordVars, flightVars, hostVars, procVars

(* The bookkeeping of a request keeps every variable typed: arrivals,       *)
(* touches and the in-flight counts.                                        *)
LEMMA ServingTyped ==
    ASSUME TypeOK, NEW r \in Requests
    PROVE  /\ Arrive(r) => TypeOK'
           /\ CallProxy(r) => TypeOK'
           /\ TouchContainer(r) => TypeOK'
           /\ AddInFlightRequest(r) => TypeOK'
           /\ RemoveInFlightRequest(r) => TypeOK'
<1> DEFINE n == job[r].name
<1>0. r \in Procs /\ ProcsOK /\ RecordsOK /\ DaemonOK
  BY DEF Procs, TypeOK
<1>1. ASSUME Arrive(r)
      PROVE  TypeOK'
  <2>1. PICK o \in Ops \ {"proxy"}, m \in Names :
           /\ job' = [job EXCEPT ![r] = [NoJob EXCEPT !.op = o, !.name = m]]
           /\ \E step \in FirstSteps(o) : Goto(r, step)
    BY <1>1 DEF Arrive
  <2>0. PICK step \in FirstSteps(o) : Goto(r, step)
    BY <2>1
  <2>2. [NoJob EXCEPT !.op = o, !.name = m] \in Job
    BY <2>1, ContainerAssumption DEF NoJob, Job, Address
  <2>3. step \in {"ensure", "touch", "stop"}
    BY <2>0, <2>1 DEF FirstSteps
  <2>4. step \in Steps
    BY <2>3 DEF Steps, OtherSteps, TerminateSteps
  <2>5. Fits(step, [NoJob EXCEPT !.op = o, !.name = m])
    BY <2>3 DEF Fits, NoJob
  <2>6. ProcsOK'
    BY <1>0, <2>0, <2>1, <2>2, <2>4, <2>5, Moving DEF Goto
  <2> QED
    BY <2>6, <1>1, Untouched DEF Arrive, TypeOK
<1>2. ASSUME CallProxy(r)
      PROVE  TypeOK'
  <2>1. PICK m \in Names :
           /\ Up(m)
           /\ job' = [job EXCEPT ![r] =
                        [NoJob EXCEPT !.op = "proxy", !.src = cont[m].ip]]
    BY <1>2 DEF CallProxy
  <2>2. cont[m].ip \in IPs
    BY <1>0, <2>1 DEF DaemonOK, Up
  <2>3. [NoJob EXCEPT !.op = "proxy", !.src = cont[m].ip] \in Job
    BY <2>2 DEF NoJob, Job, Address, RouteOps
  <2>4. "lookup" \in Steps
    BY DEF Steps, OtherSteps
  <2>5. Fits("lookup", [NoJob EXCEPT !.op = "proxy", !.src = cont[m].ip])
    BY <2>2 DEF Fits, NoJob
  <2>6. ProcsOK'
    BY <1>0, <1>2, <2>1, <2>3, <2>4, <2>5, Moving DEF CallProxy, Goto
  <2> QED
    BY <2>6, <1>2, Untouched DEF CallProxy, TypeOK
<1>3. ASSUME TouchContainer(r)
      PROVE  TypeOK'
  <2>1. n \in Names
    BY <1>0, <1>3 DEF TouchContainer, ProcsOK, Fits
  <2>2. RecordsOK'
    BY <1>0, <1>3, <2>1, Bookkeeping, Untouched DEF TouchContainer
  <2>3. ProcsOK'
    <3>1. {"ensure", "open", "stop"} \subseteq Steps
      BY DEF Steps, OtherSteps, TerminateSteps
    <3>2. \/ \E s \in {"ensure", "open", "stop"} : Continue(r, s)
          \/ Respond(r)
      BY <1>3 DEF TouchContainer
    <3>3. \A s \in {"ensure", "open", "stop"} : Fits(s, job[r])
      BY <2>1 DEF Fits
    <3> QED
      BY <1>0, <3>1, <3>2, <3>3, Continuing, Responding
  <2> QED
    BY <2>2, <2>3, <1>3, Untouched DEF TouchContainer, TypeOK
<1>4. ASSUME AddInFlightRequest(r)
      PROVE  TypeOK'
  <2>1. n \in Names
    BY <1>0, <1>4 DEF AddInFlightRequest, ProcsOK, Fits
  <2>2. RecordsOK'
    <3>1. rec[n] \in Record /\ rec[n].inFlight + 1 \in Nat
      BY <1>0, <2>1 DEF RecordsOK, Record
    <3>2. [rec[n] EXCEPT !.inFlight = @ + 1, !.old = FALSE] \in Record
      BY <3>1 DEF Record
    <3> QED
      BY <1>0, <1>4, <2>1, <3>2 DEF AddInFlightRequest, RecordsOK
  <2>3. [job[r] EXCEPT !.counted = TRUE] \in Job
    BY <1>0 DEF ProcsOK, Job
  <2>4. PICK s \in {"ensure", "close"} : Goto(r, s)
    BY <1>4 DEF AddInFlightRequest
  <2>5. s \in Steps /\ Fits(s, [job[r] EXCEPT !.counted = TRUE])
    BY <1>0, <2>1, <2>4 DEF Fits, Steps, OtherSteps, ProcsOK, Job
  <2>6. ProcsOK'
    <3>1. job' = [job EXCEPT ![r] = [job[r] EXCEPT !.counted = TRUE]]
      BY <1>4 DEF AddInFlightRequest
    <3> QED
      BY <1>0, <2>3, <2>4, <2>5, <3>1, Moving DEF Goto
  <2> QED
    BY <2>2, <2>6, <1>4, Untouched DEF AddInFlightRequest, TypeOK
<1>5. ASSUME RemoveInFlightRequest(r)
      PROVE  TypeOK'
  <2>1. n \in Names
    BY <1>0, <1>5 DEF RemoveInFlightRequest, ProcsOK, Fits
  <2>2. RecordsOK'
    <3>1. \A c \in Nat : Less(c) \in Nat
      BY DEF Less
    <3>2. rec[n] \in Record /\ Less(rec[n].inFlight) \in Nat
      BY <1>0, <2>1, <3>1 DEF RecordsOK, Record
    <3>3. [rec[n] EXCEPT !.inFlight = Less(@), !.old = FALSE] \in Record
      BY <3>2 DEF Record
    <3> QED
      BY <1>0, <1>5, <2>1, <3>3 DEF RemoveInFlightRequest, RecordsOK
  <2>3. ProcsOK'
    BY <1>0, <1>5, Responding DEF RemoveInFlightRequest
  <2> QED
    BY <2>2, <2>3, <1>5, Untouched DEF RemoveInFlightRequest, TypeOK
<1> QED
  BY <1>1, <1>2, <1>3, <1>4, <1>5

(* So does joining or starting a flight, and looking at the record.         *)
LEMMA TakeoffTyped ==
    ASSUME TypeOK, NEW r \in Requests
    PROVE  /\ EnsureContainer(r) => TypeOK'
           /\ Cached(r) => TypeOK'
           /\ InspectCached(r) => TypeOK'
           /\ CacheHit(r) => TypeOK'
           /\ Evict(r) => TypeOK'
           /\ DropStale(r) => TypeOK'
<1> DEFINE n == job[r].name
           S == {"wait", "cached", "inspect", "reinspect", "hit", "evict", "drop"}
<1>0. r \in Procs /\ ProcsOK /\ RecordsOK /\ DaemonOK
  BY DEF Procs, TypeOK
<1>1. S \subseteq Steps
  BY DEF Steps, FlightSteps, OtherSteps
<1>2. ASSUME NEW s \in S, Continue(r, s), n \in Names
      PROVE  ProcsOK'
  BY <1>0, <1>1, <1>2, Continuing DEF Fits
<1>3. ASSUME EnsureContainer(r)
      PROVE  TypeOK'
  <2>1. n \in Names
    BY <1>0, <1>3 DEF EnsureContainer, ProcsOK, Fits
  <2>2. FlightsOK'
    BY <1>3, <2>1 DEF EnsureContainer, TypeOK, FlightsOK, flightVars
  <2>3. ProcsOK'
    BY <1>2, <1>3, <2>1 DEF EnsureContainer
  <2> QED
    BY <2>2, <2>3, <1>3, Untouched DEF EnsureContainer, TypeOK
<1>4. ASSUME Cached(r)
      PROVE  TypeOK'
  <2>1. n \in Names
    BY <1>0, <1>4 DEF Cached, ProcsOK, Fits
  <2>2. ProcsOK'
    BY <1>2, <1>4, <2>1 DEF Cached
  <2> QED
    BY <2>2, <1>4, Untouched DEF Cached, TypeOK
<1>5. ASSUME InspectCached(r)
      PROVE  TypeOK'
  <2>1. n \in Names
    BY <1>0, <1>5 DEF InspectCached, ProcsOK, Fits
  <2>2. ProcsOK'
    BY <1>2, <1>5, <2>1 DEF InspectCached
  <2> QED
    BY <2>2, <1>5, Untouched DEF InspectCached, TypeOK
<1>6. ASSUME CacheHit(r)
      PROVE  TypeOK'
  <2>1. n \in Names
    BY <1>0, <1>6 DEF CacheHit, ProcsOK, Fits
  <2>2. RecordsOK'
    BY <1>0, <1>6, <2>1, Bookkeeping, Untouched DEF CacheHit
  <2>3. ProcsOK'
    BY <1>0, <1>2, <1>6, <2>1, Landing DEF CacheHit
  <2> QED
    BY <2>2, <2>3, <1>6, Untouched DEF CacheHit, TypeOK
<1>7. ASSUME Evict(r)
      PROVE  TypeOK'
  <2>1. n \in Names
    BY <1>0, <1>7 DEF Evict, ProcsOK, Fits
  <2>2. DaemonOK'
    BY <1>0, <1>7, <2>1, Removing DEF Evict
  <2>3. ProcsOK'
    BY <1>2, <1>7, <2>1 DEF Evict
  <2> QED
    BY <2>2, <2>3, <1>7, Untouched DEF Evict, TypeOK
<1>8. ASSUME DropStale(r)
      PROVE  TypeOK'
  <2>1. n \in Names
    BY <1>0, <1>8 DEF DropStale, ProcsOK, Fits
  <2>2. RecordsOK'
    BY <1>0, <1>8, <2>1, Bookkeeping DEF DropStale
  <2>3. ProcsOK'
    BY <1>2, <1>8, <2>1 DEF DropStale
  <2> QED
    BY <2>2, <2>3, <1>8, Untouched DEF DropStale, TypeOK
<1> QED
  BY <1>3, <1>4, <1>5, <1>6, <1>7, <1>8

(* So does creating a container or taking over one that runs.               *)
LEMMA CreationTyped ==
    ASSUME TypeOK, NEW r \in Requests
    PROVE  /\ InspectExisting(r) => TypeOK'
           /\ Adopt(r) => TypeOK'
           /\ Clear(r) => TypeOK'
           /\ Prepare(r) => TypeOK'
           /\ CreateContainer(r) => TypeOK'
           /\ StartContainer(r) => TypeOK'
           /\ ReadAddress(r) => TypeOK'
           /\ RecordContainer(r) => TypeOK'
<1> DEFINE n == job[r].name
           S == {"clear", "credentials", "create", "boot", "address"}
<1>0. r \in Procs /\ ProcsOK /\ RecordsOK /\ DaemonOK /\ image \in Nat
  BY DEF Procs, TypeOK
<1>1. S \subseteq Steps /\ {"adopt", "record"} \subseteq Steps
  BY DEF Steps, FlightSteps
<1>2. ASSUME NEW s \in S, Continue(r, s), n \in Names
      PROVE  ProcsOK'
  BY <1>0, <1>1, <1>2, Continuing DEF Fits
<1>3. ASSUME NEW s \in {"adopt", "record"}, n \in Names, Up(n), Goto(r, s),
             job' = [job EXCEPT ![r].ip = cont[n].ip]
      PROVE  ProcsOK'
  <2> DEFINE j == [job[r] EXCEPT !.ip = cont[n].ip]
  <2>1. cont[n].ip \in IPs
    BY <1>0, <1>3 DEF DaemonOK, Up
  <2>2. j \in Job /\ j.name = n /\ j.ip \in IPs
    BY <1>0, <2>1 DEF ProcsOK, Job, Address
  <2>3. Fits(s, j)
    BY <1>3, <2>2 DEF Fits
  <2>4. job' = [job EXCEPT ![r] = j]
    BY <1>3
  <2> QED
    BY <1>0, <1>1, <1>3, <2>2, <2>3, <2>4, Moving DEF Goto
<1>4. ASSUME InspectExisting(r)
      PROVE  TypeOK'
  <2>1. n \in Names
    BY <1>0, <1>4 DEF InspectExisting, ProcsOK, Fits
  <2>2. DaemonOK'
    BY <1>0, <1>4, <2>1, Removing, Untouched DEF InspectExisting
  <2>3. ProcsOK'
    BY <1>2, <1>3, <1>4, <2>1 DEF InspectExisting
  <2> QED
    BY <2>2, <2>3, <1>4, Untouched DEF InspectExisting, TypeOK
<1>5. ASSUME Adopt(r)
      PROVE  TypeOK'
  <2>1. n \in Names /\ job[r].ip \in IPs
    BY <1>0, <1>5 DEF Adopt, ProcsOK, Fits
  <2>2. RecordsOK' /\ ProcsOK'
    BY <1>0, <1>5, <2>1, Bookkeeping, Landing DEF Adopt
  <2> QED
    BY <2>2, <1>5, Untouched DEF Adopt, TypeOK
<1>6. ASSUME Clear(r)
      PROVE  TypeOK'
  <2>1. n \in Names
    BY <1>0, <1>6 DEF Clear, ProcsOK, Fits
  <2>2. DaemonOK' /\ ProcsOK'
    BY <1>0, <1>2, <1>6, <2>1, Removing DEF Clear
  <2> QED
    BY <2>2, <1>6, Untouched DEF Clear, TypeOK
<1>7. ASSUME Prepare(r)
      PROVE  TypeOK'
  <2>1. n \in Names
    BY <1>0, <1>7 DEF Prepare, ProcsOK, Fits
  <2>2. DaemonOK'
    BY <1>0, <1>7, <2>1 DEF Prepare, DaemonOK
  <2>3. ProcsOK'
    BY <1>0, <1>2, <1>7, <2>1, Landing DEF Prepare
  <2> QED
    BY <2>2, <2>3, <1>7, Untouched DEF Prepare, TypeOK
<1>8. ASSUME CreateContainer(r)
      PROVE  TypeOK'
  <2>1. n \in Names
    BY <1>0, <1>8 DEF CreateContainer, ProcsOK, Fits
  <2>2. DaemonOK'
    <3> DEFINE c == [status |-> "down", ip |-> NoIP, image |-> image]
    <3>1. c \in Container /\ c.status # "up"
      BY <1>0 DEF Container, Address
    <3>2. CASE cont' = [cont EXCEPT ![n] = c] /\ UNCHANGED creds
      BY <1>0, <2>1, <3>1, <3>2, Changing
    <3>3. CASE Discard(r) /\ UNCHANGED cont
      BY <1>0, <3>3 DEF Discard, DaemonOK
    <3> QED
      BY <1>8, <3>2, <3>3 DEF CreateContainer
  <2>3. ProcsOK'
    BY <1>0, <1>2, <1>8, <2>1, Landing DEF CreateContainer
  <2> QED
    BY <2>2, <2>3, <1>8, Untouched DEF CreateContainer, TypeOK
<1>9. ASSUME StartContainer(r)
      PROVE  TypeOK'
  <2>1. n \in Names
    BY <1>0, <1>9 DEF StartContainer, ProcsOK, Fits
  <2>2. DaemonOK'
    <3>1. ASSUME NEW ip \in FreeIPs,
                 cont' = [cont EXCEPT ![n].status = "up", ![n].ip = ip],
                 UNCHANGED creds
          PROVE  DaemonOK'
      <4> DEFINE c == [cont[n] EXCEPT !.status = "up", !.ip = ip]
      <4>1. ip \in IPs
        BY <3>1 DEF FreeIPs
      <4>2. cont[n] \in Container
        BY <1>0, <2>1 DEF DaemonOK
      <4>3. c \in Container /\ c.ip \in IPs
        BY <4>1, <4>2 DEF Container, Address
      <4>4. cont' = [cont EXCEPT ![n] = c]
        BY <3>1, <2>1, <1>0 DEF DaemonOK
      <4> QED
        BY <1>0, <2>1, <3>1, <4>3, <4>4, Changing
    <3>2. CASE UNCHANGED daemonVars
      BY <3>2, Untouched
    <3> QED
      BY <1>9, <3>1, <3>2 DEF StartContainer, daemonVars
  <2>3. ProcsOK'
    BY <1>0, <1>2, <1>9, <2>1, Landing DEF StartContainer
  <2> QED
    BY <2>2, <2>3, <1>9, Untouched DEF StartContainer, TypeOK
<1>10. ASSUME ReadAddress(r)
       PROVE  TypeOK'
  <2>1. n \in Names
    BY <1>0, <1>10 DEF ReadAddress, ProcsOK, Fits
  <2>2. ProcsOK'
    BY <1>0, <1>3, <1>10, <2>1, Landing DEF ReadAddress
  <2> QED
    BY <2>2, <1>10, Untouched DEF ReadAddress, TypeOK
<1>11. ASSUME RecordContainer(r)
       PROVE  TypeOK'
  <2>1. n \in Names /\ job[r].ip \in IPs
    BY <1>0, <1>11 DEF RecordContainer, ProcsOK, Fits
  <2>2. RecordsOK' /\ ProcsOK'
    BY <1>0, <1>11, <2>1, Bookkeeping, Landing DEF RecordContainer
  <2> QED
    BY <2>2, <1>11, Untouched DEF RecordContainer, TypeOK
<1> QED
  BY <1>4, <1>5, <1>6, <1>7, <1>8, <1>9, <1>10, <1>11

(* After a flight a request counts, executes or is answered.                *)
LEMMA Returning ==
    ASSUME NEW w, NEW ok
    PROVE  After(w, ok) \in {"close", "open", "idle"}
  BY DEF After

(* So does landing a flight, for its leader and for everybody it wakes.     *)
LEMMA LandTyped ==
    ASSUME TypeOK, NEW r \in Requests, Land(r)
    PROVE  TypeOK'
<1> DEFINE n == job[r].name
           ok == job[r].ok
           Back(w) == [job[w] EXCEPT !.ip = NoIP, !.ok = FALSE]
<1>0. r \in Procs /\ ProcsOK
  BY DEF Procs, TypeOK
<1>1. n \in Names
  BY <1>0 DEF Land, ProcsOK, Fits
<1>2. FlightsOK'
  <2>1. flight' = [flight EXCEPT ![n] = NoProc]
    BY DEF Land
  <2>2. pending' = [pending EXCEPT ![n] = IF @ <= 1 THEN 0 ELSE @ - 1]
    BY DEF Land
  <2>3. \A c \in Nat : (IF c <= 1 THEN 0 ELSE c - 1) \in Nat
    OBVIOUS
  <2> HIDE DEF n
  <2> QED
    BY <1>1, <2>1, <2>2, <2>3 DEF TypeOK, FlightsOK
<1>3. ASSUME NEW w \in Procs
      PROVE  pc'[w] \in Steps /\ job'[w] \in Job /\ Fits(pc'[w], job'[w])
  <2>1. CASE w \in Woken(r)
    <3>1. job[w] \in Job /\ job[w].name \in Names
      <4>1. w = r \/ pc[w] = "wait"
        BY <2>1 DEF Woken, Waiters
      <4> QED
        BY <1>0, <1>1, <1>3, <4>1 DEF ProcsOK, Fits
    <3>2. pc'[w] = After(w, ok)
      BY <1>3, <2>1 DEF Land
    <3>3. job'[w] = IF After(w, ok) = "idle" THEN NoJob ELSE Back(w)
      BY <1>3, <2>1 DEF Land
    <3>4. Back(w) \in Job /\ Back(w).name = job[w].name
      BY <3>1 DEF Job, Address
    <3>5. After(w, ok) \in Steps
      BY Returning DEF Steps, OtherSteps
    <3> QED
      BY <3>1, <3>2, <3>3, <3>4, <3>5, NoJobTyped, Returning DEF Fits
  <2>2. CASE w \notin Woken(r)
    <3>1. pc'[w] = pc[w] /\ job'[w] = job[w]
      BY <1>3, <2>2 DEF Land
    <3> QED
      BY <1>0, <1>3, <3>1 DEF ProcsOK, Fits
  <2> QED
    BY <2>1, <2>2
<1>4. pc' \in [Procs -> Steps] /\ job' \in [Procs -> Job]
  BY <1>3 DEF Land
<1>5. ProcsOK'
  <2>1. \A w \in Procs : Fits(pc'[w], job'[w])
    BY <1>3
  <2> QED
    BY <1>4, <2>1 DEF ProcsOK, Fits
<1> QED
  BY <1>2, <1>5, Untouched DEF Land, TypeOK

(* So does every call of TerminateContainer.                                *)
LEMMA TerminatingTyped ==
    ASSUME TypeOK, NEW r \in Procs, Terminating(r)
    PROVE  TypeOK'
<1> DEFINE n == job[r].name
           S == {"clean", "probe", "forget"}
<1>0. ProcsOK /\ RecordsOK /\ DaemonOK
  BY DEF TypeOK
<1>1. S \subseteq Steps /\ "remove" \in Steps
  BY DEF Steps, TerminateSteps
<1>2. n \in Names
  BY <1>0 DEF Terminating, StopContainer, ForceRemove, CleanCredentials,
              ProbeStopped, ForgetContainer, ProcsOK, Fits
<1>3. ASSUME NEW s \in S, Continue(r, s)
      PROVE  ProcsOK'
  BY <1>0, <1>1, <1>2, <1>3, Continuing DEF Fits
<1>4. ASSUME StopContainer(r)
      PROVE  TypeOK'
  <2>1. DaemonOK'
    <3>1. CASE cont' = [cont EXCEPT ![n].status = "down", ![n].ip = NoIP]
      <4> DEFINE c == [cont[n] EXCEPT !.status = "down", !.ip = NoIP]
      <4>1. c \in Container /\ c.status # "up"
        BY <1>0, <1>2 DEF DaemonOK, Container, Address
      <4>2. cont' = [cont EXCEPT ![n] = c]
        BY <3>1
      <4> QED
        BY <1>0, <1>2, <1>4, <4>1, <4>2, Changing DEF StopContainer
    <3>2. CASE UNCHANGED cont
      BY <1>4, <3>2, Untouched DEF StopContainer, daemonVars
    <3> QED
      BY <1>4, <3>1, <3>2 DEF StopContainer
  <2>2. PICK g \in BOOLEAN : job' = [job EXCEPT ![r].gone = g]
    <3>1. CASE UNCHANGED job
      <4>1. job = [job EXCEPT ![r].gone = job[r].gone]
        BY <1>0 DEF ProcsOK, Job
      <4>2. job[r].gone \in BOOLEAN
        BY <1>0 DEF ProcsOK, Job
      <4> QED
        BY <3>1, <4>1, <4>2
    <3> QED
      BY <1>4, <3>1 DEF StopContainer
  <2>3. [job[r] EXCEPT !.gone = g] \in Job
    BY <1>0 DEF ProcsOK, Job
  <2>4. Fits("remove", [job[r] EXCEPT !.gone = g])
    BY <1>0, <1>2 DEF Fits, ProcsOK, Job
  <2>5. ProcsOK'
    BY <1>0, <1>1, <1>4, <2>2, <2>3, <2>4, Moving DEF StopContainer, Goto
  <2> QED
    BY <2>1, <2>5, <1>4, Untouched DEF StopContainer, TypeOK
<1>5. ASSUME ForceRemove(r)
      PROVE  TypeOK'
  <2>1. NoContainer \in Container /\ NoContainer.status # "up"
    BY DEF NoContainer, Container, Address
  <2>2. DaemonOK'
    <3>1. CASE cont' = [cont EXCEPT ![n] = NoContainer]
      BY <1>0, <1>2, <1>5, <2>1, <3>1, Changing DEF ForceRemove
    <3>2. CASE UNCHANGED cont
      BY <1>5, <3>2, Untouched DEF ForceRemove, daemonVars
    <3> QED
      BY <1>5, <3>1, <3>2 DEF ForceRemove
  <2>3. ProcsOK'
    BY <1>3, <1>5 DEF ForceRemove, AfterError
  <2> QED
    BY <2>2, <2>3, <1>5, Untouched DEF ForceRemove, TypeOK
<1>6. ASSUME CleanCredentials(r)
      PROVE  TypeOK'
  <2>1. DaemonOK'
    BY <1>0, <1>6 DEF CleanCredentials, DaemonOK
  <2>2. ProcsOK'
    BY <1>3, <1>6 DEF CleanCredentials, AfterError
  <2> QED
    BY <2>1, <2>2, <1>6, Untouched DEF CleanCredentials, TypeOK
<1>7. ASSUME ProbeStopped(r)
      PROVE  TypeOK'
  <2>1. ProcsOK'
    BY <1>0, <1>3, <1>7, Responding DEF ProbeStopped
  <2> QED
    BY <2>1, <1>7, Untouched DEF ProbeStopped, TypeOK
<1>8. ASSUME ForgetContainer(r)
      PROVE  TypeOK'
  <2>1. RecordsOK' /\ ProcsOK'
    BY <1>0, <1>2, <1>8, Bookkeeping, Responding DEF ForgetContainer
  <2> QED
    BY <2>1, <1>8, Untouched DEF ForgetContainer, TypeOK
<1> QED
  BY <1>4, <1>5, <1>6, <1>7, <1>8 DEF Terminating

(* So does finding the container that calls the proxy port.                 *)
LEMMA ResolvingTyped ==
    ASSUME TypeOK, NEW r \in Requests, Resolving(r)
    PROVE  TypeOK'
<1> DEFINE S == {"touch", "scan", "reindex", "copy"}
<1>0. r \in Procs /\ ProcsOK /\ RecordsOK /\ DaemonOK
  BY DEF Procs, TypeOK
<1>1. S \subseteq Steps
  BY DEF Steps, OtherSteps
<1>2. job[r] \in Job /\ job[r].src \in IPs \cup {NoIP}
  BY <1>0 DEF ProcsOK, Job, Address
<1>3. pc[r] \in {"lookup", "scan", "reindex", "copy"} => job[r].src \in IPs
  BY <1>0 DEF ProcsOK, Fits
<1>4. ASSUME LookUp(r)
      PROVE  TypeOK'
  <2> DEFINE src == job[r].src
             Found(n) == /\ job' = [job EXCEPT ![r].name = n]
                         /\ Goto(r, "touch")
  <2>1. src \in IPs
    BY <1>3, <1>4 DEF LookUp
  <2>2. \/ /\ index[src] # NoName
           /\ Found(index[src])
           /\ UNCHANGED index
        \/ \E n \in Names : Found(n) /\ index' = [index EXCEPT ![src] = n]
        \/ /\ index' = [index EXCEPT ![src] = NoName]
           /\ job' = [job EXCEPT ![r].todo = {n \in Names : rec[n].known}]
           /\ Goto(r, "scan")
    BY <1>4 DEF LookUp
  <2>3. index[src] \in Names \cup {NoName}
    BY <1>0, <2>1 DEF RecordsOK
  <2>4. RecordsOK'
    BY <1>0, <1>4, <2>1, <2>2 DEF LookUp, RecordsOK
  <2>5. ASSUME NEW n \in Names, Found(n)
        PROVE  ProcsOK'
    <3>1. [job[r] EXCEPT !.name = n] \in Job
      BY <1>2 DEF Job
    <3>2. Fits("touch", [job[r] EXCEPT !.name = n])
      BY <1>2 DEF Fits, Job
    <3>3. job' = [job EXCEPT ![r] = [job[r] EXCEPT !.name = n]]
      BY <2>5
    <3> QED
      BY <1>0, <1>1, <2>5, <3>1, <3>2, <3>3, Moving DEF Goto
  <2>6. ASSUME job' = [job EXCEPT ![r].todo = {n \in Names : rec[n].known}],
               Goto(r, "scan")
        PROVE  ProcsOK'
    <3> DEFINE T == {n \in Names : rec[n].known}
               j == [job[r] EXCEPT !.todo = T]
    <3>1. j \in Job /\ j.src = src
      BY <1>2 DEF Job
    <3>2. Fits("scan", j)
      BY <2>1, <3>1 DEF Fits
    <3>3. job' = [job EXCEPT ![r] = j]
      BY <2>6
    <3> QED
      BY <1>0, <1>1, <2>6, <3>1, <3>2, <3>3, Moving DEF Goto
  <2>7. ProcsOK'
    BY <2>2, <2>3, <2>5, <2>6
  <2> QED
    BY <2>4, <2>7, <1>4, Untouched DEF LookUp, TypeOK, RecordsOK
<1>5. ASSUME Scan(r)
      PROVE  TypeOK'
  <2>1. CASE Respond(r)
    <3>1. ProcsOK'
      BY <1>0, <2>1, Responding
    <3> QED
      BY <3>1, <1>5, Untouched DEF Scan, TypeOK
  <2>2. ASSUME NEW n \in job[r].todo, Up(n), Goto(r, "reindex"),
               job' = [job EXCEPT ![r].todo = job[r].todo \ {n}, ![r].name = n,
                                  ![r].ip = cont[n].ip]
        PROVE  ProcsOK'
    <3> DEFINE T == job[r].todo \ {n}
               j == [job[r] EXCEPT !.todo = T, !.name = n, !.ip = cont[n].ip]
    <3>1. n \in Names /\ T \in SUBSET Names
      BY <1>2 DEF Job
    <3>2. cont[n].ip \in IPs
      BY <1>0, <2>2, <3>1 DEF DaemonOK, Up
    <3>3. j \in Job /\ j.name = n /\ j.ip = cont[n].ip /\ j.src = job[r].src
      BY <1>2, <3>1, <3>2 DEF Job, Address
    <3>4. Fits("reindex", j)
      BY <1>3, <1>5, <3>1, <3>2, <3>3 DEF Fits, Scan
    <3>5. job' = [job EXCEPT ![r] = j]
      BY <2>2
    <3> QED
      BY <1>0, <1>1, <2>2, <3>3, <3>4, <3>5, Moving DEF Goto
  <2>3. ASSUME NEW n \in job[r].todo, UNCHANGED pc,
               job' = [job EXCEPT ![r].todo = job[r].todo \ {n}]
        PROVE  ProcsOK'
    <3> DEFINE T == job[r].todo \ {n}
               j == [job[r] EXCEPT !.todo = T]
    <3>1. j \in Job /\ j.src = job[r].src
      BY <1>2 DEF Job
    <3>2. Fits("scan", j)
      BY <1>3, <1>5, <3>1 DEF Fits, Scan
    <3>3. job' = [job EXCEPT ![r] = j]
      BY <2>3
    <3>4. pc' = [pc EXCEPT ![r] = "scan"]
      BY <1>0, <1>5, <2>3 DEF Scan, ProcsOK
    <3> QED
      BY <1>0, <1>1, <3>1, <3>2, <3>3, <3>4, Moving
  <2>4. Respond(r) \/ ProcsOK'
    BY <1>5, <2>2, <2>3 DEF Scan
  <2> QED
    BY <2>1, <2>4, <1>5, Untouched DEF Scan, TypeOK
<1>6. ASSUME Reindex(r)
      PROVE  TypeOK'
  <2> DEFINE n == job[r].name
             ip == job[r].ip
  <2>1. n \in Names /\ ip \in IPs
    BY <1>0, <1>6 DEF Reindex, ProcsOK, Fits
  <2>2. RecordsOK'
    <3>1. CASE UNCHANGED recordVars
      BY <3>1, Untouched
    <3>2. CASE ~UNCHANGED recordVars
      <4>1. rec' = [rec EXCEPT ![n].ip = ip] /\ UNCHANGED timer
        BY <1>6, <3>2 DEF Reindex
      <4>2. index' = [IF rec[n].ip = ip THEN index
                      ELSE [index EXCEPT ![rec[n].ip] = NoName] EXCEPT ![ip] = n]
        BY <1>6, <3>2 DEF Reindex
      <4>3. rec' \in [Names -> Record]
        BY <1>0, <2>1, <4>1 DEF RecordsOK, Record, Address
      <4>4. index' \in [IPs -> Names \cup {NoName}]
        BY <1>0, <2>1, <4>2 DEF RecordsOK
      <4> QED
        BY <1>0, <4>1, <4>3, <4>4 DEF RecordsOK
    <3> QED
      BY <3>1, <3>2
  <2>3. ProcsOK'
    <3>1. PICK s \in {"scan", "copy"} : Continue(r, s)
      BY <1>6 DEF Reindex
    <3>2. Fits(s, job[r])
      BY <1>3, <1>6, <2>1 DEF Fits, Reindex
    <3> QED
      BY <1>0, <1>1, <3>1, <3>2, Continuing
  <2> QED
    BY <2>2, <2>3, <1>6, Untouched DEF Reindex, TypeOK
<1>7. ASSUME CopyFound(r)
      PROVE  TypeOK'
  <2>1. job[r].name \in Names
    BY <1>0, <1>7 DEF CopyFound, ProcsOK, Fits
  <2>2. PICK s \in {"touch", "scan"} : Continue(r, s)
    BY <1>7 DEF CopyFound
  <2>3. Fits(s, job[r])
    BY <1>3, <1>7, <2>1 DEF Fits, CopyFound
  <2>4. ProcsOK'
    BY <1>0, <1>1, <2>2, <2>3, Continuing
  <2> QED
    BY <2>4, <1>7, Untouched DEF CopyFound, TypeOK
<1> QED
  BY <1>4, <1>5, <1>6, <1>7 DEF Resolving

(* So do the idle timers and their goroutines.                              *)
LEMMA TimersTyped ==
    ASSUME TypeOK, NEW j \in Janitors
    PROVE  /\ ExpireIdle(j) => TypeOK'
           /\ \A n \in Names : Fire(n, j) => TypeOK'
<1>0. j \in Procs /\ ProcsOK /\ RecordsOK
  BY DEF Procs, TypeOK
<1>1. "stop" \in Steps /\ "check" \in Steps
  BY DEF Steps, OtherSteps, TerminateSteps
<1>2. ASSUME ExpireIdle(j)
      PROVE  TypeOK'
  <2>1. job[j].name \in Names
    BY <1>0, <1>2 DEF ExpireIdle, ProcsOK, Fits
  <2>2. RecordsOK'
    BY <1>0, <1>2, <2>1 DEF ExpireIdle, Rearm, RecordsOK
  <2>3. Fits("stop", job[j])
    BY <2>1 DEF Fits
  <2>4. ProcsOK'
    BY <1>0, <1>1, <1>2, <2>3, Responding, Continuing DEF ExpireIdle
  <2> QED
    BY <2>2, <2>4, <1>2, Untouched DEF ExpireIdle, TypeOK
<1>3. ASSUME NEW n \in Names, Fire(n, j)
      PROVE  TypeOK'
  <2> DEFINE b == [NoJob EXCEPT !.op = "expire", !.name = n]
  <2>1. RecordsOK'
    BY <1>0, <1>3 DEF Fire, RecordsOK, Record
  <2>2. b \in Job /\ b.name = n
    BY DEF NoJob, Job, Address
  <2>3. Fits("check", b)
    BY <2>2 DEF Fits
  <2>4. ProcsOK'
    BY <1>0, <1>1, <1>3, <2>2, <2>3, Moving DEF Fire, Goto
  <2> QED
    BY <2>1, <2>4, <1>3, Untouched DEF Fire, TypeOK
<1> QED
  BY <1>2, <1>3

(* So do a container that ends and a service that starts again.             *)
LEMMA HostTyped ==
    ASSUME TypeOK
    PROVE  /\ \A n \in Names : Die(n) => TypeOK'
           /\ Restart => TypeOK'
<1>0. ProcsOK /\ RecordsOK /\ DaemonOK
  BY DEF TypeOK
<1>1. ASSUME NEW n \in Names, Die(n)
      PROVE  TypeOK'
  <2> DEFINE c == [cont[n] EXCEPT !.status = "down", !.ip = NoIP]
  <2>1. c \in Container /\ c.status # "up"
    BY <1>0 DEF DaemonOK, Container, Address
  <2>2. cont' = [cont EXCEPT ![n] = c]
    BY <1>1 DEF Die
  <2>3. DaemonOK'
    BY <1>0, <1>1, <2>1, <2>2, Changing DEF Die
  <2> QED
    BY <2>3, <1>1, Untouched DEF Die, TypeOK
<1>2. ASSUME Restart
      PROVE  TypeOK'
  <2> DEFINE up == {n \in Names : Up(n)}
             R(n) == [known |-> TRUE, ip |-> cont[n].ip, inFlight |-> 0,
                      old |-> FALSE]
  <2>1. PICK found \in SUBSET up :
          /\ rec' = [n \in Names |-> IF n \in found THEN R(n) ELSE NoRecord]
          /\ index' = [i \in IPs |->
                         IF \E n \in found : cont[n].ip = i
                         THEN CHOOSE n \in found : cont[n].ip = i
                         ELSE NoName]
          /\ timer' = [n \in Names |-> IF n \in found THEN "armed" ELSE "none"]
    BY <1>2 DEF Restart
  <2>2. rec' \in [Names -> Record]
    <3>1. NoRecord \in Record
      BY DEF NoRecord, Record, Address
    <3>2. \A n \in found : R(n) \in Record
      BY <1>0, <2>1 DEF DaemonOK, Up, Record, Address
    <3> QED
      BY <2>1, <3>1, <3>2
  <2>3. index' \in [IPs -> Names \cup {NoName}]
    <3>1. ASSUME NEW i \in IPs, \E n \in found : cont[n].ip = i
          PROVE  (CHOOSE n \in found : cont[n].ip = i) \in Names
      BY <2>1, <3>1
    <3> QED
      BY <2>1, <3>1
  <2>4. RecordsOK'
    BY <2>1, <2>2, <2>3 DEF RecordsOK
  <2>5. FlightsOK'
    BY <1>2 DEF Restart, FlightsOK
  <2>6. image' \in Nat /\ restarts' \in Nat
    BY <1>2 DEF Restart, TypeOK
  <2>7. ProcsOK'
    <3>1. "idle" \in Steps /\ Fits("idle", NoJob)
      BY DEF Steps, OtherSteps, Fits
    <3> QED
      BY <1>2, <3>1, NoJobTyped DEF Restart, ProcsOK, Fits
  <2> QED
    BY <2>4, <2>5, <2>6, <2>7, <1>2, Untouched DEF Restart, TypeOK
<1> QED
  BY <1>1, <1>2

(* No step of the specification leaves the types.                           *)
LEMMA StepTyped ==
    ASSUME TypeOK, [Next]_vars
    PROVE  TypeOK'
<1>1. CASE UNCHANGED vars
  BY <1>1, Untouched DEF vars, TypeOK
<1>2. ASSUME NEW r \in Requests,
             Arrive(r) \/ CallProxy(r) \/ Serving(r) \/ RemoveInFlightRequest(r)
      PROVE  TypeOK'
  <2>1. ASSUME Flying(r)
        PROVE  TypeOK'
    BY <2>1, TakeoffTyped, CreationTyped, LandTyped DEF Flying
  <2> QED
    BY <1>2, <2>1, ServingTyped, ResolvingTyped, TakeoffTyped DEF Serving
<1>3. ASSUME NEW r \in Procs, Terminating(r)
      PROVE  TypeOK'
  BY <1>3, TerminatingTyped
<1>4. ASSUME NEW j \in Janitors, ExpireIdle(j) \/ \E n \in Names : Fire(n, j)
      PROVE  TypeOK'
  BY <1>4, TimersTyped
<1>5. ASSUME (\E n \in Names : Die(n)) \/ Restart
      PROVE  TypeOK'
  BY <1>5, HostTyped
<1> QED
  BY <1>1, <1>2, <1>3, <1>4, <1>5 DEF Next

(* The service starts with nothing known and nothing running.               *)
LEMMA InitTyped == Init => TypeOK
<1> SUFFICES ASSUME Init
             PROVE  TypeOK
  OBVIOUS
<1>1. DaemonOK
  BY DEF Init, DaemonOK, NoContainer, Container, Address
<1>2. RecordsOK
  BY DEF Init, RecordsOK, NoRecord, Record, Address
<1>3. FlightsOK
  BY DEF Init, FlightsOK
<1>4. ProcsOK
  <2>1. "idle" \in Steps /\ Fits("idle", NoJob)
    BY DEF Steps, OtherSteps, Fits
  <2> QED
    BY <2>1, NoJobTyped DEF Init, ProcsOK
<1> QED
  BY <1>1, <1>2, <1>3, <1>4 DEF Init, TypeOK

(* Every variable of the manager stays in its type: counts never go below   *)
(* zero, and a process has the name and the address its step works on.      *)
THEOREM TypeCorrect == Spec => []TypeOK
  BY InitTyped, StepTyped, PTL DEF Spec

-----------------------------------------------------------------------------
(* Who leads a flight.                                                      *)

(* The request that runs a flight's steps is the one its name is held for.  *)
Led == \A r \in Requests : pc[r] \in FlightSteps => flight[job[r].name] = r

Alone(r) == \A q \in Procs \ {r} : pc'[q] = pc[q] /\ job'[q] = job[q]

(* Between seeing that there is no record and entering one.                 *)
Unrecorded == {"reinspect", "adopt", "clear", "credentials", "create", "boot",
               "address", "record"}

(* Process r alone moves, and starts no flight.                             *)
Joins(r) ==
    /\ Alone(r)
    /\ UNCHANGED flight
    /\ pc'[r] \in FlightSteps =>
          pc[r] \in FlightSteps /\ job'[r].name = job[r].name
    /\ pc'[r] \in Unrecorded =>
          pc[r] \in Unrecorded \/ ~rec'[job[r].name].known
    /\ pc'[r] \in {"credentials", "create"} => Clear(r) \/ Prepare(r)

Starts(r) ==
    /\ Alone(r)
    /\ job'[r] = job[r]
    /\ flight' = [flight EXCEPT ![job[r].name] = r]
    /\ flight[job[r].name] = NoProc
    /\ job[r].name \in Names
    /\ pc'[r] = "cached"

(* EnsureContainer starts a flight, Land ends one; every other step of a    *)
(* process leaves the flights as they are.                                  *)
LEMMA FlightEffects ==
    ASSUME TypeOK, Next
    PROVE  \/ \E r \in Procs : Joins(r)
           \/ \E r \in Requests : Starts(r) \/ Land(r)
           \/ \E n \in Names : Die(n)
           \/ Restart
<1>0. /\ ProcsOK /\ RecordsOK
      /\ Requests \subseteq Procs /\ Janitors \subseteq Procs
      /\ Unrecorded \subseteq FlightSteps
      /\ {"credentials", "create"} \subseteq FlightSteps
  BY DEF TypeOK, Procs, Unrecorded, FlightSteps
<1>1. ASSUME NEW r \in Requests, Arrive(r) \/ CallProxy(r)
      PROVE  Joins(r)
  <2>1. FirstSteps("exec") \cup FirstSteps("wexec") \cup FirstSteps("health")
          \cup FirstSteps("chat") \cup FirstSteps("terminate")
             \subseteq {"ensure", "touch", "stop"}
    BY DEF FirstSteps
  <2>2. Ops \ {"proxy"} \subseteq {"exec", "wexec", "health", "chat", "terminate"}
    BY ContainerAssumption DEF RouteOps
  <2>3. pc'[r] \in {"ensure", "touch", "stop", "lookup"}
    <3>1. CASE Arrive(r)
      <4>1. PICK o \in Ops \ {"proxy"} : \E step \in FirstSteps(o) : Goto(r, step)
        BY <3>1 DEF Arrive
      <4>2. FirstSteps(o) \subseteq {"ensure", "touch", "stop"}
        BY <2>1, <2>2
      <4>3. PICK step \in FirstSteps(o) : Goto(r, step)
        BY <4>1
      <4> QED
        BY <1>0, <4>2, <4>3 DEF Goto, ProcsOK
    <3>2. CASE CallProxy(r)
      BY <1>0, <3>2 DEF CallProxy, Goto, ProcsOK
    <3> QED
      BY <1>1, <3>1, <3>2
  <2>4. Alone(r)
    BY <1>0, <1>1 DEF Arrive, CallProxy, Goto, Alone, ProcsOK
  <2> QED
    BY <1>0, <1>1, <2>3, <2>4 DEF Joins, FlightSteps, Arrive, CallProxy, flightVars
<1>2. ASSUME NEW r \in Requests,
             TouchContainer(r) \/ AddInFlightRequest(r) \/ RemoveInFlightRequest(r)
      PROVE  Joins(r)
  <2>1. pc'[r] \notin FlightSteps
    BY <1>0, <1>2 DEF TouchContainer, AddInFlightRequest, RemoveInFlightRequest,
          Continue, Respond, Goto, ProcsOK, FlightSteps
  <2>2. Alone(r)
    BY <1>0, <1>2 DEF TouchContainer, AddInFlightRequest, RemoveInFlightRequest,
          Continue, Respond, Goto, Alone, ProcsOK
  <2> QED
    BY <1>0, <1>2, <2>1, <2>2 DEF Joins, TouchContainer, AddInFlightRequest,
          RemoveInFlightRequest, flightVars
<1>3. ASSUME NEW r \in Requests, EnsureContainer(r)
      PROVE  Joins(r) \/ Starts(r)
  <2>1. job[r].name \in Names
    BY <1>0, <1>3 DEF EnsureContainer, ProcsOK, Fits
  <2>2. Alone(r) /\ job'[r] = job[r]
    BY <1>0, <1>3 DEF EnsureContainer, Continue, Goto, Alone, ProcsOK
  <2>3. CASE Taken(job[r].name)
    <3>1. pc'[r] = "wait" /\ UNCHANGED flight
      BY <1>0, <1>3, <2>3 DEF EnsureContainer, Continue, Goto, ProcsOK, flightVars
    <3> QED
      BY <1>0, <2>2, <3>1 DEF Joins, FlightSteps
  <2>4. CASE ~Taken(job[r].name)
    BY <1>0, <1>3, <2>1, <2>2, <2>4 DEF EnsureContainer, Starts, Taken,
          Continue, Goto, ProcsOK
  <2> QED
    BY <2>3, <2>4
<1>4. ASSUME NEW r \in Requests, Flying(r)
      PROVE  Joins(r) \/ Land(r)
  <2>1. CASE Cached(r) \/ InspectCached(r) \/ CacheHit(r) \/ Evict(r) \/ DropStale(r)
    <3>1. pc[r] \in FlightSteps
      BY <2>1 DEF Cached, InspectCached, CacheHit, Evict, DropStale, FlightSteps
    <3>2. Alone(r) /\ job'[r].name = job[r].name /\ UNCHANGED flight
      BY <1>0, <2>1 DEF Cached, InspectCached, CacheHit, Evict, DropStale,
            Continue, Outcome, Goto, Alone, ProcsOK, Job, flightVars
    <3>3. job[r].name \in Names
      BY <1>0, <3>1 DEF ProcsOK, Fits, FlightSteps
    <3>5. pc'[r] \notin {"credentials", "create"}
      BY <1>0, <2>1 DEF Cached, InspectCached, CacheHit, Evict, DropStale,
            Continue, Outcome, Goto, ProcsOK
    <3>4. pc'[r] \in Unrecorded => ~rec'[job[r].name].known
      <4>1. CASE Cached(r) \/ CacheHit(r) \/ DropStale(r)
        BY <1>0, <3>3, <4>1 DEF Cached, CacheHit, DropStale, Drop, NoRecord, Continue,
              Outcome, Goto, ProcsOK, RecordsOK, Unrecorded, recordVars
      <4>2. CASE InspectCached(r) \/ Evict(r)
        BY <1>0, <4>2 DEF InspectCached, Evict, Continue, Goto, ProcsOK, Unrecorded
      <4> QED
        BY <2>1, <4>1, <4>2
    <3> QED
      BY <3>1, <3>2, <3>4, <3>5 DEF Joins
  <2>2. CASE InspectExisting(r) \/ Adopt(r) \/ Clear(r) \/ Prepare(r)
    <3>1. pc[r] \in Unrecorded
      BY <2>2 DEF InspectExisting, Adopt, Clear, Prepare, Unrecorded
    <3>2. Alone(r) /\ job'[r].name = job[r].name /\ UNCHANGED flight
      BY <1>0, <2>2 DEF InspectExisting, Adopt, Clear, Prepare,
            Continue, Outcome, Goto, Alone, ProcsOK, Job, flightVars
    <3>3. pc'[r] \in {"credentials", "create"} => Clear(r) \/ Prepare(r)
      BY <1>0, <2>2 DEF InspectExisting, Adopt, Continue, Outcome, Goto, ProcsOK
    <3> QED
      BY <1>0, <3>1, <3>2, <3>3 DEF Joins
  <2>3. CASE CreateContainer(r) \/ StartContainer(r) \/ ReadAddress(r)
                \/ RecordContainer(r)
    <3>1. pc[r] \in Unrecorded
      BY <2>3 DEF CreateContainer, StartContainer, ReadAddress, RecordContainer,
            Unrecorded
    <3>2. Alone(r) /\ job'[r].name = job[r].name /\ UNCHANGED flight
      BY <1>0, <2>3 DEF CreateContainer, StartContainer, ReadAddress,
            RecordContainer, Continue, Outcome, Goto, Alone, ProcsOK, Job, flightVars
    <3>3. pc'[r] \notin {"credentials", "create"}
      BY <1>0, <2>3 DEF CreateContainer, StartContainer, ReadAddress,
            RecordContainer, Continue, Outcome, Goto, ProcsOK
    <3> QED
      BY <1>0, <3>1, <3>2, <3>3 DEF Joins
  <2> QED
    BY <1>4, <2>1, <2>2, <2>3 DEF Flying
<1>5. ASSUME NEW r \in Requests, Resolving(r)
      PROVE  Joins(r)
  <2>1. pc'[r] \notin FlightSteps
    BY <1>0, <1>5 DEF Resolving, LookUp, Scan, Reindex, CopyFound, Continue,
          Respond, Goto, ProcsOK, FlightSteps
  <2>2. Alone(r) /\ UNCHANGED flight
    BY <1>0, <1>5 DEF Resolving, LookUp, Scan, Reindex, CopyFound, Continue,
          Respond, Goto, Alone, ProcsOK, flightVars
  <2> QED
    BY <1>0, <2>1, <2>2 DEF Joins
<1>6. ASSUME NEW r \in Procs, Terminating(r)
      PROVE  Joins(r)
  <2>1. pc'[r] \notin FlightSteps
    BY <1>0, <1>6 DEF Terminating, StopContainer, ForceRemove, CleanCredentials,
          ProbeStopped, ForgetContainer, AfterError, Continue, Respond, Goto,
          ProcsOK, FlightSteps
  <2>2. Alone(r) /\ UNCHANGED flight
    BY <1>0, <1>6 DEF Terminating, StopContainer, ForceRemove, CleanCredentials,
          ProbeStopped, ForgetContainer, AfterError, Continue, Respond, Goto,
          Alone, ProcsOK, flightVars
  <2> QED
    BY <1>0, <2>1, <2>2 DEF Joins
<1>7. ASSUME NEW j \in Janitors, ExpireIdle(j) \/ \E n \in Names : Fire(n, j)
      PROVE  Joins(j)
  <2>1. pc'[j] \notin FlightSteps
    BY <1>0, <1>7 DEF ExpireIdle, Fire, Continue, Respond, Goto, ProcsOK, FlightSteps
  <2>2. Alone(j) /\ UNCHANGED flight
    BY <1>0, <1>7 DEF ExpireIdle, Fire, Continue, Respond, Goto, Alone, ProcsOK,
          flightVars
  <2> QED
    BY <1>0, <2>1, <2>2 DEF Joins
<1> QED
  BY <1>0, <1>1, <1>2, <1>3, <1>4, <1>5, <1>6, <1>7 DEF Next, Serving

(* No step makes a second leader.                                           *)
LEMMA StepLed ==
    ASSUME TypeOK, Led, [Next]_vars
    PROVE  Led'
<1>0. ProcsOK /\ FlightsOK /\ Requests \subseteq Procs
  BY DEF TypeOK, Procs
<1>1. CASE UNCHANGED vars
  BY <1>1 DEF vars, flightVars, procVars, Led
<1>2. ASSUME NEW r \in Procs, Joins(r)
      PROVE  Led'
  BY <1>0, <1>2 DEF Led, Joins, Alone
<1>3. ASSUME NEW r \in Requests, Starts(r)
      PROVE  Led'
  <2>1. ASSUME NEW q \in Requests, pc'[q] \in FlightSteps
        PROVE  flight'[job'[q].name] = q
    <3>1. CASE q = r
      BY <1>0, <1>3, <3>1 DEF Starts, FlightsOK
    <3>2. CASE q # r
      <4>1. pc[q] \in FlightSteps /\ job'[q] = job[q]
        BY <1>0, <1>3, <2>1, <3>2 DEF Starts, Alone
      <4>2. flight[job[q].name] = q /\ q # NoProc
        BY <2>1, <4>1, ContainerAssumption DEF Led
      <4>3. job[q].name # job[r].name
        BY <1>3, <4>2 DEF Starts
      <4> QED
        BY <1>0, <1>3, <4>1, <4>2, <4>3 DEF Starts, FlightsOK
    <3> QED
      BY <3>1, <3>2
  <2> QED
    BY <2>1 DEF Led
<1>4. ASSUME NEW r \in Requests, Land(r)
      PROVE  Led'
  <2>1. ASSUME NEW q \in Requests, pc'[q] \in FlightSteps
        PROVE  flight'[job'[q].name] = q
    <3>1. q \notin Woken(r)
      <4>1. q \in Woken(r) => pc'[q] = After(q, job[r].ok)
        BY <1>0, <1>4, <2>1 DEF Land
      <4> QED
        BY <2>1, <4>1, Returning DEF FlightSteps
    <3>2. pc'[q] = pc[q] /\ job'[q] = job[q] /\ q # r
      BY <1>0, <1>4, <2>1, <3>1 DEF Land, Woken
    <3>3. flight[job[q].name] = q /\ flight[job[r].name] = r
      BY <1>4, <2>1, <3>2 DEF Led, Land, FlightSteps
    <3>4. flight' = [flight EXCEPT ![job[r].name] = NoProc]
      BY <1>4 DEF Land
    <3>5. job[q].name \in Names
      BY <1>0, <2>1, <3>2 DEF ProcsOK, Fits, FlightSteps
    <3>6. job[q].name # job[r].name
      BY <3>2, <3>3
    <3> QED
      BY <1>0, <3>2, <3>3, <3>4, <3>5, <3>6 DEF FlightsOK
  <2> QED
    BY <2>1 DEF Led
<1>5. ASSUME NEW n \in Names, Die(n)
      PROVE  Led'
  BY <1>5 DEF Die, Led, flightVars, procVars
<1>6. CASE Restart
  BY <1>0, <1>6 DEF Restart, Led, FlightSteps
<1> QED
  BY <1>1, <1>2, <1>3, <1>4, <1>5, <1>6, FlightEffects

(* At most one request at a time runs the steps of ensureContainerUnlocked  *)
(* for a name: whoever holds the flight of that name.                       *)
THEOREM OneLeader == Spec => []Led
<1>1. Init => Led
  BY DEF Init, Led, FlightSteps, Procs
<1> QED
  BY <1>1, StepLed, TypeCorrect, PTL DEF Spec

-----------------------------------------------------------------------------
(* The address index.                                                       *)

Addressed == \A n \in Names : rec[n].known => rec[n].ip \in IPs

(* A leader that is about to enter a record sees none: its own flight is    *)
(* the only one that could have entered it.                                 *)
RecordFree ==
    \A r \in Requests : pc[r] \in Unrecorded => ~rec[job[r].name].known

Steady ==
    /\ UNCHANGED index
    /\ \A n \in Names : rec'[n].known = rec[n].known /\ rec'[n].ip = rec[n].ip

Enters(r) ==
    /\ pc[r] \in {"adopt", "record"}
    /\ pc'[r] = "land"
    /\ job[r].name \in Names
    /\ job[r].ip \in IPs
    /\ Enter(job[r].name, job[r].ip)

Redirects(i) ==
    /\ UNCHANGED rec
    /\ \/ index' = [index EXCEPT ![i] = NoName]
       \/ \E n \in Names : /\ rec[n].known
                           /\ rec[n].ip = i
                           /\ index' = [index EXCEPT ![i] = n]

Moves(n, ip) ==
    /\ rec[n].known
    /\ rec' = [rec EXCEPT ![n].ip = ip]
    /\ index' = [IF rec[n].ip = ip THEN index
                 ELSE [index EXCEPT ![rec[n].ip] = NoName] EXCEPT ![ip] = n]

(* Every way a step changes the records and the index.                      *)
LEMMA RecordEffects ==
    ASSUME TypeOK, Next
    PROVE  \/ Steady
           \/ \E n \in Names : Drop(n)
           \/ \E r \in Requests : Enters(r)
           \/ \E i \in IPs : Redirects(i)
           \/ \E n \in Names, ip \in IPs : Moves(n, ip)
           \/ Restart
<1>0. ProcsOK /\ RecordsOK /\ Requests \subseteq Procs /\ Janitors \subseteq Procs
  BY DEF TypeOK, Procs
<1>1. UNCHANGED recordVars => Steady
  BY DEF recordVars, Steady
<1>2. ASSUME NEW n \in Names, Use(n)
      PROVE  Steady
  BY <1>0, <1>2 DEF Use, Steady, RecordsOK, Record
<1>3. ASSUME NEW r \in Requests, Arrive(r) \/ CallProxy(r)
      PROVE  Steady
  BY <1>1, <1>3 DEF Arrive, CallProxy
<1>4. ASSUME NEW r \in Requests,
             TouchContainer(r) \/ AddInFlightRequest(r) \/ RemoveInFlightRequest(r)
      PROVE  Steady
  <2>1. job[r].name \in Names
    BY <1>0, <1>4 DEF TouchContainer, AddInFlightRequest, RemoveInFlightRequest,
          ProcsOK, Fits
  <2>2. CASE TouchContainer(r)
    BY <1>1, <1>2, <2>1, <2>2 DEF TouchContainer
  <2>3. CASE AddInFlightRequest(r)
    BY <1>0, <2>1, <2>3 DEF AddInFlightRequest, Steady, RecordsOK, Record
  <2>4. CASE RemoveInFlightRequest(r)
    BY <1>0, <2>1, <2>4 DEF RemoveInFlightRequest, Steady, RecordsOK, Record
  <2> QED
    BY <1>4, <2>2, <2>3, <2>4
<1>5. ASSUME NEW r \in Requests, EnsureContainer(r)
      PROVE  Steady
  BY <1>1, <1>5 DEF EnsureContainer
<1>6. ASSUME NEW r \in Requests, Flying(r)
      PROVE  \/ Steady
             \/ Drop(job[r].name) /\ job[r].name \in Names
             \/ Enters(r)
  <2>1. job[r].name \in Names
    BY <1>0, <1>6 DEF Flying, Cached, InspectCached, CacheHit, Evict, DropStale,
          InspectExisting, Adopt, Clear, Prepare, CreateContainer,
          StartContainer, ReadAddress, RecordContainer, Land, ProcsOK, Fits
  <2>2. CASE Adopt(r) \/ RecordContainer(r)
    <3>1. job[r].ip \in IPs
      BY <1>0, <2>2 DEF Adopt, RecordContainer, ProcsOK, Fits
    <3> QED
      BY <1>0, <2>1, <2>2, <3>1 DEF Adopt, RecordContainer, Enters, Outcome, Goto,
            ProcsOK
  <2>3. CASE CacheHit(r)
    BY <1>1, <1>2, <2>1, <2>3 DEF CacheHit
  <2>4. CASE DropStale(r)
    BY <2>1, <2>4 DEF DropStale
  <2>5. CASE Cached(r) \/ InspectCached(r) \/ Evict(r) \/ InspectExisting(r)
                \/ Clear(r) \/ Prepare(r)
    BY <1>1, <2>5 DEF Cached, InspectCached, Evict, InspectExisting, Clear, Prepare
  <2>6. CASE CreateContainer(r) \/ StartContainer(r) \/ ReadAddress(r) \/ Land(r)
    BY <1>1, <2>6 DEF CreateContainer, StartContainer, ReadAddress, Land
  <2> QED
    BY <1>6, <2>2, <2>3, <2>4, <2>5, <2>6 DEF Flying
<1>7. ASSUME NEW r \in Requests, LookUp(r)
      PROVE  \E i \in IPs : Steady \/ Redirects(i)
  <2>1. job[r].src \in IPs
    BY <1>0, <1>7 DEF LookUp, ProcsOK, Fits
  <2> QED
    BY <1>7, <2>1 DEF LookUp, Redirects, Steady
<1>8. ASSUME NEW r \in Requests, Reindex(r)
      PROVE  Steady \/ \E n \in Names, ip \in IPs : Moves(n, ip)
  <2>1. job[r].name \in Names /\ job[r].ip \in IPs
    BY <1>0, <1>8 DEF Reindex, ProcsOK, Fits
  <2>2. Steady \/ Moves(job[r].name, job[r].ip)
    BY <1>1, <1>8 DEF Reindex, Moves
  <2> QED
    BY <2>1, <2>2
<1>9. ASSUME NEW r \in Requests, Scan(r) \/ CopyFound(r)
      PROVE  Steady
  BY <1>1, <1>9 DEF Scan, CopyFound
<1>10. ASSUME NEW r \in Procs, Terminating(r)
       PROVE  Steady \/ \E n \in Names : Drop(n)
  <2>1. CASE ForgetContainer(r)
    BY <1>0, <2>1 DEF ForgetContainer, ProcsOK, Fits
  <2>2. CASE ~ForgetContainer(r)
    BY <1>1, <1>10, <2>2 DEF Terminating, StopContainer, ForceRemove,
          CleanCredentials, ProbeStopped
  <2> QED
    BY <2>1, <2>2
<1>11. ASSUME NEW j \in Janitors, ExpireIdle(j)
       PROVE  Steady
  BY <1>11 DEF ExpireIdle, Steady
<1>12. ASSUME NEW j \in Janitors, NEW n \in Names, Fire(n, j)
       PROVE  Steady
  BY <1>0, <1>12 DEF Fire, Steady, RecordsOK, Record
<1>13. ASSUME NEW n \in Names, Die(n)
       PROVE  Steady
  BY <1>1, <1>13 DEF Die
<1> QED
  BY <1>3, <1>4, <1>5, <1>6, <1>7, <1>8, <1>9, <1>10, <1>11, <1>12, <1>13
     DEF Next, Serving, Resolving

(* No leader is overtaken: nobody else enters a record of its name.         *)
LEMMA StepRecordFree ==
    ASSUME TypeOK, Led, RecordFree, [Next]_vars
    PROVE  RecordFree'
<1>0. /\ ProcsOK /\ RecordsOK
      /\ Requests \subseteq Procs
      /\ Unrecorded \subseteq FlightSteps
  BY DEF TypeOK, Procs, Unrecorded, FlightSteps
<1>1. CASE UNCHANGED vars
  BY <1>1 DEF vars, recordVars, procVars, RecordFree
<1>2. CASE Restart
  BY <1>0, <1>2 DEF Restart, RecordFree, Unrecorded
<1>3. ASSUME Next, ~Restart, NEW q \in Requests, pc'[q] \in Unrecorded
      PROVE  ~rec'[job'[q].name].known
  <2>1. \/ pc[q] \in Unrecorded /\ job'[q].name = job[q].name
        \/ ~rec'[job'[q].name].known
    <3>1. CASE \E r \in Procs : Joins(r)
      BY <1>0, <1>3, <3>1 DEF Joins, Alone
    <3>2. CASE \E r \in Requests : Starts(r)
      BY <1>0, <1>3, <3>2 DEF Starts, Alone, Unrecorded
    <3>3. ASSUME NEW r \in Requests, Land(r)
          PROVE  pc[q] \in Unrecorded /\ job'[q].name = job[q].name
      <4>1. q \in Woken(r) => pc'[q] = After(q, job[r].ok)
        BY <1>0, <1>3, <3>3 DEF Land
      <4>2. q \notin Woken(r)
        BY <1>3, <4>1, Returning DEF Unrecorded
      <4> QED
        BY <1>0, <1>3, <3>3, <4>2 DEF Land
    <3>4. CASE \E n \in Names : Die(n)
      BY <1>3, <3>4 DEF Die, procVars
    <3> QED
      BY <1>3, <3>1, <3>2, <3>3, <3>4, FlightEffects
  <2> DEFINE n == job[q].name
  <2>2. ASSUME pc[q] \in Unrecorded, job'[q].name = n
        PROVE  ~rec'[n].known
    <3>1. n \in Names /\ ~rec[n].known /\ flight[n] = q
      BY <1>0, <2>2 DEF ProcsOK, Fits, FlightSteps, RecordFree, Led, Unrecorded
    <3>2. CASE \E r \in Requests : Enters(r)
      <4>1. PICK r \in Requests : Enters(r)
        BY <3>2
      <4>2. r # q
        BY <1>3, <4>1 DEF Enters, Unrecorded
      <4>3. flight[job[r].name] = r
        BY <4>1 DEF Enters, Led, FlightSteps
      <4>4. job[r].name # n
        BY <3>1, <4>2, <4>3
      <4> QED
        BY <1>0, <3>1, <4>1, <4>4 DEF Enters, Enter, RecordsOK
    <3>3. CASE Steady \/ \E i \in IPs : Redirects(i)
      BY <3>1, <3>3 DEF Steady, Redirects
    <3>4. CASE \E m \in Names : Drop(m)
      BY <1>0, <3>1, <3>4 DEF Drop, NoRecord, RecordsOK
    <3>5. CASE \E m \in Names, ip \in IPs : Moves(m, ip)
      BY <1>0, <3>1, <3>5 DEF Moves, RecordsOK, Record
    <3> QED
      BY <1>3, <3>2, <3>3, <3>4, <3>5, RecordEffects
  <2> QED
    BY <2>1, <2>2
<1> QED
  BY <1>1, <1>2, <1>3 DEF RecordFree

(* A known record has an address.                                           *)
LEMMA StepAddressed ==
    ASSUME TypeOK, Addressed, [Next]_vars
    PROVE  Addressed'
<1>0. RecordsOK /\ DaemonOK
  BY DEF TypeOK
<1>1. CASE UNCHANGED vars
  BY <1>1 DEF vars, recordVars, Addressed
<1>2. CASE Steady \/ \E i \in IPs : Redirects(i)
  BY <1>2 DEF Steady, Redirects, Addressed
<1>3. CASE \E n \in Names : Drop(n)
  BY <1>0, <1>3 DEF Drop, NoRecord, Addressed, RecordsOK
<1>4. CASE \E r \in Requests : Enters(r)
  BY <1>0, <1>4 DEF Enters, Enter, Addressed, RecordsOK
<1>5. CASE \E n \in Names, ip \in IPs : Moves(n, ip)
  BY <1>0, <1>5 DEF Moves, Addressed, RecordsOK, Record
<1>6. CASE Restart
  <2>1. PICK found \in SUBSET {n \in Names : Up(n)} :
           rec' = [n \in Names |->
                     IF n \in found
                     THEN [known |-> TRUE, ip |-> cont[n].ip, inFlight |-> 0,
                           old |-> FALSE]
                     ELSE NoRecord]
    BY <1>6 DEF Restart
  <2> QED
    BY <1>0, <2>1 DEF Addressed, DaemonOK, Up, NoRecord
<1> QED
  BY <1>1, <1>2, <1>3, <1>4, <1>5, <1>6, RecordEffects

(* Every path that replaces, moves or removes a record takes its old index  *)
(* entry with it.                                                           *)
LEMMA StepIndexSound ==
    ASSUME TypeOK, Addressed, RecordFree, IndexSound, [Next]_vars
    PROVE  IndexSound'
<1>0. RecordsOK /\ DaemonOK /\ NoName \notin Names
  BY ContainerAssumption DEF TypeOK
<1>1. CASE UNCHANGED vars
  BY <1>1 DEF vars, recordVars, IndexSound
<1>2. CASE Steady
  BY <1>0, <1>2 DEF Steady, IndexSound, RecordsOK
<1>3. ASSUME NEW i \in IPs, Redirects(i)
      PROVE  IndexSound'
  BY <1>0, <1>3 DEF Redirects, IndexSound, RecordsOK
<1>4. ASSUME NEW n \in Names, Drop(n)
      PROVE  IndexSound'
  BY <1>0, <1>4 DEF Drop, NoRecord, IndexSound, Addressed, RecordsOK
<1>5. ASSUME NEW r \in Requests, Enters(r)
      PROVE  IndexSound'
  <2> DEFINE n == job[r].name
             ip == job[r].ip
  <2>1. ~rec[n].known
    BY <1>5 DEF Enters, RecordFree, Unrecorded
  <2>2. \A i \in IPs : index[i] # n
    BY <1>0, <1>5, <2>1 DEF Enters, IndexSound
  <2>3. rec'[n].known /\ rec'[n].ip = ip
    BY <1>0, <1>5 DEF Enters, Enter, RecordsOK
  <2> QED
    BY <1>0, <1>5, <2>2, <2>3 DEF Enters, Enter, IndexSound, RecordsOK
<1>6. ASSUME NEW n \in Names, NEW ip \in IPs, Moves(n, ip)
      PROVE  IndexSound'
  <2>1. rec[n].ip \in IPs
    BY <1>6 DEF Moves, Addressed
  <2>2. rec'[n].known /\ rec'[n].ip = ip
    BY <1>0, <1>6 DEF Moves, RecordsOK, Record
  <2>3. \A m \in Names \ {n} : rec'[m] = rec[m]
    BY <1>0, <1>6 DEF Moves, RecordsOK
  <2>4. index'[ip] = n
    BY <1>0, <1>6, <2>1 DEF Moves, RecordsOK
  <2>5. \A i \in IPs \ {ip} : \/ index'[i] = NoName
                              \/ index'[i] = index[i] /\ rec[n].ip # i
    BY <1>0, <1>6, <2>1 DEF Moves, RecordsOK
  <2>6. \A i \in IPs : index[i] \in Names \cup {NoName}
    BY <1>0 DEF RecordsOK
  <2> QED
    BY <1>0, <2>2, <2>3, <2>4, <2>5, <2>6 DEF IndexSound
<1>7. CASE Restart
  <2>1. PICK found \in SUBSET {n \in Names : Up(n)} :
          /\ rec' = [n \in Names |->
                      IF n \in found
                      THEN [known |-> TRUE, ip |-> cont[n].ip, inFlight |-> 0,
                            old |-> FALSE]
                      ELSE NoRecord]
          /\ index' = [i \in IPs |->
                         IF \E n \in found : cont[n].ip = i
                         THEN CHOOSE n \in found : cont[n].ip = i
                         ELSE NoName]
    BY <1>7 DEF Restart
  <2>2. ASSUME NEW i \in IPs, index'[i] # NoName
        PROVE  rec'[index'[i]].known /\ rec'[index'[i]].ip = i
    <3>1. \E n \in found : cont[n].ip = i
      BY <2>1, <2>2
    <3>2. index'[i] \in found /\ cont[index'[i]].ip = i
      BY <2>1, <3>1
    <3> QED
      BY <2>1, <3>2
  <2> QED
    BY <2>2 DEF IndexSound
<1> QED
  BY <1>1, <1>2, <1>3, <1>4, <1>5, <1>6, <1>7, RecordEffects

(* An index entry always leads to a record of that very address, however    *)
(* containers come and go and addresses are reused.                         *)
THEOREM IndexAlwaysSound == Spec => []IndexSound
<1> DEFINE IndexInv == RecordFree /\ Addressed /\ IndexSound
<1>1. Init => IndexInv
  BY ContainerAssumption DEF Init, RecordFree, Unrecorded, Addressed, IndexSound,
     NoRecord, Procs
<1>2. TypeOK /\ Led /\ IndexInv /\ [Next]_vars => IndexInv'
  BY StepRecordFree, StepAddressed, StepIndexSound
<1> QED
  BY <1>1, <1>2, TypeCorrect, OneLeader, PTL DEF Spec

-----------------------------------------------------------------------------
(* The free name.                                                           *)

Creates(r) ==
    /\ pc[r] = "create"
    /\ pc'[r] = "boot"
    /\ \A n \in Names \ {job[r].name} : cont'[n] = cont[n]

(* Only ContainerCreate takes a name that is free.                          *)
LEMMA DaemonEffects ==
    ASSUME TypeOK, Next
    PROVE  \/ \A n \in Names : cont[n].status = "none" => cont'[n].status = "none"
           \/ \E r \in Requests : Creates(r)
<1> DEFINE Free == \A n \in Names : cont[n].status = "none" => cont'[n].status = "none"
<1>0. /\ ProcsOK /\ DaemonOK
      /\ Requests \subseteq Procs /\ Janitors \subseteq Procs
  BY DEF TypeOK, Procs
<1>1. UNCHANGED daemonVars => Free
  BY DEF daemonVars
<1>2. ASSUME NEW n \in Names, RemoveContainer(n)
      PROVE  Free
  BY <1>0, <1>2 DEF RemoveContainer, NoContainer, DaemonOK, daemonVars
<1>3. ASSUME NEW r \in Requests,
             \/ Arrive(r) \/ CallProxy(r) \/ TouchContainer(r)
             \/ AddInFlightRequest(r) \/ RemoveInFlightRequest(r)
             \/ EnsureContainer(r)
      PROVE  Free
  BY <1>1, <1>3 DEF Arrive, CallProxy, TouchContainer, AddInFlightRequest,
     RemoveInFlightRequest, EnsureContainer
<1>4. ASSUME NEW r \in Requests, Flying(r)
      PROVE  Free \/ Creates(r)
  <2>1. CASE Cached(r) \/ InspectCached(r) \/ CacheHit(r) \/ DropStale(r)
                \/ Adopt(r) \/ ReadAddress(r) \/ RecordContainer(r) \/ Land(r)
    BY <1>1, <2>1 DEF Cached, InspectCached, CacheHit, DropStale, Adopt,
       ReadAddress, RecordContainer, Land
  <2>2. CASE Evict(r) \/ InspectExisting(r) \/ Clear(r)
    <3>1. job[r].name \in Names
      BY <1>0, <2>2 DEF Evict, InspectExisting, Clear, ProcsOK, Fits
    <3> QED
      BY <1>1, <1>2, <2>2, <3>1 DEF Evict, InspectExisting, Clear
  <2>3. CASE Prepare(r)
    BY <2>3 DEF Prepare
  <2>4. CASE CreateContainer(r)
    BY <1>0, <2>4 DEF CreateContainer, Creates, DaemonOK, Continue, Goto, ProcsOK
  <2>5. CASE StartContainer(r)
    <3>1. job[r].name \in Names
      BY <1>0, <2>5 DEF StartContainer, ProcsOK, Fits
    <3> QED
      BY <1>0, <2>5, <3>1 DEF StartContainer, DaemonOK
  <2> QED
    BY <1>4, <2>1, <2>2, <2>3, <2>4, <2>5 DEF Flying
<1>5. ASSUME NEW r \in Requests, Resolving(r)
      PROVE  Free
  BY <1>1, <1>5 DEF Resolving, LookUp, Scan, Reindex, CopyFound
<1>6. ASSUME NEW r \in Procs, Terminating(r)
      PROVE  Free
  <2>1. CASE StopContainer(r) \/ ForceRemove(r)
    <3>1. job[r].name \in Names
      BY <1>0, <2>1 DEF StopContainer, ForceRemove, ProcsOK, Fits
    <3> QED
      BY <1>0, <2>1, <3>1 DEF StopContainer, ForceRemove, NoContainer, DaemonOK
  <2>2. CASE CleanCredentials(r) \/ ProbeStopped(r) \/ ForgetContainer(r)
    BY <2>2 DEF CleanCredentials, ProbeStopped, ForgetContainer, daemonVars
  <2> QED
    BY <1>6, <2>1, <2>2 DEF Terminating
<1>7. ASSUME NEW j \in Janitors, ExpireIdle(j) \/ \E n \in Names : Fire(n, j)
      PROVE  Free
  BY <1>1, <1>7 DEF ExpireIdle, Fire
<1>8. ASSUME NEW n \in Names, Die(n)
      PROVE  Free
  BY <1>0, <1>8 DEF Die, Up, DaemonOK
<1>9. CASE Restart
  BY <1>1, <1>9 DEF Restart
<1> QED
  BY <1>3, <1>4, <1>5, <1>6, <1>7, <1>8, <1>9 DEF Next, Serving

(* Where a removal succeeds, a leader that prepares a container has removed *)
(* the one before, and nobody else creates.                                 *)
LEMMA StepNameFree ==
    ASSUME TypeOK, Led, NameFree, ~Fault("remove"), [Next]_vars
    PROVE  NameFree'
<1>0. ProcsOK /\ DaemonOK /\ Requests \subseteq Procs
  BY DEF TypeOK, Procs
<1> DEFINE Claim == {"credentials", "create"}
<1>1. CASE UNCHANGED vars
  BY <1>1 DEF vars, daemonVars, procVars, NameFree
<1>2. CASE Restart
  BY <1>0, <1>2 DEF Restart, NameFree
<1>3. ASSUME Next, ~Restart, NEW q \in Requests, pc'[q] \in Claim
      PROVE  cont'[job'[q].name].status = "none"
  <2> DEFINE n == job[q].name
  <2>1. \/ pc[q] \in Claim /\ job'[q].name = n
        \/ Clear(q)
    <3>1. ASSUME NEW r \in Procs, Joins(r)
          PROVE  (pc[q] \in Claim /\ job'[q].name = n) \/ Clear(q)
      <4>1. CASE q # r
        BY <1>0, <1>3, <3>1, <4>1 DEF Joins, Alone
      <4>2. CASE q = r
        <5>1. job'[q].name = n
          BY <1>3, <3>1, <4>2 DEF Joins, FlightSteps
        <5>2. Clear(q) \/ Prepare(q)
          BY <1>3, <3>1, <4>2 DEF Joins
        <5> QED
          BY <5>1, <5>2 DEF Prepare
      <4> QED
        BY <4>1, <4>2
    <3>2. CASE \E r \in Requests : Starts(r)
      BY <1>0, <1>3, <3>2 DEF Starts, Alone
    <3>3. ASSUME NEW r \in Requests, Land(r)
          PROVE  pc[q] \in Claim /\ job'[q].name = n
      <4>1. q \in Woken(r) => pc'[q] = After(q, job[r].ok)
        BY <1>0, <1>3, <3>3 DEF Land
      <4>2. q \notin Woken(r)
        BY <1>3, <4>1, Returning
      <4> QED
        BY <1>0, <1>3, <3>3, <4>2 DEF Land
    <3>4. CASE \E m \in Names : Die(m)
      BY <1>3, <3>4 DEF Die, procVars
    <3> QED
      BY <1>3, <3>1, <3>2, <3>3, <3>4, FlightEffects
  <2>2. CASE Clear(q)
    <3>1. n \in Names
      BY <1>0, <2>2 DEF Clear, ProcsOK, Fits
    <3>2. cont'[n].status = "none"
      BY <1>0, <2>2, <3>1 DEF Clear, RemoveContainer, NoContainer, DaemonOK
    <3>3. job'[q] = job[q]
      BY <2>2 DEF Clear, Continue
    <3> QED
      BY <3>2, <3>3
  <2>3. ASSUME pc[q] \in Claim, job'[q].name = n
        PROVE  cont'[n].status = "none"
    <3>1. n \in Names /\ cont[n].status = "none" /\ flight[n] = q
      BY <1>0, <2>3 DEF ProcsOK, Fits, NameFree, Led, FlightSteps
    <3>2. ASSUME NEW r \in Requests, Creates(r)
          PROVE  cont'[n].status = "none"
      <4>1. r # q
        BY <1>3, <3>2 DEF Creates
      <4>2. flight[job[r].name] = r
        BY <3>2 DEF Creates, Led, FlightSteps
      <4> QED
        BY <3>1, <3>2, <4>1, <4>2 DEF Creates
    <3> QED
      BY <1>3, <3>1, <3>2, DaemonEffects
  <2> QED
    BY <2>1, <2>2, <2>3
<1> QED
  BY <1>1, <1>2, <1>3 DEF NameFree

(* A flight finds its name free when it creates a container, unless the     *)
(* daemon refused to remove what was there.                                 *)
THEOREM NameFreeToCreate ==
    ASSUME ~Fault("remove")
    PROVE  Spec => []NameFree
<1>1. Init => NameFree
  BY DEF Init, NameFree, Procs
<1>2. TypeOK /\ Led /\ NameFree /\ [Next]_vars => NameFree'
  BY StepNameFree
<1> QED
  BY <1>1, <1>2, TypeCorrect, OneLeader, PTL DEF Spec

-----------------------------------------------------------------------------
(* The in-flight counts.                                                    *)

CountedSteps == FlightSteps \cup {"ensure", "wait", "close"}

(* Between AddInFlightRequest and the deferred call a request runs          *)
(* EnsureContainer once more, and its command.                              *)
Counted == \A r \in Requests : job[r].counted => pc[r] \in CountedSteps

(* Removing a record forgets its count.                                     *)
Uncounted == \A n \in Names : ~rec[n].known => rec[n].inFlight = 0

(* A step that counts nobody.                                               *)
KeepsCount(r) ==
    /\ job'[r].counted = job[r].counted
    /\ job[r].counted => job'[r].name = job[r].name /\ pc'[r] \in CountedSteps

Recounts ==
    \A n \in Names :
        \/ rec'[n].inFlight = 0
        \/ rec'[n].inFlight = rec[n].inFlight /\ rec'[n].known = rec[n].known

(* A process that moves alone keeps the counts if it keeps its own.         *)
LEMMA OthersKeep ==
    ASSUME Counted, NEW r \in Procs, Alone(r), r \in Requests => KeepsCount(r)
    PROVE  \A q \in Requests : KeepsCount(q)
  BY DEF Counted, KeepsCount, Alone, Procs

(* The two calls that count, and every other step.                          *)
LEMMA CountEffects ==
    ASSUME TypeOK, Counted, Next
    PROVE  \/ (\A q \in Requests : KeepsCount(q)) /\ Recounts
           \/ \E r \in Requests : AddInFlightRequest(r) \/ RemoveInFlightRequest(r)
           \/ Restart
<1> DEFINE AllKeep == \A q \in Requests : KeepsCount(q)
<1>0. /\ ProcsOK /\ RecordsOK
      /\ Requests \subseteq Procs /\ Janitors \subseteq Procs
      /\ Requests \cap Janitors = {}
  BY ContainerAssumption DEF TypeOK, Procs
<1>1. UNCHANGED recordVars => Recounts
  BY DEF recordVars, Recounts
<1>2. ASSUME NEW n \in Names
      PROVE  /\ Use(n) => Recounts
             /\ Drop(n) => Recounts
             /\ \A ip \in IPs : Enter(n, ip) => Recounts
  BY <1>0, <1>2 DEF Use, Drop, Enter, NoRecord, Recounts, RecordsOK, Record
<1>3. ASSUME NEW r \in Requests, Arrive(r) \/ CallProxy(r)
      PROVE  AllKeep /\ Recounts
  <2>1. ~job[r].counted
    BY <1>3 DEF Arrive, CallProxy, Counted, CountedSteps, FlightSteps
  <2>2. ~job'[r].counted
    BY <1>0, <1>3 DEF Arrive, CallProxy, NoJob, ProcsOK
  <2>3. Alone(r)
    BY <1>0, <1>3 DEF Arrive, CallProxy, Goto, Alone, ProcsOK
  <2>4. KeepsCount(r)
    BY <1>0, <2>1, <2>2, <1>3 DEF KeepsCount, ProcsOK, Job, Arrive, CallProxy, NoJob
  <2> QED
    BY <1>0, <1>1, <1>3, <2>3, <2>4, OthersKeep DEF Arrive, CallProxy
<1>4. ASSUME NEW r \in Requests, TouchContainer(r)
      PROVE  AllKeep /\ Recounts
  <2>1. ~job[r].counted
    BY <1>4 DEF TouchContainer, Counted, CountedSteps, FlightSteps
  <2>2. Alone(r) /\ job'[r] \in {job[r], NoJob}
    BY <1>0, <1>4 DEF TouchContainer, Continue, Respond, Goto, Alone, ProcsOK
  <2>3. job[r].counted = FALSE /\ NoJob.counted = FALSE
    BY <1>0, <2>1 DEF NoJob, ProcsOK, Job
  <2>6. KeepsCount(r)
    BY <2>1, <2>2, <2>3 DEF KeepsCount
  <2>4. job[r].name \in Names
    BY <1>0, <1>4 DEF TouchContainer, ProcsOK, Fits
  <2>5. Recounts
    BY <1>1, <1>2, <1>4, <2>4 DEF TouchContainer
  <2> QED
    BY <1>0, <2>2, <2>5, <2>6, OthersKeep
<1>5. ASSUME NEW r \in Requests, EnsureContainer(r)
      PROVE  AllKeep /\ Recounts
  <2>1. Alone(r) /\ KeepsCount(r)
    BY <1>0, <1>5 DEF EnsureContainer, Continue, Goto, Alone, KeepsCount,
       CountedSteps, FlightSteps, ProcsOK
  <2> QED
    BY <1>0, <1>1, <1>5, <2>1, OthersKeep DEF EnsureContainer
<1>6. ASSUME NEW r \in Requests, Flying(r), ~Land(r)
      PROVE  AllKeep /\ Recounts
  <2>1. job[r].name \in Names
    BY <1>0, <1>6 DEF Flying, Cached, InspectCached, CacheHit, Evict, DropStale,
          InspectExisting, Adopt, Clear, Prepare, CreateContainer,
          StartContainer, ReadAddress, RecordContainer, ProcsOK, Fits
  <2>2. CASE Cached(r) \/ InspectCached(r) \/ CacheHit(r) \/ Evict(r) \/ DropStale(r)
    <3>1. Alone(r) /\ KeepsCount(r)
      BY <1>0, <2>2 DEF Cached, InspectCached, CacheHit, Evict, DropStale, Continue,
         Outcome, Goto, Alone, KeepsCount, CountedSteps, FlightSteps, ProcsOK, Job
    <3>2. Recounts
      BY <1>1, <1>2, <2>1, <2>2 DEF Cached, InspectCached, CacheHit, Evict, DropStale
    <3> QED
      BY <1>0, <3>1, <3>2, OthersKeep
  <2>3. CASE InspectExisting(r) \/ Adopt(r) \/ Clear(r) \/ Prepare(r)
    <3>1. Alone(r) /\ KeepsCount(r)
      BY <1>0, <2>3 DEF InspectExisting, Adopt, Clear, Prepare, Continue, Outcome,
         Goto, Alone, KeepsCount, CountedSteps, FlightSteps, ProcsOK, Job
    <3>2. Adopt(r) => job[r].ip \in IPs
      BY <1>0 DEF Adopt, ProcsOK, Fits
    <3>3. Recounts
      BY <1>1, <1>2, <2>1, <2>3, <3>2 DEF InspectExisting, Adopt, Clear, Prepare
    <3> QED
      BY <1>0, <3>1, <3>3, OthersKeep
  <2>4. CASE CreateContainer(r) \/ StartContainer(r) \/ ReadAddress(r)
                \/ RecordContainer(r)
    <3>1. Alone(r) /\ KeepsCount(r)
      BY <1>0, <2>4 DEF CreateContainer, StartContainer, ReadAddress,
         RecordContainer, Continue, Outcome, Goto, Alone, KeepsCount, CountedSteps,
         FlightSteps, ProcsOK, Job
    <3>2. RecordContainer(r) => job[r].ip \in IPs
      BY <1>0 DEF RecordContainer, ProcsOK, Fits
    <3>3. Recounts
      BY <1>1, <1>2, <2>1, <2>4, <3>2 DEF CreateContainer, StartContainer,
         ReadAddress, RecordContainer
    <3> QED
      BY <1>0, <3>1, <3>3, OthersKeep
  <2> QED
    BY <1>6, <2>2, <2>3, <2>4 DEF Flying
<1>7. ASSUME NEW r \in Requests, Land(r)
      PROVE  AllKeep /\ Recounts
  <2>1. ASSUME NEW q \in Requests
        PROVE  KeepsCount(q)
    <3>1. CASE q \notin Woken(r)
      BY <1>0, <1>7, <3>1 DEF Land, Counted, KeepsCount
    <3>2. CASE q \in Woken(r)
      <4>1. pc'[q] = After(q, job[r].ok)
        BY <1>0, <1>7, <3>2 DEF Land
      <4>2. job'[q] = IF After(q, job[r].ok) = "idle" THEN NoJob
                      ELSE [job[q] EXCEPT !.ip = NoIP, !.ok = FALSE]
        BY <1>0, <1>7, <3>2 DEF Land
      <4>3. job[q] \in Job
        BY <1>0 DEF ProcsOK
      <4>4. CASE job[q].counted
        BY <4>1, <4>2, <4>3, <4>4 DEF After, KeepsCount, CountedSteps, Job
      <4>5. CASE ~job[q].counted
        <5>1. job[q].counted = FALSE /\ NoJob.counted = FALSE
          BY <4>3, <4>5 DEF NoJob, Job
        <5>2. [job[q] EXCEPT !.ip = NoIP, !.ok = FALSE].counted = job[q].counted
          BY <4>3 DEF Job
        <5> QED
          BY <4>2, <4>5, <5>1, <5>2 DEF KeepsCount
      <4> QED
        BY <4>4, <4>5
    <3> QED
      BY <3>1, <3>2
  <2> QED
    BY <1>1, <1>7, <2>1 DEF Land
<1>8. ASSUME NEW r \in Requests, Resolving(r)
      PROVE  AllKeep /\ Recounts
  <2>1. ~job[r].counted
    BY <1>8 DEF Resolving, LookUp, Scan, Reindex, CopyFound, Counted, CountedSteps,
       FlightSteps
  <2>2. Alone(r) /\ job'[r].counted = job[r].counted
    <3>1. Alone(r)
      BY <1>0, <1>8 DEF Resolving, LookUp, Scan, Reindex, CopyFound, Continue,
         Respond, Goto, Alone, ProcsOK
    <3>2. job[r] \in Job /\ job[r].counted = FALSE /\ NoJob.counted = FALSE
      BY <1>0, <2>1 DEF ProcsOK, Job, NoJob
    <3>3. ASSUME LookUp(r)
          PROVE  job'[r].counted = job[r].counted
      BY <1>0, <3>2, <3>3 DEF LookUp, ProcsOK, Job
    <3>4. ASSUME Scan(r)
          PROVE  job'[r].counted = job[r].counted
      <4>1. ASSUME Respond(r)
            PROVE  job'[r].counted = job[r].counted
        BY <1>0, <3>2, <4>1 DEF Respond, ProcsOK
      <4>2. ASSUME NEW n, NEW ip, NEW t,
                   \/ job' = [job EXCEPT ![r].todo = t, ![r].name = n, ![r].ip = ip]
                   \/ job' = [job EXCEPT ![r].todo = t]
            PROVE  job'[r].counted = job[r].counted
        BY <1>0, <3>2, <4>2 DEF ProcsOK, Job
      <4> QED
        BY <3>4, <4>1, <4>2 DEF Scan
    <3>5. ASSUME Reindex(r) \/ CopyFound(r)
          PROVE  job'[r].counted = job[r].counted
      BY <3>5 DEF Reindex, CopyFound, Continue
    <3> QED
      BY <1>8, <3>1, <3>3, <3>4, <3>5 DEF Resolving
  <2>3. Recounts
    <3>1. CASE Reindex(r)
      <4>1. job[r].name \in Names
        BY <1>0, <3>1 DEF Reindex, ProcsOK, Fits
      <4> QED
        BY <1>0, <1>1, <3>1, <4>1 DEF Reindex, Recounts, RecordsOK, Record
    <3>2. CASE ~Reindex(r)
      BY <1>1, <1>8, <3>2 DEF Resolving, LookUp, Scan, CopyFound, Recounts
    <3> QED
      BY <3>1, <3>2
  <2> QED
    BY <1>0, <2>1, <2>2, <2>3, OthersKeep DEF KeepsCount
<1>9. ASSUME NEW r \in Procs, Terminating(r)
      PROVE  AllKeep /\ Recounts
  <2>1. r \in Requests => ~job[r].counted
    BY <1>9 DEF Terminating, StopContainer, ForceRemove, CleanCredentials,
       ProbeStopped, ForgetContainer, Counted, CountedSteps, FlightSteps
  <2>2. Alone(r) /\ (~job[r].counted => ~job'[r].counted)
    BY <1>0, <1>9 DEF Terminating, StopContainer, ForceRemove, CleanCredentials,
       ProbeStopped, ForgetContainer, Continue, Respond, NoJob, Goto, Alone,
       ProcsOK, Job
  <2>3. Recounts
    <3>1. CASE ForgetContainer(r)
      BY <1>0, <1>2, <3>1 DEF ForgetContainer, ProcsOK, Fits
    <3>2. CASE ~ForgetContainer(r)
      BY <1>1, <1>9, <3>2 DEF Terminating, StopContainer, ForceRemove,
         CleanCredentials, ProbeStopped
    <3> QED
      BY <3>1, <3>2
  <2>4. r \in Requests => KeepsCount(r)
    <3>1. job'[r].counted \in BOOLEAN /\ job[r].counted \in BOOLEAN
      BY <1>0, <1>9, TerminatingTyped DEF TypeOK, ProcsOK, Job
    <3> QED
      BY <2>1, <2>2, <3>1 DEF KeepsCount
  <2> QED
    BY <2>2, <2>3, <2>4, OthersKeep
<1>10. ASSUME NEW j \in Janitors, ExpireIdle(j)
       PROVE  AllKeep /\ Recounts
  <2>1. Alone(j)
    BY <1>0, <1>10 DEF ExpireIdle, Continue, Respond, Goto, Alone, ProcsOK
  <2>2. Recounts
    BY <1>10 DEF ExpireIdle, Recounts
  <2> QED
    BY <1>0, <2>1, <2>2, OthersKeep
<1>11. ASSUME NEW j \in Janitors, NEW n \in Names, Fire(n, j)
       PROVE  AllKeep /\ Recounts
  <2>1. Alone(j)
    BY <1>0, <1>11 DEF Fire, Goto, Alone, ProcsOK
  <2>2. Recounts
    BY <1>0, <1>11 DEF Fire, Recounts, RecordsOK, Record
  <2> QED
    BY <1>0, <2>1, <2>2, OthersKeep
<1>12. ASSUME NEW n \in Names, Die(n)
       PROVE  AllKeep /\ Recounts
  BY <1>1, <1>12 DEF Die, procVars, KeepsCount, Counted
<1> QED
  BY <1>3, <1>4, <1>5, <1>6, <1>7, <1>8, <1>9, <1>10, <1>11, <1>12
     DEF Next, Serving

(* The requests of a name are finitely many.                                *)
LEMMA InFlightFinite ==
    ASSUME NEW n \in Names
    PROVE  IsFiniteSet(InFlight(n)) /\ Cardinality(InFlight(n)) \in Nat
<1>1. InFlight(n) \subseteq Requests /\ IsFiniteSet(Requests)
  BY ContainerAssumption DEF InFlight
<1>2. IsFiniteSet(InFlight(n))
  BY <1>1, FS_Subset
<1> QED
  BY <1>2, FS_CardinalityType

(* AddInFlightRequest counts a request that no record counted before, and   *)
(* RemoveInFlightRequest takes it away before it is over.                   *)
LEMMA StepCounts ==
    ASSUME TypeOK, Counted, Uncounted, InFlightBacked, [Next]_vars
    PROVE  Counted' /\ Uncounted' /\ InFlightBacked'
<1>0. ProcsOK /\ RecordsOK /\ Requests \subseteq Procs
  BY DEF TypeOK, Procs
<1>1. \A n \in Names : rec[n].inFlight \in Nat
  BY <1>0 DEF RecordsOK, Record
<1>2. CASE UNCHANGED vars
  BY <1>2 DEF vars, recordVars, procVars, Counted, Uncounted, InFlightBacked, InFlight
<1>3. CASE (\A q \in Requests : KeepsCount(q)) /\ Recounts
  <2>1. Counted'
    BY <1>3 DEF Counted, KeepsCount
  <2>2. Uncounted'
    BY <1>3 DEF Recounts, Uncounted
  <2>3. ASSUME NEW n \in Names
        PROVE  InFlight(n) \subseteq InFlight(n)' /\ InFlight(n)' \subseteq Requests
    BY <1>3 DEF KeepsCount, InFlight
  <2>4. ASSUME NEW n \in Names
        PROVE  rec'[n].inFlight <= Cardinality(InFlight(n)')
    <3>1. IsFiniteSet(InFlight(n)')
      BY <2>3, ContainerAssumption, FS_Subset
    <3>2. /\ Cardinality(InFlight(n)) <= Cardinality(InFlight(n)')
          /\ Cardinality(InFlight(n)') \in Nat
          /\ Cardinality(InFlight(n)) \in Nat
      BY <2>3, <3>1, FS_Subset, FS_CardinalityType
    <3>3. rec[n].inFlight <= Cardinality(InFlight(n))
      BY DEF InFlightBacked
    <3>4. rec'[n].inFlight = 0 \/ rec'[n].inFlight = rec[n].inFlight
      BY <1>3 DEF Recounts
    <3> QED
      BY <1>1, <3>2, <3>3, <3>4
  <2>5. InFlightBacked'
    BY <2>4 DEF InFlightBacked
  <2> QED
    BY <2>1, <2>2, <2>5
<1>4. ASSUME NEW r \in Requests, AddInFlightRequest(r)
      PROVE  Counted' /\ Uncounted' /\ InFlightBacked'
  <2>0. PICK m \in Names : m = job[r].name
    BY <1>0, <1>4 DEF AddInFlightRequest, ProcsOK, Fits
  <2>1. m = job[r].name /\ ~job[r].counted
    BY <2>0, <1>0, <1>4 DEF AddInFlightRequest, ProcsOK, Fits, Counted, CountedSteps,
       FlightSteps
  <2>2. Counted'
    BY <1>0, <1>4 DEF AddInFlightRequest, Goto, Counted, CountedSteps, ProcsOK, Job
  <2>3. Uncounted'
    BY <1>0, <1>4, <2>1 DEF AddInFlightRequest, Uncounted, RecordsOK, Record
  <2>4. job' = [job EXCEPT ![r].counted = TRUE]
    BY <1>4 DEF AddInFlightRequest
  <2>5. /\ InFlight(m)' = InFlight(m) \cup {r}
        /\ \A n \in Names \ {m} : InFlight(n)' = InFlight(n)
    BY <1>0, <2>1, <2>4 DEF InFlight, ProcsOK, Job
  <2>6. r \notin InFlight(m)
    BY <2>1 DEF InFlight
  <2>7. Cardinality(InFlight(m)') = Cardinality(InFlight(m)) + 1
    BY <2>1, <2>5, <2>6, InFlightFinite, FS_AddElement
  <2>8. /\ rec'[m].inFlight <= rec[m].inFlight + 1
        /\ \A n \in Names \ {m} : rec'[n].inFlight = rec[n].inFlight
    BY <1>0, <1>1, <1>4, <2>1 DEF AddInFlightRequest, RecordsOK, Record
  <2>9. rec'[m].inFlight \in Nat
    BY <1>0, <1>1, <1>4, <2>1 DEF AddInFlightRequest, RecordsOK, Record
  <2>10. InFlightBacked'
    <3>1. rec[m].inFlight <= Cardinality(InFlight(m))
      BY <2>1 DEF InFlightBacked
    <3>2. rec'[m].inFlight <= Cardinality(InFlight(m)')
      BY <1>1, <2>1, <2>7, <2>8, <2>9, <3>1, InFlightFinite
    <3>3. \A n \in Names \ {m} : rec'[n].inFlight <= Cardinality(InFlight(n)')
      BY <2>5, <2>8 DEF InFlightBacked
    <3> QED
      BY <3>2, <3>3 DEF InFlightBacked
  <2> QED
    BY <2>2, <2>3, <2>10
<1>5. ASSUME NEW r \in Requests, RemoveInFlightRequest(r)
      PROVE  Counted' /\ Uncounted' /\ InFlightBacked'
  <2>1. PICK m \in Names : m = job[r].name
    BY <1>0, <1>5 DEF RemoveInFlightRequest, ProcsOK, Fits
  <2>2. job' = [job EXCEPT ![r] = NoJob] /\ pc' = [pc EXCEPT ![r] = "idle"]
    BY <1>5 DEF RemoveInFlightRequest, Respond, Goto
  <2>3. Counted'
    BY <1>0, <2>2 DEF Counted, NoJob, ProcsOK
  <2>4. Uncounted'
    BY <1>0, <1>5, <2>1 DEF RemoveInFlightRequest, Uncounted, RecordsOK, Record
  <2>5. /\ InFlight(m)' = InFlight(m) \ {r}
        /\ \A n \in Names \ {m} : InFlight(n)' = InFlight(n)
    BY <1>0, <2>1, <2>2 DEF InFlight, NoJob, ProcsOK
  <2>6. Cardinality(InFlight(m)') >= Cardinality(InFlight(m)) - 1
    <3>1. CASE r \in InFlight(m)
      <4>1. Cardinality(InFlight(m) \ {r}) = Cardinality(InFlight(m)) - 1
        BY <2>1, <3>1, InFlightFinite, FS_RemoveElement
      <4> QED
        BY <2>1, <2>5, <4>1, InFlightFinite
    <3>2. CASE r \notin InFlight(m)
      <4>1. InFlight(m)' = InFlight(m)
        BY <2>5, <3>2
      <4> QED
        BY <2>1, <4>1, InFlightFinite
    <3> QED
      BY <3>1, <3>2
  <2>7. Cardinality(InFlight(m)') \in Nat
    <3>1. IsFiniteSet(InFlight(m) \ {r})
      BY <2>1, InFlightFinite, FS_Subset
    <3> QED
      BY <2>5, <3>1, FS_CardinalityType
  <2>8. rec'[m].inFlight = IF rec[m].known THEN Less(rec[m].inFlight)
                                          ELSE rec[m].inFlight
    BY <1>0, <1>5, <2>1 DEF RemoveInFlightRequest, RecordsOK, Record
  <2>9. \A n \in Names \ {m} : rec'[n].inFlight = rec[n].inFlight
    BY <1>0, <1>5, <2>1 DEF RemoveInFlightRequest, RecordsOK
  <2>10. rec'[m].inFlight = 0 \/ rec'[m].inFlight = rec[m].inFlight - 1
    <3>1. CASE rec[m].known
      BY <1>1, <2>1, <2>8, <3>1 DEF Less
    <3>2. CASE ~rec[m].known
      BY <2>1, <2>8, <3>2 DEF Uncounted
    <3> QED
      BY <3>1, <3>2
  <2>11. InFlightBacked'
    <3>1. rec[m].inFlight <= Cardinality(InFlight(m))
      BY <2>1 DEF InFlightBacked
    <3>2. rec'[m].inFlight <= Cardinality(InFlight(m)')
      BY <1>1, <2>1, <2>6, <2>7, <2>10, <3>1, InFlightFinite
    <3>3. \A n \in Names \ {m} : rec'[n].inFlight <= Cardinality(InFlight(n)')
      BY <2>5, <2>9 DEF InFlightBacked
    <3> QED
      BY <3>2, <3>3 DEF InFlightBacked
  <2> QED
    BY <2>3, <2>4, <2>11
<1>6. CASE Restart
  <2>1. Counted'
    BY <1>0, <1>6 DEF Restart, Counted, NoJob
  <2>2. \A n \in Names : rec'[n].inFlight = 0
    BY <1>6 DEF Restart, NoRecord
  <2>3. \A n \in Names : Cardinality(InFlight(n)') \in Nat
    <3>1. \A n \in Names : InFlight(n)' = {}
      BY <1>0, <1>6 DEF Restart, InFlight, NoJob
    <3> QED
      BY <3>1, FS_EmptySet
  <2>4. InFlightBacked'
    BY <2>2, <2>3 DEF InFlightBacked
  <2> QED
    BY <2>1, <2>2, <2>4 DEF Uncounted
<1> QED
  BY <1>2, <1>3, <1>4, <1>5, <1>6, CountEffects

(* A record never counts a request that is over, across every replacement   *)
(* of the record while requests are counted.                                *)
THEOREM CountsBacked == Spec => []InFlightBacked
<1>1. Init => Counted /\ Uncounted /\ InFlightBacked
  <2> SUFFICES ASSUME Init
               PROVE  Counted /\ Uncounted /\ InFlightBacked
    OBVIOUS
  <2>1. Counted /\ Uncounted
    BY DEF Init, Counted, Uncounted, NoJob, NoRecord, Procs
  <2>2. \A n \in Names : InFlight(n) = {}
    BY DEF Init, InFlight, NoJob, Procs
  <2>3. \A n \in Names : rec[n].inFlight = 0 /\ Cardinality(InFlight(n)) = 0
    BY <2>2, FS_EmptySet DEF Init, NoRecord
  <2>4. InFlightBacked
    BY <2>3 DEF InFlightBacked
  <2> QED
    BY <2>1, <2>4
<1>2. TypeOK /\ (Counted /\ Uncounted /\ InFlightBacked) /\ [Next]_vars
        => (Counted /\ Uncounted /\ InFlightBacked)'
  BY StepCounts
<1> QED
  BY <1>1, <1>2, TypeCorrect, PTL DEF Spec

-----------------------------------------------------------------------------
(* Who looks after what: credentials without a container, and records       *)
(* without a timer.                                                         *)

(* Where a process has something to finish for its name.                    *)
Duties == {"create", "check"} \cup TerminateSteps

(* Only its own next step takes a process away from what it has to finish:  *)
(* no flight that lands, no answer of another request does.                 *)
LEMMA DutiesKept ==
    ASSUME TypeOK, Next, NEW q \in Procs, pc[q] \in Duties
    PROVE  \/ pc'[q] = pc[q] /\ job'[q] = job[q]
           \/ Terminating(q)
           \/ q \in Requests /\ CreateContainer(q)
           \/ q \in Janitors /\ ExpireIdle(q)
           \/ Restart
<1> DEFINE Stays == pc'[q] = pc[q] /\ job'[q] = job[q]
<1>0. /\ ProcsOK
      /\ Requests \subseteq Procs /\ Janitors \subseteq Procs
  BY DEF TypeOK, Procs
<1>1. ASSUME NEW r \in Procs, Alone(r), r # q
      PROVE  Stays
  BY <1>1 DEF Alone
<1>2. ASSUME NEW r \in Requests,
             \/ Arrive(r) \/ CallProxy(r) \/ TouchContainer(r)
             \/ AddInFlightRequest(r) \/ RemoveInFlightRequest(r)
             \/ EnsureContainer(r)
      PROVE  Stays
  <2>1. r # q
    BY <1>2 DEF Arrive, CallProxy, TouchContainer, AddInFlightRequest,
       RemoveInFlightRequest, EnsureContainer, Duties, TerminateSteps
  <2>2. Alone(r)
    BY <1>0, <1>2 DEF Arrive, CallProxy, TouchContainer, AddInFlightRequest,
       RemoveInFlightRequest, EnsureContainer, Continue, Respond, Goto, Alone,
       ProcsOK
  <2> QED
    BY <1>0, <1>1, <2>1, <2>2
<1>3. ASSUME NEW r \in Requests, Flying(r), ~CreateContainer(r), ~Land(r)
      PROVE  Stays
  <2>1. r # q
    BY <1>3 DEF Flying, Cached, InspectCached, CacheHit, Evict, DropStale,
       InspectExisting, Adopt, Clear, Prepare, StartContainer, ReadAddress,
       RecordContainer, Duties, TerminateSteps
  <2>2. Alone(r)
    <3>1. CASE Cached(r) \/ InspectCached(r) \/ CacheHit(r) \/ Evict(r)
                  \/ DropStale(r) \/ InspectExisting(r)
      BY <1>0, <3>1 DEF Cached, InspectCached, CacheHit, Evict, DropStale,
         InspectExisting, Continue, Outcome, Goto, Alone, ProcsOK
    <3>2. CASE Adopt(r) \/ Clear(r) \/ Prepare(r) \/ StartContainer(r)
                  \/ ReadAddress(r) \/ RecordContainer(r)
      BY <1>0, <3>2 DEF Adopt, Clear, Prepare, StartContainer, ReadAddress,
         RecordContainer, Continue, Outcome, Goto, Alone, ProcsOK
    <3> QED
      BY <1>3, <3>1, <3>2 DEF Flying
  <2> QED
    BY <1>0, <1>1, <2>1, <2>2
<1>4. ASSUME NEW r \in Requests, CreateContainer(r)
      PROVE  Stays \/ (q \in Requests /\ CreateContainer(q))
  <2>1. Alone(r)
    BY <1>0, <1>4 DEF CreateContainer, Continue, Outcome, Goto, Alone, ProcsOK
  <2> QED
    BY <1>0, <1>1, <1>4, <2>1
<1>5. ASSUME NEW r \in Requests, Land(r)
      PROVE  Stays
  <2>1. q \notin Woken(r)
    BY <1>5 DEF Land, Woken, Waiters, Duties, TerminateSteps
  <2> QED
    BY <1>5, <2>1 DEF Land
<1>6. ASSUME NEW r \in Requests, Resolving(r)
      PROVE  Stays
  <2>1. r # q
    BY <1>6 DEF Resolving, LookUp, Scan, Reindex, CopyFound, Duties, TerminateSteps
  <2>2. Alone(r)
    BY <1>0, <1>6 DEF Resolving, LookUp, Scan, Reindex, CopyFound, Continue,
       Respond, Goto, Alone, ProcsOK
  <2> QED
    BY <1>0, <1>1, <2>1, <2>2
<1>7. ASSUME NEW r \in Procs, Terminating(r)
      PROVE  Stays \/ Terminating(q)
  <2>1. Alone(r)
    BY <1>0, <1>7 DEF Terminating, StopContainer, ForceRemove, CleanCredentials,
       ProbeStopped, ForgetContainer, Continue, Respond, Goto, Alone, ProcsOK
  <2> QED
    BY <1>1, <1>7, <2>1
<1>8. ASSUME NEW j \in Janitors, ExpireIdle(j)
      PROVE  Stays \/ (q \in Janitors /\ ExpireIdle(q))
  <2>1. Alone(j)
    BY <1>0, <1>8 DEF ExpireIdle, Continue, Respond, Goto, Alone, ProcsOK
  <2> QED
    BY <1>0, <1>1, <1>8, <2>1
<1>9. ASSUME NEW j \in Janitors, NEW n \in Names, Fire(n, j)
      PROVE  Stays
  <2>1. Alone(j) /\ j # q
    BY <1>0, <1>9 DEF Fire, Goto, Alone, ProcsOK, Duties, TerminateSteps
  <2> QED
    BY <1>0, <1>1, <2>1
<1>10. ASSUME NEW n \in Names, Die(n)
       PROVE  Stays
  BY <1>10 DEF Die, procVars
<1> QED
  BY <1>2, <1>3, <1>4, <1>5, <1>6, <1>7, <1>8, <1>9, <1>10 DEF Next, Serving

(* A process that is about to create the container the credentials of n     *)
(* were made for, or to remove them.                                        *)
Responsible(r, n) ==
    /\ job[r].name = n
    /\ \/ pc[r] = "clean"
       \/ pc[r] = "create" /\ MountsR2(r)

(* CredentialsOwned, with the create step narrowed to the routes that mount *)
(* R2: the others create a container without removing credentials if that   *)
(* fails.                                                                   *)
Accounted(n) ==
    \/ cont[n].status # "none"
    \/ \E r \in Procs : Responsible(r, n)

CredentialsAccounted == \A n \in creds : Accounted(n)

(* Credentials that are there after a step were there before, with their    *)
(* container if they had one, or somebody has become responsible for them.  *)
LEMMA CredentialEffects ==
    ASSUME TypeOK, ~Fault("clean"), Next, NEW n \in creds'
    PROVE  \/ n \in creds /\ (cont[n].status # "none" => cont'[n].status # "none")
           \/ \E r \in Procs : Responsible(r, n)'
<1> DEFINE Kept == n \in creds /\ (cont[n].status # "none" => cont'[n].status # "none")
           Assumed(r) == Responsible(r, n)'
<1>0. /\ ProcsOK /\ DaemonOK
      /\ Requests \subseteq Procs /\ Janitors \subseteq Procs
  BY DEF TypeOK, Procs
<1>1. UNCHANGED daemonVars => Kept
  BY DEF daemonVars
<1>2. ASSUME NEW m \in Names, RemoveContainer(m)
      PROVE  Kept
  <2>1. CASE UNCHANGED daemonVars
    BY <1>1, <2>1
  <2>2. CASE cont' = [cont EXCEPT ![m] = NoContainer] /\ creds' = creds \ {m}
    BY <1>0, <2>2 DEF DaemonOK
  <2> QED
    BY <1>2, <2>1, <2>2 DEF RemoveContainer
<1>3. ASSUME NEW r \in Requests,
             \/ Arrive(r) \/ CallProxy(r) \/ TouchContainer(r)
             \/ AddInFlightRequest(r) \/ RemoveInFlightRequest(r)
             \/ EnsureContainer(r)
      PROVE  Kept
  BY <1>1, <1>3 DEF Arrive, CallProxy, TouchContainer, AddInFlightRequest,
     RemoveInFlightRequest, EnsureContainer
<1>4. ASSUME NEW r \in Requests, Flying(r)
      PROVE  Kept \/ Assumed(r)
  <2>1. CASE Cached(r) \/ InspectCached(r) \/ CacheHit(r) \/ DropStale(r)
                \/ Adopt(r) \/ ReadAddress(r) \/ RecordContainer(r) \/ Land(r)
    BY <1>1, <2>1 DEF Cached, InspectCached, CacheHit, DropStale, Adopt,
       ReadAddress, RecordContainer, Land
  <2>2. CASE Evict(r) \/ InspectExisting(r) \/ Clear(r)
    <3>1. job[r].name \in Names
      BY <1>0, <2>2 DEF Evict, InspectExisting, Clear, ProcsOK, Fits
    <3> QED
      BY <1>1, <1>2, <2>2, <3>1 DEF Evict, InspectExisting, Clear
  <2>3. CASE Prepare(r)
    <3>1. CASE n \in creds
      BY <2>3, <3>1 DEF Prepare
    <3>2. CASE n \notin creds
      <4>1. MountsR2(r) /\ n = job[r].name /\ Continue(r, "create")
        BY <2>3, <3>2 DEF Prepare
      <4> QED
        BY <1>0, <4>1 DEF Responsible, MountsR2, Continue, Goto, ProcsOK
    <3> QED
      BY <3>1, <3>2
  <2>4. CASE CreateContainer(r)
    BY <1>0, <2>4 DEF CreateContainer, Discard, DaemonOK
  <2>5. CASE StartContainer(r)
    <3>1. job[r].name \in Names
      BY <1>0, <2>5 DEF StartContainer, ProcsOK, Fits
    <3> QED
      BY <1>0, <2>5, <3>1 DEF StartContainer, DaemonOK, Container
  <2> QED
    BY <1>4, <2>1, <2>2, <2>3, <2>4, <2>5 DEF Flying
<1>5. ASSUME NEW r \in Requests, Resolving(r)
      PROVE  Kept
  BY <1>1, <1>5 DEF Resolving, LookUp, Scan, Reindex, CopyFound
<1>6. ASSUME NEW r \in Procs, Terminating(r)
      PROVE  Kept \/ Assumed(r)
  <2>0. job[r].name \in Names
    BY <1>0, <1>6 DEF Terminating, StopContainer, ForceRemove, CleanCredentials,
       ProbeStopped, ForgetContainer, ProcsOK, Fits
  <2>1. CASE StopContainer(r)
    BY <1>0, <2>0, <2>1 DEF StopContainer, DaemonOK, Container
  <2>2. CASE ForceRemove(r)
    <3>1. CASE n = job[r].name /\ Continue(r, "clean")
      BY <1>0, <3>1 DEF Responsible, Continue, Goto, ProcsOK
    <3>2. CASE n = job[r].name /\ ~Continue(r, "clean")
      BY <2>2, <3>2 DEF ForceRemove
    <3>3. CASE n # job[r].name
      BY <1>0, <2>0, <2>2, <3>3 DEF ForceRemove, DaemonOK
    <3> QED
      BY <3>1, <3>2, <3>3
  <2>3. CASE CleanCredentials(r)
    BY <2>3 DEF CleanCredentials
  <2>4. CASE ProbeStopped(r) \/ ForgetContainer(r)
    BY <1>1, <2>4 DEF ProbeStopped, ForgetContainer
  <2> QED
    BY <1>6, <2>1, <2>2, <2>3, <2>4 DEF Terminating
<1>7. ASSUME NEW j \in Janitors, ExpireIdle(j) \/ \E m \in Names : Fire(m, j)
      PROVE  Kept
  BY <1>1, <1>7 DEF ExpireIdle, Fire
<1>8. ASSUME NEW m \in Names, Die(m)
      PROVE  Kept
  BY <1>0, <1>8 DEF Die, Up, DaemonOK
<1>9. CASE Restart
  BY <1>1, <1>9 DEF Restart
<1> QED
  BY <1>0, <1>3, <1>4, <1>5, <1>6, <1>7, <1>8, <1>9 DEF Next, Serving

(* Whoever is responsible leaves a container or no credentials behind.      *)
LEMMA StepCredentials ==
    ASSUME TypeOK, CredentialsAccounted, ~Fault("clean"), [Next]_vars, ~Restart
    PROVE  CredentialsAccounted'
<1>0. /\ ProcsOK /\ DaemonOK /\ Requests \subseteq Procs
  BY DEF TypeOK, Procs
<1>1. CASE UNCHANGED vars
  BY <1>1 DEF vars, daemonVars, procVars, CredentialsAccounted, Accounted,
     Responsible, MountsR2
<1>2. ASSUME Next, NEW n \in creds'
      PROVE  Accounted(n)'
  <2>1. CASE \E r \in Procs : Responsible(r, n)'
    BY <2>1 DEF Accounted
  <2>2. CASE n \in creds /\ cont[n].status # "none" /\ cont'[n].status # "none"
    BY <2>2 DEF Accounted
  <2>3. ASSUME n \in creds, NEW q \in Procs, Responsible(q, n)
        PROVE  Accounted(n)'
    <3>1. n \in Names /\ pc[q] \in {"clean", "create"} /\ pc[q] \in Duties
      BY <1>0, <2>3 DEF DaemonOK, Responsible, Duties, TerminateSteps
    <3>2. CASE pc'[q] = pc[q] /\ job'[q] = job[q]
      BY <2>3, <3>2 DEF Accounted, Responsible, MountsR2
    <3>3. CASE Terminating(q)
      <4>1. CleanCredentials(q)
        BY <3>1, <3>3 DEF Terminating, StopContainer, ForceRemove, ProbeStopped,
           ForgetContainer
      <4> QED
        BY <1>2, <2>3, <4>1 DEF CleanCredentials, Responsible
    <3>4. CASE q \in Requests /\ CreateContainer(q)
      <4>1. MountsR2(q) /\ job[q].name = n
        BY <2>3, <3>4 DEF Responsible, CreateContainer
      <4>2. \/ Discard(q)
            \/ cont' = [cont EXCEPT ![n] =
                           [status |-> "down", ip |-> NoIP, image |-> image]]
        BY <3>4, <4>1 DEF CreateContainer
      <4>3. cont'[n].status # "none"
        BY <1>0, <1>2, <3>1, <4>1, <4>2 DEF Discard, DaemonOK
      <4> QED
        BY <4>3 DEF Accounted
    <3>5. ~(q \in Janitors /\ ExpireIdle(q))
      BY <3>1 DEF ExpireIdle
    <3> QED
      BY <1>2, <3>1, <3>2, <3>3, <3>4, <3>5, DutiesKept
  <2> QED
    BY <1>2, <2>1, <2>2, <2>3, CredentialEffects DEF CredentialsAccounted, Accounted
<1> QED
  BY <1>1, <1>2 DEF CredentialsAccounted

(* Only a restart changes the host.                                         *)
LEMMA HostKept ==
    ASSUME Next, ~Restart
    PROVE  UNCHANGED hostVars
<1>1. ASSUME NEW r \in Requests,
             \/ Arrive(r) \/ CallProxy(r) \/ TouchContainer(r)
             \/ AddInFlightRequest(r) \/ RemoveInFlightRequest(r)
             \/ EnsureContainer(r) \/ Resolving(r)
      PROVE  UNCHANGED hostVars
  BY <1>1 DEF Arrive, CallProxy, TouchContainer, AddInFlightRequest,
     RemoveInFlightRequest, EnsureContainer, Resolving, LookUp, Scan, Reindex,
     CopyFound
<1>2. ASSUME NEW r \in Requests, Flying(r)
      PROVE  UNCHANGED hostVars
  BY <1>2 DEF Flying, Cached, InspectCached, CacheHit, Evict, DropStale,
     InspectExisting, Adopt, Clear, Prepare, CreateContainer, StartContainer,
     ReadAddress, RecordContainer, Land
<1>3. ASSUME NEW r \in Procs, Terminating(r)
      PROVE  UNCHANGED hostVars
  BY <1>3 DEF Terminating, StopContainer, ForceRemove, CleanCredentials,
     ProbeStopped, ForgetContainer
<1>4. ASSUME NEW j \in Janitors, ExpireIdle(j) \/ \E n \in Names : Fire(n, j)
      PROVE  UNCHANGED hostVars
  BY <1>4 DEF ExpireIdle, Fire
<1>5. ASSUME NEW n \in Names, Die(n)
      PROVE  UNCHANGED hostVars
  BY <1>5 DEF Die
<1> QED
  BY <1>1, <1>2, <1>3, <1>4, <1>5 DEF Next, Serving

(* Until the service starts again, which forgets who was responsible,       *)
(* temporary credentials never outlive their container, whatever else the   *)
(* daemon fails to do: only an error of their own removal leaves them.      *)
THEOREM CredentialsAlwaysOwned ==
    ASSUME ~Fault("clean")
    PROVE  Spec => [](restarts = 0 => CredentialsOwned)
<1> DEFINE Inv == restarts = 0 => CredentialsAccounted
<1>1. Init => Inv
  BY DEF Init, CredentialsAccounted
<1>2. TypeOK /\ Inv /\ [Next]_vars => Inv'
  <2> SUFFICES ASSUME TypeOK, Inv, [Next]_vars, restarts' = 0
               PROVE  CredentialsAccounted'
    OBVIOUS
  <2>1. ~Restart
    BY DEF Restart, TypeOK
  <2>2. restarts = 0
    <3>1. CASE UNCHANGED vars
      BY <3>1 DEF vars, hostVars
    <3>2. CASE Next
      BY <2>1, <3>2, HostKept DEF hostVars
    <3> QED
      BY <3>1, <3>2
  <2> QED
    BY <2>1, <2>2, StepCredentials
<1>3. Inv => (restarts = 0 => CredentialsOwned)
  BY DEF CredentialsAccounted, Accounted, Responsible, CredentialsOwned
<1> QED
  BY <1>1, <1>2, <1>3, TypeCorrect, PTL DEF Spec

(* Nobody probes a container: TerminateContainer asks whether it still runs *)
(* only when its removal failed.                                            *)
Unprobed == \A r \in Procs : pc[r] # "probe"

(* Every step either leaves the timer of a known record, or arms it, or     *)
(* fires it and somebody checks the record.                                 *)
LEMMA WatchEffects ==
    ASSUME TypeOK, Next, NEW n \in Names, rec'[n].known
    PROVE  \/ rec[n].known /\ timer'[n] = timer[n]
           \/ timer'[n] = "armed"
           \/ \E j \in Procs : job'[j].name = n /\ pc'[j] = "check"
<1> DEFINE Kept == rec[n].known /\ timer'[n] = timer[n]
           Armed == timer'[n] = "armed"
           Checked == \E j \in Procs : job'[j].name = n /\ pc'[j] = "check"
<1>0. /\ ProcsOK /\ RecordsOK
      /\ Requests \subseteq Procs /\ Janitors \subseteq Procs
  BY DEF TypeOK, Procs
<1>1. UNCHANGED recordVars => Kept
  BY DEF recordVars
<1>2. ASSUME NEW m \in Names
      PROVE  /\ Use(m) => Kept \/ Armed
             /\ Drop(m) => Kept
             /\ \A ip \in IPs : Enter(m, ip) => Kept \/ Armed
  BY <1>0, <1>2 DEF Use, Drop, Enter, NoRecord, RecordsOK, Record
<1>3. ASSUME NEW r \in Requests, Arrive(r) \/ CallProxy(r) \/ EnsureContainer(r)
      PROVE  Kept
  BY <1>1, <1>3 DEF Arrive, CallProxy, EnsureContainer
<1>4. ASSUME NEW r \in Requests,
             TouchContainer(r) \/ AddInFlightRequest(r) \/ RemoveInFlightRequest(r)
      PROVE  Kept \/ Armed
  <2>1. job[r].name \in Names
    BY <1>0, <1>4 DEF TouchContainer, AddInFlightRequest, RemoveInFlightRequest,
          ProcsOK, Fits
  <2>2. CASE TouchContainer(r)
    BY <1>1, <1>2, <2>1, <2>2 DEF TouchContainer
  <2>3. CASE AddInFlightRequest(r)
    BY <1>0, <2>1, <2>3 DEF AddInFlightRequest, RecordsOK, Record
  <2>4. CASE RemoveInFlightRequest(r)
    BY <1>0, <2>1, <2>4 DEF RemoveInFlightRequest, RecordsOK, Record
  <2> QED
    BY <1>4, <2>2, <2>3, <2>4
<1>5. ASSUME NEW r \in Requests, Flying(r)
      PROVE  Kept \/ Armed
  <2>1. job[r].name \in Names
    BY <1>0, <1>5 DEF Flying, Cached, InspectCached, CacheHit, Evict, DropStale,
          InspectExisting, Adopt, Clear, Prepare, CreateContainer,
          StartContainer, ReadAddress, RecordContainer, Land, ProcsOK, Fits
  <2>2. CASE Adopt(r) \/ RecordContainer(r)
    <3>1. job[r].ip \in IPs
      BY <1>0, <2>2 DEF Adopt, RecordContainer, ProcsOK, Fits
    <3> QED
      BY <1>2, <2>1, <2>2, <3>1 DEF Adopt, RecordContainer
  <2>3. CASE CacheHit(r) \/ DropStale(r)
    BY <1>1, <1>2, <2>1, <2>3 DEF CacheHit, DropStale
  <2>4. CASE Cached(r) \/ InspectCached(r) \/ Evict(r) \/ InspectExisting(r)
                \/ Clear(r) \/ Prepare(r)
    BY <1>1, <2>4 DEF Cached, InspectCached, Evict, InspectExisting, Clear, Prepare
  <2>5. CASE CreateContainer(r) \/ StartContainer(r) \/ ReadAddress(r) \/ Land(r)
    BY <1>1, <2>5 DEF CreateContainer, StartContainer, ReadAddress, Land
  <2> QED
    BY <1>5, <2>2, <2>3, <2>4, <2>5 DEF Flying
<1>6. ASSUME NEW r \in Requests, Resolving(r)
      PROVE  Kept
  <2>1. CASE Reindex(r)
    <3>1. job[r].name \in Names
      BY <1>0, <2>1 DEF Reindex, ProcsOK, Fits
    <3> QED
      BY <1>0, <1>1, <2>1, <3>1 DEF Reindex, RecordsOK, Record
  <2>2. CASE LookUp(r) \/ Scan(r) \/ CopyFound(r)
    BY <1>1, <2>2 DEF LookUp, Scan, CopyFound
  <2> QED
    BY <1>6, <2>1, <2>2 DEF Resolving
<1>7. ASSUME NEW r \in Procs, Terminating(r)
      PROVE  Kept
  <2>1. CASE ForgetContainer(r)
    BY <1>0, <1>2, <2>1 DEF ForgetContainer, ProcsOK, Fits
  <2>2. CASE ~ForgetContainer(r)
    BY <1>1, <1>7, <2>2 DEF Terminating, StopContainer, ForceRemove,
          CleanCredentials, ProbeStopped
  <2> QED
    BY <2>1, <2>2
<1>8. ASSUME NEW j \in Janitors, ExpireIdle(j)
      PROVE  Kept \/ Armed
  <2>1. job[j].name \in Names
    BY <1>0, <1>8 DEF ExpireIdle, ProcsOK, Fits
  <2> QED
    BY <1>0, <1>8, <2>1 DEF ExpireIdle, Rearm, RecordsOK
<1>9. ASSUME NEW j \in Janitors, NEW m \in Names, Fire(m, j)
      PROVE  Kept \/ Checked
  <2>1. CASE m = n
    <3>1. job'[j] = [NoJob EXCEPT !.op = "expire", !.name = n] /\ pc'[j] = "check"
      BY <1>0, <1>9, <2>1 DEF Fire, Goto, ProcsOK
    <3>2. job'[j].name = n
      BY <3>1 DEF NoJob
    <3> QED
      BY <1>0, <3>1, <3>2
  <2>2. CASE m # n
    BY <1>0, <1>9, <2>2 DEF Fire, RecordsOK
  <2> QED
    BY <2>1, <2>2
<1>10. ASSUME NEW m \in Names, Die(m)
       PROVE  Kept
  BY <1>1, <1>10 DEF Die
<1>11. CASE Restart
  BY <1>11 DEF Restart, NoRecord
<1> QED
  BY <1>0, <1>3, <1>4, <1>5, <1>6, <1>7, <1>8, <1>9, <1>10, <1>11 DEF Next, Serving

(* Where removals succeed, TerminateContainer always gets to forgetting.    *)
LEMMA StepUnprobed ==
    ASSUME TypeOK, Unprobed, ~Fault("remove"), ~Fault("clean"), [Next]_vars
    PROVE  Unprobed'
<1>0. /\ ProcsOK
      /\ Requests \subseteq Procs /\ Janitors \subseteq Procs
  BY DEF TypeOK, Procs
<1>1. CASE UNCHANGED vars
  BY <1>1 DEF vars, procVars, Unprobed
<1>2. ASSUME NEW r \in Procs, Terminating(r)
      PROVE  Unprobed'
  <2>1. PICK s \in {"remove", "clean", "forget", "idle"} : Goto(r, s)
    BY <1>2 DEF Terminating, StopContainer, ForceRemove, CleanCredentials,
       ProbeStopped, ForgetContainer, Continue, Respond, Unprobed
  <2> QED
    BY <1>0, <2>1 DEF Goto, ProcsOK, Unprobed
<1>3. ASSUME NEW r \in Procs, NEW s, Goto(r, s), s # "probe"
      PROVE  Unprobed'
  BY <1>0, <1>3 DEF Goto, ProcsOK, Unprobed
<1>4. ASSUME NEW r \in Requests, Arrive(r) \/ CallProxy(r)
      PROVE  Unprobed'
  <2>1. \A o \in RouteOps : "probe" \notin FirstSteps(o)
    BY DEF FirstSteps
  <2> QED
    BY <1>0, <1>3, <1>4, <2>1, ContainerAssumption DEF Arrive, CallProxy
<1>5. ASSUME NEW r \in Requests,
             \/ TouchContainer(r) \/ AddInFlightRequest(r)
             \/ RemoveInFlightRequest(r) \/ EnsureContainer(r)
      PROVE  Unprobed'
  BY <1>0, <1>3, <1>5 DEF TouchContainer, AddInFlightRequest,
     RemoveInFlightRequest, EnsureContainer, Continue, Respond
<1>6. ASSUME NEW r \in Requests, Flying(r), ~Land(r)
      PROVE  Unprobed'
  <2>1. CASE Cached(r) \/ InspectCached(r) \/ CacheHit(r) \/ Evict(r) \/ DropStale(r)
                \/ InspectExisting(r) \/ Adopt(r)
    BY <1>0, <1>3, <2>1 DEF Cached, InspectCached, CacheHit, Evict, DropStale,
       InspectExisting, Adopt, Continue, Outcome
  <2>2. CASE Clear(r) \/ Prepare(r) \/ CreateContainer(r) \/ StartContainer(r)
                \/ ReadAddress(r) \/ RecordContainer(r)
    BY <1>0, <1>3, <2>2 DEF Clear, Prepare, CreateContainer, StartContainer,
       ReadAddress, RecordContainer, Continue, Outcome
  <2> QED
    BY <1>6, <2>1, <2>2 DEF Flying
<1>7. ASSUME NEW r \in Requests, Land(r)
      PROVE  Unprobed'
  <2>1. ASSUME NEW w \in Procs
        PROVE  pc'[w] # "probe"
    BY <1>7, <2>1, Returning DEF Land, Unprobed
  <2> QED
    BY <2>1 DEF Unprobed
<1>8. ASSUME NEW r \in Requests, Resolving(r)
      PROVE  Unprobed'
  BY <1>0, <1>1, <1>3, <1>8 DEF Resolving, LookUp, Scan, Reindex, CopyFound,
     Continue, Respond, Unprobed
<1>9. ASSUME NEW j \in Janitors, ExpireIdle(j) \/ \E n \in Names : Fire(n, j)
      PROVE  Unprobed'
  BY <1>0, <1>3, <1>9 DEF ExpireIdle, Fire, Continue, Respond
<1>10. ASSUME (\E n \in Names : Die(n)) \/ Restart
       PROVE  Unprobed'
  BY <1>10 DEF Die, Restart, procVars, Unprobed
<1> QED
  BY <1>1, <1>2, <1>4, <1>5, <1>6, <1>7, <1>8, <1>9, <1>10 DEF Next, Serving

(* A record that is known has an armed timer, or somebody who will remove   *)
(* it or arm the timer again.                                               *)
LEMMA StepWatched ==
    ASSUME TypeOK, Watched, Unprobed, ~Fault("remove"), ~Fault("clean"),
           [Next]_vars
    PROVE  Watched'
<1>0. /\ ProcsOK /\ RecordsOK
      /\ Requests \subseteq Procs /\ Janitors \subseteq Procs
  BY DEF TypeOK, Procs
<1>1. CASE UNCHANGED vars
  BY <1>1 DEF vars, recordVars, procVars, Watched
<1>2. ASSUME Next, NEW n \in Names, rec'[n].known, timer'[n] # "armed"
      PROVE  \E r \in Procs : job'[r].name = n /\ pc'[r] \in Ending
  <2>1. CASE \E j \in Procs : job'[j].name = n /\ pc'[j] = "check"
    BY <2>1 DEF Ending
  <2>2. ASSUME rec[n].known, timer'[n] = timer[n]
        PROVE  \E r \in Procs : job'[r].name = n /\ pc'[r] \in Ending
    <3>1. PICK q \in Procs : job[q].name = n /\ pc[q] \in Ending
      BY <1>2, <2>2 DEF Watched
    <3>2. CASE pc'[q] = pc[q] /\ job'[q] = job[q]
      BY <3>1, <3>2
    <3>3. CASE Terminating(q)
      <4>1. ~ForgetContainer(q)
        BY <1>0, <1>2, <3>1 DEF ForgetContainer, Drop, NoRecord, RecordsOK
      <4>2. pc[q] # "probe"
        BY DEF Unprobed
      <4>3. PICK s \in {"remove", "clean", "forget"} : Goto(q, s)
        BY <3>3, <4>1, <4>2 DEF Terminating, StopContainer, ForceRemove,
           CleanCredentials, ProbeStopped, Continue
      <4>4. job'[q].name = n
        BY <1>0, <3>1, <3>3, <4>1, <4>2 DEF Terminating, StopContainer,
           ForceRemove, CleanCredentials, ProbeStopped, Continue, ProcsOK, Job
      <4> QED
        BY <1>0, <4>3, <4>4 DEF Goto, ProcsOK, Ending, TerminateSteps
    <3>4. CASE q \in Janitors /\ ExpireIdle(q)
      <4>1. Continue(q, "stop")
        BY <1>0, <1>2, <2>2, <3>1, <3>4 DEF ExpireIdle, Rearm, RecordsOK
      <4> QED
        BY <1>0, <3>1, <4>1 DEF Continue, Goto, ProcsOK, Ending, TerminateSteps
    <3>5. ~(q \in Requests /\ CreateContainer(q))
      BY <3>1 DEF CreateContainer, Ending, TerminateSteps
    <3>6. CASE Restart
      BY <1>2, <3>6 DEF Restart, NoRecord
    <3>7. pc[q] \in Duties
      BY <3>1 DEF Ending, Duties
    <3> QED
      BY <1>2, <3>2, <3>3, <3>4, <3>5, <3>6, <3>7, DutiesKept
  <2> QED
    BY <1>2, <2>1, <2>2, WatchEffects
<1> QED
  BY <1>1, <1>2 DEF Watched

(* No idle timer is lost, across restarts too, where the daemon and the     *)
(* host remove what they are told to: a known record has an armed timer or  *)
(* somebody who is about to remove it.                                      *)
THEOREM AlwaysWatched ==
    ASSUME ~Fault("remove"), ~Fault("clean")
    PROVE  Spec => []Watched
<1>1. Init => Watched /\ Unprobed
  BY DEF Init, Watched, Unprobed, NoRecord
<1>2. TypeOK /\ (Watched /\ Unprobed) /\ [Next]_vars => (Watched /\ Unprobed)'
  BY StepWatched, StepUnprobed
<1> QED
  BY <1>1, <1>2, TypeCorrect, PTL DEF Spec

=============================================================================
