------------------------ MODULE LegacyMigrationProofs ------------------------
(***************************************************************************)
(* Theorems about LegacyMigration: its type invariant, that a lease is its  *)
(* owner's until it ends, and, as long as no two imports of a project run   *)
(* at once, that an import leaves in the project what it planned and, while *)
(* its lease lasts, the workspace as it is.                                 *)
(***************************************************************************)
EXTENDS LegacyMigration, TLAPS

-----------------------------------------------------------------------------
(* Types.                                                                   *)

LEMMA PrunedTyped ==
    ASSUME LeasesOK
    PROVE  Pruned \in [Keys -> Lease \cup {NoLease}]
  BY DEF LeasesOK, Pruned

LEMMA EmptyTyped == Empty \in Tree
  BY DEF Empty, Tree, Content

LEMMA WithoutTyped ==
    ASSUME NEW tree \in Tree, NEW gone
    PROVE  Without(tree, gone) \in Tree
  BY DEF Without, Tree, Content

(* An error return leaves the imports well typed.                           *)
LEMMA FailTyped ==
    ASSUME ImportsOK, NEW r \in Imports, Fail(r)
    PROVE  ImportsOK'
  BY MigrationAssumption DEF ImportsOK, Fail, Goto, ImportSteps, StagedSteps, Job

LEMMA LeasingTyped ==
    ASSUME TypeOK, Leasing
    PROVE  TypeOK'
<1>1. CASE \E o \in Owners, k \in Keys : Acquire(o, k)
  <2>1. PICK o \in Owners, k \in Keys : Acquire(o, k)
    BY <1>1
  <2>2. LeasesOK'
    <3>1. CASE Pruned[k] # NoLease
      <4>1. Pruned[k].id \in LeaseIds
        BY <3>1, PrunedTyped DEF TypeOK, Lease
      <4> QED
        BY <2>1, <3>1, <4>1, PrunedTyped DEF Acquire, TypeOK, LeasesOK
    <3>2. CASE Pruned[k] = NoLease
      <4>1. PICK id \in LeaseIds :
              /\ lease' = [Pruned EXCEPT ![k] = [id |-> id, owner |-> o,
                              due |-> FALSE, quiet |-> Quiet(k)]]
              /\ given' = [given EXCEPT ![o][k] = @ \cup {id}]
        BY <2>1, <3>2 DEF Acquire
      <4>2. [id |-> id, owner |-> o, due |-> FALSE, quiet |-> Quiet(k)] \in Lease
        BY DEF Lease, Quiet
      <4> QED
        BY <2>1, <4>1, <4>2, PrunedTyped DEF Acquire, TypeOK, LeasesOK
    <3> QED
      BY <3>1, <3>2
  <2> QED
    BY <2>1, <2>2 DEF Acquire, TypeOK, TreesOK, ImportsOK, treeVars, importVars
<1>2. CASE \E o \in Owners, k \in Keys : Release(o, k)
  BY <1>2 DEF Release, TypeOK, LeasesOK, TreesOK, ImportsOK, treeVars, importVars
<1>3. CASE \E k \in Keys : RunOut(k)
  <2>1. PICK k \in Keys : RunOut(k)
    BY <1>3
  <2>2. lease[k] \in Lease
    BY <2>1 DEF RunOut, TypeOK, LeasesOK
  <2>3. lease' = [lease EXCEPT ![k] = [lease[k] EXCEPT !.due = TRUE]]
    BY <2>1 DEF RunOut
  <2>4. [lease[k] EXCEPT !.due = TRUE] \in Lease
    BY <2>2 DEF Lease
  <2>5. LeasesOK'
    <3>1. lease' \in [Keys -> Lease \cup {NoLease}]
      BY <2>3, <2>4 DEF TypeOK, LeasesOK
    <3>2. over' \subseteq LeaseIds
      BY <2>1, <2>2 DEF RunOut, TypeOK, LeasesOK, Lease
    <3> QED
      BY <2>1, <3>1, <3>2 DEF RunOut, TypeOK, LeasesOK
  <2> QED
    BY <2>1, <2>5 DEF RunOut, TypeOK, TreesOK, ImportsOK, treeVars, importVars
<1>4. CASE Status
  BY <1>4, PrunedTyped DEF Status, TypeOK, LeasesOK, TreesOK, ImportsOK, treeVars, importVars
<1> QED
  BY <1>1, <1>2, <1>3, <1>4 DEF Leasing

LEMMA MutatingTyped ==
    ASSUME TypeOK, Mutating
    PROVE  TypeOK'
<1>1. CASE \E m \in Mutators, k \in Keys : Admit(m, k)
  BY <1>1, PrunedTyped DEF Admit, TypeOK, LeasesOK, TreesOK, ImportsOK, treeVars, importVars
<1>2. CASE \E m \in Mutators : Mutate(m)
  <2>1. PICK m \in Mutators : Mutate(m)
    BY <1>2
  <2>2. change[m] \in Keys
    BY <2>1 DEF Mutate, TypeOK
  <2> DEFINE k == change[m]
  <2>3. src' \in [Keys -> Tree]
    <3>1. CASE \E f \in Files, v \in {None} \cup {<<k, w>> : w \in Versions} :
                  src' = [src EXCEPT ![k][f] = v]
      <4>1. PICK f \in Files, v \in {None} \cup {<<k, w>> : w \in Versions} :
                    src' = [src EXCEPT ![k][f] = v]
        BY <3>1
      <4>2. v \in Content
        BY <2>2, <4>1 DEF Content
      <4>3. src' = [src EXCEPT ![k] = [src[k] EXCEPT ![f] = v]]
        BY <4>1
      <4>4. src[k] \in Tree
        BY <2>2 DEF TypeOK, TreesOK
      <4>5. [src[k] EXCEPT ![f] = v] \in Tree
        BY <4>1, <4>2, <4>4 DEF Tree
      <4> QED
        BY <4>3, <4>5, <2>2 DEF TypeOK, TreesOK
    <3>2. CASE src' = [src EXCEPT ![k] = Empty]
      BY <3>2, <2>2, EmptyTyped DEF TypeOK, TreesOK
    <3> QED
      BY <2>1, <3>1, <3>2 DEF Mutate
  <2> QED
    BY <2>1, <2>3 DEF Mutate, TypeOK, LeasesOK, TreesOK, ImportsOK, leaseVars, importVars
<1>3. CASE \E m \in Mutators : FinishMutation(m)
  BY <1>3 DEF FinishMutation, TypeOK, LeasesOK, TreesOK, ImportsOK,
        leaseVars, treeVars, importVars
<1> QED
  BY <1>1, <1>2, <1>3 DEF Mutating

-----------------------------------------------------------------------------
(* An import whose job and step change, both into their types.              *)

LEMMA StepTyped ==
    ASSUME ImportsOK, NEW r \in Imports, NEW j \in Job,
           NEW step \in {"idle"} \cup ImportSteps,
           job' = [job EXCEPT ![r] = j],
           pc' = [pc EXCEPT ![r] = step],
           step \in StagedSteps => j.stamp \in Stamps
    PROVE  ImportsOK'
  BY DEF ImportsOK

LEMMA JobTyped ==
    ASSUME ImportsOK, NEW r \in Imports, NEW j \in Job,
           job' = [job EXCEPT ![r] = j],
           pc' = pc,
           j.stamp = job[r].stamp
    PROVE  ImportsOK'
  BY DEF ImportsOK

LEMMA GotoTyped ==
    ASSUME ImportsOK, NEW r \in Imports,
           NEW step \in {"idle"} \cup ImportSteps,
           Goto(r, step), UNCHANGED job,
           pc[r] # "idle",
           step \in StagedSteps => job[r].stamp \in Stamps
    PROVE  ImportsOK'
  BY DEF ImportsOK, Goto

(* What the step of an import knows of its job.                             *)
LEMMA JobOf ==
    ASSUME ImportsOK, NEW r \in Imports, pc[r] # "idle"
    PROVE  /\ job[r] \in Job
           /\ job[r].project \in Projects
           /\ job[r].key \in Keys
           /\ pc[r] \in StagedSteps => job[r].stamp \in Stamps
  BY DEF ImportsOK, Job

LEMMA StartTyped ==
    ASSUME TypeOK, NEW r \in Imports, NEW k \in Keys, NEW p \in Projects,
           StartImport(r, k, p)
    PROVE  TypeOK'
<1>1. LeasesOK'
  BY PrunedTyped DEF StartImport, TypeOK, LeasesOK
<1>2. ImportsOK' /\ latest' \in [Projects -> Imports \cup {None}]
  <2>1. CASE Pruned[k] = NoLease
    BY <2>1 DEF StartImport, TypeOK, ImportsOK, importVars
  <2>2. CASE Pruned[k] # NoLease
    <3>1. lease[k].id \in LeaseIds
      BY <2>2 DEF Pruned, TypeOK, LeasesOK, Lease
    <3>2. NewJob(k, p) \in Job
      BY <3>1 DEF NewJob, Job
    <3>3. job' = [job EXCEPT ![r] = NewJob(k, p)] /\ pc' = [pc EXCEPT ![r] = "list"]
      BY <2>2 DEF StartImport, Goto
    <3>4. ImportsOK'
      BY <3>2, <3>3, StepTyped DEF TypeOK, ImportSteps, StagedSteps
    <3> QED
      BY <2>2, <3>4 DEF StartImport, TypeOK
  <2> QED
    BY <2>1, <2>2
<1> QED
  BY <1>1, <1>2 DEF StartImport, TypeOK, TreesOK, treeVars

-----------------------------------------------------------------------------
(* The steps of an import.                                                  *)

LEMMA ListTargetTyped ==
    ASSUME TypeOK, NEW r \in Imports, ListTarget(r)
    PROVE  TypeOK'
<1>1. pc[r] = "list" /\ job[r] \in Job
  BY DEF ListTarget, TypeOK, ImportsOK
<1>2. ImportsOK'
  <2>1. CASE Fail(r)
    BY <2>1, FailTyped DEF TypeOK
  <2>2. CASE job' = [job EXCEPT ![r].list = Residue(job[r].project)] /\ Goto(r, "clear")
    <3> DEFINE j == [job[r] EXCEPT !.list = Residue(job[r].project)]
    <3>1. Residue(job[r].project) \subseteq Entries \cup Stamps
      BY DEF Residue, StagedIn
    <3>2. j \in Job
      BY <1>1, <3>1 DEF Job
    <3>3. job' = [job EXCEPT ![r] = j] /\ pc' = [pc EXCEPT ![r] = "clear"]
      BY <2>2 DEF Goto
    <3> HIDE DEF j
    <3> QED
      BY <3>2, <3>3, StepTyped DEF TypeOK, ImportSteps, StagedSteps
  <2> QED
    BY <2>1, <2>2 DEF ListTarget
<1> QED
  BY <1>2 DEF ListTarget, TypeOK, LeasesOK, TreesOK, leaseVars, treeVars

LEMMA DropListTyped ==
    ASSUME TypeOK, NEW r \in Imports, NEW x, pc[r] # "idle",
           job' = [job EXCEPT ![r].list = @ \ {x}], pc' = pc
    PROVE  ImportsOK'
<1> DEFINE j == [job[r] EXCEPT !.list = @ \ {x}]
<1>1. job[r] \in Job
  BY DEF TypeOK, ImportsOK
<1>2. j \in Job /\ j.stamp = job[r].stamp
  BY <1>1 DEF Job
<1>3. job' = [job EXCEPT ![r] = j]
  OBVIOUS
<1> HIDE DEF j
<1> QED
  BY <1>2, <1>3, JobTyped DEF TypeOK

LEMMA ClearTargetTyped ==
    ASSUME TypeOK, NEW r \in Imports, ClearTarget(r)
    PROVE  TypeOK'
<1>1. pc[r] = "clear" /\ job[r].project \in Projects
  BY DEF ClearTarget, TypeOK, ImportsOK, Job
<1>2. TreesOK' /\ ImportsOK'
  <2>1. CASE /\ \E e \in job[r].list \cap Entries : RemoveEntry(r, e)
             /\ UNCHANGED staging
    <3>1. PICK e \in job[r].list \cap Entries : RemoveEntry(r, e)
      BY <2>1
    <3>2. \E some : target' = [target EXCEPT ![job[r].project] = Without(@, some)]
      BY <3>1 DEF RemoveEntry
    <3>3. target' \in [Projects -> Tree]
      BY <1>1, <3>2, WithoutTyped DEF TypeOK, TreesOK
    <3>4. ImportsOK'
      BY <1>1, <3>1, FailTyped, DropListTyped DEF RemoveEntry, TypeOK
    <3>5. UNCHANGED <<src, staging>>
      BY <2>1, <3>1 DEF ClearTarget, RemoveEntry
    <3> QED
      BY <3>3, <3>4, <3>5 DEF TypeOK, TreesOK
  <2>2. CASE /\ \E s \in job[r].list \cap Stamps : RemoveStaging(r, s)
             /\ UNCHANGED target
    <3>1. PICK s \in job[r].list \cap Stamps : RemoveStaging(r, s)
      BY <2>2
    <3>2. staging' \in [Stamps -> Staging \cup {None}]
      BY <3>1 DEF RemoveStaging, TypeOK, TreesOK
    <3>3. ImportsOK'
      BY <1>1, <3>1, FailTyped, DropListTyped DEF RemoveStaging, TypeOK
    <3> QED
      BY <2>2, <3>2, <3>3 DEF ClearTarget, TypeOK, TreesOK
  <2>3. CASE Goto(r, "stage") /\ UNCHANGED <<job, target, staging>>
    <3>1. ImportsOK'
      BY <1>1, <2>3, GotoTyped DEF TypeOK, ImportSteps, StagedSteps
    <3> QED
      BY <2>3, <3>1 DEF ClearTarget, TypeOK, TreesOK
  <2> QED
    BY <2>1, <2>2, <2>3 DEF ClearTarget
<1> QED
  BY <1>2 DEF ClearTarget, TypeOK, LeasesOK, leaseVars

LEMMA MakeStagingTyped ==
    ASSUME TypeOK, NEW r \in Imports, MakeStaging(r)
    PROVE  TypeOK'
<1>1. pc[r] = "stage" /\ job[r] \in Job /\ job[r].project \in Projects
  BY DEF MakeStaging, TypeOK, ImportsOK, Job
<1>2. ImportsOK'
  <2>1. CASE Fail(r)
    BY <2>1, FailTyped DEF TypeOK
  <2>2. CASE \E s \in Stamps : job' = [job EXCEPT ![r].stamp = s] /\ Goto(r, "plan")
    <3>1. PICK s \in Stamps : job' = [job EXCEPT ![r].stamp = s] /\ Goto(r, "plan")
      BY <2>2
    <3> DEFINE j == [job[r] EXCEPT !.stamp = s]
    <3>2. j \in Job /\ j.stamp \in Stamps
      BY <1>1 DEF Job
    <3>3. job' = [job EXCEPT ![r] = j] /\ pc' = [pc EXCEPT ![r] = "plan"]
      BY <3>1 DEF Goto
    <3> HIDE DEF j
    <3> QED
      BY <3>2, <3>3, StepTyped DEF TypeOK, ImportSteps, StagedSteps
  <2> QED
    BY <2>1, <2>2 DEF MakeStaging, NotStaged
<1>3. staging' \in [Stamps -> Staging \cup {None}]
  <2>1. Made(job[r].project) \in Staging
    BY <1>1, EmptyTyped DEF Made, Staging
  <2> QED
    BY <2>1 DEF MakeStaging, TypeOK, TreesOK
<1> QED
  BY <1>2, <1>3 DEF MakeStaging, TypeOK, LeasesOK, TreesOK, leaseVars

LEMMA RemadeTyped ==
    ASSUME TypeOK, NEW r \in Imports, pc[r] \in StagedSteps
    PROVE  /\ job[r] \in Job
           /\ job[r].stamp \in Stamps
           /\ Remade(r) \in Staging
<1>1. job[r] \in Job /\ job[r].stamp \in Stamps /\ job[r].project \in Projects
  BY DEF TypeOK, ImportsOK, StagedSteps, Job
<1>2. Made(job[r].project) \in Staging
  BY <1>1, EmptyTyped DEF Made, Staging
<1> QED
  BY <1>1, <1>2 DEF Remade, TypeOK, TreesOK

LEMMA PlanCopyTyped ==
    ASSUME TypeOK, NEW r \in Imports, PlanCopy(r)
    PROVE  TypeOK'
<1>1. pc[r] = "plan"
  BY DEF PlanCopy
<1>2. job[r] \in Job /\ job[r].stamp \in Stamps /\ Remade(r) \in Staging
  BY <1>1, RemadeTyped DEF StagedSteps
<1>3. ImportsOK' /\ staging' \in [Stamps -> Staging \cup {None}]
  <2> DEFINE found == {f \in Files : src[job[r].key][f] # None}
             j == [job[r] EXCEPT !.plan = found, !.queue = found]
  <2>1. CASE /\ job' = [job EXCEPT ![r].plan = found, ![r].queue = found]
             /\ staging' = [staging EXCEPT ![job[r].stamp] = Remade(r)]
             /\ Goto(r, "pool")
    <3>1. j \in Job /\ j.stamp \in Stamps
      BY <1>2 DEF Job
    <3>2. job' = [job EXCEPT ![r] = j] /\ pc' = [pc EXCEPT ![r] = "pool"]
      BY <2>1 DEF Goto
    <3>3. staging' \in [Stamps -> Staging \cup {None}]
      BY <1>2, <2>1 DEF TypeOK, TreesOK
    <3> HIDE DEF j
    <3> QED
      BY <3>1, <3>2, <3>3, StepTyped DEF TypeOK, ImportSteps
  <2>2. CASE Fail(r) /\ UNCHANGED staging
    BY <2>2, FailTyped DEF TypeOK, TreesOK
  <2> QED
    BY <2>1, <2>2 DEF PlanCopy
<1> QED
  BY <1>3 DEF PlanCopy, TypeOK, LeasesOK, TreesOK, leaseVars

LEMMA HandTaskTyped ==
    ASSUME TypeOK, NEW r \in Imports, HandTask(r)
    PROVE  TypeOK'
<1>1. PICK f \in job[r].queue :
        job' = [job EXCEPT ![r].queue = @ \ {f}, ![r].hand = @ \cup {f}]
  BY DEF HandTask
<1> DEFINE j == [job[r] EXCEPT !.queue = @ \ {f}, !.hand = @ \cup {f}]
<1>2. job[r] \in Job
  BY DEF HandTask, TypeOK, ImportsOK
<1>3. j \in Job /\ j.stamp = job[r].stamp
  BY <1>1, <1>2 DEF Job
<1>4. job' = [job EXCEPT ![r] = j]
  BY <1>1
<1> HIDE DEF j
<1>5. ImportsOK'
  BY <1>3, <1>4, JobTyped DEF HandTask, TypeOK
<1> QED
  BY <1>5 DEF HandTask, TypeOK, LeasesOK, TreesOK, leaseVars, treeVars

LEMMA CopyTaskTyped ==
    ASSUME TypeOK, NEW r \in Imports, CopyTask(r)
    PROVE  TypeOK'
<1>1. job[r] \in Job /\ job[r].stamp \in Stamps /\ Remade(r) \in Staging
  BY RemadeTyped DEF CopyTask, StagedSteps
<1>2. PICK f \in job[r].hand :
        \/ /\ job' = [job EXCEPT ![r].hand = @ \ {f}]
           /\ UNCHANGED staging
        \/ /\ staging' = [staging EXCEPT ![job[r].stamp] =
                 [Remade(r) EXCEPT !.tree[f] = src[job[r].key][f]]]
           /\ job' = [job EXCEPT ![r].hand = @ \ {f}]
        \/ /\ job' = [job EXCEPT ![r].hand = @ \ {f}, ![r].failed = TRUE]
           /\ UNCHANGED staging
  BY DEF CopyTask
<1>3. ImportsOK'
  <2>1. CASE job' = [job EXCEPT ![r].hand = @ \ {f}]
    <3> DEFINE j == [job[r] EXCEPT !.hand = @ \ {f}]
    <3>1. j \in Job /\ j.stamp = job[r].stamp
      BY <1>1 DEF Job
    <3>2. job' = [job EXCEPT ![r] = j]
      BY <2>1
    <3> HIDE DEF j
    <3> QED
      BY <3>1, <3>2, JobTyped DEF CopyTask, TypeOK
  <2>2. CASE job' = [job EXCEPT ![r].hand = @ \ {f}, ![r].failed = TRUE]
    <3> DEFINE j == [job[r] EXCEPT !.hand = @ \ {f}, !.failed = TRUE]
    <3>1. j \in Job /\ j.stamp = job[r].stamp
      BY <1>1 DEF Job
    <3>2. job' = [job EXCEPT ![r] = j]
      BY <2>2
    <3> HIDE DEF j
    <3> QED
      BY <3>1, <3>2, JobTyped DEF CopyTask, TypeOK
  <2> QED
    BY <1>2, <2>1, <2>2
<1>4. staging' \in [Stamps -> Staging \cup {None}]
  <2> DEFINE t == [Remade(r).tree EXCEPT ![f] = src[job[r].key][f]]
             g == [Remade(r) EXCEPT !.tree = t]
  <2>1. CASE staging' = [staging EXCEPT ![job[r].stamp] =
               [Remade(r) EXCEPT !.tree[f] = src[job[r].key][f]]]
    <3>1. Remade(r).tree \in Tree /\ src[job[r].key] \in Tree
      BY <1>1 DEF Staging, Job, TypeOK, TreesOK
    <3>2. t \in Tree
      BY <3>1, <1>1, <1>2 DEF Tree, Job
    <3>3. g \in Staging
      <4> HIDE DEF t
      <4> QED
        BY <1>1, <3>2 DEF Staging
    <3>4. staging' = [staging EXCEPT ![job[r].stamp] = g]
      BY <2>1
    <3> HIDE DEF g
    <3> QED
      BY <1>1, <3>3, <3>4 DEF TypeOK, TreesOK
  <2>2. CASE UNCHANGED staging
    BY <2>2 DEF TypeOK, TreesOK
  <2> QED
    BY <1>2, <2>1, <2>2
<1> QED
  BY <1>3, <1>4 DEF CopyTask, TypeOK, LeasesOK, TreesOK, leaseVars

LEMMA FinishPoolTyped ==
    ASSUME TypeOK, NEW r \in Imports, FinishPool(r)
    PROVE  TypeOK'
<1>1. ImportsOK'
  <2>1. CASE Fail(r)
    BY <2>1, FailTyped DEF TypeOK
  <2>2. CASE Goto(r, "git") /\ UNCHANGED job
    BY <2>2, GotoTyped, JobOf DEF FinishPool, TypeOK, ImportSteps, StagedSteps
  <2> QED
    BY <2>1, <2>2 DEF FinishPool
<1> QED
  BY <1>1 DEF FinishPool, TypeOK, LeasesOK, TreesOK, leaseVars, treeVars

LEMMA ConfigureGitTyped ==
    ASSUME TypeOK, NEW r \in Imports, ConfigureGit(r)
    PROVE  TypeOK'
<1>1. ImportsOK'
  <2>1. CASE Fail(r)
    BY <2>1, FailTyped DEF TypeOK
  <2>2. CASE Goto(r, "read") /\ UNCHANGED job
    BY <2>2, GotoTyped, JobOf DEF ConfigureGit, TypeOK, ImportSteps, StagedSteps
  <2> QED
    BY <2>1, <2>2 DEF ConfigureGit
<1> QED
  BY <1>1 DEF ConfigureGit, TypeOK, LeasesOK, TreesOK, leaseVars, treeVars

LEMMA ReadStagingTyped ==
    ASSUME TypeOK, NEW r \in Imports, ReadStaging(r)
    PROVE  TypeOK'
<1>1. job[r] \in Job /\ job[r].stamp \in Stamps
  BY RemadeTyped DEF ReadStaging, StagedSteps
<1>2. ImportsOK'
  <2> DEFINE names == {e \in Entries : Holds(staging[job[r].stamp].tree, e)}
             j == [job[r] EXCEPT !.list = names]
  <2>1. CASE Fail(r)
    BY <2>1, FailTyped DEF TypeOK
  <2>2. CASE job' = [job EXCEPT ![r].list = names] /\ Goto(r, "publish")
    <3>1. j \in Job /\ j.stamp \in Stamps
      BY <1>1 DEF Job
    <3>2. job' = [job EXCEPT ![r] = j] /\ pc' = [pc EXCEPT ![r] = "publish"]
      BY <2>2 DEF Goto
    <3> HIDE DEF j
    <3> QED
      BY <3>1, <3>2, StepTyped DEF TypeOK, ImportSteps
  <2> QED
    BY <2>1, <2>2 DEF ReadStaging
<1> QED
  BY <1>2 DEF ReadStaging, TypeOK, LeasesOK, TreesOK, leaseVars, treeVars

LEMMA PublishEntryTyped ==
    ASSUME TypeOK, NEW r \in Imports, PublishEntry(r)
    PROVE  TypeOK'
<1>1. /\ pc[r] = "publish"
      /\ job[r] \in Job
      /\ job[r].stamp \in Stamps
      /\ job[r].project \in Projects
  BY RemadeTyped DEF PublishEntry, StagedSteps, Job
<1>2. PICK e \in job[r].list :
        \/ Movable(r, e) /\ Rename(r, e)
        \/ Fail(r) /\ UNCHANGED <<target, staging>>
  BY DEF PublishEntry
<1>3. CASE Movable(r, e) /\ Rename(r, e)
  <2> DEFINE t == staging[job[r].stamp].tree
             old == target[job[r].project]
             moved == [f \in Files |-> IF f \in FilesOf(e) THEN t[f] ELSE old[f]]
             g == [staging[job[r].stamp] EXCEPT !.tree = Without(t, FilesOf(e))]
  <2>1. staging[job[r].stamp] \in Staging
    BY <1>1, <1>3 DEF Movable, Staged, TypeOK, TreesOK
  <2>2. t \in Tree /\ old \in Tree
    BY <1>1, <2>1 DEF Staging, TypeOK, TreesOK
  <2>3. moved \in Tree
    BY <2>2 DEF Tree
  <2>4. target' = [target EXCEPT ![job[r].project] = moved]
    BY <1>3 DEF Rename
  <2>5. Without(t, FilesOf(e)) \in Tree
    BY <2>2, WithoutTyped
  <2>6. g \in Staging
    BY <2>1, <2>5 DEF Staging
  <2>7. staging' = [staging EXCEPT ![job[r].stamp] = g]
    BY <1>3 DEF Rename
  <2>8. TreesOK'
    <3> HIDE DEF moved, g
    <3> QED
      BY <1>1, <2>3, <2>4, <2>6, <2>7 DEF PublishEntry, TypeOK, TreesOK
  <2>9. ImportsOK'
    BY <1>1, <1>3, DropListTyped DEF Rename
  <2> QED
    BY <2>8, <2>9 DEF PublishEntry, TypeOK, LeasesOK, leaseVars
<1>4. CASE Fail(r) /\ UNCHANGED <<target, staging>>
  <2>1. ImportsOK'
    BY <1>4, FailTyped DEF TypeOK
  <2> QED
    BY <1>4, <2>1 DEF PublishEntry, TypeOK, LeasesOK, TreesOK, leaseVars
<1> QED
  BY <1>2, <1>3, <1>4

LEMMA RemoveStagingRootTyped ==
    ASSUME TypeOK, NEW r \in Imports, RemoveStagingRoot(r)
    PROVE  TypeOK'
<1>1. job[r] \in Job
  BY DEF RemoveStagingRoot, TypeOK, ImportsOK
<1>2. staging' \in [Stamps -> Staging \cup {None}]
  BY DEF RemoveStagingRoot, TypeOK, TreesOK
<1>3. ImportsOK'
  <2> DEFINE j == [job[r] EXCEPT !.stamp = None, !.done = TRUE]
  <2>1. CASE Fail(r)
    BY <2>1, FailTyped DEF TypeOK
  <2>2. CASE job' = [job EXCEPT ![r].stamp = None, ![r].done = TRUE] /\ Goto(r, "idle")
    <3>1. j \in Job
      BY <1>1 DEF Job
    <3>2. job' = [job EXCEPT ![r] = j] /\ pc' = [pc EXCEPT ![r] = "idle"]
      BY <2>2 DEF Goto
    <3> HIDE DEF j
    <3> QED
      BY <3>1, <3>2, StepTyped DEF TypeOK, ImportSteps, StagedSteps
  <2> QED
    BY <2>1, <2>2 DEF RemoveStagingRoot
<1> QED
  BY <1>2, <1>3 DEF RemoveStagingRoot, TypeOK, LeasesOK, TreesOK, leaseVars

LEMMA ImportingTyped ==
    ASSUME TypeOK, NEW r \in Imports, Importing(r)
    PROVE  TypeOK'
  BY ListTargetTyped, ClearTargetTyped, MakeStagingTyped, PlanCopyTyped,
     HandTaskTyped, CopyTaskTyped, FinishPoolTyped, ConfigureGitTyped,
     ReadStagingTyped, PublishEntryTyped, RemoveStagingRootTyped DEF Importing

LEMMA CrashTyped ==
    ASSUME TypeOK, Crash
    PROVE  TypeOK'
<1>1. LeasesOK'
  BY DEF Crash, TypeOK, LeasesOK
<1>2. ImportsOK'
  BY DEF Crash, TypeOK, ImportsOK, ImportSteps, StagedSteps
<1> QED
  BY <1>1, <1>2 DEF Crash, TypeOK, TreesOK, treeVars

LEMMA TypeInductive ==
    ASSUME TypeOK, [Next]_vars
    PROVE  TypeOK'
<1>1. CASE UNCHANGED vars
  BY <1>1 DEF vars, leaseVars, treeVars, importVars, TypeOK, LeasesOK, TreesOK, ImportsOK
<1>2. CASE Next
  BY <1>2, LeasingTyped, MutatingTyped, StartTyped, ImportingTyped, CrashTyped DEF Next
<1> QED
  BY <1>1, <1>2

-----------------------------------------------------------------------------
(* Every variable stays in its type, through every interleaving of leases,  *)
(* mutations and imports, and through crashes.                              *)

THEOREM TypeCorrect == Spec => []TypeOK
<1>1. Init => TypeOK
  <2> SUFFICES ASSUME Init PROVE TypeOK
    OBVIOUS
  <2>1. LeasesOK
    BY DEF Init, LeasesOK
  <2>2. TreesOK
    <3>1. src \in [Keys -> Tree]
      BY DEF Init, Tree, Content
    <3>2. target \in [Projects -> Tree]
      BY EmptyTyped DEF Init, Tree, Content
    <3> QED
      BY <3>1, <3>2 DEF Init, TreesOK
  <2>3. ImportsOK
    BY DEF Init, ImportsOK, StagedSteps
  <2> QED
    BY <2>1, <2>2, <2>3 DEF Init, TypeOK
<1> QED
  BY <1>1, TypeInductive, PTL DEF Spec

-----------------------------------------------------------------------------
(* LeaseHonoured is not inductive: what makes it last is that an id is      *)
(* given to one workflow for one workspace only, that the lease in force is *)
(* one its owner was given, and that a lease whose time is up counts as     *)
(* over before anybody prunes it.                                           *)

GivenOnce ==
    \A o, q \in Owners, k, j \in Keys :
        given[o][k] \cap given[q][j] # {} => o = q /\ k = j

HeldIsGiven ==
    \A k \in Keys : lease[k] # NoLease => lease[k].id \in given[lease[k].owner][k]

DueIsOver ==
    \A k \in Keys : lease[k] # NoLease /\ lease[k].due => lease[k].id \in over

LeaseInv == LeaseHonoured /\ GivenOnce /\ HeldIsGiven /\ DueIsOver

(* Pruning takes away no lease that somebody still counts on, and leaves    *)
(* none that is due.                                                        *)
LEMMA PruneKeeps ==
    ASSUME TypeOK, LeaseInv, NEW k \in Keys
    PROVE  /\ Pruned[k] # NoLease => Pruned[k] = lease[k] /\ ~lease[k].due
           /\ \A o \in Owners : \A id \in given[o][k] \ over : Pruned[k] = lease[k]
  BY DEF Pruned, LeaseInv, LeaseHonoured, DueIsOver

LEMMA PruneInv ==
    ASSUME TypeOK, LeaseInv, lease' = Pruned, UNCHANGED <<given, over>>
    PROVE  LeaseInv'
<1>1. LeaseHonoured'
  BY PruneKeeps DEF LeaseInv, LeaseHonoured
<1>2. HeldIsGiven'
  BY PruneKeeps DEF LeaseInv, HeldIsGiven
<1>3. DueIsOver'
  BY PruneKeeps DEF LeaseInv, DueIsOver
<1> QED
  BY <1>1, <1>2, <1>3 DEF LeaseInv, GivenOnce

LEMMA AcquireInv ==
    ASSUME TypeOK, LeaseInv, NEW o \in Owners, NEW k \in Keys, Acquire(o, k)
    PROVE  LeaseInv'
<1>1. CASE Pruned[k] # NoLease
  <2>1. lease' = Pruned /\ UNCHANGED over
    BY <1>1 DEF Acquire
  <2>2. given' = given
    <3>1. CASE Pruned[k].owner = o
      <4>1. Pruned[k].id \in given[o][k]
        BY <1>1, <3>1, PruneKeeps DEF LeaseInv, HeldIsGiven
      <4>2. given' = [given EXCEPT ![o][k] = @ \cup {Pruned[k].id}]
        BY <1>1, <3>1 DEF Acquire
      <4>3. given[o][k] \cup {Pruned[k].id} = given[o][k]
        BY <4>1
      <4> QED
        BY <4>2, <4>3 DEF TypeOK, LeasesOK
    <3>2. CASE Pruned[k].owner # o
      BY <1>1, <3>2 DEF Acquire
    <3> QED
      BY <3>1, <3>2
  <2> QED
    BY <2>1, <2>2, PruneInv
<1>2. CASE Pruned[k] = NoLease
  <2>1. PICK id \in LeaseIds :
          /\ \A q \in Owners, j \in Keys : id \notin given[q][j]
          /\ lease' = [Pruned EXCEPT ![k] = [id |-> id, owner |-> o,
                          due |-> FALSE, quiet |-> Quiet(k)]]
          /\ given' = [given EXCEPT ![o][k] = @ \cup {id}]
    BY <1>2 DEF Acquire
  <2>2. over' = over
    BY DEF Acquire
  <2>3. [id |-> id, owner |-> o, due |-> FALSE, quiet |-> Quiet(k)] # NoLease
    <3>1. [id |-> id, owner |-> o, due |-> FALSE, quiet |-> Quiet(k)] \in Lease
      BY DEF Lease, Quiet
    <3>2. NoLease \notin Lease
      BY MigrationAssumption DEF Lease
    <3> QED
      BY <3>1, <3>2
  <2>4. /\ lease'[k] # NoLease
        /\ lease'[k].id = id
        /\ lease'[k].owner = o
        /\ lease'[k].due = FALSE
        /\ \A j \in Keys \ {k} : lease'[j] = Pruned[j]
    <3> DEFINE l == [id |-> id, owner |-> o, due |-> FALSE, quiet |-> Quiet(k)]
    <3>1. Pruned \in [Keys -> Lease \cup {NoLease}]
      BY PrunedTyped DEF TypeOK
    <3>2. lease' = [Pruned EXCEPT ![k] = l]
      BY <2>1
    <3>3. l # NoLease
      BY <2>3
    <3>4. l.id = id /\ l.owner = o /\ l.due = FALSE
      OBVIOUS
    <3> HIDE DEF l
    <3> QED
      BY <3>1, <3>2, <3>3, <3>4
  <2>5. \A q \in Owners, j \in Keys :
          given'[q][j] = IF q = o /\ j = k THEN given[q][j] \cup {id} ELSE given[q][j]
    BY <2>1 DEF TypeOK, LeasesOK
  <2>6. LeaseHonoured'
    <3>1. \A q \in Owners : given[q][k] \subseteq over
      BY <1>2, PruneKeeps DEF LeaseInv, LeaseHonoured
    <3> SUFFICES ASSUME NEW q \in Owners, NEW j \in Keys,
                        NEW x \in given'[q][j] \ over
                 PROVE  lease'[j] # NoLease /\ lease'[j].id = x /\ lease'[j].owner = q
      BY <2>2 DEF LeaseHonoured
    <3>2. CASE q = o /\ j = k
      <4>1. x \in given[o][k] \cup {id}
        BY <2>5, <3>2
      <4>2. x = id
        BY <3>1, <4>1
      <4> QED
        BY <2>4, <3>2, <4>2
    <3>3. CASE j = k /\ q # o
      BY <2>5, <3>1, <3>3
    <3>4. CASE j # k
      <4>1. x \in given[q][j] \ over
        BY <2>5, <3>4
      <4>2. lease'[j] = lease[j]
        BY <2>4, <3>4, <4>1, PruneKeeps
      <4> QED
        BY <4>1, <4>2 DEF LeaseInv, LeaseHonoured
    <3> QED
      BY <3>2, <3>3, <3>4
  <2>7. GivenOnce'
    <3> SUFFICES ASSUME NEW p \in Owners, NEW q \in Owners,
                        NEW i \in Keys, NEW j \in Keys,
                        NEW x \in given'[p][i], x \in given'[q][j]
                 PROVE  p = q /\ i = j
      BY DEF GivenOnce
    <3>1. CASE x = id
      BY <2>1, <2>5, <3>1
    <3>2. CASE x # id
      <4>1. x \in given[p][i] /\ x \in given[q][j]
        BY <2>5, <3>2
      <4>2. given[p][i] \cap given[q][j] # {}
        BY <4>1
      <4>3. GivenOnce
        BY DEF LeaseInv
      <4> QED
        BY <4>2, <4>3 DEF GivenOnce
    <3> QED
      BY <3>1, <3>2
  <2>8. HeldIsGiven'
    <3> SUFFICES ASSUME NEW j \in Keys, lease'[j] # NoLease
                 PROVE  lease'[j].id \in given'[lease'[j].owner][j]
      BY DEF HeldIsGiven
    <3>1. CASE j = k
      BY <2>4, <2>5, <3>1
    <3>2. CASE j # k
      <4>1. lease'[j] = lease[j] /\ lease[j] # NoLease
        BY <2>4, <3>2, PruneKeeps
      <4>2. lease[j].owner \in Owners
        BY <4>1 DEF TypeOK, LeasesOK, Lease
      <4> QED
        BY <2>5, <3>2, <4>1, <4>2 DEF LeaseInv, HeldIsGiven
    <3> QED
      BY <3>1, <3>2
  <2>9. DueIsOver'
    BY <2>2, <2>4, PruneKeeps DEF LeaseInv, DueIsOver
  <2> QED
    BY <2>6, <2>7, <2>8, <2>9 DEF LeaseInv
<1> QED
  BY <1>1, <1>2

LEMMA ReleaseInv ==
    ASSUME TypeOK, LeaseInv, NEW o \in Owners, NEW k \in Keys, Release(o, k)
    PROVE  LeaseInv'
<1>1. PICK id \in given[o][k] :
        /\ lease' = IF Releases(k, id) THEN [lease EXCEPT ![k] = NoLease] ELSE lease
        /\ over' = over \cup {id}
  BY DEF Release
<1>2. given' = given
  BY DEF Release
<1>3. \A j \in Keys :
        lease'[j] = IF j = k /\ Releases(k, id) THEN NoLease ELSE lease[j]
  BY <1>1 DEF TypeOK, LeasesOK
<1>4. LeaseHonoured'
  <2> SUFFICES ASSUME NEW q \in Owners, NEW j \in Keys,
                      NEW x \in given[q][j] \ over, x # id
               PROVE  lease'[j] # NoLease /\ lease'[j].id = x /\ lease'[j].owner = q
    BY <1>1, <1>2 DEF LeaseHonoured
  <2>1. lease[j] # NoLease /\ lease[j].id = x /\ lease[j].owner = q
    BY DEF LeaseInv, LeaseHonoured
  <2>2. lease'[j] = lease[j]
    BY <1>3, <2>1 DEF Releases
  <2> QED
    BY <2>1, <2>2
<1>5. HeldIsGiven' /\ DueIsOver' /\ GivenOnce'
  BY <1>1, <1>2, <1>3 DEF LeaseInv, HeldIsGiven, DueIsOver, GivenOnce
<1> QED
  BY <1>4, <1>5 DEF LeaseInv

LEMMA RunOutInv ==
    ASSUME TypeOK, LeaseInv, NEW k \in Keys, RunOut(k)
    PROVE  LeaseInv'
<1>1. lease[k] \in Lease
  BY DEF RunOut, TypeOK, LeasesOK
<1>2. /\ lease' = [lease EXCEPT ![k] = [lease[k] EXCEPT !.due = TRUE]]
      /\ over' = over \cup {lease[k].id}
      /\ given' = given
  BY DEF RunOut
<1>3. /\ lease'[k] \in Lease
      /\ lease'[k].id = lease[k].id
      /\ lease'[k].owner = lease[k].owner
      /\ \A j \in Keys \ {k} : lease'[j] = lease[j]
  BY <1>1, <1>2 DEF TypeOK, LeasesOK, Lease
<1>4. lease[k] # NoLease /\ lease'[k] # NoLease
  BY <1>3, MigrationAssumption DEF RunOut, Lease
<1>5. LeaseHonoured'
  <2> SUFFICES ASSUME NEW q \in Owners, NEW j \in Keys,
                      NEW x \in given[q][j] \ over
               PROVE  lease'[j] # NoLease /\ lease'[j].id = x /\ lease'[j].owner = q
    BY <1>2 DEF LeaseHonoured
  <2>1. lease[j] # NoLease /\ lease[j].id = x /\ lease[j].owner = q
    BY DEF LeaseInv, LeaseHonoured
  <2> QED
    BY <1>3, <1>4, <2>1
<1>6. HeldIsGiven'
  BY <1>2, <1>3, <1>4 DEF LeaseInv, HeldIsGiven
<1>7. DueIsOver'
  BY <1>2, <1>3 DEF LeaseInv, DueIsOver
<1> QED
  BY <1>2, <1>5, <1>6, <1>7 DEF LeaseInv, GivenOnce

LEMMA CrashInv ==
    ASSUME TypeOK, LeaseInv, Crash
    PROVE  LeaseInv'
<1>1. given' = given /\ \A k \in Keys : lease'[k] = NoLease
  BY DEF Crash
<1>2. \A o \in Owners, k \in Keys : given[o][k] \subseteq over'
  BY DEF Crash
<1> QED
  BY <1>1, <1>2 DEF LeaseInv, LeaseHonoured, GivenOnce, HeldIsGiven, DueIsOver

LEMMA LeaseKeptInv ==
    ASSUME LeaseInv, UNCHANGED leaseVars
    PROVE  LeaseInv'
  BY DEF leaseVars, LeaseInv, LeaseHonoured, GivenOnce, HeldIsGiven, DueIsOver

(* An import leaves the leases and the workspaces alone.                    *)
LEMMA ImportingKeeps ==
    ASSUME NEW r \in Imports, Importing(r)
    PROVE  pc[r] # "idle" /\ UNCHANGED <<lease, given, over, src, change, latest>>
  BY DEF Importing, ListTarget, ClearTarget, MakeStaging, PlanCopy, HandTask, CopyTask,
     FinishPool, ConfigureGit, ReadStaging, PublishEntry, RemoveStagingRoot,
     leaseVars, treeVars

LEMMA NextInv ==
    ASSUME TypeOK, LeaseInv, [Next]_vars
    PROVE  LeaseInv'
<1>1. CASE Leasing
  <2>1. CASE Status
    BY <2>1, PruneInv DEF Status
  <2> QED
    BY <1>1, <2>1, AcquireInv, ReleaseInv, RunOutInv DEF Leasing
<1>2. CASE Mutating
  <2>1. CASE \E m \in Mutators, k \in Keys : Admit(m, k)
    BY <2>1, PruneInv DEF Admit
  <2>2. CASE \E m \in Mutators : Mutate(m) \/ FinishMutation(m)
    BY <2>2, LeaseKeptInv DEF Mutate, FinishMutation, leaseVars
  <2> QED
    BY <1>2, <2>1, <2>2 DEF Mutating
<1>3. CASE \E r \in Imports, k \in Keys, p \in Projects : StartImport(r, k, p)
  BY <1>3, PruneInv DEF StartImport
<1>4. CASE \E r \in Imports : Importing(r)
  <2>1. UNCHANGED leaseVars
    BY <1>4, ImportingKeeps DEF leaseVars
  <2> QED
    BY <2>1, LeaseKeptInv
<1>5. CASE Crash
  BY <1>5, CrashInv
<1>6. CASE UNCHANGED vars
  BY <1>6, LeaseKeptInv DEF vars
<1> QED
  BY <1>1, <1>2, <1>3, <1>4, <1>5, <1>6 DEF Next

(* A lease is its owner's until it is released, runs out or is lost in a    *)
(* crash: for any number of workspaces, workflows and requests.             *)
THEOREM LeaseAlwaysHonoured == Spec => []LeaseHonoured
<1>1. Init => LeaseInv
  BY DEF Init, LeaseInv, LeaseHonoured, GivenOnce, HeldIsGiven, DueIsOver
<1>2. TypeOK /\ LeaseInv /\ [Next]_vars => LeaseInv'
  BY NextInv
<1>3. LeaseInv => LeaseHonoured
  BY DEF LeaseInv
<1> QED
  BY <1>1, <1>2, <1>3, TypeCorrect, PTL DEF Spec

-----------------------------------------------------------------------------
(* One import of a project at a time: what each step of an import has done  *)
(* to the project, to its staging directory and to its job.                 *)

Runs(r) == pc[r] # "idle"

HasStaging(r) == pc[r] \in StagedSteps

\* No two imports of a project run at the same time.
Serial ==
    \A r, o \in Imports : Runs(r) /\ Runs(o) /\ job[r].project = job[o].project => r = o

Present(tree) == {f \in Files : tree[f] # None}

StagingTree(r) == staging[job[r].stamp].tree

JobOK(r) ==
    IF Runs(r) THEN /\ latest[job[r].project] = r
                    /\ ~job[r].done
                    /\ ~HasStaging(r) => job[r].stamp = None
                    /\ pc[r] # "pool" => job[r].hand = {}
    ELSE job[r] # None => job[r].done /\ job[r].stamp = None

\* An import has to do with staging directories of its project only.
NamesOK(r) ==
    /\ HasStaging(r) => /\ staging[job[r].stamp] # None
                        /\ staging[job[r].stamp].project = job[r].project
    /\ pc[r] = "clear" => \A s \in job[r].list \cap Stamps :
                              staging[s] = None \/ staging[s].project = job[r].project

FilesOK(r) ==
    LET p == job[r].project
        there == Present(target[p])
        staged == Present(StagingTree(r))
    IN
    /\ pc[r] = "clear" => Residue(p) \subseteq job[r].list
    /\ pc[r] = "stage" \/ HasStaging(r) => StagedIn(p) \subseteq {job[r].stamp}
    /\ pc[r] \in {"stage", "plan", "pool", "git", "read"} => there = {}
    /\ pc[r] = "plan" => staged = {}
    /\ pc[r] = "pool" =>
           /\ staged \subseteq job[r].plan
           /\ ~job[r].failed => job[r].plan \ (job[r].queue \cup job[r].hand) \subseteq staged
           /\ job[r].hand \subseteq job[r].plan /\ job[r].queue \subseteq job[r].plan
    /\ pc[r] \in {"git", "read"} => staged = job[r].plan
    /\ pc[r] = "publish" =>
           /\ there \cup staged = job[r].plan
           /\ job[r].list \subseteq Entries
           /\ \A e \in job[r].list : ~Holds(target[p], e)

LeftOK(r) ==
    Done(r) => /\ Present(target[job[r].project]) = job[r].plan
               /\ StagedIn(job[r].project) = {}

ImportOK(r) == JobOK(r) /\ NamesOK(r) /\ FilesOK(r) /\ LeftOK(r)

LEMMA RunsTyped ==
    ASSUME TypeOK, NEW r \in Imports, Runs(r)
    PROVE  /\ job[r] \in Job /\ job[r] # None
           /\ job[r].project \in Projects /\ job[r].key \in Keys
           /\ target[job[r].project] \in Tree /\ src[job[r].key] \in Tree
           /\ HasStaging(r) => job[r].stamp \in Stamps
  BY MigrationAssumption DEF Runs, HasStaging, TypeOK, ImportsOK, TreesOK, Job

LEMMA StagingTyped ==
    ASSUME TypeOK, NEW r \in Imports, Runs(r), HasStaging(r), NamesOK(r)
    PROVE  /\ job[r].stamp \in Stamps /\ staging[job[r].stamp] \in Staging
           /\ staging[job[r].stamp] # None
           /\ staging[job[r].stamp].project = job[r].project
           /\ StagingTree(r) \in Tree
  BY RunsTyped DEF NamesOK, TypeOK, TreesOK, Staging, StagingTree

-----------------------------------------------------------------------------
(* A step of an import concerns its own project.                            *)

Elsewhere(r) == \A o \in Imports \ {r} : pc'[o] = pc[o] /\ job'[o] = job[o]

InProject(p) ==
    /\ \A q \in Projects \ {p} : target'[q] = target[q]
    /\ \A s \in Stamps : staging'[s] # staging[s] =>
           /\ staging[s] # None => staging[s].project = p
           /\ staging'[s] # None => staging'[s].project = p
           /\ staging[s] = None => \A o \in Imports : pc[o] = "clear" => s \notin job[o].list

Within(r) ==
    /\ Elsewhere(r) /\ InProject(job[r].project)
    /\ UNCHANGED <<lease, given, over, src, change, latest>>

LEMMA MovesElsewhere ==
    ASSUME TypeOK, NEW r \in Imports,
           UNCHANGED pc \/ \E step : Goto(r, step),
           UNCHANGED job \/ \E j : job' = [job EXCEPT ![r] = j]
    PROVE  Elsewhere(r)
  BY DEF TypeOK, ImportsOK, Goto, Elsewhere

LEMMA FailElsewhere ==
    ASSUME TypeOK, NEW r \in Imports, Fail(r)
    PROVE  Elsewhere(r) /\ pc'[r] = "idle" /\ job'[r] = None
  BY DEF TypeOK, ImportsOK, Goto, Fail, Elsewhere

LEMMA SameTrees ==
    ASSUME NEW p, UNCHANGED <<target, staging>>
    PROVE  InProject(p)
  BY DEF InProject

LEMMA StoreStaging ==
    ASSUME TypeOK, NEW p, NEW s \in Stamps, NEW g, UNCHANGED target,
           staging' = [staging EXCEPT ![s] = g],
           staging[s] # None => staging[s].project = p,
           g # None => g.project = p,
           staging[s] = None => \A o \in Imports : pc[o] = "clear" => s \notin job[o].list
    PROVE  InProject(p)
  BY DEF TypeOK, TreesOK, InProject

LEMMA ImportWithin ==
    ASSUME TypeOK, NEW r \in Imports, Importing(r), ImportOK(r)
    PROVE  Within(r) /\ Runs(r)
<1> DEFINE p == job[r].project
           s == job[r].stamp
<1>1. Runs(r) /\ UNCHANGED <<lease, given, over, src, change, latest>>
  BY ImportingKeeps DEF Runs
<1>2. job[r] \in Job /\ p \in Projects /\ (HasStaging(r) => s \in Stamps)
  BY <1>1, RunsTyped
<1>3. CASE ListTarget(r) \/ FinishPool(r) \/ ConfigureGit(r) \/ ReadStaging(r) \/ HandTask(r)
  <2>1. InProject(p)
    BY <1>3, SameTrees DEF ListTarget, FinishPool, ConfigureGit, ReadStaging, HandTask, treeVars
  <2>2. Elsewhere(r)
    BY <1>3, MovesElsewhere, FailElsewhere
       DEF ListTarget, FinishPool, ConfigureGit, ReadStaging, HandTask
  <2> QED
    BY <1>1, <2>1, <2>2 DEF Within
<1>4. CASE ClearTarget(r)
  <2>1. ASSUME NEW x, job' = [job EXCEPT ![r].list = @ \ {x}], UNCHANGED pc
        PROVE  Elsewhere(r)
    BY <2>1, MovesElsewhere
  <2>2. ASSUME NEW e \in job[r].list \cap Entries, RemoveEntry(r, e), UNCHANGED staging
        PROVE  Within(r)
    <3>1. \E gone : target' = [target EXCEPT ![p] = Without(@, gone)]
      BY <2>2 DEF RemoveEntry
    <3>2. InProject(p)
      BY <2>2, <3>1 DEF InProject, TypeOK, TreesOK
    <3>3. Elsewhere(r)
      BY <2>1, <2>2, FailElsewhere DEF RemoveEntry
    <3> QED
      BY <1>1, <3>2, <3>3 DEF Within
  <2>3. ASSUME NEW d \in job[r].list \cap Stamps, RemoveStaging(r, d), UNCHANGED target
        PROVE  Within(r)
    <3>1. staging[d] = None \/ staging[d].project = p
      BY <1>4, <2>3 DEF ClearTarget, ImportOK, NamesOK
    <3>2. InProject(p)
      BY <2>3, <3>1 DEF RemoveStaging, InProject, TypeOK, TreesOK
    <3>3. Elsewhere(r)
      BY <2>1, <2>3, FailElsewhere DEF RemoveStaging
    <3> QED
      BY <1>1, <3>2, <3>3 DEF Within
  <2>4. CASE Goto(r, "stage") /\ UNCHANGED <<job, target, staging>>
    BY <1>1, <2>4, SameTrees, MovesElsewhere DEF Within
  <2> QED
    BY <1>1, <1>4, <2>2, <2>3, <2>4 DEF ClearTarget
<1>5. CASE MakeStaging(r)
  <2>1. ASSUME NEW d \in Stamps, Unknown(d), staging' = [staging EXCEPT ![d] = Made(p)]
        PROVE  InProject(p)
    <3>1. \A o \in Imports : pc[o] = "clear" => job[o] # None
      BY RunsTyped DEF Runs
    <3>2. \A o \in Imports : pc[o] = "clear" => d \notin job[o].list
      BY <2>1, <3>1 DEF Unknown
    <3> QED
      BY <1>5, <2>1, <3>2, StoreStaging DEF MakeStaging, Unknown, Made
  <2>2. Elsewhere(r)
    BY <1>5, MovesElsewhere, FailElsewhere DEF MakeStaging, NotStaged
  <2> QED
    BY <1>1, <1>5, <2>1, <2>2, SameTrees DEF MakeStaging, Within
<1>6. CASE PlanCopy(r)
  <2>1. Elsewhere(r)
    BY <1>6, MovesElsewhere, FailElsewhere DEF PlanCopy
  <2>2. HasStaging(r)
    BY <1>6 DEF PlanCopy, HasStaging, StagedSteps
  <2>3. staging[s] # None /\ staging[s].project = p
    BY <2>2 DEF ImportOK, NamesOK
  <2>4. InProject(p)
    BY <1>2, <1>6, <2>2, <2>3, StoreStaging, SameTrees DEF PlanCopy, Remade
  <2> QED
    BY <1>1, <2>1, <2>4 DEF Within
<1>7. CASE CopyTask(r)
  <2>1. Elsewhere(r)
    <3>1. UNCHANGED pc
      BY <1>7 DEF CopyTask
    <3> QED
      BY <1>7, <3>1, MovesElsewhere DEF CopyTask
  <2>2. HasStaging(r)
    BY <1>7 DEF CopyTask, HasStaging, StagedSteps
  <2>3. staging[s] \in Staging /\ staging[s] # None /\ staging[s].project = p
    BY <1>1, <2>2, StagingTyped DEF ImportOK
  <2>4. ASSUME NEW f, staging' = [staging EXCEPT ![s] =
                                     [staging[s] EXCEPT !.tree[f] = src[job[r].key][f]]]
        PROVE  InProject(p)
    <3> DEFINE g == [staging[s] EXCEPT !.tree[f] = src[job[r].key][f]]
    <3>1. g.project = p
      BY <2>3 DEF Staging
    <3>2. staging' = [staging EXCEPT ![s] = g]
      BY <2>4
    <3> HIDE DEF g
    <3> QED
      BY <1>2, <1>7, <2>2, <2>3, <3>1, <3>2, StoreStaging DEF CopyTask
  <2> QED
    BY <1>1, <1>7, <2>1, <2>3, <2>4, SameTrees DEF Within, CopyTask, Remade
<1>8. CASE PublishEntry(r)
  <2>1. Elsewhere(r)
    BY <1>8, MovesElsewhere, FailElsewhere DEF PublishEntry, Rename
  <2>2. HasStaging(r)
    BY <1>8 DEF PublishEntry, HasStaging, StagedSteps
  <2>3. staging[s] \in Staging /\ staging[s] # None /\ staging[s].project = p
    BY <1>1, <2>2, StagingTyped DEF ImportOK
  <2>4. ASSUME NEW e, Rename(r, e)
        PROVE  InProject(p)
    <3> DEFINE g == [staging[s] EXCEPT !.tree = Without(@, FilesOf(e))]
    <3>1. g.project = p
      BY <2>3 DEF Staging
    <3>2. staging' = [staging EXCEPT ![s] = g]
      BY <2>4 DEF Rename
    <3> HIDE DEF g
    <3>3. \A q \in Projects \ {p} : target'[q] = target[q]
      BY <2>4 DEF Rename, TypeOK, TreesOK
    <3> QED
      BY <1>2, <2>2, <2>3, <3>1, <3>2, <3>3 DEF InProject, TypeOK, TreesOK
  <2> QED
    BY <1>1, <1>8, <2>1, <2>4, SameTrees DEF Within, PublishEntry
<1>9. CASE RemoveStagingRoot(r)
  <2>1. Elsewhere(r)
    BY <1>9, MovesElsewhere, FailElsewhere DEF RemoveStagingRoot
  <2>2. HasStaging(r)
    BY <1>9 DEF RemoveStagingRoot, HasStaging, StagedSteps
  <2>3. staging[s] # None /\ staging[s].project = p
    BY <2>2 DEF ImportOK, NamesOK
  <2>4. InProject(p)
    BY <1>2, <1>9, <2>2, <2>3, StoreStaging, SameTrees DEF RemoveStagingRoot
  <2> QED
    BY <1>1, <2>1, <2>4 DEF Within
<1> QED
  BY <1>1, <1>3, <1>4, <1>5, <1>6, <1>7, <1>8, <1>9 DEF Importing

\* Which leaves the other imports and what they left as they are.
LEMMA OtherApart ==
    ASSUME TypeOK, Serial, NEW r \in Imports, Runs(r), JobOK(r),
           NEW o \in Imports \ {r}, Runs(o) \/ Done(o)
    PROVE  job[o].project # job[r].project
  BY DEF Serial, JobOK, Done

LEMMA OtherProject ==
    ASSUME TypeOK, TypeOK', NEW p, InProject(p), NEW q \in Projects, q # p
    PROVE  /\ target'[q] = target[q]
           /\ StagedIn(q)' = StagedIn(q)
           /\ Residue(q)' = Residue(q)
           /\ \A s \in Stamps : staging[s] # None /\ staging[s].project = q
                  => staging'[s] = staging[s]
<1>1. target'[q] = target[q]
  BY DEF InProject
<1>2. StagedIn(q)' = StagedIn(q)
  BY DEF InProject, StagedIn
<1> QED
  BY <1>1, <1>2 DEF InProject, Residue, Holds

LEMMA OtherImportOK ==
    ASSUME TypeOK, TypeOK', Serial, NEW r \in Imports, Runs(r), JobOK(r), Within(r),
           NEW o \in Imports \ {r}, ImportOK(o)
    PROVE  ImportOK(o)'
<1> DEFINE q == job[o].project
<1>1. pc'[o] = pc[o] /\ job'[o] = job[o] /\ latest' = latest
  BY DEF Within, Elsewhere
<1>2. JobOK(o)'
  BY <1>1 DEF ImportOK, JobOK, Runs, HasStaging
<1>3. ASSUME Runs(o)
      PROVE  NamesOK(o)' /\ FilesOK(o)'
  <2>1. q \in Projects /\ q # job[r].project
    BY <1>3, OtherApart, RunsTyped
  <2>2. /\ target'[q] = target[q] /\ StagedIn(q)' = StagedIn(q) /\ Residue(q)' = Residue(q)
        /\ \A s \in Stamps : staging[s] # None /\ staging[s].project = q
               => staging'[s] = staging[s]
    BY <1>1, <2>1, OtherProject DEF Within
  <2>3. HasStaging(o) => job[o].stamp \in Stamps /\ staging'[job[o].stamp] = staging[job[o].stamp]
    BY <1>3, <2>2, StagingTyped DEF ImportOK
  <2>4. NamesOK(o)'
    BY <1>1, <2>2, <2>3 DEF ImportOK, NamesOK, HasStaging, Within, InProject
  <2>5. FilesOK(o)'
    <3>1. HasStaging(o) => StagingTree(o)' = StagingTree(o)
      BY <1>1, <2>3 DEF StagingTree
    <3> QED
      BY <1>1, <2>2, <3>1 DEF ImportOK, FilesOK, HasStaging, StagedSteps, Residue, StagedIn,
         Present, Holds
  <2> QED
    BY <2>4, <2>5
<1>4. ~Runs(o) => NamesOK(o)' /\ FilesOK(o)'
  BY <1>1 DEF Runs, NamesOK, FilesOK, HasStaging, StagedSteps
<1>5. LeftOK(o)'
  <2>1. ASSUME Done(o)
        PROVE  LeftOK(o)'
    <3>1. q # job[r].project /\ q \in Projects
      BY <2>1, OtherApart DEF Done, TypeOK, ImportsOK, Job
    <3> QED
      BY <1>1, <2>1, <3>1, OtherProject DEF Within, ImportOK, LeftOK, Present
  <2> QED
    BY <1>1, <2>1 DEF LeftOK, Done
<1> QED
  BY <1>2, <1>3, <1>4, <1>5 DEF ImportOK

-----------------------------------------------------------------------------
(* Each step of an import keeps what is known of it.                        *)

LEMMA FailedOK ==
    ASSUME NEW r \in Imports, pc'[r] = "idle", job'[r] = None
    PROVE  ImportOK(r)'
  BY DEF ImportOK, JobOK, NamesOK, FilesOK, LeftOK, Runs, HasStaging, StagedSteps, Done

\* The step goes on with the same import.
GoesOn(r) ==
    /\ pc'[r] # "idle" /\ pc'[r] # "clear"
    /\ job'[r].project = job[r].project /\ job'[r].done = job[r].done
    /\ latest' = latest
    /\ pc'[r] \in StagedSteps \/ (job'[r].stamp = None /\ None \notin Stamps)
    /\ pc'[r] # "pool" => job'[r].hand = {}

LEMMA GoesOnOK ==
    ASSUME NEW r \in Imports, Runs(r), JobOK(r), GoesOn(r), FilesOK(r)',
           HasStaging(r)' => /\ staging'[job'[r].stamp] # None
                             /\ staging'[job'[r].stamp].project = job[r].project
    PROVE  ImportOK(r)'
<1>1. JobOK(r)'
  BY DEF JobOK, GoesOn, Runs, HasStaging
<1>2. NamesOK(r)'
  BY DEF NamesOK, GoesOn, HasStaging
<1>3. LeftOK(r)'
  BY DEF JobOK, GoesOn, LeftOK, Done
<1> QED
  BY <1>1, <1>2, <1>3 DEF ImportOK

LEMMA ListTargetOK ==
    ASSUME TypeOK, NEW r \in Imports, ListTarget(r), ImportOK(r)
    PROVE  ImportOK(r)'
<1> DEFINE p == job[r].project
<1>1. Runs(r) /\ pc[r] = "list" /\ job[r] \in Job
  BY RunsTyped DEF ListTarget, Runs
<1>2. CASE job' = [job EXCEPT ![r].list = Residue(p)] /\ Goto(r, "clear")
  <2>1. /\ pc'[r] = "clear" /\ job'[r].list = Residue(p) /\ job'[r].project = p
        /\ job'[r].done = job[r].done /\ job'[r].stamp = job[r].stamp
        /\ job'[r].hand = job[r].hand
        /\ UNCHANGED <<target, staging, latest>>
    BY <1>1, <1>2 DEF ListTarget, Goto, TypeOK, ImportsOK, Job, treeVars
  <2>2. JobOK(r)'
    BY <1>1, <2>1 DEF ImportOK, JobOK, Runs, HasStaging, StagedSteps
  <2>3. NamesOK(r)'
    BY <2>1, MigrationAssumption DEF NamesOK, Residue, StagedIn, HasStaging, StagedSteps
  <2>4. FilesOK(r)'
    BY <2>1 DEF FilesOK, Residue, StagedIn, Holds, HasStaging, StagedSteps
  <2>5. LeftOK(r)'
    BY <1>1, <2>1 DEF ImportOK, JobOK, LeftOK, Done
  <2> QED
    BY <2>2, <2>3, <2>4, <2>5 DEF ImportOK
<1> QED
  BY <1>2, FailElsewhere, FailedOK DEF ListTarget

LEMMA ClearedOK ==
    ASSUME TypeOK, NEW r \in Imports, pc[r] = "clear", ImportOK(r), NEW x,
           UNCHANGED <<pc, latest>>, job' = [job EXCEPT ![r].list = @ \ {x}],
           \A e \in Entries : Holds(target'[job[r].project], e)
               => e # x /\ Holds(target[job[r].project], e),
           \A s \in Stamps : staging'[s] = staging[s] \/ staging'[s] = None,
           x \in Stamps => staging'[x] = None
    PROVE  ImportOK(r)'
<1> DEFINE p == job[r].project
<1>1. Runs(r) /\ job[r] \in Job
  BY RunsTyped DEF Runs
<1>2. /\ pc'[r] = "clear" /\ job'[r].list = job[r].list \ {x} /\ job'[r].project = p
      /\ job'[r].done = job[r].done /\ job'[r].stamp = job[r].stamp
      /\ job'[r].hand = job[r].hand
  BY <1>1 DEF TypeOK, ImportsOK, Job
<1>3. JobOK(r)'
  BY <1>1, <1>2 DEF ImportOK, JobOK, Runs, HasStaging, StagedSteps
<1>4. NamesOK(r)'
  BY <1>2 DEF ImportOK, NamesOK, HasStaging, StagedSteps
<1>5. FilesOK(r)'
  <2>1. Residue(p) \subseteq job[r].list
    BY DEF ImportOK, FilesOK
  <2>2. {e \in Entries : Holds(target'[p], e)} \subseteq job[r].list \ {x}
    BY <2>1 DEF Residue
  <2>3. {s \in Stamps : staging'[s] # None /\ staging'[s].project = p} \subseteq job[r].list \ {x}
    BY <2>1 DEF Residue, StagedIn
  <2>4. Residue(p)' = {e \in Entries : Holds(target'[p], e)}
                      \cup {s \in Stamps : staging'[s] # None /\ staging'[s].project = p}
    BY <1>2 DEF Residue, StagedIn, Holds
  <2>5. Residue(job[r].project)' \subseteq job'[r].list
    BY <1>2, <2>2, <2>3, <2>4
  <2> QED
    BY <1>2, <2>5 DEF FilesOK, HasStaging, StagedSteps
<1>6. LeftOK(r)'
  BY <1>1, <1>2 DEF ImportOK, JobOK, LeftOK, Done
<1> QED
  BY <1>3, <1>4, <1>5, <1>6 DEF ImportOK

LEMMA ClearTargetOK ==
    ASSUME TypeOK, NEW r \in Imports, ClearTarget(r), ImportOK(r)
    PROVE  ImportOK(r)'
<1> DEFINE p == job[r].project
<1>1. pc[r] = "clear" /\ Runs(r) /\ job[r] \in Job /\ p \in Projects /\ latest' = latest
      /\ target[p] \in Tree
  BY RunsTyped DEF ClearTarget, Runs
<1>2. ASSUME NEW e \in job[r].list \cap Entries, RemoveEntry(r, e), UNCHANGED staging
      PROVE  ImportOK(r)'
  <2>1. CASE /\ target' = [target EXCEPT ![p] = Without(@, FilesOf(e))]
             /\ job' = [job EXCEPT ![r].list = @ \ {e}]
             /\ UNCHANGED pc
    <3>1. target'[p] = Without(target[p], FilesOf(e))
      BY <1>1, <2>1 DEF TypeOK, TreesOK
    <3>2. \A f \in Files : target'[p][f] # None => EntryOf[f] # e /\ target[p][f] # None
      BY <3>1 DEF Without, FilesOf
    <3>3. \A x \in Entries : Holds(target'[p], x) => x # e /\ Holds(target[p], x)
      BY <3>2 DEF Holds, FilesOf
    <3>4. e \notin Stamps
      BY MigrationAssumption
    <3> QED
      BY <1>1, <1>2, <2>1, <3>3, <3>4, ClearedOK
  <2> QED
    BY <1>2, <2>1, FailElsewhere, FailedOK DEF RemoveEntry
<1>3. ASSUME NEW d \in job[r].list \cap Stamps, RemoveStaging(r, d), UNCHANGED target
      PROVE  ImportOK(r)'
  <2>1. CASE /\ staging' = [staging EXCEPT ![d] = None]
             /\ job' = [job EXCEPT ![r].list = @ \ {d}]
             /\ UNCHANGED pc
    <3>1. \A x \in Entries : Holds(target'[p], x) => x # d /\ Holds(target[p], x)
      BY <1>3, MigrationAssumption
    <3>2. \A s \in Stamps : staging'[s] = IF s = d THEN None ELSE staging[s]
      BY <2>1 DEF TypeOK, TreesOK
    <3> QED
      BY <1>1, <2>1, <3>1, <3>2, ClearedOK
  <2> QED
    BY <1>3, <2>1, FailElsewhere, FailedOK DEF RemoveStaging
<1>4. CASE job[r].list = {} /\ Goto(r, "stage") /\ UNCHANGED <<job, target, staging>>
  <2>1. pc'[r] = "stage" /\ job[r].stamp = None /\ job[r].hand = {}
    BY <1>1, <1>4 DEF Goto, TypeOK, ImportsOK, ImportOK, JobOK, HasStaging, StagedSteps
  <2>2. Residue(p) = {}
    BY <1>1, <1>4 DEF ImportOK, FilesOK
  <2>3. Present(target[p]) = {}
    <3>1. ASSUME NEW f \in Files
          PROVE  target[p][f] = None
      <4>1. EntryOf[f] \in Entries /\ f \in FilesOf(EntryOf[f])
        BY MigrationAssumption DEF FilesOf
      <4> QED
        BY <2>2, <4>1 DEF Residue, Holds
    <3> QED
      BY <3>1 DEF Present
  <2>4. FilesOK(r)'
    BY <1>4, <2>1, <2>2, <2>3 DEF FilesOK, Residue, StagedIn, Present, HasStaging, StagedSteps
  <2> QED
    BY <1>1, <1>4, <2>1, <2>4, GoesOnOK, MigrationAssumption
       DEF GoesOn, HasStaging, StagedSteps, ImportOK
<1> QED
  BY <1>2, <1>3, <1>4 DEF ClearTarget

LEMMA MakeStagingOK ==
    ASSUME TypeOK, NEW r \in Imports, MakeStaging(r), ImportOK(r)
    PROVE  ImportOK(r)'
<1> DEFINE p == job[r].project
<1>1. pc[r] = "stage" /\ Runs(r) /\ job[r] \in Job /\ p \in Projects /\ job[r].stamp = None
      /\ job[r].hand = {} /\ UNCHANGED <<target, latest>>
  BY RunsTyped DEF MakeStaging, Runs, ImportOK, JobOK, HasStaging, StagedSteps
<1>2. ASSUME NEW s \in Stamps, staging' = [staging EXCEPT ![s] = Made(p)],
             job' = [job EXCEPT ![r].stamp = s], Goto(r, "plan")
      PROVE  ImportOK(r)'
  <2>1. /\ pc'[r] = "plan" /\ job'[r].stamp = s /\ job'[r].project = p
        /\ job'[r].done = job[r].done /\ job'[r].hand = {}
    BY <1>1, <1>2 DEF Goto, TypeOK, ImportsOK, Job
  <2>2. staging'[s] = Made(p) /\ \A d \in Stamps \ {s} : staging'[d] = staging[d]
    BY <1>2 DEF TypeOK, TreesOK
  <2>3. Made(p) \in Staging /\ Made(p) # None /\ Made(p).project = p /\ Made(p).tree = Empty
    BY <1>1, EmptyTyped, MigrationAssumption DEF Made, Staging
  <2>4. StagedIn(p) = {}
    BY <1>1, MigrationAssumption DEF ImportOK, FilesOK, StagedIn
  <2>5. StagedIn(job[r].project)' \subseteq {s}
    BY <2>1, <2>2, <2>4 DEF StagedIn
  <2>6. Present(StagingTree(r))' = {}
    BY <2>1, <2>2, <2>3 DEF Present, StagingTree, Empty
  <2>7. Present(target[job[r].project])' = {}
    BY <1>1, <2>1 DEF ImportOK, FilesOK, Present
  <2>8. FilesOK(r)'
    BY <2>1, <2>5, <2>6, <2>7 DEF FilesOK
  <2> QED
    BY <1>1, <2>1, <2>2, <2>3, <2>8, GoesOnOK DEF GoesOn, StagedSteps, ImportOK
<1> QED
  BY <1>2, FailElsewhere, FailedOK DEF MakeStaging, NotStaged

LEMMA PlanCopyOK ==
    ASSUME TypeOK, NEW r \in Imports, PlanCopy(r), ImportOK(r)
    PROVE  ImportOK(r)'
<1> DEFINE p == job[r].project
           s == job[r].stamp
           found == {f \in Files : src[job[r].key][f] # None}
<1>1. pc[r] = "plan" /\ Runs(r) /\ job[r] \in Job /\ HasStaging(r)
      /\ job[r].hand = {} /\ UNCHANGED <<target, latest>>
  BY RunsTyped DEF PlanCopy, Runs, HasStaging, StagedSteps, ImportOK, JobOK
<1>2. s \in Stamps /\ staging[s] # None /\ staging[s].project = p
  BY <1>1, StagingTyped DEF ImportOK
<1>3. CASE /\ job' = [job EXCEPT ![r].plan = found, ![r].queue = found]
           /\ staging' = [staging EXCEPT ![s] = Remade(r)]
           /\ Goto(r, "pool")
  <2>1. staging' = staging
    BY <1>2, <1>3 DEF Remade, TypeOK, TreesOK
  <2>2. /\ pc'[r] = "pool" /\ job'[r].stamp = s /\ job'[r].project = p
        /\ job'[r].done = job[r].done /\ job'[r].plan = found /\ job'[r].queue = found
        /\ job'[r].hand = {}
    BY <1>1, <1>3 DEF Goto, TypeOK, ImportsOK, Job
  <2>3. FilesOK(r)'
    BY <1>1, <2>1, <2>2 DEF ImportOK, FilesOK, StagingTree, StagedIn, Present, HasStaging
  <2> QED
    BY <1>1, <1>2, <2>1, <2>2, <2>3, GoesOnOK DEF GoesOn, StagedSteps, ImportOK
<1> QED
  BY <1>3, FailElsewhere, FailedOK DEF PlanCopy

\* Of a step in the pool: how the project and the staging directory go on.
LEMMA PoolOK ==
    ASSUME TypeOK, NEW r \in Imports, pc[r] = "pool", ImportOK(r),
           UNCHANGED <<pc, target, latest>>,
           job'[r] \in Job, job'[r].project = job[r].project, job'[r].done = job[r].done,
           job'[r].stamp = job[r].stamp, job'[r].plan = job[r].plan,
           StagedIn(job[r].project)' \subseteq {job[r].stamp},
           staging'[job[r].stamp] # None,
           staging'[job[r].stamp].project = job[r].project,
           Present(staging'[job[r].stamp].tree) \subseteq job[r].plan,
           ~job'[r].failed => job[r].plan \ (job'[r].queue \cup job'[r].hand)
                                  \subseteq Present(staging'[job[r].stamp].tree),
           job'[r].hand \subseteq job[r].plan, job'[r].queue \subseteq job[r].plan
    PROVE  ImportOK(r)'
<1> DEFINE p == job[r].project
           s == job[r].stamp
<1>1. pc'[r] = "pool" /\ Runs(r) /\ HasStaging(r) /\ HasStaging(r)'
  BY DEF Runs, HasStaging, StagedSteps
<1>2. Present(target[p]) = {}
  BY DEF ImportOK, FilesOK
<1>3. /\ Present(target[job[r].project])' = {}
      /\ StagedIn(job[r].project)' \subseteq {job'[r].stamp}
      /\ Present(StagingTree(r))' = Present(staging'[s].tree)
  BY <1>2 DEF Present, StagingTree, StagedIn
<1>4. FilesOK(r)'
  BY <1>1, <1>3 DEF FilesOK
<1> QED
  BY <1>1, <1>4, GoesOnOK DEF GoesOn, StagedSteps, ImportOK

\* What a task in the pool starts from.
LEMMA PoolFacts ==
    ASSUME TypeOK, NEW r \in Imports, pc[r] = "pool", ImportOK(r)
    PROVE  /\ job[r] \in Job /\ job[r].stamp \in Stamps
           /\ staging[job[r].stamp] \in Staging /\ staging[job[r].stamp] # None
           /\ staging[job[r].stamp].project = job[r].project
           /\ StagedIn(job[r].project) \subseteq {job[r].stamp}
           /\ Present(staging[job[r].stamp].tree) \subseteq job[r].plan
           /\ ~job[r].failed => job[r].plan \ (job[r].queue \cup job[r].hand)
                                  \subseteq Present(staging[job[r].stamp].tree)
           /\ job[r].hand \subseteq job[r].plan /\ job[r].queue \subseteq job[r].plan
<1>1. Runs(r) /\ HasStaging(r)
  BY DEF Runs, HasStaging, StagedSteps
<1> QED
  BY <1>1, RunsTyped, StagingTyped DEF ImportOK, FilesOK, StagingTree

LEMMA HandTaskOK ==
    ASSUME TypeOK, TypeOK', NEW r \in Imports, HandTask(r), ImportOK(r)
    PROVE  ImportOK(r)'
<1>1. pc[r] = "pool" /\ UNCHANGED <<pc, target, staging, latest>>
  BY DEF HandTask, treeVars
<1>2. PICK f \in job[r].queue :
          job' = [job EXCEPT ![r].queue = @ \ {f}, ![r].hand = @ \cup {f}]
  BY DEF HandTask
<1>3. job[r] \in Job
  BY <1>1, PoolFacts
<1>4. /\ job'[r].project = job[r].project /\ job'[r].done = job[r].done
      /\ job'[r].stamp = job[r].stamp /\ job'[r].plan = job[r].plan
      /\ job'[r].failed = job[r].failed
      /\ job'[r].queue = job[r].queue \ {f} /\ job'[r].hand = job[r].hand \cup {f}
  BY <1>2, <1>3 DEF TypeOK, ImportsOK, Job
<1>5. job'[r] \in Job
  BY <1>1 DEF TypeOK, ImportsOK
<1>6. StagedIn(job[r].project)' = StagedIn(job[r].project)
  BY <1>1, <1>4 DEF StagedIn
<1>7. job'[r].queue \cup job'[r].hand = job[r].queue \cup job[r].hand
  BY <1>2, <1>4
<1> QED
  BY <1>1, <1>4, <1>5, <1>6, <1>7, PoolFacts, PoolOK

LEMMA CopyTaskOK ==
    ASSUME TypeOK, TypeOK', NEW r \in Imports, CopyTask(r), ImportOK(r)
    PROVE  ImportOK(r)'
<1> DEFINE p == job[r].project
           s == job[r].stamp
<1>1. pc[r] = "pool" /\ UNCHANGED <<pc, target, latest>>
  BY DEF CopyTask
<1>2. /\ job[r] \in Job /\ s \in Stamps /\ staging[s] \in Staging /\ staging[s] # None
      /\ staging[s].project = p /\ StagedIn(p) \subseteq {s}
      /\ staging \in [Stamps -> Staging \cup {None}]
  BY <1>1, PoolFacts DEF TypeOK, TreesOK
<1>3. PICK f \in job[r].hand :
        \/ /\ job[r].failed
           /\ job' = [job EXCEPT ![r].hand = @ \ {f}]
           /\ UNCHANGED staging
        \/ /\ ~job[r].failed
           /\ src[job[r].key][f] # None
           /\ staging' = [staging EXCEPT ![s] =
                 [Remade(r) EXCEPT !.tree[f] = src[job[r].key][f]]]
           /\ job' = [job EXCEPT ![r].hand = @ \ {f}]
        \/ /\ ~job[r].failed
           /\ src[job[r].key][f] = None \/ Fault("copy")
           /\ job' = [job EXCEPT ![r].hand = @ \ {f}, ![r].failed = TRUE]
           /\ UNCHANGED staging
  BY DEF CopyTask
<1>4. job'[r] \in Job
  BY <1>1 DEF TypeOK, ImportsOK
<1>5. /\ job'[r].project = p /\ job'[r].done = job[r].done
      /\ job'[r].stamp = s /\ job'[r].plan = job[r].plan
      /\ job'[r].queue = job[r].queue /\ job'[r].hand = job[r].hand \ {f}
  BY <1>2, <1>3 DEF TypeOK, ImportsOK, Job
<1>6. CASE UNCHANGED staging /\ job'[r].failed
  <2>1. StagedIn(job[r].project)' = StagedIn(p)
    BY <1>5, <1>6 DEF StagedIn
  <2> QED
    BY <1>1, <1>4, <1>5, <1>6, <2>1, PoolFacts, PoolOK
<1>7. CASE /\ ~job[r].failed
           /\ src[job[r].key][f] # None
           /\ staging' = [staging EXCEPT ![s] =
                 [staging[s] EXCEPT !.tree[f] = src[job[r].key][f]]]
           /\ job' = [job EXCEPT ![r].hand = @ \ {f}]
  <2> DEFINE t == [staging[s].tree EXCEPT ![f] = src[job[r].key][f]]
             g == [staging[s] EXCEPT !.tree = t]
             staged == Present(staging[s].tree)
  <2>1. /\ job[r].hand \subseteq Files /\ f \in Files
        /\ staging[s].tree \in Tree /\ src[job[r].key] \in Tree
    BY <1>1, <1>2, <1>3, RunsTyped DEF Job, Staging, Runs
  <2>2. t \in Tree /\ \A h \in Files : t[h] = IF h = f THEN src[job[r].key][f]
                                                  ELSE staging[s].tree[h]
    BY <2>1 DEF Tree
  <2>3. Present(t) = staged \cup {f}
    <3> HIDE DEF t
    <3> QED
      BY <1>7, <2>1, <2>2 DEF Present
  <2>4. staging' = [staging EXCEPT ![s] = g]
    BY <1>7
  <2>5. g \in Staging /\ g # None /\ g.project = p /\ g.tree = t
    <3> HIDE DEF t
    <3>1. g \in Staging /\ g.project = p /\ g.tree = t
      BY <1>2, <2>2 DEF Staging
    <3> HIDE DEF g
    <3> QED
      BY <3>1, MigrationAssumption
  <2>6. staging'[s] = g
    <3> HIDE DEF g
    <3> QED
      BY <1>2, <2>4
  <2> HIDE DEF g, t
  <2>7. StagedIn(job[r].project)' \subseteq {s}
    <3>1. \A d \in Stamps \ {s} : staging'[d] = staging[d]
      BY <1>2, <2>4
    <3> QED
      BY <1>2, <1>5, <3>1 DEF StagedIn
  <2>8. /\ Present(staging'[s].tree) \subseteq job[r].plan
        /\ job[r].plan \ (job'[r].queue \cup job'[r].hand) \subseteq Present(staging'[s].tree)
        /\ job'[r].hand \subseteq job[r].plan /\ job'[r].queue \subseteq job[r].plan
    BY <1>1, <1>3, <1>5, <1>7, <2>3, <2>5, <2>6, PoolFacts
  <2> QED
    BY <1>1, <1>2, <1>4, <1>5, <2>5, <2>6, <2>7, <2>8, PoolOK
<1>8. Remade(r) = staging[s]
  BY <1>2 DEF Remade
<1>9. \/ UNCHANGED staging /\ job'[r].failed
      \/ /\ ~job[r].failed
         /\ src[job[r].key][f] # None
         /\ staging' = [staging EXCEPT ![s] =
               [staging[s] EXCEPT !.tree[f] = src[job[r].key][f]]]
         /\ job' = [job EXCEPT ![r].hand = @ \ {f}]
  BY <1>2, <1>3, <1>8 DEF TypeOK, ImportsOK, Job
<1> QED
  BY <1>6, <1>7, <1>9

LEMMA FinishPoolOK ==
    ASSUME TypeOK, NEW r \in Imports, FinishPool(r), ImportOK(r)
    PROVE  ImportOK(r)'
<1> DEFINE p == job[r].project
           s == job[r].stamp
<1>1. /\ pc[r] = "pool" /\ Runs(r) /\ HasStaging(r)
      /\ job[r].queue = {} /\ job[r].hand = {} /\ UNCHANGED <<target, staging, latest>>
  BY DEF FinishPool, Runs, HasStaging, StagedSteps, treeVars
<1>2. CASE ~job[r].failed /\ Goto(r, "git") /\ UNCHANGED job
  <2>1. pc'[r] = "git"
    BY <1>2 DEF Goto, TypeOK, ImportsOK
  <2>2. Present(staging[s].tree) = job[r].plan
    BY <1>1, <1>2, PoolFacts
  <2>3. StagedIn(p) \subseteq {s} /\ Present(target[p]) = {}
    BY <1>1, PoolFacts DEF ImportOK, FilesOK
  <2>4. FilesOK(r)'
    BY <1>1, <1>2, <2>1, <2>2, <2>3 DEF FilesOK, StagingTree, StagedIn, Present, HasStaging
  <2> QED
    BY <1>1, <1>2, <2>1, <2>4, PoolFacts, GoesOnOK DEF GoesOn, StagedSteps, ImportOK
<1> QED
  BY <1>2, FailElsewhere, FailedOK DEF FinishPool

LEMMA ConfigureGitOK ==
    ASSUME TypeOK, NEW r \in Imports, ConfigureGit(r), ImportOK(r)
    PROVE  ImportOK(r)'
<1>1. pc[r] = "git" /\ Runs(r) /\ HasStaging(r) /\ UNCHANGED <<target, staging, latest>>
  BY DEF ConfigureGit, Runs, HasStaging, StagedSteps, treeVars
<1>2. CASE Goto(r, "read") /\ UNCHANGED job
  <2>1. pc'[r] = "read" /\ job[r].hand = {}
    BY <1>1, <1>2 DEF Goto, TypeOK, ImportsOK, ImportOK, JobOK
  <2>2. FilesOK(r)'
    BY <1>1, <1>2, <2>1
       DEF ImportOK, FilesOK, StagingTree, StagedIn, Present, HasStaging
  <2> QED
    BY <1>1, <1>2, <2>1, <2>2, StagingTyped, GoesOnOK DEF GoesOn, StagedSteps, ImportOK
<1> QED
  BY <1>2, FailElsewhere, FailedOK DEF ConfigureGit

LEMMA ReadStagingOK ==
    ASSUME TypeOK, NEW r \in Imports, ReadStaging(r), ImportOK(r)
    PROVE  ImportOK(r)'
<1> DEFINE p == job[r].project
           s == job[r].stamp
           names == {e \in Entries : Holds(staging[s].tree, e)}
<1>1. /\ pc[r] = "read" /\ Runs(r) /\ HasStaging(r) /\ job[r] \in Job /\ job[r].hand = {}
      /\ UNCHANGED <<target, staging, latest>>
  BY RunsTyped DEF ReadStaging, Runs, HasStaging, StagedSteps, treeVars, ImportOK, JobOK
<1>2. CASE job' = [job EXCEPT ![r].list = names] /\ Goto(r, "publish")
  <2>1. /\ pc'[r] = "publish" /\ job'[r].list = names /\ job'[r].project = p
        /\ job'[r].done = job[r].done /\ job'[r].stamp = s /\ job'[r].plan = job[r].plan
        /\ job'[r].hand = {}
    BY <1>1, <1>2 DEF Goto, TypeOK, ImportsOK, Job
  <2>2. /\ StagedIn(p) \subseteq {s} /\ Present(target[p]) = {}
        /\ Present(StagingTree(r)) = job[r].plan
    BY <1>1 DEF ImportOK, FilesOK
  <2>3. \A e \in names : ~Holds(target[p], e)
    BY <2>2 DEF Present, Holds, FilesOf
  <2>4. /\ Present(target[job[r].project])' = {}
        /\ StagedIn(job[r].project)' \subseteq {job'[r].stamp}
        /\ Present(StagingTree(r))' = job[r].plan
    BY <1>1, <2>1, <2>2 DEF Present, StagingTree, StagedIn
  <2>5. \A e \in job'[r].list : ~Holds(target[job[r].project], e)'
    BY <1>1, <2>1, <2>3 DEF Holds
  <2>6. names \subseteq Entries
    OBVIOUS
  <2> HIDE DEF names
  <2>7. FilesOK(r)'
    BY <2>1, <2>4, <2>5, <2>6 DEF FilesOK
  <2> QED
    BY <1>1, <2>1, <2>7, StagingTyped, GoesOnOK DEF GoesOn, StagedSteps, ImportOK
<1> QED
  BY <1>2, FailElsewhere, FailedOK DEF ReadStaging

LEMMA PublishEntryOK ==
    ASSUME TypeOK, NEW r \in Imports, PublishEntry(r), ImportOK(r)
    PROVE  ImportOK(r)'
<1> DEFINE p == job[r].project
           s == job[r].stamp
<1>1. pc[r] = "publish" /\ Runs(r) /\ HasStaging(r) /\ latest' = latest
  BY DEF PublishEntry, Runs, HasStaging, StagedSteps
<1>2. /\ job[r] \in Job /\ job[r].hand = {} /\ p \in Projects /\ target[p] \in Tree
      /\ s \in Stamps /\ staging[s] \in Staging
      /\ staging[s].tree \in Tree /\ staging[s].project = p
  BY <1>1, RunsTyped, StagingTyped DEF ImportOK, JobOK, StagingTree
<1>3. ASSUME NEW e \in job[r].list, Rename(r, e)
      PROVE  ImportOK(r)'
  <2> DEFINE moved == [f \in Files |-> IF f \in FilesOf(e) THEN staging[s].tree[f]
                                                           ELSE target[p][f]]
             left == Without(staging[s].tree, FilesOf(e))
             g == [staging[s] EXCEPT !.tree = left]
  <2>1. target' = [target EXCEPT ![p] = moved] /\ staging' = [staging EXCEPT ![s] = g]
    BY <1>3 DEF Rename
  <2>2. g # None /\ g.project = p /\ g.tree = left
    <3>1. left \in Tree
      BY <1>2, WithoutTyped
    <3> HIDE DEF left
    <3>2. g \in Staging /\ g.project = p /\ g.tree = left
      BY <1>2, <3>1 DEF Staging
    <3> HIDE DEF g
    <3> QED
      BY <3>2, MigrationAssumption
  <2>3. target'[p] = moved /\ staging'[s] = g /\ \A d \in Stamps \ {s} : staging'[d] = staging[d]
    <3> HIDE DEF g, moved
    <3> QED
      BY <1>2, <2>1 DEF TypeOK, TreesOK
  <2>4. /\ pc'[r] = "publish" /\ job'[r].list = job[r].list \ {e} /\ job'[r].project = p
        /\ job'[r].done = job[r].done /\ job'[r].stamp = s /\ job'[r].plan = job[r].plan
        /\ job'[r].hand = {}
    BY <1>1, <1>2, <1>3 DEF Rename, TypeOK, ImportsOK, Job
  <2>5. /\ Present(target[p]) \cup Present(staging[s].tree) = job[r].plan
        /\ job[r].list \subseteq Entries
        /\ \A x \in job[r].list : ~Holds(target[p], x)
        /\ StagedIn(p) \subseteq {s}
    BY <1>1 DEF ImportOK, FilesOK, StagingTree
  <2>6. \A f \in FilesOf(e) : target[p][f] = None
    BY <1>3, <2>5 DEF Holds
  <2>7. Present(moved) \cup Present(left) = job[r].plan
    BY <2>5, <2>6 DEF Present, Without
  <2>8. \A x \in job[r].list \ {e} : ~Holds(moved, x)
    BY <2>5 DEF Holds, FilesOf
  <2>9. StagedIn(job[r].project)' \subseteq {s}
    BY <2>3, <2>4, <2>5 DEF StagedIn
  <2> HIDE DEF moved, left, g
  <2>10. Present(target[job[r].project])' = Present(moved)
         /\ Present(StagingTree(r))' = Present(left)
    BY <2>2, <2>3, <2>4 DEF Present, StagingTree
  <2>11. \A x \in job'[r].list : ~Holds(target[job[r].project], x)'
    BY <2>3, <2>4, <2>8 DEF Holds
  <2>12. FilesOK(r)'
    BY <2>4, <2>5, <2>7, <2>9, <2>10, <2>11 DEF FilesOK
  <2> QED
    BY <1>1, <2>2, <2>3, <2>4, <2>12, GoesOnOK DEF GoesOn, StagedSteps, ImportOK
<1> QED
  BY <1>3, FailElsewhere, FailedOK DEF PublishEntry

LEMMA RemoveStagingRootOK ==
    ASSUME TypeOK, NEW r \in Imports, RemoveStagingRoot(r), ImportOK(r)
    PROVE  ImportOK(r)'
<1> DEFINE p == job[r].project
           s == job[r].stamp
<1>1. pc[r] = "publish" /\ Runs(r) /\ HasStaging(r) /\ UNCHANGED <<target, latest>>
  BY DEF RemoveStagingRoot, Runs, HasStaging, StagedSteps
<1>2. job[r] \in Job /\ s \in Stamps
  BY <1>1, RunsTyped
<1>3. CASE /\ staging[s].tree = Empty
           /\ staging' = [staging EXCEPT ![s] = None]
           /\ job' = [job EXCEPT ![r].stamp = None, ![r].done = TRUE]
           /\ Goto(r, "idle")
  <2>1. /\ pc'[r] = "idle" /\ job'[r].project = p /\ job'[r].done /\ job'[r].stamp = None
        /\ job'[r].plan = job[r].plan
    BY <1>2, <1>3 DEF Goto, TypeOK, ImportsOK, Job
  <2>2. Present(target[p]) \cup Present(StagingTree(r)) = job[r].plan
        /\ StagedIn(p) \subseteq {s}
    BY <1>1 DEF ImportOK, FilesOK
  <2>3. Present(StagingTree(r)) = {}
    BY <1>3 DEF Present, StagingTree, Empty
  <2>4. staging'[s] = None /\ \A d \in Stamps \ {s} : staging'[d] = staging[d]
    BY <1>2, <1>3 DEF TypeOK, TreesOK
  <2>5. StagedIn(job[r].project)' = {}
    BY <2>1, <2>2, <2>4 DEF StagedIn
  <2>6. Present(target[job[r].project])' = job'[r].plan
    BY <1>1, <2>1, <2>2, <2>3 DEF Present
  <2> QED
    BY <2>1, <2>5, <2>6
       DEF ImportOK, JobOK, NamesOK, FilesOK, LeftOK, Runs, HasStaging, StagedSteps
<1> QED
  BY <1>3, FailElsewhere, FailedOK DEF RemoveStagingRoot, Staged

-----------------------------------------------------------------------------
(* The other steps, and the theorem.                                        *)

LEMMA KeptOK ==
    ASSUME UNCHANGED <<pc, job, latest, target, staging>>, NEW r \in Imports, ImportOK(r)
    PROVE  ImportOK(r)'
<1>1. JobOK(r)' /\ NamesOK(r)'
  BY DEF ImportOK, JobOK, NamesOK, Runs, HasStaging
<1>2. FilesOK(r)'
  BY DEF ImportOK, FilesOK, HasStaging, StagingTree, Residue, StagedIn, Present, Holds
<1>3. LeftOK(r)'
  BY DEF ImportOK, LeftOK, Done, StagedIn, Present
<1> QED
  BY <1>1, <1>2, <1>3 DEF ImportOK

LEMMA StartOK ==
    ASSUME TypeOK, Serial', NEW r \in Imports, NEW k \in Keys, NEW p \in Projects,
           StartImport(r, k, p), NEW o \in Imports, ImportOK(o)
    PROVE  ImportOK(o)'
<1>1. pc[r] = "idle" /\ UNCHANGED <<target, staging>>
  BY DEF StartImport, treeVars
<1>2. CASE /\ job' = [job EXCEPT ![r] = NewJob(k, p)]
           /\ Goto(r, "list")
           /\ latest' = [latest EXCEPT ![p] = r]
  <2>1. /\ pc'[r] = "list" /\ job'[r] = NewJob(k, p)
        /\ \A q \in Projects : latest'[q] = IF q = p THEN r ELSE latest[q]
        /\ \A q \in Imports \ {r} : pc'[q] = pc[q] /\ job'[q] = job[q]
    BY <1>2 DEF Goto, TypeOK, ImportsOK
  <2>2. job'[r].project = p /\ ~job'[r].done /\ job'[r].stamp = None /\ job'[r].hand = {}
    BY <2>1 DEF NewJob
  <2>3. CASE o = r
    BY <2>1, <2>2, <2>3
       DEF ImportOK, JobOK, NamesOK, FilesOK, LeftOK, Runs, HasStaging, StagedSteps, Done
  <2>4. CASE o # r
    <3>1. pc'[o] = pc[o] /\ job'[o] = job[o]
      BY <2>1, <2>4
    <3>2. Runs(o) => job[o].project # p /\ job[o].project \in Projects
      BY <2>1, <2>2, <2>4, <3>1, RunsTyped DEF Serial, Runs
    <3>3. JobOK(o)'
      BY <2>1, <3>1, <3>2 DEF ImportOK, JobOK, Runs, HasStaging
    <3>4. NamesOK(o)' /\ FilesOK(o)'
      BY <1>1, <3>1 DEF ImportOK, NamesOK, FilesOK, HasStaging, StagingTree, Residue,
                        StagedIn, Present, Holds
    <3>5. ASSUME Done(o)'
          PROVE  Done(o)
      <4>1. job[o] # None /\ job[o].done /\ latest'[job[o].project] = o
        BY <3>1, <3>5 DEF Done
      <4>2. job[o].project \in Projects
        BY <4>1 DEF TypeOK, ImportsOK, Job
      <4> QED
        BY <2>1, <2>4, <4>1, <4>2 DEF Done
    <3>6. LeftOK(o)'
      BY <1>1, <3>1, <3>5 DEF ImportOK, LeftOK, Present, StagedIn
    <3> QED
      BY <3>3, <3>4, <3>6 DEF ImportOK
  <2> QED
    BY <2>3, <2>4
<1> QED
  BY <1>1, <1>2, KeptOK DEF StartImport, importVars

LEMMA CrashOK ==
    ASSUME Crash, NEW r \in Imports, ImportOK(r)
    PROVE  ImportOK(r)'
<1>1. /\ pc'[r] = "idle" /\ UNCHANGED <<target, staging, latest>>
      /\ job'[r] = IF job[r] # None /\ job[r].done THEN job[r] ELSE None
  BY DEF Crash, treeVars
<1>2. CASE job[r] # None /\ job[r].done
  <2>1. ~Runs(r) /\ job'[r] = job[r]
    BY <1>1, <1>2 DEF ImportOK, JobOK
  <2>2. JobOK(r)' /\ NamesOK(r)' /\ FilesOK(r)'
    BY <1>1, <2>1 DEF ImportOK, JobOK, NamesOK, FilesOK, Runs, HasStaging, StagedSteps
  <2>3. LeftOK(r)'
    BY <1>1, <2>1 DEF ImportOK, LeftOK, Done, Present, StagedIn
  <2> QED
    BY <2>2, <2>3 DEF ImportOK
<1> QED
  BY <1>1, <1>2, FailedOK

LEMMA ImportingOK ==
    ASSUME TypeOK, TypeOK', NEW r \in Imports, Importing(r), ImportOK(r)
    PROVE  ImportOK(r)'
  BY ListTargetOK, ClearTargetOK, MakeStagingOK, PlanCopyOK, HandTaskOK, CopyTaskOK,
     FinishPoolOK, ConfigureGitOK, ReadStagingOK, PublishEntryOK, RemoveStagingRootOK
     DEF Importing

AllOK == \A r \in Imports : ImportOK(r)

LEMMA NextOK ==
    ASSUME TypeOK, TypeOK', Serial, Serial', AllOK, [Next]_vars
    PROVE  AllOK'
<1> SUFFICES ASSUME NEW o \in Imports
             PROVE  ImportOK(o)'
  BY DEF AllOK
<1>1. ImportOK(o)
  BY DEF AllOK
<1>2. CASE Leasing \/ Mutating \/ UNCHANGED vars
  <2>1. UNCHANGED <<pc, job, latest, target, staging>>
    BY <1>2 DEF Leasing, Mutating, vars, Acquire, Release, RunOut, Status, Admit, Mutate,
                FinishMutation, importVars, treeVars
  <2> QED
    BY <1>1, <2>1, KeptOK
<1>3. CASE \E r \in Imports, k \in Keys, p \in Projects : StartImport(r, k, p)
  BY <1>1, <1>3, StartOK
<1>4. ASSUME NEW r \in Imports, Importing(r)
      PROVE  ImportOK(o)'
  <2>1. ImportOK(r) /\ JobOK(r)
    BY DEF AllOK, ImportOK
  <2>2. CASE o = r
    BY <1>4, <2>1, <2>2, ImportingOK
  <2>3. CASE o # r
    BY <1>1, <1>4, <2>1, <2>3, ImportWithin, OtherImportOK
  <2> QED
    BY <2>2, <2>3
<1>5. CASE Crash
  BY <1>1, <1>5, CrashOK
<1> QED
  BY <1>2, <1>3, <1>4, <1>5 DEF Next

LEMMA InitOK == Init => AllOK
  BY DEF Init, AllOK, ImportOK, JobOK, NamesOK, FilesOK, LeftOK, Runs, HasStaging,
         StagedSteps, Done

(* As long as no two imports of a project run at the same time, which the   *)
(* code leaves to its clients, an import that answers with success has left *)
(* in the project what it planned and nothing else, and no staging          *)
(* directory: handleProjectLegacyImport clears the target, fills a          *)
(* directory of its own, publishes all of it and removes it, whatever other *)
(* imports, mutations of the workspace, failed calls and crashes there are. *)
THEOREM ImportLeavesPlan == Spec /\ []Serial => []ImportReplaces
<1>1. AllOK => ImportReplaces
  BY DEF AllOK, ImportOK, LeftOK, ImportReplaces, Present
<1> QED
  BY <1>1, InitOK, NextOK, TypeCorrect, PTL DEF Spec

-----------------------------------------------------------------------------
(* What an import copies is the workspace at one moment: while its lease is *)
(* in force nobody changes the workspace.                                   *)

InForce(k) == lease[k] # NoLease /\ lease[k].quiet /\ ~lease[k].due

\* No mutation of a workspace is under way while a lease that began so is in force.
QuietInForce == \A k \in Keys : InForce(k) => Quiet(k)

\* The lease that an import found is one that a workflow was given.
SeenGiven ==
    \A r \in Imports : job[r] # None => \E o \in Owners : job[r].seen \in given[o][job[r].key]

\* The lease that an import found is still in force.
Frozen(r) == job[r] # None /\ InForce(job[r].key) /\ lease[job[r].key].id = job[r].seen

SameAs(tree, other) == \A f \in Files : tree[f] # None => tree[f] = other[f]

CopySteps == {"pool", "git", "read", "publish"}

CopyOK(r) ==
    Frozen(r) =>
        /\ pc[r] \in CopySteps => /\ job[r].plan = Present(src[job[r].key])
                                  /\ SameAs(StagingTree(r), src[job[r].key])
        /\ pc[r] = "publish" => SameAs(target[job[r].project], src[job[r].key])
        /\ Done(r) => target[job[r].project] = src[job[r].key]

(* A lease that comes into force has an id of its own.                      *)
LEMMA PruneForce ==
    ASSUME TypeOK, lease' = Pruned, NEW k \in Keys, InForce(k)'
    PROVE  lease'[k] = lease[k] /\ InForce(k)
  BY DEF InForce, Pruned

LEMMA ForceBefore ==
    ASSUME TypeOK, LeaseInv, [Next]_vars, NEW k \in Keys, InForce(k)'
    PROVE  \/ InForce(k) /\ lease'[k].id = lease[k].id
           \/ /\ change' = change /\ Quiet(k)
              /\ \A q \in Owners : lease'[k].id \notin given[q][k]
<1>1. CASE lease' = Pruned
  BY <1>1, PruneForce
<1>2. CASE UNCHANGED lease
  BY <1>2 DEF InForce
<1>3. CASE Crash
  BY <1>3 DEF Crash, InForce
<1>4. ASSUME NEW o \in Owners, NEW j \in Keys, Acquire(o, j)
      PROVE  \/ InForce(k) /\ lease'[k].id = lease[k].id
             \/ /\ change' = change /\ Quiet(k)
                /\ \A q \in Owners : lease'[k].id \notin given[q][k]
  <2>1. ASSUME NEW id \in LeaseIds,
               \A q \in Owners, i \in Keys : id \notin given[q][i],
               lease' = [Pruned EXCEPT ![j] = [id |-> id, owner |-> o,
                                due |-> FALSE, quiet |-> Quiet(j)]]
        PROVE  \/ InForce(k) /\ lease'[k].id = lease[k].id
               \/ Quiet(k) /\ \A q \in Owners : lease'[k].id \notin given[q][k]
    <3>1. CASE k = j
      <4>1. lease'[k] = [id |-> id, owner |-> o, due |-> FALSE, quiet |-> Quiet(j)]
        BY <2>1, <3>1 DEF Pruned
      <4> QED
        BY <2>1, <3>1, <4>1 DEF InForce
    <3>2. CASE k # j
      BY <2>1, <3>2 DEF InForce, Pruned
    <3> QED
      BY <3>1, <3>2
  <2> QED
    BY <1>1, <1>4, <2>1 DEF Acquire
<1>5. ASSUME NEW o \in Owners, NEW j \in Keys, Release(o, j)
      PROVE  InForce(k) /\ lease'[k].id = lease[k].id
  BY <1>5 DEF Release, InForce, TypeOK, LeasesOK
<1>6. ASSUME NEW j \in Keys, RunOut(j)
      PROVE  InForce(k) /\ lease'[k].id = lease[k].id
  <2>1. k # j
    BY <1>6 DEF RunOut, InForce, TypeOK, LeasesOK, Lease
  <2> QED
    BY <1>6, <2>1 DEF RunOut, InForce, TypeOK, LeasesOK
<1>7. CASE Leasing
  BY <1>1, <1>4, <1>5, <1>6, <1>7 DEF Leasing, Status
<1>8. CASE Mutating
  BY <1>1, <1>2, <1>8 DEF Mutating, Admit, Mutate, FinishMutation, leaseVars
<1>9. CASE \E r \in Imports, i \in Keys, p \in Projects : StartImport(r, i, p)
  BY <1>1, <1>9 DEF StartImport
<1>10. CASE \E r \in Imports : Importing(r)
  <2>1. UNCHANGED lease
    BY <1>10, ImportingKeeps
  <2> QED
    BY <1>2, <2>1
<1> QED
  BY <1>2, <1>3, <1>7, <1>8, <1>9, <1>10 DEF Next, vars, leaseVars

(* Admit lets nobody in while there is a lease.                             *)
LEMMA QuietKept ==
    ASSUME TypeOK, LeaseInv, QuietInForce, [Next]_vars
    PROVE  QuietInForce'
<1> SUFFICES ASSUME NEW k \in Keys, InForce(k)'
             PROVE  Quiet(k)'
  BY DEF QuietInForce
<1>1. Quiet(k)
  BY ForceBefore DEF QuietInForce
<1>2. CASE Mutating
  <2>1. ASSUME NEW m \in Mutators, NEW j \in Keys, Admit(m, j)
        PROVE  Quiet(k)'
    <3>1. CASE k = j
      <4>1. ~MayMutate(j)
        BY <2>1, <3>1 DEF Admit, MayMutate, InForce
      <4> QED
        BY <1>1, <2>1, <4>1 DEF Admit, Quiet
    <3>2. CASE k # j
      BY <1>1, <2>1, <3>2 DEF Admit, Quiet, TypeOK
    <3> QED
      BY <3>1, <3>2
  <2>2. ASSUME NEW m \in Mutators, FinishMutation(m)
        PROVE  Quiet(k)'
    BY <1>1, <2>2, MigrationAssumption DEF FinishMutation, Quiet, TypeOK
  <2>3. ASSUME NEW m \in Mutators, Mutate(m)
        PROVE  Quiet(k)'
    BY <1>1, <2>3 DEF Mutate, Quiet
  <2> QED
    BY <1>2, <2>1, <2>2, <2>3 DEF Mutating
<1>3. CASE Crash
  BY <1>3, MigrationAssumption DEF Crash, Quiet
<1>4. CASE UNCHANGED change
  BY <1>1, <1>4 DEF Quiet
<1>5. CASE Leasing
  BY <1>4, <1>5 DEF Leasing, Acquire, Release, RunOut, Status
<1>6. CASE \E r \in Imports, j \in Keys, p \in Projects : StartImport(r, j, p)
  BY <1>4, <1>6 DEF StartImport
<1>7. CASE \E r \in Imports : Importing(r)
  <2>1. UNCHANGED change
    BY <1>7, ImportingKeeps
  <2> QED
    BY <1>4, <2>1
<1> QED
  BY <1>2, <1>3, <1>4, <1>5, <1>6, <1>7 DEF Next, vars

\* Of an import whose lease is in force nobody touches the workspace.
LEMMA FrozenBefore ==
    ASSUME TypeOK, LeaseInv, QuietInForce, SeenGiven, [Next]_vars, NEW r \in Imports,
           job[r] # None, job'[r] # None, job'[r].key = job[r].key,
           job'[r].seen = job[r].seen, Frozen(r)'
    PROVE  Frozen(r) /\ src'[job[r].key] = src[job[r].key]
<1> DEFINE k == job[r].key
<1>1. k \in Keys
  BY DEF TypeOK, ImportsOK, Job
<1>2. InForce(k)' /\ lease'[k].id = job[r].seen
  BY DEF Frozen, InForce
<1>3. \E q \in Owners : job[r].seen \in given[q][k]
  BY DEF SeenGiven
<1>4. InForce(k) /\ lease[k].id = job[r].seen
  BY <1>1, <1>2, <1>3, ForceBefore
<1>5. Quiet(k)
  BY <1>1, <1>4 DEF QuietInForce
<1>6. ASSUME NEW m \in Mutators, Mutate(m)
      PROVE  src'[k] = src[k]
  BY <1>1, <1>5, <1>6 DEF Mutate, Quiet, TypeOK, TreesOK
<1>7. (\E m \in Mutators : Mutate(m)) \/ UNCHANGED src
  <2>1. CASE \E p \in Imports : Importing(p)
    BY <2>1, ImportingKeeps
  <2>2. CASE Leasing \/ Mutating
    BY <2>2 DEF Leasing, Mutating, Acquire, Release, RunOut, Status, Admit, FinishMutation,
                treeVars
  <2>3. CASE Crash \/ \E p \in Imports, j \in Keys, q \in Projects : StartImport(p, j, q)
    BY <2>3 DEF Crash, StartImport, treeVars
  <2> QED
    BY <2>1, <2>2, <2>3 DEF Next, vars, treeVars
<1> QED
  BY <1>4, <1>6, <1>7 DEF Frozen

LEMMA SeenKept ==
    ASSUME NEW r \in Imports, SeenGiven,
           \A o \in Owners, k \in Keys : given[o][k] \subseteq given'[o][k],
           job'[r] # None, job[r] # None, job[r].key \in Keys,
           job'[r].key = job[r].key, job'[r].seen = job[r].seen
    PROVE  \E o \in Owners : job'[r].seen \in given'[o][job'[r].key]
  BY DEF SeenGiven

\* An import stays with the lease it found.
SameLease(r) ==
    job'[r] # None => job[r] # None /\ job'[r].key = job[r].key /\ job'[r].seen = job[r].seen

LEMMA ImportingLease ==
    ASSUME TypeOK, NEW r \in Imports, Importing(r)
    PROVE  SameLease(r)
<1>1. job[r] \in Job /\ job[r] # None
  BY RunsTyped, ImportingKeeps DEF Runs
<1>2. Fail(r) => SameLease(r)
  BY FailElsewhere DEF SameLease
<1>3. UNCHANGED job => SameLease(r)
  BY DEF SameLease
<1>4. ASSUME NEW l, job' = [job EXCEPT ![r].list = l]
      PROVE  SameLease(r)
  BY <1>1, <1>4 DEF SameLease, TypeOK, ImportsOK, Job
<1>5. CASE ListTarget(r) \/ ReadStaging(r) \/ PublishEntry(r) \/ ClearTarget(r)
  BY <1>2, <1>3, <1>4, <1>5 DEF ListTarget, ReadStaging, PublishEntry, ClearTarget,
     RemoveEntry, RemoveStaging, Rename
<1>6. CASE FinishPool(r) \/ ConfigureGit(r)
  BY <1>2, <1>3, <1>6 DEF FinishPool, ConfigureGit
<1>7. CASE MakeStaging(r)
  <2>1. ASSUME NEW s, job' = [job EXCEPT ![r].stamp = s]
        PROVE  SameLease(r)
    BY <1>1, <2>1 DEF SameLease, TypeOK, ImportsOK, Job
  <2> QED
    BY <1>2, <1>7, <2>1 DEF MakeStaging, NotStaged
<1>8. CASE PlanCopy(r)
  <2>1. ASSUME NEW x, job' = [job EXCEPT ![r].plan = x, ![r].queue = x]
        PROVE  SameLease(r)
    BY <1>1, <2>1 DEF SameLease, TypeOK, ImportsOK, Job
  <2> QED
    BY <1>2, <1>8, <2>1 DEF PlanCopy
<1>9. CASE HandTask(r)
  BY <1>1, <1>9 DEF HandTask, SameLease, TypeOK, ImportsOK, Job
<1>10. CASE CopyTask(r)
  BY <1>1, <1>10 DEF CopyTask, SameLease, TypeOK, ImportsOK, Job
<1>11. CASE RemoveStagingRoot(r)
  <2>1. CASE job' = [job EXCEPT ![r].stamp = None, ![r].done = TRUE]
    BY <1>1, <2>1 DEF SameLease, TypeOK, ImportsOK, Job
  <2> QED
    BY <1>2, <1>11, <2>1 DEF RemoveStagingRoot
<1> QED
  BY <1>5, <1>6, <1>7, <1>8, <1>9, <1>10, <1>11 DEF Importing

LEMMA SeenNext ==
    ASSUME TypeOK, LeaseInv, SeenGiven, [Next]_vars
    PROVE  SeenGiven'
<1>1. \A o \in Owners, k \in Keys : given[o][k] \subseteq given'[o][k]
  <2>1. ASSUME NEW q \in Owners, NEW j \in Keys, Acquire(q, j)
        PROVE  \A o \in Owners, k \in Keys : given[o][k] \subseteq given'[o][k]
    BY <2>1 DEF Acquire, TypeOK, LeasesOK
  <2>2. CASE UNCHANGED given
    BY <2>2
  <2>3. CASE Leasing
    BY <2>1, <2>2, <2>3 DEF Leasing, Release, RunOut, Status
  <2>4. CASE Mutating
    BY <2>2, <2>4 DEF Mutating, Admit, Mutate, FinishMutation, leaseVars
  <2>5. CASE \E p \in Imports : Importing(p)
    BY <2>2, <2>5, ImportingKeeps
  <2>6. CASE Crash \/ \E p \in Imports, j \in Keys, q \in Projects : StartImport(p, j, q)
    BY <2>2, <2>6 DEF Crash, StartImport
  <2> QED
    BY <2>2, <2>3, <2>4, <2>5, <2>6 DEF Next, vars, leaseVars
<1> SUFFICES ASSUME NEW r \in Imports, job'[r] # None
             PROVE  \E o \in Owners : job'[r].seen \in given'[o][job'[r].key]
  BY DEF SeenGiven
<1>2. CASE SameLease(r)
  <2>1. job[r].key \in Keys
    BY <1>2 DEF SameLease, TypeOK, ImportsOK, Job
  <2> QED
    BY <1>1, <1>2, <2>1, SeenKept DEF SameLease
<1>3. ASSUME NEW q \in Imports, NEW k \in Keys, NEW p \in Projects, StartImport(q, k, p)
      PROVE  \E o \in Owners : job'[r].seen \in given'[o][job'[r].key]
  <2>1. CASE r = q /\ job' = [job EXCEPT ![q] = NewJob(k, p)] /\ Pruned[k] # NoLease
    <3>1. job'[r].key = k /\ job'[r].seen = lease[k].id /\ lease[k] # NoLease
      BY <2>1 DEF NewJob, Pruned, TypeOK, ImportsOK
    <3>2. lease[k].id \in given[lease[k].owner][k] /\ lease[k].owner \in Owners
      BY <3>1 DEF LeaseInv, HeldIsGiven, TypeOK, LeasesOK, Lease
    <3> QED
      BY <1>1, <3>1, <3>2
  <2>2. CASE r # q \/ UNCHANGED job
    <3>1. job'[r] = job[r]
      BY <1>3, <2>2 DEF StartImport, importVars, TypeOK, ImportsOK
    <3> QED
      BY <1>2, <3>1 DEF SameLease
  <2> QED
    BY <1>3, <2>1, <2>2 DEF StartImport, importVars
<1>4. ASSUME NEW q \in Imports, Importing(q)
      PROVE  SameLease(r)
  <2>1. CASE r = q
    BY <1>4, <2>1, ImportingLease
  <2>2. CASE r # q
    <3>1. job'[r] = job[r]
      BY <1>4, <2>2 DEF Importing, ListTarget, ClearTarget, MakeStaging, PlanCopy, HandTask,
         CopyTask, FinishPool, ConfigureGit, ReadStaging, PublishEntry, RemoveStagingRoot,
         RemoveEntry, RemoveStaging, NotStaged, Fail, Rename, TypeOK, ImportsOK
    <3> QED
      BY <3>1 DEF SameLease
  <2> QED
    BY <2>1, <2>2
<1>5. CASE Crash
  BY <1>2, <1>5 DEF Crash, SameLease
<1>6. CASE UNCHANGED job
  BY <1>2, <1>6 DEF SameLease
<1>7. CASE Leasing \/ Mutating
  BY <1>6, <1>7 DEF Leasing, Mutating, Acquire, Release, RunOut, Status, Admit, Mutate,
                    FinishMutation, importVars
<1> QED
  BY <1>2, <1>3, <1>4, <1>5, <1>6, <1>7 DEF Next, vars, importVars

(* The steps of an import that change what it has copied or published.      *)

LEMMA VacuousCopy ==
    ASSUME NEW r \in Imports, pc'[r] \notin CopySteps,
           job'[r] # None => ~job'[r].done
    PROVE  CopyOK(r)'
  BY DEF CopyOK, CopySteps, Done, Frozen

LEMMA FailedCopy ==
    ASSUME NEW r \in Imports, job'[r] = None
    PROVE  CopyOK(r)'
  BY DEF CopyOK, Frozen

\* Of a copy that is under way: what it has to show after the step.
LEMMA CopyGoesOn ==
    ASSUME NEW r \in Imports, pc'[r] \in CopySteps, job'[r] # None => ~job'[r].done,
           NEW w, src'[job'[r].key] = w, job'[r].plan = Present(w),
           SameAs(StagingTree(r)', w),
           pc'[r] = "publish" => SameAs(target'[job'[r].project], w)
    PROVE  CopyOK(r)'
  BY DEF CopyOK, Done, Frozen, Present, SameAs, StagingTree

LEMMA EarlyCopy ==
    ASSUME TypeOK, NEW r \in Imports, ImportOK(r),
           ListTarget(r) \/ ClearTarget(r) \/ MakeStaging(r)
    PROVE  CopyOK(r)'
<1>1. Runs(r) /\ job[r] \in Job /\ ~job[r].done
  BY RunsTyped DEF ListTarget, ClearTarget, MakeStaging, Runs, ImportOK, JobOK
<1>2. CASE Fail(r)
  BY <1>2, FailElsewhere, FailedCopy
<1>3. ASSUME job'[r].done = job[r].done, pc'[r] \in {"clear", "stage", "plan"}
      PROVE  CopyOK(r)'
  BY <1>1, <1>3, VacuousCopy DEF CopySteps
<1>4. CASE ListTarget(r)
  BY <1>1, <1>2, <1>3, <1>4 DEF ListTarget, Goto, TypeOK, ImportsOK, Job
<1>5. CASE ClearTarget(r)
  <2>1. ASSUME NEW x, job' = [job EXCEPT ![r].list = @ \ {x}], UNCHANGED pc
        PROVE  job'[r].done = job[r].done /\ pc'[r] = "clear"
    BY <1>1, <1>5, <2>1 DEF ClearTarget, TypeOK, ImportsOK, Job
  <2>2. CASE Goto(r, "stage") /\ UNCHANGED job
    BY <1>3, <2>2 DEF Goto, TypeOK, ImportsOK
  <2> QED
    BY <1>2, <1>3, <1>5, <2>1, <2>2 DEF ClearTarget, RemoveEntry, RemoveStaging
<1>6. CASE MakeStaging(r)
  BY <1>1, <1>2, <1>3, <1>6 DEF MakeStaging, NotStaged, Goto, TypeOK, ImportsOK, Job
<1> QED
  BY <1>4, <1>5, <1>6

LEMMA PlanCopyKeeps ==
    ASSUME TypeOK, NEW r \in Imports, ImportOK(r), PlanCopy(r)
    PROVE  CopyOK(r)'
<1> DEFINE s == job[r].stamp
           w == src[job[r].key]
<1>1. /\ pc[r] = "plan" /\ Runs(r) /\ HasStaging(r) /\ job[r] \in Job /\ ~job[r].done
      /\ src' = src
  BY RunsTyped DEF PlanCopy, Runs, HasStaging, StagedSteps, ImportOK, JobOK
<1>2. s \in Stamps /\ staging[s] # None
  BY <1>1, StagingTyped DEF ImportOK
<1>3. CASE /\ job' = [job EXCEPT ![r].plan = Present(w), ![r].queue = Present(w)]
           /\ staging' = [staging EXCEPT ![s] = Remade(r)]
           /\ Goto(r, "pool")
  <2>1. staging' = staging
    BY <1>2, <1>3 DEF Remade, TypeOK, TreesOK
  <2>2. /\ pc'[r] = "pool" /\ job'[r].stamp = s /\ job'[r].key = job[r].key
        /\ job'[r].done = job[r].done /\ job'[r].plan = Present(w)
    BY <1>1, <1>3 DEF Goto, TypeOK, ImportsOK, Job
  <2>3. Present(StagingTree(r)) = {}
    BY <1>1 DEF ImportOK, FilesOK
  <2>4. SameAs(StagingTree(r)', w)
    BY <2>1, <2>2, <2>3 DEF Present, StagingTree, SameAs
  <2> QED
    BY <1>1, <2>2, <2>4, CopyGoesOn DEF CopySteps
<1> QED
  BY <1>3, FailElsewhere, FailedCopy DEF PlanCopy, Present

LEMMA PoolKeeps ==
    ASSUME TypeOK, NEW r \in Imports, ImportOK(r), CopyOK(r), Frozen(r),
           HandTask(r) \/ CopyTask(r) \/ FinishPool(r)
    PROVE  CopyOK(r)'
<1> DEFINE s == job[r].stamp
           w == src[job[r].key]
<1>1. /\ pc[r] = "pool" /\ Runs(r) /\ job[r] \in Job /\ ~job[r].done /\ src' = src
      /\ job[r].plan = Present(w) /\ SameAs(StagingTree(r), w)
  BY RunsTyped DEF HandTask, CopyTask, FinishPool, Runs, ImportOK, JobOK, CopyOK, CopySteps,
                   treeVars
<1>2. s \in Stamps /\ staging[s] \in Staging /\ staging[s] # None
  BY <1>1, PoolFacts
<1>3. ASSUME pc'[r] \in {"pool", "git"}, job'[r].key = job[r].key, job'[r].done = job[r].done,
             job'[r].stamp = s, job'[r].plan = job[r].plan, SameAs(staging'[s].tree, w)
      PROVE  CopyOK(r)'
  <2>1. SameAs(StagingTree(r)', w)
    BY <1>3 DEF StagingTree
  <2> QED
    BY <1>1, <1>3, <2>1, CopyGoesOn DEF CopySteps
<1>4. SameAs(staging[s].tree, w)
  BY <1>1 DEF StagingTree
<1>5. CASE HandTask(r)
  <2> PICK f \in job[r].queue :
          job' = [job EXCEPT ![r].queue = @ \ {f}, ![r].hand = @ \cup {f}]
    BY <1>5 DEF HandTask
  <2>1. /\ pc'[r] = "pool" /\ job'[r].key = job[r].key /\ job'[r].done = job[r].done
        /\ job'[r].stamp = s /\ job'[r].plan = job[r].plan /\ staging' = staging
    BY <1>1, <1>5 DEF HandTask, TypeOK, ImportsOK, Job, treeVars
  <2> QED
    BY <1>3, <1>4, <2>1
<1>6. CASE CopyTask(r)
  <2>1. /\ pc'[r] = "pool" /\ job'[r].key = job[r].key /\ job'[r].done = job[r].done
        /\ job'[r].stamp = s /\ job'[r].plan = job[r].plan
    BY <1>1, <1>6 DEF CopyTask, TypeOK, ImportsOK, Job
  <2>2. ASSUME NEW f \in Files, staging' = [staging EXCEPT ![s] =
                                        [staging[s] EXCEPT !.tree[f] = w[f]]]
        PROVE  SameAs(staging'[s].tree, w)
    <3> DEFINE t == [staging[s].tree EXCEPT ![f] = w[f]]
               g == [staging[s] EXCEPT !.tree = t]
    <3>1. \A h \in Files : t[h] = IF h = f THEN w[f] ELSE staging[s].tree[h]
      BY <1>2 DEF Staging, Tree
    <3>2. SameAs(t, w)
      <4> HIDE DEF t
      <4> QED
        BY <1>4, <3>1 DEF SameAs
    <3>3. g.tree = t
      BY <1>2 DEF Staging
    <3>4. staging' = [staging EXCEPT ![s] = g]
      BY <2>2
    <3> HIDE DEF g, t
    <3>5. staging'[s] = g
      BY <1>2, <3>4 DEF TypeOK, TreesOK
    <3> QED
      BY <3>2, <3>3, <3>5
  <2>3. job[r].hand \subseteq Files
    BY <1>1 DEF Job
  <2>4. Remade(r) = staging[s]
    BY <1>2 DEF Remade
  <2>5. UNCHANGED staging \/ \E f \in Files :
            staging' = [staging EXCEPT ![s] = [staging[s] EXCEPT !.tree[f] = w[f]]]
    BY <1>6, <2>3, <2>4 DEF CopyTask
  <2> QED
    BY <1>3, <1>4, <2>1, <2>2, <2>5
<1>7. CASE FinishPool(r)
  <2>1. CASE Goto(r, "git") /\ UNCHANGED job
    <3>1. pc'[r] = "git" /\ staging' = staging
      BY <1>7, <2>1 DEF FinishPool, Goto, TypeOK, ImportsOK, treeVars
    <3> QED
      BY <1>3, <1>4, <2>1, <3>1
  <2> QED
    BY <1>7, <2>1, FailElsewhere, FailedCopy DEF FinishPool
<1> QED
  BY <1>5, <1>6, <1>7

LEMMA OwnTrees ==
    ASSUME TypeOK, NEW p \in Projects, NEW s \in Stamps, NEW t, NEW g,
           target' = [target EXCEPT ![p] = t], staging' = [staging EXCEPT ![s] = g]
    PROVE  target'[p] = t /\ staging'[s] = g
  BY DEF TypeOK, TreesOK

LEMMA PublishKeeps ==
    ASSUME TypeOK, NEW r \in Imports, ImportOK(r), CopyOK(r), Frozen(r),
           ConfigureGit(r) \/ ReadStaging(r) \/ PublishEntry(r)
    PROVE  CopyOK(r)'
<1> DEFINE p == job[r].project
           s == job[r].stamp
           w == src[job[r].key]
<1>1. /\ pc[r] \in {"git", "read", "publish"} /\ Runs(r) /\ HasStaging(r)
      /\ job[r] \in Job /\ ~job[r].done /\ src' = src /\ p \in Projects
      /\ job[r].plan = Present(w) /\ SameAs(StagingTree(r), w)
  BY RunsTyped DEF ConfigureGit, ReadStaging, PublishEntry, Runs, HasStaging, StagedSteps,
                   ImportOK, JobOK, CopyOK, CopySteps, treeVars
<1>2. /\ s \in Stamps /\ staging[s] \in Staging /\ staging[s].tree \in Tree
      /\ target[p] \in Tree /\ SameAs(staging[s].tree, w)
  BY <1>1, RunsTyped, StagingTyped DEF ImportOK, StagingTree
<1>3. ASSUME pc'[r] \in {"read", "publish"}, job'[r].key = job[r].key,
             job'[r].done = job[r].done, job'[r].stamp = s, job'[r].plan = job[r].plan,
             job'[r].project = p, SameAs(staging'[s].tree, w),
             pc'[r] = "publish" => SameAs(target'[p], w)
      PROVE  CopyOK(r)'
  <2>1. SameAs(StagingTree(r)', w)
    BY <1>3 DEF StagingTree
  <2> QED
    BY <1>1, <1>3, <2>1, CopyGoesOn DEF CopySteps
<1>4. CASE ConfigureGit(r)
  <2>1. CASE Goto(r, "read") /\ UNCHANGED job
    <3>1. pc'[r] = "read" /\ staging' = staging
      BY <1>4, <2>1 DEF ConfigureGit, Goto, TypeOK, ImportsOK, treeVars
    <3> QED
      BY <1>2, <1>3, <2>1, <3>1
  <2> QED
    BY <1>4, <2>1, FailElsewhere, FailedCopy DEF ConfigureGit
<1>5. CASE ReadStaging(r)
  <2>1. ASSUME NEW l, job' = [job EXCEPT ![r].list = l], Goto(r, "publish")
        PROVE  CopyOK(r)'
    <3>1. /\ pc'[r] = "publish" /\ job'[r].key = job[r].key /\ job'[r].done = job[r].done
          /\ job'[r].stamp = s /\ job'[r].plan = job[r].plan /\ job'[r].project = p
          /\ UNCHANGED <<staging, target>>
      BY <1>1, <1>5, <2>1 DEF ReadStaging, Goto, TypeOK, ImportsOK, Job, treeVars
    <3>2. Present(target[p]) = {}
      BY <1>5 DEF ReadStaging, ImportOK, FilesOK
    <3>3. SameAs(target[p], w)
      BY <3>2 DEF Present, SameAs
    <3> QED
      BY <1>2, <1>3, <3>1, <3>3
  <2> QED
    BY <1>5, <2>1, FailElsewhere, FailedCopy DEF ReadStaging
<1>6. CASE PublishEntry(r)
  <2>1. SameAs(target[p], w)
    BY <1>6 DEF PublishEntry, CopyOK
  <2>2. ASSUME NEW e, Rename(r, e)
        PROVE  CopyOK(r)'
    <3> DEFINE moved == [f \in Files |-> IF f \in FilesOf(e) THEN staging[s].tree[f]
                                                             ELSE target[p][f]]
               left == Without(staging[s].tree, FilesOf(e))
               g == [staging[s] EXCEPT !.tree = left]
    <3>1. target' = [target EXCEPT ![p] = moved] /\ staging' = [staging EXCEPT ![s] = g]
      BY <2>2 DEF Rename
    <3>2. g.tree = left
      BY <1>2 DEF Staging
    <3>3. SameAs(moved, w) /\ SameAs(left, w)
      BY <1>2, <2>1 DEF SameAs, Without
    <3> HIDE DEF moved, left, g
    <3>4. target'[p] = moved /\ staging'[s] = g
      BY <1>1, <1>2, <3>1, OwnTrees
    <3>5. /\ pc'[r] = "publish" /\ job'[r].key = job[r].key /\ job'[r].done = job[r].done
          /\ job'[r].stamp = s /\ job'[r].plan = job[r].plan /\ job'[r].project = p
      BY <1>1, <1>6, <2>2 DEF PublishEntry, Rename, TypeOK, ImportsOK, Job
    <3> QED
      BY <1>3, <3>2, <3>3, <3>4, <3>5
  <2> QED
    BY <1>6, <2>2, FailElsewhere, FailedCopy DEF PublishEntry
<1> QED
  BY <1>4, <1>5, <1>6

LEMMA AnswerKeeps ==
    ASSUME TypeOK, NEW r \in Imports, ImportOK(r), CopyOK(r), Frozen(r), RemoveStagingRoot(r)
    PROVE  CopyOK(r)'
<1> DEFINE p == job[r].project
           s == job[r].stamp
           w == src[job[r].key]
<1>1. /\ pc[r] = "publish" /\ Runs(r) /\ job[r] \in Job /\ UNCHANGED <<src, target>>
      /\ target[p] \in Tree /\ w \in Tree
      /\ job[r].plan = Present(w) /\ SameAs(target[p], w)
  BY RunsTyped DEF RemoveStagingRoot, Runs, CopyOK, CopySteps
<1>2. CASE /\ staging[s].tree = Empty
           /\ job' = [job EXCEPT ![r].stamp = None, ![r].done = TRUE]
           /\ Goto(r, "idle")
  <2>1. /\ pc'[r] = "idle" /\ job'[r].project = p /\ job'[r].key = job[r].key
    BY <1>1, <1>2 DEF Goto, TypeOK, ImportsOK, Job
  <2>2. Present(target[p]) \cup Present(StagingTree(r)) = Present(w)
    BY <1>1 DEF ImportOK, FilesOK
  <2>3. Present(StagingTree(r)) = {}
    BY <1>2 DEF Present, StagingTree, Empty
  <2>4. Present(target[p]) = Present(w)
    BY <2>2, <2>3
  <2>5. \A f \in Files : target[p][f] = w[f]
    BY <1>1, <2>4 DEF Present, SameAs
  <2>6. target[p] = w
    BY <1>1, <2>5 DEF Tree
  <2> QED
    BY <1>1, <2>1, <2>6 DEF CopyOK, CopySteps
<1> QED
  BY <1>2, FailElsewhere, FailedCopy DEF RemoveStagingRoot, Staged

(* All imports, and every step.                                             *)

AllCopyOK == \A r \in Imports : CopyOK(r)

SnapshotInv == QuietInForce /\ SeenGiven /\ AllCopyOK

LEMMA SameCopy ==
    ASSUME TypeOK, LeaseInv, QuietInForce, SeenGiven, [Next]_vars, NEW o \in Imports,
           CopyOK(o), pc'[o] = pc[o], job'[o] = job[o],
           target'[job[o].project] = target[job[o].project],
           HasStaging(o) => staging'[job[o].stamp] = staging[job[o].stamp],
           Done(o)' => Done(o)
    PROVE  CopyOK(o)'
<1> SUFFICES ASSUME Frozen(o)'
             PROVE  CopyOK(o)'
  BY DEF CopyOK
<1> DEFINE w == src[job[o].key]
<1>1. job[o] # None
  BY DEF Frozen
<1>2. Frozen(o) /\ src'[job[o].key] = w
  BY <1>1, FrozenBefore
<1>3. pc[o] \in CopySteps => HasStaging(o)
  BY DEF CopySteps, HasStaging, StagedSteps
<1>4. HasStaging(o) => StagingTree(o)' = StagingTree(o)
  BY DEF StagingTree
<1>5. pc'[o] \in CopySteps => /\ job'[o].plan = Present(src'[job'[o].key])
                              /\ SameAs(StagingTree(o)', src'[job'[o].key])
  BY <1>2, <1>3, <1>4 DEF CopyOK
<1>6. pc'[o] = "publish" => SameAs(target'[job'[o].project], src'[job'[o].key])
  BY <1>2 DEF CopyOK
<1>7. Done(o)' => target'[job'[o].project] = src'[job'[o].key]
  BY <1>2 DEF CopyOK
<1> QED
  BY <1>5, <1>6, <1>7 DEF CopyOK, Present, SameAs

LEMMA ImportingCopy ==
    ASSUME TypeOK, LeaseInv, Serial, AllOK, SnapshotInv, TypeOK', [Next]_vars,
           NEW r \in Imports, Importing(r), NEW o \in Imports
    PROVE  CopyOK(o)'
<1>1. ImportOK(r) /\ JobOK(r) /\ CopyOK(r) /\ ImportOK(o) /\ CopyOK(o)
  BY DEF AllOK, ImportOK, SnapshotInv, AllCopyOK
<1>2. Within(r) /\ Runs(r)
  BY <1>1, ImportWithin
<1>3. CASE o = r
  <2> SUFFICES ASSUME Frozen(r)'
               PROVE  CopyOK(r)'
    BY <1>3 DEF CopyOK
  <2>1. Frozen(r)
    BY ImportingLease, FrozenBefore DEF Frozen, SameLease, SnapshotInv
  <2> QED
    BY <1>1, <2>1, EarlyCopy, PlanCopyKeeps, PoolKeeps, PublishKeeps, AnswerKeeps DEF Importing
<1>4. CASE o # r
  <2>1. pc'[o] = pc[o] /\ job'[o] = job[o] /\ latest' = latest
    BY <1>2, <1>4 DEF Within, Elsewhere
  <2>2. CASE Runs(o) \/ Done(o)
    <3>1. job[o].project \in Projects /\ job[o].project # job[r].project
      BY <1>1, <1>2, <1>4, <2>2, OtherApart DEF Runs, Done, TypeOK, ImportsOK, Job
    <3>2. /\ target'[job[o].project] = target[job[o].project]
          /\ \A s \in Stamps : staging[s] # None /\ staging[s].project = job[o].project
                 => staging'[s] = staging[s]
      BY <1>2, <3>1, OtherProject DEF Within
    <3>3. HasStaging(o) => Runs(o)
      BY DEF HasStaging, StagedSteps, Runs
    <3>4. HasStaging(o) => staging'[job[o].stamp] = staging[job[o].stamp]
      BY <1>1, <3>2, <3>3, StagingTyped DEF ImportOK
    <3> QED
      BY <1>1, <2>1, <3>2, <3>4, SameCopy DEF SnapshotInv, Done
  <2>3. CASE ~Runs(o) /\ ~Done(o)
    BY <2>1, <2>3 DEF CopyOK, CopySteps, Runs, Done
  <2> QED
    BY <2>2, <2>3
<1> QED
  BY <1>3, <1>4

LEMMA StartCopy ==
    ASSUME TypeOK, LeaseInv, SnapshotInv, [Next]_vars,
           NEW r \in Imports, NEW k \in Keys, NEW p \in Projects, StartImport(r, k, p),
           NEW o \in Imports
    PROVE  CopyOK(o)'
<1>1. UNCHANGED <<target, staging>> /\ CopyOK(o)
  BY DEF StartImport, treeVars, SnapshotInv, AllCopyOK
<1>2. CASE UNCHANGED <<pc, job, latest>>
  BY <1>1, <1>2, SameCopy DEF SnapshotInv, Done
<1>3. CASE /\ job' = [job EXCEPT ![r] = NewJob(k, p)]
           /\ Goto(r, "list")
           /\ latest' = [latest EXCEPT ![p] = r]
  <2>1. CASE o = r
    <3>1. pc'[o] = "list" /\ ~job'[o].done
      BY <1>3, <2>1 DEF Goto, NewJob, TypeOK, ImportsOK
    <3> QED
      BY <3>1, VacuousCopy DEF CopySteps
  <2>2. CASE o # r
    <3>1. pc'[o] = pc[o] /\ job'[o] = job[o]
      BY <1>3, <2>2 DEF Goto, TypeOK, ImportsOK
    <3>2. Done(o)' => Done(o)
      <4>1. job[o] # None => job[o].project \in Projects
        BY DEF TypeOK, ImportsOK, Job
      <4> QED
        BY <1>3, <2>2, <3>1, <4>1 DEF Done, TypeOK
    <3> QED
      BY <1>1, <3>1, <3>2, SameCopy DEF SnapshotInv
  <2> QED
    BY <2>1, <2>2
<1> QED
  BY <1>2, <1>3 DEF StartImport, importVars

LEMMA SnapshotNext ==
    ASSUME TypeOK, TypeOK', LeaseInv, Serial, AllOK, SnapshotInv, [Next]_vars
    PROVE  SnapshotInv'
<1>1. QuietInForce' /\ SeenGiven'
  BY QuietKept, SeenNext DEF SnapshotInv
<1> SUFFICES ASSUME NEW o \in Imports
             PROVE  CopyOK(o)'
  BY <1>1 DEF SnapshotInv, AllCopyOK
<1>2. CopyOK(o)
  BY DEF SnapshotInv, AllCopyOK
<1>3. CASE Leasing \/ Mutating \/ UNCHANGED vars
  <2>1. UNCHANGED <<pc, job, latest, target, staging>>
    BY <1>3 DEF Leasing, Mutating, vars, Acquire, Release, RunOut, Status, Admit, Mutate,
                FinishMutation, importVars, treeVars
  <2> QED
    BY <1>2, <2>1, SameCopy DEF SnapshotInv, Done
<1>4. CASE \E r \in Imports, k \in Keys, p \in Projects : StartImport(r, k, p)
  BY <1>4, StartCopy
<1>5. CASE \E r \in Imports : Importing(r)
  BY <1>5, ImportingCopy
<1>6. CASE Crash
  <2>1. \A k \in Keys : lease'[k] = NoLease
    BY <1>6 DEF Crash
  <2>2. job'[o] = None \/ ~Frozen(o)'
    BY <2>1 DEF Frozen, InForce, TypeOK, ImportsOK, Job
  <2> QED
    BY <2>2 DEF CopyOK, Frozen
<1> QED
  BY <1>3, <1>4, <1>5, <1>6 DEF Next

LEMMA InitSnapshot == Init => SnapshotInv
  BY DEF Init, SnapshotInv, QuietInForce, InForce, SeenGiven, AllCopyOK, CopyOK, Frozen

(* As long as no two imports of a project run at the same time, and while   *)
(* the lease that an import found, taken with no mutation under way, is     *)
(* still in force, the project is the workspace file by file: no exec, file *)
(* route or purge changes the workspace between two of the copies that the  *)
(* workers make (rejectLockedLegacyWorkspaceMutation,                       *)
(* copyLegacyImportTasks).                                                  *)
THEOREM ImportIsSnapshot == Spec /\ []Serial => []Snapshot
<1>1. ASSUME SnapshotInv
      PROVE  Snapshot
  BY <1>1 DEF SnapshotInv, AllCopyOK, CopyOK, Frozen, InForce, Snapshot, Done
<1>2. Init => LeaseInv
  BY DEF Init, LeaseInv, LeaseHonoured, GivenOnce, HeldIsGiven, DueIsOver
<1> QED
  BY <1>1, <1>2, InitOK, NextOK, NextInv, InitSnapshot, SnapshotNext, TypeCorrect, PTL DEF Spec
=============================================================================
