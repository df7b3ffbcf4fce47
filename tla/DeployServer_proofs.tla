------------------------ MODULE DeployServer_proofs -------------------------
(***************************************************************************)
(* Proofs about DeployServer, for any set of deployments and any callers.  *)
(***************************************************************************)
EXTENDS DeployServer, FiniteSetTheorems, TLAPS

-----------------------------------------------------------------------------
(* Facts about the operators.                                              *)

\* A directory name is a name.
LEMMA DirOfIsName ==
    ASSUME ids \in [Deployments -> Nat], NEW d \in Deployments
    PROVE  DirOf(d) \in Names
  <1>1. Project(d) \in Names
    BY NamesAssumption, PlanAssumption DEF PlanType, Project
  <1>2. ids[d] \in Tokens \cup Nat
    OBVIOUS
  <1> QED
    BY <1>1, <1>2 DEF DirOf, DeployDir, DeployName, Names

DiskOK ==
    /\ DOMAIN disk \subseteq Names \X Paths
    /\ disk \in [DOMAIN disk -> Contents \cup {Torn}]

\* Writing a file keeps disk a map from files to contents.
LEMMA WrittenType ==
    ASSUME DiskOK, NEW k \in Names \X Paths, NEW c \in Contents \cup {Torn},
           disk' = Written(k, c)
    PROVE  DiskOK'
  BY DEF Written, DiskOK

\* And so does removing one.
LEMMA RemovedType ==
    ASSUME DiskOK, NEW k, disk' = Removed(k)
    PROVE  DiskOK'
  BY DEF Removed, Restrict, DiskOK

\* The cleanup leaves a manifest or none for each deployment.
LEMMA TrimmedType ==
    ASSUME manifest \in [Deployments -> {NoManifest} \cup SUBSET Paths], NEW S
    PROVE  TrimmedManifests(S) \in [Deployments -> {NoManifest} \cup SUBSET Paths]
  BY DEF TrimmedManifests

\* The paths a manifest lists.
LEMMA ListedType ==
    ASSUME manifest \in [Deployments -> {NoManifest} \cup SUBSET Paths],
           NEW d \in Deployments
    PROVE  Listed(d) \subseteq Paths
  BY DEF Listed

\* A job that has looked at one more file is a job.
LEMMA InspectedType ==
    ASSUME job \in [Deployments -> JobType], NEW d \in Deployments, NEW p \in Paths
    PROVE  Inspected(d, p) \in JobType
  BY DEF Inspected, JobType

\* What a plan ships, and for whom.
LEMMA FilesType ==
    ASSUME NEW d \in Deployments
    PROVE  Files(d) \subseteq Paths /\ Project(d) \in Projects
  BY PlanAssumption DEF PlanType, Files, Project

-----------------------------------------------------------------------------
(* Type correctness.                                                       *)

\* Types hold at the start,
THEOREM TypeInit == Init => TypeOK
  BY BoundsAssumption DEF Init, TypeOK, Idle, JobType, UploadSteps, Created, Names

\* and every step keeps them.
THEOREM TypeStep == TypeOK /\ [Next]_vars => TypeOK'
  <1> SUFFICES ASSUME TypeOK, [Next]_vars PROVE TypeOK'
    OBVIOUS
  <1> USE DEF TypeOK
  <1>1. ASSUME NEW p \in Projects, CreateProject(p) PROVE TypeOK'
    BY <1>1 DEF CreateProject, Created
  <1>2. ASSUME NEW d \in Deployments, NEW S \in SUBSET Files(d), CreateDeployment(d, S)
        PROVE TypeOK'
    <2>1. S \subseteq Paths
      BY FilesType
    <2>2. manifest' \in [Deployments -> {NoManifest} \cup SUBSET Paths]
      BY <1>2, <2>1, TrimmedType DEF CreateDeployment
    <2>3. Created \subseteq Created'
      BY <1>2 DEF CreateDeployment, Created
    <2> QED
      BY <1>2, <2>2, <2>3 DEF CreateDeployment, FreshRows
  <1>3. ASSUME NEW d \in Deployments, NEW S \in SUBSET Files(d), AddManifestFiles(d, S)
        PROVE TypeOK'
    <2>1. Listed(d) \cup S \subseteq Paths
      BY FilesType, ListedType
    <2> QED
      BY <1>3, <2>1 DEF AddManifestFiles, dbVars, Created
  <1>4. ASSUME NEW d \in Deployments, CreateRefused(d) PROVE TypeOK'
    BY <1>4, TrimmedType DEF CreateRefused, dbVars, FreshRows, Created
  <1>5. ASSUME NEW d \in Deployments, CrashInCreate(d) PROVE TypeOK'
    BY <1>5, TrimmedType, BoundsAssumption
       DEF CrashInCreate, ServerDies, FreshRows, Created, Idle, JobType, UploadSteps
  <1>6. ASSUME NEW d \in Deployments, NeedBegin(d) PROVE TypeOK'
    BY <1>6, ListedType DEF NeedBegin, dbVars, JobType, Created
  <1>7. ASSUME NEW d \in Deployments, NEW p \in Paths, NeedFile(d, p) PROVE TypeOK'
    <2>1. job' \in [Deployments -> JobType]
      BY <1>7, InspectedType DEF NeedFile
    <2>2. needed' \subseteq Deployments \X Paths
      BY <1>7 DEF NeedFile
    <2> QED
      BY <1>7, <2>1, <2>2 DEF NeedFile, dbVars, Created
  <1>8. ASSUME NEW d \in Deployments, NeedEnd(d) PROVE TypeOK'
    BY <1>8 DEF NeedEnd, dbVars, JobType, Idle, Created
  <1>9. ASSUME NEW d \in Deployments, NEW p \in Paths, UploadStep(d, p) PROVE TypeOK'
    <2>1. At(d, p) \in Names \X Paths
      BY DirOfIsName DEF At
    <2>2. CASE UploadFind(d, p)
      BY <2>2 DEF UploadFind, dbVars, UploadSteps, Created
    <2>3. CASE UploadOpen(d, p)
      <3>1. DiskOK'
        BY <2>1, <2>3, WrittenType DEF UploadOpen, DiskOK
      <3> QED
        BY <2>3, <3>1 DEF UploadOpen, DiskOK, dbVars, UploadSteps, Created
    <2>4. ASSUME NEW c \in Contents, UploadWrite(d, p, c) PROVE TypeOK'
      <3>1. DiskOK'
        BY <2>1, <2>4, WrittenType DEF UploadWrite, DiskOK
      <3> QED
        BY <2>4, <3>1 DEF UploadWrite, DiskOK, dbVars, UploadSteps, Created
    <2>5. CASE UploadFails(d, p)
      BY <2>5 DEF UploadFails, dbVars, UploadSteps, Created
    <2>6. CASE UploadRecord(d, p)
      BY <2>6 DEF UploadRecord, dbVars, UploadSteps, Created
    <2> QED
      BY <1>9, <2>2, <2>3, <2>4, <2>5, <2>6 DEF UploadStep
  <1>10. ASSUME NEW d \in Deployments, FinishRead(d) PROVE TypeOK'
    <2>1. Plan[d].prunable \subseteq Paths
      BY PlanAssumption DEF PlanType
    <2>2. PICK stale \in SUBSET Plan[d].prunable :
             job' = [job EXCEPT ![d] =
                       [op |-> "finish", todo |-> Leftovers(d, stale), bad |-> {}]]
      BY <1>10 DEF FinishRead
    <2>3. Leftovers(d, stale) \subseteq Paths
      BY <2>1 DEF Leftovers
    <2>4. job' \in [Deployments -> JobType]
      BY <2>2, <2>3 DEF JobType
    <2> QED
      BY <1>10, <2>4 DEF FinishRead, dbVars, Created
  <1>11. ASSUME NEW d \in Deployments, NEW p \in Paths, FinishDelete(d, p) PROVE TypeOK'
    <2>1. job' \in [Deployments -> JobType]
      BY <1>11, ZenonT(60) DEF FinishDelete, JobType
    <2>2. DiskOK'
      BY <1>11, RemovedType DEF FinishDelete, DiskOK
    <2> QED
      BY <1>11, <2>1, <2>2 DEF FinishDelete, DiskOK, dbVars, Created
  <1>12. ASSUME NEW d \in Deployments, FinishEnd(d) PROVE TypeOK'
    BY <1>12 DEF FinishEnd, dbVars, JobType, Idle, Created
  <1>13. ASSUME NEW d \in Deployments, VerifyBegin(d) PROVE TypeOK'
    BY <1>13, ListedType DEF VerifyBegin, dbVars, JobType, Created
  <1>14. ASSUME NEW d \in Deployments, NEW p \in Paths, VerifyFile(d, p) PROVE TypeOK'
    BY <1>14, InspectedType DEF VerifyFile, dbVars, Created
  <1>15. ASSUME NEW d \in Deployments, VerifyFailed(d) PROVE TypeOK'
    BY <1>15 DEF VerifyFailed, dbVars, JobType, Idle, Created
  <1>16. ASSUME NEW d \in Deployments, VerifySucceeded(d) PROVE TypeOK'
    BY <1>16, TrimmedType DEF VerifySucceeded, dbVars, JobType, Idle, Created, FreshRows
  <1>17. ASSUME NEW d \in Deployments, Activate(d) PROVE TypeOK'
    BY <1>17, FilesType DEF Activate, Created
  <1>18. CASE HoursPass
    BY <1>18 DEF HoursPass, dbVars, Created
  <1>19. CASE Crash
    BY <1>19, BoundsAssumption DEF Crash, ServerDies, Idle, JobType, UploadSteps, Created
  <1>20. CASE UNCHANGED vars
    BY <1>20 DEF vars, Created
  <1>21. ASSUME NEW d \in Deployments, DeploymentStep(d) PROVE TypeOK'
    BY <1>2, <1>3, <1>4, <1>5, <1>6, <1>7, <1>8, <1>9, <1>10, <1>11, <1>12, <1>13,
       <1>14, <1>15, <1>16, <1>17, <1>21 DEF DeploymentStep
  <1> QED
    BY <1>1, <1>17, <1>18, <1>19, <1>20, <1>21 DEF Next, Rollback

\* The server's state is well-typed, whatever is called in whatever order: in
\* particular every file on disk is in a directory the naming scheme can form.
THEOREM TypeCorrect == Spec => []TypeOK
  BY TypeInit, TypeStep, PTL DEF Spec

-----------------------------------------------------------------------------
(* What a step may do to the rows of deployment and active_deployment.     *)

IdsKept      == ids' = ids /\ stamp' = stamp /\ nextId' \in {nextId, nextId + 1}
PointerMoves == \/ active' = active
                \/ \E d \in Created : active' = [active EXCEPT ![Project(d)] = d]
ManifestsMove ==
    \/ manifest' = manifest
    \/ \E S \in Retained : manifest' = TrimmedManifests(S)
    \/ \E d \in Deployments, m \in SUBSET Paths : manifest' = [manifest EXCEPT ![d] = m]
Creation == \E d \in Deployments : \E S \in SUBSET Files(d) : CreateDeployment(d, S)
RowsMove == IdsKept /\ PointerMoves /\ ManifestsMove

\* A step creates a deployment, or moves the pointer to a created one, extends
\* a manifest or runs the cleanup; it never takes a row's id away.
LEMMA RowsStep ==
    ASSUME TypeOK, [Next]_vars
    PROVE  Creation \/ RowsMove
  <1> USE DEF RowsMove, IdsKept, PointerMoves, ManifestsMove
  <1>1. ASSUME NEW d \in Deployments, NEW S \in SUBSET Files(d), AddManifestFiles(d, S)
        PROVE RowsMove
    <2>1. Listed(d) \cup S \in SUBSET Paths
      BY FilesType, ListedType DEF TypeOK
    <2> QED
      BY <1>1, <2>1 DEF AddManifestFiles, dbVars
  <1>2. ASSUME NEW d \in Deployments,
               CreateRefused(d) \/ CrashInCreate(d) \/ VerifySucceeded(d)
        PROVE RowsMove
    BY <1>2 DEF CreateRefused, CrashInCreate, VerifySucceeded, ServerDies, dbVars
  <1>3. ASSUME NEW d \in Deployments, Activate(d) PROVE RowsMove
    BY <1>3 DEF Activate
  <1>4. ASSUME NEW d \in Deployments, NEW p \in Paths,
               UploadStep(d, p) \/ NeedFile(d, p) \/ FinishDelete(d, p) \/ VerifyFile(d, p)
        PROVE RowsMove
    BY <1>4 DEF UploadStep, UploadFind, UploadOpen, UploadWrite, UploadFails,
                UploadRecord, NeedFile, FinishDelete, VerifyFile, dbVars
  <1>5. ASSUME NEW d \in Deployments,
               \/ NeedBegin(d) \/ NeedEnd(d) \/ FinishRead(d) \/ FinishEnd(d)
               \/ VerifyBegin(d) \/ VerifyFailed(d)
        PROVE RowsMove
    BY <1>5 DEF NeedBegin, NeedEnd, FinishRead, FinishEnd, VerifyBegin, VerifyFailed, dbVars
  <1>6. ASSUME NEW d \in Deployments, DeploymentStep(d) PROVE Creation \/ RowsMove
    BY <1>1, <1>2, <1>3, <1>4, <1>5, <1>6 DEF DeploymentStep, Creation
  <1>7. ASSUME NEW p \in Projects, CreateProject(p) PROVE RowsMove
    BY <1>7 DEF CreateProject
  <1>8. CASE HoursPass \/ Crash \/ UNCHANGED vars
    BY <1>8 DEF HoursPass, Crash, ServerDies, vars, dbVars
  <1> QED
    BY <1>3, <1>6, <1>7, <1>8 DEF Next, Rollback

-----------------------------------------------------------------------------
(* The active pointer.                                                     *)

\* active_deployment only ever names a created deployment of its own project.
ActiveBelongsToProject ==
    \A p \in Projects : active[p] # NoDeployment => active[p] \in OfProject(p)

\* No step makes a pointer name another project's deployment.
LEMMA PointerStep ==
    ASSUME TypeOK, ActiveBelongsToProject, [Next]_vars
    PROVE  ActiveBelongsToProject'
  <1>1. CASE Creation
    BY <1>1 DEF Creation, CreateDeployment, TypeOK, ActiveBelongsToProject, OfProject, Created, Project
  <1>2. CASE RowsMove
    <2>1. CASE active' = active
      BY <1>2, <2>1 DEF RowsMove, IdsKept, ActiveBelongsToProject, OfProject, Created, Project
    <2>2. ASSUME NEW d \in Created, active' = [active EXCEPT ![Project(d)] = d]
          PROVE ActiveBelongsToProject'
      BY <1>2, <2>2 DEF RowsMove, IdsKept, ActiveBelongsToProject, OfProject, Created,
                        Project, TypeOK
    <2> QED
      BY <1>2, <2>1, <2>2 DEF RowsMove, PointerMoves
  <1> QED
    BY <1>1, <1>2, RowsStep

\* Pointers name rows, which are never deleted: the proofs about runs follow them.
LEMMA PointerCorrect == Spec => []ActiveBelongsToProject
  <1>1. Init => ActiveBelongsToProject
    BY DEF Init, ActiveBelongsToProject
  <1>2. TypeOK /\ ActiveBelongsToProject /\ [Next]_vars => ActiveBelongsToProject'
    BY PointerStep
  <1> QED
    BY <1>1, <1>2, TypeCorrect, PTL DEF Spec

-----------------------------------------------------------------------------
(* Directories.                                                            *)

\* Ids are handed out once, in increasing order.
IdsDistinct ==
    /\ \A d \in Deployments : ids[d] < nextId
    /\ \A d, e \in Created : ids[d] = ids[e] => d = e

\* No step hands out an id again.
LEMMA IdsStep ==
    ASSUME TypeOK, IdsDistinct, [Next]_vars
    PROVE  IdsDistinct'
  <1>1. CASE Creation
    BY <1>1 DEF Creation, CreateDeployment, TypeOK, IdsDistinct, Created
  <1>2. CASE RowsMove
    BY <1>2 DEF RowsMove, IdsKept, TypeOK, IdsDistinct, Created
  <1> QED
    BY <1>1, <1>2, RowsStep

\* format!("{}-{}", project, id) can be taken apart again.
LEMMA DeployNameInjective ==
    ASSUME NEW p \in Names, NEW q \in Names, NEW i \in Nat, NEW j \in Nat,
           DeployName(p, i) = DeployName(q, j)
    PROVE  i = j
  <1>1. Len(Append(p, i)) = Len(p) + 1 /\ Len(Append(q, j)) = Len(q) + 1
    BY DEF Names
  <1>2. Append(p, i)[Len(p) + 1] = i /\ Append(q, j)[Len(q) + 1] = j
    BY DEF Names
  <1>3. Len(p) = Len(q)
    BY <1>1 DEF DeployName, Names
  <1> QED
    BY <1>2, <1>3 DEF DeployName

\* Distinct ids make distinct directories.
LEMMA DistinctIdsSeparateDirectories ==
    ASSUME TypeOK, IdsDistinct
    PROVE  DirectoriesAreSeparate
  <1> SUFFICES ASSUME NEW d \in Created, NEW e \in Created, d # e, DirOf(d) = DirOf(e)
               PROVE  /\ Plan[d].inPlace \/ Plan[e].inPlace
                      /\ Plan[d].inPlace /\ Plan[e].inPlace => Project(d) = Project(e)
    BY DEF DirectoriesAreSeparate
  <1>1. /\ Project(d) \in Names /\ Project(e) \in Names
        /\ ids[d] \in Nat /\ ids[e] \in Nat
    BY FilesType, NamesAssumption DEF Created, TypeOK
  <1>2. ids[d] # ids[e]
    BY DEF IdsDistinct
  <1>3. CASE Plan[d].inPlace /\ Plan[e].inPlace
    BY <1>3 DEF DirOf, DeployDir
  <1>4. CASE ~Plan[d].inPlace /\ ~Plan[e].inPlace
    BY <1>1, <1>2, <1>4, DeployNameInjective DEF DirOf, DeployDir
  <1> QED
    BY <1>3, <1>4

\* Two versioned deployments never share a directory, nor do update-in-place ones of
\* two projects: across interrupted creations and restarts, createDeployment never
\* reuses an id.  For any projects, however they are named.
THEOREM DirectoriesCorrect == Spec => []DirectoriesAreSeparate
  <1>1. Init => IdsDistinct
    BY DEF Init, IdsDistinct, Created
  <1>2. TypeOK /\ IdsDistinct /\ [Next]_vars => IdsDistinct'
    BY IdsStep
  <1>3. TypeOK /\ IdsDistinct => DirectoriesAreSeparate
    BY DistinctIdsSeparateDirectories
  <1> QED
    BY <1>1, <1>2, <1>3, TypeCorrect, PTL DEF Spec

\* Only update-in-place deployments of one project share a directory.
OnlyInPlaceShare ==
    \A d, e \in Created : d # e /\ DirOf(d) = DirOf(e) =>
        Plan[d].inPlace /\ Plan[e].inPlace /\ Project(d) = Project(e)

\* That is so where no project is named like a deployment.
LEMMA NoOthersShare ==
    ASSUME TypeOK, DirectoriesAreSeparate, NoProjectNamedLikeADeployment(Projects)
    PROVE  OnlyInPlaceShare
  <1> SUFFICES ASSUME NEW d \in Created, NEW e \in Created, d # e, DirOf(d) = DirOf(e)
               PROVE  Plan[d].inPlace /\ Plan[e].inPlace /\ Project(d) = Project(e)
    BY DEF OnlyInPlaceShare
  <1>1. /\ Project(d) \in Projects /\ Project(e) \in Projects
        /\ ids[d] \in Nat /\ ids[e] \in Nat
    BY FilesType DEF Created, TypeOK
  <1>2. CASE Plan[d].inPlace /\ ~Plan[e].inPlace
    BY <1>1, <1>2 DEF DirOf, DeployDir, NoProjectNamedLikeADeployment
  <1>3. CASE ~Plan[d].inPlace /\ Plan[e].inPlace
    BY <1>1, <1>3 DEF DirOf, DeployDir, NoProjectNamedLikeADeployment
  <1> QED
    BY <1>2, <1>3 DEF DirectoriesAreSeparate

-----------------------------------------------------------------------------
(* The cleanup.                                                            *)

\* The deployments of d's project that sort before or with d.
NoOlder(d) == {e \in OfProject(Project(d)) \ {d} : stamp[e] >= stamp[d]}

\* Sets of deployments are finite.
LEMMA SubsetFinite ==
    ASSUME NEW A, NEW B, A \subseteq B, B \subseteq Deployments
    PROVE  /\ IsFiniteSet(A) /\ IsFiniteSet(B)
           /\ Cardinality(A) \in Nat /\ Cardinality(B) \in Nat
           /\ Cardinality(A) <= Cardinality(B)
  BY FiniteAssumption, FS_Subset, FS_CardinalityType

\* What `order by created_at desc limit Keep` leaves out has Keep deployments
\* that are no older.
LEMMA LeftOutIsOld ==
    ASSUME TypeOK, NEW S \in Retained, NEW d \in Created, d \notin S
    PROVE  Cardinality(NoOlder(d)) >= Keep
  <1> DEFINE N == OfProject(Project(d))  K == S \cap N
  <1>1. IsNewest(K, Project(d)) /\ d \in N
    BY FilesType DEF Retained, OfProject, Created
  <1>2. Cardinality(K) = Keep
    BY <1>1 DEF IsNewest
  <1>3. K \subseteq NoOlder(d)
    BY <1>1 DEF IsNewest, NoOlder
  <1>4. NoOlder(d) \subseteq Deployments
    BY DEF NoOlder, OfProject, Created
  <1> QED
    BY <1>2, <1>3, <1>4, SubsetFinite, BoundsAssumption

\* No step takes a manifest of the newest.
LEMMA RetentionStep ==
    ASSUME TypeOK, NewestKeepTheirManifest, [Next]_vars
    PROVE  NewestKeepTheirManifest'
  <1> SUFFICES ASSUME NEW d \in Created', manifest'[d] = NoManifest
               PROVE  Cardinality(NoOlder(d)') >= Keep
    BY DEF NewestKeepTheirManifest, NoOlder
  <1>1. d \in Created /\ NoOlder(d) \subseteq NoOlder(d)'
    <2>1. CASE Creation
      <3>1. PICK e \in Deployments :
               \E S \in SUBSET Files(e) : CreateDeployment(e, S)
        BY <2>1 DEF Creation
      <3>2. d # e
        BY <3>1, FilesType, NullAssumption, TrimmedType DEF CreateDeployment, TypeOK
      <3> QED
        BY <3>1, <3>2 DEF CreateDeployment, NoOlder, OfProject, Created, Project, TypeOK
    <2>2. CASE RowsMove
      BY <2>2 DEF RowsMove, IdsKept, NoOlder, OfProject, Created, Project
    <2> QED
      BY <2>1, <2>2, RowsStep
  <1>2. Cardinality(NoOlder(d)) >= Keep
    <2>1. CASE manifest[d] = NoManifest
      BY <1>1, <2>1 DEF NewestKeepTheirManifest, NoOlder
    <2>2. CASE manifest[d] # NoManifest
      <3>1. PICK S \in Retained : d \notin S
        <4>1. CASE Creation
          BY <4>1, <2>2, FilesType, NullAssumption
             DEF Creation, CreateDeployment, TrimmedManifests, TypeOK, Created
        <4>2. CASE RowsMove
          BY <4>2, <2>2, NullAssumption
             DEF RowsMove, ManifestsMove, TrimmedManifests, TypeOK, Created
        <4> QED
          BY <4>1, <4>2, RowsStep
      <3> QED
        BY <1>1, <3>1, LeftOutIsOld
    <2> QED
      BY <2>1, <2>2
  <1>3. NoOlder(d) \subseteq Deployments /\ NoOlder(d)' \subseteq Deployments
    BY DEF NoOlder, OfProject, Created
  <1> QED
    BY <1>1, <1>2, <1>3, SubsetFinite, BoundsAssumption

\* However timestamps tie and whenever the cleanup runs, crashes included, a
\* deployment among the newest Keep of its project keeps its manifest.
THEOREM RetentionCorrect == Spec => []NewestKeepTheirManifest
  <1>1. Init => NewestKeepTheirManifest
    BY DEF Init, NewestKeepTheirManifest, Created
  <1>2. TypeOK /\ NewestKeepTheirManifest /\ [Next]_vars => NewestKeepTheirManifest'
    BY RetentionStep
  <1> QED
    BY <1>1, <1>2, TypeCorrect, PTL DEF Spec
=============================================================================
