-------------------------- MODULE DeployRun_proofs --------------------------
(***************************************************************************)
(* Proofs about DeployRun, for any set of runs, plans and batch sizes.     *)
(***************************************************************************)
EXTENDS DeployRun, DeployServer_proofs

-----------------------------------------------------------------------------
(* Runs, one at a time.                                                    *)

\* The steps of one run; RunCrash and the others below are nobody's.
Own(d) ==
    \/ Start(d) \/ Progress(d) \/ GiveUp(d) \/ Unsent(d)
    \/ \E p \in Paths : RunUploadUnsent(d, p)

Nobodys ==
    \/ \E p \in Projects : CreateProject(p) /\ UNCHANGED runVars
    \/ \E d \in Deployments : OperatorRollback(d)
    \/ HoursPass /\ UNCHANGED runVars
    \/ UNCHANGED allVars

\* Where a run has a deployment.
Made == Unverified \cup Released \cup {"previewed"}

\* What a run is up to agrees with what the server does for it, and all files it
\* speaks of are its own.
Orderly(d) ==
    /\ rest[d] \subseteq Files(d) /\ Listed(d) \subseteq Files(d)
    /\ step[d] \in Made => ids[d] # 0
    /\ ids[d] = 0 => manifest[d] = NoManifest
    /\ job[d].op \in {"need", "verify"} =>
          step[d] = job[d].op /\ job[d].todo \cup job[d].bad \subseteq Files(d)
    /\ job[d].op = "finish" => step[d] = "finish"
    /\ \A p \in Paths : uploading[d][p] # "no" => step[d] = "upload" /\ p \in Files(d)

RunsOK ==
    /\ step \in [Deployments -> Steps]
    /\ ok \in [Deployments -> BOOLEAN]
    /\ rest \in [Deployments -> SUBSET Paths]

OrderInv == TypeOK /\ RunsOK /\ \A d \in Deployments : Orderly(d)

\* A run another one passes by: at most it loses its manifest, and rows.
Passed(e) ==
    /\ step'[e] = step[e] /\ ok'[e] = ok[e] /\ rest'[e] = rest[e]
    /\ job'[e] = job[e] /\ uploading'[e] = uploading[e] /\ ids'[e] = ids[e]
    /\ manifest'[e] \in {manifest[e], NoManifest}
    /\ \A p \in Paths : <<e, p>> \in needed' => <<e, p>> \in needed

\* The cleanup leaves a manifest alone or drops it.
LEMMA CleanedUp ==
    ASSUME TypeOK, NEW e \in Deployments, NEW S, NEW m
    PROVE  /\ TrimmedManifests(S)[e] \in {manifest[e], NoManifest}
           /\ \A d \in Deployments \ {e} :
                 [TrimmedManifests(S) EXCEPT ![d] = m][e] \in {manifest[e], NoManifest}
           /\ FreshRows \subseteq needed
  BY DEF TrimmedManifests, FreshRows, TypeOK

\* A run's step passes all the others by.
LEMMA OthersPassed ==
    ASSUME TypeOK, RunsOK, NEW d \in Deployments, Own(d), NEW e \in Deployments, e # d
    PROVE  Passed(e)
  <1> USE DEF RunsOK, TypeOK
  <1>1. CASE Start(d) \/ GiveUp(d) \/ Unsent(d) \/ \E p \in Paths : RunUploadUnsent(d, p)
    BY <1>1 DEF Start, GiveUp, Unsent, RunUploadUnsent, Passed, vars
  <1>2. CASE RunCreate(d)
    <2>1. /\ step'[e] = step[e] /\ ok'[e] = ok[e] /\ rest'[e] = rest[e] /\ ids'[e] = ids[e]
          /\ UNCHANGED <<job, uploading>> /\ needed' = FreshRows
      BY <1>2 DEF RunCreate, CreateDeployment, Advance
    <2>2. PICK S, m : manifest' = [TrimmedManifests(S) EXCEPT ![d] = m]
      BY <1>2 DEF RunCreate, CreateDeployment
    <2> QED
      BY <2>1, <2>2, CleanedUp DEF Passed
  <1>3. CASE RunCreateRefused(d)
    BY <1>3, CleanedUp DEF RunCreateRefused, CreateRefused, Fail, dbVars, Passed
  <1>4. CASE RunBatch(d)
    BY <1>4 DEF RunBatch, AddManifestFiles, Advance, dbVars, Passed
  <1>5. CASE RunNeedBegin(d) \/ RunNeedEnd(d)
    BY <1>5 DEF RunNeedBegin, RunNeedEnd, NeedBegin, NeedEnd, Advance, dbVars, runVars, Passed
  <1>6. CASE RunNeedFile(d)
    BY <1>6 DEF RunNeedFile, NeedFile, dbVars, runVars, Passed
  <1>7. ASSUME NEW p \in Paths, RunUploadFind(d, p) \/ RunUploadOpen(d, p) \/ RunUploadWrite(d, p)
        PROVE  Passed(e)
    BY <1>7 DEF RunUploadFind, RunUploadOpen, RunUploadWrite, UploadFind, UploadOpen, UploadWrite,
                dbVars, runVars, Passed
  <1>8. ASSUME NEW p \in Paths, RunUploadRecord(d, p) \/ RunUploadFails(d, p)
        PROVE  Passed(e)
    BY <1>8 DEF RunUploadRecord, RunUploadFails, UploadRecord, UploadFails, dbVars, runVars, Passed
  <1>9. CASE RunUploadsDone(d) \/ RunHooksEnd(d) \/ RunFinishRefused(d)
    BY <1>9 DEF RunUploadsDone, RunHooksEnd, RunFinishRefused, Advance, Fail, vars, Passed
  <1>10. CASE RunFinishRead(d) \/ RunFinishDelete(d) \/ RunFinishEnd(d)
    BY <1>10 DEF RunFinishRead, RunFinishDelete, RunFinishEnd, FinishRead, FinishDelete, FinishEnd,
                 Advance, dbVars, runVars, Passed
  <1>11. CASE RunVerifyBegin(d) \/ RunVerifyFile(d) \/ RunVerifyFailed(d)
    BY <1>11 DEF RunVerifyBegin, RunVerifyFile, RunVerifyFailed, VerifyBegin, VerifyFile,
                 VerifyFailed, Fail, dbVars, runVars, Passed
  <1>12. CASE RunVerifySucceeded(d)
    BY <1>12, CleanedUp DEF RunVerifySucceeded, VerifySucceeded, Advance, dbVars, Passed
  <1>13. CASE RunActivate(d)
    BY <1>13 DEF RunActivate, Activate, Passed
  <1> QED
    BY <1>1, <1>2, <1>3, <1>4, <1>5, <1>6, <1>7, <1>8, <1>9, <1>10, <1>11, <1>12, <1>13
       DEF Own, Progress

\* Nobody's steps pass everyone by.
LEMMA AllPassed ==
    ASSUME TypeOK, Nobodys, NEW e \in Deployments
    PROVE  Passed(e)
  BY DEF Nobodys, CreateProject, OperatorRollback, Rollback, Activate, HoursPass, runVars, allVars,
         vars, dbVars, Passed

\* Every step is a run's, nobody's or a crash.
LEMMA WhoseStep ==
    ASSUME [RunNext]_allVars
    PROVE  (\E d \in Deployments : Own(d)) \/ Nobodys \/ RunCrash
  BY DEF RunNext, RunAction, Own, Nobodys

\* A run that was passed by stays in order.
LEMMA PassedInOrder ==
    ASSUME NEW e \in Deployments, Orderly(e), Passed(e)
    PROVE  Orderly(e)'
  BY DEF Orderly, Passed, Listed, Files

-----------------------------------------------------------------------------
(* The calls of runs are calls.                                            *)

\* What a run does at the server, some caller does.
LEMMA OwnIsCall ==
    ASSUME OrderInv, NEW d \in Deployments, Own(d)
    PROVE  [Next]_vars
  <1> USE DEF Next, DeploymentStep, UploadStep
  <1>1. Orderly(d) /\ RunsOK
    BY DEF OrderInv
  <1>2. CASE \/ Start(d) \/ GiveUp(d) \/ Unsent(d) \/ RunUploadsDone(d) \/ RunHooksEnd(d)
             \/ RunFinishRefused(d) \/ \E p \in Paths : RunUploadUnsent(d, p)
    BY <1>2 DEF Start, GiveUp, Unsent, RunUploadsDone, RunHooksEnd, RunFinishRefused, RunUploadUnsent
  <1>3. CASE RunCreate(d) \/ RunCreateRefused(d)
    BY <1>3 DEF RunCreate, RunCreateRefused
  <1>4. CASE RunBatch(d)
    <2>1. \E batch \in SUBSET rest[d] : AddManifestFiles(d, batch)
      BY <1>4 DEF RunBatch
    <2> QED
      BY <1>1, <2>1 DEF Orderly
  <1>5. CASE RunNeedBegin(d) \/ RunNeedFile(d) \/ RunNeedEnd(d)
    BY <1>5 DEF RunNeedBegin, RunNeedFile, RunNeedEnd
  <1>6. ASSUME NEW p \in Paths, RunUploadFind(d, p) \/ RunUploadOpen(d, p) \/ RunUploadRecord(d, p)
                                \/ RunUploadFails(d, p)
        PROVE  [Next]_vars
    BY <1>6 DEF RunUploadFind, RunUploadOpen, RunUploadRecord, RunUploadFails
  <1>7. ASSUME NEW p \in Paths, RunUploadWrite(d, p) PROVE [Next]_vars
    <2>1. PICK c \in {Plan[d].files[p]} \cup Edits : UploadWrite(d, p, c)
      BY <1>7 DEF RunUploadWrite
    <2>2. c \in Contents
      <3>1. p \in DOMAIN Plan[d].files
        BY <1>7 DEF RunUploadWrite, Files
      <3>2. Plan[d].files \in UNION {[T -> Contents] : T \in SUBSET Paths}
        BY PlanAssumption DEF PlanType
      <3>3. Plan[d].files[p] \in Contents
        BY <3>1, <3>2
      <3> QED
        BY <3>3, RunAssumption
    <2> QED
      BY <2>1, <2>2
  <1>8. CASE RunFinishRead(d) \/ RunFinishDelete(d) \/ RunFinishEnd(d)
    BY <1>8 DEF RunFinishRead, RunFinishDelete, RunFinishEnd
  <1>9. CASE RunVerifyBegin(d) \/ RunVerifyFile(d) \/ RunVerifyFailed(d) \/ RunVerifySucceeded(d)
    BY <1>9 DEF RunVerifyBegin, RunVerifyFile, RunVerifyFailed, RunVerifySucceeded
  <1>10. CASE RunActivate(d)
    BY <1>10 DEF RunActivate
  <1> QED
    BY <1>2, <1>3, <1>4, <1>5, <1>6, <1>7, <1>8, <1>9, <1>10 DEF Own, Progress

\* So is every step of the runs together.
LEMMA StepIsCall ==
    ASSUME OrderInv, [RunNext]_allVars
    PROVE  [Next]_vars
  <1>1. CASE Nobodys
    <2>1. ASSUME NEW d \in Deployments, OperatorRollback(d) PROVE Next
      BY <2>1, FilesType DEF OperatorRollback, Next
    <2> QED
      BY <1>1, <2>1 DEF Nobodys, Next, allVars, vars
  <1>2. CASE RunCrash
    BY <1>2 DEF RunCrash, Next, DeploymentStep
  <1> QED
    BY <1>1, <1>2, OwnIsCall, WhoseStep

-----------------------------------------------------------------------------
(* Order is kept.                                                          *)

\* A run's own step keeps the types of what the client knows.
LEMMA OwnTyped ==
    ASSUME TypeOK, RunsOK, NEW d \in Deployments, Own(d)
    PROVE  RunsOK'
  <1> USE DEF RunsOK, Steps, Calls, Ended
  <1>1. ASSUME NEW next \in Steps, Advance(d, next) PROVE step' \in [Deployments -> Steps] /\ ok' = ok
    BY <1>1 DEF Advance
  <1>2. Fail(d) => step' \in [Deployments -> Steps] /\ ok' = ok /\ rest' = rest
    BY DEF Fail
  <1>3. CASE Start(d) \/ GiveUp(d) \/ Unsent(d) \/ \E p \in Paths : RunUploadUnsent(d, p)
    BY <1>3 DEF Start, GiveUp, Unsent, RunUploadUnsent
  <1>4. CASE RunCreate(d)
    <2>1. rest' \in [Deployments -> SUBSET Paths]
      BY <1>4, FilesType DEF RunCreate
    <2> QED
      BY <1>1, <1>4, <2>1 DEF RunCreate
  <1>5. CASE RunBatch(d)
    <2>1. PICK batch \in SUBSET rest[d] :
              /\ rest' = [rest EXCEPT ![d] = @ \ batch]
              /\ Advance(d, IF batch = rest[d] THEN AfterManifest(d) ELSE "batch")
      BY <1>5 DEF RunBatch
    <2>2. (IF batch = rest[d] THEN AfterManifest(d) ELSE "batch") \in Steps
      BY DEF AfterManifest
    <2> QED
      BY <1>1, <2>1, <2>2
  <1>6. CASE RunNeedEnd(d)
    <2>1. job[d].bad \in SUBSET Paths
      BY DEF TypeOK, JobType
    <2>2. rest' \in [Deployments -> SUBSET Paths]
      BY <1>6, <2>1 DEF RunNeedEnd
    <2> QED
      BY <1>1, <1>6, <2>2 DEF RunNeedEnd
  <1>7. ASSUME NEW p \in Paths, RunUploadFind(d, p) PROVE RunsOK'
    BY <1>7 DEF RunUploadFind
  <1>8. ASSUME NEW p \in Paths, RunUploadFails(d, p) PROVE RunsOK'
    BY <1>8 DEF RunUploadFails
  <1>9. CASE RunCreateRefused(d) \/ RunFinishRefused(d) \/ RunVerifyFailed(d)
    BY <1>2, <1>9 DEF RunCreateRefused, RunFinishRefused, RunVerifyFailed
  <1>10. CASE RunUploadsDone(d) \/ RunFinishEnd(d) \/ RunVerifySucceeded(d)
    BY <1>1, <1>10 DEF RunUploadsDone, RunFinishEnd, RunVerifySucceeded
  <1>11. CASE RunHooksEnd(d)
    BY <1>1, <1>11 DEF RunHooksEnd
  <1>12. CASE RunActivate(d)
    BY <1>12 DEF RunActivate
  <1>13. CASE UNCHANGED runVars
    BY <1>13 DEF runVars
  <1> QED
    BY <1>3, <1>4, <1>5, <1>6, <1>7, <1>8, <1>9, <1>10, <1>11, <1>12, <1>13
       DEF Own, Progress, RunNeedBegin, RunNeedFile, RunUploadOpen, RunUploadWrite, RunUploadRecord,
           RunFinishRead, RunFinishDelete, RunVerifyBegin, RunVerifyFile

\* With no handler, the server has nothing out of order.
LEMMA IdleInOrder ==
    ASSUME NEW d, job[d] = Idle, \A p \in Paths : uploading[d][p] = "no",
           rest[d] \subseteq Files(d), Listed(d) \subseteq Files(d),
           step[d] \in Made => ids[d] # 0,
           ids[d] = 0 => manifest[d] = NoManifest
    PROVE  Orderly(d)
  BY DEF Orderly, Idle

\* While a run waits for something else, the server has no handler for it.
LEMMA NoHandler ==
    ASSUME TypeOK, NEW d \in Deployments, Orderly(d)
    PROVE  /\ step[d] \notin {"need", "finish", "verify"} => job[d].op = "idle"
           /\ step[d] # "upload" => \A p \in Paths : uploading[d][p] = "no"
  BY DEF Orderly, TypeOK, JobType

\* The paths a manifest lists after a step.
LEMMA ListedAfter ==
    ASSUME NEW d, NEW T, Listed(d) \subseteq T, manifest'[d] \in {manifest[d], NoManifest}
    PROVE  Listed(d)' \subseteq T
  BY DEF Listed

\* A run's own step keeps it in order.
LEMMA OwnInOrder ==
    ASSUME OrderInv, NEW d \in Deployments, Own(d)
    PROVE  Orderly(d)'
  <1>1. TypeOK /\ RunsOK /\ Orderly(d)
    BY DEF OrderInv
  <1>2. /\ step \in [Deployments -> Steps] /\ ok \in [Deployments -> BOOLEAN]
        /\ rest \in [Deployments -> SUBSET Paths] /\ ids \in [Deployments -> Nat]
        /\ manifest \in [Deployments -> {NoManifest} \cup SUBSET Paths]
        /\ job \in [Deployments -> JobType] /\ nextId \in Nat \ {0}
        /\ uploading \in [Deployments -> [Paths -> UploadSteps]]
    BY <1>1 DEF TypeOK, RunsOK
  <1>3. ASSUME NEW next, Advance(d, next) PROVE step'[d] \in {next, "failed"}
    BY <1>2, <1>3 DEF Advance
  <1>4. Fail(d) => step'[d] = "failed" /\ rest' = rest
    BY <1>2 DEF Fail
  <1>5. CASE Start(d) \/ GiveUp(d) \/ Unsent(d) \/ \E p \in Paths : RunUploadUnsent(d, p)
    <2>1. UNCHANGED <<ids, manifest, job, uploading>> /\ rest'[d] \subseteq rest[d]
      BY <1>2, <1>5 DEF Start, GiveUp, Unsent, RunUploadUnsent, vars
    <2>2. CASE Start(d)
      <3>1. step[d] = "idle" /\ step'[d] = "create"
        BY <1>2, <2>2 DEF Start
      <3> QED
        BY <1>1, <2>1, <3>1 DEF Orderly, Listed, Files, Made, Unverified, Released, Activated
    <2>3. CASE Unsent(d)
      <3>1. step'[d] = "failed" /\ job[d] = Idle /\ step[d] # "upload"
        BY <1>2, <2>3 DEF Unsent
      <3> QED
        BY <1>1, <2>1, <3>1 DEF Orderly, Listed, Files, Made, Unverified, Released, Activated, Idle
    <2>4. CASE step' = step
      BY <1>1, <2>1, <2>4 DEF Orderly, Listed, Files
    <2> QED
      BY <1>5, <2>2, <2>3, <2>4 DEF GiveUp, RunUploadUnsent
  <1>6. CASE RunCreate(d)
    <2>1. /\ step[d] = "create" /\ ids'[d] = nextId /\ nextId # 0
          /\ manifest'[d] = IF Batched(d) THEN {} ELSE Files(d)
          /\ rest'[d] = IF Batched(d) THEN Files(d) ELSE {}
          /\ UNCHANGED <<job, uploading>>
      <3>1. PICK S : manifest' = [TrimmedManifests(S) EXCEPT ![d] = IF Batched(d) THEN {} ELSE Files(d)]
        BY <1>6 DEF RunCreate, CreateDeployment
      <3>2. manifest'[d] = IF Batched(d) THEN {} ELSE Files(d)
        BY <3>1 DEF TrimmedManifests
      <3> QED
        BY <1>2, <1>6, <3>2 DEF RunCreate, CreateDeployment
    <2>2. job[d].op = "idle" /\ \A p \in Paths : uploading[d][p] = "no"
      BY <1>1, <2>1, NoHandler
    <2>3. Listed(d)' \subseteq Files(d)
      BY <2>1 DEF Listed
    <2> QED
      BY <2>1, <2>2, <2>3 DEF Orderly, Files
  <1>7. CASE RunCreateRefused(d)
    <2>1. /\ step[d] = "create" /\ step'[d] = "failed" /\ rest' = rest
          /\ manifest'[d] \in {manifest[d], NoManifest}
          /\ UNCHANGED <<ids, job, uploading>>
      BY <1>1, <1>4, <1>7, CleanedUp DEF RunCreateRefused, CreateRefused, dbVars
    <2>2. job[d].op = "idle" /\ \A p \in Paths : uploading[d][p] = "no"
      BY <1>1, <2>1, NoHandler
    <2>3. Listed(d)' \subseteq Files(d)
      BY <1>1, <2>1, ListedAfter DEF Orderly
    <2> QED
      BY <1>1, <2>1, <2>2, <2>3 DEF Orderly, Files, Made, Unverified, Released, Activated
  <1>8. CASE RunBatch(d)
    <2>1. PICK batch \in SUBSET rest[d] :
              /\ manifest'[d] = Listed(d) \cup batch /\ rest'[d] = rest[d] \ batch
              /\ ids[d] # 0
      BY <1>2, <1>8 DEF RunBatch, AddManifestFiles, Created
    <2>2. step[d] = "batch" /\ UNCHANGED <<ids, job, uploading>>
      BY <1>8 DEF RunBatch, AddManifestFiles, dbVars
    <2>3. job[d].op = "idle" /\ \A p \in Paths : uploading[d][p] = "no"
      BY <1>1, <2>2, NoHandler
    <2>4. Listed(d)' \subseteq Files(d)
      BY <1>1, <2>1 DEF Listed, Orderly
    <2> QED
      BY <1>1, <2>1, <2>2, <2>3, <2>4 DEF Orderly, Files
  <1>9. CASE \/ RunNeedBegin(d) \/ RunNeedFile(d) \/ RunFinishRead(d) \/ RunFinishDelete(d)
             \/ RunVerifyBegin(d) \/ RunVerifyFile(d)
    <2>1. UNCHANGED <<step, rest, ids, manifest, uploading>>
      BY <1>9 DEF RunNeedBegin, RunNeedFile, RunFinishRead, RunFinishDelete, RunVerifyBegin,
                  RunVerifyFile, NeedBegin, NeedFile, FinishRead, FinishDelete, VerifyBegin,
                  VerifyFile, dbVars, runVars
    <2>2. /\ job'[d].op \in {"need", "verify"} =>
                step[d] = job'[d].op /\ job'[d].todo \cup job'[d].bad \subseteq Files(d)
          /\ job'[d].op = "finish" => step[d] = "finish"
      <3>1. CASE RunNeedBegin(d)
        BY <1>1, <1>2, <3>1 DEF RunNeedBegin, NeedBegin, Orderly
      <3>2. CASE RunVerifyBegin(d)
        BY <1>1, <1>2, <3>2 DEF RunVerifyBegin, VerifyBegin, Orderly
      <3>3. CASE RunFinishRead(d)
        BY <1>2, <3>3 DEF RunFinishRead, FinishRead
      <3>4. CASE RunNeedFile(d) \/ RunVerifyFile(d)
        <4>1. PICK p \in job[d].todo : job'[d] = Inspected(d, p) /\ job[d].op \in {"need", "verify"}
          BY <1>2, <3>4 DEF RunNeedFile, RunVerifyFile, NeedFile, VerifyFile
        <4>2. /\ job'[d].op = job[d].op /\ job'[d].todo \subseteq job[d].todo
              /\ job'[d].bad \subseteq job[d].bad \cup {p}
          BY <4>1 DEF Inspected
        <4> QED
          BY <1>1, <4>1, <4>2 DEF Orderly
      <3>5. CASE RunFinishDelete(d)
        <4>1. job[d].op = "finish" /\ job'[d].op = "finish"
          BY <1>2, <3>5 DEF RunFinishDelete, FinishDelete, JobType
        <4> QED
          BY <1>1, <4>1 DEF Orderly
      <3> QED
        BY <1>9, <3>1, <3>2, <3>3, <3>4, <3>5
    <2> QED
      BY <1>1, <2>1, <2>2 DEF Orderly, Listed, Files
  <1>10. CASE RunNeedEnd(d) \/ RunFinishEnd(d)
    <2>1. /\ step'[d] \in {"upload", "verify", "failed"} /\ job'[d] = Idle
          /\ step[d] \in {"need", "finish"}
          /\ UNCHANGED <<ids, manifest, uploading>>
      BY <1>1, <1>2, <1>3, <1>10 DEF RunNeedEnd, RunFinishEnd, NeedEnd, FinishEnd, dbVars, Orderly
    <2>2. rest'[d] \subseteq Files(d)
      BY <1>1, <1>2, <1>10 DEF RunNeedEnd, RunFinishEnd, NeedEnd, Orderly
    <2>3. step[d] \in Made /\ \A p \in Paths : uploading[d][p] = "no"
      BY <1>1, <2>1, NoHandler DEF Made, Unverified
    <2> QED
      BY <1>1, <2>1, <2>2, <2>3 DEF Orderly, Listed, Files, Idle
  <1>11. CASE RunVerifyFailed(d) \/ RunVerifySucceeded(d)
    <2>1. /\ step'[d] \in {"activate", "failed"} /\ job'[d] = Idle /\ rest' = rest
          /\ step[d] = "verify"
          /\ UNCHANGED <<ids, uploading>>
      BY <1>1, <1>2, <1>3, <1>4, <1>11
         DEF RunVerifyFailed, RunVerifySucceeded, VerifyFailed, VerifySucceeded, dbVars, Orderly
    <2>2. manifest'[d] \in {manifest[d], NoManifest}
      BY <1>1, <1>11, CleanedUp
         DEF RunVerifyFailed, RunVerifySucceeded, VerifyFailed, VerifySucceeded
    <2>3. Listed(d)' \subseteq Files(d)
      BY <1>1, <2>2, ListedAfter DEF Orderly
    <2>4. step[d] \in Made /\ \A p \in Paths : uploading[d][p] = "no"
      BY <1>1, <2>1, NoHandler DEF Made, Unverified
    <2> QED
      BY <1>1, <2>1, <2>2, <2>3, <2>4 DEF Orderly, Files, Idle
  <1>12. ASSUME NEW p \in Paths, RunUploadFind(d, p) \/ RunUploadOpen(d, p) \/ RunUploadWrite(d, p)
                                \/ RunUploadRecord(d, p) \/ RunUploadFails(d, p)
         PROVE  Orderly(d)'
    <2>1. /\ UNCHANGED <<step, ids, manifest, job>> /\ rest'[d] \subseteq rest[d]
          /\ \A q \in Paths \ {p} : uploading'[d][q] = uploading[d][q]
      BY <1>2, <1>12 DEF RunUploadFind, RunUploadOpen, RunUploadWrite, RunUploadRecord, RunUploadFails,
           UploadFind, UploadOpen, UploadWrite, UploadRecord, UploadFails, dbVars, runVars
    <2>2. step[d] = "upload" /\ p \in Files(d)
      BY <1>1, <1>12 DEF RunUploadFind, RunUploadOpen, RunUploadWrite, RunUploadRecord, RunUploadFails,
           UploadOpen, UploadWrite, UploadRecord, UploadFails, Orderly
    <2> QED
      BY <1>1, <2>1, <2>2 DEF Orderly, Listed, Files
  <1>13. CASE RunUploadsDone(d) \/ RunFinishRefused(d) \/ RunHooksEnd(d) \/ RunActivate(d)
    <2>1. /\ UNCHANGED <<ids, manifest, job, uploading>> /\ rest' = rest
          /\ step[d] \in {"upload", "finish", "hooks", "activate"}
      BY <1>4, <1>13
         DEF RunUploadsDone, RunFinishRefused, RunHooksEnd, RunActivate, Activate, vars
    <2>2. job[d].op = "idle" /\ \A p \in Paths : uploading[d][p] = "no"
      BY <1>1, <1>13, NoHandler
         DEF RunUploadsDone, RunFinishRefused, RunHooksEnd, RunActivate, FinishRefused, HandlersGone, Idle
    <2>3. step[d] \in Made
      BY <2>1 DEF Made, Unverified, Released, Activated
    <2> QED
      BY <1>1, <2>1, <2>2, <2>3 DEF Orderly, Listed, Files
  <1> QED
    BY <1>5, <1>6, <1>7, <1>8, <1>9, <1>10, <1>11, <1>12, <1>13 DEF Own, Progress

\* What a crash does to run e: its handlers go, and its step stays or fails.
Crashed(e) ==
    /\ step'[e] = (IF job[e] = Idle THEN step[e] ELSE "failed") \/ step'[e] = "failed"
    /\ ok'[e] => ok[e] /\ \A p \in Paths : uploading[e][p] = "no"
    /\ rest'[e] = rest[e] /\ ids'[e] = ids[e]
    /\ job'[e] = Idle /\ \A p \in Paths : uploading'[e][p] = "no"
    /\ manifest'[e] \in {manifest[e], NoManifest}
    /\ \A p \in Paths : <<e, p>> \in needed' => <<e, p>> \in needed

\* A crash does so to every run, wherever it cuts.
LEMMA CrashHits ==
    ASSUME TypeOK, RunsOK, RunCrash, NEW e \in Deployments
    PROVE  Crashed(e)
  <1>1. ServerDies /\ \E cut : CrashRuns(cut)
    BY DEF RunCrash, Crash, CrashInCreate
  <1>2. /\ step'[e] = (IF job[e] = Idle THEN step[e] ELSE "failed") \/ step'[e] = "failed"
        /\ ok'[e] => ok[e] /\ \A p \in Paths : uploading[e][p] = "no"
        /\ rest'[e] = rest[e] /\ ids'[e] = ids[e]
        /\ job'[e] = Idle /\ \A p \in Paths : uploading'[e][p] = "no"
    BY <1>1 DEF CrashRuns, ServerDies, RunsOK, HandlersGone
  <1>3. /\ manifest'[e] \in {manifest[e], NoManifest}
        /\ \A p \in Paths : <<e, p>> \in needed' => <<e, p>> \in needed
    BY CleanedUp DEF RunCrash, Crash, CrashInCreate
  <1> QED
    BY <1>2, <1>3 DEF Crashed

\* A crash leaves every run in order.
LEMMA CrashedInOrder ==
    ASSUME NEW e \in Deployments, Orderly(e), Crashed(e)
    PROVE  Orderly(e)'
  <1>1. Listed(e)' \subseteq Files(e)
    BY ListedAfter DEF Orderly, Crashed
  <1> QED
    BY <1>1 DEF Orderly, Crashed, Files, Idle, Made, Unverified, Released, Activated

\* The runs are in order at the start,
LEMMA OrderInit == RunInit => OrderInv
  <1> SUFFICES ASSUME RunInit PROVE OrderInv
    OBVIOUS
  <1>1. TypeOK
    BY TypeInit DEF RunInit
  <1>2. RunsOK
    BY DEF RunInit, RunsOK, Steps
  <1>3. ASSUME NEW d \in Deployments PROVE Orderly(d)
    BY DEF RunInit, Init, Orderly, Listed, Idle, Made, Unverified, Released, Activated
  <1> QED
    BY <1>1, <1>2, <1>3 DEF OrderInv

\* and every step keeps them so.
LEMMA OrderStep == OrderInv /\ [RunNext]_allVars => OrderInv'
  <1> SUFFICES ASSUME OrderInv, [RunNext]_allVars PROVE OrderInv'
    OBVIOUS
  <1>1. TypeOK /\ RunsOK /\ \A d \in Deployments : Orderly(d)
    BY DEF OrderInv
  <1>2. TypeOK'
    BY <1>1, StepIsCall, TypeStep
  <1>3. RunsOK' /\ \A d \in Deployments : Orderly(d)'
    <2>1. ASSUME NEW d \in Deployments, Own(d) PROVE RunsOK' /\ \A e \in Deployments : Orderly(e)'
      BY <1>1, <2>1, OwnTyped, OwnInOrder, OthersPassed, PassedInOrder
    <2>2. CASE Nobodys
      <3>1. RunsOK'
        BY <1>1, <2>2 DEF Nobodys, OperatorRollback, runVars, allVars, RunsOK
      <3> QED
        BY <1>1, <2>2, <3>1, AllPassed, PassedInOrder
    <2>3. CASE RunCrash
      <3>1. RunsOK'
        BY <1>1, <2>3 DEF RunCrash, CrashRuns, RunsOK, Steps, Ended
      <3> QED
        BY <1>1, <2>3, <3>1, CrashHits, CrashedInOrder
    <2> QED
      BY <2>1, <2>2, <2>3, WhoseStep
  <1> QED
    BY <1>2, <1>3 DEF OrderInv

\* The runs' own order: what a run waits for is what the server is doing for it,
\* and nothing it speaks of is another's.
LEMMA OrderCorrect == RunSpec => []OrderInv
  BY OrderInit, OrderStep, PTL DEF RunSpec

\* Every variable keeps its type, the runs' own included.
THEOREM RunTypeCorrect == RunSpec => []RunTypeOK
  <1>1. overtaken \subseteq Deployments /\ [RunNext]_allVars => (overtaken \subseteq Deployments)'
    BY DEF RunNext, Observe, allVars
  <1>2. RunInit => overtaken \subseteq Deployments
    BY DEF RunInit
  <1>3. OrderInv /\ overtaken \subseteq Deployments => RunTypeOK
    BY DEF OrderInv, RunsOK, RunTypeOK
  <1> QED
    BY <1>1, <1>2, <1>3, OrderCorrect, PTL DEF RunSpec

\* `deploy run` is one of the callers DeployServer allows for, so all that is
\* proved of the server under any caller holds under the runs.
THEOREM RunsAreCallers == RunSpec => Spec
  <1>1. RunInit => Init
    BY DEF RunInit
  <1>2. OrderInv /\ [RunNext]_allVars => [Next]_vars
    BY StepIsCall
  <1> QED
    BY <1>1, <1>2, OrderCorrect, PTL DEF RunSpec, Spec

-----------------------------------------------------------------------------
(* Manifests.                                                              *)

\* The manifest of a run that was not overtaken is what it has sent so far.
Whole(d) ==
    d \notin overtaken =>
        /\ step[d] = "batch" => manifest[d] # NoManifest /\ manifest[d] = Files(d) \ rest[d]
        /\ step[d] \in {"need", "upload", "finish", "verify"} => manifest[d] = Files(d)

WholeInv == OrderInv /\ \A d \in Deployments : Whole(d)

\* A whole manifest that someone drops makes its run an overtaken one.
LEMMA DroppedIsOvertaken ==
    ASSUME NEW e \in Deployments, Whole(e), Observe,
           step'[e] \in {step[e], "failed"}, rest'[e] = rest[e],
           manifest'[e] \in {manifest[e], NoManifest}
    PROVE  Whole(e)'
  <1>1. Files(e) # NoManifest
    BY FilesType, NullAssumption
  <1> QED
    BY <1>1 DEF Whole, Observe, Files, Unverified

\* Apart from sending its manifest, a run leaves it be as long as it needs it.
LEMMA OwnKeepsManifest ==
    ASSUME OrderInv, NEW d \in Deployments, Own(d), ~RunCreate(d), ~RunBatch(d)
    PROVE  /\ step'[d] # "batch" \/ (step'[d] = step[d] /\ rest'[d] = rest[d])
           /\ step'[d] \in {"need", "upload", "finish", "verify"} =>
                 step[d] \in {"need", "upload", "finish", "verify"}
           /\ step'[d] \in Unverified => manifest'[d] = manifest[d]
  <1>1. Orderly(d) /\ step \in [Deployments -> Steps] /\ rest \in [Deployments -> SUBSET Paths]
    BY DEF OrderInv, RunsOK
  <1> USE <1>1 DEF Unverified
  <1>2. ASSUME NEW next, Advance(d, next) PROVE step'[d] \in {next, "failed"}
    BY <1>2 DEF Advance
  <1>3. Fail(d) => step'[d] = "failed"
    BY DEF Fail
  <1>4. CASE Start(d) \/ Unsent(d) \/ RunCreateRefused(d) \/ RunVerifyFailed(d) \/ RunFinishRefused(d)
    BY <1>3, <1>4 DEF Start, Unsent, RunCreateRefused, RunVerifyFailed, RunFinishRefused
  <1>5. CASE RunVerifySucceeded(d) \/ RunHooksEnd(d) \/ RunActivate(d)
    BY <1>2, <1>5 DEF RunVerifySucceeded, RunHooksEnd, RunActivate
  <1>6. CASE RunNeedEnd(d) \/ RunFinishEnd(d) \/ RunUploadsDone(d)
    <2>1. step'[d] \in {"upload", "verify", "finish", "failed"} /\ manifest' = manifest
      BY <1>2, <1>6 DEF RunNeedEnd, RunFinishEnd, RunUploadsDone, NeedEnd, FinishEnd, vars
    <2>2. step[d] \in {"need", "finish", "upload"}
      BY <1>6 DEF RunNeedEnd, RunFinishEnd, RunUploadsDone, NeedEnd, FinishEnd, Orderly
    <2> QED
      BY <2>1, <2>2
  <1>7. CASE \/ GiveUp(d) \/ RunNeedBegin(d) \/ RunNeedFile(d) \/ RunFinishRead(d)
             \/ RunFinishDelete(d) \/ RunVerifyBegin(d) \/ RunVerifyFile(d)
    BY <1>7 DEF GiveUp, RunNeedBegin, RunNeedFile, RunFinishRead, RunFinishDelete, RunVerifyBegin,
                RunVerifyFile, NeedBegin, NeedFile, FinishRead, FinishDelete, VerifyBegin, VerifyFile,
                runVars, vars
  <1>8. ASSUME NEW p \in Paths, RunUploadFind(d, p) \/ RunUploadOpen(d, p) \/ RunUploadWrite(d, p)
                                \/ RunUploadRecord(d, p) \/ RunUploadFails(d, p)
                                \/ RunUploadUnsent(d, p)
        PROVE  step' = step /\ manifest' = manifest /\ step[d] = "upload"
    BY <1>8 DEF RunUploadFind, RunUploadOpen, RunUploadWrite, RunUploadRecord, RunUploadFails,
         RunUploadUnsent, UploadFind, UploadOpen, UploadWrite, UploadRecord, UploadFails, runVars,
         vars, Orderly
  <1> QED
    BY <1>4, <1>5, <1>6, <1>7, <1>8 DEF Own, Progress

\* Every step keeps manifests whole, or marks their run as overtaken.
LEMMA WholeStep == WholeInv /\ [RunNext]_allVars => WholeInv'
  <1> SUFFICES ASSUME WholeInv, RunNext PROVE WholeInv'
    BY OrderStep DEF WholeInv, Whole, allVars, vars, Files
  <1>1. OrderInv /\ OrderInv' /\ TypeOK /\ RunsOK /\ Observe
    BY OrderStep DEF WholeInv, OrderInv, RunNext
  <1>2. ASSUME NEW d \in Deployments, Own(d) PROVE Whole(d)'
    <2>1. Whole(d) /\ Orderly(d) /\ (d \notin overtaken' => d \notin overtaken)
      BY <1>1 DEF WholeInv, OrderInv, Observe
    <2>2. CASE RunCreate(d)
      <3>1. PICK S : manifest' = [TrimmedManifests(S) EXCEPT ![d] = IF Batched(d) THEN {} ELSE Files(d)]
        BY <2>2 DEF RunCreate, CreateDeployment
      <3>2. manifest'[d] = IF Batched(d) THEN {} ELSE Files(d)
        BY <3>1 DEF TrimmedManifests
      <3>3. step'[d] \in {IF Batched(d) THEN "batch" ELSE "need", "failed"}
        BY <1>1, <2>2 DEF RunCreate, Advance, RunsOK
      <3>4. rest'[d] = IF Batched(d) THEN Files(d) ELSE {}
        BY <1>1, <2>2 DEF RunCreate, RunsOK
      <3> QED
        BY <3>2, <3>3, <3>4, NullAssumption DEF Whole, Files
    <2>3. CASE RunBatch(d)
      <3>1. PICK batch \in SUBSET rest[d] :
                /\ manifest' = [manifest EXCEPT ![d] = Listed(d) \cup batch]
                /\ rest' = [rest EXCEPT ![d] = @ \ batch]
                /\ Advance(d, IF batch = rest[d] THEN AfterManifest(d) ELSE "batch")
        BY <2>3 DEF RunBatch, AddManifestFiles
      <3>2. step'[d] \in {IF batch = rest[d] THEN AfterManifest(d) ELSE "batch", "failed"}
        BY <1>1, <3>1 DEF Advance, RunsOK
      <3>3. manifest'[d] = Listed(d) \cup batch /\ rest'[d] = rest[d] \ batch
        BY <1>1, <3>1 DEF TypeOK, RunsOK
      <3>4. step[d] = "batch" /\ rest[d] \subseteq Files(d) /\ Files(d) \subseteq Paths
        BY <2>1, <2>3, FilesType DEF RunBatch, Orderly
      <3>5. d \notin overtaken' => manifest'[d] = Files(d) \ rest'[d]
        BY <2>1, <3>3, <3>4 DEF Whole, Listed
      <3>6. Listed(d) \cup batch # NoManifest
        <4>1. Listed(d) \cup batch \in SUBSET Paths
          BY <1>1, <3>4, ListedType DEF TypeOK
        <4> QED
          BY <4>1, NullAssumption
      <3>7. step'[d] # "batch" /\ step'[d] # "failed" /\ step'[d] # "previewed" => rest'[d] = {}
        BY <3>2, <3>3
      <3> QED
        BY <3>3, <3>5, <3>6, <3>7 DEF Whole, Files
    <2>4. CASE ~RunCreate(d) /\ ~RunBatch(d)
      <3>1. /\ step'[d] # "batch" \/ (step'[d] = step[d] /\ rest'[d] = rest[d])
            /\ step'[d] \in {"need", "upload", "finish", "verify"} =>
                  step[d] \in {"need", "upload", "finish", "verify"}
            /\ step'[d] \in Unverified => manifest'[d] = manifest[d]
        BY <1>1, <1>2, <2>4, OwnKeepsManifest
      <3> QED
        BY <2>1, <3>1 DEF Whole, Files, Unverified
    <2> QED
      BY <2>2, <2>3, <2>4
  <1>3. ASSUME NEW e \in Deployments, Passed(e) \/ Crashed(e) PROVE Whole(e)'
    <2>1. Whole(e)
      BY DEF WholeInv
    <2> QED
      BY <1>1, <1>3, <2>1, DroppedIsOvertaken DEF Passed, Crashed
  <1>4. ASSUME NEW e \in Deployments PROVE Whole(e)'
    BY <1>1, <1>2, <1>3, OthersPassed, AllPassed, CrashHits, WhoseStep
  <1> QED
    BY <1>1, <1>4 DEF WholeInv

\* The manifests of runs that were not overtaken are whole throughout.
LEMMA WholeCorrect == RunSpec => []WholeInv
  <1>1. RunInit => WholeInv
    BY OrderInit DEF RunInit, WholeInv, Whole
  <1> QED
    BY <1>1, WholeStep, PTL DEF RunSpec

\* However other runs, the cleanup and crashes interleave with it, a run that was
\* not overtaken needs, uploads, finishes and verifies from its whole manifest.
THEOREM ManifestCorrect == RunSpec => []ManifestIsWholeInFlight
  <1>1. WholeInv => ManifestIsWholeInFlight
    BY DEF WholeInv, Whole, ManifestIsWholeInFlight
  <1> QED
    BY <1>1, WholeCorrect, PTL

-----------------------------------------------------------------------------
(* Needed rows.                                                            *)

\* A row is a file the run is about to learn of, has yet to send, is sending, or
\* has failed to send.
Awaited(d, p) ==
    \/ step[d] = "need" /\ job[d].op = "need" /\ p \in job[d].bad
    \/ step[d] = "upload" /\ (p \in rest[d] \/ uploading[d][p] # "no" \/ ~ok[d])
    \/ step[d] = "failed"

RowsAwaited(d) == \A p \in Paths : <<d, p>> \in needed => Awaited(d, p)

AwaitedInv == OrderInv /\ \A d \in Deployments : RowsAwaited(d)

\* A run's own step leaves it waiting for each of its rows.
LEMMA OwnRowsAwaited ==
    ASSUME OrderInv, NEW d \in Deployments, RowsAwaited(d), Own(d)
    PROVE  RowsAwaited(d)'
  <1>1. TypeOK /\ RunsOK /\ Orderly(d)
    BY DEF OrderInv
  <1>2. /\ step \in [Deployments -> Steps] /\ ok \in [Deployments -> BOOLEAN]
        /\ rest \in [Deployments -> SUBSET Paths] /\ job \in [Deployments -> JobType]
        /\ uploading \in [Deployments -> [Paths -> UploadSteps]]
    BY <1>1 DEF TypeOK, RunsOK
  <1> SUFFICES ASSUME NEW p \in Paths, <<d, p>> \in needed' PROVE Awaited(d, p)'
    BY DEF RowsAwaited
  <1>3. ASSUME NEW next, Advance(d, next) PROVE step'[d] = IF ok[d] THEN next ELSE "failed"
    BY <1>2, <1>3 DEF Advance
  <1>4. Fail(d) => step'[d] = "failed"
    BY <1>2 DEF Fail
  <1>5. CASE \/ RunCreateRefused(d) \/ RunVerifyFailed(d) \/ RunFinishRefused(d) \/ Unsent(d)
    BY <1>2, <1>4, <1>5 DEF RunCreateRefused, RunVerifyFailed, RunFinishRefused, Unsent, Awaited
  <1>6. CASE \/ Start(d) \/ RunCreate(d) \/ RunBatch(d) \/ RunNeedBegin(d) \/ RunFinishEnd(d)
             \/ RunFinishRead(d) \/ RunFinishDelete(d) \/ RunVerifyBegin(d) \/ RunVerifyFile(d)
             \/ RunVerifySucceeded(d) \/ RunActivate(d) \/ RunHooksEnd(d)
    <2>1. needed' \subseteq needed
      BY <1>6, CleanedUp, <1>1
         DEF Start, RunCreate, RunBatch, RunNeedBegin, RunFinishEnd, RunFinishRead, RunFinishDelete,
             RunVerifyBegin, RunVerifyFile, RunVerifySucceeded, RunActivate, RunHooksEnd,
             CreateDeployment, AddManifestFiles, NeedBegin, FinishEnd, FinishRead, FinishDelete,
             VerifyBegin, VerifyFile, VerifySucceeded, Activate, vars
    <2>2. Awaited(d, p)
      BY <2>1 DEF RowsAwaited
    <2>3. step[d] \notin {"upload", "failed"} /\ ~(step[d] = "need" /\ job[d].op = "need")
      BY <1>1, <1>6
         DEF Start, RunCreate, RunBatch, RunNeedBegin, RunFinishEnd, RunFinishRead, RunFinishDelete,
             RunVerifyBegin, RunVerifyFile, RunVerifySucceeded, RunActivate, RunHooksEnd, NeedBegin,
             FinishEnd, FinishDelete, VerifyFile, VerifySucceeded, Orderly, Idle
    <2> QED
      BY <2>2, <2>3 DEF Awaited
  <1>7. CASE GiveUp(d)
    <2>1. UNCHANGED <<step, rest, job, uploading, needed>> /\ (ok'[d] => ok[d])
      BY <1>2, <1>7 DEF GiveUp, vars
    <2> QED
      BY <2>1 DEF RowsAwaited, Awaited
  <1>8. CASE RunNeedFile(d)
    <2>1. PICK q \in job[d].todo :
              /\ job[d].op = "need" /\ job'[d] = Inspected(d, q)
              /\ UNCHANGED <<step, rest, ok>>
              /\ needed' \in {needed, IF Matches(d, q) THEN needed ELSE needed \cup {<<d, q>>}}
      BY <1>2, <1>8 DEF RunNeedFile, NeedFile, runVars
    <2>2. /\ job'[d].op = "need" /\ job[d].bad \subseteq job'[d].bad
          /\ ~Matches(d, q) => q \in job'[d].bad
      BY <2>1 DEF Inspected
    <2>3. step[d] = "need"
      BY <1>1, <2>1 DEF Orderly
    <2>4. CASE <<d, p>> \in needed
      BY <2>1, <2>2, <2>3, <2>4 DEF RowsAwaited, Awaited
    <2>5. CASE <<d, p>> \notin needed
      <3>1. p = q /\ ~Matches(d, q)
        BY <2>1, <2>5
      <3> QED
        BY <2>1, <2>2, <2>3, <3>1 DEF Awaited
    <2> QED
      BY <2>4, <2>5
  <1>9. CASE RunNeedEnd(d)
    <2>1. /\ job[d].op = "need" /\ needed' = needed
          /\ rest'[d] = IF ok[d] THEN job[d].bad ELSE {}
          /\ step'[d] = IF ok[d] THEN "upload" ELSE "failed"
      BY <1>2, <1>3, <1>9 DEF RunNeedEnd, NeedEnd
    <2>2. step[d] = "need"
      BY <1>1, <2>1 DEF Orderly
    <2> QED
      BY <2>1, <2>2 DEF RowsAwaited, Awaited
  <1>10. ASSUME NEW q \in Paths, RunUploadFind(d, q) PROVE Awaited(d, p)'
    <2>1. /\ step[d] = "upload" /\ UNCHANGED <<step, ok, needed>> /\ rest'[d] = rest[d] \ {q}
          /\ uploading'[d] = [uploading[d] EXCEPT ![q] = "found"]
      BY <1>2, <1>10 DEF RunUploadFind, UploadFind
    <2>2. uploading'[d][q] # "no" /\ \A r \in Paths \ {q} : uploading'[d][r] = uploading[d][r]
      BY <1>2, <2>1
    <2>3. Awaited(d, p)
      BY <2>1 DEF RowsAwaited
    <2> QED
      BY <2>1, <2>2, <2>3 DEF Awaited
  <1>11. ASSUME NEW q \in Paths, RunUploadOpen(d, q) \/ RunUploadWrite(d, q)
         PROVE  Awaited(d, p)'
    <2>1. /\ UNCHANGED <<step, ok, rest, needed>> /\ uploading[d][q] # "no"
          /\ uploading'[d][q] # "no" /\ \A r \in Paths \ {q} : uploading'[d][r] = uploading[d][r]
      BY <1>2, <1>11 DEF RunUploadOpen, RunUploadWrite, UploadOpen, UploadWrite, runVars
    <2>2. Awaited(d, p) /\ step[d] = "upload"
      BY <1>1, <2>1 DEF RowsAwaited, Orderly
    <2> QED
      BY <2>1, <2>2 DEF Awaited
  <1>12. ASSUME NEW q \in Paths, RunUploadRecord(d, q) PROVE Awaited(d, p)'
    <2>1. /\ UNCHANGED <<step, ok, rest>> /\ uploading[d][q] # "no" /\ needed' = needed \ {<<d, q>>}
          /\ \A r \in Paths \ {q} : uploading'[d][r] = uploading[d][r]
      BY <1>2, <1>12 DEF RunUploadRecord, UploadRecord, runVars
    <2>2. Awaited(d, p) /\ step[d] = "upload" /\ p # q
      BY <1>1, <2>1 DEF RowsAwaited, Orderly
    <2> QED
      BY <2>1, <2>2 DEF Awaited
  <1>13. ASSUME NEW q \in Paths, RunUploadFails(d, q) \/ RunUploadUnsent(d, q)
         PROVE  Awaited(d, p)'
    <2>1. step' = step /\ needed' = needed /\ ~ok'[d]
      BY <1>2, <1>13 DEF RunUploadFails, RunUploadUnsent, UploadFails, vars
    <2>2. step[d] = "upload"
      BY <1>1, <1>2, <1>13 DEF RunUploadFails, RunUploadUnsent, UploadFails, Orderly
    <2> QED
      BY <2>1, <2>2 DEF Awaited
  <1>14. CASE RunUploadsDone(d)
    <2>1. /\ step[d] = "upload" /\ rest[d] = {} /\ needed' = needed
          /\ \A q \in Paths : uploading[d][q] = "no"
          /\ step'[d] = IF ok[d] THEN "finish" ELSE "failed"
      BY <1>3, <1>14 DEF RunUploadsDone, HandlersGone, vars
    <2> QED
      BY <2>1 DEF RowsAwaited, Awaited
  <1> QED
    BY <1>5, <1>6, <1>7, <1>8, <1>9, <1>10, <1>11, <1>12, <1>13, <1>14 DEF Own, Progress

\* So does every step.
LEMMA AwaitedStep == AwaitedInv /\ [RunNext]_allVars => AwaitedInv'
  <1> SUFFICES ASSUME AwaitedInv, [RunNext]_allVars PROVE AwaitedInv'
    OBVIOUS
  <1>1. OrderInv /\ OrderInv' /\ TypeOK /\ RunsOK
    BY OrderStep DEF AwaitedInv, OrderInv
  <1>2. ASSUME NEW e \in Deployments, Passed(e) PROVE RowsAwaited(e)'
    BY <1>2 DEF AwaitedInv, RowsAwaited, Awaited, Passed
  <1>3. ASSUME NEW e \in Deployments, Crashed(e) PROVE RowsAwaited(e)'
    BY <1>3 DEF AwaitedInv, RowsAwaited, Awaited, Crashed, Idle
  <1>4. ASSUME NEW d \in Deployments, Own(d) PROVE RowsAwaited(d)'
    BY <1>1, <1>4, OwnRowsAwaited DEF AwaitedInv
  <1>5. ASSUME NEW e \in Deployments PROVE RowsAwaited(e)'
    BY <1>1, <1>2, <1>3, <1>4, OthersPassed, AllPassed, CrashHits, WhoseStep
  <1> QED
    BY <1>1, <1>5 DEF AwaitedInv

\* No run gets past its uploads with a row of deployment_needed_file left, so
\* verifyDeployment's refusal is never for a run that sent everything: whatever
\* uploads fail, are given up or are cut short by a crash.
THEOREM RowsAreServed == RunSpec => []NoNeededRowLeftBehind
  <1>1. RunInit => AwaitedInv
    BY OrderInit DEF RunInit, Init, AwaitedInv, RowsAwaited
  <1>2. AwaitedInv => NoNeededRowLeftBehind
    <2> SUFFICES ASSUME AwaitedInv, NEW d \in Deployments, NEW p \in Paths, <<d, p>> \in needed
                 PROVE  step[d] \notin {"finish", "verify"} \cup Released
      BY DEF AwaitedInv, OrderInv, TypeOK, NoNeededRowLeftBehind
    <2> QED
      BY DEF AwaitedInv, RowsAwaited, Awaited, Released, Activated
  <1> QED
    BY <1>1, <1>2, AwaitedStep, PTL DEF RunSpec

-----------------------------------------------------------------------------
(* Turns.                                                                  *)

\* Previews ship nothing, and where operators wait for the server, the shipping
\* runs of a project take turns, the one under way having the latest deployment.
TakesTurns(d, e) ==
    /\ ~(step[d] \in Calls /\ step[e] \in Calls)
    /\ step[d] \in Calls \ {"create"} /\ e \in Created => ids[e] <= ids[d]

ShipsNothing(d) ==
    Plan[d].preview =>
        /\ step[d] \in {"idle", "create", "batch", "previewed", "failed"}
        /\ step[d] = "create" => Batched(d)

TurnInv ==
    /\ \A d \in Deployments : ShipsNothing(d)
    /\ StartRule = "quiet" =>
          \A d, e \in Deployments :
             /\ d # e /\ Project(d) = Project(e)
             /\ ~Plan[d].preview /\ ~Plan[e].preview
             => TakesTurns(d, e)

\* Only its start brings a run to its calls, and only createDeployment past the
\* first.
LEMMA OwnProgress ==
    ASSUME OrderInv, NEW d \in Deployments, Own(d)
    PROVE  /\ Start(d) \/ step[d] \in Calls \/ step' = step
           /\ step'[d] \in Calls \ {"create"} => RunCreate(d) \/ step[d] \in Calls \ {"create"}
           /\ RunCreate(d) \/ ids' = ids
  <1>1. Orderly(d) /\ step \in [Deployments -> Steps] /\ ok \in [Deployments -> BOOLEAN]
    BY DEF OrderInv, RunsOK
  <1> USE DEF Calls
  <1>2. CASE Start(d) \/ GiveUp(d) \/ Unsent(d) \/ RunUploadsDone(d) \/ RunFinishRefused(d)
    BY <1>1, <1>2 DEF Start, GiveUp, Unsent, RunUploadsDone, RunFinishRefused, Fail, vars
  <1>3. CASE RunHooksEnd(d)
    BY <1>1, <1>3 DEF RunHooksEnd, Advance, vars
  <1>4. CASE RunCreate(d) \/ RunCreateRefused(d) \/ RunBatch(d)
    BY <1>1, <1>4 DEF RunCreate, RunCreateRefused, RunBatch, CreateRefused, AddManifestFiles,
                      Fail, dbVars
  <1>5. CASE RunNeedBegin(d) \/ RunNeedFile(d) \/ RunNeedEnd(d)
    BY <1>1, <1>5 DEF RunNeedBegin, RunNeedFile, RunNeedEnd, NeedBegin, NeedFile, NeedEnd,
                      Orderly, runVars, dbVars
  <1>6. ASSUME NEW p \in Paths, \/ RunUploadFind(d, p) \/ RunUploadOpen(d, p)
                                \/ RunUploadWrite(d, p) \/ RunUploadRecord(d, p)
                                \/ RunUploadFails(d, p) \/ RunUploadUnsent(d, p)
        PROVE  step' = step /\ ids' = ids
    BY <1>6 DEF RunUploadFind, RunUploadOpen, RunUploadWrite, RunUploadRecord, RunUploadFails,
                RunUploadUnsent, UploadFind, UploadOpen, UploadWrite, UploadRecord, UploadFails,
                runVars, vars, dbVars
  <1>7. CASE RunFinishRead(d) \/ RunFinishDelete(d) \/ RunFinishEnd(d)
    BY <1>1, <1>7 DEF RunFinishRead, RunFinishDelete, RunFinishEnd, FinishRead, FinishDelete,
                      FinishEnd, Orderly, runVars, dbVars
  <1>8. CASE \/ RunVerifyBegin(d) \/ RunVerifyFile(d) \/ RunVerifyFailed(d)
             \/ RunVerifySucceeded(d) \/ RunActivate(d)
    BY <1>1, <1>8 DEF RunVerifyBegin, RunVerifyFile, RunVerifyFailed, RunVerifySucceeded,
                      RunActivate, VerifyBegin, VerifyFile, VerifyFailed, VerifySucceeded,
                      Activate, Orderly, runVars, dbVars
  <1> QED
    BY <1>2, <1>3, <1>4, <1>5, <1>6, <1>7, <1>8 DEF Own, Progress

\* A preview goes no further than its manifest.
LEMMA OwnShipsNothing ==
    ASSUME OrderInv, NEW d \in Deployments, Own(d), ShipsNothing(d)
    PROVE  ShipsNothing(d)'
  <1> SUFFICES ASSUME Plan[d].preview
               PROVE  /\ step'[d] \in {"idle", "create", "batch", "previewed", "failed"}
                      /\ step'[d] = "create" => Batched(d)
    BY DEF ShipsNothing, Batched, Files
  <1>1. Orderly(d) /\ step \in [Deployments -> Steps] /\ ok \in [Deployments -> BOOLEAN]
    BY DEF OrderInv, RunsOK
  <1>2. /\ step[d] \in {"idle", "create", "batch", "previewed", "failed"}
        /\ step[d] = "create" => Batched(d)
    BY DEF ShipsNothing
  <1>3. \/ Start(d) \/ RunCreate(d) \/ RunCreateRefused(d) \/ RunBatch(d) \/ Unsent(d) \/ GiveUp(d)
    BY <1>1, <1>2 DEF Own, Progress, Orderly, RunHooksEnd,
         RunNeedBegin, RunNeedFile, RunNeedEnd, RunUploadFind, RunUploadOpen, RunUploadWrite,
         RunUploadRecord, RunUploadFails, RunUploadUnsent, RunUploadsDone, RunFinishRead,
         RunFinishDelete, RunFinishEnd, RunFinishRefused, RunVerifyBegin, RunVerifyFile,
         RunVerifyFailed, RunVerifySucceeded, RunActivate, NeedFile, NeedEnd,
         UploadOpen, UploadWrite, UploadRecord, UploadFails, FinishDelete, FinishEnd, VerifyFile,
         VerifyFailed, VerifySucceeded
  <1>4. CASE Start(d) \/ RunCreateRefused(d) \/ Unsent(d) \/ GiveUp(d)
    BY <1>1, <1>2, <1>4 DEF Start, RunCreateRefused, Fail, Unsent, GiveUp
  <1>5. CASE RunCreate(d)
    BY <1>1, <1>2, <1>5 DEF RunCreate, Advance
  <1>6. CASE RunBatch(d)
    <2>1. PICK batch : Advance(d, IF batch = rest[d] THEN AfterManifest(d) ELSE "batch")
      BY <1>6 DEF RunBatch
    <2> QED
      BY <1>1, <2>1 DEF Advance, AfterManifest
  <1> QED
    BY <1>3, <1>4, <1>5, <1>6

\* A run that makes no progress of its own stays where it is or fails.
Stays(d) == step'[d] \in {step[d], "failed"} /\ ids'[d] = ids[d]

\* Every step keeps the turns.
LEMMA TurnStep ==
    ASSUME OrderInv, IdsDistinct, TurnInv, [RunNext]_allVars
    PROVE  TurnInv'
  <1>1. TypeOK /\ RunsOK /\ ids \in [Deployments -> Nat]
    BY DEF OrderInv, TypeOK
  <1>2. ASSUME NEW x \in Deployments, Own(x), NEW d \in Deployments, d # x PROVE Stays(d)
    BY <1>1, <1>2, OthersPassed DEF Passed, Stays
  <1>3. ASSUME NEW d \in Deployments, Nobodys \/ RunCrash PROVE Stays(d)
    BY <1>1, <1>3, AllPassed, CrashHits DEF Passed, Crashed, Stays
  <1>4. ASSUME NEW d \in Deployments PROVE Stays(d) \/ Own(d)
    BY <1>2, <1>3, WhoseStep
  <1>5. ASSUME NEW d \in Deployments PROVE ShipsNothing(d)'
    <2>1. Stays(d) => ShipsNothing(d)'
      BY DEF Stays, TurnInv, ShipsNothing, Batched, Files
    <2> QED
      BY <1>4, <2>1, OwnShipsNothing DEF TurnInv
  <1>6. ASSUME StartRule = "quiet", NEW d \in Deployments, NEW e \in Deployments, d # e,
               Project(d) = Project(e), ~Plan[d].preview, ~Plan[e].preview
        PROVE  TakesTurns(d, e)'
    <2>1. TakesTurns(d, e) /\ TakesTurns(e, d)
      BY <1>6 DEF TurnInv
    <2>2. CASE Stays(d) /\ Stays(e)
      BY <2>1, <2>2 DEF TakesTurns, Stays, Created, Calls
    <2>3. CASE Own(d)
      <3>1. Stays(e)
        BY <1>2, <1>6, <2>3
      <3>2. Start(d) => step[e] \notin Calls
        BY <1>6 DEF Start, MayStart, Calls, Ended
      <3>3. RunCreate(d) => ids'[d] = nextId
        BY <1>1 DEF RunCreate, CreateDeployment
      <3>4. ids[e] <= nextId
        <4>1. ids[e] < nextId /\ ids[e] \in Nat /\ nextId \in Nat
          BY <1>1 DEF IdsDistinct, TypeOK
        <4> QED
          BY <4>1
      <3>5. ~(step'[d] \in Calls /\ step'[e] \in Calls)
        BY <2>1, <2>3, <3>1, <3>2, OwnProgress DEF TakesTurns, Stays, Calls
      <3>6. step'[d] \in Calls \ {"create"} /\ e \in Created' => ids'[e] <= ids'[d]
        <4>1. CASE RunCreate(d)
          BY <3>1, <3>3, <3>4, <4>1 DEF Stays
        <4>2. CASE ~RunCreate(d)
          BY <2>1, <2>3, <3>1, <4>2, OwnProgress DEF TakesTurns, Stays, Created
        <4> QED
          BY <4>1, <4>2
      <3> QED
        BY <3>5, <3>6 DEF TakesTurns, Calls
    <2>4. CASE Own(e)
      <3>1. Stays(d)
        BY <1>2, <1>6, <2>4
      <3>2. Start(e) => step[d] \notin Calls
        BY <1>6 DEF Start, MayStart, Calls, Ended
      <3>3. ~(step'[d] \in Calls /\ step'[e] \in Calls)
        BY <2>1, <2>4, <3>1, <3>2, OwnProgress DEF TakesTurns, Stays, Calls
      <3>4. RunCreate(e) => step[e] \in Calls
        BY DEF RunCreate, Calls
      <3>5. step'[d] \in Calls \ {"create"} /\ e \in Created' => ids'[e] <= ids'[d]
        BY <2>1, <2>4, <3>1, <3>4, OwnProgress DEF TakesTurns, Stays, Created, Calls
      <3> QED
        BY <3>3, <3>5 DEF TakesTurns, Calls
    <2> QED
      BY <1>4, <2>2, <2>3, <2>4
  <1> QED
    BY <1>5, <1>6 DEF TurnInv, Project

\* What keeps a deployment's directory to itself: nobody else has it, or those
\* who do wait for their turn and write to it later.
Separate == IdsDistinct /\ OnlyInPlaceShare /\ TurnInv

Apart(d) ==
    ~Plan[d].inPlace \/ (StartRule = "quiet" /\ ~Plan[d].preview /\ LastWriter(d))

\* Directories are kept apart throughout.
LEMMA RunsAreSeparate ==
    ASSUME NoProjectNamedLikeADeployment(Projects)
    PROVE  RunSpec => []Separate
  <1>1. RunInit => IdsDistinct /\ TurnInv
    BY DEF RunInit, Init, IdsDistinct, Created, TurnInv, ShipsNothing, TakesTurns, Calls
  <1>2. TypeOK /\ IdsDistinct /\ [Next]_vars => IdsDistinct'
    BY IdsStep
  <1>3. OrderInv /\ IdsDistinct /\ TurnInv /\ [RunNext]_allVars => TurnInv'
    BY TurnStep
  <1>4. Spec => []OnlyInPlaceShare
    <2>1. TypeOK /\ DirectoriesAreSeparate => OnlyInPlaceShare
      BY NoOthersShare
    <2> QED
      BY <2>1, TypeCorrect, DirectoriesCorrect, PTL
  <1>5. OrderInv => TypeOK
    BY DEF OrderInv
  <1>6. OrderInv /\ [RunNext]_allVars => [Next]_vars
    BY StepIsCall
  <1> QED
    BY <1>1, <1>2, <1>3, <1>4, <1>5, <1>6, OrderCorrect, RunsAreCallers, PTL DEF RunSpec, Separate

-----------------------------------------------------------------------------
(* Directories.                                                            *)

\* What a run's own step does to the disk.
Touches(d) ==
    \/ disk' = disk
    \/ /\ step[d] = "upload"
       /\ \E p \in Files(d), c \in Contents \cup {Torn} : disk' = Written(At(d, p), c)
    \/ /\ step[d] = "finish" /\ job[d].op = "finish"
       /\ \E p \in job[d].todo : disk' = Removed(At(d, p))

\* Only uploads and finishUploads touch the disk.
LEMMA OwnTouches ==
    ASSUME OrderInv, NEW d \in Deployments, Own(d)
    PROVE  Touches(d)
  <1>1. TypeOK /\ Orderly(d)
    BY DEF OrderInv
  <1>2. ASSUME NEW p \in Paths, RunUploadOpen(d, p) PROVE Touches(d)
    <2>1. step[d] = "upload" /\ p \in Files(d) /\ disk' = Written(At(d, p), Torn)
      BY <1>1, <1>2 DEF RunUploadOpen, UploadOpen, Orderly
    <2> QED
      BY <2>1 DEF Touches
  <1>3. ASSUME NEW p \in Paths, RunUploadWrite(d, p) PROVE Touches(d)
    <2>1. PICK c \in {Plan[d].files[p]} \cup Edits : UploadWrite(d, p, c)
      BY <1>3 DEF RunUploadWrite
    <2>2. step[d] = "upload" /\ p \in Files(d) /\ disk' = Written(At(d, p), c)
      BY <1>1, <2>1 DEF UploadWrite, Orderly
    <2>3. Plan[d].files \in UNION {[T -> Contents] : T \in SUBSET Paths}
      BY PlanAssumption DEF PlanType
    <2>4. Plan[d].files[p] \in Contents
      BY <2>2, <2>3 DEF Files
    <2> QED
      BY <2>2, <2>4, RunAssumption DEF Touches
  <1>4. CASE RunFinishDelete(d)
    <2>1. PICK p \in job[d].todo : /\ job[d].op = "finish"
                                   /\ disk' = Removed(At(d, p)) \/ disk' = disk
      BY <1>4 DEF RunFinishDelete, FinishDelete
    <2> QED
      BY <1>1, <2>1 DEF Touches, Orderly
  <1>5. CASE disk' = disk
    BY <1>5 DEF Touches
  <1>6. ASSUME NEW p \in Paths, RunUploadFind(d, p) \/ RunUploadRecord(d, p) \/ RunUploadFails(d, p)
                                \/ RunUploadUnsent(d, p)
        PROVE  disk' = disk
    BY <1>6 DEF RunUploadFind, RunUploadRecord, RunUploadFails, RunUploadUnsent, UploadFind,
                UploadRecord, UploadFails, vars
  <1>7. CASE \/ Start(d) \/ GiveUp(d) \/ Unsent(d) \/ RunUploadsDone(d) \/ RunHooksEnd(d)
             \/ RunFinishRefused(d)
    BY <1>7, <1>5 DEF Start, GiveUp, Unsent, RunUploadsDone, RunHooksEnd, RunFinishRefused, vars
  <1>8. CASE \/ RunCreate(d) \/ RunCreateRefused(d) \/ RunBatch(d) \/ RunNeedBegin(d)
             \/ RunNeedFile(d) \/ RunNeedEnd(d) \/ RunFinishRead(d) \/ RunFinishEnd(d)
    BY <1>8, <1>5 DEF RunCreate, RunCreateRefused, RunBatch, RunNeedBegin, RunNeedFile, RunNeedEnd,
                RunFinishRead, RunFinishEnd, CreateDeployment, CreateRefused, AddManifestFiles,
                NeedBegin, NeedFile, NeedEnd, FinishRead, FinishEnd
  <1>9. CASE \/ RunVerifyBegin(d) \/ RunVerifyFile(d) \/ RunVerifyFailed(d)
             \/ RunVerifySucceeded(d) \/ RunActivate(d)
    BY <1>9, <1>5 DEF RunVerifyBegin, RunVerifyFile, RunVerifyFailed, RunVerifySucceeded, RunActivate,
                VerifyBegin, VerifyFile, VerifyFailed, VerifySucceeded, Activate
  <1> QED
    BY <1>2, <1>3, <1>4, <1>5, <1>6, <1>7, <1>8, <1>9 DEF Own, Progress

\* The directory of e is as it was.
Untouched(e) ==
    /\ ids'[e] = ids[e]
    /\ \A p \in Paths :
          /\ At(e, p) \in DOMAIN disk' <=> At(e, p) \in DOMAIN disk
          /\ At(e, p) \in DOMAIN disk => disk'[At(e, p)] = disk[At(e, p)]

\* Nothing happens to the directory of a deployment that has it to itself but
\* what its own run does.
LEMMA OthersTouchElsewhere ==
    ASSUME OrderInv, Separate, NEW d \in Deployments, Own(d), NEW e \in Created,
           Apart(e), e # d
    PROVE  Untouched(e)
  <1>1. ids'[e] = ids[e]
    BY OthersPassed DEF OrderInv, Passed, Created
  <1>2. Touches(d)
    BY OwnTouches
  <1>3. CASE disk' = disk
    BY <1>1, <1>3 DEF Untouched
  <1>4. CASE step[d] \in {"upload", "finish"} /\ disk' # disk
    <2>1. d \in Created
      BY <1>4 DEF OrderInv, Orderly, Made, Unverified, Created
    <2>2. DirOf(d) # DirOf(e)
      <3> SUFFICES ASSUME DirOf(d) = DirOf(e) PROVE FALSE
        OBVIOUS
      <3>1. Plan[e].inPlace /\ Project(d) = Project(e)
        BY <2>1 DEF Separate, OnlyInPlaceShare
      <3>2. StartRule = "quiet" /\ ~Plan[e].preview /\ ids[d] <= ids[e]
        BY <2>1, <3>1 DEF Apart, LastWriter
      <3>3. ~Plan[d].preview
        BY <1>4 DEF Separate, TurnInv, ShipsNothing
      <3>4. ids[e] <= ids[d]
        BY <1>4, <3>1, <3>2, <3>3 DEF Separate, TurnInv, TakesTurns, Calls, Created
      <3>5. ids[d] = ids[e]
        <4>1. ids[d] \in Nat /\ ids[e] \in Nat
          BY DEF OrderInv, TypeOK, Created
        <4> QED
          BY <3>2, <3>4, <4>1
      <3> QED
        BY <2>1, <3>5 DEF Separate, IdsDistinct
    <2>3. \A p, q : At(d, p) # At(e, q)
      BY <2>2 DEF At
    <2>4. ASSUME NEW p, NEW c, disk' = Written(At(d, p), c) PROVE Untouched(e)
      BY <1>1, <2>3, <2>4 DEF Untouched, Written
    <2>5. ASSUME NEW p, disk' = Removed(At(d, p)) PROVE Untouched(e)
      BY <1>1, <2>3, <2>5 DEF Untouched, Removed, Restrict
    <2> QED
      BY <1>2, <1>4, <2>4, <2>5 DEF Touches
  <1> QED
    BY <1>2, <1>3, <1>4 DEF Touches

\* Rollbacks, time and crashes leave every directory alone.
LEMMA NobodyTouches ==
    ASSUME TypeOK, NEW e \in Deployments, Nobodys \/ RunCrash
    PROVE  Untouched(e)
  <1>1. disk' = disk
    BY DEF Nobodys, RunCrash, Crash, CrashInCreate, ServerDies, CreateProject, OperatorRollback,
           Rollback, Activate, HoursPass, allVars, vars
  <1>2. ids' = ids
    BY DEF Nobodys, RunCrash, Crash, CrashInCreate, ServerDies, CreateProject, OperatorRollback,
           Rollback, Activate, HoursPass, allVars, vars, dbVars
  <1> QED
    BY <1>1, <1>2 DEF Untouched

\* Files match after a step that leaves their directory alone as they did before.
LEMMA UntouchedMatches ==
    ASSUME NEW e \in Deployments, Untouched(e), NEW p \in Paths
    PROVE  /\ OnDisk(e, p)' <=> OnDisk(e, p)
           /\ Matches(e, p) => Matches(e, p)'
  <1>1. At(e, p)' = At(e, p)
    BY DEF Untouched, At, DirOf, Project
  <1> QED
    BY <1>1 DEF Untouched, OnDisk, Matches

\* So does what its own run does, outside createDeployment, uploads and
\* finishUploads.
LEMMA OwnLeavesAlone ==
    ASSUME OrderInv, NEW d \in Deployments, Own(d), ~RunCreate(d), disk' = disk
    PROVE  Untouched(d)
  <1>1. ids' = ids
    <2>1. CASE \/ Start(d) \/ GiveUp(d) \/ Unsent(d) \/ RunUploadsDone(d) \/ RunHooksEnd(d)
               \/ RunFinishRefused(d)
      BY <2>1 DEF Start, GiveUp, Unsent, RunUploadsDone, RunHooksEnd, RunFinishRefused, vars
    <2>2. CASE \/ RunCreateRefused(d) \/ RunBatch(d) \/ RunNeedBegin(d)
               \/ RunNeedFile(d) \/ RunNeedEnd(d) \/ RunFinishRead(d) \/ RunFinishEnd(d)
               \/ RunFinishDelete(d)
      BY <2>2 DEF RunCreateRefused, RunBatch, RunNeedBegin, RunNeedFile, RunNeedEnd,
                  RunFinishRead, RunFinishEnd, RunFinishDelete, CreateRefused, AddManifestFiles,
                  NeedBegin, NeedFile, NeedEnd, FinishRead, FinishEnd, FinishDelete, dbVars
    <2>3. CASE \/ RunVerifyBegin(d) \/ RunVerifyFile(d) \/ RunVerifyFailed(d)
               \/ RunVerifySucceeded(d) \/ RunActivate(d)
      BY <2>3 DEF RunVerifyBegin, RunVerifyFile, RunVerifyFailed, RunVerifySucceeded, RunActivate,
                  VerifyBegin, VerifyFile, VerifyFailed, VerifySucceeded, Activate, dbVars
    <2>4. ASSUME NEW p \in Paths, \/ RunUploadFind(d, p) \/ RunUploadOpen(d, p)
                                  \/ RunUploadWrite(d, p) \/ RunUploadRecord(d, p)
                                  \/ RunUploadFails(d, p) \/ RunUploadUnsent(d, p)
          PROVE  ids' = ids
      BY <2>4 DEF RunUploadFind, RunUploadOpen, RunUploadWrite, RunUploadRecord, RunUploadFails,
                  RunUploadUnsent, UploadFind, UploadOpen, UploadWrite, UploadRecord, UploadFails,
                  vars, dbVars
    <2> QED
      BY <2>1, <2>2, <2>3, <2>4 DEF Own, Progress
  <1> QED
    BY <1>1 DEF Untouched

\* Rows stay, and so do the directories they name.
LEMMA DirectoriesStay ==
    ASSUME OrderInv, [RunNext]_allVars, NEW e \in Created
    PROVE  e \in Created' /\ ids'[e] = ids[e] /\ DirOf(e)' = DirOf(e)
  <1>1. ids'[e] = ids[e]
    <2>1. CASE Creation
      BY <2>1 DEF Creation, CreateDeployment, OrderInv, TypeOK, Created
    <2>2. CASE RowsMove
      BY <2>2 DEF RowsMove, IdsKept
    <2> QED
      BY <2>1, <2>2, StepIsCall, RowsStep DEF OrderInv
  <1> QED
    BY <1>1 DEF Created, DirOf, Project

\* A directory that two deployments have come to share stays shared.
LEMMA ApartBefore ==
    ASSUME OrderInv, [RunNext]_allVars, NEW e \in Created, Apart(e)'
    PROVE  Apart(e)
  <1> SUFFICES ASSUME LastWriter(e)', NEW x \in Created, DirOf(x) = DirOf(e), Plan[e].inPlace
               PROVE  ids[x] <= ids[e]
    BY DEF Apart, LastWriter
  <1>1. x \in Created' /\ DirOf(x)' = DirOf(e)' /\ ids'[x] = ids[x] /\ ids'[e] = ids[e]
    BY DirectoriesStay
  <1> QED
    BY <1>1 DEF LastWriter

-----------------------------------------------------------------------------
(* Shipped files arrive and stay.                                          *)

\* A shipped file is to be looked for, to be sent, being sent or there.
Coming(d, p) ==
    /\ step[d] = "need" /\ job[d].op = "need" =>
          p \in job[d].todo \cup job[d].bad \/ OnDisk(d, p)
    /\ step[d] = "upload" =>
          p \in rest[d] \/ uploading[d][p] = "found" \/ OnDisk(d, p) \/ ~ok[d]
    /\ step[d] \in {"finish", "verify"} \cup Released => OnDisk(d, p)
    /\ job[d].op = "finish" => p \notin job[d].todo

Arrives(d) ==
    Apart(d) /\ d \notin overtaken => \A p \in Files(d) : Coming(d, p)

ArriveInv == WholeInv /\ \A d \in Deployments : Arrives(d)

\* A run's own step brings its files on their way, or leaves them there.
LEMMA OwnArrives ==
    ASSUME WholeInv, NEW d \in Deployments, d \notin overtaken, Own(d),
           NEW p \in Files(d), Coming(d, p)
    PROVE  Coming(d, p)'
  <1>1. OrderInv /\ TypeOK /\ RunsOK /\ Orderly(d) /\ Whole(d) /\ p \in Paths
    BY FilesType DEF WholeInv, OrderInv
  <1>2. /\ step \in [Deployments -> Steps] /\ ok \in [Deployments -> BOOLEAN]
        /\ rest \in [Deployments -> SUBSET Paths] /\ job \in [Deployments -> JobType]
        /\ uploading \in [Deployments -> [Paths -> UploadSteps]]
    BY <1>1 DEF TypeOK, RunsOK
  <1>3. ASSUME NEW next, Advance(d, next) PROVE step'[d] = IF ok[d] THEN next ELSE "failed"
    BY <1>2, <1>3 DEF Advance
  <1>4. Fail(d) => step'[d] = "failed"
    BY <1>2 DEF Fail
  <1>5. disk' = disk /\ ~RunCreate(d) => (OnDisk(d, p)' <=> OnDisk(d, p))
    BY <1>1, OwnLeavesAlone, UntouchedMatches
  <1> USE DEF Released, Activated
  <1>6. CASE Start(d) \/ RunCreate(d) \/ RunCreateRefused(d) \/ RunBatch(d)
    <2>1. step[d] \in {"idle", "create", "batch"} /\ job' = job
      BY <1>6 DEF Start, RunCreate, RunCreateRefused, RunBatch, CreateDeployment, CreateRefused,
                  AddManifestFiles, vars
    <2>2. job'[d].op = "idle"
      BY <1>1, <2>1, NoHandler
    <2>3. step'[d] \in {"create", "batch", "need", "previewed", "failed"}
      <3>1. CASE RunBatch(d)
        <4>1. PICK batch : Advance(d, IF batch = rest[d] THEN AfterManifest(d) ELSE "batch")
          BY <3>1 DEF RunBatch
        <4> QED
          BY <1>3, <4>1 DEF AfterManifest
      <3> QED
        BY <1>2, <1>3, <1>4, <1>6, <3>1 DEF Start, RunCreate, RunCreateRefused
    <2> QED
      BY <2>2, <2>3 DEF Coming
  <1>7. CASE RunVerifyFailed(d) \/ RunFinishRefused(d) \/ Unsent(d)
    <2>1. step'[d] = "failed" /\ job'[d].op = "idle"
      BY <1>2, <1>4, <1>7 DEF RunVerifyFailed, RunFinishRefused, Unsent, VerifyFailed, FinishRefused,
                              Idle, vars
    <2> QED
      BY <2>1 DEF Coming
  <1>8. CASE GiveUp(d)
    <2>1. UNCHANGED <<step, rest, job, uploading, disk>> /\ (ok'[d] => ok[d]) /\ ~RunCreate(d)
      BY <1>2, <1>8 DEF GiveUp, RunCreate, CreateDeployment, Advance, vars, Created, TypeOK
    <2> QED
      BY <1>5, <2>1 DEF Coming
  <1>9. CASE RunNeedBegin(d)
    <2>1. /\ step' = step /\ step[d] = "need" /\ disk' = disk
          /\ job'[d] = [op |-> "need", todo |-> Listed(d), bad |-> {}]
      BY <1>2, <1>9 DEF RunNeedBegin, NeedBegin, runVars
    <2>2. Listed(d) = Files(d)
      BY <1>1, <2>1, FilesType, NullAssumption DEF Whole, Listed
    <2> QED
      BY <2>1, <2>2 DEF Coming
  <1>10. CASE RunNeedFile(d)
    <2>1. PICK q \in job[d].todo :
              job[d].op = "need" /\ job'[d] = Inspected(d, q) /\ UNCHANGED <<step, disk>>
      BY <1>2, <1>10 DEF RunNeedFile, NeedFile, runVars
    <2>2. /\ job'[d].op = "need" /\ job'[d].todo = job[d].todo \ {q}
          /\ job'[d].bad = IF Matches(d, q) THEN job[d].bad ELSE job[d].bad \cup {q}
      BY <2>1 DEF Inspected
    <2>3. step[d] = "need"
      BY <1>1, <2>1 DEF Orderly
    <2>4. ~RunCreate(d)
      BY <2>3 DEF RunCreate
    <2>5. p \in job'[d].todo \cup job'[d].bad \/ OnDisk(d, p)
      BY <2>1, <2>2, <2>3 DEF Coming, Matches
    <2> QED
      BY <1>5, <2>1, <2>2, <2>3, <2>4, <2>5 DEF Coming
  <1>11. CASE RunNeedEnd(d)
    <2>1. /\ job[d].op = "need" /\ job[d].todo = {} /\ disk' = disk /\ UNCHANGED <<ok, uploading>>
          /\ rest'[d] = IF ok[d] THEN job[d].bad ELSE {}
          /\ step'[d] = IF ok[d] THEN "upload" ELSE "failed"
          /\ job'[d].op = "idle"
      BY <1>2, <1>3, <1>11 DEF RunNeedEnd, NeedEnd, Advance, Idle
    <2>2. step[d] = "need" /\ ~RunCreate(d)
      BY <1>1, <2>1 DEF Orderly, RunCreate
    <2> QED
      BY <1>5, <2>1, <2>2 DEF Coming
  <1>12. ASSUME NEW q \in Paths, RunUploadFind(d, q) PROVE Coming(d, p)'
    <2>1. /\ step[d] = "upload" /\ UNCHANGED <<step, ok, disk, job>> /\ rest'[d] = rest[d] \ {q}
          /\ uploading'[d] = [uploading[d] EXCEPT ![q] = "found"]
      BY <1>2, <1>12 DEF RunUploadFind, UploadFind
    <2>2. uploading'[d][q] = "found" /\ \A r \in Paths \ {q} : uploading'[d][r] = uploading[d][r]
      BY <1>2, <2>1
    <2>3. ~RunCreate(d) /\ job[d].op # "finish"
      BY <1>1, <2>1 DEF RunCreate, Orderly
    <2> QED
      BY <1>1, <1>5, <2>1, <2>2, <2>3 DEF Coming
  <1>13. ASSUME NEW q \in Paths, RunUploadOpen(d, q) \/ RunUploadWrite(d, q) PROVE Coming(d, p)'
    <2>1. /\ UNCHANGED <<step, ok, rest, job, ids>> /\ uploading[d][q] # "no"
          /\ \E c : disk' = Written(At(d, q), c)
          /\ \A r \in Paths \ {q} : uploading'[d][r] = uploading[d][r]
      BY <1>2, <1>13 DEF RunUploadOpen, RunUploadWrite, UploadOpen, UploadWrite, runVars, dbVars
    <2>2. OnDisk(d, q)' /\ (OnDisk(d, p) => OnDisk(d, p)')
      BY <2>1 DEF OnDisk, At, DirOf, Written
    <2>3. step[d] = "upload" /\ job[d].op # "finish"
      BY <1>1, <2>1 DEF Orderly
    <2>4. CASE p = q
      BY <2>1, <2>2, <2>3, <2>4 DEF Coming
    <2>5. CASE p # q
      BY <1>1, <2>1, <2>2, <2>3, <2>5 DEF Coming
    <2> QED
      BY <2>4, <2>5
  <1>14. ASSUME NEW q \in Paths, RunUploadRecord(d, q) PROVE Coming(d, p)'
    <2>1. /\ UNCHANGED <<step, ok, rest, disk, job>> /\ uploading[d][q] = "written"
          /\ \A r \in Paths \ {q} : uploading'[d][r] = uploading[d][r]
      BY <1>2, <1>14 DEF RunUploadRecord, UploadRecord, runVars
    <2>2. step[d] = "upload" /\ ~RunCreate(d) /\ job[d].op # "finish"
      BY <1>1, <2>1 DEF Orderly, RunCreate
    <2> QED
      BY <1>1, <1>5, <2>1, <2>2 DEF Coming
  <1>15. ASSUME NEW q \in Paths, RunUploadFails(d, q) \/ RunUploadUnsent(d, q) PROVE Coming(d, p)'
    <2>1. step' = step /\ job' = job /\ ~ok'[d]
      BY <1>2, <1>15 DEF RunUploadFails, RunUploadUnsent, UploadFails, vars
    <2>2. step[d] = "upload" /\ job[d].op # "finish"
      BY <1>1, <1>2, <1>15 DEF RunUploadFails, RunUploadUnsent, UploadFails, Orderly
    <2> QED
      BY <2>1, <2>2 DEF Coming
  <1>16. CASE RunUploadsDone(d)
    <2>1. /\ step[d] = "upload" /\ rest[d] = {} /\ disk' = disk /\ job'[d].op = "idle"
          /\ \A q \in Paths : uploading[d][q] = "no"
          /\ step'[d] = IF ok[d] THEN "finish" ELSE "failed"
      BY <1>3, <1>16 DEF RunUploadsDone, HandlersGone, Idle, vars
    <2>2. ~RunCreate(d)
      BY <2>1 DEF RunCreate
    <2> QED
      BY <1>1, <1>5, <2>1, <2>2 DEF Coming
  <1>17. CASE RunFinishRead(d)
    <2>1. PICK stale : job'[d] = [op |-> "finish", todo |-> Leftovers(d, stale), bad |-> {}]
      BY <1>2, <1>17 DEF RunFinishRead, FinishRead
    <2>2. step' = step /\ step[d] = "finish" /\ disk' = disk /\ ~RunCreate(d)
      BY <1>17 DEF RunFinishRead, FinishRead, runVars, RunCreate
    <2>3. p \notin Leftovers(d, stale)
      BY <1>1, <2>2 DEF Whole, Leftovers
    <2> QED
      BY <1>5, <2>1, <2>2, <2>3 DEF Coming
  <1>18. CASE RunFinishDelete(d)
    <2>1. PICK q \in Paths : FinishDelete(d, q)
      BY <1>18 DEF RunFinishDelete
    <2>2. /\ job[d].op = "finish" /\ q \in job[d].todo /\ UNCHANGED <<step, ids>>
          /\ disk' = Removed(At(d, q)) \/ disk' = disk
      BY <1>18, <2>1 DEF RunFinishDelete, FinishDelete, runVars, dbVars
    <2>3. job'[d].op = "finish" /\ job'[d].todo \subseteq job[d].todo
      BY <1>2, <2>1 DEF FinishDelete, JobType
    <2>4. step[d] = "finish" /\ q # p
      BY <1>1, <2>2 DEF Orderly, Coming
    <2>5. At(d, p)' = At(d, p) /\ At(d, p) # At(d, q)
      BY <2>2, <2>4 DEF At, DirOf
    <2>6. OnDisk(d, p) => OnDisk(d, p)'
      BY <2>2, <2>5 DEF OnDisk, Removed, Restrict
    <2> QED
      BY <2>2, <2>3, <2>4, <2>6 DEF Coming
  <1>19. CASE RunFinishEnd(d) \/ RunVerifySucceeded(d)
    <2>1. /\ step[d] \in {"finish", "verify"} /\ step'[d] \in {"verify", "activate", "failed"}
          /\ job'[d].op = "idle" /\ disk' = disk /\ ~RunCreate(d)
      BY <1>1, <1>2, <1>3, <1>19
         DEF RunFinishEnd, RunVerifySucceeded, FinishEnd, VerifySucceeded, Orderly, Idle, RunCreate
    <2> QED
      BY <1>5, <2>1 DEF Coming
  <1>20. CASE RunVerifyBegin(d) \/ RunVerifyFile(d)
    <2>1. step' = step /\ disk' = disk /\ job'[d].op = "verify"
      BY <1>2, <1>20 DEF RunVerifyBegin, RunVerifyFile, VerifyBegin, VerifyFile, Inspected, runVars
    <2>2. step[d] = "verify" /\ ~RunCreate(d)
      BY <1>1, <1>20 DEF RunVerifyBegin, RunVerifyFile, VerifyBegin, VerifyFile, Orderly, RunCreate
    <2> QED
      BY <1>5, <2>1, <2>2 DEF Coming
  <1>21. CASE RunActivate(d) \/ RunHooksEnd(d)
    <2>1. /\ step[d] \in {"activate", "hooks"} /\ step'[d] \in {"hooks", "done", "warned", "failed"}
          /\ job' = job /\ disk' = disk /\ ~RunCreate(d)
      BY <1>2, <1>3, <1>21 DEF RunActivate, RunHooksEnd, Activate, vars, RunCreate
    <2>2. job[d].op = "idle"
      BY <1>1, <2>1, NoHandler
    <2> QED
      BY <1>5, <2>1, <2>2 DEF Coming
  <1> QED
    BY <1>6, <1>7, <1>8, <1>9, <1>10, <1>11, <1>12, <1>13, <1>14, <1>15, <1>16, <1>17, <1>18, <1>19,
       <1>20, <1>21 DEF Own, Progress

\* Of a run another one, nobody or a crash passes by, its directory untouched,
\* the files come as before.
LEMMA OthersArrive ==
    ASSUME NEW e \in Deployments, Passed(e) \/ Crashed(e), Untouched(e),
           NEW p \in Paths, Coming(e, p)
    PROVE  Coming(e, p)'
  <1>1. OnDisk(e, p)' <=> OnDisk(e, p)
    BY UntouchedMatches
  <1>2. CASE Passed(e)
    BY <1>1, <1>2 DEF Passed, Coming
  <1>3. CASE Crashed(e)
    BY <1>1, <1>3 DEF Crashed, Coming, Idle, Released, Activated
  <1> QED
    BY <1>2, <1>3

\* What has no deployment yet has nothing to miss.
LEMMA UnmadeComes ==
    ASSUME NEW e \in Deployments, e \notin Created, Orderly(e), NEW p
    PROVE  Coming(e, p)
  BY DEF Orderly, Created, Coming, Made, Unverified

\* Every step does.
LEMMA ArriveStep ==
    ASSUME ArriveInv, Separate, [RunNext]_allVars
    PROVE  ArriveInv'
  <1>1. WholeInv /\ WholeInv' /\ OrderInv /\ TypeOK /\ RunsOK
    BY WholeStep DEF ArriveInv, WholeInv, OrderInv
  <1> SUFFICES ASSUME NEW e \in Deployments, Apart(e)', e \notin overtaken', NEW p \in Files(e)
               PROVE  Coming(e, p)'
    BY <1>1 DEF ArriveInv, Arrives, Files
  <1>2. e \notin overtaken /\ p \in Paths /\ Orderly(e)
    BY <1>1, FilesType DEF RunNext, Observe, allVars, OrderInv
  <1>3. Coming(e, p)
    BY <1>1, <1>2, ApartBefore, UnmadeComes DEF ArriveInv, Arrives
  <1>4. CASE Own(e)
    BY <1>1, <1>2, <1>3, <1>4, OwnArrives
  <1>5. ASSUME NEW d \in Deployments, Own(d), d # e PROVE Coming(e, p)'
    <2>1. Passed(e)
      BY <1>1, <1>5, OthersPassed
    <2>2. CASE e \in Created
      <3>1. Untouched(e)
        BY <1>1, <1>5, <2>2, ApartBefore, OthersTouchElsewhere
      <3> QED
        BY <1>2, <1>3, <2>1, <3>1, OthersArrive
    <2>3. CASE e \notin Created
      <3>1. step[e] \notin Made
        BY <1>2, <2>3 DEF Orderly, Created
      <3> QED
        BY <1>2, <2>1, <3>1 DEF Passed, Coming, Made, Unverified, Orderly
    <2> QED
      BY <2>2, <2>3
  <1>6. CASE Nobodys \/ RunCrash
    <2>1. Untouched(e) /\ (Passed(e) \/ Crashed(e))
      BY <1>1, <1>6, NobodyTouches, AllPassed, CrashHits
    <2> QED
      BY <1>2, <1>3, <2>1, OthersArrive
  <1> QED
    BY <1>4, <1>5, <1>6, WhoseStep

\* finishUploads deletes without a lock in a directory that uploads write to
\* without one; still, of a versioned deployment that was not overtaken, every
\* shipped file is there from the last upload on.
THEOREM ShippedFilesStay ==
    ASSUME NoProjectNamedLikeADeployment(Projects)
    PROVE  RunSpec => []FinishKeepsShippedFiles
  <1>1. RunInit => ArriveInv
    <2>1. RunInit => WholeInv
      BY OrderInit DEF RunInit, WholeInv, Whole
    <2>2. ASSUME RunInit, NEW d \in Deployments, NEW p PROVE Coming(d, p)
      BY <2>2 DEF RunInit, Init, Coming, Idle, Released, Activated
    <2> QED
      BY <2>1, <2>2 DEF ArriveInv, Arrives
  <1>2. ArriveInv /\ Separate /\ [RunNext]_allVars => ArriveInv'
    BY ArriveStep
  <1>3. ArriveInv => FinishKeepsShippedFiles
    BY DEF ArriveInv, Arrives, Apart, Coming, FinishKeepsShippedFiles
  <1> QED
    BY <1>1, <1>2, <1>3, RunsAreSeparate, PTL DEF RunSpec

-----------------------------------------------------------------------------
(* What is released or active is what was shipped.                         *)

\* With a careful operator, what is active was activated by its run, which has
\* nothing left to do at the server.
Pointed(d) ==
    active[Project(d)] = d =>
        step[d] \in Activated \cup {"failed"} /\ ids[d] # 0 /\ ~Plan[d].preview

\* verifyDeployment has a file to look at, has found it wrong or knows it is
\* right; what it has passed stays right.
Sound(d, p) ==
    /\ job[d].op = "verify" => p \in job[d].todo \cup job[d].bad \/ Matches(d, p)
    /\ step[d] \in Released \/ active[Project(d)] = d => Matches(d, p)

Intact(d) ==
    Apart(d) /\ d \notin overtaken => \A p \in Files(d) : Sound(d, p)

IntactInv == WholeInv /\ \A d \in Deployments : Pointed(d) /\ Intact(d)

\* Only its activation makes a run move the pointer.
LEMMA OwnPointer ==
    ASSUME NEW d \in Deployments, Own(d), ~RunActivate(d)
    PROVE  active' = active
  <1>1. CASE \/ Start(d) \/ GiveUp(d) \/ Unsent(d) \/ RunUploadsDone(d) \/ RunHooksEnd(d)
             \/ RunFinishRefused(d)
    BY <1>1 DEF Start, GiveUp, Unsent, RunUploadsDone, RunHooksEnd, RunFinishRefused, vars
  <1>2. CASE \/ RunCreate(d) \/ RunCreateRefused(d) \/ RunBatch(d) \/ RunNeedBegin(d)
             \/ RunNeedFile(d) \/ RunNeedEnd(d) \/ RunFinishRead(d) \/ RunFinishEnd(d)
             \/ RunFinishDelete(d)
    BY <1>2 DEF RunCreate, RunCreateRefused, RunBatch, RunNeedBegin, RunNeedFile, RunNeedEnd,
                RunFinishRead, RunFinishEnd, RunFinishDelete, CreateDeployment, CreateRefused,
                AddManifestFiles, NeedBegin, NeedFile, NeedEnd, FinishRead, FinishEnd,
                FinishDelete, dbVars
  <1>3. CASE RunVerifyBegin(d) \/ RunVerifyFile(d) \/ RunVerifyFailed(d) \/ RunVerifySucceeded(d)
    BY <1>3 DEF RunVerifyBegin, RunVerifyFile, RunVerifyFailed, RunVerifySucceeded, VerifyBegin,
                VerifyFile, VerifyFailed, VerifySucceeded, dbVars
  <1>4. ASSUME NEW p \in Paths, \/ RunUploadFind(d, p) \/ RunUploadOpen(d, p)
                                \/ RunUploadWrite(d, p) \/ RunUploadRecord(d, p)
                                \/ RunUploadFails(d, p) \/ RunUploadUnsent(d, p)
        PROVE  active' = active
    BY <1>4 DEF RunUploadFind, RunUploadOpen, RunUploadWrite, RunUploadRecord, RunUploadFails,
                RunUploadUnsent, UploadFind, UploadOpen, UploadWrite, UploadRecord, UploadFails,
                vars, dbVars
  <1> QED
    BY <1>1, <1>2, <1>3, <1>4 DEF Own, Progress

\* A run's own step keeps what holds of its active deployment and of its files.
LEMMA OwnSound ==
    ASSUME WholeInv, NEW d \in Deployments, d \notin overtaken, Own(d), Pointed(d),
           NEW p \in Files(d), Sound(d, p)
    PROVE  Sound(d, p)'
  <1>1. OrderInv /\ TypeOK /\ RunsOK /\ Orderly(d) /\ Whole(d) /\ p \in Paths
    BY FilesType DEF WholeInv, OrderInv
  <1>2. /\ step \in [Deployments -> Steps] /\ ok \in [Deployments -> BOOLEAN]
        /\ job \in [Deployments -> JobType]
    BY <1>1 DEF TypeOK, RunsOK
  <1>3. ASSUME NEW next, Advance(d, next) PROVE step'[d] \in {next, "failed"}
    BY <1>2, <1>3 DEF Advance
  <1>4. Fail(d) => step'[d] = "failed"
    BY <1>2 DEF Fail
  <1>5. disk' = disk /\ ~RunCreate(d) => (Matches(d, p) => Matches(d, p)')
    BY <1>1, OwnLeavesAlone, UntouchedMatches
  <1>6. ~RunActivate(d) => (active[Project(d)] = d)' = (active[Project(d)] = d)
    BY OwnPointer DEF Project
  <1> USE DEF Released, Activated
  \* Before verification nothing is due yet.
  <1>7. ASSUME step'[d] \notin Released, job'[d].op # "verify", step[d] \notin Activated,
               step[d] # "failed", ~RunActivate(d)
        PROVE  Sound(d, p)'
    BY <1>6, <1>7 DEF Sound, Pointed
  <1>8. CASE Start(d) \/ RunCreate(d) \/ RunCreateRefused(d) \/ RunBatch(d)
    <2>1. step[d] \in {"idle", "create", "batch"} /\ job' = job /\ ~RunActivate(d)
      BY <1>8 DEF Start, RunCreate, RunCreateRefused, RunBatch, CreateDeployment, CreateRefused,
                  AddManifestFiles, RunActivate, vars
    <2>2. job'[d].op = "idle"
      BY <1>1, <2>1, NoHandler
    <2>3. step'[d] \in {"create", "batch", "need", "previewed", "failed"}
      <3>1. CASE RunBatch(d)
        <4>1. PICK batch : Advance(d, IF batch = rest[d] THEN AfterManifest(d) ELSE "batch")
          BY <3>1 DEF RunBatch
        <4> QED
          BY <1>3, <4>1 DEF AfterManifest
      <3> QED
        BY <1>2, <1>3, <1>4, <1>8, <3>1 DEF Start, RunCreate, RunCreateRefused
    <2> QED
      BY <1>7, <2>1, <2>2, <2>3
  <1>9. CASE RunNeedBegin(d) \/ RunNeedFile(d) \/ RunNeedEnd(d)
    <2>1. step[d] = "need" /\ ~RunActivate(d)
      BY <1>1, <1>9 DEF RunNeedBegin, RunNeedFile, RunNeedEnd, NeedFile, NeedEnd, Orderly, RunActivate
    <2>2. step'[d] \in {"need", "upload", "failed"} /\ job'[d].op \in {"need", "idle"}
      BY <1>2, <1>3, <1>9, <2>1 DEF RunNeedBegin, RunNeedFile, RunNeedEnd, NeedBegin, NeedFile,
                                    NeedEnd, Inspected, Idle, runVars
    <2> QED
      BY <1>7, <2>1, <2>2
  <1>10. ASSUME NEW q \in Paths, \/ RunUploadFind(d, q) \/ RunUploadOpen(d, q)
                                 \/ RunUploadWrite(d, q) \/ RunUploadRecord(d, q)
                                 \/ RunUploadFails(d, q) \/ RunUploadUnsent(d, q)
         PROVE  Sound(d, p)'
    <2>1. step' = step /\ job' = job
      BY <1>10 DEF RunUploadFind, RunUploadOpen, RunUploadWrite, RunUploadRecord, RunUploadFails,
                   RunUploadUnsent, UploadFind, UploadOpen, UploadWrite, UploadRecord, UploadFails,
                   runVars, vars
    <2>2. step[d] = "upload"
      BY <1>1, <1>10 DEF RunUploadFind, RunUploadOpen, RunUploadWrite, RunUploadRecord,
           RunUploadFails, RunUploadUnsent, UploadOpen, UploadWrite, UploadRecord, UploadFails, Orderly
    <2>3. job[d].op = "idle" /\ ~RunActivate(d)
      BY <1>1, <2>2, NoHandler DEF RunActivate
    <2> QED
      BY <1>7, <2>1, <2>2, <2>3
  <1>11. CASE \/ RunUploadsDone(d) \/ RunFinishRead(d) \/ RunFinishDelete(d) \/ RunFinishEnd(d)
              \/ RunFinishRefused(d)
    <2>1. step[d] \in {"upload", "finish"} /\ ~RunActivate(d)
      BY <1>1, <1>11 DEF RunUploadsDone, RunFinishRead, RunFinishDelete, RunFinishEnd,
           RunFinishRefused, FinishDelete, FinishEnd, Orderly, RunActivate
    <2>2. step'[d] \in {"finish", "verify", "failed"}
      BY <1>1, <1>2, <1>3, <1>4, <1>11
         DEF RunUploadsDone, RunFinishRead, RunFinishDelete, RunFinishEnd, RunFinishRefused,
             FinishDelete, Orderly, runVars
    <2>3. job'[d].op \in {"idle", "finish"}
      BY <1>2, <1>11
         DEF RunUploadsDone, RunFinishRead, RunFinishDelete, RunFinishEnd, RunFinishRefused,
             FinishRead, FinishDelete, FinishEnd, FinishRefused, HandlersGone, Idle, JobType, vars
    <2> QED
      BY <1>7, <2>1, <2>2, <2>3
  <1>12. CASE GiveUp(d)
    <2>1. UNCHANGED <<step, job, disk>> /\ ~RunCreate(d) /\ ~RunActivate(d)
      BY <1>2, <1>12 DEF GiveUp, RunCreate, RunActivate, CreateDeployment, Advance, vars, Created
    <2> QED
      BY <1>5, <1>6, <2>1 DEF Sound
  <1>13. CASE Unsent(d)
    <2>1. step[d] # "failed" /\ step'[d] = "failed" /\ job'[d].op = "idle" /\ disk' = disk
      BY <1>2, <1>13 DEF Unsent, Calls, Idle, vars
    <2>2. ~RunCreate(d) /\ ~RunActivate(d)
      BY <1>1, <1>2, <1>13
         DEF Unsent, RunCreate, RunActivate, CreateDeployment, vars, TypeOK
    <2> QED
      BY <1>5, <1>6, <2>1, <2>2 DEF Sound
  <1>14. CASE RunVerifyBegin(d)
    <2>1. /\ step' = step /\ step[d] = "verify" /\ disk' = disk
          /\ job'[d] = [op |-> "verify", todo |-> Listed(d), bad |-> {}]
      BY <1>2, <1>14 DEF RunVerifyBegin, VerifyBegin, runVars
    <2>2. Listed(d) = Files(d)
      BY <1>1, <2>1, FilesType, NullAssumption DEF Whole, Listed
    <2>3. ~RunCreate(d) /\ ~RunActivate(d)
      BY <2>1 DEF RunCreate, RunActivate
    <2> QED
      BY <1>6, <2>1, <2>2, <2>3 DEF Sound, Pointed
  <1>15. CASE RunVerifyFile(d)
    <2>1. PICK q \in job[d].todo :
              job[d].op = "verify" /\ job'[d] = Inspected(d, q) /\ UNCHANGED <<step, disk>>
      BY <1>2, <1>15 DEF RunVerifyFile, VerifyFile, runVars
    <2>2. /\ job'[d].op = "verify" /\ job'[d].todo = job[d].todo \ {q}
          /\ job'[d].bad = IF Matches(d, q) THEN job[d].bad ELSE job[d].bad \cup {q}
      BY <2>1 DEF Inspected
    <2>3. step[d] = "verify"
      BY <1>1, <2>1 DEF Orderly
    <2>4. ~RunCreate(d) /\ ~RunActivate(d)
      BY <2>3 DEF RunCreate, RunActivate
    <2>5. p \in job'[d].todo \cup job'[d].bad \/ Matches(d, p)
      BY <2>1, <2>2 DEF Sound
    <2> QED
      BY <1>5, <1>6, <2>1, <2>2, <2>3, <2>4, <2>5 DEF Sound, Pointed
  <1>16. CASE RunVerifyFailed(d) \/ RunVerifySucceeded(d)
    <2>1. /\ job[d].op = "verify" /\ job[d].todo = {} /\ disk' = disk /\ job'[d].op = "idle"
          /\ step'[d] \in {"failed", "activate"}
      BY <1>2, <1>3, <1>4, <1>16 DEF RunVerifyFailed, RunVerifySucceeded, VerifyFailed,
                                     VerifySucceeded, Idle
    <2>2. step[d] = "verify" /\ ~RunCreate(d) /\ ~RunActivate(d)
      BY <1>1, <2>1 DEF Orderly, RunCreate, RunActivate
    <2>3. job[d].bad = {} \/ step'[d] = "failed"
      BY <1>4, <1>16 DEF RunVerifyFailed, RunVerifySucceeded, VerifySucceeded
    <2> QED
      BY <1>5, <1>6, <2>1, <2>2, <2>3 DEF Sound, Pointed
  <1>17. CASE RunActivate(d) \/ RunHooksEnd(d)
    <2>1. /\ step[d] \in {"activate", "hooks"} /\ job' = job /\ disk' = disk /\ ~RunCreate(d)
      BY <1>17 DEF RunActivate, RunHooksEnd, Activate, vars, RunCreate
    <2>2. job[d].op = "idle"
      BY <1>1, <2>1, NoHandler
    <2> QED
      BY <1>5, <2>1, <2>2 DEF Sound
  <1> QED
    BY <1>8, <1>9, <1>10, <1>11, <1>12, <1>13, <1>14, <1>15, <1>16, <1>17 DEF Own, Progress

\* A run that has activated its deployment, or failed, only lets its hooks end.
LEMMA OwnSettled ==
    ASSUME OrderInv, NEW d \in Deployments, Own(d), step[d] \in Activated \cup {"failed"}
    PROVE  /\ step'[d] \in Activated \cup {"failed"} /\ ids' = ids
           /\ RunHooksEnd(d) \/ GiveUp(d)
  <1>1. step \in [Deployments -> Steps] /\ Orderly(d)
    BY DEF OrderInv, RunsOK
  <1>2. RunHooksEnd(d) \/ GiveUp(d)
    BY <1>1 DEF Own, Progress, Activated, Orderly, Start, RunCreate, RunCreateRefused, RunBatch,
         RunNeedBegin, RunNeedFile, RunNeedEnd, RunUploadFind, RunUploadOpen, RunUploadWrite,
         RunUploadRecord, RunUploadFails, RunUploadUnsent, RunUploadsDone, RunFinishRead,
         RunFinishDelete, RunFinishEnd, RunFinishRefused, RunVerifyBegin, RunVerifyFile,
         RunVerifyFailed, RunVerifySucceeded, RunActivate, Unsent, Calls, NeedFile, NeedEnd,
         UploadOpen, UploadWrite, UploadRecord, UploadFails, FinishDelete, FinishEnd, VerifyFile,
         VerifyFailed, VerifySucceeded
  <1> QED
    BY <1>1, <1>2 DEF RunHooksEnd, GiveUp, Advance, Activated, vars

\* Every step keeps to the pointer what its run has activated.
LEMMA PointedStep ==
    ASSUME CarefulOperator, WholeInv, TurnInv, \A d \in Deployments : Pointed(d),
           [RunNext]_allVars, NEW e \in Deployments
    PROVE  Pointed(e)'
  <1>1. /\ OrderInv /\ TypeOK /\ RunsOK /\ Pointed(e)
        /\ active \in [Projects -> Deployments \cup {NoDeployment}]
        /\ step \in [Deployments -> Steps] /\ Project(e) \in Projects
    BY FilesType DEF WholeInv, OrderInv, TypeOK, RunsOK
  <1>2. ASSUME active'[Project(e)] = e => active[Project(e)] = e, ids'[e] = ids[e],
               step'[e] \in {step[e], "failed"}
        PROVE  Pointed(e)'
    BY <1>1, <1>2 DEF Pointed, Project
  <1>3. ASSUME NEW d \in Deployments, RunActivate(d)
        PROVE  /\ active' = [active EXCEPT ![Project(d)] = d] /\ ids' = ids /\ ids[d] # 0
               /\ step' = [step EXCEPT ![d] = "hooks"] /\ ~Plan[d].preview
    BY <1>3 DEF RunActivate, Activate, Created, TurnInv, ShipsNothing
  <1>4. CASE Own(e)
    <2>1. CASE RunActivate(e)
      BY <1>1, <1>3, <2>1 DEF Pointed, Activated
    <2>2. CASE ~RunActivate(e)
      <3>1. active' = active
        BY <1>4, <2>2, OwnPointer
      <3>2. active[Project(e)] = e => step'[e] \in Activated \cup {"failed"} /\ ids' = ids
        BY <1>1, <1>4, OwnSettled DEF Pointed
      <3> QED
        BY <1>1, <3>1, <3>2 DEF Pointed, Project
    <2> QED
      BY <2>1, <2>2
  <1>5. ASSUME NEW d \in Deployments, Own(d), d # e PROVE Pointed(e)'
    <2>1. Passed(e)
      BY <1>1, <1>5, OthersPassed
    <2>2. active'[Project(e)] = e => active[Project(e)] = e
      BY <1>1, <1>3, <1>5, OwnPointer
    <2> QED
      BY <1>2, <2>1, <2>2 DEF Passed
  <1>6. CASE Nobodys
    <2>1. Passed(e)
      BY <1>1, <1>6, AllPassed
    <2>2. CASE active' = active
      BY <1>2, <2>1, <2>2 DEF Passed
    <2>3. ASSUME NEW d \in Deployments, OperatorRollback(d) PROVE Pointed(e)'
      <3>1. /\ active' = [active EXCEPT ![Project(d)] = d] /\ d \in Created
            /\ step[d] \in Activated /\ ~Plan[d].preview
        BY <2>3 DEF OperatorRollback, Rollback, Activate, TurnInv, ShipsNothing, Activated
      <3>2. CASE d = e
        BY <2>1, <3>1, <3>2 DEF Pointed, Passed, Created
      <3>3. CASE d # e
        BY <1>1, <1>2, <2>1, <3>1, <3>3 DEF Passed
      <3> QED
        BY <3>2, <3>3
    <2> QED
      BY <1>6, <2>2, <2>3 DEF Nobodys, CreateProject, HoursPass, allVars, vars, dbVars
  <1>7. CASE RunCrash
    <2>1. Crashed(e)
      BY <1>1, <1>7, CrashHits
    <2>2. active' = active
      BY <1>7 DEF RunCrash, Crash, CrashInCreate, ServerDies
    <2> QED
      BY <1>2, <2>1, <2>2 DEF Crashed
  <1> QED
    BY <1>4, <1>5, <1>6, <1>7, WhoseStep

\* What has no deployment yet has none to keep sound.
LEMMA UnmadeIsSound ==
    ASSUME NEW e \in Deployments, e \notin Created, Orderly(e), Pointed(e), NEW p
    PROVE  Sound(e, p)
  BY DEF Orderly, Created, Pointed, Sound, Made, Unverified

\* Every step keeps verified files as they were verified.
LEMMA IntactStep ==
    ASSUME CarefulOperator, IntactInv, Separate, [RunNext]_allVars
    PROVE  IntactInv'
  <1>1. /\ WholeInv /\ WholeInv' /\ OrderInv /\ TypeOK /\ RunsOK
        /\ \A d \in Deployments : Pointed(d) /\ Pointed(d)'
    BY WholeStep, PointedStep DEF IntactInv, WholeInv, OrderInv, Separate
  <1> SUFFICES ASSUME NEW e \in Deployments, Apart(e)', e \notin overtaken', NEW p \in Files(e)
               PROVE  Sound(e, p)'
    BY <1>1 DEF IntactInv, Intact, Files
  <1>2. e \notin overtaken /\ p \in Paths /\ Orderly(e) /\ Pointed(e)
    BY <1>1, FilesType DEF RunNext, Observe, allVars, OrderInv
  <1>3. Sound(e, p)
    BY <1>1, <1>2, ApartBefore, UnmadeIsSound DEF IntactInv, Intact
  <1>4. CASE Own(e)
    BY <1>1, <1>2, <1>3, <1>4, OwnSound
  <1>5. ASSUME NEW d \in Deployments, Own(d), d # e PROVE Sound(e, p)'
    <2>1. Passed(e)
      BY <1>1, <1>5, OthersPassed
    <2>2. active'[Project(e)] = e => active[Project(e)] = e
      <3>1. CASE RunActivate(d)
        BY <1>1, <1>5, <3>1, FilesType DEF RunActivate, Activate, TypeOK
      <3> QED
        BY <1>5, <3>1, OwnPointer
    <2>3. CASE e \in Created
      <3>1. Matches(e, p) => Matches(e, p)'
        BY <1>1, <1>2, <1>5, <2>3, ApartBefore, OthersTouchElsewhere, UntouchedMatches
      <3> QED
        BY <1>3, <2>1, <2>2, <3>1 DEF Passed, Sound, Project
    <2>4. CASE e \notin Created
      <3>1. step[e] \notin Made /\ active[Project(e)] # e
        BY <1>2, <2>4 DEF Orderly, Created, Pointed
      <3> QED
        BY <1>2, <2>1, <2>2, <3>1 DEF Passed, Sound, Made, Unverified, Orderly, Project
    <2> QED
      BY <2>3, <2>4
  <1>6. CASE Nobodys \/ RunCrash
    <2>1. Matches(e, p) => Matches(e, p)'
      BY <1>1, <1>2, <1>6, NobodyTouches, UntouchedMatches
    <2>2. CASE Nobodys
      <3>1. Passed(e)
        BY <1>1, <2>2, AllPassed
      <3>2. active'[Project(e)] = e => active[Project(e)] = e \/ step[e] \in Activated
        BY <1>1, <2>2, FilesType DEF Nobodys, CreateProject, HoursPass, OperatorRollback, Rollback,
           Activate, TypeOK, allVars, vars, dbVars
      <3> QED
        BY <1>3, <2>1, <3>1, <3>2 DEF Passed, Sound, Project, Released
    <2>3. CASE RunCrash
      <3>1. Crashed(e)
        BY <1>1, <2>3, CrashHits
      <3>2. active' = active
        BY <2>3 DEF RunCrash, Crash, CrashInCreate, ServerDies
      <3> QED
        BY <1>3, <2>1, <3>1, <3>2 DEF Crashed, Sound, Project, Idle, Released, Activated
    <2> QED
      BY <1>6, <2>2, <2>3
  <1> QED
    BY <1>4, <1>5, <1>6, WhoseStep

-----------------------------------------------------------------------------
(* What is neither shipped nor protected goes.                             *)

\* A leftover is deleted before verification - given a disk that lets it be.
Swept(d, p) ==
    OnDisk(d, p) =>
        /\ step[d] \notin {"verify"} \cup Released
        /\ active[Project(d)] # d
        /\ job[d].op = "finish" => p \in job[d].todo

Unwanted(d) == Paths \ (Files(d) \cup Plan[d].keep)

Clean(d) ==
    ~FaultyDisk /\ Apart(d) /\ d \notin overtaken => \A p \in Unwanted(d) : Swept(d, p)

CleanInv == IntactInv /\ \A d \in Deployments : Clean(d)

\* A run's own step leaves its leftovers behind, or gone.
LEMMA OwnSwept ==
    ASSUME WholeInv, ~FaultyDisk, NEW d \in Deployments, d \notin overtaken, Own(d), Pointed(d),
           NEW p \in Unwanted(d), Swept(d, p)
    PROVE  Swept(d, p)'
  <1>1. OrderInv /\ TypeOK /\ RunsOK /\ Orderly(d) /\ Whole(d) /\ p \in Paths
    BY DEF WholeInv, OrderInv, Unwanted
  <1>2. /\ step \in [Deployments -> Steps] /\ ok \in [Deployments -> BOOLEAN]
        /\ job \in [Deployments -> JobType]
    BY <1>1 DEF TypeOK, RunsOK
  <1>3. ASSUME NEW next, Advance(d, next) PROVE step'[d] \in {next, "failed"}
    BY <1>2, <1>3 DEF Advance
  <1>4. Fail(d) => step'[d] = "failed"
    BY <1>2 DEF Fail
  <1>5. disk' = disk /\ ~RunCreate(d) => (OnDisk(d, p)' <=> OnDisk(d, p))
    BY <1>1, OwnLeavesAlone, UntouchedMatches
  <1>6. ~RunActivate(d) => (active[Project(d)] = d)' = (active[Project(d)] = d)
    BY OwnPointer DEF Project
  <1> USE DEF Released, Activated
  \* Before finishUploads leftovers may lie where they are.
  <1>7. ASSUME step'[d] \notin {"verify"} \cup Released, job'[d].op # "finish",
               step[d] \notin Activated, step[d] # "failed", ~RunActivate(d)
        PROVE  Swept(d, p)'
    BY <1>6, <1>7 DEF Swept, Pointed
  <1>8. CASE Start(d) \/ RunCreate(d) \/ RunCreateRefused(d) \/ RunBatch(d)
    <2>1. step[d] \in {"idle", "create", "batch"} /\ job' = job /\ ~RunActivate(d)
      BY <1>8 DEF Start, RunCreate, RunCreateRefused, RunBatch, CreateDeployment, CreateRefused,
                  AddManifestFiles, RunActivate, vars
    <2>2. job'[d].op = "idle"
      BY <1>1, <2>1, NoHandler
    <2>3. step'[d] \in {"create", "batch", "need", "previewed", "failed"}
      <3>1. CASE RunBatch(d)
        <4>1. PICK batch : Advance(d, IF batch = rest[d] THEN AfterManifest(d) ELSE "batch")
          BY <3>1 DEF RunBatch
        <4> QED
          BY <1>3, <4>1 DEF AfterManifest
      <3> QED
        BY <1>2, <1>3, <1>4, <1>8, <3>1 DEF Start, RunCreate, RunCreateRefused
    <2> QED
      BY <1>7, <2>1, <2>2, <2>3
  <1>9. CASE RunNeedBegin(d) \/ RunNeedFile(d) \/ RunNeedEnd(d)
    <2>1. step[d] = "need" /\ ~RunActivate(d)
      BY <1>1, <1>9 DEF RunNeedBegin, RunNeedFile, RunNeedEnd, NeedFile, NeedEnd, Orderly, RunActivate
    <2>2. step'[d] \in {"need", "upload", "failed"} /\ job'[d].op \in {"need", "idle"}
      BY <1>2, <1>3, <1>9, <2>1 DEF RunNeedBegin, RunNeedFile, RunNeedEnd, NeedBegin, NeedFile,
                                    NeedEnd, Inspected, Idle, runVars
    <2> QED
      BY <1>7, <2>1, <2>2
  <1>10. ASSUME NEW q \in Paths, \/ RunUploadFind(d, q) \/ RunUploadOpen(d, q)
                                 \/ RunUploadWrite(d, q) \/ RunUploadRecord(d, q)
                                 \/ RunUploadFails(d, q) \/ RunUploadUnsent(d, q)
         PROVE  Swept(d, p)'
    <2>1. step' = step /\ job' = job
      BY <1>10 DEF RunUploadFind, RunUploadOpen, RunUploadWrite, RunUploadRecord, RunUploadFails,
                   RunUploadUnsent, UploadFind, UploadOpen, UploadWrite, UploadRecord, UploadFails,
                   runVars, vars
    <2>2. step[d] = "upload"
      BY <1>1, <1>10 DEF RunUploadFind, RunUploadOpen, RunUploadWrite, RunUploadRecord,
           RunUploadFails, RunUploadUnsent, UploadOpen, UploadWrite, UploadRecord, UploadFails, Orderly
    <2>3. job[d].op = "idle" /\ ~RunActivate(d)
      BY <1>1, <2>2, NoHandler DEF RunActivate
    <2> QED
      BY <1>7, <2>1, <2>2, <2>3
  <1>11. CASE RunUploadsDone(d) \/ RunFinishRefused(d) \/ RunVerifyFailed(d) \/ Unsent(d)
    <2>1. step'[d] \in {"finish", "failed"} /\ job'[d].op = "idle"
      BY <1>2, <1>3, <1>4, <1>11
         DEF RunUploadsDone, RunFinishRefused, RunVerifyFailed, Unsent, FinishRefused,
             VerifyFailed, HandlersGone, Idle, vars
    <2>2. step[d] \notin Activated \cup {"failed"} /\ ~RunActivate(d)
      BY <1>1, <1>2, <1>11, <2>1
         DEF RunUploadsDone, RunFinishRefused, RunVerifyFailed, Unsent, VerifyFailed, Orderly,
             Calls, RunActivate
    <2> QED
      BY <1>7, <2>1, <2>2
  <1>12. CASE GiveUp(d)
    <2>1. UNCHANGED <<step, job, disk>> /\ ~RunCreate(d) /\ ~RunActivate(d)
      BY <1>2, <1>12 DEF GiveUp, RunCreate, RunActivate, CreateDeployment, Advance, vars, Created
    <2> QED
      BY <1>5, <1>6, <2>1 DEF Swept
  <1>13. CASE RunFinishRead(d)
    <2>1. PICK stale : job'[d] = [op |-> "finish", todo |-> Leftovers(d, stale), bad |-> {}]
      BY <1>2, <1>13 DEF RunFinishRead, FinishRead
    <2>2. step' = step /\ step[d] = "finish" /\ ~RunActivate(d)
      BY <1>13 DEF RunFinishRead, runVars, RunActivate
    <2>3. p \in Leftovers(d, stale)
      BY <1>1, <2>2 DEF Whole, Leftovers, Unwanted
    <2> QED
      BY <1>6, <2>1, <2>2, <2>3 DEF Swept, Pointed
  <1>14. CASE RunFinishDelete(d)
    <2>1. PICK q \in Paths : FinishDelete(d, q)
      BY <1>14 DEF RunFinishDelete
    <2>2. job[d].op = "finish" /\ UNCHANGED <<step, ids>> /\ disk' = Removed(At(d, q))
      BY <1>14, <2>1 DEF RunFinishDelete, FinishDelete, runVars, dbVars
    <2>3. job'[d].todo = job[d].todo \ {q}
      BY <1>2, <2>1 DEF FinishDelete, JobType
    <2>4. step[d] = "finish" /\ ~RunActivate(d)
      BY <1>1, <2>2 DEF Orderly, RunActivate
    <2>5. At(d, p)' = At(d, p)
      BY <2>2 DEF At, DirOf
    <2>6. OnDisk(d, p)' => OnDisk(d, p) /\ p # q
      BY <2>2, <2>5 DEF OnDisk, Removed, Restrict
    <2> QED
      BY <1>6, <2>2, <2>3, <2>4, <2>6 DEF Swept, Pointed
  <1>15. CASE RunFinishEnd(d)
    <2>1. job[d].op = "finish" /\ job[d].todo = {} /\ disk' = disk
      BY <1>15 DEF RunFinishEnd, FinishEnd
    <2>2. step[d] = "finish" /\ ~RunCreate(d)
      BY <1>1, <2>1 DEF Orderly, RunCreate
    <2> QED
      BY <1>5, <2>1, <2>2 DEF Swept
  <1>16. CASE \/ RunVerifyBegin(d) \/ RunVerifyFile(d) \/ RunVerifySucceeded(d) \/ RunActivate(d)
              \/ RunHooksEnd(d)
    <2>1. disk' = disk /\ step[d] \in {"verify", "activate", "hooks"}
      BY <1>1, <1>16 DEF RunVerifyBegin, RunVerifyFile, RunVerifySucceeded, RunActivate, RunHooksEnd,
           VerifyBegin, VerifyFile, VerifySucceeded, Activate, Orderly, vars
    <2>2. ~RunCreate(d)
      BY <2>1 DEF RunCreate
    <2> QED
      BY <1>5, <2>1, <2>2 DEF Swept
  <1> QED
    BY <1>8, <1>9, <1>10, <1>11, <1>12, <1>13, <1>14, <1>15, <1>16 DEF Own, Progress

\* Every step does.
LEMMA CleanStep ==
    ASSUME CarefulOperator, CleanInv, Separate, [RunNext]_allVars
    PROVE  CleanInv'
  <1>1. /\ IntactInv /\ IntactInv' /\ WholeInv /\ OrderInv /\ TypeOK /\ RunsOK
        /\ \A d \in Deployments : Pointed(d) /\ Pointed(d)'
    BY IntactStep DEF CleanInv, IntactInv, WholeInv, OrderInv
  <1> SUFFICES ASSUME NEW e \in Deployments, ~FaultyDisk, Apart(e)', e \notin overtaken',
                      NEW p \in Unwanted(e)
               PROVE  Swept(e, p)'
    BY <1>1 DEF CleanInv, Clean, Unwanted, Files
  <1>2. e \notin overtaken /\ p \in Paths /\ Orderly(e) /\ Pointed(e)
    BY <1>1 DEF RunNext, Observe, allVars, OrderInv, Unwanted
  <1>3. e \notin Created => step[e] \notin Made /\ active[Project(e)] # e
    BY <1>2 DEF Orderly, Created, Pointed
  <1>4. Swept(e, p)
    <2>1. CASE e \in Created
      <3>1. Apart(e)
        BY <1>1, <2>1, ApartBefore
      <3> QED
        BY <1>2, <3>1 DEF CleanInv, Clean
    <2>2. CASE e \notin Created
      BY <1>2, <1>3, <2>2 DEF Swept, Made, Unverified, Orderly
    <2> QED
      BY <2>1, <2>2
  <1>5. CASE Own(e)
    BY <1>1, <1>2, <1>4, <1>5, OwnSwept
  <1>6. ASSUME NEW d \in Deployments, Own(d), d # e PROVE Swept(e, p)'
    <2>1. Passed(e)
      BY <1>1, <1>6, OthersPassed
    <2>2. active'[Project(e)] = e => active[Project(e)] = e
      <3>1. CASE RunActivate(d)
        BY <1>1, <1>6, <3>1, FilesType DEF RunActivate, Activate, TypeOK
      <3> QED
        BY <1>6, <3>1, OwnPointer
    <2>3. CASE e \in Created
      <3>1. OnDisk(e, p)' => OnDisk(e, p)
        BY <1>1, <1>2, <1>6, <2>3, ApartBefore, OthersTouchElsewhere, UntouchedMatches
      <3> QED
        BY <1>4, <2>1, <2>2, <3>1 DEF Passed, Swept, Project
    <2>4. CASE e \notin Created
      BY <1>2, <1>3, <2>1, <2>2, <2>4 DEF Passed, Swept, Made, Unverified, Orderly, Project
    <2> QED
      BY <2>3, <2>4
  <1>7. CASE Nobodys \/ RunCrash
    <2>1. OnDisk(e, p)' => OnDisk(e, p)
      BY <1>1, <1>2, <1>7, NobodyTouches, UntouchedMatches
    <2>2. CASE Nobodys
      <3>1. Passed(e)
        BY <1>1, <2>2, AllPassed
      <3>2. active'[Project(e)] = e => active[Project(e)] = e \/ step[e] \in Activated
        BY <1>1, <2>2, FilesType DEF Nobodys, CreateProject, HoursPass, OperatorRollback, Rollback,
           Activate, TypeOK, allVars, vars, dbVars
      <3> QED
        BY <1>4, <2>1, <3>1, <3>2 DEF Passed, Swept, Project, Released
    <2>3. CASE RunCrash
      <3>1. Crashed(e)
        BY <1>1, <2>3, CrashHits
      <3>2. active' = active
        BY <2>3 DEF RunCrash, Crash, CrashInCreate, ServerDies
      <3> QED
        BY <1>4, <2>1, <3>1, <3>2 DEF Crashed, Swept, Project, Idle, Released, Activated
    <2> QED
      BY <1>7, <2>2, <2>3
  <1> QED
    BY <1>5, <1>6, <1>7, WhoseStep

-----------------------------------------------------------------------------
(* Directories hold nothing but shipped files.                             *)

ShippedOnly ==
    \A k \in DOMAIN disk : \E e \in Created : k[1] = DirOf(e) /\ k[2] \in Files(e)

\* No step puts a file where none is shipped.
LEMMA ShippedStep ==
    ASSUME OrderInv, ShippedOnly, [RunNext]_allVars
    PROVE  ShippedOnly'
  <1> SUFFICES ASSUME NEW k \in DOMAIN disk'
               PROVE  \E e \in Created' : k[1] = DirOf(e)' /\ k[2] \in Files(e)
    BY DEF ShippedOnly, Files
  <1>1. CASE k \in DOMAIN disk
    BY <1>1, DirectoriesStay DEF ShippedOnly
  <1>2. CASE k \notin DOMAIN disk
    <2>1. disk' # disk
      BY <1>2
    <2>2. PICK d \in Deployments : Own(d)
      <3>1. Nobodys \/ RunCrash => disk' = disk
        BY DEF Nobodys, RunCrash, Crash, CrashInCreate, ServerDies, CreateProject,
               OperatorRollback, Rollback, Activate, HoursPass, allVars, vars
      <3> QED
        BY <2>1, <3>1, WhoseStep
    <2>3. Touches(d)
      BY <2>2, OwnTouches
    <2>4. ~\E p : disk' = Removed(At(d, p))
      BY <1>2 DEF Removed, Restrict
    <2>5. PICK p \in Files(d), c \in Contents \cup {Torn} : disk' = Written(At(d, p), c) /\ step[d] = "upload"
      BY <2>1, <2>3, <2>4 DEF Touches
    <2>6. k = At(d, p)
      BY <1>2, <2>5 DEF Written
    <2>7. d \in Created
      BY <2>5 DEF OrderInv, Orderly, Made, Unverified, Created
    <2> QED
      BY <2>6, <2>7, DirectoriesStay DEF At
  <1> QED
    BY <1>1, <1>2

\* A directory of its own has only its deployment's files.
LEMMA OwnFilesOnly ==
    ASSUME ShippedOnly, OnlyInPlaceShare, NEW d \in Created, ~Plan[d].inPlace,
           NEW p \in Paths, OnDisk(d, p)
    PROVE  p \in Files(d)
  <1>1. PICK e \in Created : At(d, p)[1] = DirOf(e) /\ At(d, p)[2] \in Files(e)
    BY DEF ShippedOnly, OnDisk
  <1>2. At(d, p)[1] = DirOf(d) /\ At(d, p)[2] = p
    BY DEF At
  <1>3. e = d
    BY <1>1, <1>2 DEF OnlyInPlaceShare
  <1> QED
    BY <1>1, <1>2, <1>3

\* The part of PublishedIsWhole that is about versioned deployments.
VersionedIsWhole ==
    \A d \in Deployments \ overtaken :
        ~Plan[d].inPlace /\ (step[d] \in Released \/ active[Project(d)] = d) => Mirrors(d)

\* All that is known of the state: files, leftovers, directories and the pointer.
Settled == CleanInv /\ ShippedOnly /\ Separate /\ ActiveBelongsToProject

\* All of this holds throughout.
LEMMA SettledCorrect ==
    ASSUME CarefulOperator, NoProjectNamedLikeADeployment(Projects)
    PROVE  RunSpec => []Settled
  <1>1. RunInit => CleanInv /\ ShippedOnly
    <2>1. RunInit => WholeInv
      BY OrderInit DEF RunInit, WholeInv, Whole
    <2>2. ASSUME RunInit, NEW d \in Deployments
          PROVE  Pointed(d) /\ \A p : Sound(d, p) /\ Swept(d, p)
      <3>1. active[Project(d)] # d
        BY <2>2, FilesType, NullAssumption DEF RunInit, Init
      <3> QED
        BY <2>2, <3>1 DEF RunInit, Init, Pointed, Sound, Swept, Idle, Released, Activated
    <2>3. RunInit => ShippedOnly
      BY DEF RunInit, Init, ShippedOnly
    <2> QED
      BY <2>1, <2>2, <2>3 DEF CleanInv, Clean, IntactInv, Intact
  <1>2. CleanInv /\ Separate /\ [RunNext]_allVars => CleanInv'
    BY CleanStep
  <1>3. CleanInv /\ ShippedOnly /\ [RunNext]_allVars => ShippedOnly'
    BY ShippedStep DEF CleanInv, IntactInv, WholeInv
  <1> QED
    BY <1>1, <1>2, <1>3, RunsAreSeparate, RunsAreCallers, PointerCorrect, PTL DEF RunSpec, Settled

\* Released and active deployments that have their directory to themselves hold
\* what they ship, and versioned ones nothing else.
LEMMA SettledMatches ==
    ASSUME Settled, NEW d \in Deployments, d \notin overtaken, Apart(d),
           step[d] \in Released \/ active[Project(d)] = d
    PROVE  /\ \A p \in Files(d) : Matches(d, p)
           /\ ~Plan[d].inPlace \/ ~FaultyDisk => Mirrors(d)
  <1>1. \A p \in Files(d) : Matches(d, p)
    BY DEF Settled, CleanInv, IntactInv, Intact, Sound
  <1>2. d \in Created
    BY DEF Settled, CleanInv, IntactInv, Pointed, WholeInv, OrderInv, Orderly, Made, Created
  <1>3. CASE ~Plan[d].inPlace
    <2>1. \A p \in Paths \ Files(d) : ~OnDisk(d, p)
      BY <1>2, <1>3, OwnFilesOnly DEF Settled, Separate
    <2> QED
      BY <1>1, <2>1 DEF Mirrors
  <1>4. CASE ~FaultyDisk
    <2>1. \A p \in Unwanted(d) : ~OnDisk(d, p)
      BY <1>4 DEF Settled, CleanInv, Clean, Swept
    <2> QED
      BY <1>1, <2>1 DEF Mirrors, Unwanted
  <1> QED
    BY <1>1, <1>3, <1>4

\* From verifyDeployment's "success" on, and while it is active, a versioned
\* deployment that was not overtaken holds what its run meant to ship and nothing
\* else: under lost calls, crashes, failing disks, edits under way and any other
\* runs, as long as operators roll back to deployments that were activated.
THEOREM VersionedCorrect ==
    ASSUME CarefulOperator, NoProjectNamedLikeADeployment(Projects)
    PROVE  RunSpec => []VersionedIsWhole
  <1>1. Settled => VersionedIsWhole
    BY SettledMatches DEF VersionedIsWhole, Apart
  <1> QED
    BY <1>1, SettledCorrect, PTL

\* A later preview is no run of its own.
LEMMA PreviewsPublishNothing ==
    ASSUME Settled, NEW d \in Deployments, step[d] \in Released \/ active[Project(d)] = d
    PROVE  ~Plan[d].preview
  BY DEF Settled, Separate, TurnInv, ShipsNothing, CleanInv, IntactInv, Pointed, Released, Activated

\* The same holds of update-in-place deployments until a later run gets hold of
\* their directory, if the runs of a project wait for the server to be through
\* with one another and files can be deleted.
THEOREM PublishedCorrect ==
    ASSUME CarefulOperator, NoProjectNamedLikeADeployment(Projects),
           (StartRule = "quiet" /\ ~FaultyDisk) \/ \A d \in Deployments : ~Plan[d].inPlace
    PROVE  RunSpec => []PublishedIsWhole
  <1>1. Settled => PublishedIsWhole
    <2> SUFFICES ASSUME Settled, NEW d \in Deployments, d \notin overtaken, LastWriter(d),
                        step[d] \in Released \/ active[Project(d)] = d
                 PROVE  Mirrors(d)
      BY DEF PublishedIsWhole
    <2>1. Apart(d) /\ (~Plan[d].inPlace \/ ~FaultyDisk)
      BY PreviewsPublishNothing DEF Apart
    <2> QED
      BY <2>1, SettledMatches
  <1> QED
    BY <1>1, SettledCorrect, PTL

-----------------------------------------------------------------------------
(* Atomic publishing.                                                      *)

\* What each project serves, read off the pointer: the build its active
\* deployment shipped.
Shipped == [p \in Projects |->
               IF active[p] = NoDeployment THEN NoDeployment ELSE Plan[active[p]].files]

Serves == [p \in Projects |->
              IF active[p] = NoDeployment THEN NoDeployment ELSE Image(active[p])]

Deployed == [p \in Projects |->
                {Plan[d].files : d \in {e \in Deployments : Project(e) = p}}]

\* A plan's files are a function.
LEMMA FilesAreFunction ==
    ASSUME NEW d \in Deployments
    PROVE  Plan[d].files = [q \in Files(d) |-> Plan[d].files[q]]
  <1>1. Plan[d].files \in UNION {[S -> Contents] : S \in SUBSET Paths}
    BY PlanAssumption DEF PlanType
  <1> QED
    BY <1>1 DEF Files

\* As long as nothing is overtaken, the directories hold what the pointers promise.
LEMMA ServesWhatWasShipped ==
    ASSUME Settled, overtaken = {}, \A d \in Deployments : ~Plan[d].inPlace
    PROVE  Serves = Shipped
  <1> SUFFICES ASSUME NEW p \in Projects, active[p] # NoDeployment
               PROVE  Image(active[p]) = Plan[active[p]].files
    BY DEF Serves, Shipped
  <1> DEFINE d == active[p]
  <1>1. d \in Created /\ Project(d) = p /\ d \in Deployments
    BY DEF Settled, ActiveBelongsToProject, OfProject, Created
  <1>2. \A q \in Files(d) : Matches(d, q)
    BY <1>1, SettledMatches DEF Apart
  <1>3. {q \in Paths : OnDisk(d, q)} = Files(d)
    BY <1>1, <1>2, OwnFilesOnly, FilesType DEF Matches, Settled, Separate
  <1>4. Image(d) = [q \in Files(d) |-> Plan[d].files[q]]
    BY <1>2, <1>3 DEF Image, Matches
  <1> QED
    BY <1>1, <1>4, FilesAreFunction

\* A step of the pointer publishes one of the project's builds; no other step is
\* seen at all.
LEMMA PublishStep ==
    ASSUME OrderInv, [RunNext]_allVars
    PROVE  \/ Shipped' = Shipped
           \/ \E p \in Projects : \E build \in Deployed[p] :
                 Shipped' = [Shipped EXCEPT ![p] = build]
  <1>1. TypeOK
    BY DEF OrderInv
  <1>2. active' = active \/ \E d \in Created : active' = [active EXCEPT ![Project(d)] = d]
    <2>1. Creation => active' = active
      BY DEF Creation, CreateDeployment
    <2> QED
      BY <1>1, <2>1, StepIsCall, RowsStep DEF RowsMove, PointerMoves
  <1>3. CASE active' = active
    BY <1>3 DEF Shipped
  <1>4. ASSUME NEW d \in Created, active' = [active EXCEPT ![Project(d)] = d]
        PROVE  \E p \in Projects : \E build \in Deployed[p] :
                  Shipped' = [Shipped EXCEPT ![p] = build]
    <2>1. d \in Deployments /\ Project(d) \in Projects /\ d # NoDeployment
      BY FilesType, NullAssumption DEF Created
    <2>2. Plan[d].files \in Deployed[Project(d)]
      BY <2>1 DEF Deployed
    <2>3. active \in [Projects -> Deployments \cup {NoDeployment}]
      BY <1>1 DEF TypeOK
    <2>4. Shipped' = [Shipped EXCEPT ![Project(d)] = Plan[d].files]
      BY <1>4, <2>1, <2>3 DEF Shipped
    <2> QED
      BY <2>1, <2>2, <2>4
  <1> QED
    BY <1>2, <1>3, <1>4

NoneOvertaken == overtaken = {}

\* Versioned deployments publish atomically: under any interleaving of runs,
\* crashes and lost calls, what a project serves goes from one complete build to
\* the next in one step - as long as the cleanup overtakes no run.
THEOREM PublishingIsAtomic ==
    ASSUME CarefulOperator, NoProjectNamedLikeADeployment(Projects),
           \A d \in Deployments : ~Plan[d].inPlace
    PROVE  RunSpec /\ []NoneOvertaken => PublishesAtomically
  <1>1. RunInit => Publish!Init
    BY DEF RunInit, Init, Publish!Init
  <1>2. Settled /\ NoneOvertaken => Serves = Shipped
    BY ServesWhatWasShipped DEF NoneOvertaken
  <1>3. (Settled /\ NoneOvertaken => Serves = Shipped)'
    BY <1>2, PTL
  <1>4. Settled => OrderInv
    BY DEF Settled, CleanInv, IntactInv, WholeInv
  <1>5. Settled /\ NoneOvertaken /\ Settled' /\ NoneOvertaken' /\ [RunNext]_allVars
            => [Publish!Next]_Serves
    <2> SUFFICES ASSUME Settled, NoneOvertaken, Settled', NoneOvertaken', [RunNext]_allVars
                 PROVE  [Publish!Next]_Serves
      OBVIOUS
    <2>1. Serves = Shipped /\ Serves' = Shipped'
      BY <1>2, <1>3
    <2>2. \/ Shipped' = Shipped
          \/ \E p \in Projects : \E build \in Deployed[p] : Shipped' = [Shipped EXCEPT ![p] = build]
      BY <1>4, PublishStep
    <2>3. \/ Serves' = Serves
          \/ \E p \in Projects : \E build \in Deployed[p] : Serves' = [Serves EXCEPT ![p] = build]
      BY <2>1, <2>2
    <2> QED
      BY <2>3 DEF Publish!Next, Publish!Publish, Serves, Deployed
  <1>6. RunSpec => []Settled
    BY SettledCorrect
  <1>7. RunSpec /\ []NoneOvertaken => Publish!Init /\ [][Publish!Next]_Serves
    BY <1>1, <1>5, <1>6, PTL DEF RunSpec
  <1> QED
    BY <1>7, PTL DEF PublishesAtomically, Publish!Spec, Serves

\* No project is deployed more often than the cleanup keeps manifests for.
FewDeployments ==
    \A p \in Projects : Cardinality({d \in Deployments : Project(d) = p}) <= Keep

\* Then the cleanup keeps them all.
LEMMA FewAreRetained ==
    ASSUME FewDeployments, TypeOK, NEW S \in Retained
    PROVE  Created \subseteq S
  <1> SUFFICES ASSUME NEW d \in Created PROVE d \in S
    OBVIOUS
  <1> DEFINE p == Project(d)  All == {e \in Deployments : Project(e) = p}
  <1>1. d \in OfProject(p) /\ OfProject(p) \subseteq All /\ All \subseteq Deployments /\ p \in Projects
    BY FilesType DEF OfProject, Created
  <1>2. Cardinality(OfProject(p)) <= Keep
    <2>1. Cardinality(All) <= Keep
      BY <1>1 DEF FewDeployments
    <2>2. /\ Cardinality(OfProject(p)) <= Cardinality(All)
          /\ Cardinality(OfProject(p)) \in Nat /\ Cardinality(All) \in Nat
      BY <1>1, SubsetFinite
    <2> QED
      BY <2>1, <2>2, BoundsAssumption
  <1>3. IsNewest(S \cap OfProject(p), p)
    BY <1>1 DEF Retained
  <1> QED
    BY <1>1, <1>2, <1>3 DEF IsNewest

\* Nobody is overtaken then.
LEMMA FewOvertakeNone ==
    ASSUME FewDeployments, OrderInv, NoneOvertaken, [RunNext]_allVars
    PROVE  NoneOvertaken'
  <1>1. TypeOK /\ manifest \in [Deployments -> {NoManifest} \cup SUBSET Paths]
    BY DEF OrderInv, TypeOK
  <1>2. ASSUME NEW S \in Retained, NEW d \in Deployments PROVE TrimmedManifests(S)[d] = manifest[d]
    <2>1. d \notin S => manifest[d] = NoManifest
      BY <1>1, FewAreRetained DEF OrderInv, Orderly, Created
    <2> QED
      BY <2>1 DEF TrimmedManifests
  <1>3. ASSUME NEW d \in Deployments, manifest[d] # NoManifest PROVE manifest'[d] # NoManifest
    <2>1. CASE Creation
      <3>1. PICK e \in Deployments : \E T \in SUBSET Files(e) : CreateDeployment(e, T)
        BY <2>1 DEF Creation
      <3>2. PICK S \in Retained, T \in SUBSET Files(e) :
                manifest' = [TrimmedManifests(S) EXCEPT ![e] = T]
        BY <3>1 DEF CreateDeployment
      <3>3. T # NoManifest
        BY FilesType, NullAssumption
      <3>4. TrimmedManifests(S) \in [Deployments -> {NoManifest} \cup SUBSET Paths]
        BY <1>1, TrimmedType
      <3> QED
        BY <1>2, <1>3, <3>2, <3>3, <3>4
    <2>2. CASE RowsMove
      <3>1. CASE manifest' = manifest
        BY <1>3, <3>1
      <3>2. ASSUME NEW S \in Retained, manifest' = TrimmedManifests(S)
            PROVE  manifest'[d] # NoManifest
        BY <1>2, <1>3, <3>2
      <3>3. ASSUME NEW e \in Deployments, NEW m \in SUBSET Paths,
                   manifest' = [manifest EXCEPT ![e] = m]
            PROVE  manifest'[d] # NoManifest
        BY <1>1, <1>3, <3>3, NullAssumption
      <3> QED
        BY <2>2, <3>1, <3>2, <3>3 DEF RowsMove, ManifestsMove
    <2> QED
      BY <1>1, <2>1, <2>2, StepIsCall, RowsStep
  <1> QED
    BY <1>3 DEF NoneOvertaken, RunNext, Observe, allVars

\* A project deployed no more often than manifests are kept for publishes
\* atomically, come what may.
THEOREM FewPublishAtomically ==
    ASSUME CarefulOperator, NoProjectNamedLikeADeployment(Projects),
           \A d \in Deployments : ~Plan[d].inPlace, FewDeployments
    PROVE  RunSpec => PublishesAtomically
  <1>1. RunInit => NoneOvertaken
    BY DEF RunInit, NoneOvertaken
  <1>2. OrderInv /\ NoneOvertaken /\ [RunNext]_allVars => NoneOvertaken'
    BY FewOvertakeNone
  <1>3. RunSpec => []NoneOvertaken
    BY <1>1, <1>2, OrderCorrect, PTL DEF RunSpec
  <1> QED
    BY <1>3, PublishingIsAtomic, PTL
=============================================================================
