----------------------------- MODULE DeployRun ------------------------------
(***************************************************************************)
(* `deploy run` driving the server.  Each member of Deployments is one run *)
(* of the CLI: it makes its calls in order, waits for each answer, uploads *)
(* the needed files in parallel, and stops at the first error.             *)
(*                                                                         *)
(* step[d] is the call the run is waiting for (or, between two calls, about*)
(* to make: nothing can tell these apart).  ok[d] becomes FALSE when the   *)
(* run has failed on the client's side (an error, a timeout, Ctrl-C) while *)
(* its call may still be queued or running at the server: the server does  *)
(* not stop a handler whose client has gone.                               *)
(***************************************************************************)
EXTENDS DeployServer, FiniteSetsExt

CONSTANTS
    BatchSize,      \* MANIFEST_BATCH_SIZE, 500 in the code
    Edits,          \* contents a local file may be edited to during the run
    Losses,         \* TRUE: clients may give up or die, requests may be lost
    StartRule,      \* which runs of a project may overlap: see MayStart
    CarefulOperator \* TRUE: roll back only to what a run has activated

ASSUME RunAssumption ==
    /\ BatchSize \in Nat \ {0}
    /\ Edits \subseteq Contents
    /\ Losses \in BOOLEAN
    /\ StartRule \in {"any", "exited", "quiet"}
    /\ CarefulOperator \in BOOLEAN

VARIABLES
    step,       \* where the run is
    ok,         \* the client is alive and has seen no error
    rest,       \* files still to list in a batch, or to upload
    overtaken   \* history: deployments whose manifest the cleanup dropped
                \* before they were verified

runVars == <<step, ok, rest>>
allVars == <<vars, step, ok, rest, overtaken>>

Calls    == {"create", "batch", "need", "upload", "finish", "verify",
             "activate", "hooks"}
Ended    == {"done", "warned", "previewed", "failed"}
Steps    == {"idle"} \cup Calls \cup Ended
Unverified == {"batch", "need", "upload", "finish", "verify"}
Activated  == {"hooks", "done", "warned"}
Released   == {"activate"} \cup Activated    \* verify has answered "success"

RunInit ==
    /\ Init
    /\ step = [d \in Deployments |-> "idle"]
    /\ ok = [d \in Deployments |-> TRUE]
    /\ rest = [d \in Deployments |-> {}]
    /\ overtaken = {}

\* The answer arrives: on to the next call, unless the client has gone.
Advance(d, next) ==
    /\ step' = [step EXCEPT ![d] = IF ok[d] THEN next ELSE "failed"]
    /\ UNCHANGED ok

Fail(d) == step' = [step EXCEPT ![d] = "failed"] /\ UNCHANGED <<ok, rest>>

Batched(d) == Cardinality(Files(d)) > BatchSize

\* What follows once the server has the whole manifest.
AfterManifest(d) == IF Plan[d].preview THEN "previewed" ELSE "need"

HandlersGone(d) == job[d] = Idle /\ \A p \in Paths : uploading[d][p] = "no"

\* "any": runs overlap freely.  "exited": one starts a run when the CLI of the
\* previous ones has exited.  "quiet": when the server has finished with them too.
\* A preview ships nothing, and may be made at any time.
MayStart(d) ==
    \A e \in Deployments \ {d} :
      Project(e) = Project(d) /\ ~Plan[d].preview /\ ~Plan[e].preview =>
        CASE StartRule = "any"    -> TRUE
          [] StartRule = "exited" -> step[e] \in {"idle"} \cup Ended \/ ~ok[e]
          [] StartRule = "quiet"  -> step[e] \in {"idle"} \cup Ended

Start(d) ==
    /\ step[d] = "idle"
    /\ Plan[d].preview => Batched(d)    \* a small preview creates nothing
    /\ MayStart(d)
    /\ step' = [step EXCEPT ![d] = "create"]
    /\ UNCHANGED <<vars, ok, rest>>

RunCreate(d) ==
    /\ step[d] = "create"
    /\ CreateDeployment(d, IF Batched(d) THEN {} ELSE Files(d))
    /\ rest' = [rest EXCEPT ![d] = IF Batched(d) THEN Files(d) ELSE {}]
    /\ Advance(d, IF Batched(d) THEN "batch" ELSE "need")

RunCreateRefused(d) == step[d] = "create" /\ CreateRefused(d) /\ Fail(d)

\* One addManifestFiles call; after the last one finalizeManifest only makes
\* directories.
RunBatch(d) ==
    /\ step[d] = "batch"
    /\ \E batch \in SUBSET rest[d] :
          /\ Cardinality(batch) = BatchSize \/ batch = rest[d]
          /\ Cardinality(batch) <= BatchSize
          /\ AddManifestFiles(d, batch)
          /\ rest' = [rest EXCEPT ![d] = @ \ batch]
          /\ Advance(d, IF batch = rest[d] THEN AfterManifest(d) ELSE "batch")

RunNeedBegin(d) == step[d] = "need" /\ NeedBegin(d) /\ UNCHANGED runVars
RunNeedFile(d)  == \E p \in Paths : NeedFile(d, p) /\ UNCHANGED runVars
RunNeedEnd(d) ==
    /\ NeedEnd(d)
    /\ rest' = [rest EXCEPT ![d] = IF ok[d] THEN job[d].bad ELSE {}]
    /\ Advance(d, "upload")
-----------------------------------------------------------------------------
(* upload_all: up to 50 workers, so any number of files in any order.  The *)
(* local file is read again, and may have been edited since it was hashed. *)

RunUploadFind(d, p) ==
    /\ step[d] = "upload"
    /\ p \in rest[d]
    /\ UploadFind(d, p)
    /\ rest' = [rest EXCEPT ![d] = @ \ {p}]
    /\ UNCHANGED <<step, ok>>

RunUploadOpen(d, p) == UploadOpen(d, p) /\ UNCHANGED runVars

RunUploadWrite(d, p) ==
    /\ p \in Files(d)
    /\ \E c \in {Plan[d].files[p]} \cup Edits : UploadWrite(d, p, c)
    /\ UNCHANGED runVars

RunUploadFails(d, p) ==
    /\ UploadFails(d, p)
    /\ ok' = [ok EXCEPT ![d] = FALSE]
    /\ UNCHANGED <<step, rest>>

RunUploadRecord(d, p) == UploadRecord(d, p) /\ UNCHANGED runVars

\* A file a failed run no longer sends.
RunUploadUnsent(d, p) ==
    /\ step[d] = "upload"
    /\ p \in rest[d]
    /\ ~ok[d]
    /\ rest' = [rest EXCEPT ![d] = @ \ {p}]
    /\ UNCHANGED <<vars, step, ok>>

RunUploadsDone(d) ==
    /\ step[d] = "upload"
    /\ rest[d] = {}
    /\ HandlersGone(d)
    /\ Advance(d, "finish")
    /\ UNCHANGED <<vars, rest>>

-----------------------------------------------------------------------------
RunFinishRead(d)    == step[d] = "finish" /\ FinishRead(d) /\ UNCHANGED runVars
RunFinishRefused(d) ==
    step[d] = "finish" /\ FinishRefused(d) /\ Fail(d) /\ UNCHANGED vars
RunFinishDelete(d)  == \E p \in Paths : FinishDelete(d, p) /\ UNCHANGED runVars
RunFinishEnd(d)     == FinishEnd(d) /\ Advance(d, "verify") /\ UNCHANGED rest

\* verifyDeployment's refusal while needed rows remain has no action here:
\* NoNeededRowLeftBehind shows that no CLI run meets it.
RunVerifyBegin(d)   == step[d] = "verify" /\ VerifyBegin(d) /\ UNCHANGED runVars
RunVerifyFile(d)    == \E p \in Paths : VerifyFile(d, p) /\ UNCHANGED runVars
\* Variant: the client does not look at the status inside the answer.
RunVerifyUnread(d)  == VerifyFailed(d) /\ Advance(d, "activate") /\ UNCHANGED rest
RunVerifyFailed(d)  == VerifyFailed(d) /\ Fail(d)
RunVerifySucceeded(d) ==
    VerifySucceeded(d) /\ Advance(d, "activate") /\ UNCHANGED rest

\* The pointer is written before the hooks run.
RunActivate(d) ==
    /\ step[d] = "activate"
    /\ Activate(d)
    /\ step' = [step EXCEPT ![d] = "hooks"]
    /\ UNCHANGED <<ok, rest>>

\* A failed hook fails the run, not the activation.
RunHooksEnd(d) ==
    /\ step[d] = "hooks"
    /\ \E end \in {"done", "warned"} : Advance(d, end)
    /\ UNCHANGED <<vars, rest>>

-----------------------------------------------------------------------------
\* The client times out or is killed, or a connection breaks.
GiveUp(d) ==
    /\ Losses
    /\ step[d] \in Calls
    /\ ok[d]
    /\ ok' = [ok EXCEPT ![d] = FALSE]
    /\ UNCHANGED <<vars, step, rest>>

\* The call the client gave up on never reached the server.
Unsent(d) ==
    /\ ~ok[d]
    /\ step[d] \in Calls \ {"upload", "hooks"}
    /\ job[d] = Idle
    /\ step' = [step EXCEPT ![d] = "failed"]
    /\ UNCHANGED <<vars, ok, rest>>

\* Variant: an upload that the crash cut short is taken for done.
CrashRunsUnnoticed(cut) ==
    /\ step' = [d \in Deployments |->
                   IF d \in cut \/ job[d] # Idle \/ step[d] = "hooks"
                   THEN "failed" ELSE step[d]]
    /\ UNCHANGED <<ok, rest>>

\* A crash fails the runs with a handler at the server; those between calls go
\* on with the restarted server.
CrashRuns(cut) ==
    /\ step' = [d \in Deployments |->
                   IF d \in cut \/ job[d] # Idle \/ step[d] = "hooks"
                   THEN "failed" ELSE step[d]]
    /\ ok' = [d \in Deployments |-> ok[d] /\ HandlersGone(d)]
    /\ UNCHANGED rest

RunCrash ==
    \/ Crash /\ CrashRuns({})
    \/ \E d \in Deployments :
          step[d] = "create" /\ CrashInCreate(d) /\ CrashRuns({d})

\* `deploy rollback` to a deployment the project has, unless it is active.
OperatorRollback(d) ==
    /\ active[Project(d)] # d
    /\ CarefulOperator => step[d] \in Activated
    /\ Rollback(Project(d), d)
    /\ UNCHANGED runVars

-----------------------------------------------------------------------------
\* What the server and a live client do for a run once it is under way.
Progress(d) ==
    \/ RunCreate(d) \/ RunCreateRefused(d) \/ RunBatch(d)
    \/ RunNeedBegin(d) \/ RunNeedFile(d) \/ RunNeedEnd(d)
    \/ \E p \in Paths :
          \/ RunUploadFind(d, p) \/ RunUploadOpen(d, p) \/ RunUploadWrite(d, p)
          \/ RunUploadRecord(d, p) \/ RunUploadFails(d, p)
    \/ RunUploadsDone(d)
    \/ RunFinishRead(d) \/ RunFinishRefused(d) \/ RunFinishDelete(d) \/ RunFinishEnd(d)
    \/ RunVerifyBegin(d) \/ RunVerifyFile(d)
    \/ RunVerifyFailed(d) \/ RunVerifySucceeded(d)
    \/ RunActivate(d) \/ RunHooksEnd(d)

RunAction ==
    \/ \E p \in Projects : CreateProject(p) /\ UNCHANGED runVars
    \/ \E d \in Deployments :
          \/ Start(d) \/ Progress(d) \/ GiveUp(d) \/ Unsent(d)
          \/ OperatorRollback(d)
          \/ \E p \in Paths : RunUploadUnsent(d, p)
    \/ RunCrash
    \/ HoursPass /\ UNCHANGED runVars

\* History: the cleanup drops the manifest of a run still on its way.
Observe ==
    overtaken' = overtaken \cup
        {d \in Deployments : /\ manifest[d] # NoManifest
                             /\ manifest'[d] = NoManifest
                             /\ step'[d] \in Unverified}

RunNext == RunAction /\ Observe

RunSpec == RunInit /\ [][RunNext]_allVars

\* Handlers run on the server's blocking threads and the client answers, so a
\* run that can go on does.  Nothing obliges a run to start, an operator to act
\* or a server to crash.
Fairness == \A d \in Deployments : /\ WF_allVars(Progress(d) /\ Observe)
                                   /\ WF_allVars(Unsent(d) /\ Observe)
                                   /\ \A p \in Paths :
                                         WF_allVars(RunUploadUnsent(d, p) /\ Observe)
FairSpec == RunSpec /\ Fairness

-----------------------------------------------------------------------------
RunTypeOK ==
    /\ TypeOK
    /\ step \in [Deployments -> Steps]
    /\ ok \in [Deployments -> BOOLEAN]
    /\ rest \in [Deployments -> SUBSET Paths]
    /\ overtaken \subseteq Deployments

\* Every shipped file is there with the shipped content, and nothing else but
\* what the config protects.
Mirrors(d) ==
    /\ \A p \in Files(d) : Matches(d, p)
    /\ \A p \in Paths \ Files(d) : OnDisk(d, p) => p \in Plan[d].keep

\* No later run writes into the directory of d.
LastWriter(d) ==
    Plan[d].inPlace =>
        \A e \in Created : DirOf(e) = DirOf(d) => ids[e] <= ids[d]

\* From the moment verifyDeployment answers "success", and for as long as the
\* deployment is the active one, its directory holds what the run meant to
\* ship and nothing unprotected besides: whatever uploads were cut short, files
\* edited under way, or handlers outlived their client.
PublishedIsWhole ==
    \A d \in Deployments \ overtaken :
        (step[d] \in Released \/ active[Project(d)] = d) /\ LastWriter(d)
            => Mirrors(d)

\* finishUploads deletes from the directory it shares with the uploads, with
\* no lock: between the last upload and activation no shipped file of a
\* versioned deployment goes missing.
FinishKeepsShippedFiles ==
    \A d \in Deployments \ overtaken :
        step[d] \in {"finish", "verify"} \cup Released /\ ~Plan[d].inPlace
            => \A p \in Files(d) : OnDisk(d, p)

\* Once a run has got past its uploads it has left no deployment_needed_file
\* row behind, so verifyDeployment never refuses a run that sent everything.
NoNeededRowLeftBehind ==
    \A r \in needed : step[r[1]] \notin {"finish", "verify"} \cup Released

\* The manifest a run is working from is the one it sent: nothing of it is
\* lost until the run is past verification.
ManifestIsWholeInFlight ==
    \A d \in Deployments \ overtaken :
        step[d] \in {"need", "upload", "finish", "verify"} => manifest[d] = Files(d)

\* Every run that has started ends, whatever is lost or crashes: no handler
\* waits for the database for ever.
RunsEnd == \A d \in Deployments : step[d] \in Calls ~> step[d] \in Ended

\* What keeps a run from publishing: an error or loss on its client's side, a
\* crash, its manifest dropped, or other runs in its directory.
Disturbed(d) ==
    \/ ~ok[d]
    \/ crashes > 0
    \/ d \in overtaken
    \/ \E e \in Created \ {d} : DirOf(e) = DirOf(d)

\* A run of a bound project gets its deployment activated unless something
\* disturbs it; overlapping runs in directories of their own do not.
UndisturbedRunsPublish ==
    \A d \in Deployments :
        step[d] = "create" /\ Project(d) \in bound
            ~> step[d] \in {"done", "warned"} \/ Disturbed(d)

-----------------------------------------------------------------------------
(* What each project serves: nothing, or a complete build.                 *)

Image(d) == [p \in {q \in Paths : OnDisk(d, q)} |-> disk[At(d, p)]]

Publish == INSTANCE AtomicPublish WITH
    Builds <- [p \in Projects |->
                  {Plan[d].files : d \in {e \in Deployments : Project(e) = p}}],
    Nothing <- NoDeployment,
    served <- [p \in Projects |->
                  IF active[p] = NoDeployment THEN NoDeployment ELSE Image(active[p])]

\* Versioned deployments replace one another atomically: what a project serves
\* goes from one complete build to another, never through a partial one.
PublishesAtomically == Publish!Spec

-----------------------------------------------------------------------------
(* Statements of the repository's text that the code does not keep.        *)

\* "verifies hashes, and activates": an active deployment holds what it ships,
\* overtaken or not.
ActiveIsWhole ==
    \A d \in Deployments :
        active[Project(d)] = d /\ LastWriter(d) => \A p \in Files(d) : Matches(d, p)

\* "Rollback reactivates a previous versioned directory": the active deployment
\* is one that some run has activated.
RollbackReactivates ==
    \A d \in Deployments : active[Project(d)] = d => step[d] \in Activated
=============================================================================
