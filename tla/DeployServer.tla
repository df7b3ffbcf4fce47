---------------------------- MODULE DeployServer ----------------------------
(***************************************************************************)
(* The deployment lifecycle as deploy-server runs it: the handlers of      *)
(* createProject, createDeployment, addManifestFiles, getNeededFiles,      *)
(* uploadOneFile / finishMultiPartUpload, finishUploads, verifyDeployment, *)
(* activateDeployment and rollback, over one SQLite database behind a      *)
(* mutex and a directory tree that is not protected by it.                 *)
(*                                                                         *)
(* A handler is cut where the code releases the mutex or touches a file:   *)
(* what runs under one `state.db()` guard and reads no file is one action, *)
(* and a loop over files is one action per file.  Nothing else holds the   *)
(* mutex across steps, so it is held exactly while some deployment is in   *)
(* getNeededFiles or verifyDeployment.                                     *)
(*                                                                         *)
(* Spec lets any caller make any call at any time; DeployRun restricts the *)
(* calls to those the CLI makes.                                           *)
(*                                                                         *)
(* Definitions introduced as a "Variant" are not part of the specification *)
(* but single-fault versions of the definition that follows them, used to  *)
(* test that the properties notice such a fault.                           *)
(***************************************************************************)
EXTENDS DeployNames, FiniteSets, Functions

CONSTANTS
    Projects,       \* project names
    Deployments,    \* the createDeployment calls made over the whole history
    Plan,           \* what each of them ships: see PlanType
    Paths,          \* relative paths
    Contents,       \* file contents, one per hash
    Torn,           \* a file being written: no manifest names its hash
    NoManifest,     \* manifest_json is null
    NoDeployment,   \* no active_deployment row
    Keep,           \* MANIFESTS_KEPT_PER_PROJECT, 5 in the code
    FaultyDisk,     \* TRUE: single file and row writes may fail
    MaxCrashes      \* bound on server crashes

PlanType ==
    [ project  : Projects,
      inPlace  : BOOLEAN,                  \* the update-in-place setting
      files    : UNION {[S -> Contents] : S \in SUBSET Paths},
      keep     : SUBSET Paths,    \* ignored, ignore-destination, preserved
      prunable : SUBSET Paths,    \* preserved with a max age
      preview  : BOOLEAN ]        \* made by `deploy preview`, never activated

ASSUME FiniteAssumption  == IsFiniteSet(Deployments)
ASSUME NamesAssumption   == Projects \subseteq Names
ASSUME PlanAssumption    == Plan \in [Deployments -> PlanType]
ASSUME TornAssumption    == Torn \notin Contents
ASSUME NullAssumption    == /\ \A S \in SUBSET Paths : NoManifest # S
                            /\ NoDeployment \notin Deployments
ASSUME BoundsAssumption  == /\ Keep \in Nat \ {0}
                            /\ FaultyDisk \in BOOLEAN
                            /\ MaxCrashes \in Nat

VARIABLES
    bound,      \* projects with a row in project_resource_binding
    nextId,     \* next_deploy_id.value
    ids,        \* the id in a deployment's name; 0 while it has no row
    clock,      \* rank of the latest created_at
    stamp,      \* created_at
    manifest,   \* manifest_json: the paths listed, or NoManifest
    needed,     \* deployment_needed_file, as pairs <<deployment, path>>
    active,     \* active_deployment.deploy_name
    disk,       \* the files on disk: <<directory, path>> -> contents
    job,        \* the looping handler a deployment is in, if any
    uploading,  \* how far the upload handler of a file has got
    aged,       \* deployments created more than STALE_AFTER_HOURS ago
    crashes     \* server crashes so far

dbVars   == <<bound, nextId, ids, clock, stamp, active>>
vars     == <<bound, nextId, ids, clock, stamp, manifest, needed, active,
              disk, job, uploading, aged, crashes>>

-----------------------------------------------------------------------------
Project(d)  == Plan[d].project
Files(d)    == DOMAIN Plan[d].files
Created     == {d \in Deployments : ids[d] # 0}
OfProject(p) == {d \in Created : Project(d) = p}

DirOf(d)     == DeployDir(Project(d), ids[d], Plan[d].inPlace)
At(d, p)     == <<DirOf(d), p>>
OnDisk(d, p) == At(d, p) \in DOMAIN disk

\* hash_or_none(target) == Some(file.sha)
Matches(d, p) == OnDisk(d, p) /\ disk[At(d, p)] = Plan[d].files[p]

Written(k, c) == [x \in DOMAIN disk \cup {k} |-> IF x = k THEN c ELSE disk[x]]
Removed(k)    == Restrict(disk, DOMAIN disk \ {k})

\* parse_manifest_json: a null column reads as an empty manifest.
Listed(d) == IF manifest[d] = NoManifest THEN {} ELSE manifest[d]

Idle      == [op |-> "idle", todo |-> {}, bad |-> {}]
JobType   == [op : {"idle", "need", "finish", "verify"},
              todo : SUBSET Paths, bad : SUBSET Paths]
UploadSteps == {"no", "found", "open", "written"}

\* Variant: a file that is there counts as right, whatever its content.
InspectedForPresence(d, p) ==
    [ op   |-> job[d].op,
      todo |-> job[d].todo \ {p},
      bad  |-> IF OnDisk(d, p) THEN job[d].bad ELSE job[d].bad \cup {p} ]

\* The job of d once it has hashed file p too.
Inspected(d, p) ==
    [ op   |-> job[d].op,
      todo |-> job[d].todo \ {p},
      bad  |-> IF Matches(d, p) THEN job[d].bad ELSE job[d].bad \cup {p} ]

\* The connection mutex is free.
DbFree == \A d \in Deployments : job[d].op \notin {"need", "verify"}

-----------------------------------------------------------------------------
(* databaseCleanup: rows of old deployments go, and all but the newest     *)
(* Keep deployments of each project lose their manifest.  `order by        *)
(* created_at desc limit ?` breaks ties as it likes.                       *)

\* Variant: `order by created_at` without the `desc`.
IsOldest(S, p) ==
    /\ S \subseteq OfProject(p)
    /\ IF Cardinality(OfProject(p)) <= Keep THEN S = OfProject(p)
                                            ELSE Cardinality(S) = Keep
    /\ \A d \in S, e \in OfProject(p) \ S : stamp[d] <= stamp[e]

IsNewest(S, p) ==
    /\ S \subseteq OfProject(p)
    /\ IF Cardinality(OfProject(p)) <= Keep THEN S = OfProject(p)
                                            ELSE Cardinality(S) = Keep
    /\ \A d \in S, e \in OfProject(p) \ S : stamp[d] >= stamp[e]

Retained ==
    {S \in SUBSET Created : \A p \in Projects : IsNewest(S \cap OfProject(p), p)}

TrimmedManifests(S) ==
    [d \in Deployments |-> IF d \in S THEN manifest[d] ELSE NoManifest]

FreshRows == {r \in needed : r[1] \notin aged}
-----------------------------------------------------------------------------
Init ==
    /\ bound = {}
    /\ nextId = 1
    /\ ids = [d \in Deployments |-> 0]
    /\ clock = 0
    /\ stamp = [d \in Deployments |-> 0]
    /\ manifest = [d \in Deployments |-> NoManifest]
    /\ needed = {}
    /\ active = [p \in Projects |-> NoDeployment]
    /\ disk = [x \in {} |-> Torn]
    /\ job = [d \in Deployments |-> Idle]
    /\ uploading = [d \in Deployments |-> [p \in Paths |-> "no"]]
    /\ aged = {}
    /\ crashes = 0

\* createProject, as far as deployments see it: the project becomes bound.
CreateProject(p) ==
    /\ DbFree
    /\ p \notin bound
    /\ bound' = bound \cup {p}
    /\ UNCHANGED <<nextId, ids, clock, stamp, manifest, needed, active, disk,
                   job, uploading, aged, crashes>>

\* createDeployment of a registered project: clean up, take an id, insert the
\* row.  `inline` is the manifest in the request, empty when it comes in
\* batches.
CreateDeployment(d, inline) ==
    /\ DbFree
    /\ ids[d] = 0
    /\ Project(d) \in bound
    /\ nextId' = nextId + 1
    /\ ids' = [ids EXCEPT ![d] = nextId]
    /\ \E t \in {clock, clock + 1} :
          clock' = t /\ stamp' = [stamp EXCEPT ![d] = t]
    /\ \E S \in Retained :
          manifest' = [TrimmedManifests(S) EXCEPT ![d] = inline]
    /\ needed' = FreshRows
    /\ UNCHANGED <<bound, active, disk, job, uploading, aged, crashes>>

\* createDeployment of an unregistered project: an error, after the cleanup.
CreateRefused(d) ==
    /\ DbFree
    /\ ids[d] = 0
    /\ Project(d) \notin bound
    /\ \E S \in Retained : manifest' = TrimmedManifests(S)
    /\ needed' = FreshRows
    /\ UNCHANGED <<dbVars, disk, job, uploading, aged, crashes>>

\* Variant: addManifestFiles replaces what earlier batches stored.
ReplaceManifestFiles(d, batch) ==
    /\ DbFree
    /\ d \in Created
    /\ manifest' = [manifest EXCEPT ![d] = batch]
    /\ UNCHANGED <<dbVars, needed, disk, job, uploading, aged, crashes>>

\* addManifestFiles: read the column, extend, write it back.  A null column
\* reads as empty, so a batch that comes after the cleanup starts afresh.
AddManifestFiles(d, batch) ==
    /\ DbFree
    /\ d \in Created
    /\ manifest' = [manifest EXCEPT ![d] = Listed(d) \cup batch]
    /\ UNCHANGED <<dbVars, needed, disk, job, uploading, aged, crashes>>

-----------------------------------------------------------------------------
(* getNeededFiles holds the mutex while it hashes the manifest's files one *)
(* by one; uploads, which write without the mutex, go on meanwhile.        *)

NeedBegin(d) ==
    /\ DbFree
    /\ d \in Created
    /\ job[d] = Idle
    /\ job' = [job EXCEPT ![d] = [op |-> "need", todo |-> Listed(d), bad |-> {}]]
    /\ UNCHANGED <<dbVars, manifest, needed, disk, uploading, aged, crashes>>

\* A failed insert of the row is ignored; the file is asked for all the same.
NeedFile(d, p) ==
    /\ job[d].op = "need"
    /\ p \in job[d].todo
    /\ job' = [job EXCEPT ![d] = Inspected(d, p)]
    /\ \/ needed' = IF Matches(d, p) THEN needed ELSE needed \cup {<<d, p>>}
       \/ FaultyDisk /\ needed' = needed
    /\ UNCHANGED <<dbVars, manifest, disk, uploading, aged, crashes>>

\* Variant: the handler locks the database again before it lets go of it.
NeedEndRelocking(d) ==
    /\ DbFree
    /\ job[d].op = "need"
    /\ job[d].todo = {}
    /\ job' = [job EXCEPT ![d] = Idle]
    /\ UNCHANGED <<dbVars, manifest, needed, disk, uploading, aged, crashes>>

\* The answer is job[d].bad, the files to upload.
NeedEnd(d) ==
    /\ job[d].op = "need"
    /\ job[d].todo = {}
    /\ job' = [job EXCEPT ![d] = Idle]
    /\ UNCHANGED <<dbVars, manifest, needed, disk, uploading, aged, crashes>>

-----------------------------------------------------------------------------
(* uploadOneFile, and finishMultiPartUpload with its chunks assembled: find *)
(* the path under the mutex; truncate (or remove) and write the file        *)
(* without it; delete the needed rows under it.                             *)

UploadFind(d, p) ==
    /\ DbFree
    /\ d \in Created
    /\ uploading[d][p] = "no"
    /\ uploading' = [uploading EXCEPT ![d][p] = "found"]
    /\ UNCHANGED <<dbVars, manifest, needed, disk, job, aged, crashes>>

UploadOpen(d, p) ==
    /\ uploading[d][p] = "found"
    /\ uploading' = [uploading EXCEPT ![d][p] = "open"]
    /\ disk' = Written(At(d, p), Torn)
    /\ UNCHANGED <<dbVars, manifest, needed, job, aged, crashes>>

UploadWrite(d, p, c) ==
    /\ uploading[d][p] = "open"
    /\ uploading' = [uploading EXCEPT ![d][p] = "written"]
    /\ disk' = Written(At(d, p), c)
    /\ UNCHANGED <<dbVars, manifest, needed, job, aged, crashes>>

\* The write fails half-way: the call does, and the file stays as it is.
UploadFails(d, p) ==
    /\ FaultyDisk
    /\ uploading[d][p] = "open"
    /\ uploading' = [uploading EXCEPT ![d][p] = "no"]
    /\ UNCHANGED <<dbVars, manifest, needed, disk, job, aged, crashes>>

\* Variant: the needed rows are forgotten.
UploadUnrecorded(d, p) ==
    /\ DbFree
    /\ uploading[d][p] = "written"
    /\ uploading' = [uploading EXCEPT ![d][p] = "no"]
    /\ UNCHANGED <<dbVars, manifest, needed, disk, job, aged, crashes>>

UploadRecord(d, p) ==
    /\ DbFree
    /\ uploading[d][p] = "written"
    /\ uploading' = [uploading EXCEPT ![d][p] = "no"]
    /\ needed' = needed \ {<<d, p>>}
    /\ UNCHANGED <<dbVars, manifest, disk, job, aged, crashes>>

-----------------------------------------------------------------------------
(* finishUploads reads the manifest under the mutex, then scans the        *)
(* directory and deletes without it.  Seeing a file in the scan and        *)
(* removing it later has the same effect as both at the later time.        *)

\* Variant: pruning by age does not look at what is being shipped.
LeftoversAndPruned(d, stale) == ((Paths \ Plan[d].keep) \ manifest[d]) \cup stale

\* Files neither shipped nor protected, and protected ones grown stale that are
\* not shipped either.
Leftovers(d, stale) == ((Paths \ Plan[d].keep) \cup stale) \ manifest[d]

FinishRead(d) ==
    /\ DbFree
    /\ d \in Created
    /\ job[d] = Idle
    /\ manifest[d] # NoManifest
    /\ \E stale \in SUBSET Plan[d].prunable :
          job' = [job EXCEPT ![d] =
                    [op |-> "finish", todo |-> Leftovers(d, stale), bad |-> {}]]
    /\ UNCHANGED <<dbVars, manifest, needed, disk, uploading, aged, crashes>>

\* Variant: leftovers are listed and never deleted.
FinishSkip(d, p) ==
    /\ job[d].op = "finish"
    /\ p \in job[d].todo
    /\ job' = [job EXCEPT ![d] = [job[d] EXCEPT !.todo = @ \ {p}]]
    /\ UNCHANGED <<dbVars, manifest, needed, disk, uploading, aged, crashes>>

\* A file that cannot be removed is logged and left.
FinishDelete(d, p) ==
    /\ job[d].op = "finish"
    /\ p \in job[d].todo
    /\ job' = [job EXCEPT ![d] = [job[d] EXCEPT !.todo = @ \ {p}]]
    /\ \/ disk' = Removed(At(d, p))
       \/ FaultyDisk /\ disk' = disk
    /\ UNCHANGED <<dbVars, manifest, needed, uploading, aged, crashes>>

FinishEnd(d) ==
    /\ job[d].op = "finish"
    /\ job[d].todo = {}
    /\ job' = [job EXCEPT ![d] = Idle]
    /\ UNCHANGED <<dbVars, manifest, needed, disk, uploading, aged, crashes>>

\* "Manifest not found for deployment": the call fails and changes nothing.
FinishRefused(d) == DbFree /\ d \in Created /\ job[d] = Idle /\ manifest[d] = NoManifest

-----------------------------------------------------------------------------
(* verifyDeployment holds the mutex from its first query to the end.  While *)
(* needed rows remain it answers "error" and changes nothing.              *)

HasNeededRows(d) == \E p \in Paths : <<d, p>> \in needed

VerifyBegin(d) ==
    /\ DbFree
    /\ d \in Created
    /\ job[d] = Idle
    /\ ~HasNeededRows(d)
    /\ job' = [job EXCEPT ![d] = [op |-> "verify", todo |-> Listed(d), bad |-> {}]]
    /\ UNCHANGED <<dbVars, manifest, needed, disk, uploading, aged, crashes>>

\* One of the hashing workers takes the next file.
VerifyFile(d, p) ==
    /\ job[d].op = "verify"
    /\ p \in job[d].todo
    /\ job' = [job EXCEPT ![d] = Inspected(d, p)]
    /\ UNCHANGED <<dbVars, manifest, needed, disk, uploading, aged, crashes>>

VerifyFailed(d) ==
    /\ job[d].op = "verify"
    /\ job[d].todo = {}
    /\ job[d].bad # {}
    /\ job' = [job EXCEPT ![d] = Idle]
    /\ UNCHANGED <<dbVars, manifest, needed, disk, uploading, aged, crashes>>

VerifySucceeded(d) ==
    /\ job[d].op = "verify"
    /\ job[d].todo = {}
    /\ job[d].bad = {}
    /\ job' = [job EXCEPT ![d] = Idle]
    /\ \E S \in Retained : manifest' = TrimmedManifests(S)
    /\ needed' = FreshRows
    /\ UNCHANGED <<dbVars, disk, uploading, aged, crashes>>

-----------------------------------------------------------------------------
\* activateDeployment up to its hooks.  The row it reads first never changes,
\* so only the upsert is a step.
Activate(d) ==
    /\ DbFree
    /\ d \in Created
    /\ active' = [active EXCEPT ![Project(d)] = d]
    /\ UNCHANGED <<bound, nextId, ids, clock, stamp, manifest, needed, disk, job,
                   uploading, aged, crashes>>

\* rollback checks that the deployment is the project's, then activates it.
Rollback(p, d) ==
    /\ d \in OfProject(p)
    /\ Activate(d)

-----------------------------------------------------------------------------
\* Hours go by: what was created up to some moment becomes stale.
HoursPass ==
    /\ \E t \in 0..clock : aged' = aged \cup {d \in Created : stamp[d] <= t}
    /\ aged' # aged
    /\ UNCHANGED <<dbVars, manifest, needed, disk, job, uploading, crashes>>

\* The server dies: handlers vanish, half-written files and all rows stay.
ServerDies ==
    /\ crashes < MaxCrashes
    /\ crashes' = crashes + 1
    /\ job' = [d \in Deployments |-> Idle]
    /\ uploading' = [d \in Deployments |-> [p \in Paths |-> "no"]]
    /\ UNCHANGED <<bound, ids, clock, stamp, active, disk, aged>>

Crash == ServerDies /\ UNCHANGED <<nextId, manifest, needed>>

\* Variant: the row is inserted before the counter moves on, and the crash comes
\* in between.
CrashBeforeIncrement(d) ==
    /\ DbFree
    /\ ids[d] = 0
    /\ Project(d) \in bound
    /\ crashes < MaxCrashes
    /\ crashes' = crashes + 1
    /\ ids' = [ids EXCEPT ![d] = nextId]
    /\ job' = [e \in Deployments |-> Idle]
    /\ uploading' = [e \in Deployments |-> [p \in Paths |-> "no"]]
    /\ UNCHANGED <<bound, nextId, clock, stamp, manifest, needed, active, disk, aged>>

\* The statements of createDeployment commit one by one: it may be cut after
\* the cleanup, or after taking an id that no deployment then gets.
CrashInCreate(d) ==
    /\ DbFree
    /\ ids[d] = 0
    /\ Project(d) \in bound
    /\ ServerDies
    /\ nextId' \in {nextId, nextId + 1}
    /\ \E S \in Retained : manifest' = TrimmedManifests(S)
    /\ needed' = FreshRows

-----------------------------------------------------------------------------
(* Any caller, any call.                                                   *)

UploadStep(d, p) ==
    \/ UploadFind(d, p)
    \/ UploadOpen(d, p)
    \/ \E c \in Contents : UploadWrite(d, p, c)
    \/ UploadFails(d, p)
    \/ UploadRecord(d, p)

DeploymentStep(d) ==
    \/ \E S \in SUBSET Files(d) : CreateDeployment(d, S) \/ AddManifestFiles(d, S)
    \/ CreateRefused(d) \/ CrashInCreate(d)
    \/ NeedBegin(d) \/ NeedEnd(d)
    \/ FinishRead(d) \/ FinishEnd(d)
    \/ VerifyBegin(d) \/ VerifyFailed(d) \/ VerifySucceeded(d)
    \/ Activate(d)
    \/ \E p \in Paths : \/ NeedFile(d, p) \/ FinishDelete(d, p)
                        \/ VerifyFile(d, p) \/ UploadStep(d, p)

Next ==
    \/ \E p \in Projects : CreateProject(p)
    \/ \E p \in Projects, d \in Deployments : Rollback(p, d)
    \/ \E d \in Deployments : DeploymentStep(d)
    \/ HoursPass
    \/ Crash

Spec == Init /\ [][Next]_vars

-----------------------------------------------------------------------------
TypeOK ==
    /\ bound \subseteq Projects
    /\ nextId \in Nat \ {0}
    /\ ids \in [Deployments -> Nat]
    /\ clock \in Nat
    /\ stamp \in [Deployments -> Nat]
    /\ manifest \in [Deployments -> {NoManifest} \cup SUBSET Paths]
    /\ needed \subseteq Deployments \X Paths
    /\ active \in [Projects -> Deployments \cup {NoDeployment}]
    /\ DOMAIN disk \subseteq Names \X Paths
    /\ disk \in [DOMAIN disk -> Contents \cup {Torn}]
    /\ job \in [Deployments -> JobType]
    /\ uploading \in [Deployments -> [Paths -> UploadSteps]]
    /\ aged \subseteq Created
    /\ crashes \in 0..MaxCrashes

\* The cleanup drops no manifest of the newest Keep deployments of a project,
\* whatever their timestamps tie with and whenever it runs.
NewestKeepTheirManifest ==
    \A d \in Created : manifest[d] = NoManifest =>
        Cardinality({e \in OfProject(Project(d)) \ {d} : stamp[e] >= stamp[d]}) >= Keep

\* No two deployments write into one directory, but for what the naming rule lets
\* meet: update-in-place deployments of one project, and an update-in-place one of a
\* project that is named letter for letter like another one's versioned deployment.
\* Takes distinct ids for ever, across crashes in createDeployment.
DirectoriesAreSeparate ==
    \A d, e \in Created : d # e /\ DirOf(d) = DirOf(e) =>
        /\ Plan[d].inPlace \/ Plan[e].inPlace
        /\ Plan[d].inPlace /\ Plan[e].inPlace => Project(d) = Project(e)
=============================================================================
