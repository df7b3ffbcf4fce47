# A verification of deploy-tool

TLA+ models of the deploy server and its command-line client (`src/crates/`), checked with TLC on
small instances and proved about with TLAPS for all instances. The code is the reference: each
definition that models code is tied to its source lines in `PROJECT.json` ("map").

## 1. The system

`deploy-server` is one process. It serves JSON-RPC over HTTP, keeps its records in one SQLite
connection behind a mutex (`state.rs`, `AppState::db`), and keeps deployed files in a tree of
directories that no lock protects. `deploy` is a command-line client that drives the server
with a sequence of calls. Both read the project's config file, each for its own purpose. A third
party, auth-center, judges API keys and signs people in to the server's web dashboard. Scripts the
server starts are separate processes.

A call goes through two tasks on blocking threads: *authorize* (under the mutex, possibly while
asking auth-center over HTTP) and *dispatch* (the handler). Handlers are synchronous and are not
cancelled when their client goes away.

| Component | State | Operations | Modelled in |
|---|---|---|---|
| Deployment lifecycle (`handlers/deployments.rs`, `files.rs`, `uploads.rs`, `cleanup.rs`, `activate.rs`) | tables `deployment`, `next_deploy_id`, `deployment_needed_file`, `active_deployment`; the directories | createDeployment, addManifestFiles, getNeededFiles, uploadOneFile / finishMultiPartUpload, finishUploads, verifyDeployment, activateDeployment, rollback, the clean-up | `DeployServer` |
| `deploy run`, `preview`, `rollback` (`deploy-cli/commands`) | the step a run is at, files left to send | the sequence of calls, parallel uploads, giving up | `DeployRun` |
| Authorization (`authz.rs`, `auth_center.rs`, `server.rs`, `core/rpc.rs`) | the verdict cache; a call's stage | resolve, cache look-up, question, verdict, dispatch | `RpcMethods`, `Authorization` |
| Project registration and binding (`deployments.rs`) | tables `project`, `project_resource_binding`, its history | createProject: create, bind, rebind | `Authorization` |
| runOnServer (`handlers/run_on_server.rs`) | `RUNS_IN_FLIGHT`, table `server_script_run`, processes | look up, resolve, take a slot, record, spawn, wait or kill, drain, record, return | `RunOnServer` |
| Multi-part upload (`uploads.rs`, `run.rs`) | table `deployment_pending_multi_part_file_chunk`, the needed row, the file | uploadFilePart, finishMultiPartUpload, clean-up | `MultipartUpload` |
| Dashboard sessions (`dashboard/`) | tables `dashboard_login`, `dashboard_session`; the verdict cache; who holds the mutex | login, callback, me, projects, logout | `DashboardSession` |
| Path guard (`paths.rs`, `filelist.rs`) | none | normalize, the prefix test, the directories a file needs | `DeploymentPaths`, `PathGuard` |
| File rules (`filelist.rs`, `glob.rs`, `preserve.rs`) | the directory of an in-place project | the walk, the symlink check, leftovers, the prune | `FileRules`, `MirroredDirectory` |
| Config parser (`core/qc/`) | none | lex, parse, render | `QcLexer`, `QcTokens`, `QcQuery`, `QcParser`, `QcRendering` |
| Settings (`config.rs`) | none | what client and server read out of the config | `DeployConfig` |
| Security scan (`security.rs`) | none | which files may not be uploaded | `SecurityScan` |
| SQL access (`sqlnames.rs`, `sql.rs`, `sql_methods.rs`) | none | which database a statement runs on | `SqlRouting` |
| Hashing, wire types, web application, printing, start-services | none that calls share | | not modelled (section 7) |

### How the components interact, and what is hard

- **The database mutex protects rows, not files.** getNeededFiles and verifyDeployment hash files
  while they hold it; uploads write and finishUploads deletes without it. A truncated file can be
  seen by a hash in progress, and a deletion can run beside an upload.
- **A run is a protocol over many calls**, with state at the server in between: a manifest, the
  needed rows. Other runs, and previews of large file sets, can change that state between two calls
  (the clean-up at createDeployment and verifyDeployment drops manifests).
- **The client may give up at any time**, the handler goes on. The client's next run may then meet
  a handler of the last one.
- **Statements commit one at a time.** A crash between two leaves the first; the restart must cope.
- **Authorization and dispatch are separate**, with a cache in between, a revocation delay, and an
  HTTP question that may be late or lost.
- **A file in parts is rows without a key.** Parts of an upload that was given up lie beside those of
  its repetition, and the handler writes the file statement by statement.
- **A directory has a history.** An in-place deploy deletes what its own config does not keep, from
  a scan that is older than the deletion, among files that earlier deploys and the project's own
  programs put there.
- **A config is read four times**: by client and server, for files and for settings, through a
  lexer that takes paths and URLs apart and a parser that glues them together again. What
  is deleted, and where a file is written, hangs on that.
- **Signing in spans three parties**: a callback may come twice or late, may fail when the token has
  been issued, and a cached verdict must not survive a sign-out, which itself may do half of its work.
- **Scripts outlive handlers and servers**: time limits race exits, background processes keep the
  pipes open, a slot must be given back on every path.

Every hazard is listed in `PROJECT.json` with its line and the properties that would notice it.

### What makes each component correct

- Lifecycle: two deployments never write into one directory unless the naming rule lets them; the
  clean-up takes no manifest of the newest deployments.
- Run: what is published is exactly what was shipped; a versioned project goes from one complete
  build to the next; every run ends; one that nobody disturbs publishes.
- Authorization: no call is let in on a verdict older than promised, on a binding that has been
  replaced while it was judged, or acts for a project whose resource it was not granted.
- runOnServer: the cap is kept, every started script is on record, a timed-out script leaves nothing
  of its group behind, and a hung script ties up nothing for ever.
- Multi-part upload: the server stops asking for a file only when it has every byte of it in order; and
  each once, unless an upload that was cut short left parts behind.
- Dashboard: a login yields one token at most, a sign-out takes hold by whichever of its two effects
  comes about, a withdrawn grant counts soon, and no row goes but for a reason.
- Path guard: it accepts exactly what resolves to below the directory.
- File rules: what a rule names ships or the deploy is refused; what a rule keeps is never deleted;
  a finished deploy leaves nothing else behind.
- Config: what is written is what is read, whatever the layout, and on both sides the same.
- SQL access: a statement runs on the file its tables are in, and, unless it
  names a database itself, an agent's on none that is blocked.

## 2. The modules

| Module | What it is |
|---|---|
| `DeployNames` | how deployments and their directories are named; assumptions on the name constants |
| `DeployServer` | the lifecycle handlers, any caller |
| `AtomicPublish` | abstract: a project serves nothing or one complete build, and switches in one step |
| `DeployRun` | EXTENDS `DeployServer`: the calls as the CLI makes them; refines `AtomicPublish` |
| `RpcMethods` | the method table: what each method is resolved by, and its action |
| `Authorization` | EXTENDS `RpcMethods`: authorization, dispatch, the handlers that change bindings and pointers |
| `RunOnServer` | runOnServer, its processes and what changes around it |
| `DashboardSession` | signing in, requests, signing out, with auth-center |
| `QcLexer`, `QcTokens`, `QcQuery`, `QcParser`, `QcRendering` | the config language: text to tokens, tokens one after the other and glued together, queries, tokens to queries (EXTENDS `QcTokens`, `QcQuery`), queries to text |
| `DeployConfig` | EXTENDS `QcLexer`, `QcQuery`: settings, rules, durations, script paths, local-root |
| `FileRules` | which files ship, which are leftovers, which are stale |
| `MirroredDirectory` | EXTENDS `FileRules`: deploys of one directory, one after the other |
| `DeploymentPaths`, `PathGuard` | paths of a deployment; the guard, component by component |
| `MultipartUpload` | a file in parts |
| `SqlRouting`, `SecurityScan` | statements to databases (EXTENDS `DeploymentPaths`); the file scan |
| `Decisions` | EXTENDS `FileRules`, `SecurityScan`, `SqlRouting`, `DeployConfig`, `QcTokens`: what a single decision of theirs promises |
| `DeployServer_proofs`, `DeployRun_proofs`, `Authorization_proofs`, `RunOnServer_proofs`, `DashboardSession_proofs` | theorems about the module of that name |
| `Uploads_proofs` | theorems about `MirroredDirectory` and `MultipartUpload` |
| `Decisions_proofs` | theorems about `PathGuard`, `FileRules`, `SecurityScan`, `SqlRouting`, `QcLexer`, `QcTokens` and `DeployConfig` |
| `Induction` | induction and recursion over data, for the proofs |
| `MCDeployServer`, `MCDeployRun`, `MCAuthorization`, `MCRunOnServer`, `MCDashboardSession`, `MCConfigAndFiles` | instances for TLC; the last also states what the config language promises |

Definitions introduced by the word *Variant* are single-fault versions of the definition after them.
They are in no next-state relation; replacing the definition by its variant must make TLC refute the
property listed with it in `PROJECT.json` ("mutants").

### DeployServer

*Where handlers are cut.* What runs under one `state.db()` guard and touches no file is one action; a
loop over files is one action per file; a file write is truncate-then-write. The mutex is held across
actions only in getNeededFiles and verifyDeployment, so `DbFree` says no deployment is in
one of these.

| Variable | Code |
|---|---|
| `bound` | rows of `project_resource_binding` (here only: bound or not) |
| `nextId`, `ids` | `next_deploy_id`; the id in a deployment's name, 0 while it has no row |
| `stamp`, `clock` | `created_at`, as a rank; equal milliseconds are ties |
| `manifest` | `manifest_json`: the paths, or null. Hashes are in `Plan`, as one run never lists two for a path |
| `needed` | `deployment_needed_file` |
| `active` | `active_deployment` |
| `disk` | file contents by directory and path; `Torn` is a file that was opened and not written |
| `job` | the loop a handler is in: files still to look at, files found wrong |
| `uploading` | the upload handler of a file: path found, file opened, written |
| `aged` | deployments older than STALE_AFTER_HOURS |

Handlers and actions: `createDeployment` is `CreateDeployment`, `CreateRefused` and `CrashInCreate`;
`addManifestFiles` is `AddManifestFiles`; `getNeededFiles` is `NeedBegin`, `NeedFile`, `NeedEnd`;
`uploadOneFile` and `finishMultiPartUpload` are `UploadFind`, `UploadOpen`, `UploadWrite`,
`UploadRecord`, `UploadFails`; `finishUploads` is `FinishRead`, `FinishRefused`, `FinishDelete`,
`FinishEnd`; `verifyDeployment` is `VerifyBegin`, `VerifyFile`, `VerifyFailed`, `VerifySucceeded`
(with its clean-up); `activateDeployment` is `Activate`; `rollback` is `Rollback`. `HoursPass` ages
deployments; `Crash` ends all handlers. The clean-up is part of the actions that call it.

Abstractions: a hash is the content it is the hash of; `finalizeManifest` makes only directories,
and these have no state; execute bits are not kept; chunks and their assembly are one write, with
remove-then-create as the open step (`MultipartUpload` has the parts); the protected paths of a
configuration are part of `Plan` (`FileRules` has the rules); the clock does not go back.
A deployment's project is that of its recorded config, as the CLI sends both from one file.

### DeployRun

Each deployment is one run; `step[d]` is the call it waits for, `ok[d]` whether the client is alive,
`rest[d]` the files it has yet to list or to send. An action is a handler of `DeployServer`
conjoined with what the client does on its answer. `GiveUp` and `Unsent` are a client that stops
waiting and a request that never arrived; a createDeployment that fails after its insert looks the
same to the client, and is covered by these. `RunUploadWrite` may send an edited file: the code reads
a file once to hash it and again to send it. `MayStart` says which runs of a project may overlap
(parameter `StartRule`), `CarefulOperator` whether rollbacks go only to deployments that some run has
activated. The refusal of verifyDeployment while needed rows remain has no action in the run:
`NoNeededRowLeftBehind` is the reason, and is checked and proved.

`overtaken` is a history variable: runs whose manifest the clean-up dropped before they were
verified. The invariants exclude them, because the code does not protect them; the finding
`finding_partial_manifest` shows what becomes of such a run.

### Authorization

`registered`, `binding`, `history` are the project tables; `created`, `active` deployments and pointers;
`cache` maps a scope (key, resource, action) to its expiry; `call` is each call's stage: unsent,
arrived, asking (auth-center, with the mutex held), allowed, answered. `grants` is auth-center's state,
changed by `ChangeGrant`; `vouched[s]` is a history variable, the last time auth-center evaluated scope
s to yes. `Evaluate` is auth-center's own step, so an answer can be based on grants that have since
changed; `RefuseAnswered` covers no, an unreadable answer and a time-out, whatever auth-center had
decided. `Tick` cannot pass the HTTP time-out of a pending question. `Stored` counts the life of an
entry from the question, as the code does. `MadeRoom` is the full cache: expired entries go, or
everything. createProject's statements commit one by one: `CutShort` is what they leave when it stops in
between, by a statement that fails (`CreateProjectFails`) or a crash (`CrashInCreateProject`); the
history variable `cut` counts those that had bound the project. Where no statement failed or was reached
the whole handler is one action, under the mutex. `OtherMethod` stands for all methods that change none
of this, and for handlers that fail before their first statement.

Between decision and dispatch another call may rebind the project. The code does not promise
otherwise, so `PointerMovesAreGranted` speaks of the binding at the decision (`call[c].seen`).
Left out: `--disable-api-key-check`, which skips all of this; the identity that is written into rows;
introspection for the dashboard, which `DashboardSession` has.

### RunOnServer

`pc[c]` is how far the handler of call c is, `seen[c]` the `current` of `RunSlot::acquire`, `row[c]` its
`server_script_run` row (none, open, or how it was closed), `outcome[c]` what `run_process` found,
`script[c]` and `left[c]` the process and what it has started: in its group or escaped from it by a
session of its own. `late[c]` says that the limit the handler is waiting on (RUN_TIMEOUT, or
OUTPUT_DRAIN_GRACE) has passed; the lengths of these do not matter to any property. The counter's load
and its compare-and-swap are two steps, with the retry. A script may end between the poll that finds it
alive and the kill. Writes of the row may fail, and so may the wait for the process, before or after the
kill (`WaitFails`): the handler then records a failed run, gives its slot back and answers with an
error, and a script it had not killed runs on. `Activate`, `UploadOneFile` and `FinishUploads` are other
handlers; `FinishUploads` may take a file from an active deployment, since update-in-place deployments
share a directory. After `ServerDies` the processes go on. One project and one script: calls of several
share nothing but the counter. Argument and path checks are pure and refuse a call before any state is
read.

### MultipartUpload

One file of one deployment. The client sends its parts in any order (the older client sends several at
once), then the finish, and may give up at any time; its handlers go on. Whoever asks for the needed
files again is told to send the file again. (The present client never does so within a deployment: an
upload that fails ends its run, and the next run has a deployment name of its own. The handlers serve
any caller.) `rows` is the chunk table in the order of insertion, `finish[a]` the finish handler of
attempt a: the rows it read, and how far it is. Read, truncate, each append, the deletion of the rows
and the deletion of the needed row are separate steps, as no lock is held across them; each may fail
(`FinishFails`). The previous copy is removed first, but the code does not look at whether that worked:
in `Truncate` it may stay, and is appended to. A byte is its offset, so that a byte missing, doubled or
misplaced shows. `CleanUp` is `database_cleanup` of another deploy's call. The server may die whenever a
handler is at work or a part on its way. Four history variables tell what an upload met: parts that an
earlier one had left (`leftover`), calls of an earlier one still being served (`overlapped`), a copy
that could not be removed (`stuck`), a clean-up (`trimmed`).

### DashboardSession

`logins` and `sessions` are the two tables, `verdicts` the cache, `holder` the request that keeps the
mutex while auth-center is asked: a request keeps it, a callback does not. `callback[c]` and
`request[r]` are how far each is; a session and its token are named by the callback that made them.
auth-center's tokens, revocations and its user's grant change on their own. `vouched` and `signedOut`
are history. logout answers ok whatever happens: `SignOut` may leave the row in place, as the code
ignores a delete that fails, and `MaybeRevoked` is a revocation that may not reach auth-center.
`FinishLogin` may fail to delete its row, and then ends the callback. `SignInFails` and `CreateFails`
are the ways out of a callback that has a token. PKCE values and cookies are random or opaque, and taken
as never guessed.

### The config language and DeployConfig

A text is a sequence of symbols: single characters, and words that stand for runs of letters. `Lex`
gives each token its place, line and indentation, one `ConsumeNext` after the other; a token of a
single character has that character for its kind. The parser's operators take tokens and a position
and return what they found and where they stopped, in the structure of `parser.rs`: a block ends at
the first line that is not indented further than its own. `Rendered` and `Original` are the two ways
back to text. `DeployConfig` reads the settings as the four places in the code do (`ClientSettings`,
`CreateSettings`, `ActivationConfig`, `PreserveConfig`) plus the allowlist of scripts, durations with a
product that may wrap, and `LocalRoot`. It takes parsed queries, and the rendering of a tag as the
constant `OriginalText`, which the instances set to `Original`: the rendering calls itself, and what is
proved of the settings does not depend on it. Left out: C-style comments, which no caller switches on, and
the backquote.

### FileRules and MirroredDirectory

A path is a sequence of segments. `FileList` is the source walk, directory by directory, with the
test that prunes a directory (`CouldContainMatch`); `Refuses` the check for links; `Leftovers` and
`Stale` the two scans of the destination. globset is external, with `*` and `**` of its syntax: a
pattern is followed from left to right, with the set of places of the path that its first i parts reach.
`MirroredDirectory` runs deploys one after the other over one directory: upload what changed, scan,
delete file by file (each may fail), prune by age; the project's programs write files meanwhile, a
deploy may end at any point, and the next may have other rules.

### PathGuard, SecurityScan and SqlRouting

`PathGuard` takes the components of the joined path through `Push`, one per step, as `normalize` does,
and then compares. `EmptyDirectories` is the skeleton made before uploads. `SecurityScan` is the scan of
a file list. `SqlRouting` tokenizes a statement, takes the tables from it and looks for the one database
that has them: `Onward` and `Pushed` are one turn of the tokenizer's loop. A path that the config lists
twice, or spells in two ways, is one file to SQLite and two entries to the code.

## 3. The runs

| Run | Instance | Properties | What it shows |
|---|---|---|---|
| `server_any_caller` | 4 deployments: 2 versioned of `app`, one in place of `app` and one of the project `app-1`, which is named like a deployment; 1 path, `Keep` 1, faulty disk, 1 crash | DirectoriesAreSeparate, NewestKeepTheirManifest | callers that follow no protocol, handlers interleaved, ids across a crash in createDeployment (264 thousand states) |
| `run_versioned` | 2 overlapping versioned runs, 2 paths, batches of 1, faulty disk, edits, one client that gives up, 1 crash | PublishedIsWhole, FinishKeepsShippedFiles, NoNeededRowLeftBehind, ManifestIsWholeInFlight, PublishesAtomically | torn, lost, late and edited files never get published; the server refines `AtomicPublish` (664 thousand states) |
| `run_in_place` | 2 runs into one directory one after the other, and a large preview at any time, 1 crash | PublishedIsWhole | what the first run left behind, whole or torn, is repaired or removed by the second before it is published |
| `run_liveness` | 2 versioned runs, losses, 1 crash, fairness | RunsEnd, UndisturbedRunsPublish | no handler waits for the database for ever; overlap alone stops no run |
| `authorization` | 2 calls of 8 requests, 2 projects, cache of 1, 1 crash | RevocationWindow, QuestionStands, CacheIsBounded, HistoryExplainsBindings, PointerMovesAreGranted | late and lost answers, revocation, rebinding, createProjects cut short, eviction, restart (1.4 million states) |
| `run_on_server` | 2 calls for 1 slot, 2 deployments, 1 crash, fairness | SlotsAreCounted, ScriptsHoldSlots, StartedRunsAreOnRecord, ResultsAreOnRecord, TimedOutLeavesNothing, CallsReturn | racing for the slot, hung and forking scripts, failed waits and record writes, restart (830 thousand states) |
| `dashboard` | 2 logins, 2 callbacks, 2 requests, clock to 3; symmetric | OneSignInPerLogin, AccessIsVouched, SignOutTakesHold, MutexIsGivenBack, RowsGoForAReason | callbacks that come twice, late or fail, sign-outs that cannot delete or revoke, verdicts cached and evicted, grants withdrawn, restart (1.9 million states) |
| `config_and_files` | every input of the lists in `MCConfigAndFiles`, and three machines | LexerKeepsTheText, LayoutMakesBlocks, TextsSurvive, SidesAgree, ConfiguredPathsStayInside, NothingNamedIsLost, AllowlistIsNarrow, RoutingIsSafe, Contained, FilesFindTheirPlace, DirectoryMirrorsSource, PartsMakeTheFile, OnlyLeftoversGo | what configs mean, what ships and what goes, where paths and statements lead, what parts and their repetition make (271 thousand states) |
| `finding_*` | see section 6 | one each | statements of the documents that the code does not keep |

### Bounds, and why they are enough

- *Two runs or calls.* Every interference is between two actors: a handler that holds or releases the
  mutex beside one that does not, or a run and its predecessor. A third deployment is present
  where a third role exists (the preview that triggers the clean-up).
- *`Keep` 1 or 2* instead of 5: with as many deployments as instances have, the clean-up bites. The
  theorem holds for every `Keep`.
- *One or two paths, two contents, batches of 1*: a right and a wrong file, a complete and a partial
  manifest, one file in time and one late.
- *One crash*: what a crash does depends on the state it meets, and each action has a state after
  the crash; a second crash meets states that the first one can leave.
- `MCDeployServer!Bounds`: the clock has two ranks, one tie and one difference. The two properties
  are about creations, crashes and the clean-up, so one handler that loops over files, or one upload, is at
  work at a time, with one file on disk; with more than one deployment no pointer moves, as neither
  property nor handler reads one, and with more than two only calls without a loop over files
  are made. Two versioned deployments tell whether an id is taken twice; one in place of each
  project meets all the collisions that names allow.
- `run_versioned`: while the server lives, only the client of the run with two files gives up or meets
  an error, and a crash leaves one of the two clients (`OneGone`); the other run is the one that
  handlers which go on could disturb. A crash comes when no deployment is hours old (`HoursOrCrash`);
  `server_any_caller` has both.
- *Authorization*: `CacheTtl` 2 with `HttpTimeout` 1 stand for 30 s and 5 s; what matters is that the
  first is larger. `MaxTime` 4 lets an entry be stored, expire and be stored again. A cache of one
  entry is full at once.
- *RunOnServer*: one slot and two calls cover the race and the refusal. What they do not reach, a
  retry of the compare-and-swap that succeeds, takes three calls and two slots, with too many
  states; the theorems cover it.

- *DashboardSession*: a cached verdict lives 1, a token 2, the clock goes to 3, so each ends while the
  other lives and after. Two requests meet at the mutex; two callbacks share a login or have one each.
- *MCConfigAndFiles*: one initial state is one input, or the start of one of the machines `PathGuard`,
  `MirroredDirectory` and `MultipartUpload`; a property speaks of the inputs of its kind. Texts of up to
  4 symbols over alphabets with one of each kind of character that the lexer tells apart: a token, its
  neighbours, and the ends of the text; those of the lexer with a backslash only where it hides a
  character of its line (see section 4). Blocks of one or two arguments in three layouts, each pair one
  after the other. Settings in up to three lines over two blocks. Script paths of up to 7 symbols,
  enough to leave a directory and come back, and pairs of a listed and a requested path of up to 4 and
  3, where a `~` may come to the front. A tree of depth 3 with hidden files and two links, under three
  rules of 14 patterns. Relative paths of up to 4 components below a directory of depth 2. `MaxInt` 31
  lets a product wrap. `Length` 3 in parts of 2: a whole part and a short one, in an upload and its
  repetition (`MaxAttempts` 2), which is enough for leftovers, for calls that overlap and for a part
  that is there twice. Ages to `Oldest` 2 around an age limit of 1; a deploy with a wrapped limit, and
  one without preserve rules. Two databases of at most two tables, each listed, blocked, spelled with a
  dot or outside the directory. `DeploysAreWritten` (part of `TextsSurvive`) ties the deploys to config
  texts: the parser is what turns these into the rules.

The type invariants `TypeOK`, `RunTypeOK`, `MirrorTypeOK`, `GuardTypeOK` and `DashboardTypeOK` are
theorems (section 4) and not listed as properties of runs; `PartsTypeOK` is part of
`PartsMakeTheFile`.

Runs, calls and crashes are finite in number, so behaviours end and deadlock is not checked
(`CHECK_DEADLOCK FALSE`), and so do the machines and the inputs of `config_and_files`; that nothing
waits for ever is checked as liveness instead.

### Fairness

- `DeployRun!FairSpec`: weak fairness of what server and client do for a run that is under way.
  Handlers run on threads of their own and take the mutex in finite time, as its holders
  (hashing loops) are finite; the client waits for each answer, with a time-out. No fairness of
  starting runs, of operators, of faults or of crashes.
- `RunOnServer!FairSpec`: weak fairness of each handler and of its clock. None of scripts and their
  children: these may run for ever.

## 4. What is proved

For any value of the constants that satisfies the named assumptions of the modules. Most
theorems are of the form `Spec => []Inv`, by an inductive invariant. `PointerGranted` and `RowsCorrect`
are about steps; `RunsAreCallers`, `PublishingIsAtomic` and `FewPublishAtomically` say that one
specification implements another.

**DeployServer** (`DeployServer_proofs`). `TypeCorrect`: typing, itself inductive. `DirectoriesCorrect`
(DirectoriesAreSeparate): ids given out are below `nextId`, also when a crash wastes one, so that they
are distinct and so are names (`DeployNameInjective`). It assumes nothing about names. Update-in-place
directories are named after projects in the same name space as versioned ones after deployments, and
nothing in the code keeps a project called `app-7` from sharing the directory of the seventh deployment
of `app`; this is the one meeting of two projects that the property lets happen. `RetentionCorrect`
(NewestKeepTheirManifest): a manifest is dropped only when `Keep` others are at least as new, and later
deployments only add to these; ties in `created_at` are resolved in any way.

**DeployRun** (`DeployRun_proofs`). The invariants build on each other.

- `OrderInv` relates the step of a run to what the server does for it: a hashing loop means that the
  client waits for it, an upload that the run is uploading. With it, every step of a run is one of the
  server with some caller (`RunsAreCallers`), so that the theorems of `DeployServer` hold here too.
  `RunTypeCorrect` follows.
- `WholeInv`: the manifest of a run that was not overtaken is what it has sent so far. It gives
  `ManifestCorrect` (ManifestIsWholeInFlight).
- `AwaitedInv`: each needed row is of a file that its run is about to learn of, has yet to send, is
  sending or has failed to send. It gives `RowsAreServed` (NoNeededRowLeftBehind).
- `TurnInv`, with the theorems about ids and directories: whose files can be touched by whom. A
  versioned deployment has its directory to itself; in-place runs of a project that start when
  the server is done with the last one take turns.
- `ArriveInv`: each shipped file is still to be looked for, to be sent, being sent or there. It gives
  `ShippedFilesStay` (FinishKeepsShippedFiles).
- `IntactInv`: what verification has passed stays right, and so does everything that was activated.
  `CleanInv`: what is neither shipped nor kept is still to be deleted, or gone; with disk faults only
  versioned directories are free of it, since nothing but shipped files ever comes there
  (`ShippedOnly`).

Together they give `VersionedCorrect`, for any start rule, any disk faults, crashes and lost calls, and
`PublishedCorrect` (PublishedIsWhole), which covers in-place deployments under the start rule "quiet" and
without disk faults. `PublishingIsAtomic` is the refinement: a step of versioned runs is an
activation, in which the project's build changes from one whole to another, or a stutter of
`AtomicPublish`. It speaks of behaviours in which no run is overtaken; `FewPublishAtomically` needs no
such condition when no project has more deployments than the clean-up keeps manifests for.
Assumed are `CarefulOperator` (section 6 shows what happens without) and
`NoProjectNamedLikeADeployment`: in the run's theorems no project has the name of another one's deployment,
so that only those meet in a directory that are meant to.

**Authorization** (`Authorization_proofs`). `TypeCorrect`. `QuestionCorrect` (QuestionStands): while a
question is out every step that could change a binding finds the mutex taken, so the scope asked about
is still the one the request resolves to; inductive with typing alone. `WindowCorrect`
(RevocationWindow): the property alone is not inductive, as it says nothing of the cache. The invariant
adds that an entry expires at most `CacheTtl` after auth-center last vouched for its scope (`cache[s] <=
vouched[s] + CacheTtl`), that a pending yes was given no earlier than the question, and that no question
is older than the time-out, which is shorter than an entry's life. `CacheCorrect` (CacheIsBounded).
`PointerGranted` (PointerMovesAreGranted): an allowed call's scope is that of its request under the
bindings it has seen, deployments keep their owner, and only deploy and rollback actions lead to the
handlers that move a pointer. `HistoryCorrect` (HistoryExplainsBindings): the entries of a project form
a chain, each starting at the binding the one before ended in, and the last one ends in the binding in
force, with at most as many links missing as createProjects were cut short after they had bound the
project. Each of these adds one gap at most, which later binds move on from and never widen.

**RunOnServer** (`RunOnServer_proofs`). `TypeCorrect` and `SlotsCorrect` (SlotsAreCounted) by one
invariant: the counter is a natural number only because whoever decrements it is counted in it.
`StartedCorrect`, `ResultsCorrect`, `TimedOutCorrect`, `ScriptsCorrect` by an invariant that relates
each call's `pc` to its row, outcome and processes (`RunOK`): a script that may be alive has its handler
between spawn and kill, or one that was lost in a crash or left by a failed wait; from `draining` on the
script is down and, if it was killed, so is its group, and nothing can start a process any more.

**PathGuard** (`Decisions_proofs`). `ContainedCorrect` (Contained): for every directory and every path,
of any length, what is accepted is the directory followed by plain names. The invariant says that what
has been normalized is a root with names after it, or names and leading `..`; the prefix test does the
rest. `FilesFindTheirPlaceCorrect` (FilesFindTheirPlace): the guard, which never looks at a disk, agrees
with a file system that walks the path from the root. `ExactInv` keeps the two in step: after n
components what the guard has put out is where the walk is, unless the path has climbed above the root.
The directories made before the uploads are closed under parents, so that each file has its own.

**MirroredDirectory** (`Uploads_proofs`). `OnlyLeftoversGoCorrect` and `MirrorCorrect`
(DirectoryMirrorsSource), for all trees, rules, preserve ages and orders of deploys. The invariant
relates the scan to the directory: while leftovers are being deleted, whatever is in the directory is
shipped, kept by a rule, still pending, written since or failed; and a leftover is never shipped or kept.
The operators of `FileRules` are used by their definitions, so that the facts hold
whatever a glob matches.

**MultipartUpload** (`Uploads_proofs`). `PartsMakeTheFileCorrect` (PartsMakeTheFile), for every length
and size of a part, every order of parts and any number of uploads, through failing handlers and
crashes. `PartsInv` adds to the typing, first, that while no upload has run into calls of another there
is one finish handler at most, of the current upload, after all its parts (`OneFinish`). Second, until a
clean-up takes rows, no part is lost: each is unsent, in flight or stored. If none was there before,
each is in one place only (`EachPartOnce`), the file is the content up to the part that the handler
writes next, and what it has yet to write is the rest (`FinishMakesTheFile`, `From`). If parts of an
earlier upload were there, sorting puts each next to its double; what is written is every byte in order,
at worst with a part again right after itself, and what is left to write goes on from there
(`FinishWritesEveryByte`, `WrittenTo`, `Onward`). The needed row goes only after that. That sorting puts
parts in their place is by induction on their number.

**File rules, scan and statements** (`Decisions_proofs`). These are functions; their theorems speak of
every input of a kind.

- `NothingNamedIsLostCorrect` (NothingNamedIsLost), for trees, rules and patterns of any size. The walk
  sees one directory at a time and enters it only if a pattern could match below it; by induction over
  the depth of a path it is entered up to each file that a rule names, and what it ships is what rules
  say of whole paths. That the test does not turn away a directory is an induction over the pattern:
  what a glob matches it reaches through each beginning of the path (`GlobReach`, `Leads`). Links a rule
  names letter by letter are met by the walk, and refused.
- `AllowlistIsNarrowCorrect` (AllowlistIsNarrow): an entry lets through itself and what lies below it,
  and no sibling that begins alike. It assumes that a name has no `/` in it (`"/" \notin Symbols`), as a
  name in a file system has none; the slash in the written form then separates segments in one way only.
- `RoutingIsSafeCorrect` (RoutingIsSafe), for statements of any length and any databases. A comment is a
  text that the tokenizer passes over as one (`IsComment`), in a place that the tokenizer comes to
  (`StandsFree`: not within a string or another comment). The tokenizer looks ahead by one symbol, and
  further only in words, strings and comments; a text that lies in another, ended by a blank or where
  the other ends, is therefore taken apart in the same way (`StepAlike`), what stands before the comment
  gives the same tokens, and so does what stands after it (`HeadAlike`, `TailAlike`), by induction from
  the end. That a statement runs on the only file with its tables needs nothing of the tokenizer
  (`CallsAreRoutedCorrect`).

**The lexer** (`Decisions_proofs`). `LexerKeepsTheTextCorrect` (LexerKeepsTheText), for texts of any
length over any alphabet in which letters and digits are no other characters (`LexAssumption`). `LexInv`
is the invariant of the loop over the tokens: the tokens so far tile the text up to the index, the line
is one more than the breaks before it, and until the first quoted string the column says where the line
starts and the indentation is that line's. Each turn keeps it because a token has no line break unless
it is one or is quoted (`IsToken`), and a quoted string counts those it contains (`QuotedIs`). That
needs `EscapesInLine`: `consume_quoted_string` takes the character behind a backslash unseen, so an
escaped line break is not counted and a backslash at the end of the text makes the token longer than the
text; the theorem says what the lexer does with all other texts. The second half, that a text between
quotes comes back as it was, is by induction from the closing quote to the opening one: the scan for the
end of a string takes each escape that quoting puts in together with the quote behind it, and reading
drops exactly these (`QuotedReadsBack`). Texts with backslashes of their own are outside of it:
`unescape` drops them all.

`GluedAsWrittenCorrect` (GluedAsWritten, which the run checks as a part of TextsSurvive) goes on from
there to the token iterator. Attributes and values such as `a-b/c.d` are several tokens, which the
parser glues together. For texts of any length the result is the piece of the text from the first of
these tokens to the last, letter by letter, and the next token is of a kind that cannot belong to it. It
rests on the tiling: tokens follow on each other within the text (`TokensFit`), so that the pieces
touch, by induction on their number (`GlueIs`). It is said of what does not begin with a quoted string,
since a quoted token's text is what was quoted and not what is written.

**Settings and scripts** (`Decisions_proofs`). `SidesAgreeCorrect` (SidesAgree): the server passes over
a project name that has no value and the client does not, so that the two take their names from
different sets of blocks; if the last name has a value it is the last of either (`LastValueAmong`), for
any number of queries. `ScriptsMatchBySegmentsCorrect` (ScriptsMatchBySegments, which the run checks as
a part of ConfiguredPathsStayInside): for paths of any length over any characters, the allowlist
compares as segments do, and the normal form is its own normal form unless it begins with `~`.
Splitting, joining and the choice of segments are recursive functions over the places of a text; that
what is joined with slashes is split where it was joined (`JoinedSplits`) is by induction from the last
segment to the first, and within a segment from its last character to its first (`SplitBehind`).

*Induction.* The library's induction theorems take a predicate as a parameter, which none of the provers
can instantiate. `Induction` derives from the well-foundedness of the numbers that each set of them has
a least element, and states induction for sets (`UpTo`, `DownTo`), where the predicate is an element
relation. That a recursive function exists is proved there too (`StepsHaveAFunction`,
`ForwardHasAFunction`, `RecursionHasAFunction`), with the body of the definition as a function of the
argument and of the function so far, and a rank that falls at each call.

**DashboardSession** (`DashboardSession_proofs`). `MutexCorrect` (MutexIsGivenBack) with typing.
`OneSignInCorrect` (OneSignInPerLogin): a callback beyond its login's row holds the only claim to that
login (`SignInInv`): the row is gone, and rows are never made twice. `SignOutCorrect`
(SignOutTakesHold): a session whose row a sign-out deleted has none, and none of its name comes again
(`SignOutInv`), because each callback makes one session; where the row stayed and the token was revoked,
auth-center has not vouched for it since (`RevokedInv`), and what it said before is cached no longer
than `CacheTtl`. `AccessCorrect` (AccessIsVouched): as for the verdict cache of keys, an entry ends
within `CacheTtl` of the last yes, and so does what a pending answer will store (`VouchInv`).
`RowsCorrect` (RowsGoForAReason): a session's row goes by its sign-out, a login's by its callback, or
either by a clean-up that finds it ended.

## 5. What is only model-checked

Liveness (`RunsEnd`, `UndisturbedRunsPublish`, `CallsReturn`) and everything with fairness or ENABLED:
out of the prover's reach. What the parser of the config language computes: its operators call each
other and are RECURSIVE, which the provers cannot use, so `LayoutMakesBlocks`, `TextsSurvive` and
`ConfiguredPathsStayInside` are checked over bounded inputs, the second but for its part about glued
tokens and the last but for its part about scripts (section 4). Two conditions of the theorems are not
for want of a proof: an in-place run that does not wait for handlers of the last one, and a run that is
overtaken by the clean-up, may publish less than was shipped (section 6). That mutants are caught is by
nature a matter of TLC.

## 6. Where documents and code part

| Run | Document | Code |
|---|---|---|
| `finding_rollback` | `docs/auth-integration.md:15`: rollback reactivates an earlier versioned deployment | any row of the project can be rolled back to, one that failed half-way or a preview's included (`deployments.rs:421`) |
| `finding_partial_manifest` | `docs/project-goals.md:29`: the server verifies hashes and activates | previews of large sets can make the clean-up drop the manifest of a run in progress; the next batch starts it afresh, and the rest is neither verified nor missed (`deployments.rs:315`) |
| `finding_unrecorded_bind` | `docs/auth-integration.md:34`: every bind is recorded | a crash between the two statements, or an error of the second, leaves a bind without history, and a retry adds none (`deployments.rs:121`) |
| `finding_hook_text` | `core/src/qc/query.rs:127`: a tag written as `name(...)` renders back as just its inner contents | what was parsed is rendered: `shell(pnpm build:prod)` runs as `pnpm build=prod`, and of `shell(a \| b)` only `a` is left (`query.rs:129`) |

The counterparts hold: with `CarefulOperator`, without overtaken runs, and, for the history, but for one link
for each createProject that was cut short (HistoryExplainsBindings).

Known limits, and smaller disagreements that were met while modelling and have no run of their own.

*Deployments and scripts*

- An older overlapping run that finishes later moves the pointer back to its deployment
  (`activate.rs:189`): the last activation wins.
- finishUploads only logs a leftover it cannot delete and succeeds; `run_in_place` therefore has no disk
  faults.
- An upload whose client gave up runs on, and may overwrite a file of the next in-place run after it
  was verified (`uploads.rs:46`). In-place runs therefore start when the server is done with the last
  one (`StartRule` "quiet").
- Project names are not checked: one named like a deployment, deployed in place, shares that deployment's
  directory (`deployments.rs:221`), and each may overwrite the other's files.
- The parts of an upload that was cut short are assembled together with those of its repetition
  (`uploads.rs:91`), although the comment at `uploads.rs:99-100` speaks of a retry: sorted as they are,
  every byte is there in order, but a part may be there twice (RetriedHasEveryByte), and the
  deployment's verification refuses the file. The handler then deletes all the rows, so that the next
  repetition makes the file as it should be. Nothing is promised where a repetition begins while calls
  of the last upload are still being served, where the previous copy cannot be removed (its failure is
  ignored, and parts are appended to the old file, `uploads.rs:101-109`), or where another deploy's
  clean-up took rows of a deployment more than four hours old. verifyDeployment refuses such a file, if
  it is on disk by then.
- After a restart the slot counter is zero while scripts of the dead process may still run, so the cap
  of four (`docs/config-reference.md:161`) is per server process. `ScriptsHoldSlots` leaves those
  scripts out. Their rows stay open. No process remains to enforce their time limit.
- A handler whose wait for its script fails gives its slot back and records a failed run
  (`run_on_server.rs:358`), while the script may run on without a slot and without a limit: left out of
  `ScriptsHoldSlots` too.
- A script that ends in time may leave processes of its group running without limit: only the
  time-out kills the group.

*Config files*

- A quoted string that is not closed and ends in a backslash makes a token longer than the text
  (`lexer.rs:176-186`), and reading it panics (`lexer.rs:343`).
- An `include` or `preserve-existing-files-max-age` without an argument never reaches its error
  message (`filelist.rs:213-223`): the parser drops queries without tags (`parser.rs:475`).
- A stray `)` ends the file, a `/` where a tag would begin drops the rest of its query, a tab is no
  indentation, and with CRLF line ends a pattern keeps the `\r`: all without a message.
- A line that begins with `/`, `|`, `;` or `)` ends a block however far it is indented. `LayoutMakesBlocks`
  is about blank lines, comments and indentation, of which only the last says where a block ends.
- A duration's product is unchecked (`config.rs:293`). A debug build stops; a release build wraps, and
  a negative age counts as none: everything that a preserve rule keeps is then old at once.
  `OnlyLeftoversGo` has that case, with what was written in the very moment as the exception.

- `normalize_script_path` tests for a leading `~` before it drops `.` segments (`config.rs:239`), so
  `./~x` becomes `~x`, which it would refuse. The CLI sends the normal form (`run_on_server.rs:30`) and
  the server normalizes once more (`handlers/run_on_server.rs:70`): such a script can be listed and not
  be run, although `config.rs:220-221` calls the result the canonical form for both.
  `ScriptsMatchBySegments` says so.

*Paths, rules and statements*

- `paths.rs:15` claims to resolve as Node does. Above the root the two differ; the guard is then the
  stricter one.
- An ignore rule whose pattern does not compile protects nothing. A brace alternative across a slash is
  not descended into. Excluding a directory does not exclude a deeper file that an include names.
  `*/**` matches below hidden directories, which the walk does not enter: `ShipsWhatIsNamed` speaks of
  plain paths.
- `docs/config-reference.md`: "Explicit `--database` selections must name a configured database". The
  server takes an explicit name without looking it up (`sql_methods.rs:105`), and compares it with the
  entries as it is written. `RoutingIsSafe` therefore speaks of statements that name no database.
- Listing the tables of a database whose file is missing creates an empty one.
- `--` directly after a word is part of that word to the tokenizer, and a backslash escapes in its
  strings; SQLite sees neither so.

*Dashboard*

- `dashboard/oauth.rs:129-130` says that its caller keeps it off the async runtime's threads; the
  callback calls it, and the introspection, directly (`dashboard/mod.rs:166`, `176`), so that slow
  answers hold up the server's workers.
- `dashboard/session.rs:21-22` says that a session never outlives its credential; its end is counted from the
  receipt of the token, a little later than the token's own. Each request asks again, so nobody
  gets in by it beyond a cached verdict.
- logout ignores a session row that it cannot delete, and answers ok (`dashboard/api.rs:120`). If the token's
  revocation reaches auth-center the session opens nothing once a cached verdict ends; if that fails too
  (`oauth.rs:170`), the session lives on though the user was told otherwise. `SignOutTakesHold` says as much.
- A sign-in that fails after the token was issued revokes it only when admin-read is lacking: not if
  auth-center cannot be reached, nor if the session cannot be written.
- The mutex is held while auth-center is asked, up to 5 seconds (`server.rs:69`, `api.rs:70`). It is always
  given back (`MutexIsGivenBack`); that everyone who waits gets it hangs on the mutex being fair.

## 7. What is not modelled, and why

- Hashing, serialisation, file modes: contents are equal exactly when their hashes are.
- SQL execution, which is SQLite's, and globset's syntax beyond `*` and `**`.
- Hooks and candle: commands of the user; a failing hook is a step of the run.
- `start-services`: a loop over the active deployments that starts candle for each; it changes nothing
  other calls see.
- The web application, a read-only client; pages, cookies and PKCE values of the sign-in.
- `copy-back`, `history`, `auth-scopes`, what `list-databases` prints, argument handling, git tags, where
  the API key comes from: reading and printing.
- The identity of the caller that is written into rows, and `--disable-api-key-check`.

## 8. How the project is ordered, and what could follow

In the order of what matters most: `DeployServer` (lifecycle, any caller), `DeployRun` with
`AtomicPublish` (the protocol), `Authorization` with `RpcMethods`, `RunOnServer`, then
`MultipartUpload`, `DashboardSession`, the config language and the pure modules. What would add most:

1. `MirroredDirectory` composed with `DeployRun`: the leftovers of the protocol as those of the rules.
2. The refinement of `AtomicPublish` for behaviours in which runs are overtaken, by an abstract
   specification that lets such a run publish a part of its build.
3. The parser as recursive functions of the position, so that `LayoutMakesBlocks` can be proved as
   the lexer's promises are.
4. Execute bits and the identity of callers, if properties about them are wanted.
