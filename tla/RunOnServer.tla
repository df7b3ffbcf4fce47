---------------------------- MODULE RunOnServer ----------------------------
(***************************************************************************)
(* runOnServer: a caller has one of a project's listed scripts run in the  *)
(* project's active deployment (crates/deploy-server/src/handlers/         *)
(* run_on_server.rs).  Handlers run concurrently on blocking threads; they *)
(* share the database behind its mutex, the counter RUNS_IN_FLIGHT, and    *)
(* the disk.  Between a handler's steps other deployments are activated,   *)
(* files are uploaded and removed, and the server may die: the scripts are *)
(* processes in groups of their own and survive it.                        *)
(*                                                                         *)
(* One project and one script; a deployment's recorded config either lists *)
(* the script or does not.  Wall-clock limits are flags: late[c] says that *)
(* the limit the handler of call c is waiting on has passed.               *)
(***************************************************************************)
EXTENDS Naturals, FiniteSets

CONSTANTS
    Calls,          \* runOnServer calls that passed authorization
    Deployments,    \* the project's deployments
    NoDeployment,   \* no active deployment
    MaxRuns,        \* MAX_CONCURRENT_RUNS
    MaxCrashes      \* bound: how often the server dies

ASSUME RunOnServerAssumption ==
    /\ IsFiniteSet(Calls)
    /\ MaxRuns \in Nat \ {0}
    /\ MaxCrashes \in Nat
    /\ NoDeployment \notin Deployments

VARIABLES
    active,     \* active_deployment's row for the project
    lists,      \* the deployments whose recorded config lists the script
    onDisk,     \* the deployments whose directory holds the executable
    inFlight,   \* RUNS_IN_FLIGHT
    pc,         \* how far each call's handler is
    seen,       \* acquire's `current`
    deploy,     \* the deployment the handler looked up
    late,       \* the limit being waited on has passed
    row,        \* the call's server_script_run row
    outcome,    \* run_process's result
    answer,     \* what the caller was told
    script,     \* the script's process
    left,       \* processes the script started, still alive
    crashes

disk == <<active, lists, onDisk>>
process == <<script, left>>
vars == <<active, lists, onDisk, inFlight, pc, seen, deploy, late, row, outcome,
          answer, script, left, crashes>>

\* A script's descendants: in its process group, or in a session of their own.
\* Each holds the script's stdout until it ends.
Kinds == {"grouped", "escaped"}

Phases == {"sent", "found", "checked", "loaded", "claimed", "recorded",
           "running", "killing", "draining", "drained", "written",
           "done", "lost"}
Holding == {"claimed", "recorded", "running", "killing", "draining",
            "drained", "written"}
Outcomes == {"failed", "exited", "timed-out"}

\* The calls that hold a RunSlot.
Holders == {c \in Calls : pc[c] \in Holding}

TypeOK ==
    /\ active \in Deployments \cup {NoDeployment}
    /\ lists \subseteq Deployments
    /\ onDisk \subseteq Deployments
    /\ inFlight \in Nat
    /\ pc \in [Calls -> Phases]
    /\ seen \in [Calls -> Nat]
    /\ deploy \in [Calls -> Deployments \cup {NoDeployment}]
    /\ late \in [Calls -> BOOLEAN]
    /\ row \in [Calls -> {"none", "open"} \cup Outcomes]
    /\ outcome \in [Calls -> {"none"} \cup Outcomes]
    /\ answer \in [Calls -> {"none", "error", "result"}]
    /\ script \in [Calls -> {"none", "alive", "ended"}]
    /\ left \in [Calls -> SUBSET Kinds]
    /\ crashes \in 0..MaxCrashes

Init ==
    /\ active \in Deployments \cup {NoDeployment}
    /\ lists \in SUBSET Deployments
    /\ onDisk \in SUBSET Deployments
    /\ inFlight = 0
    /\ pc = [c \in Calls |-> "sent"]
    /\ seen = [c \in Calls |-> 0]
    /\ deploy = [c \in Calls |-> NoDeployment]
    /\ late = [c \in Calls |-> FALSE]
    /\ row = [c \in Calls |-> "none"]
    /\ outcome = [c \in Calls |-> "none"]
    /\ answer = [c \in Calls |-> "none"]
    /\ script = [c \in Calls |-> "none"]
    /\ left = [c \in Calls |-> {}]
    /\ crashes = 0

-----------------------------------------------------------------------------
(* The handler.  Goes(c, p) moves it on; Fails(c) is an early return with  *)
(* an error, and Freed drops the slot with it.                             *)

Goes(c, p) == pc' = [pc EXCEPT ![c] = p]

\* Its locals go with it.
Returns(c, a) ==
    /\ Goes(c, "done")
    /\ answer' = [answer EXCEPT ![c] = a]
    /\ seen' = [seen EXCEPT ![c] = 0]
    /\ deploy' = [deploy EXCEPT ![c] = NoDeployment]

\* "Variant" definitions are single-fault versions of the definition that follows
\* them, used to test that the properties notice such a fault.

\* RunSlot's Drop.
Freed == inFlight' = inFlight - 1

\* The allowlist is the one recorded with the deployment looked up, never the
\* request's.
Allowed(d) == d \in lists

\* active_deployment, under the mutex, and the allowlist check on its row.
Lookup(c) ==
    /\ pc[c] = "sent"
    /\ IF active # NoDeployment /\ Allowed(active)
         THEN /\ Goes(c, "found")
              /\ deploy' = [deploy EXCEPT ![c] = active]
              /\ UNCHANGED <<answer, seen>>
         ELSE Returns(c, "error")
    /\ UNCHANGED <<disk, inFlight, late, row, outcome, process, crashes>>

\* resolve_executable: the file must be there now.
Resolve(c) ==
    /\ pc[c] = "found"
    /\ IF deploy[c] \in onDisk
         THEN Goes(c, "checked") /\ UNCHANGED <<answer, seen, deploy>>
         ELSE Returns(c, "error")
    /\ UNCHANGED <<disk, inFlight, late, row, outcome, process, crashes>>

\* acquire's counter.load.
LoadCounter(c) ==
    /\ pc[c] = "checked"
    /\ seen' = [seen EXCEPT ![c] = inFlight]
    /\ Goes(c, "loaded")
    /\ UNCHANGED <<disk, inFlight, deploy, late, row, outcome, answer, process,
                   crashes>>

\* acquire gives up once it has seen every slot taken.
RefuseFull(c) ==
    /\ pc[c] = "loaded"
    /\ seen[c] >= MaxRuns
    /\ Returns(c, "error")
    /\ UNCHANGED <<disk, inFlight, late, row, outcome, process, crashes>>

\* Variant: the counter is stored to, whatever it holds by now.
StoresAnyway(c) == TRUE

\* compare_exchange succeeds only on the value the handler has seen.
Exchanges(c) == inFlight = seen[c]

Claim(c) ==
    /\ pc[c] = "loaded"
    /\ seen[c] < MaxRuns
    /\ IF Exchanges(c)
         THEN inFlight' = seen[c] + 1 /\ Goes(c, "claimed") /\ UNCHANGED seen
         ELSE seen' = [seen EXCEPT ![c] = inFlight] /\ UNCHANGED <<inFlight, pc>>
    /\ UNCHANGED <<disk, deploy, late, row, outcome, answer, process, crashes>>

\* Variant: a run goes on when its row could not be written.
RecordStartTolerant(c) ==
    /\ pc[c] = "claimed"
    /\ row' \in {row, [row EXCEPT ![c] = "open"]}
    /\ Goes(c, "recorded")
    /\ UNCHANGED <<disk, inFlight, seen, deploy, late, outcome, answer, process,
                   crashes>>

\* record_start: the row is written before the process exists, and a failed
\* insert ends the call with its slot.
RecordStart(c) ==
    /\ pc[c] = "claimed"
    /\ \/ /\ row' = [row EXCEPT ![c] = "open"]
          /\ Goes(c, "recorded")
          /\ UNCHANGED <<answer, seen, deploy, inFlight>>
       \/ Freed /\ Returns(c, "error") /\ UNCHANGED row
    /\ UNCHANGED <<disk, late, outcome, process, crashes>>

\* run_process spawns the file that was resolved, if it is still there.
Spawn(c) ==
    /\ pc[c] = "recorded"
    /\ deploy[c] \in onDisk
    /\ script' = [script EXCEPT ![c] = "alive"]
    /\ Goes(c, "running")
    /\ UNCHANGED <<disk, inFlight, seen, deploy, late, row, outcome, answer,
                   left, crashes>>

\* The file may be gone, or the system refuse for a reason of its own.  A run
\* that never started is completed with no exit code; whether that write
\* succeeds is ignored.
SpawnFails(c) ==
    /\ pc[c] = "recorded"
    /\ outcome' = [outcome EXCEPT ![c] = "failed"]
    /\ row' \in {row, [row EXCEPT ![c] = "failed"]}
    /\ Freed
    /\ Returns(c, "error")
    /\ UNCHANGED <<disk, late, process, crashes>>

\* Variant: only the script itself is killed.
SparedByChildKill(S) == S

\* What SIGKILL to the script's group, of which it is the leader, leaves alive.
Spared(S) == S \ {"grouped"}

\* kill_process_group.  The script may have ended on its own since.
Killed(c) ==
    /\ script' = [script EXCEPT ![c] = "ended"]
    /\ left' = [left EXCEPT ![c] = Spared(@)]

\* try_wait, or the wait after the kill, fails: run_process returns the error, and
\* the run is completed with no exit code like one that never started.  A script
\* that was not killed runs on.
WaitFails(c) ==
    /\ \/ pc[c] = "running" /\ UNCHANGED process
       \/ pc[c] = "killing" /\ Killed(c)
    /\ outcome' = [outcome EXCEPT ![c] = "failed"]
    /\ row' \in {row, [row EXCEPT ![c] = "failed"]}
    /\ Freed
    /\ Returns(c, "error")
    /\ UNCHANGED <<disk, late, crashes>>

\* try_wait finds the script ended.
Reap(c) ==
    /\ pc[c] = "running"
    /\ script[c] = "ended"
    /\ outcome' = [outcome EXCEPT ![c] = "exited"]
    /\ late' = [late EXCEPT ![c] = FALSE]
    /\ Goes(c, "draining")
    /\ UNCHANGED <<disk, inFlight, seen, deploy, row, answer, process, crashes>>

\* try_wait finds it alive, and the deadline has passed.
TimeOut(c) ==
    /\ pc[c] = "running"
    /\ script[c] = "alive"
    /\ late[c]
    /\ outcome' = [outcome EXCEPT ![c] = "timed-out"]
    /\ Goes(c, "killing")
    /\ UNCHANGED <<disk, inFlight, seen, deploy, late, row, answer, process,
                   crashes>>

\* Variant: the handler gives the run up at the deadline and leaves it to end.
KillNothing(c) ==
    /\ pc[c] = "killing"
    /\ late' = [late EXCEPT ![c] = FALSE]
    /\ Goes(c, "draining")
    /\ UNCHANGED <<disk, inFlight, seen, deploy, row, outcome, answer, process,
                   crashes>>

\* kill_process_group, then wait.
KillGroup(c) ==
    /\ pc[c] = "killing"
    /\ Killed(c)
    /\ late' = [late EXCEPT ![c] = FALSE]
    /\ Goes(c, "draining")
    /\ UNCHANGED <<disk, inFlight, seen, deploy, row, outcome, answer, crashes>>

\* Variant: the handler reads on to the end of the output.
DrainedAtEnd(c) == left[c] = {}

\* Both readers are at the end of the output, or the grace has passed.
Drained(c) == left[c] = {} \/ late[c]

Drain(c) ==
    /\ pc[c] = "draining"
    /\ Drained(c)
    /\ Goes(c, "drained")
    /\ UNCHANGED <<disk, inFlight, seen, deploy, late, row, outcome, answer,
                   process, crashes>>

\* Variant: the result is returned though it could not be recorded.
RecordFinishTolerant(c) ==
    /\ pc[c] = "drained"
    /\ row' \in {row, [row EXCEPT ![c] = outcome[c]]}
    /\ Goes(c, "written")
    /\ UNCHANGED <<disk, inFlight, seen, deploy, late, outcome, answer, process,
                   crashes>>

\* record_finish; a failed update ends the call with an error.
RecordFinish(c) ==
    /\ pc[c] = "drained"
    /\ \/ /\ row' = [row EXCEPT ![c] = outcome[c]]
          /\ Goes(c, "written")
          /\ UNCHANGED <<answer, seen, deploy, inFlight>>
       \/ Freed /\ Returns(c, "error") /\ UNCHANGED row
    /\ UNCHANGED <<disk, late, outcome, process, crashes>>

\* The handler returns the result, and its slot is dropped.
Return(c) ==
    /\ pc[c] = "written"
    /\ Freed
    /\ Returns(c, "result")
    /\ UNCHANGED <<disk, late, row, outcome, process, crashes>>

-----------------------------------------------------------------------------
(* Time, the script and what it starts, other handlers, crashes.           *)

\* RUN_TIMEOUT or OUTPUT_DRAIN_GRACE passes.
LimitPasses(c) ==
    /\ pc[c] \in {"running", "draining"}
    /\ ~late[c]
    /\ late' = [late EXCEPT ![c] = TRUE]
    /\ UNCHANGED <<disk, inFlight, pc, seen, deploy, row, outcome, answer,
                   process, crashes>>

ScriptForks(c) ==
    /\ script[c] = "alive"
    /\ \E k \in Kinds \ left[c] : left' = [left EXCEPT ![c] = @ \cup {k}]
    /\ UNCHANGED <<disk, inFlight, pc, seen, deploy, late, row, outcome, answer,
                   script, crashes>>

ScriptEnds(c) ==
    /\ script[c] = "alive"
    /\ script' = [script EXCEPT ![c] = "ended"]
    /\ UNCHANGED <<disk, inFlight, pc, seen, deploy, late, row, outcome, answer,
                   left, crashes>>

ChildEnds(c) ==
    /\ \E k \in left[c] : left' = [left EXCEPT ![c] = @ \ {k}]
    /\ UNCHANGED <<disk, inFlight, pc, seen, deploy, late, row, outcome, answer,
                   script, crashes>>

\* activateDeployment or rollback by another handler.
Activate(d) ==
    /\ active' = d
    /\ UNCHANGED <<lists, onDisk, inFlight, pc, seen, deploy, late, row, outcome,
                   answer, process, crashes>>

\* uploadOneFile of another run puts the executable in place.
UploadOneFile(d) ==
    /\ onDisk' = onDisk \cup {d}
    /\ UNCHANGED <<active, lists, inFlight, pc, seen, deploy, late, row, outcome,
                   answer, process, crashes>>

\* finishUploads of another run removes what its manifest does not list; the
\* directory of an update-in-place project is also that of its active deployment.
FinishUploads(d) ==
    /\ onDisk' = onDisk \ {d}
    /\ UNCHANGED <<active, lists, inFlight, pc, seen, deploy, late, row, outcome,
                   answer, process, crashes>>

\* The server dies and starts again: its handlers and its counter are gone, the
\* rows and the processes are not.
ServerDies ==
    /\ crashes < MaxCrashes
    /\ crashes' = crashes + 1
    /\ pc' = [c \in Calls |->
                IF pc[c] \in {"sent", "done"} THEN pc[c] ELSE "lost"]
    /\ inFlight' = 0
    /\ seen' = [c \in Calls |-> 0]
    /\ deploy' = [c \in Calls |-> NoDeployment]
    /\ UNCHANGED <<disk, late, row, outcome, answer, process>>

Handle(c) ==
    \/ Lookup(c) \/ Resolve(c) \/ LoadCounter(c) \/ RefuseFull(c) \/ Claim(c)
    \/ RecordStart(c) \/ Spawn(c) \/ SpawnFails(c)
    \/ WaitFails(c) \/ Reap(c) \/ TimeOut(c) \/ KillGroup(c) \/ Drain(c)
    \/ RecordFinish(c) \/ Return(c)

Next ==
    \/ \E c \in Calls :
          \/ Handle(c)
          \/ LimitPasses(c) \/ ScriptForks(c) \/ ScriptEnds(c) \/ ChildEnds(c)
    \/ \E d \in Deployments : Activate(d) \/ UploadOneFile(d) \/ FinishUploads(d)
    \/ ServerDies

Spec == Init /\ [][Next]_vars

\* The server's threads run and time passes.  Nothing is assumed of a script:
\* it may run, and its children may hold its output, for ever.
FairSpec ==
    /\ Spec
    /\ \A c \in Calls : WF_vars(Handle(c)) /\ WF_vars(LimitPasses(c))

-----------------------------------------------------------------------------
(* Properties.                                                             *)

\* The counter is the number of handlers that hold a slot, on every path out of
\* a run and with handlers racing for the last one, and never exceeds the cap.
SlotsAreCounted ==
    /\ inFlight = Cardinality(Holders)
    /\ inFlight <= MaxRuns

\* A script this server's handlers started, and that still runs, is under a
\* slot: so at most MaxRuns of them run at once.  (Nobody counts a script that a
\* dead server left behind, or one whose handler was refused the wait for it.)
ScriptsHoldSlots ==
    \A c \in Calls : script[c] = "alive" =>
        c \in Holders \/ pc[c] = "lost" \/ outcome[c] = "failed"

\* db.rs: a run is written before its process starts, so that a run that takes
\* the server down with it is still on record.
StartedRunsAreOnRecord ==
    \A c \in Calls : script[c] # "none" => row[c] # "none"

\* A caller that is given a result finds the same result in the record, of a
\* script that has ended.
ResultsAreOnRecord ==
    \A c \in Calls : answer[c] = "result" =>
        /\ row[c] = outcome[c]
        /\ row[c] \in {"exited", "timed-out"}
        /\ script[c] = "ended"

\* A run recorded as timed out has left nothing of its process group running.
TimedOutLeavesNothing ==
    \A c \in Calls : row[c] = "timed-out" =>
        script[c] = "ended" /\ "grouped" \notin left[c]

\* Every call is answered, or lost with the server, however long its script and
\* what that leaves behind may run; in particular every slot is given back.
CallsReturn == \A c \in Calls : <>(pc[c] \in {"done", "lost"})

=============================================================================
