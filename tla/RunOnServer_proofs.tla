------------------------- MODULE RunOnServer_proofs -------------------------
(***************************************************************************)
(* Proofs about RunOnServer, for any number of calls, slots and crashes.   *)
(***************************************************************************)
EXTENDS RunOnServer, FiniteSetTheorems, TLAPS

-----------------------------------------------------------------------------
(* Slots.  Typing and counting are proved together: the counter stays a    *)
(* natural number only because whoever gives a slot back is counted.       *)

CountInv == TypeOK /\ SlotsAreCounted

\* Only finitely many calls hold a slot.
LEMMA HoldersFinite == IsFiniteSet(Holders)
  BY RunOnServerAssumption, FS_Subset DEF Holders

\* Who takes a slot is one holder more.
LEMMA HoldersGrow ==
    ASSUME TypeOK, NEW c \in Calls, c \notin Holders,
           NEW p \in Holding, pc' = [pc EXCEPT ![c] = p]
    PROVE  Cardinality(Holders') = Cardinality(Holders) + 1
  <1>1. Holders' = Holders \cup {c}
    BY DEF Holders, TypeOK, Holding
  <1> QED
    BY <1>1, HoldersFinite, FS_AddElement

\* Who gives its slot back was counted, and is one holder less.
LEMMA HoldersShrink ==
    ASSUME TypeOK, NEW c \in Holders,
           NEW p \in Phases \ Holding, pc' = [pc EXCEPT ![c] = p]
    PROVE  /\ Cardinality(Holders') = Cardinality(Holders) - 1
           /\ Cardinality(Holders) \in Nat \ {0}
  <1>1. Holders' = Holders \ {c}
    BY DEF Holders, TypeOK, Holding
  <1>2. Cardinality(Holders) \in Nat
    BY HoldersFinite, FS_CardinalityType
  <1>3. Cardinality(Holders) # 0
    BY HoldersFinite, FS_EmptySet
  <1> QED
    BY <1>1, <1>2, <1>3, HoldersFinite, FS_RemoveElement

\* A step that neither takes a slot nor gives one back leaves the holders alone.
LEMMA HoldersSame ==
    ASSUME TypeOK, NEW c \in Calls, NEW p \in Phases,
           c \in Holders <=> p \in Holding, pc' = [pc EXCEPT ![c] = p]
    PROVE  Holders' = Holders
  BY DEF Holders, TypeOK

\* No handler holds a slot and the counter is zero.
THEOREM CountInit == Init => CountInv
  <1> SUFFICES ASSUME Init PROVE CountInv
    OBVIOUS
  <1>1. TypeOK
    BY RunOnServerAssumption DEF Init, TypeOK, Phases
  <1>2. Holders = {}
    BY DEF Init, Holders, Holding
  <1> QED
    BY <1>1, <1>2, FS_EmptySet, RunOnServerAssumption
       DEF CountInv, SlotsAreCounted, Init

\* Every step keeps the counter equal to the number of handlers with a slot.
THEOREM CountStep == CountInv /\ [Next]_vars => CountInv'
  <1> SUFFICES ASSUME CountInv, [Next]_vars PROVE CountInv'
    OBVIOUS
  <1> USE RunOnServerAssumption
  <1>a. TypeOK /\ inFlight = Cardinality(Holders) /\ inFlight <= MaxRuns
    BY DEF CountInv, SlotsAreCounted
  <1>1. ASSUME NEW c \in Calls,
               Lookup(c) \/ Resolve(c) \/ LoadCounter(c) \/ RefuseFull(c)
                 \/ Spawn(c) \/ Reap(c) \/ TimeOut(c) \/ KillGroup(c) \/ Drain(c)
        PROVE  CountInv'
    <2>1. ASSUME KillGroup(c)
         PROVE  TypeOK'
      <3>1. left' \in [Calls -> SUBSET Kinds]
        BY <1>1, <2>1, <1>a DEF TypeOK, KillGroup, Killed, Spared
      <3> QED
        BY <1>1, <2>1, <3>1, <1>a DEF TypeOK, KillGroup, Killed, Goes, Phases, disk
    <2>2. ASSUME Lookup(c) \/ Resolve(c) \/ LoadCounter(c) \/ RefuseFull(c)
         PROVE  TypeOK'
      BY <1>1, <2>2, <1>a
         DEF TypeOK, Lookup, Resolve, LoadCounter, RefuseFull, Goes, Returns,
             Phases, disk, process
    <2>3. ASSUME Spawn(c) \/ Reap(c) \/ TimeOut(c) \/ Drain(c)
         PROVE  TypeOK'
      BY <1>1, <2>3, <1>a, ZenonT(60)
         DEF TypeOK, Spawn, Reap, TimeOut, Drain, Goes, Phases, Outcomes, disk,
             process
    <2>4. TypeOK'
      BY <1>1, <2>1, <2>2, <2>3
    <2>5. /\ inFlight' = inFlight
          /\ \E p \in Phases : /\ pc' = [pc EXCEPT ![c] = p]
                               /\ c \in Holders <=> p \in Holding
      BY <1>1
         DEF Lookup, Resolve, LoadCounter, RefuseFull, Spawn, Reap, TimeOut,
             KillGroup, Drain, Goes, Returns, Phases, Holding, Holders
    <2> QED
      BY <2>4, <2>5, <1>a, HoldersSame DEF CountInv, SlotsAreCounted
  <1>2. ASSUME NEW c \in Calls, Claim(c)
        PROVE  CountInv'
    <2>1. TypeOK'
      BY <1>2, <1>a DEF TypeOK, Claim, Goes, Phases, disk, process
    <2>2. CASE Exchanges(c)
      <3>1. c \notin Holders /\ "claimed" \in Holding
        BY <1>2 DEF Claim, Holders, Holding
      <3>2. inFlight' = inFlight + 1 /\ inFlight < MaxRuns
        BY <1>2, <2>2, <1>a DEF Claim, Exchanges
      <3>3. Cardinality(Holders') = Cardinality(Holders) + 1
        BY <1>2, <2>2, <1>a, <3>1, HoldersGrow DEF Claim, Goes
      <3> QED
        BY <2>1, <3>2, <3>3, <1>a DEF CountInv, SlotsAreCounted, TypeOK
    <2>3. CASE ~Exchanges(c)
      <3>1. pc' = pc /\ inFlight' = inFlight
        BY <1>2, <2>3 DEF Claim
      <3> QED
        BY <2>1, <3>1, <1>a DEF CountInv, SlotsAreCounted, Holders
    <2> QED
      BY <2>2, <2>3
  <1>3. ASSUME NEW c \in Calls,
               RecordStart(c) \/ SpawnFails(c) \/ WaitFails(c) \/ RecordFinish(c) \/ Return(c)
        PROVE  CountInv'
    <2>1. c \in Holders
      BY <1>3 DEF RecordStart, SpawnFails, WaitFails, RecordFinish, Return, Holders, Holding
    <2>2. CASE inFlight' = inFlight /\ \E p \in {"recorded", "written"} : Goes(c, p)
      <3>1. TypeOK'
        BY <1>3, <2>2, <1>a
           DEF TypeOK, RecordStart, SpawnFails, WaitFails, RecordFinish, Return, Goes,
               Returns, Phases, Outcomes, disk, process
      <3>2. Holders' = Holders
        BY <2>1, <2>2, <1>a, HoldersSame DEF Goes, Phases, Holding
      <3> QED
        BY <3>1, <3>2, <2>2, <1>a DEF CountInv, SlotsAreCounted
    <2>3. CASE Freed /\ Goes(c, "done")
      <3>1. "done" \in Phases \ Holding
        BY DEF Phases, Holding
      <3>2. /\ Cardinality(Holders') = Cardinality(Holders) - 1
            /\ Cardinality(Holders) \in Nat \ {0}
        BY <2>1, <2>3, <3>1, <1>a, HoldersShrink DEF Goes
      <3>3. inFlight' \in Nat /\ inFlight' < inFlight
        BY <2>3, <3>2, <1>a DEF Freed
      <3>4. TypeOK'
        <4>1. CASE WaitFails(c)
          <5>1. script' \in [Calls -> {"none", "alive", "ended"}] /\ left' \in [Calls -> SUBSET Kinds]
            BY <4>1, <1>a DEF TypeOK, WaitFails, Killed, Spared, process
          <5> QED
            BY <4>1, <3>3, <5>1, <1>a
               DEF TypeOK, WaitFails, Goes, Returns, Phases, Outcomes, disk
        <4>2. CASE ~WaitFails(c)
          BY <1>3, <2>3, <3>3, <4>2, <1>a
             DEF TypeOK, RecordStart, SpawnFails, RecordFinish, Return, Goes,
                 Returns, Phases, Outcomes, disk, process
        <4> QED
          BY <4>1, <4>2
      <3> QED
        BY <3>2, <3>3, <3>4, <2>3, <1>a DEF CountInv, SlotsAreCounted, Freed, TypeOK
    <2> QED
      BY <1>3, <2>2, <2>3 DEF RecordStart, SpawnFails, WaitFails, RecordFinish, Return, Returns
  <1>4. ASSUME NEW c \in Calls,
               LimitPasses(c) \/ ScriptForks(c) \/ ScriptEnds(c) \/ ChildEnds(c)
        PROVE  CountInv'
    <2>1. left' \in [Calls -> SUBSET Kinds]
      BY <1>4, <1>a
         DEF TypeOK, LimitPasses, ScriptForks, ScriptEnds, ChildEnds, process
    <2>3. TypeOK'
      BY <1>4, <2>1, <1>a
         DEF TypeOK, LimitPasses, ScriptForks, ScriptEnds, ChildEnds, disk, process
    <2>2. pc' = pc /\ inFlight' = inFlight
      BY <1>4 DEF LimitPasses, ScriptForks, ScriptEnds, ChildEnds
    <2> QED
      BY <2>3, <2>2, <1>a DEF CountInv, SlotsAreCounted, Holders
  <1>5. ASSUME NEW d \in Deployments, Activate(d) \/ UploadOneFile(d) \/ FinishUploads(d)
        PROVE  CountInv'
    <2>1. TypeOK'
      BY <1>5, <1>a DEF TypeOK, Activate, UploadOneFile, FinishUploads, process
    <2>2. pc' = pc /\ inFlight' = inFlight
      BY <1>5 DEF Activate, UploadOneFile, FinishUploads
    <2> QED
      BY <2>1, <2>2, <1>a DEF CountInv, SlotsAreCounted, Holders
  <1>6. CASE ServerDies
    <2>1. TypeOK'
      BY <1>6, <1>a DEF TypeOK, ServerDies, Phases, disk, process
    <2>2. Holders' = {}
      BY <1>6 DEF ServerDies, Holders, Holding
    <2> QED
      BY <2>1, <2>2, <1>6, FS_EmptySet DEF CountInv, SlotsAreCounted, ServerDies
  <1>7. CASE UNCHANGED vars
    BY <1>7, <1>a DEF CountInv, SlotsAreCounted, Holders, TypeOK, vars
  <1> QED
    BY <1>1, <1>2, <1>3, <1>4, <1>5, <1>6, <1>7 DEF Next, Handle

\* The counter of slots is a number and every variable is of its type, in every
\* reachable state, whatever the number of calls, of slots and of restarts.
THEOREM TypeCorrect == Spec => []TypeOK
  <1>1. CountInv => TypeOK
    BY DEF CountInv
  <1> QED
    BY CountInit, CountStep, <1>1, PTL DEF Spec

\* RUNS_IN_FLIGHT counts the handlers that hold a slot, and never more than
\* MaxRuns of them do.
THEOREM SlotsCorrect == Spec => []SlotsAreCounted
  <1>1. CountInv => SlotsAreCounted
    BY DEF CountInv
  <1> QED
    BY CountInit, CountStep, <1>1, PTL DEF Spec

-----------------------------------------------------------------------------
(* One run.  What is on record follows where the handler is; what the      *)
(* handler knows of the processes holds until it ends.                     *)

\* The processes are down as far as the outcome promises.
Down(c) ==
    /\ script[c] = "ended"
    /\ outcome[c] \in {"exited", "timed-out"}
    /\ outcome[c] = "timed-out" => "grouped" \notin left[c]

RunOK(c) ==
    /\ pc[c] \in {"sent", "found", "checked", "loaded", "claimed", "recorded"}
         => script[c] = "none" /\ outcome[c] = "none"
    /\ pc[c] \in {"recorded", "running", "killing", "draining", "drained"}
         => row[c] = "open"
    /\ pc[c] = "killing" => outcome[c] = "timed-out" /\ script[c] # "none"
    /\ pc[c] \in {"draining", "drained", "written"} => Down(c)
    /\ pc[c] = "written" => row[c] = outcome[c]
    /\ answer[c] = "result" => pc[c] = "done" /\ row[c] = outcome[c] /\ Down(c)
    /\ row[c] = "timed-out" => pc[c] \in {"written", "done", "lost"} /\ Down(c)
    /\ script[c] # "none" => row[c] # "none"
    /\ script[c] = "alive" =>
         pc[c] \in {"running", "killing", "lost"} \/ outcome[c] = "failed"
    /\ row[c] \in Outcomes => row[c] = outcome[c]

RunInv == CountInv /\ \A c \in Calls : RunOK(c)

\* A call that a step does not concern stays as it is.
LEMMA RunFrame ==
    ASSUME NEW x, RunOK(x),
           /\ pc'[x] = pc[x] /\ row'[x] = row[x] /\ outcome'[x] = outcome[x]
           /\ answer'[x] = answer[x] /\ script'[x] = script[x]
           /\ left'[x] = left[x]
    PROVE  RunOK(x)'
  BY DEF RunOK, Down

\* The invariant holds at the start,
THEOREM RunInit == Init => RunInv
  <1>1. Init => CountInv
    BY CountInit
  <1>2. Init => \A c \in Calls : RunOK(c)
    BY DEF Init, RunOK, Down, Outcomes
  <1> QED
    BY <1>1, <1>2 DEF RunInv

\* Every step, the handler's own and those of the world around it, keeps the
\* record true to the processes.
THEOREM RunStep == RunInv /\ [Next]_vars => RunInv'
  <1> SUFFICES ASSUME RunInv, [Next]_vars, NEW x \in Calls
               PROVE  RunOK(x)'
    BY CountStep DEF RunInv
  <1>a. TypeOK /\ RunOK(x)
    BY DEF RunInv, CountInv
  <1>1. ASSUME NEW c \in Calls,
               Handle(c) \/ LimitPasses(c) \/ ScriptForks(c) \/ ScriptEnds(c)
                 \/ ChildEnds(c)
        PROVE  RunOK(x)'
    <2>1. CASE c # x
      <3>1. /\ pc'[x] = pc[x] /\ row'[x] = row[x] /\ outcome'[x] = outcome[x]
            /\ answer'[x] = answer[x]
        BY <1>1, <2>1, <1>a
           DEF TypeOK, Handle, Lookup, Resolve, LoadCounter, RefuseFull, Claim,
               RecordStart, Spawn, SpawnFails, WaitFails, Reap, TimeOut, KillGroup, Killed,
               Drain, RecordFinish, Return, LimitPasses, ScriptForks, ScriptEnds,
               ChildEnds, Goes, Returns
      <3>2. script'[x] = script[x] /\ left'[x] = left[x]
        BY <1>1, <2>1, <1>a
           DEF TypeOK, Handle, Lookup, Resolve, LoadCounter, RefuseFull, Claim,
               RecordStart, Spawn, SpawnFails, WaitFails, Reap, TimeOut, KillGroup, Killed,
               Drain, RecordFinish, Return, LimitPasses, ScriptForks, ScriptEnds,
               ChildEnds, process
      <3> QED
        BY <3>1, <3>2, <1>a, RunFrame
    <2>2. CASE c = x
      <3>1. CASE Lookup(x) \/ Resolve(x) \/ LoadCounter(x) \/ RefuseFull(x)
                   \/ Claim(x)
        BY <3>1, <1>a
           DEF TypeOK, RunOK, Down, Lookup, Resolve, LoadCounter, RefuseFull,
               Claim, Goes, Returns, process
      <3>2. CASE RecordStart(x) \/ Spawn(x)
        BY <3>2, <1>a
           DEF TypeOK, RunOK, Down, RecordStart, Spawn, Goes, Returns, Outcomes,
               process
      <3>3. CASE SpawnFails(x)
        BY <3>3, <1>a
           DEF TypeOK, RunOK, Down, SpawnFails, Goes, Returns, Outcomes, process
      <3>9. CASE WaitFails(x)
        BY <3>9, <1>a
           DEF TypeOK, RunOK, Down, WaitFails, Killed, Goes, Returns, Outcomes, process
      <3>4. CASE Reap(x) \/ TimeOut(x) \/ Drain(x)
        BY <3>4, <1>a
           DEF TypeOK, RunOK, Down, Reap, TimeOut, Drain, Goes, Outcomes, process
      <3>5. CASE KillGroup(x)
        BY <3>5, <1>a
           DEF TypeOK, RunOK, Down, KillGroup, Killed, Spared, Goes, Outcomes
      <3>6. CASE RecordFinish(x) \/ Return(x)
        BY <3>6, <1>a
           DEF TypeOK, RunOK, Down, RecordFinish, Return, Goes, Returns, Outcomes,
               process
      <3>7. CASE LimitPasses(x) \/ ScriptForks(x) \/ ScriptEnds(x)
        BY <3>7, <1>a
           DEF TypeOK, RunOK, Down, LimitPasses, ScriptForks, ScriptEnds,
               process
      <3>8. CASE ChildEnds(x)
        <4>1. left'[x] \subseteq left[x]
          BY <3>8, <1>a DEF TypeOK, ChildEnds
        <4> QED
          BY <3>8, <4>1, <1>a DEF TypeOK, RunOK, Down, ChildEnds
      <3> QED
        BY <1>1, <2>2, <3>1, <3>2, <3>3, <3>4, <3>5, <3>6, <3>7, <3>8,
           <3>9 DEF Handle
    <2> QED
      BY <2>1, <2>2
  <1>2. ASSUME NEW d \in Deployments, Activate(d) \/ UploadOneFile(d) \/ FinishUploads(d)
        PROVE  RunOK(x)'
    BY <1>2, <1>a, RunFrame DEF Activate, UploadOneFile, FinishUploads, process
  <1>3. CASE ServerDies
    BY <1>3, <1>a DEF TypeOK, ServerDies, RunOK, Down, process
  <1>4. CASE UNCHANGED vars
    BY <1>4, <1>a, RunFrame DEF vars
  <1> QED
    BY <1>1, <1>2, <1>3, <1>4 DEF Next

\* It holds throughout.
LEMMA RunCorrect == Spec => []RunInv
  BY RunInit, RunStep, PTL DEF Spec

\* Whatever the interleaving and the crashes, a process that was started is on
\* record, and so a run that takes the server down is.
THEOREM StartedCorrect == Spec => []StartedRunsAreOnRecord
  <1>1. RunInv => StartedRunsAreOnRecord
    BY DEF RunInv, RunOK, StartedRunsAreOnRecord
  <1> QED
    BY RunCorrect, <1>1, PTL

\* A result given to a caller is the recorded one, of a script that has ended.
THEOREM ResultsCorrect == Spec => []ResultsAreOnRecord
  <1>1. RunInv => ResultsAreOnRecord
    BY DEF RunInv, RunOK, Down, ResultsAreOnRecord
  <1> QED
    BY RunCorrect, <1>1, PTL

\* A run recorded as timed out has no process of its group left.
THEOREM TimedOutCorrect == Spec => []TimedOutLeavesNothing
  <1>1. RunInv => TimedOutLeavesNothing
    BY DEF RunInv, RunOK, Down, Outcomes, TimedOutLeavesNothing
  <1> QED
    BY RunCorrect, <1>1, PTL

\* A script that runs under a living handler is under a slot.
THEOREM ScriptsCorrect == Spec => []ScriptsHoldSlots
  <1>1. RunInv => ScriptsHoldSlots
    BY DEF RunInv, RunOK, ScriptsHoldSlots, Holders, Holding
  <1> QED
    BY RunCorrect, <1>1, PTL

=============================================================================
