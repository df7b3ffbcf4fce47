------------------------ MODULE Authorization_proofs ------------------------
(***************************************************************************)
(* Proofs about Authorization, for any calls, keys and time-outs.          *)
(***************************************************************************)
EXTENDS Authorization, FiniteSetTheorems, TLAPS

-----------------------------------------------------------------------------
(* Facts about the operators.                                              *)

CacheOK == DOMAIN cache \subseteq Scopes /\ cache \in [DOMAIN cache -> Nat]

\* A resolvable request asks for a scope, and a known method has an action.
LEMMA ScopeForType ==
    ASSUME NEW q \in Requests, Resolvable(q), binding \in Bound
    PROVE  ScopeFor(q) \in Scopes
  <1>1. q.key \in Keys /\ q.project \in Projects /\ q.deploy \in Deployments
    BY RequestAssumption DEF RequestType, Resolvable
  <1>2. ResourceFor(q) \in Resources
    BY <1>1, RequestAssumption, GrantAssumption
       DEF Resolvable, ResourceFor, BoundResource, Bound
  <1>3. Action(q.method) \in Actions
    BY DEF Action, Actions
  <1> QED
    BY <1>1, <1>2, <1>3 DEF ScopeFor, Scopes

\* Making room only takes entries away, and leaves room.
LEMMA MadeRoomFacts ==
    ASSUME CacheOK, NEW t \in Nat
    PROVE  /\ DOMAIN MadeRoom(t) \subseteq DOMAIN cache
           /\ \A s \in DOMAIN MadeRoom(t) : MadeRoom(t)[s] = cache[s]
           /\ IsFiniteSet(DOMAIN cache) => Cardinality(DOMAIN MadeRoom(t)) < MaxCached
  <1> DEFINE live == {s \in DOMAIN cache : cache[s] > t}
  <1>1. CASE Cardinality(DOMAIN cache) < MaxCached
    BY <1>1 DEF MadeRoom
  <1>2. CASE ~(Cardinality(DOMAIN cache) < MaxCached) /\ Cardinality(live) < MaxCached
    <2>1. MadeRoom(t) = Restrict(cache, live)
      BY <1>2 DEF MadeRoom
    <2> QED
      BY <1>2, <2>1 DEF Restrict
  <1>3. CASE ~(Cardinality(DOMAIN cache) < MaxCached) /\ ~(Cardinality(live) < MaxCached)
    <2>1. MadeRoom(t) = <<>>
      BY <1>3 DEF MadeRoom
    <2>2. DOMAIN MadeRoom(t) = {}
      BY <2>1
    <2>3. Cardinality({}) = 0
      BY FS_EmptySet
    <2> QED
      BY <2>2, <2>3, TimeAssumption
  <1> QED
    BY <1>1, <1>2, <1>3

\* Storing an entry keeps the others as they are, or drops them.
LEMMA StoredFacts ==
    ASSUME CacheOK, NEW t \in Nat, NEW s \in Scopes
    PROVE  /\ DOMAIN Stored(s, t) = DOMAIN MadeRoom(t) \cup {s}
           /\ DOMAIN Stored(s, t) \subseteq DOMAIN cache \cup {s}
           /\ Stored(s, t)[s] = t + CacheTtl
           /\ \A x \in DOMAIN Stored(s, t) \ {s} : Stored(s, t)[x] = cache[x]
           /\ Stored(s, t) \in [DOMAIN Stored(s, t) -> Nat]
  BY MadeRoomFacts, TimeAssumption DEF Stored, CacheOK

-----------------------------------------------------------------------------
(* Type correctness.                                                       *)

CallsOK ==
    /\ call \in [Calls -> CallType]
    /\ \A c \in Calls : /\ call[c].st \in {"arrived", "asking", "allowed"}
                             => call[c].req \in Requests
                        /\ call[c].st \in {"asking", "allowed"}
                             => call[c].scope \in Scopes

TypeInv == TypeOK /\ CallsOK

\* The records of calls that are over or not sent, and no binding, are well-typed.
LEMMA OverType == Over \in CallType /\ Unsent \in CallType /\ Nobody \in Bound
  BY GrantAssumption DEF Over, Unsent, Call, CallType, CallStates, NoScope, Nobody, Bound

\* A call that is over, or changes into one of a good kind, keeps calls typed.
LEMMA CallStep ==
    ASSUME CallsOK, NEW c \in Calls, NEW k \in CallType,
           k.st \in {"arrived", "asking", "allowed"} => k.req \in Requests,
           k.st \in {"asking", "allowed"} => k.scope \in Scopes,
           call' = [call EXCEPT ![c] = k]
    PROVE  CallsOK'
  BY DEF CallsOK

\* A call may end at any time.
LEMMA OverStep ==
    ASSUME CallsOK, NEW c \in Calls, call' = [call EXCEPT ![c] = Over]
    PROVE  CallsOK'
  BY OverType, CallStep DEF Over, Call

\* A createProject that is cut short leaves its tables typed.
CutTyped ==
    /\ registered \subseteq Projects /\ binding \in Bound
    /\ DOMAIN history = Projects /\ cut \in [Projects -> Nat]

LEMMA CutShortTyped ==
    ASSUME TypeOK, NEW q \in RequestType, CutShort(q)
    PROVE  CutTyped'
  <1>1. q.project \in Projects /\ q.resource \in Resources
    BY DEF RequestType
  <1>2. binding' \in Bound
    BY <1>1 DEF CutShort, TypeOK, Bound
  <1>3. cut' \in [Projects -> Nat]
    BY <1>1 DEF CutShort, TypeOK
  <1> QED
    BY <1>1, <1>2, <1>3 DEF CutShort, TypeOK, CutTyped

\* Types hold at the start,
THEOREM TypeInit == Init => TypeInv
  <1> SUFFICES ASSUME Init PROVE TypeInv
    OBVIOUS
  <1>1. CallsOK
    BY OverType DEF Init, CallsOK, Unsent, Call
  <1>2. binding \in Bound /\ DOMAIN history = Projects
    BY GrantAssumption DEF Init
  <1>3. cache \in [DOMAIN cache -> Nat] /\ DOMAIN cache \subseteq Scopes
    BY DEF Init
  <1> QED
    BY <1>1, <1>2, <1>3, GrantAssumption, TimeAssumption DEF Init, TypeInv, TypeOK, CallsOK

\* and every step keeps them.
THEOREM TypeStep == TypeInv /\ [Next]_vars => TypeInv'
  <1> SUFFICES ASSUME TypeInv, [Next]_vars PROVE TypeInv'
    OBVIOUS
  <1> USE DEF TypeInv
  <1>1. ASSUME NEW c \in Calls, NEW q \in Requests, Send(c, q) PROVE TypeInv'
    <2> DEFINE k == Call("arrived", q, NoScope, 0, "none", Nobody)
    <2>1. k \in CallType /\ k.st = "arrived" /\ k.req = q
      BY OverType DEF CallType, CallStates, Call
    <2>2. CallsOK'
      BY <1>1, <2>1, CallStep DEF Send
    <2> QED
      BY <1>1, <2>2 DEF Send, db, authz, TypeOK, CallsOK
  <1>2. ASSUME NEW c \in Calls, RefuseUnresolved(c) PROVE TypeInv'
    BY <1>2, OverStep DEF RefuseUnresolved, db, authz, TypeOK, CallsOK
  <1>3. ASSUME NEW c \in Calls, AllowCached(c) PROVE TypeInv'
    <2> DEFINE q == call[c].req
               k == Call("allowed", q, ScopeFor(q), now, "yes", binding)
    <2>1. q \in Requests /\ ScopeFor(q) \in Scopes
      BY <1>3, ScopeForType DEF AllowCached, CallsOK, TypeOK
    <2>2. k \in CallType /\ k.req = q /\ k.scope = ScopeFor(q)
      BY <2>1 DEF CallType, CallStates, Call, TypeOK
    <2>3. CallsOK'
      BY <1>3, <2>1, <2>2, CallStep DEF AllowCached
    <2> QED
      BY <1>3, <2>3 DEF AllowCached, db, authz, TypeOK, CallsOK
  <1>4. ASSUME NEW c \in Calls, Ask(c) PROVE TypeInv'
    <2> DEFINE q == call[c].req
               k == Call("asking", q, ScopeFor(q), now, "none", Nobody)
    <2>1. q \in Requests /\ ScopeFor(q) \in Scopes
      BY <1>4, ScopeForType DEF Ask, CallsOK, TypeOK
    <2>2. k \in CallType /\ k.req = q /\ k.scope = ScopeFor(q)
      BY <2>1, OverType DEF CallType, CallStates, Call, TypeOK
    <2>3. CallsOK'
      BY <1>4, <2>1, <2>2, CallStep DEF Ask
    <2>4. DOMAIN cache' \subseteq Scopes /\ cache' \in [DOMAIN cache' -> Nat]
      BY <1>4 DEF Ask, Restrict, TypeOK
    <2> QED
      BY <1>4, <2>3, <2>4 DEF Ask, db, authz, TypeOK, CallsOK
  <1>5. ASSUME NEW c \in Calls, Evaluate(c) PROVE TypeInv'
    <2>1. call[c] \in CallType /\ call[c].scope \in Scopes
      BY <1>5 DEF Evaluate, CallsOK
    <2>2. vouched' \in [Scopes -> Nat]
      BY <1>5, <2>1 DEF Evaluate, TypeOK
    <2>3. CallsOK'
      BY <1>5, <2>1 DEF Evaluate, CallsOK, CallType
    <2> QED
      BY <1>5, <2>2, <2>3 DEF Evaluate, db, TypeOK, CallsOK
  <1>6. ASSUME NEW c \in Calls, AllowAnswered(c) PROVE TypeInv'
    <2> DEFINE s == call[c].scope
               k == Call("allowed", call[c].req, s, now, "yes", binding)
    <2>1. call[c] \in CallType /\ call[c].req \in Requests /\ s \in Scopes
      BY <1>6 DEF AllowAnswered, CallsOK
    <2>2. k \in CallType /\ k.req = call[c].req /\ k.scope = s
      BY <2>1 DEF CallType, CallStates, Call, TypeOK
    <2>3. CallsOK'
      BY <1>6, <2>1, <2>2, CallStep DEF AllowAnswered
    <2>4. call[c].at \in Nat
      BY <2>1 DEF CallType
    <2>5. DOMAIN cache' \subseteq Scopes /\ cache' \in [DOMAIN cache' -> Nat]
      <3>1. cache' = Stored(s, call[c].at)
        BY <1>6 DEF AllowAnswered
      <3>2. CacheOK
        BY DEF TypeOK, CacheOK
      <3>3. /\ DOMAIN Stored(s, call[c].at) \subseteq DOMAIN cache \cup {s}
            /\ Stored(s, call[c].at) \in [DOMAIN Stored(s, call[c].at) -> Nat]
        BY <2>1, <2>4, <3>2, StoredFacts
      <3> QED
        BY <2>1, <3>1, <3>2, <3>3 DEF CacheOK
    <2> QED
      BY <1>6, <2>3, <2>5 DEF AllowAnswered, db, authz, TypeOK, CallsOK
  <1>7. ASSUME NEW c \in Calls, RefuseAnswered(c) PROVE TypeInv'
    BY <1>7, OverStep DEF RefuseAnswered, db, authz, TypeOK, CallsOK
  <1>8. ASSUME NEW c \in Calls, CreateProject(c) PROVE TypeInv'
    <2>1. call[c].req \in Requests /\ call[c].req \in RequestType
      BY <1>8, RequestAssumption DEF CreateProject, Dispatched, CallsOK
    <2>2. /\ binding' \in Bound /\ DOMAIN history' = Projects /\ registered' \subseteq Projects
          /\ cut' = cut
      BY <1>8, <2>1 DEF CreateProject, BindRecorded, RequestType, Bound, TypeOK
    <2>3. CallsOK'
      BY <1>8, OverStep DEF CreateProject, Executed
    <2> QED
      BY <1>8, <2>2, <2>3 DEF CreateProject, authz, TypeOK, CallsOK
  <1>9. ASSUME NEW c \in Calls, CreateDeployment(c) PROVE TypeInv'
    <2>1. call[c].req \in RequestType
      BY <1>9, RequestAssumption DEF CreateDeployment, Dispatched, CallsOK
    <2>2. created' \subseteq Deployments
      BY <1>9, <2>1 DEF CreateDeployment, RequestType, TypeOK
    <2>3. CallsOK'
      BY <1>9, OverStep DEF CreateDeployment, Executed
    <2> QED
      BY <1>9, <2>2, <2>3 DEF CreateDeployment, authz, TypeOK, CallsOK
  <1>10. ASSUME NEW d, Activated(d) PROVE active' \in [Projects -> Deployments \cup {NoDeployment}]
    BY <1>10 DEF Activated, TypeOK
  <1>11. ASSUME NEW c \in Calls, ActivateDeployment(c) \/ Rollback(c) PROVE TypeInv'
    <2>1. active' \in [Projects -> Deployments \cup {NoDeployment}]
      BY <1>10, <1>11 DEF ActivateDeployment, Rollback, TypeOK
    <2>2. CallsOK'
      BY <1>11, OverStep DEF ActivateDeployment, Rollback, Executed
    <2> QED
      BY <1>11, <2>1, <2>2 DEF ActivateDeployment, Rollback, authz, TypeOK, CallsOK
  <1>12. ASSUME NEW c \in Calls, OtherMethod(c) PROVE TypeInv'
    <2>1. CallsOK'
      BY <1>12, OverStep DEF OtherMethod, Executed
    <2> QED
      BY <1>12, <2>1 DEF OtherMethod, db, authz, TypeOK, CallsOK
  <1>13. ASSUME ServerDies
         PROVE  /\ CallsOK' /\ crashes' \in 0..MaxCrashes
                /\ DOMAIN cache' \subseteq Scopes /\ cache' \in [DOMAIN cache' -> Nat]
    <2>1. CallsOK'
      BY <1>13, OverType DEF ServerDies, CallsOK, Over, Call
    <2> QED
      BY <1>13, <2>1, TimeAssumption DEF ServerDies, TypeOK
  <1>14. ASSUME NEW c \in Calls, CrashInCreateProject(c) PROVE TypeInv'
    <2>1. call[c].req \in RequestType
      BY <1>14, RequestAssumption DEF CrashInCreateProject, Dispatched, CallsOK
    <2>2. CutTyped'
      BY <1>14, <2>1, CutShortTyped DEF CrashInCreateProject
    <2> QED
      BY <1>13, <1>14, <2>2 DEF CrashInCreateProject, ServerDies, authz, TypeOK, CallsOK, CutTyped
  <1>15. ASSUME NEW s \in Grantable, ChangeGrant(s) PROVE TypeInv'
    BY <1>15 DEF ChangeGrant, db, TypeOK, CallsOK
  <1>16. CASE Tick
    BY <1>16 DEF Tick, db, authz, TypeOK, CallsOK
  <1>17. CASE Crash
    BY <1>13, <1>17 DEF Crash, ServerDies, authz, TypeOK, CallsOK
  <1>18. CASE UNCHANGED vars
    BY <1>18 DEF vars, db, authz, TypeOK, CallsOK
  <1>19. ASSUME NEW c \in Calls, CreateProjectFails(c) PROVE TypeInv'
    <2>1. call[c].req \in RequestType
      BY <1>19, RequestAssumption DEF CreateProjectFails, Dispatched, CallsOK
    <2>2. CutTyped'
      BY <1>19, <2>1, CutShortTyped DEF CreateProjectFails
    <2>3. CallsOK'
      BY <1>19, OverStep DEF CreateProjectFails, Executed
    <2> QED
      BY <1>19, <2>2, <2>3 DEF CreateProjectFails, authz, TypeOK, CallsOK, CutTyped
  <1> QED
    BY <1>1, <1>2, <1>3, <1>4, <1>5, <1>6, <1>7, <1>8, <1>9, <1>11, <1>12, <1>14,
       <1>15, <1>16, <1>17, <1>18, <1>19 DEF Next, Authorize, Dispatch

\* Every reachable state of the authorization is well-typed.
THEOREM TypeCorrect == Spec => []TypeOK
  <1>1. TypeInv => TypeOK
    BY DEF TypeInv
  <1> QED
    BY TypeInit, TypeStep, <1>1, PTL DEF Spec

-----------------------------------------------------------------------------
(* While auth-center is being asked the mutex is held, so nothing moves.   *)

QuestionInv == TypeInv /\ QuestionStands

\* What a request resolves to hangs on three tables only.
LEMMA ResolutionFrame ==
    ASSUME UNCHANGED <<registered, binding, created>>, NEW c, UNCHANGED call[c].req
    PROVE  ScopeFor(call[c].req)' = ScopeFor(call[c].req)
  BY DEF ScopeFor, ResourceFor, BoundResource

\* No step moves a binding that a question is out about.
THEOREM QuestionStep == QuestionInv /\ [Next]_vars => QuestionStands'
  <1> SUFFICES ASSUME QuestionInv, [Next]_vars, NEW c \in Calls, call'[c].st = "asking"
               PROVE  call'[c].scope = ScopeFor(call[c].req)'
    BY DEF QuestionStands
  <1> USE DEF QuestionInv, TypeInv
  <1>1. CASE /\ UNCHANGED <<registered, binding, created>>
             /\ call[c].st = "asking" /\ UNCHANGED <<call[c].req, call[c].scope>>
    BY <1>1, ResolutionFrame DEF QuestionStands
  <1>2. ASSUME NEW e \in Calls, call' = [call EXCEPT ![e] = Over]
        PROVE  call[c].st = "asking" /\ UNCHANGED call[c]
    BY <1>2 DEF TypeOK, Over, Call
  <1>3. ASSUME DbFree, call[c].st = "asking" PROVE FALSE
    BY <1>3 DEF DbFree
  <1>4. ASSUME NEW e \in Calls, NEW q \in Requests, Send(e, q) PROVE c # e
    BY <1>4 DEF Send, Call, TypeOK
  <1>5. ASSUME NEW e \in Calls, NEW q \in Requests, Send(e, q)
        PROVE call'[c].scope = ScopeFor(call[c].req)'
    <2>1. UNCHANGED <<registered, binding, created>>
      BY <1>5 DEF Send, db
    <2>2. call'[c] = call[c]
      BY <1>4, <1>5 DEF Send, TypeOK
    <2>3. call[c].st = "asking" /\ UNCHANGED <<call[c].req, call[c].scope>>
      BY <2>2
    <2> QED
      BY <1>1, <2>1, <2>3
  <1>6. ASSUME NEW e \in Calls, RefuseUnresolved(e) \/ AllowCached(e)
        PROVE call'[c].scope = ScopeFor(call[c].req)'
    <2>1. \E k : call' = [call EXCEPT ![e] = k] /\ k.st # "asking"
      <3>1. Over.st # "asking"
        BY DEF Over, Call
      <3>2. ASSUME NEW q, NEW s, NEW b PROVE Call("allowed", q, s, now, "yes", b).st # "asking"
        BY DEF Call
      <3> QED
        BY <1>6, <3>1, <3>2 DEF RefuseUnresolved, AllowCached
    <2>2. call[c].st = "asking"
      BY <2>1 DEF TypeOK
    <2> QED
      BY <1>3, <1>6, <2>2 DEF RefuseUnresolved, AllowCached
  <1>7. ASSUME NEW e \in Calls, Ask(e) PROVE call'[c].scope = ScopeFor(call[c].req)'
    <2>1. c = e
      BY <1>3, <1>7 DEF Ask, TypeOK
    <2>2. /\ call'[c].scope = ScopeFor(call[c].req)
          /\ call'[c].req = call[c].req
      BY <1>7, <2>1 DEF Ask, Call, TypeOK
    <2>3. UNCHANGED <<registered, binding, created>>
      BY <1>7 DEF Ask, db
    <2> QED
      BY <2>2, <2>3, ResolutionFrame
  <1>8. ASSUME NEW e \in Calls, Evaluate(e) PROVE call'[c].scope = ScopeFor(call[c].req)'
    <2>1. \E a \in {"yes", "no"} : call' = [call EXCEPT ![e].answer = a]
      BY <1>8 DEF Evaluate
    <2>2. call[c].st = "asking" /\ UNCHANGED <<call[c].req, call[c].scope>>
      BY <2>1 DEF TypeOK, CallType
    <2> QED
      BY <1>1, <1>8, <2>2 DEF Evaluate, db
  <1>9. ASSUME NEW e \in Calls, AllowAnswered(e) PROVE call'[c].scope = ScopeFor(call[c].req)'
    <2>1. call[c].st = "asking" /\ UNCHANGED call[c]
      BY <1>9 DEF AllowAnswered, TypeOK, Call
    <2> QED
      BY <1>1, <1>9, <2>1 DEF AllowAnswered, db
  <1>10. ASSUME NEW e \in Calls, RefuseAnswered(e) PROVE call'[c].scope = ScopeFor(call[c].req)'
    BY <1>1, <1>2, <1>10 DEF RefuseAnswered, db
  <1>11. ASSUME NEW e \in Calls, Dispatch(e) PROVE FALSE
    BY <1>2, <1>3, <1>11
       DEF Dispatch, CreateProject, CreateProjectFails, CreateDeployment, ActivateDeployment, Rollback,
           OtherMethod, Dispatched, Executed
  <1>12. ASSUME ServerDies PROVE FALSE
    BY <1>12 DEF ServerDies, TypeOK, Over, Call
  <1>13. CASE UNCHANGED vars \/ Tick \/ \E s \in Grantable : ChangeGrant(s)
    BY <1>1, <1>13 DEF vars, Tick, ChangeGrant, db
  <1> QED
    BY <1>5, <1>6, <1>7, <1>8, <1>9, <1>10, <1>11, <1>12, <1>13
       DEF Next, Authorize, Crash, CrashInCreateProject

\* No rebind comes between the look-up of a binding and auth-center's verdict.
THEOREM QuestionCorrect == Spec => []QuestionStands
  <1>1. Init => QuestionInv
    BY TypeInit DEF QuestionInv, QuestionStands, Init, Unsent, Call
  <1>2. QuestionInv /\ [Next]_vars => QuestionInv'
    BY TypeStep, QuestionStep DEF QuestionInv
  <1>3. QuestionInv => QuestionStands
    BY DEF QuestionInv
  <1> QED
    BY <1>1, <1>2, <1>3, PTL DEF Spec

-----------------------------------------------------------------------------
(* A verdict is as old as the question, never as the answer.               *)

WindowInv ==
    /\ TypeInv
    /\ \A s \in Scopes : vouched[s] <= now
    /\ \A s \in DOMAIN cache : cache[s] <= vouched[s] + CacheTtl
    /\ \A c \in Calls : call[c].st = "asking" =>
          /\ call[c].at <= now
          /\ now <= call[c].at + HttpTimeout
          /\ call[c].answer = "yes" => call[c].at <= vouched[call[c].scope]
    /\ RevocationWindow

\* What the window says of one call.
InWindow(k) ==
    /\ k.st = "asking" =>
          /\ k.at <= now
          /\ now <= k.at + HttpTimeout
          /\ k.answer = "yes" => k.at <= vouched[k.scope]
    /\ k.st = "allowed" => k.at - vouched[k.scope] < CacheTtl

\* The invariant, part by part.
LEMMA WindowSplit ==
    WindowInv <=> /\ TypeInv
                  /\ \A s \in Scopes : vouched[s] <= now
                  /\ \A s \in DOMAIN cache : cache[s] <= vouched[s] + CacheTtl
                  /\ \A c \in Calls : InWindow(call[c])
  BY DEF WindowInv, InWindow, RevocationWindow

\* The window's invariant holds at the start,
THEOREM WindowInit == Init => WindowInv
  <1> SUFFICES ASSUME Init PROVE WindowInv
    OBVIOUS
  <1>1. TypeInv
    BY TypeInit
  <1>2. \A c \in Calls : InWindow(call[c])
    BY DEF Init, Unsent, Call, InWindow
  <1>3. \A s \in Scopes : vouched[s] <= now
    BY TimeAssumption DEF Init
  <1> QED
    BY <1>1, <1>2, <1>3, WindowSplit DEF Init

\* and every step keeps it.
THEOREM WindowStep == WindowInv /\ [Next]_vars => WindowInv'
  <1> SUFFICES ASSUME WindowInv, [Next]_vars PROVE WindowInv'
    OBVIOUS
  <1>1. TypeInv /\ TypeInv'
    BY TypeStep DEF WindowInv
  <1>2. /\ \A s \in Scopes : vouched[s] <= now
        /\ \A s \in DOMAIN cache : cache[s] <= vouched[s] + CacheTtl
        /\ \A c \in Calls : InWindow(call[c])
    BY WindowSplit
  <1> DEFINE Goal == /\ \A s \in Scopes : vouched'[s] <= now'
                     /\ \A s \in DOMAIN cache' : cache'[s] <= vouched'[s] + CacheTtl
                     /\ \A c \in Calls : InWindow(call[c])'
  <1>3. SUFFICES Goal
    BY <1>1 DEF WindowInv, InWindow, RevocationWindow
  <1> USE DEF TypeInv
  <1>4. ASSUME UNCHANGED <<vouched, now, cache>>, NEW c \in Calls, NEW k,
               call' = [call EXCEPT ![c] = k],
               k.st \notin {"asking", "allowed"}
        PROVE  Goal
    BY <1>1, <1>2, <1>4 DEF TypeOK, InWindow
  <1>5. /\ now \in Nat /\ vouched \in [Scopes -> Nat]
        /\ cache \in [DOMAIN cache -> Nat] /\ DOMAIN cache \subseteq Scopes
        /\ call \in [Calls -> CallType]
    BY <1>1 DEF TypeOK
  <1>6. ASSUME NEW c \in Calls, NEW q \in Requests, Send(c, q) PROVE Goal
    <2>1. Call("arrived", q, NoScope, 0, "none", Nobody).st = "arrived"
      BY DEF Call
    <2> QED
      BY <1>4, <1>6, <2>1 DEF Send, authz
  <1>7. Over.st = "answered"
    BY DEF Over, Call
  <1>8. ASSUME NEW c \in Calls,
               RefuseUnresolved(c) \/ RefuseAnswered(c) \/ Dispatch(c)
        PROVE  Goal
    <2>1. call' = [call EXCEPT ![c] = Over] /\ UNCHANGED <<vouched, now, cache>>
      BY <1>8 DEF RefuseUnresolved, RefuseAnswered, Dispatch, CreateProject,
            CreateProjectFails, CreateDeployment, ActivateDeployment, Rollback, OtherMethod, Executed, authz
    <2> QED
      BY <1>4, <1>7, <2>1
  <1>9. ASSUME NEW c \in Calls, AllowCached(c) PROVE Goal
    <2> DEFINE s == ScopeFor(call[c].req)
               k == Call("allowed", call[c].req, s, now, "yes", binding)
    <2>1. /\ s \in DOMAIN cache /\ cache[s] > now
          /\ call' = [call EXCEPT ![c] = k]
          /\ UNCHANGED <<vouched, now, cache>>
      BY <1>9 DEF AllowCached, Live, authz
    <2>2. now - vouched[s] < CacheTtl
      BY <1>2, <1>5, <2>1, TimeAssumption
    <2>3. k.st = "allowed" /\ k.at = now /\ k.scope = s
      BY DEF Call
    <2>4. InWindow(k)
      BY <2>2, <2>3 DEF InWindow
    <2> HIDE DEF k
    <2> QED
      BY <1>2, <1>5, <2>1, <2>4 DEF InWindow
  <1>10. ASSUME NEW c \in Calls, Ask(c) PROVE Goal
    <2> DEFINE k == Call("asking", call[c].req, ScopeFor(call[c].req), now, "none", Nobody)
    <2>1. /\ call' = [call EXCEPT ![c] = k]
          /\ UNCHANGED <<vouched, now>>
      BY <1>10 DEF Ask, authz
    <2>2. \A s \in DOMAIN cache' : s \in DOMAIN cache /\ cache'[s] = cache[s]
      BY <1>10 DEF Ask, Restrict
    <2>3. InWindow(k)
      BY <1>5, TimeAssumption DEF InWindow, Call
    <2> HIDE DEF k
    <2> QED
      BY <1>2, <1>5, <2>1, <2>2, <2>3 DEF InWindow
  <1>11. ASSUME NEW c \in Calls, Evaluate(c) PROVE Goal
    <2> DEFINE s == call[c].scope
    <2>1. /\ call[c].st = "asking" /\ s \in Scopes /\ call[c].at \in Nat
          /\ UNCHANGED <<now, cache>>
      BY <1>1, <1>11 DEF Evaluate, TypeOK, CallsOK, CallType
    <2>2. /\ call[c].at <= now /\ now <= call[c].at + HttpTimeout
      BY <1>2, <2>1 DEF InWindow
    <2>3. CASE s \in grants
      <3>1. /\ call' = [call EXCEPT ![c].answer = "yes"]
            /\ vouched' = [vouched EXCEPT ![s] = now]
        BY <1>11, <2>3 DEF Evaluate
      <3>2. \A x \in Scopes : vouched'[x] \in Nat /\ vouched[x] <= vouched'[x] /\ vouched'[x] <= now
        BY <1>2, <1>5, <3>1
      <3>3. \A x \in DOMAIN cache : cache[x] <= vouched'[x] + CacheTtl
        BY <1>2, <1>5, <3>2, TimeAssumption
      <3>4. ASSUME NEW e \in Calls PROVE InWindow(call[e])'
        <4>1. CASE e = c
          <5>1. /\ call'[c].st = "asking" /\ call'[c].at = call[c].at
                /\ call'[c].scope = s /\ vouched'[s] = now
            BY <1>5, <2>1, <3>1 DEF CallType
          <5> QED
            BY <2>1, <2>2, <4>1, <5>1 DEF InWindow
        <4>2. CASE e # c
          <5>1. /\ call'[e] = call[e]
                /\ call[e].st \in {"asking", "allowed"} => call[e].scope \in Scopes
                /\ call[e].at \in Nat
            BY <1>1, <1>5, <3>1, <4>2 DEF CallsOK, CallType
          <5> QED
            BY <1>2, <1>5, <2>1, <3>2, <5>1, TimeAssumption DEF InWindow
        <4> QED
          BY <4>1, <4>2
      <3> QED
        BY <2>1, <3>2, <3>3, <3>4
    <2>4. CASE s \notin grants
      <3>1. call' = [call EXCEPT ![c].answer = "no"] /\ UNCHANGED vouched
        BY <1>11, <2>4 DEF Evaluate
      <3>2. \A e \in Calls :
               /\ call'[e].st = call[e].st /\ call'[e].at = call[e].at
               /\ call'[e].scope = call[e].scope
               /\ call'[e].answer = "yes" => call[e].answer = "yes"
        BY <1>5, <3>1 DEF CallType
      <3> QED
        BY <1>2, <2>1, <3>1, <3>2 DEF InWindow
    <2> QED
      BY <2>3, <2>4
  <1>12. ASSUME NEW c \in Calls, AllowAnswered(c) PROVE Goal
    <2> DEFINE s == call[c].scope
               k == Call("allowed", call[c].req, s, now, "yes", binding)
    <2>1. /\ call[c].st = "asking" /\ call[c].answer = "yes"
          /\ call' = [call EXCEPT ![c] = k] /\ cache' = Stored(s, call[c].at)
          /\ UNCHANGED <<vouched, now>>
      BY <1>12 DEF AllowAnswered, authz
    <2>2. s \in Scopes /\ call[c].at \in Nat
      BY <1>1, <1>5, <2>1 DEF CallsOK, CallType
    <2>3. now <= call[c].at + HttpTimeout /\ call[c].at <= vouched[s]
      BY <1>2, <2>1 DEF InWindow
    <2>4. InWindow(k)
      BY <1>5, <2>2, <2>3, TimeAssumption DEF InWindow, Call
    <2>5. CacheOK
      BY <1>5 DEF CacheOK
    <2>6. /\ DOMAIN cache' \subseteq DOMAIN cache \cup {s}
          /\ cache'[s] = call[c].at + CacheTtl
          /\ \A x \in DOMAIN cache' \ {s} : cache'[x] = cache[x]
      BY <2>1, <2>2, <2>5, StoredFacts
    <2>7. \A x \in DOMAIN cache' : cache'[x] <= vouched[x] + CacheTtl
      BY <1>2, <1>5, <2>2, <2>3, <2>6, TimeAssumption
    <2> HIDE DEF k
    <2> QED
      BY <1>2, <1>5, <2>1, <2>4, <2>7 DEF InWindow
  <1>13. ASSUME ServerDies PROVE Goal
    <2>1. \A c \in Calls : call'[c].st \in {"unsent", "answered"}
      BY <1>7, <1>13 DEF ServerDies
    <2>2. UNCHANGED <<vouched, now>> /\ DOMAIN cache' = {}
      BY <1>13 DEF ServerDies, authz
    <2> QED
      BY <1>2, <2>1, <2>2 DEF InWindow
  <1>14. CASE Tick
    <2>1. /\ now' = now + 1 /\ UNCHANGED <<vouched, cache, call>>
          /\ \A c \in Calls : call[c].st = "asking" => now < call[c].at + HttpTimeout
      BY <1>14 DEF Tick, authz
    <2>2. \A c \in Calls : call[c].at \in Nat
      BY <1>5 DEF CallType
    <2> QED
      BY <1>2, <1>5, <2>1, <2>2, TimeAssumption DEF InWindow
  <1>15. CASE UNCHANGED vars \/ \E s \in Grantable : ChangeGrant(s)
    BY <1>2, <1>15 DEF vars, authz, ChangeGrant, InWindow
  <1> QED
    BY <1>6, <1>8, <1>9, <1>10, <1>11, <1>12, <1>13, <1>14, <1>15
       DEF Next, Authorize, Crash, CrashInCreateProject

\* Revocation is noticed within CacheTtl, for every cache size and any answers.
THEOREM WindowCorrect == Spec => []RevocationWindow
  <1>1. WindowInv => RevocationWindow
    BY DEF WindowInv
  <1> QED
    BY WindowInit, WindowStep, <1>1, PTL DEF Spec

-----------------------------------------------------------------------------
(* The cache.                                                              *)

CacheInv == TypeInv /\ IsFiniteSet(DOMAIN cache) /\ CacheIsBounded

\* No step overfills the cache.
THEOREM CacheStep == CacheInv /\ [Next]_vars => CacheInv'
  <1> SUFFICES ASSUME CacheInv, [Next]_vars PROVE CacheInv'
    OBVIOUS
  <1>1. TypeInv /\ TypeInv'
    BY TypeStep DEF CacheInv
  <1>2. SUFFICES IsFiniteSet(DOMAIN cache') /\ Cardinality(DOMAIN cache') <= MaxCached
    BY <1>1 DEF CacheInv, CacheIsBounded
  <1>3. /\ IsFiniteSet(DOMAIN cache) /\ Cardinality(DOMAIN cache) <= MaxCached
        /\ Cardinality(DOMAIN cache) \in Nat
    BY FS_CardinalityType DEF CacheInv, CacheIsBounded
  <1>4. CASE UNCHANGED cache
    BY <1>3, <1>4
  <1>5. ASSUME NEW S, S \subseteq DOMAIN cache
        PROVE  /\ IsFiniteSet(S) /\ Cardinality(S) \in Nat
               /\ Cardinality(S) <= Cardinality(DOMAIN cache)
    BY <1>3, <1>5, FS_Subset, FS_CardinalityType
  <1>6. ASSUME NEW c \in Calls, Ask(c) PROVE UNCHANGED cache \/ DOMAIN cache' \subseteq DOMAIN cache
    BY <1>6 DEF Ask, Restrict
  <1>7. ASSUME NEW c \in Calls, AllowAnswered(c)
        PROVE  IsFiniteSet(DOMAIN cache') /\ Cardinality(DOMAIN cache') <= MaxCached
    <2> DEFINE s == call[c].scope
               t == call[c].at
               room == DOMAIN MadeRoom(t)
    <2>1. s \in Scopes /\ t \in Nat /\ CacheOK
      BY <1>1, <1>7 DEF AllowAnswered, TypeInv, TypeOK, CallsOK, CallType, CacheOK
    <2>2. DOMAIN cache' = room \cup {s}
      BY <1>7, <2>1, StoredFacts DEF AllowAnswered
    <2>3. room \subseteq DOMAIN cache /\ Cardinality(room) < MaxCached
      BY <1>3, <2>1, MadeRoomFacts
    <2>4. IsFiniteSet(room) /\ Cardinality(room) \in Nat
      BY <1>5, <2>3
    <2>5. /\ IsFiniteSet(room \cup {s})
          /\ Cardinality(room \cup {s}) = Cardinality(room) \/ 
             Cardinality(room \cup {s}) = Cardinality(room) + 1
      BY <2>4, FS_AddElement
    <2> HIDE DEF room
    <2> QED
      BY <2>2, <2>3, <2>4, <2>5, TimeAssumption
  <1>8. ASSUME ServerDies PROVE DOMAIN cache' \subseteq DOMAIN cache
    BY <1>8 DEF ServerDies
  <1>9. ASSUME DOMAIN cache' \subseteq DOMAIN cache
        PROVE  IsFiniteSet(DOMAIN cache') /\ Cardinality(DOMAIN cache') <= MaxCached
    BY <1>3, <1>5, <1>9, TimeAssumption
  <1>10. \/ UNCHANGED cache
         \/ \E c \in Calls : Ask(c) \/ AllowAnswered(c)
         \/ ServerDies
    BY DEF Next, Authorize, Dispatch, Send, RefuseUnresolved, AllowCached, Evaluate,
           RefuseAnswered, CreateProject, CreateProjectFails, CreateDeployment, ActivateDeployment,
           Rollback, OtherMethod, ChangeGrant, Tick, Crash, CrashInCreateProject, vars
  <1> QED
    BY <1>4, <1>6, <1>7, <1>8, <1>9, <1>10

\* The cache never holds more than MaxCached verdicts.
THEOREM CacheCorrect == Spec => []CacheIsBounded
  <1>1. Init => CacheInv
    <2>1. ASSUME Init PROVE DOMAIN cache = {}
      BY <2>1 DEF Init
    <2> QED
      BY <2>1, TypeInit, FS_EmptySet, TimeAssumption DEF CacheInv, CacheIsBounded
  <1>2. CacheInv => CacheIsBounded
    BY DEF CacheInv
  <1> QED
    BY <1>1, <1>2, CacheStep, PTL DEF Spec

-----------------------------------------------------------------------------
(* Calls act only where they were granted to.                              *)

\* The scope a call was let in with is the one its request needs under the
\* bindings of that moment.
GrantedInv ==
    \A c \in Calls : call[c].st = "allowed" =>
        /\ call[c].scope[3] = Action(call[c].req.method)
        /\ call[c].req.method \in ProjectMethods =>
              call[c].scope[2] = call[c].seen[call[c].req.project]
        /\ call[c].req.method \in DeploymentMethods =>
              call[c].scope[2] = call[c].seen[Owner[call[c].req.deploy]]

PointerInv == QuestionInv /\ GrantedInv

\* What is asked for a project, or for a deployment, is the binding in force.
LEMMA ScopeFacts ==
    ASSUME NEW q, ResourceFor(q) # Unbound
    PROVE  /\ ScopeFor(q)[3] = Action(q.method)
           /\ q.method \in ProjectMethods => ScopeFor(q)[2] = binding[q.project]
           /\ q.method \in DeploymentMethods => ScopeFor(q)[2] = binding[Owner[q.deploy]]
  <1>1. ScopeFor(q) = <<q.key, ResourceFor(q), Action(q.method)>>
    BY DEF ScopeFor
  <1>2. ScopeFor(q)[3] = Action(q.method) /\ ScopeFor(q)[2] = ResourceFor(q)
    BY <1>1
  <1>3. q.method \in ProjectMethods => ResourceFor(q) = binding[q.project]
    BY DEF ResourceFor, BoundResource, ProjectMethods, InstanceMethods
  <1>4. q.method \in DeploymentMethods => ResourceFor(q) = binding[Owner[q.deploy]]
    BY DEF ResourceFor, BoundResource, ProjectMethods, InstanceMethods,
           DeploymentMethods
  <1> QED
    BY <1>2, <1>3, <1>4

\* A step that moves a pointer comes from a granted call.
THEOREM GrantedStep == PointerInv /\ [Next]_vars => GrantedInv'
  <1> SUFFICES ASSUME PointerInv, [Next]_vars, NEW c \in Calls, call'[c].st = "allowed"
               PROVE  /\ call'[c].scope[3] = Action(call'[c].req.method)
                      /\ call'[c].req.method \in ProjectMethods =>
                            call'[c].scope[2] = call'[c].seen[call'[c].req.project]
                      /\ call'[c].req.method \in DeploymentMethods =>
                            call'[c].scope[2] = call'[c].seen[Owner[call'[c].req.deploy]]
    BY DEF GrantedInv
  <1>1. call \in [Calls -> CallType] /\ CallsOK /\ QuestionStands /\ GrantedInv
    BY DEF PointerInv, QuestionInv, TypeInv, TypeOK
  <1>2. CASE UNCHANGED call[c]
    BY <1>1, <1>2 DEF GrantedInv
  <1>3. ASSUME NEW e \in Calls, AllowCached(e) PROVE UNCHANGED call[c] \/
          /\ ResourceFor(call[c].req) # Unbound
          /\ call'[c] = Call("allowed", call[c].req, ScopeFor(call[c].req), now, "yes", binding)
    BY <1>1, <1>3 DEF AllowCached, Resolvable
  <1>4. ASSUME NEW e \in Calls, AllowAnswered(e) PROVE UNCHANGED call[c] \/
          /\ ResourceFor(call[c].req) # Unbound
          /\ call'[c] = Call("allowed", call[c].req, ScopeFor(call[c].req), now, "yes", binding)
    <2>1. call[e].scope = ScopeFor(call[e].req) /\ call[e].scope \in Scopes
      BY <1>1, <1>4 DEF AllowAnswered, CallsOK, QuestionStands
    <2>2. ResourceFor(call[e].req) \in Resources
      BY <2>1 DEF ScopeFor, Scopes
    <2>3. call' = [call EXCEPT ![e] =
                     Call("allowed", call[e].req, call[e].scope, now, "yes", binding)]
      BY <1>4 DEF AllowAnswered
    <2> QED
      BY <1>1, <2>1, <2>2, <2>3, GrantAssumption
  <1>5. ASSUME ResourceFor(call[c].req) # Unbound,
               call'[c] = Call("allowed", call[c].req, ScopeFor(call[c].req), now, "yes", binding)
        PROVE  /\ call'[c].scope[3] = Action(call'[c].req.method)
               /\ call'[c].req.method \in ProjectMethods =>
                     call'[c].scope[2] = call'[c].seen[call'[c].req.project]
               /\ call'[c].req.method \in DeploymentMethods =>
                     call'[c].scope[2] = call'[c].seen[Owner[call'[c].req.deploy]]
    <2>1. /\ call'[c].req = call[c].req /\ call'[c].scope = ScopeFor(call[c].req)
          /\ call'[c].seen = binding
      BY <1>5 DEF Call
    <2> QED
      BY <1>5, <2>1, ScopeFacts
  <1>6. ASSUME NEW e \in Calls, NEW q \in Requests, Send(e, q) PROVE UNCHANGED call[c]
    BY <1>1, <1>6 DEF Send, Call
  <1>7. ASSUME NEW e \in Calls, Dispatch(e) PROVE UNCHANGED call[c]
    BY <1>1, <1>7 DEF Dispatch, CreateProject, CreateProjectFails,
         CreateDeployment, ActivateDeployment, Rollback, OtherMethod, Executed, Over, Call
  <1>8. ASSUME NEW e \in Calls, RefuseUnresolved(e) \/ Ask(e) \/ RefuseAnswered(e)
        PROVE  UNCHANGED call[c]
    BY <1>1, <1>8 DEF RefuseUnresolved, Ask, RefuseAnswered, Over, Call
  <1>9. ASSUME NEW e \in Calls, Evaluate(e) PROVE UNCHANGED call[c]
    <2>1. call[e].st = "asking" /\ \E a : call' = [call EXCEPT ![e].answer = a]
      BY <1>9 DEF Evaluate
    <2> QED
      BY <1>1, <2>1 DEF CallType
  <1>10. ASSUME ServerDies PROVE FALSE
    BY <1>10 DEF ServerDies, Over, Call
  <1>11. CASE UNCHANGED call
    BY <1>2, <1>11
  <1> QED
    BY <1>2, <1>3, <1>4, <1>5, <1>6, <1>7, <1>8, <1>9, <1>10, <1>11
       DEF Next, Authorize, Crash, CrashInCreateProject, Tick, ChangeGrant, vars

\* What moves a project's pointer, and by which grant.
THEOREM PointerStep ==
    ASSUME PointerInv, [Next]_vars, NEW p \in Projects, active'[p] # active[p]
    PROVE  \E c \in Calls :
              /\ call[c].st = "allowed" /\ call'[c].st = "answered"
              /\ call[c].scope[2] = call[c].seen[p]
              /\ call[c].scope[3] \in {"deploy", "rollback"}
  <1>1. /\ call \in [Calls -> CallType] /\ CallsOK /\ GrantedInv
        /\ active \in [Projects -> Deployments \cup {NoDeployment}]
    BY DEF PointerInv, QuestionInv, TypeInv, TypeOK
  <1>2. ASSUME NEW c \in Calls, Executed(c) PROVE call'[c].st = "answered"
    BY <1>1, <1>2 DEF Executed, Over, Call
  <1>3. ASSUME NEW d, Activated(d) PROVE Owner[d] = p
    BY <1>1, <1>3 DEF Activated
  <1>4. ASSUME NEW c \in Calls, ActivateDeployment(c)
        PROVE  /\ call[c].st = "allowed" /\ call'[c].st = "answered"
               /\ call[c].scope[2] = call[c].seen[p] /\ call[c].scope[3] = "deploy"
    <2>1. /\ call[c].st = "allowed" /\ call[c].req.method = "activateDeployment"
          /\ call'[c].st = "answered" /\ Owner[call[c].req.deploy] = p
      BY <1>2, <1>3, <1>4 DEF ActivateDeployment, Dispatched
    <2>2. "activateDeployment" \in DeploymentMethods /\ Action("activateDeployment") = "deploy"
      BY DEF DeploymentMethods, Action
    <2> QED
      BY <1>1, <2>1, <2>2 DEF GrantedInv
  <1>5. ASSUME NEW c \in Calls, Rollback(c)
        PROVE  /\ call[c].st = "allowed" /\ call'[c].st = "answered"
               /\ call[c].scope[2] = call[c].seen[p] /\ call[c].scope[3] = "rollback"
    <2>1. Own(call[c].req) /\ Activated(call[c].req.deploy)
      BY <1>5 DEF Rollback
    <2>2. /\ call[c].st = "allowed" /\ call[c].req.method = "rollback"
          /\ call'[c].st = "answered" /\ call[c].req.project = p
      BY <1>2, <1>3, <1>5, <2>1 DEF Rollback, Dispatched, Own
    <2>3. "rollback" \in ProjectMethods /\ Action("rollback") = "rollback"
      BY DEF ProjectMethods, Action
    <2> QED
      BY <1>1, <2>2, <2>3 DEF GrantedInv
  <1>6. \E c \in Calls : ActivateDeployment(c) \/ Rollback(c)
    BY DEF Next, Authorize, Dispatch, Send, RefuseUnresolved, AllowCached, Ask, Evaluate,
           AllowAnswered, RefuseAnswered, CreateProject, CreateProjectFails, CreateDeployment, OtherMethod,
           ChangeGrant, Tick, Crash, CrashInCreateProject, ServerDies, vars, db
  <1> QED
    BY <1>4, <1>5, <1>6

\* No call moves the pointer of a project it was not granted to act on.
THEOREM PointerGranted == Spec => PointerMovesAreGranted
  <1>1. Init => PointerInv
    BY TypeInit DEF PointerInv, QuestionInv, QuestionStands, GrantedInv, Init, Unsent, Call
  <1>2. PointerInv /\ [Next]_vars => PointerInv'
    BY TypeStep, QuestionStep, GrantedStep DEF PointerInv, QuestionInv
  <1>3. PointerInv /\ [Next]_vars =>
          [\A p \in Projects : active'[p] # active[p] =>
             \E c \in Calls :
                /\ call[c].st = "allowed" /\ call'[c].st = "answered"
                /\ call[c].scope[2] = call[c].seen[p]
                /\ call[c].scope[3] \in {"deploy", "rollback"}]_vars
    BY PointerStep
  <1> QED
    BY <1>1, <1>2, <1>3, PTL DEF Spec, PointerMovesAreGranted

-----------------------------------------------------------------------------
(* The binding history.                                                    *)

\* A row of the history: the resource before, and after.
Rebinds == (Resources \cup {Unbound}) \X (Resources \cup {Unbound})

\* What a history lets a reader miss is finite, and no more than what was cut.
Explained(h, r, n) ==
    /\ h \in Seq(Rebinds)
    /\ IsFiniteSet(Missing(h, r)) /\ Cardinality(Missing(h, r)) <= n

HistoryInv == \A p \in Projects : Explained(history[p], binding[p], cut[p])

\* A recorded rebind leaves as many links missing as there were.
LEMMA RecordAddsNoGap ==
    ASSUME NEW h \in Seq(Rebinds), NEW a \in Resources \cup {Unbound}, NEW b \in Resources \cup {Unbound}
    PROVE  Append(h, <<a, b>>) \in Seq(Rebinds) /\ Missing(Append(h, <<a, b>>), b) = Missing(h, a)
  <1> DEFINE g == Append(h, <<a, b>>)
             n == Len(h)
  <1>1. <<a, b>> \in Rebinds /\ n \in Nat
    BY DEF Rebinds
  <1>2. /\ g \in Seq(Rebinds) /\ Len(g) = n + 1 /\ g[n + 1] = <<a, b>>
        /\ \A i \in 1 .. n : g[i] = h[i]
    BY <1>1
  <1> HIDE DEF g
  <1>3. ASSUME NEW i \in 1 .. n
        PROVE  i \in Missing(g, b) <=> i \in Missing(h, a)
    <2>1. g[i] = h[i] /\ ~(i > n + 1) /\ ~(i > n) /\ i \in 1 .. n + 1 + 1 /\ i \in 1 .. n + 1
      BY <1>1, <1>2
    <2>2. i # 1 => i - 1 \in 1 .. n
      BY <1>1
    <2>3. i # 1 => g[i - 1] = h[i - 1]
      BY <1>2, <2>2
    <2> QED
      BY <1>2, <2>1, <2>3 DEF Missing
  <1>4. n + 1 \in Missing(g, b) <=> n + 1 \in Missing(h, a)
    <2>1. g[n + 1][1] = a /\ ~(n + 1 > n + 1) /\ n + 1 > n /\ n + 1 \in 1 .. n + 1 + 1 /\ n + 1 \in 1 .. n + 1
      BY <1>1, <1>2
    <2>2. n + 1 # 1 => n + 1 - 1 \in 1 .. n
      BY <1>1
    <2>3. n + 1 # 1 => g[n + 1 - 1] = h[n + 1 - 1]
      BY <1>2, <2>2
    <2> QED
      BY <1>2, <2>1, <2>3 DEF Missing
  <1>5. n + 1 + 1 \notin Missing(g, b)
    <2>1. g[n + 1 + 1 - 1][2] = b /\ n + 1 + 1 > n + 1 /\ n + 1 + 1 # 1
      BY <1>1, <1>2
    <2> QED
      BY <1>2, <2>1 DEF Missing
  <1>6. Missing(g, b) \subseteq 1 .. n + 1 + 1 /\ Missing(h, a) \subseteq 1 .. n + 1
    BY <1>2 DEF Missing
  <1>7. ASSUME NEW i PROVE i \in Missing(g, b) <=> i \in Missing(h, a)
    <2>1. i \in 1 .. n + 1 + 1 => i \in 1 .. n \/ i = n + 1 \/ i = n + 1 + 1
      BY <1>1
    <2>2. i \in 1 .. n + 1 => i \in 1 .. n \/ i = n + 1
      BY <1>1
    <2> QED
      BY <1>3, <1>4, <1>5, <1>6, <2>1, <2>2
  <1> QED
    BY <1>2, <1>7 DEF g

\* A bind without its row leaves one more missing at most.
LEMMA CutAddsOneGap ==
    ASSUME NEW h \in Seq(Rebinds), NEW a, NEW b, NEW n \in Nat, Explained(h, a, n)
    PROVE  Explained(h, b, n + 1)
  <1> DEFINE M == Missing(h, a)
             e == Len(h) + 1
  <1>1. Missing(h, b) \subseteq M \cup {e}
    <2> SUFFICES ASSUME NEW i \in Missing(h, b), i # e PROVE i \in M
      OBVIOUS
    <2>1. i \in 1 .. Len(h) + 1 /\ ~(i > Len(h))
      BY DEF Missing
    <2> QED
      BY <2>1 DEF Missing
  <1>2. /\ IsFiniteSet(M \cup {e})
        /\ Cardinality(M \cup {e}) = Cardinality(M) \/ Cardinality(M \cup {e}) = Cardinality(M) + 1
    <2>1. IsFiniteSet(M)
      BY DEF Explained
    <2> HIDE DEF M, e
    <2> QED
      BY <2>1, FS_AddElement
  <1>3. Cardinality(M) \in Nat /\ Cardinality(M) <= n
    BY FS_CardinalityType DEF Explained
  <1> HIDE DEF M, e
  <1>4. IsFiniteSet(Missing(h, b)) /\ Cardinality(Missing(h, b)) <= Cardinality(M \cup {e})
    BY <1>1, <1>2, FS_Subset
  <1>5. Cardinality(Missing(h, b)) \in Nat /\ Cardinality(M \cup {e}) \in Nat
    BY <1>2, <1>4, FS_CardinalityType
  <1>6. Cardinality(Missing(h, b)) <= n + 1
    BY <1>2, <1>3, <1>4, <1>5
  <1> QED
    BY <1>4, <1>6 DEF Explained

\* At the start nothing is missing,
THEOREM HistoryInit == Init => HistoryInv
  <1> SUFFICES ASSUME Init, NEW p \in Projects PROVE Explained(history[p], binding[p], cut[p])
    BY DEF HistoryInv
  <1>1. binding[p] \in Resources \cup {Unbound} /\ cut[p] = 0
    BY GrantAssumption DEF Init, Bound
  <1>2. <<>> \in Seq(Rebinds) /\ Missing(<<>>, Unbound) = {}
    BY DEF Missing
  <1>3. history[p] \in Seq(Rebinds) /\ Missing(history[p], binding[p]) = {}
    <2>1. CASE binding[p] = Unbound
      BY <1>2, <2>1 DEF Init
    <2>2. CASE binding[p] # Unbound
      <3>1. history[p] = << <<Unbound, binding[p]>> >>
        BY <2>2 DEF Init
      <3>2. Append(<<>>, <<Unbound, binding[p]>>) = << <<Unbound, binding[p]>> >>
        OBVIOUS
      <3>3. /\ Append(<<>>, <<Unbound, binding[p]>>) \in Seq(Rebinds)
            /\ Missing(Append(<<>>, <<Unbound, binding[p]>>), binding[p])
                 = Missing(<<>>, Unbound)
        BY <1>1, <1>2, RecordAddsNoGap
      <3> QED
        BY <1>2, <3>1, <3>2, <3>3
    <2> QED
      BY <2>1, <2>2
  <1> QED
    BY <1>1, <1>3, FS_EmptySet DEF Explained

\* and every step that binds is recorded, or counted as cut short.
THEOREM HistoryStep == TypeInv /\ HistoryInv /\ [Next]_vars => HistoryInv'
  <1> SUFFICES ASSUME TypeInv, HistoryInv, [Next]_vars, NEW p \in Projects
               PROVE  Explained(history'[p], binding'[p], cut'[p])
    BY DEF HistoryInv, Explained, Missing
  <1>1. /\ call \in [Calls -> CallType] /\ CallsOK /\ binding \in Bound
        /\ DOMAIN history = Projects /\ cut \in [Projects -> Nat]
        /\ binding[p] \in Resources \cup {Unbound}
        /\ Explained(history[p], binding[p], cut[p])
    BY DEF TypeInv, TypeOK, HistoryInv, Bound
  <1>2. CASE UNCHANGED <<binding, history, cut>>
    BY <1>1, <1>2
  <1>3. ASSUME NEW c \in Calls, Dispatched(c, "createProject")
        PROVE  call[c].req.project \in Projects /\ call[c].req.resource \in Resources
    BY <1>1, <1>3, RequestAssumption DEF Dispatched, CallsOK, RequestType
  <1>4. ASSUME NEW c \in Calls, CreateProject(c)
        PROVE  Explained(history'[p], binding'[p], cut'[p])
    <2> DEFINE q == call[c].req
    <2>1. q.project \in Projects /\ q.resource \in Resources /\ cut' = cut
      BY <1>3, <1>4 DEF CreateProject
    <2>2. CASE Binds(q) /\ p = q.project
      <3>1. binding'[p] = q.resource /\ history'[p] = Append(history[p], <<binding[p], q.resource>>)
        BY <1>1, <1>4, <2>2 DEF CreateProject, BindRecorded, Bound
      <3>2. history[p] \in Seq(Rebinds)
        BY <1>1 DEF Explained
      <3> HIDE DEF q
      <3>3. /\ history'[p] \in Seq(Rebinds)
            /\ Missing(history'[p], binding'[p]) = Missing(history[p], binding[p])
        BY <1>1, <2>1, <3>1, <3>2, RecordAddsNoGap
      <3> QED
        BY <1>1, <2>1, <3>3 DEF Explained
    <2>3. CASE ~(Binds(q) /\ p = q.project)
      <3>1. binding'[p] = binding[p] /\ history'[p] = history[p]
        BY <1>1, <1>4, <2>1, <2>3 DEF CreateProject, BindRecorded, Bound
      <3> QED
        BY <1>1, <2>1, <3>1
    <2> QED
      BY <2>2, <2>3
  <1>5. ASSUME NEW c \in Calls, Dispatched(c, "createProject"), CutShort(call[c].req)
        PROVE  Explained(history'[p], binding'[p], cut'[p])
    <2> DEFINE q == call[c].req
    <2>1. q.project \in Projects /\ q.resource \in Resources /\ history' = history
      BY <1>3, <1>5 DEF CutShort
    <2>2. CASE cut'[p] = cut[p] + 1
      BY <1>1, <2>1, <2>2, CutAddsOneGap DEF Explained
    <2>3. CASE cut'[p] = cut[p] /\ binding'[p] = binding[p]
      BY <1>1, <2>1, <2>3
    <2> QED
      BY <1>1, <1>5, <2>1, <2>2, <2>3 DEF CutShort, Bound
  <1> DEFINE Bind(c) == CreateProject(c) \/ (Dispatched(c, "createProject") /\ CutShort(call[c].req))
             Still   == UNCHANGED <<binding, history, cut>>
  <1>6. ASSUME NEW c \in Calls, Authorize(c) \/ Evaluate(c) \/ \E r \in Requests : Send(c, r)
        PROVE  Still
    BY <1>6 DEF Authorize, Send, RefuseUnresolved, AllowCached, Ask, Evaluate,
                AllowAnswered, RefuseAnswered, db
  <1>7. ASSUME NEW c \in Calls, Dispatch(c) \/ CrashInCreateProject(c)
        PROVE  Still \/ Bind(c)
    BY <1>7, Zenon DEF Dispatch, CreateProjectFails, CreateDeployment, ActivateDeployment, Rollback,
                       OtherMethod, CrashInCreateProject, db
  <1>8. ASSUME (\E s \in Grantable : ChangeGrant(s)) \/ Tick \/ Crash \/ UNCHANGED vars
        PROVE  Still
    BY <1>8 DEF ChangeGrant, Tick, Crash, vars, db
  <1>9. Still \/ \E c \in Calls : Bind(c)
    <2> HIDE DEF Still, Bind
    <2> QED
      BY <1>6, <1>7, <1>8 DEF Next
  <1> QED
    BY <1>2, <1>4, <1>5, <1>9

\* Each project's history leads, rebind by rebind, to its binding, with a link
\* missing at most for each createProject that was cut short.
THEOREM HistoryCorrect == Spec => []HistoryExplainsBindings
  <1>1. HistoryInv => HistoryExplainsBindings
    BY DEF HistoryInv, HistoryExplainsBindings, Explained
  <1> QED
    BY <1>1, TypeInit, TypeStep, HistoryInit, HistoryStep, PTL DEF Spec
=============================================================================
