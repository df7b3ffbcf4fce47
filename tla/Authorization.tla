--------------------------- MODULE Authorization ----------------------------
(***************************************************************************)
(* How a JSON-RPC call is let in and dispatched.  One task resolves the    *)
(* call to a resource and asks the verdict cache, or auth-center over HTTP *)
(* while it keeps the connection mutex; a second task runs the handler     *)
(* some time after.  The handlers here are those that change who may do    *)
(* what, or act for a project: createProject, createDeployment,            *)
(* activateDeployment and rollback; the work they do for a deployment is   *)
(* in DeployServer.                                                        *)
(*                                                                         *)
(* auth-center is external: it grants and revokes scopes as it likes and   *)
(* answers each question by what it grants at one moment of the request.   *)
(* `serve --disable-api-key-check`, for local development, is left out.    *)
(***************************************************************************)
EXTENDS RpcMethods, Integers, Sequences, FiniteSets, Functions

CONSTANTS
    Calls,          \* the calls made over the whole history
    Requests,       \* what they may ask: see RequestType
    Keys,           \* API keys
    NoKey,          \* no x-api-key header, or an empty one
    Projects,
    Deployments,
    Owner,          \* the project each deployment is created for
    NoDeployment,   \* no active_deployment row
    Resources,      \* auth-center resources
    AdminResource,  \* DEPLOY_ADMIN_RESOURCE
    Unbound,        \* no row in project_resource_binding
    Grantable,      \* the scopes auth-center may grant
    FirstBindings,  \* the bindings the server may start with
    CacheTtl,       \* CACHE_TTL, 30 s
    HttpTimeout,    \* REQUEST_TIMEOUT, 5 s
    MaxCached,      \* MAX_CACHE_ENTRIES, 1000
    MaxTime,        \* bound on the clock
    MaxCrashes      \* bound on server crashes

RequestType ==
    [method : STRING, key : Keys \cup {NoKey}, project : Projects,
     deploy : Deployments, resource : Resources, rebind : BOOLEAN]

\* A scope a key may hold: `<resource>:<action>` for the key's hash.
Scopes  == Keys \X Resources \X Actions
NoScope == <<>>
Bound   == [Projects -> Resources \cup {Unbound}]

ASSUME RequestAssumption ==
    /\ \A q \in Requests : q \in RequestType
    /\ Owner \in [Deployments -> Projects]
ASSUME GrantAssumption ==
    /\ AdminResource \in Resources
    /\ Unbound \notin Resources
    /\ NoKey \notin Keys
    /\ NoDeployment \notin Deployments
    /\ Grantable \subseteq Scopes
    /\ FirstBindings \subseteq Bound
ASSUME TimeAssumption ==
    /\ HttpTimeout \in Nat \ {0}
    /\ CacheTtl \in Nat
    /\ HttpTimeout < CacheTtl
    /\ MaxCached \in Nat \ {0}
    /\ MaxTime \in Nat
    /\ MaxCrashes \in Nat

VARIABLES
    registered, \* projects with a row in project
    binding,    \* project_resource_binding
    history,    \* project_resource_binding_history, per project
    created,    \* deployments with a row
    active,     \* active_deployment
    grants,     \* what auth-center grants now
    vouched,    \* history: when auth-center last said yes to a scope
    cache,      \* the verdict cache: scope -> expires_at
    now,        \* the clock, in units of the time-outs
    call,       \* the calls
    cut,        \* history: createProjects cut short after they bound the project
    crashes

db    == <<registered, binding, history, cut, created, active>>
authz == <<grants, vouched>>
vars  == <<db, authz, cache, now, call, crashes>>

CallStates == {"unsent", "arrived", "asking", "allowed", "answered"}

\* req: the request; scope: the scope being checked; at: when it was asked for,
\* or decided; seen (history): the bindings at the decision.
Call(st, req, scope, at, answer, seen) ==
    [st |-> st, req |-> req, scope |-> scope, at |-> at, answer |-> answer,
     seen |-> seen]

Nobody  == [p \in Projects |-> Unbound]
Unsent  == Call("unsent", <<>>, NoScope, 0, "none", Nobody)
Over    == Call("answered", <<>>, NoScope, 0, "none", Nobody)

\* "Variant" definitions are single-fault versions of the definition that follows
\* them, used to test that the properties notice such a fault.

\* Variant: authorize lets go of the mutex before it asks auth-center.
NeverHeld == TRUE

\* The mutex is held across steps only by an authorization that is waiting for
\* auth-center.
DbFree == \A c \in Calls : call[c].st # "asking"

-----------------------------------------------------------------------------
(* Resolution.                                                             *)

BoundResource(p) == IF p \in registered THEN binding[p] ELSE Unbound

ResourceFor(q) ==
    IF q.method \in InstanceMethods THEN AdminResource
    ELSE IF q.method \in ProjectMethods THEN BoundResource(q.project)
    ELSE IF q.deploy \in created THEN BoundResource(Owner[q.deploy])
    ELSE Unbound

\* MissingKey, UnknownMethod and Unresolved are the ways not to be.
Resolvable(q) ==
    /\ q.key # NoKey
    /\ q.method \in Methods
    /\ ResourceFor(q) # Unbound

\* What auth-center is asked, and the cache is keyed by.
ScopeFor(q) == <<q.key, ResourceFor(q), Action(q.method)>>

Live(s) == s \in DOMAIN cache /\ cache[s] > now

\* Variant: a full cache is only rid of what has expired.
MadeRoomByExpiryOnly(t) ==
    IF Cardinality(DOMAIN cache) < MaxCached THEN cache
    ELSE Restrict(cache, {s \in DOMAIN cache : cache[s] > t})

\* Room for one more: when full, drop what has expired, or else everything.
MadeRoom(t) ==
    LET live == {s \in DOMAIN cache : cache[s] > t}
    IN  IF Cardinality(DOMAIN cache) < MaxCached THEN cache
        ELSE IF Cardinality(live) < MaxCached THEN Restrict(cache, live)
        ELSE <<>>

\* Variant: the entry's life is counted from the answer, not from the question.
StoredFromAnswer(s, t) ==
    [x \in DOMAIN MadeRoom(t) \cup {s} |->
        IF x = s THEN now + CacheTtl ELSE MadeRoom(t)[x]]

\* cache_put with the time at which the question was asked.
Stored(s, t) ==
    [x \in DOMAIN MadeRoom(t) \cup {s} |->
        IF x = s THEN t + CacheTtl ELSE MadeRoom(t)[x]]

-----------------------------------------------------------------------------
\* The server starts on a database some earlier process has left behind: each
\* bound project has the history of one bind, and deployments belong to bound
\* projects.
Init ==
    /\ binding \in FirstBindings
    /\ registered = {p \in Projects : binding[p] # Unbound}
    /\ history = [p \in Projects |-> IF binding[p] = Unbound THEN <<>>
                                     ELSE << <<Unbound, binding[p]>> >>]
    /\ cut = [p \in Projects |-> 0]
    /\ created \in SUBSET {d \in Deployments : Owner[d] \in registered}
    /\ active = [p \in Projects |-> NoDeployment]
    /\ grants = Grantable
    /\ vouched = [s \in Scopes |-> 0]
    /\ cache = <<>>
    /\ now = CacheTtl
    /\ call = [c \in Calls |-> Unsent]
    /\ crashes = 0

Send(c, q) ==
    /\ call[c].st = "unsent"
    /\ call' = [call EXCEPT ![c] = Call("arrived", q, NoScope, 0, "none", Nobody)]
    /\ UNCHANGED <<db, authz, cache, now, crashes>>

\* The call is refused before anything is asked.
RefuseUnresolved(c) ==
    /\ DbFree
    /\ call[c].st = "arrived"
    /\ ~Resolvable(call[c].req)
    /\ call' = [call EXCEPT ![c] = Over]
    /\ UNCHANGED <<db, authz, cache, now, crashes>>

\* cache_get finds a verdict that has not expired.
AllowCached(c) ==
    /\ DbFree
    /\ call[c].st = "arrived"
    /\ Resolvable(call[c].req)
    /\ LET q == call[c].req
       IN  /\ Live(ScopeFor(q))
           /\ call' = [call EXCEPT ![c] =
                         Call("allowed", q, ScopeFor(q), now, "yes", binding)]
    /\ UNCHANGED <<db, authz, cache, now, crashes>>

\* cache_get finds nothing, or an expired entry that it removes; the request to
\* auth-center goes out with the mutex held.
Ask(c) ==
    /\ DbFree
    /\ call[c].st = "arrived"
    /\ Resolvable(call[c].req)
    /\ LET q == call[c].req
       IN  /\ ~Live(ScopeFor(q))
           /\ cache' = Restrict(cache, DOMAIN cache \ {ScopeFor(q)})
           /\ call' = [call EXCEPT ![c] =
                         Call("asking", q, ScopeFor(q), now, "none", Nobody)]
    /\ UNCHANGED <<db, authz, now, crashes>>

\* auth-center looks the scope up.
Evaluate(c) ==
    /\ call[c].st = "asking"
    /\ call[c].answer = "none"
    /\ LET s == call[c].scope
       IN  IF s \in grants
           THEN /\ call' = [call EXCEPT ![c].answer = "yes"]
                /\ vouched' = [vouched EXCEPT ![s] = now]
           ELSE /\ call' = [call EXCEPT ![c].answer = "no"]
                /\ UNCHANGED vouched
    /\ UNCHANGED <<db, grants, cache, now, crashes>>

\* 2xx with active and allowed both literally true.
AllowAnswered(c) ==
    /\ call[c].st = "asking"
    /\ call[c].answer = "yes"
    /\ LET s == call[c].scope
       IN  /\ cache' = Stored(s, call[c].at)
           /\ call' = [call EXCEPT ![c] =
                         Call("allowed", call[c].req, s, now, "yes", binding)]
    /\ UNCHANGED <<db, authz, now, crashes>>

\* auth-center said no; or there was no answer that could be read before the
\* time-out, whatever it had decided.
RefuseAnswered(c) ==
    /\ call[c].st = "asking"
    /\ call' = [call EXCEPT ![c] = Over]
    /\ UNCHANGED <<db, authz, cache, now, crashes>>

-----------------------------------------------------------------------------
(* Dispatch: the handler runs in a task of its own, under the mutex.       *)

Dispatched(c, m) == DbFree /\ call[c].st = "allowed" /\ call[c].req.method = m
Executed(c) == call' = [call EXCEPT ![c] = Over]

\* Variant: only the first bind of a project is recorded.
FirstBindRecorded(p, r) ==
    history' = IF binding[p] = Unbound
               THEN [history EXCEPT ![p] = Append(@, <<binding[p], r>>)]
               ELSE history

BindRecorded(p, r) == history' = [history EXCEPT ![p] = Append(@, <<binding[p], r>>)]

\* Created, or Rebound when asked to.
Binds(q) ==
    /\ binding[q.project] # q.resource
    /\ binding[q.project] = Unbound \/ q.rebind

CreateProject(c) ==
    /\ Dispatched(c, "createProject")
    /\ LET q == call[c].req
       IN  /\ registered' = registered \cup {q.project}
           /\ IF Binds(q)
              THEN /\ binding' = [binding EXCEPT ![q.project] = q.resource]
                   /\ BindRecorded(q.project, q.resource)
              ELSE UNCHANGED <<binding, history>>
    /\ Executed(c)
    /\ UNCHANGED <<cut, created, active, authz, cache, now, crashes>>

\* createProject's statements commit one by one: it may be cut short after
\* registering the project, and after binding it.
CutShort(q) ==
    /\ registered' = registered \cup {q.project}
    /\ \/ UNCHANGED <<binding, cut>>
       \/ /\ Binds(q)
          /\ binding' = [binding EXCEPT ![q.project] = q.resource]
          /\ cut' = [cut EXCEPT ![q.project] = @ + 1]
    /\ UNCHANGED history

\* The statement that binds the project fails, or the one that records it; the
\* call is answered with the error.
CreateProjectFails(c) ==
    /\ Dispatched(c, "createProject")
    /\ CutShort(call[c].req)
    /\ Executed(c)
    /\ UNCHANGED <<created, active, authz, cache, now, crashes>>

\* The server names the deployment; a name that is taken stands for one that
\* would go beyond the bound on deployments.
CreateDeployment(c) ==
    /\ Dispatched(c, "createDeployment")
    /\ LET q == call[c].req
       IN  created' = IF Owner[q.deploy] = q.project /\ binding[q.project] # Unbound
                      THEN created \cup {q.deploy} ELSE created
    /\ Executed(c)
    /\ UNCHANGED <<registered, binding, history, cut, active, authz, cache, now, crashes>>

Activated(d) ==
    active' = IF d \in created THEN [active EXCEPT ![Owner[d]] = d] ELSE active

ActivateDeployment(c) ==
    /\ Dispatched(c, "activateDeployment")
    /\ Activated(call[c].req.deploy)
    /\ Executed(c)
    /\ UNCHANGED <<registered, binding, history, cut, created, authz, cache, now, crashes>>

\* Variant: rollback trusts the deployment name it is given.
OwnUnchecked(q) == TRUE

\* The deployment to roll back to is one of the project's.
Own(q) == q.deploy \in created /\ Owner[q.deploy] = q.project

Rollback(c) ==
    /\ Dispatched(c, "rollback")
    /\ IF Own(call[c].req) THEN Activated(call[c].req.deploy) ELSE UNCHANGED active
    /\ Executed(c)
    /\ UNCHANGED <<registered, binding, history, cut, created, authz, cache, now, crashes>>

\* Every other method, and every handler that fails before its first statement
\* has changed anything.
OtherMethod(c) ==
    /\ \E m \in Methods : Dispatched(c, m)
    /\ Executed(c)
    /\ UNCHANGED <<db, authz, cache, now, crashes>>

-----------------------------------------------------------------------------
\* auth-center grants or revokes a scope.
ChangeGrant(s) ==
    /\ grants' = IF s \in grants THEN grants \ {s} ELSE grants \cup {s}
    /\ UNCHANGED <<db, vouched, cache, now, call, crashes>>

\* No request to auth-center is waited for longer than HttpTimeout.
Tick ==
    /\ now < MaxTime
    /\ \A c \in Calls : call[c].st = "asking" => now < call[c].at + HttpTimeout
    /\ now' = now + 1
    /\ UNCHANGED <<db, authz, cache, call, crashes>>

\* Calls under way fail and the cache is gone; the rows stay.
ServerDies ==
    /\ crashes < MaxCrashes
    /\ crashes' = crashes + 1
    /\ cache' = <<>>
    /\ call' = [c \in Calls |->
                  IF call[c].st = "unsent" THEN call[c] ELSE Over]
    /\ UNCHANGED <<created, active, authz, now>>

Crash == ServerDies /\ UNCHANGED <<registered, binding, history, cut>>

CrashInCreateProject(c) ==
    /\ Dispatched(c, "createProject")
    /\ CutShort(call[c].req)
    /\ ServerDies

-----------------------------------------------------------------------------
Authorize(c) ==
    RefuseUnresolved(c) \/ AllowCached(c) \/ Ask(c) \/ AllowAnswered(c) \/ RefuseAnswered(c)

Dispatch(c) ==
    \/ CreateProject(c) \/ CreateProjectFails(c) \/ CreateDeployment(c) \/ ActivateDeployment(c)
    \/ Rollback(c) \/ OtherMethod(c)

Next ==
    \/ \E c \in Calls :
          \/ \E q \in Requests : Send(c, q)
          \/ Authorize(c) \/ Evaluate(c) \/ Dispatch(c)
          \/ CrashInCreateProject(c)
    \/ \E s \in Grantable : ChangeGrant(s)
    \/ Tick
    \/ Crash

Spec == Init /\ [][Next]_vars

-----------------------------------------------------------------------------
CallType ==
    [st : CallStates, req : Requests \cup {<<>>}, scope : Scopes \cup {NoScope},
     at : Nat, answer : {"none", "yes", "no"}, seen : Bound]

TypeOK ==
    /\ registered \subseteq Projects
    /\ binding \in Bound
    /\ DOMAIN history = Projects
    /\ cut \in [Projects -> Nat]
    /\ created \subseteq Deployments
    /\ active \in [Projects -> Deployments \cup {NoDeployment}]
    /\ grants \subseteq Grantable
    /\ vouched \in [Scopes -> Nat]
    /\ DOMAIN cache \subseteq Scopes
    /\ cache \in [DOMAIN cache -> Nat]
    /\ now \in Nat
    /\ call \in [Calls -> CallType]
    /\ \A c \in Calls : call[c].st \in {"arrived", "asking", "allowed"}
                           => call[c].req \in Requests
    /\ crashes \in 0..MaxCrashes

\* "Revocation latency is bounded by this": a call is let in only if auth-center
\* has granted exactly the scope it needs less than CacheTtl before, however
\* long the answer took, whatever else the cache went through.
RevocationWindow ==
    \A c \in Calls : call[c].st = "allowed" =>
        call[c].at - vouched[call[c].scope] < CacheTtl

\* While auth-center is being asked, the binding the question was made from is
\* still in force: a rebind cannot slip between the look-up and the verdict.
QuestionStands ==
    \A c \in Calls : call[c].st = "asking" =>
        call[c].scope = ScopeFor(call[c].req)

\* The cache never outgrows its limit.
CacheIsBounded == Cardinality(DOMAIN cache) <= MaxCached

\* What a call does to a project's pointer was granted on the resource that
\* project was bound to when the call was decided; naming a deployment of
\* another project gets nobody past this.
PointerMovesAreGranted ==
    [][\A p \in Projects : active'[p] # active[p] =>
          \E c \in Calls :
             /\ call[c].st = "allowed" /\ call'[c].st = "answered"
             /\ call[c].scope[2] = call[c].seen[p]
             /\ call[c].scope[3] \in {"deploy", "rollback"}]_vars

LastRecorded(p) ==
    IF history[p] = <<>> THEN Unbound ELSE history[p][Len(history[p])][2]

\* Where a history h of a project bound to r has a link missing: a row that does
\* not start from the resource of the row before, or a last one that is not r's.
Missing(h, r) ==
    {i \in 1 .. Len(h) + 1 :
        (IF i > Len(h) THEN r ELSE h[i][1]) # (IF i = 1 THEN Unbound ELSE h[i - 1][2])}

\* The binding history is a chain of rebinds that ends in the binding in force,
\* with at most one link missing for each createProject that was cut short: a bind
\* that lost its row shows as one gap for good, and later binds are recorded on.
HistoryExplainsBindings ==
    \A p \in Projects : Cardinality(Missing(history[p], binding[p])) <= cut[p]

-----------------------------------------------------------------------------
\* "every bind or rebind is recorded in project_resource_binding_history", with
\* no exception for a crash or an insert that fails.
EveryBindIsRecorded == \A p \in Projects : LastRecorded(p) = binding[p]
=============================================================================
