-------------------------- MODULE DashboardSession --------------------------
(***************************************************************************)
(* Signing in to the dashboard, asking it for something, and signing out   *)
(* (dashboard/session.rs, mod.rs, api.rs and oauth.rs).  A login is the    *)
(* row a `state` names; browsers may deliver its callback several times.   *)
(* A callback that succeeds leaves a session, named here by the callback,  *)
(* as is the token it holds.                                               *)
(*                                                                         *)
(* A request asks auth-center with the connection mutex held, a callback   *)
(* without it.  auth-center is external: it issues tokens, and its users   *)
(* gain and lose admin-read.  The verdict cache is the one of              *)
(* Authorization; all dashboard requests ask for the same scope.           *)
(***************************************************************************)
EXTENDS Integers, FiniteSets, Functions

CONSTANTS Logins,       \* random, so never the same twice
          Callbacks,    \* deliveries of /oauth/callback
          NoLogin,
          Requests,     \* calls of the dashboard's API
          NoRequest,
          LoginTtl,     \* LOGIN_TTL_SECS
          TokenLife,    \* expires_in of the tokens auth-center issues
          CacheTtl,     \* CACHE_TTL of the verdict cache
          MaxTime       \* bound on the clock

ASSUME DashboardAssumption ==
    /\ NoLogin \notin Logins
    /\ NoRequest \notin Requests
    /\ LoginTtl \in Nat /\ TokenLife \in Nat /\ CacheTtl \in Nat \ {0} /\ MaxTime \in Nat

VARIABLES
    now,        \* now_unix()
    started,    \* logins whose redirect a browser has
    logins,     \* dashboard_login: state -> created_at
    sessions,   \* dashboard_session: session -> expires_at
    verdicts,   \* the verdict cache: token -> expires_at
    holder,     \* the request that keeps the connection mutex, or NoRequest
    callback,   \* where each callback is
    request,    \* where each request is
    tokens,     \* auth-center: token -> when it ends
    revoked,    \* auth-center: token -> when it was revoked
    granted,    \* auth-center: the user holds admin-read
    vouched,    \* history: token -> when auth-center last accepted it
    signedOut   \* history: sessions whose row a sign-out has deleted

rows       == <<logins, sessions>>
authCenter == <<tokens, revoked, granted>>
dashboardVars == <<now, started, rows, verdicts, holder, callback, request, authCenter,
                   vouched, signedOut>>

\* login: the one its state names; expires: expires_at of the token; asked: when
\* its verdict was asked for.
CallbackAt(at, login, expires, asked) ==
    [at |-> at, login |-> login, expires |-> expires, asked |-> asked]

\* The callback is answered, one way or the other.
Answered(c, at) == [callback EXCEPT ![c] = CallbackAt(at, callback[c].login, 0, 0)]

\* late (history): a sign-out had deleted the session before the request came.
RequestAt(at, kind, session, asked, late) ==
    [at |-> at, kind |-> kind, session |-> session, asked |-> asked, late |-> late]

Kinds   == {"me", "read", "logout"}
Unsent  == [at |-> "unsent"]
Over(at) == [at |-> at]

DbFree == holder = NoRequest

Without(rs, s) == Restrict(rs, DOMAIN rs \ {s})
With(rs, s, t) == [x \in DOMAIN rs \cup {s} |-> IF x = s THEN t ELSE rs[x]]

\* session::resolve finds the session.
Resolves(s) == s \in DOMAIN sessions /\ sessions[s] > now

\* auth-center answers that the token is active and its user holds admin-read.
Accepts(s) == s \in DOMAIN tokens /\ tokens[s] > now /\ s \notin DOMAIN revoked /\ granted

-----------------------------------------------------------------------------
DashboardInit ==
    /\ now = 0 /\ started = {}
    /\ logins = <<>> /\ sessions = <<>> /\ verdicts = <<>>
    /\ holder = NoRequest
    /\ callback = [c \in Callbacks |-> CallbackAt("unsent", NoLogin, 0, 0)]
    /\ request = [r \in Requests |-> Unsent]
    /\ tokens = <<>> /\ revoked = <<>> /\ granted = TRUE
    /\ vouched = <<>> /\ signedOut = {}

(* Signing in *)

\* Variant: every login but the new one is cleaned up as soon as time passes.
LoginsCleanedNow(rs) == Restrict(rs, {l \in DOMAIN rs : rs[l] >= now})

LoginsCleaned(rs) == Restrict(rs, {l \in DOMAIN rs : rs[l] >= now - LoginTtl})

\* GET /oauth/login: start_login, and the redirect.
StartLogin(l) ==
    /\ DbFree /\ l \notin started
    /\ started' = started \cup {l}
    /\ logins' = LoginsCleaned(With(logins, l, now))
    /\ UNCHANGED <<now, sessions, verdicts, holder, callback, request, authCenter, vouched, signedOut>>

\* Variant: the login stays for a callback that comes again.
LoginsAfterKept(l) == logins

LoginsAfter(l) == Without(logins, l)

\* GET /oauth/callback: finish_login, found or not.  If it cannot delete the row, the
\* callback fails and the login stays.
FinishLogin(c, l) ==
    /\ DbFree /\ callback[c].at = "unsent" /\ l \in started
    /\ \/ /\ logins' = LoginsAfter(l)
          /\ callback' = [callback EXCEPT ![c] = CallbackAt(
                IF l \in DOMAIN logins /\ logins[l] >= now - LoginTtl
                THEN "exchanging" ELSE "failed", l, 0, 0)]
       \/ /\ logins' = logins
          /\ callback' = [callback EXCEPT ![c] = CallbackAt("failed", l, 0, 0)]
    /\ UNCHANGED <<now, started, sessions, verdicts, holder, request, authCenter, vouched, signedOut>>

\* auth-center sent the browser back with an error: the login stays.
ErrorReturned(c) ==
    /\ callback[c].at = "unsent" /\ started # {}
    /\ callback' = Answered(c, "failed")
    /\ UNCHANGED <<now, started, rows, verdicts, holder, request, authCenter, vouched, signedOut>>

\* auth-center gives a token for the code.
IssueToken(c) ==
    /\ callback[c].at = "exchanging"
    /\ tokens' = With(tokens, c, now + TokenLife)
    /\ callback' = [callback EXCEPT ![c].at = "issued"]
    /\ UNCHANGED <<now, started, rows, verdicts, holder, request, revoked, granted, vouched, signedOut>>

\* exchange_code returns, and counts the token's life from now.
ReceiveToken(c) ==
    /\ callback[c].at = "issued"
    /\ callback' = [callback EXCEPT ![c] = CallbackAt("asking", callback[c].login, now + TokenLife, now)]
    /\ UNCHANGED <<now, started, rows, verdicts, holder, request, authCenter, vouched, signedOut>>

\* auth-center looks up whether the token's user holds admin-read.
AnswerCallback(c) ==
    /\ callback[c].at = "asking"
    /\ IF Accepts(c)
       THEN /\ callback' = [callback EXCEPT ![c].at = "accepted"]
            /\ vouched' = With(vouched, c, now)
       ELSE /\ callback' = [callback EXCEPT ![c].at = "denied"]
            /\ UNCHANGED vouched
    /\ UNCHANGED <<now, started, rows, verdicts, holder, request, authCenter, signedOut>>

\* Variant: the verdict counts from its answer.
RememberedFromNow(s, asked) == With(verdicts, s, now + CacheTtl)

\* cache_put, with the time of the question.
Remembered(s, asked) == With(verdicts, s, asked + CacheTtl)

\* introspect returns, and the session is to be recorded.
Admit(c) ==
    /\ callback[c].at = "accepted"
    /\ verdicts' = Remembered(c, callback[c].asked)
    /\ callback' = [callback EXCEPT ![c].at = "admitted"]
    /\ UNCHANGED <<now, started, rows, holder, request, authCenter, vouched, signedOut>>

\* Rows that are past their end go with the next sign-in.
SessionsCleaned(rs) == Restrict(rs, {s \in DOMAIN rs : rs[s] >= now})

\* session::create, and the cookie goes out.
CreateSession(c) ==
    /\ DbFree /\ callback[c].at = "admitted"
    /\ sessions' = SessionsCleaned(With(sessions, c, callback[c].expires))
    /\ callback' = Answered(c, "signed in")
    /\ UNCHANGED <<now, started, logins, verdicts, holder, request, authCenter, vouched, signedOut>>

\* Its insert fails, or what follows: the row has no cookie.
CreateFails(c) ==
    /\ DbFree /\ callback[c].at = "admitted"
    /\ sessions' \in {sessions, With(sessions, c, callback[c].expires)}
    /\ callback' = Answered(c, "failed")
    /\ UNCHANGED <<now, started, logins, verdicts, holder, request, authCenter, vouched, signedOut>>

\* oauth::revoke, if auth-center can be reached; a second time it changes nothing.
MaybeRevoked(s) ==
    {revoked} \cup (IF s \in DOMAIN revoked THEN {} ELSE {With(revoked, s, now)})

\* The token of a user without admin-read is revoked, if that can be done.
RefuseSignIn(c) ==
    /\ callback[c].at = "denied"
    /\ callback' = Answered(c, "failed")
    /\ revoked' \in MaybeRevoked(c)
    /\ UNCHANGED <<now, started, rows, verdicts, holder, request, tokens, granted, vouched, signedOut>>

\* auth-center refuses the code, or does not answer in time, whatever it did.
SignInFails(c) ==
    /\ callback[c].at \in {"exchanging", "issued", "asking", "accepted", "denied"}
    /\ callback' = Answered(c, "failed")
    /\ UNCHANGED <<now, started, rows, verdicts, holder, request, authCenter, vouched, signedOut>>

-----------------------------------------------------------------------------
(* Requests *)

\* A browser has the cookie, and may keep it when it should not.
Arrive(r, s, kind) ==
    /\ request[r].at = "unsent" /\ callback[s].at = "signed in"
    /\ request' = [request EXCEPT ![r] = RequestAt("arrived", kind, s, 0, s \in signedOut)]
    /\ UNCHANGED <<now, started, rows, verdicts, holder, callback, authCenter, vouched, signedOut>>

\* authorized_call: no session or none that could be read, a cached verdict, or a
\* question with the mutex held.
Expired(r) ==
    /\ DbFree /\ request[r].at = "arrived" /\ request[r].kind # "logout"
    /\ request' = [request EXCEPT ![r] = Over("refused")]
    /\ UNCHANGED <<now, started, rows, verdicts, holder, callback, authCenter, vouched, signedOut>>

Cached(s) == s \in DOMAIN verdicts /\ verdicts[s] > now

AuthorizeCached(r) ==
    /\ DbFree /\ request[r].at = "arrived" /\ request[r].kind # "logout"
    /\ LET s == request[r].session
       IN  /\ Resolves(s) /\ Cached(s)
           /\ request' = [request EXCEPT ![r].at = "authorized", ![r].asked = now]
    /\ UNCHANGED <<now, started, rows, verdicts, holder, callback, authCenter, vouched, signedOut>>

AskAuthCenter(r) ==
    /\ DbFree /\ request[r].at = "arrived" /\ request[r].kind # "logout"
    /\ LET s == request[r].session
       IN  /\ Resolves(s) /\ ~Cached(s)
           /\ verdicts' = Without(verdicts, s)
           /\ request' = [request EXCEPT ![r].at = "asking", ![r].asked = now]
    /\ holder' = r
    /\ UNCHANGED <<now, started, rows, callback, authCenter, vouched, signedOut>>

AnswerRequest(r) ==
    /\ request[r].at = "asking"
    /\ LET s == request[r].session
       IN  IF Accepts(s)
           THEN /\ request' = [request EXCEPT ![r].at = "accepted"]
                /\ vouched' = With(vouched, s, now)
           ELSE /\ request' = [request EXCEPT ![r].at = "denied"]
                /\ UNCHANGED vouched
    /\ UNCHANGED <<now, started, rows, verdicts, holder, callback, authCenter, signedOut>>

\* Variant: the connection is still locked when the call is dispatched.
ReleasedNever(r) == r

\* The guard of authorized_call goes out of scope.
Released(r) == NoRequest

Authorize(r) ==
    /\ request[r].at = "accepted"
    /\ verdicts' = Remembered(request[r].session, request[r].asked)
    /\ holder' = Released(r)
    /\ request' = [request EXCEPT ![r].at = "authorized"]
    /\ UNCHANGED <<now, started, rows, callback, authCenter, vouched, signedOut>>

\* Denied, or no answer in time: 401 either way.
Refuse(r) ==
    /\ request[r].at \in {"asking", "accepted", "denied"}
    /\ holder' = NoRequest
    /\ request' = [request EXCEPT ![r] = Over("refused")]
    /\ UNCHANGED <<now, started, rows, verdicts, callback, authCenter, vouched, signedOut>>

\* `me` answers from the session; projects and project dispatch, which locks again.
Serve(r) ==
    /\ request[r].at = "authorized"
    /\ request[r].kind = "me" \/ DbFree
    /\ request' = [request EXCEPT ![r] = Over("served")]
    /\ UNCHANGED <<now, started, rows, verdicts, holder, callback, authCenter, vouched, signedOut>>

\* Variant: only the token is dropped, and the row left to expire.
SessionsAfterKept(s) == sessions

SessionsAfter(s) == Without(sessions, s)

\* POST /dashboard/api/logout: the row goes first.  If it cannot be deleted, that is
\* ignored: the row stays, and the sign-out goes on as if it had been.
SignOut(r) ==
    /\ DbFree /\ request[r].at = "arrived" /\ request[r].kind = "logout"
    /\ LET s == request[r].session
       IN  /\ \/ sessions' = SessionsAfter(s) /\ signedOut' = signedOut \cup {s}
              \/ UNCHANGED <<sessions, signedOut>>
           /\ request' = [request EXCEPT ![r] =
                 IF Resolves(s) THEN [@ EXCEPT !.at = "revoking"] ELSE Over("signed out")]
    /\ UNCHANGED <<now, started, logins, verdicts, holder, callback, authCenter, vouched>>

\* Then the token, if it could be read from the row and auth-center can be reached.
RevokeToken(r) ==
    /\ request[r].at = "revoking"
    /\ revoked' \in MaybeRevoked(request[r].session)
    /\ request' = [request EXCEPT ![r] = Over("signed out")]
    /\ UNCHANGED <<now, started, rows, verdicts, holder, callback, tokens, granted, vouched, signedOut>>

-----------------------------------------------------------------------------
(* The rest of the world *)

\* admin-read is withdrawn or given back at auth-center.
ChangeGrant ==
    /\ granted' = ~granted
    /\ UNCHANGED <<now, started, rows, verdicts, holder, callback, request, tokens, revoked, vouched, signedOut>>

\* API calls fill the cache, and a verdict is dropped to make room.
Evict(s) ==
    /\ s \in DOMAIN verdicts
    /\ verdicts' = Without(verdicts, s)
    /\ UNCHANGED <<now, started, rows, holder, callback, request, authCenter, vouched, signedOut>>

Tick ==
    /\ now < MaxTime /\ now' = now + 1
    /\ UNCHANGED <<started, rows, verdicts, holder, callback, request, authCenter, vouched, signedOut>>

Ended == {"unsent", "failed", "signed in", "served", "refused", "signed out"}

\* Callbacks and requests under way are cut off, and the cache is gone; the rows stay.
ServerCrashes ==
    /\ verdicts' = <<>> /\ holder' = NoRequest
    /\ callback' = [c \in Callbacks |->
          IF callback[c].at \in Ended THEN callback[c]
          ELSE CallbackAt("failed", callback[c].login, 0, 0)]
    /\ request' = [r \in Requests |->
          IF request[r].at \in Ended THEN request[r] ELSE Over("refused")]
    /\ UNCHANGED <<now, started, rows, authCenter, vouched, signedOut>>

CallbackStep(c) ==
    \/ \E l \in Logins : FinishLogin(c, l)
    \/ ErrorReturned(c) \/ IssueToken(c) \/ ReceiveToken(c) \/ AnswerCallback(c) \/ Admit(c)
    \/ CreateSession(c) \/ CreateFails(c) \/ RefuseSignIn(c) \/ SignInFails(c)

RequestStep(r) ==
    \/ Expired(r) \/ AuthorizeCached(r) \/ AskAuthCenter(r) \/ AnswerRequest(r) \/ Authorize(r)
    \/ Refuse(r) \/ Serve(r) \/ SignOut(r) \/ RevokeToken(r)

DashboardNext ==
    \/ \E l \in Logins : StartLogin(l)
    \/ \E c \in Callbacks : CallbackStep(c) \/ Evict(c)
    \/ \E r \in Requests : RequestStep(r)
    \/ \E r \in Requests, s \in Callbacks, kind \in Kinds : Arrive(r, s, kind)
    \/ ChangeGrant \/ Tick \/ ServerCrashes

DashboardSpec == DashboardInit /\ [][DashboardNext]_dashboardVars

-----------------------------------------------------------------------------
UnderWay == {"exchanging", "issued", "asking", "accepted", "denied", "admitted"}
Checked  == {"asking", "accepted", "denied", "authorized"}

CallbackType == 
    [at : UnderWay \cup Ended, login : Logins \cup {NoLogin}, expires : Nat, asked : Nat]
RequestType  ==
    [at : {"arrived", "revoking"} \cup Checked, kind : Kinds, session : Callbacks,
     asked : Nat, late : BOOLEAN]
    \cup {Over(at) : at \in Ended}

Table(f, keys) == f \in [DOMAIN f -> Nat] /\ DOMAIN f \subseteq keys

DashboardTypeOK ==
    /\ now \in Nat /\ started \subseteq Logins
    /\ Table(logins, Logins) /\ Table(sessions, Callbacks) /\ Table(verdicts, Callbacks)
    /\ holder \in Requests \cup {NoRequest}
    /\ callback \in [Callbacks -> CallbackType]
    /\ request \in [Requests -> RequestType]
    /\ Table(tokens, Callbacks) /\ Table(vouched, Callbacks)
    /\ Table(revoked, Callbacks) /\ granted \in BOOLEAN /\ signedOut \subseteq Callbacks

(* A `state` that comes back twice finds nothing the second time: one login   *)
(* yields one token, and one session, however often its callback is delivered *)
(* and wherever the server died (finish_login).                               *)
Redeemed(c) == callback[c].at \in UnderWay \cup {"signed in"} \/ c \in DOMAIN tokens

OneSignInPerLogin ==
    \A c, d \in Callbacks :
        Redeemed(c) /\ Redeemed(d) /\ callback[c].login = callback[d].login => c = d

(* Whoever is let in holds a token that auth-center accepted no longer than   *)
(* the cache may say so before the question, and that had not ended by more;  *)
(* and no session is recorded for a user auth-center did not accept.          *)
AccessIsVouched ==
    /\ DOMAIN sessions \subseteq DOMAIN vouched
    /\ \A r \in Requests : request[r].at = "authorized" =>
          LET s == request[r].session
          IN  /\ s \in DOMAIN vouched /\ request[r].asked < vouched[s] + CacheTtl
              /\ s \in DOMAIN tokens /\ request[r].asked < tokens[s] + CacheTtl

(* A sign-out takes hold if either of its two effects does, though it answers *)
(* ok in any case.  Once the row is deleted, what comes later is not even     *)
(* looked up, whatever the verdict cache still says and in other windows of   *)
(* the browser too.  Where the row stayed, a revoked token opens nothing any  *)
(* longer than a verdict may be cached.                                       *)
SignOutTakesHold ==
    \A r \in Requests :
        /\ request[r].at \in Checked => ~request[r].late
        /\ request[r].at = "authorized" /\ request[r].session \in DOMAIN revoked =>
              request[r].asked < revoked[request[r].session] + CacheTtl

(* Rows go for a reason: a session when it was signed out of or resolve would *)
(* refuse it, a login when it is redeemed or finish_login would refuse it.    *)
(* Another user's sign-in, which cleans up, ends nobody's.                    *)
RowGoesForAReason ==
    /\ \A s \in DOMAIN sessions \ DOMAIN sessions' : ~Resolves(s) \/ s \in signedOut'
    /\ \A l \in DOMAIN logins \ DOMAIN logins' :
          \/ logins[l] < now - LoginTtl
          \/ \E c \in Callbacks : callback'[c].login = l /\ callback'[c].at = "exchanging"

RowsGoForAReason == [][RowGoesForAReason]_dashboardVars

(* Nobody waits for the connection mutex in vain: it is kept across steps     *)
(* only over a question to auth-center, which ends with the 5 s time-out, and *)
(* is given back whatever the answer, before the call is dispatched, which    *)
(* locks it again.                                                            *)
MutexIsGivenBack ==
    /\ ~DbFree => request[holder].at \in {"asking", "accepted", "denied"}
    /\ \A r \in Requests :
          request[r].at \in {"asking", "accepted", "denied"} => holder = r
=============================================================================
