----------------------- MODULE DashboardSession_proofs -----------------------
(***************************************************************************)
(* Proofs about DashboardSession, for any logins, callbacks, requests and  *)
(* lifetimes.                                                              *)
(***************************************************************************)
EXTENDS DashboardSession, TLAPS

-----------------------------------------------------------------------------
(* Tables.                                                                 *)

\* A table with a row more.
LEMMA WithRow ==
    ASSUME NEW K, NEW f, Table(f, K), NEW s \in K, NEW t \in Nat
    PROVE  /\ Table(With(f, s, t), K)
           /\ DOMAIN With(f, s, t) = DOMAIN f \cup {s}
           /\ With(f, s, t)[s] = t
           /\ \A x \in DOMAIN f \ {s} : With(f, s, t)[x] = f[x]
  BY DEF Table, With

\* A table with some of its rows.
LEMMA SomeRows ==
    ASSUME NEW K, NEW f, Table(f, K), NEW S, S \subseteq DOMAIN f
    PROVE  /\ Table(Restrict(f, S), K)
           /\ DOMAIN Restrict(f, S) = S
           /\ \A x \in S : Restrict(f, S)[x] = f[x]
  BY DEF Table, Restrict

\* A table without a row.
LEMMA WithoutRow ==
    ASSUME NEW K, NEW f, Table(f, K), NEW s
    PROVE  /\ Table(Without(f, s), K)
           /\ DOMAIN Without(f, s) = DOMAIN f \ {s}
           /\ \A x \in DOMAIN f \ {s} : Without(f, s)[x] = f[x]
  BY SomeRows DEF Without

\* What cleaning up leaves.
LEMMA CleanedRows ==
    ASSUME NEW K, NEW f, Table(f, K), now \in Nat
    PROVE  /\ Table(LoginsCleaned(f), K) /\ Table(SessionsCleaned(f), K)
           /\ DOMAIN LoginsCleaned(f) = {x \in DOMAIN f : f[x] >= now - LoginTtl}
           /\ DOMAIN SessionsCleaned(f) = {x \in DOMAIN f : f[x] >= now}
           /\ \A x \in DOMAIN LoginsCleaned(f) : LoginsCleaned(f)[x] = f[x]
           /\ \A x \in DOMAIN SessionsCleaned(f) : SessionsCleaned(f)[x] = f[x]
  BY SomeRows DEF LoginsCleaned, SessionsCleaned

\* An empty table is one of any kind.
LEMMA EmptyTable == \A K : Table(<<>>, K)
  BY DEF Table

-----------------------------------------------------------------------------
(* Type correctness.                                                       *)

\* A callback or a request that takes a step stays of its type.
LEMMA CallbackTyped ==
    ASSUME DashboardTypeOK, NEW c \in Callbacks,
           NEW at \in UnderWay \cup Ended, NEW l \in Logins \cup {NoLogin},
           NEW e \in Nat, NEW a \in Nat
    PROVE  /\ CallbackAt(at, l, e, a) \in CallbackType
           /\ [callback EXCEPT ![c] = CallbackAt(at, l, e, a)] \in [Callbacks -> CallbackType]
           /\ [callback EXCEPT ![c].at = at] \in [Callbacks -> CallbackType]
           /\ Answered(c, at) \in [Callbacks -> CallbackType]
  BY DEF DashboardTypeOK, CallbackAt, CallbackType, Answered

\* A request that moves on stays well-typed.
LEMMA RequestTyped ==
    ASSUME DashboardTypeOK, NEW r \in Requests, NEW k \in RequestType
    PROVE  [request EXCEPT ![r] = k] \in [Requests -> RequestType]
  BY DEF DashboardTypeOK

\* What a request that is under way is.
InProgress == {"arrived", "revoking"} \cup Checked

\* A record is the one of a request, but for these fields.
Same(k, r, at, a) ==
    /\ k.at = at /\ k.asked = a /\ k.kind = request[r].kind
    /\ k.session = request[r].session /\ k.late = request[r].late

\* The fields of a request that is under way.
LEMMA RequestInProgress ==
    ASSUME DashboardTypeOK, NEW r \in Requests, request[r].at \in InProgress
    PROVE  /\ request[r] = [at |-> request[r].at, kind |-> request[r].kind,
                            session |-> request[r].session, asked |-> request[r].asked,
                            late |-> request[r].late]
           /\ request[r].session \in Callbacks /\ request[r].kind \in Kinds
           /\ request[r].asked \in Nat /\ request[r].late \in BOOLEAN
           /\ \A at \in InProgress, a \in Nat :
                 /\ [request[r] EXCEPT !.at = at] \in RequestType
                 /\ [request[r] EXCEPT !.at = at, !.asked = a] \in RequestType
           /\ \A at, a :
                 /\ Same([request[r] EXCEPT !.at = at], r, at, request[r].asked)
                 /\ Same([request[r] EXCEPT !.at = at, !.asked = a], r, at, a)
  <1>1. request[r] \in RequestType
    BY DEF DashboardTypeOK
  <1>2. ASSUME NEW at \in Ended, request[r] = Over(at) PROVE FALSE
    <2>1. request[r].at = at
      BY <1>2 DEF Over
    <2> QED
      BY <2>1 DEF Ended, InProgress, Checked
  <1>3. request[r] \in [at : InProgress, kind : Kinds, session : Callbacks,
                        asked : Nat, late : BOOLEAN]
    BY <1>1, <1>2 DEF RequestType, InProgress
  <1>4. \A at, a : /\ Same([request[r] EXCEPT !.at = at], r, at, request[r].asked)
                   /\ Same([request[r] EXCEPT !.at = at, !.asked = a], r, at, a)
    BY <1>3 DEF Same
  <1> QED
    BY <1>1, <1>3, <1>4 DEF RequestType, InProgress

\* A request that is over is well-typed.
LEMMA OverTyped == \A at \in Ended : Over(at) \in RequestType
  BY DEF RequestType

\* What the tables of the server and of auth-center become.
LEMMA TablesTyped ==
    ASSUME DashboardTypeOK, NEW s \in Callbacks, NEW t \in Nat
    PROVE  /\ Table(With(tokens, s, t), Callbacks) /\ Table(With(vouched, s, t), Callbacks)
           /\ Table(With(sessions, s, t), Callbacks)
           /\ Table(SessionsCleaned(With(sessions, s, t)), Callbacks)
           /\ Table(With(verdicts, s, t), Callbacks) /\ Table(Remembered(s, t), Callbacks)
           /\ Table(Without(verdicts, s), Callbacks)
           /\ \A R \in MaybeRevoked(s) : Table(R, Callbacks)
           /\ now \in Nat /\ t + CacheTtl \in Nat /\ now + TokenLife \in Nat
  <1>1. t + CacheTtl \in Nat /\ now + TokenLife \in Nat /\ now \in Nat
    BY DashboardAssumption DEF DashboardTypeOK
  <1>2. /\ Table(tokens, Callbacks) /\ Table(vouched, Callbacks)
        /\ Table(sessions, Callbacks) /\ Table(verdicts, Callbacks)
    BY DEF DashboardTypeOK
  <1>3. Table(With(tokens, s, t), Callbacks) /\ Table(With(vouched, s, t), Callbacks)
    BY <1>2, WithRow
  <1>4. Table(With(sessions, s, t), Callbacks) /\ Table(With(verdicts, s, t), Callbacks)
    BY <1>2, WithRow
  <1>5. Table(SessionsCleaned(With(sessions, s, t)), Callbacks)
    BY <1>1, <1>4, CleanedRows
  <1>6. Table(Remembered(s, t), Callbacks)
    BY <1>1, <1>2, WithRow DEF Remembered
  <1>7. Table(Without(verdicts, s), Callbacks)
    BY <1>2, WithoutRow
  <1>8. \A R \in MaybeRevoked(s) : Table(R, Callbacks)
    <2>1. Table(revoked, Callbacks)
      BY DEF DashboardTypeOK
    <2>2. Table(With(revoked, s, now), Callbacks)
      BY <1>1, <2>1, WithRow
    <2> QED
      BY <2>1, <2>2 DEF MaybeRevoked
  <1> QED
    BY <1>1, <1>3, <1>4, <1>5, <1>6, <1>7, <1>8

\* The times of a callback are numbers.
LEMMA CallbackTimes ==
    ASSUME DashboardTypeOK, NEW c \in Callbacks
    PROVE  /\ callback[c].expires \in Nat /\ callback[c].asked \in Nat
           /\ callback[c].login \in Logins \cup {NoLogin}
  BY DEF DashboardTypeOK, CallbackType

\* Types hold at the start,
THEOREM DashboardTypeInit == DashboardInit => DashboardTypeOK
  <1> SUFFICES ASSUME DashboardInit PROVE DashboardTypeOK
    OBVIOUS
  <1>1. Unsent \in RequestType
    BY OverTyped DEF Unsent, Over, Ended
  <1> QED
    BY <1>1, EmptyTable
       DEF DashboardInit, DashboardTypeOK, CallbackAt, CallbackType, Ended

\* and every step keeps them.
THEOREM DashboardTypeStep == DashboardTypeOK /\ [DashboardNext]_dashboardVars => DashboardTypeOK'
  <1> SUFFICES ASSUME DashboardTypeOK, [DashboardNext]_dashboardVars PROVE DashboardTypeOK'
    OBVIOUS
  <1>1. ASSUME NEW l \in Logins, StartLogin(l) PROVE DashboardTypeOK'
    <2>1. Table(logins', Logins)
      BY <1>1, WithRow, CleanedRows DEF StartLogin, DashboardTypeOK
    <2> QED
      BY <1>1, <2>1 DEF StartLogin, DashboardTypeOK, authCenter
  <1>2. ASSUME NEW c \in Callbacks, NEW l \in Logins, FinishLogin(c, l) PROVE DashboardTypeOK'
    <2>1. Table(logins', Logins)
      <3>1. Table(logins, Logins) /\ Table(Without(logins, l), Logins)
        BY WithoutRow DEF DashboardTypeOK
      <3> QED
        BY <1>2, <3>1 DEF FinishLogin, LoginsAfter
    <2>2. callback' \in [Callbacks -> CallbackType]
      <3>1. \A at \in {"exchanging", "failed"} :
               [callback EXCEPT ![c] = CallbackAt(at, l, 0, 0)] \in [Callbacks -> CallbackType]
        BY CallbackTyped DEF UnderWay, Ended
      <3> QED
        BY <1>2, <3>1 DEF FinishLogin
    <2> QED
      BY <1>2, <2>1, <2>2 DEF FinishLogin, DashboardTypeOK, authCenter
  <1>3. ASSUME NEW c \in Callbacks, ErrorReturned(c) PROVE DashboardTypeOK'
    <2>1. callback' \in [Callbacks -> CallbackType]
      BY <1>3, CallbackTyped DEF ErrorReturned, UnderWay, Ended
    <2> QED
      BY <1>3, <2>1 DEF ErrorReturned, DashboardTypeOK, rows, authCenter
  <1>4. ASSUME NEW c \in Callbacks, IssueToken(c) PROVE DashboardTypeOK'
    <2>1. callback' \in [Callbacks -> CallbackType]
      BY <1>4, CallbackTyped DEF IssueToken, UnderWay, Ended
    <2>2. Table(tokens', Callbacks)
      BY <1>4, TablesTyped DEF IssueToken
    <2> QED
      BY <1>4, <2>1, <2>2 DEF IssueToken, DashboardTypeOK, rows, authCenter
  <1>5. ASSUME NEW c \in Callbacks, ReceiveToken(c) PROVE DashboardTypeOK'
    <2>1. callback' \in [Callbacks -> CallbackType]
      BY <1>5, CallbackTyped, CallbackTimes, TablesTyped DEF ReceiveToken, UnderWay, Ended
    <2> QED
      BY <1>5, <2>1 DEF ReceiveToken, DashboardTypeOK, rows, authCenter
  <1>6. ASSUME NEW c \in Callbacks, AnswerCallback(c) PROVE DashboardTypeOK'
    <2>1. callback' \in [Callbacks -> CallbackType]
      <3>1. /\ [callback EXCEPT ![c].at = "accepted"] \in [Callbacks -> CallbackType]
            /\ [callback EXCEPT ![c].at = "denied"] \in [Callbacks -> CallbackType]
        BY CallbackTyped DEF UnderWay
      <3> QED
        BY <1>6, <3>1 DEF AnswerCallback
    <2>2. Table(vouched', Callbacks)
      BY <1>6, TablesTyped DEF AnswerCallback, DashboardTypeOK
    <2> QED
      BY <1>6, <2>1, <2>2 DEF AnswerCallback, DashboardTypeOK, rows, authCenter
  <1>7. ASSUME NEW c \in Callbacks, Admit(c) PROVE DashboardTypeOK'
    <2>1. callback' \in [Callbacks -> CallbackType]
      BY <1>7, CallbackTyped DEF Admit, UnderWay, Ended
    <2>2. Table(verdicts', Callbacks)
      BY <1>7, TablesTyped, CallbackTimes DEF Admit
    <2> QED
      BY <1>7, <2>1, <2>2 DEF Admit, DashboardTypeOK, rows, authCenter
  <1>8. ASSUME NEW c \in Callbacks, CreateSession(c) PROVE DashboardTypeOK'
    <2>1. callback' \in [Callbacks -> CallbackType]
      BY <1>8, CallbackTyped DEF CreateSession, UnderWay, Ended
    <2>2. Table(sessions', Callbacks)
      BY <1>8, TablesTyped, CallbackTimes DEF CreateSession, DashboardTypeOK
    <2> QED
      BY <1>8, <2>1, <2>2 DEF CreateSession, DashboardTypeOK, rows, authCenter
  <1>9. ASSUME NEW c \in Callbacks, CreateFails(c) PROVE DashboardTypeOK'
    <2>1. callback' \in [Callbacks -> CallbackType]
      BY <1>9, CallbackTyped DEF CreateFails, UnderWay, Ended
    <2>2. Table(sessions', Callbacks)
      BY <1>9, TablesTyped, CallbackTimes DEF CreateFails, DashboardTypeOK
    <2> QED
      BY <1>9, <2>1, <2>2 DEF CreateFails, DashboardTypeOK, rows, authCenter
  <1>10. ASSUME NEW c \in Callbacks, RefuseSignIn(c) PROVE DashboardTypeOK'
    <2>1. callback' \in [Callbacks -> CallbackType]
      BY <1>10, CallbackTyped DEF RefuseSignIn, UnderWay, Ended
    <2>2. Table(revoked', Callbacks)
      BY <1>10, TablesTyped, 0 \in Nat DEF RefuseSignIn
    <2> QED
      BY <1>10, <2>1, <2>2 DEF RefuseSignIn, DashboardTypeOK, rows, authCenter
  <1>11. ASSUME NEW c \in Callbacks, SignInFails(c) PROVE DashboardTypeOK'
    <2>1. callback' \in [Callbacks -> CallbackType]
      BY <1>11, CallbackTyped DEF SignInFails, UnderWay, Ended
    <2> QED
      BY <1>11, <2>1 DEF SignInFails, DashboardTypeOK, rows, authCenter
  <1>12. ASSUME NEW r \in Requests, NEW s \in Callbacks, NEW kind \in Kinds, Arrive(r, s, kind)
       PROVE DashboardTypeOK'
    <2>1. RequestAt("arrived", kind, s, 0, s \in signedOut) \in RequestType
      BY DEF RequestAt, RequestType
    <2> QED
      BY <1>12, <2>1, RequestTyped DEF Arrive, DashboardTypeOK, rows, authCenter
  <1>13. ASSUME NEW r \in Requests, Expired(r) PROVE DashboardTypeOK'
    <2>1. request' \in [Requests -> RequestType]
      BY <1>13, RequestTyped, OverTyped DEF Expired, Ended
    <2> QED
      BY <1>13, <2>1 DEF Expired, DashboardTypeOK, rows, authCenter
  <1>14. ASSUME NEW r \in Requests, AuthorizeCached(r) PROVE DashboardTypeOK'
    <2>1. request' \in [Requests -> RequestType]
      BY <1>14, RequestTyped, RequestInProgress DEF AuthorizeCached, InProgress, Checked, DashboardTypeOK
    <2> QED
      BY <1>14, <2>1 DEF AuthorizeCached, DashboardTypeOK, rows, authCenter
  <1>15. ASSUME NEW r \in Requests, AskAuthCenter(r) PROVE DashboardTypeOK'
    <2>1. request' \in [Requests -> RequestType]
      BY <1>15, RequestTyped, RequestInProgress DEF AskAuthCenter, InProgress, Checked, DashboardTypeOK
    <2>2. Table(verdicts', Callbacks)
      BY <1>15, WithoutRow DEF AskAuthCenter, DashboardTypeOK
    <2> QED
      BY <1>15, <2>1, <2>2 DEF AskAuthCenter, DashboardTypeOK, rows, authCenter
  <1>16. ASSUME NEW r \in Requests, AnswerRequest(r) PROVE DashboardTypeOK'
    <2>1. request' \in [Requests -> RequestType]
      <3>1. \A at \in {"accepted", "denied"} :
               [request EXCEPT ![r] = [@ EXCEPT !.at = at]] \in [Requests -> RequestType]
        BY <1>16, RequestTyped, RequestInProgress DEF AnswerRequest, InProgress, Checked
      <3>2. CASE Accepts(request[r].session)
        BY <1>16, <3>1, <3>2 DEF AnswerRequest
      <3>3. CASE ~Accepts(request[r].session)
        BY <1>16, <3>1, <3>3 DEF AnswerRequest
      <3> QED
        BY <3>2, <3>3
    <2>2. Table(vouched', Callbacks)
      <3>1. request[r].session \in Callbacks
        BY <1>16, RequestInProgress DEF AnswerRequest, InProgress, Checked
      <3>2. Table(With(vouched, request[r].session, now), Callbacks) /\ Table(vouched, Callbacks)
        BY <3>1, TablesTyped DEF DashboardTypeOK
      <3> QED
        BY <1>16, <3>2 DEF AnswerRequest
    <2> QED
      BY <1>16, <2>1, <2>2 DEF AnswerRequest, DashboardTypeOK, rows, authCenter
  <1>17. ASSUME NEW r \in Requests, Authorize(r) PROVE DashboardTypeOK'
    <2>1. request' \in [Requests -> RequestType]
      BY <1>17, RequestTyped, RequestInProgress DEF Authorize, InProgress, Checked, DashboardTypeOK
    <2>2. Table(verdicts', Callbacks)
      BY <1>17, TablesTyped, RequestInProgress DEF Authorize, InProgress, Checked
    <2>3. holder' \in Requests \cup {NoRequest}
      BY <1>17 DEF Authorize, Released
    <2> QED
      BY <1>17, <2>1, <2>2, <2>3 DEF Authorize, DashboardTypeOK, rows, authCenter
  <1>18. ASSUME NEW r \in Requests, Refuse(r) PROVE DashboardTypeOK'
    <2>1. request' \in [Requests -> RequestType]
      BY <1>18, RequestTyped, OverTyped DEF Refuse, Ended
    <2> QED
      BY <1>18, <2>1 DEF Refuse, DashboardTypeOK, rows, authCenter
  <1>19. ASSUME NEW r \in Requests, Serve(r) PROVE DashboardTypeOK'
    <2>1. request' \in [Requests -> RequestType]
      BY <1>19, RequestTyped, OverTyped DEF Serve, Ended
    <2> QED
      BY <1>19, <2>1 DEF Serve, DashboardTypeOK, rows, authCenter
  <1>20. ASSUME NEW r \in Requests, SignOut(r) PROVE DashboardTypeOK'
    <2>1. request' \in [Requests -> RequestType]
      BY <1>20, RequestTyped, RequestInProgress, OverTyped
         DEF SignOut, InProgress, Checked, Ended, DashboardTypeOK
    <2>2. Table(sessions', Callbacks)
      <3>1. Table(sessions, Callbacks) /\ Table(Without(sessions, request[r].session), Callbacks)
        BY WithoutRow DEF DashboardTypeOK
      <3> QED
        BY <1>20, <3>1 DEF SignOut, SessionsAfter
    <2>3. request[r].session \in Callbacks
      BY <1>20, RequestInProgress DEF SignOut, InProgress
    <2> QED
      BY <1>20, <2>1, <2>2, <2>3 DEF SignOut, DashboardTypeOK, rows, authCenter
  <1>21. ASSUME NEW r \in Requests, RevokeToken(r) PROVE DashboardTypeOK'
    <2>1. request' \in [Requests -> RequestType]
      BY <1>21, RequestTyped, OverTyped DEF RevokeToken, Ended
    <2>2. request[r].session \in Callbacks
      BY <1>21, RequestInProgress DEF RevokeToken, InProgress
    <2>3. Table(revoked', Callbacks)
      BY <1>21, <2>2, TablesTyped, 0 \in Nat DEF RevokeToken
    <2> QED
      BY <1>21, <2>1, <2>3 DEF RevokeToken, DashboardTypeOK, rows, authCenter
  <1>22. ASSUME ChangeGrant PROVE DashboardTypeOK'
    BY <1>22 DEF ChangeGrant, DashboardTypeOK, rows
  <1>23. ASSUME NEW c \in Callbacks, Evict(c) PROVE DashboardTypeOK'
    BY <1>23, WithoutRow DEF Evict, DashboardTypeOK, rows, authCenter
  <1>24. ASSUME Tick PROVE DashboardTypeOK'
    BY <1>24 DEF Tick, DashboardTypeOK, rows, authCenter
  <1>25. ASSUME ServerCrashes PROVE DashboardTypeOK'
    <2>1. callback' \in [Callbacks -> CallbackType]
      BY <1>25 DEF ServerCrashes, DashboardTypeOK, CallbackType, CallbackAt, Ended
    <2>2. request' \in [Requests -> RequestType]
      BY <1>25, OverTyped DEF ServerCrashes, DashboardTypeOK, Ended
    <2> QED
      BY <1>25, <2>1, <2>2, EmptyTable DEF ServerCrashes, DashboardTypeOK, rows, authCenter
  <1>26. CASE UNCHANGED dashboardVars
    BY <1>26 DEF dashboardVars, DashboardTypeOK, rows, authCenter
  <1> QED
    BY <1>1, <1>2, <1>3, <1>4, <1>5, <1>6, <1>7, <1>8, <1>9, <1>10, <1>11, <1>12, <1>13, <1>14, <1>15, <1>16, <1>17, <1>18, <1>19, <1>20, <1>21, <1>22, <1>23, <1>24, <1>25, <1>26
       DEF DashboardNext, CallbackStep, RequestStep

\* Every variable keeps its type.
THEOREM DashboardTypeCorrect == DashboardSpec => []DashboardTypeOK
  <1> QED
    BY DashboardTypeInit, DashboardTypeStep, PTL DEF DashboardSpec

-----------------------------------------------------------------------------
(* The mutex.                                                              *)

\* What a request does to the others.
LEMMA OthersStay ==
    ASSUME DashboardTypeOK, NEW r \in Requests, NEW k, request' = [request EXCEPT ![r] = k]
    PROVE  request'[r] = k /\ \A q \in Requests \ {r} : request'[q] = request[q]
  BY DEF DashboardTypeOK

\* Callbacks, auth-center and the clock leave the requests and the mutex alone.
LEMMA RequestsAlone ==
    ASSUME \/ \E l \in Logins : StartLogin(l)
           \/ \E c \in Callbacks : CallbackStep(c) \/ Evict(c)
           \/ ChangeGrant \/ Tick \/ UNCHANGED dashboardVars
    PROVE  UNCHANGED <<holder, request>>
  BY DEF StartLogin, CallbackStep, FinishLogin, ErrorReturned, IssueToken, ReceiveToken,
         AnswerCallback, Admit, CreateSession, CreateFails, RefuseSignIn, SignInFails, Evict,
         ChangeGrant, Tick, dashboardVars

\* Nobody holds the mutex at the start,
THEOREM MutexInit == DashboardInit => MutexIsGivenBack
  BY DEF DashboardInit, MutexIsGivenBack, DbFree, Unsent

\* and whoever takes it gives it back.
THEOREM MutexStep ==
    DashboardTypeOK /\ MutexIsGivenBack /\ [DashboardNext]_dashboardVars => MutexIsGivenBack'
  <1> SUFFICES ASSUME DashboardTypeOK, MutexIsGivenBack, [DashboardNext]_dashboardVars
               PROVE  MutexIsGivenBack'
    OBVIOUS
  <1> DEFINE Asking == {"asking", "accepted", "denied"}
  <1>1. CASE \/ \E l \in Logins : StartLogin(l)
             \/ \E c \in Callbacks : CallbackStep(c) \/ Evict(c)
             \/ ChangeGrant \/ Tick \/ UNCHANGED dashboardVars
    BY <1>1, RequestsAlone DEF MutexIsGivenBack, DbFree
  <1>2. ASSUME NEW r \in Requests, NEW k, request' = [request EXCEPT ![r] = k],
               holder' = holder, k.at \notin Asking, request[r].at \notin Asking
        PROVE  MutexIsGivenBack'
    BY <1>2, OthersStay, DashboardAssumption DEF MutexIsGivenBack, DbFree, DashboardTypeOK
  <1>3. ASSUME NEW r \in Requests, NEW s \in Callbacks, NEW kind \in Kinds, Arrive(r, s, kind)
        PROVE  MutexIsGivenBack'
    BY <1>2, <1>3 DEF Arrive, RequestAt
  <1>4. ASSUME NEW r \in Requests, Expired(r) \/ Serve(r) \/ RevokeToken(r)
        PROVE  MutexIsGivenBack'
    BY <1>2, <1>4 DEF Expired, Serve, RevokeToken, Over
  <1>5. ASSUME NEW r \in Requests, AuthorizeCached(r) PROVE MutexIsGivenBack'
    <2> DEFINE k == [request[r] EXCEPT !.at = "authorized", !.asked = now]
    <2>0. Same(k, r, "authorized", now)
      BY <1>5, RequestInProgress DEF AuthorizeCached, InProgress
    <2>1. k.at = "authorized" /\ request' = [request EXCEPT ![r] = k]
      BY <1>5, <2>0 DEF AuthorizeCached, Same
    <2> HIDE DEF k
    <2> QED
      BY <1>2, <1>5, <2>1 DEF AuthorizeCached
  <1>6. ASSUME NEW r \in Requests, SignOut(r) PROVE MutexIsGivenBack'
    <2>1. [request[r] EXCEPT !.at = "revoking"].at = "revoking"
      BY <1>6, RequestInProgress DEF SignOut, InProgress, Same
    <2> QED
      BY <1>2, <1>6, <2>1 DEF SignOut, Over
  <1>7. ASSUME NEW r \in Requests, AskAuthCenter(r) PROVE MutexIsGivenBack'
    <2> DEFINE k == [request[r] EXCEPT !.at = "asking", !.asked = now]
    <2>0. Same(k, r, "asking", now)
      BY <1>7, RequestInProgress DEF AskAuthCenter, InProgress
    <2>1. k.at = "asking" /\ request' = [request EXCEPT ![r] = k]
      BY <1>7, <2>0 DEF AskAuthCenter, Same
    <2> HIDE DEF k
    <2> QED
      <3>1. request'[r].at = "asking" /\ \A q \in Requests \ {r} : request'[q] = request[q]
        BY <2>1, OthersStay
      <3>2. holder' = r /\ \A q \in Requests : request[q].at \notin Asking
        BY <1>7, DashboardAssumption DEF AskAuthCenter, MutexIsGivenBack, DbFree
      <3> QED
        BY <3>1, <3>2 DEF MutexIsGivenBack, DbFree
  <1>8. ASSUME NEW r \in Requests, AnswerRequest(r) PROVE MutexIsGivenBack'
    <2>1. \A at \in Asking : [request[r] EXCEPT !.at = at].at = at
      BY <1>8, RequestInProgress DEF AnswerRequest, InProgress, Checked, Same
    <2>2. PICK at \in Asking : request' = [request EXCEPT ![r] = [@ EXCEPT !.at = at]]
      <3>1. CASE Accepts(request[r].session)
        BY <1>8, <3>1 DEF AnswerRequest
      <3>2. CASE ~Accepts(request[r].session)
        BY <1>8, <3>2 DEF AnswerRequest
      <3> QED
        BY <3>1, <3>2
    <2>3. holder = r /\ holder' = holder
      BY <1>8 DEF AnswerRequest, MutexIsGivenBack
    <2> QED
      BY <2>1, <2>2, <2>3, OthersStay DEF MutexIsGivenBack, DbFree
  <1>9. ASSUME NEW r \in Requests, Authorize(r) PROVE MutexIsGivenBack'
    <2>1. [request[r] EXCEPT !.at = "authorized"].at = "authorized"
      BY <1>9, RequestInProgress DEF Authorize, InProgress, Checked, Same
    <2>2. holder = r /\ holder' = NoRequest
      BY <1>9 DEF Authorize, Released, MutexIsGivenBack
    <2> QED
      BY <1>9, <2>1, <2>2, OthersStay DEF Authorize, MutexIsGivenBack, DbFree
  <1>10. ASSUME NEW r \in Requests, Refuse(r) PROVE MutexIsGivenBack'
    <2>1. holder = r /\ holder' = NoRequest
      BY <1>10 DEF Refuse, MutexIsGivenBack
    <2> QED
      <3>1. /\ request'[r] = Over("refused")
            /\ \A q \in Requests \ {r} : request'[q] = request[q]
        BY <1>10, OthersStay DEF Refuse
      <3>2. \A q \in Requests : request'[q].at \notin Asking
        BY <2>1, <3>1 DEF MutexIsGivenBack, Over
      <3> QED
        BY <2>1, <3>2 DEF MutexIsGivenBack, DbFree
  <1>11. CASE ServerCrashes
    BY <1>11 DEF ServerCrashes, MutexIsGivenBack, DbFree, Over, Ended
  <1> QED
    BY <1>1, <1>3, <1>4, <1>5, <1>6, <1>7, <1>8, <1>9, <1>10, <1>11
       DEF DashboardNext, RequestStep

\* The mutex is kept only over a question to auth-center.
THEOREM MutexCorrect == DashboardSpec => []MutexIsGivenBack
  <1> QED
    BY DashboardTypeCorrect, MutexInit, MutexStep, PTL DEF DashboardSpec

-----------------------------------------------------------------------------
(* One sign-in per login.                                                  *)

\* A redeemed login is no longer in the table, and never comes back to it.
SignInInv ==
    /\ DOMAIN logins \subseteq started
    /\ OneSignInPerLogin
    /\ \A c \in Callbacks :
          /\ Redeemed(c) => callback[c].login \in started \ DOMAIN logins
          /\ callback[c].at = "unsent" => c \notin DOMAIN tokens

\* Requests, auth-center and the clock leave logins, callbacks and tokens alone.
LEMMA CallbacksAlone ==
    ASSUME \/ \E r \in Requests : RequestStep(r)
           \/ \E r \in Requests, s \in Callbacks, kind \in Kinds : Arrive(r, s, kind)
           \/ \E c \in Callbacks : Evict(c)
           \/ ChangeGrant \/ Tick \/ UNCHANGED dashboardVars
    PROVE  UNCHANGED <<started, logins, callback, tokens>>
  BY DEF RequestStep, Expired, AuthorizeCached, AskAuthCenter, AnswerRequest, Authorize,
         Refuse, Serve, SignOut, RevokeToken, Arrive, Evict, ChangeGrant, Tick, dashboardVars,
         rows, authCenter

\* What a callback does to the others, and that it keeps its login.
LEMMA OtherCallbacksStay ==
    ASSUME DashboardTypeOK, NEW c \in Callbacks, NEW at,
           \/ callback' = [callback EXCEPT ![c].at = at]
           \/ callback' = Answered(c, at)
           \/ \E e, a : callback' = [callback EXCEPT ![c] = CallbackAt(at, callback[c].login, e, a)]
    PROVE  /\ callback'[c].at = at /\ callback'[c].login = callback[c].login
           /\ \A d \in Callbacks \ {c} : callback'[d] = callback[d]
  BY DEF DashboardTypeOK, CallbackType, Answered, CallbackAt

\* No login is claimed at the start,
THEOREM SignInInit == DashboardInit => SignInInv
  <1> SUFFICES ASSUME DashboardInit PROVE SignInInv
    OBVIOUS
  <1>1. DOMAIN logins = {} /\ DOMAIN tokens = {}
    BY DEF DashboardInit
  <1>2. \A c \in Callbacks : callback[c].at = "unsent"
    BY DEF DashboardInit, CallbackAt
  <1>3. \A c \in Callbacks : ~Redeemed(c)
    BY <1>1, <1>2 DEF Redeemed, UnderWay
  <1> QED
    BY <1>1, <1>3 DEF SignInInv, OneSignInPerLogin

\* and every step keeps claims apart.
THEOREM SignInStep ==
    DashboardTypeOK /\ SignInInv /\ [DashboardNext]_dashboardVars => SignInInv'
  <1> SUFFICES ASSUME DashboardTypeOK, SignInInv, [DashboardNext]_dashboardVars
               PROVE  SignInInv'
    OBVIOUS
  <1> DEFINE Kept(c) == callback'[c].login = callback[c].login /\ (Redeemed(c)' => Redeemed(c))
                        /\ (callback'[c].at = "unsent" => c \notin DOMAIN tokens')
  <1>1. ASSUME \A c \in Callbacks : Kept(c), UNCHANGED <<started, logins>>
        PROVE  SignInInv'
    BY <1>1 DEF SignInInv, OneSignInPerLogin
  <1>2. CASE \/ \E r \in Requests : RequestStep(r)
             \/ \E r \in Requests, s \in Callbacks, kind \in Kinds : Arrive(r, s, kind)
             \/ \E c \in Callbacks : Evict(c)
             \/ ChangeGrant \/ Tick \/ UNCHANGED dashboardVars
    BY <1>1, <1>2, CallbacksAlone DEF SignInInv, Redeemed
  <1>3. ASSUME NEW l \in Logins, StartLogin(l) PROVE SignInInv'
    <2>0. Table(logins, Logins) /\ now \in Nat
      BY DEF DashboardTypeOK
    <2>1. DOMAIN With(logins, l, now) = DOMAIN logins \cup {l} /\ Table(With(logins, l, now), Logins)
      BY <2>0, WithRow
    <2>2. DOMAIN logins' \subseteq DOMAIN logins \cup {l}
      BY <1>3, <2>0, <2>1, CleanedRows DEF StartLogin
    <2>3. \A c \in Callbacks : Redeemed(c)' <=> Redeemed(c)
      BY <1>3 DEF StartLogin, Redeemed, authCenter
    <2>4. l \notin started /\ started' = started \cup {l} /\ callback' = callback /\ tokens' = tokens
      BY <1>3 DEF StartLogin, authCenter
    <2> QED
      BY <2>2, <2>3, <2>4 DEF SignInInv, OneSignInPerLogin
  <1>4. ASSUME NEW c \in Callbacks, NEW l \in Logins, FinishLogin(c, l) PROVE SignInInv'
    <2>1. \/ DOMAIN logins' = DOMAIN logins \ {l}
          \/ logins' = logins /\ callback'[c].at = "failed"
      <3>1. DOMAIN Without(logins, l) = DOMAIN logins \ {l}
        <4>1. Table(logins, Logins)
          BY DEF DashboardTypeOK
        <4> QED
          BY <4>1, WithoutRow
      <3> QED
        <4>1. CASE logins' = LoginsAfter(l)
          BY <3>1, <4>1 DEF LoginsAfter
        <4>2. CASE callback' = [callback EXCEPT ![c] = CallbackAt("failed", l, 0, 0)] /\ logins' = logins
          <5>1. callback'[c] = CallbackAt("failed", l, 0, 0)
            BY <4>2 DEF DashboardTypeOK
          <5> QED
            BY <4>2, <5>1 DEF CallbackAt
        <4> QED
          BY <1>4, <4>1, <4>2 DEF FinishLogin
    <2>2. /\ callback'[c].login = l /\ callback'[c].at \in {"exchanging", "failed"}
          /\ callback'[c].at = "exchanging" => l \in DOMAIN logins
          /\ \A d \in Callbacks \ {c} : callback'[d] = callback[d]
      BY <1>4 DEF FinishLogin, CallbackAt, DashboardTypeOK
    <2>3. tokens' = tokens /\ started' = started /\ l \in started /\ c \notin DOMAIN tokens
      BY <1>4 DEF FinishLogin, SignInInv, authCenter
    <2>4. Redeemed(c)' => l \in DOMAIN logins /\ DOMAIN logins' = DOMAIN logins \ {l}
      BY <2>1, <2>2, <2>3 DEF Redeemed, UnderWay
    <2>5. \A d \in Callbacks \ {c} : Redeemed(d)' <=> Redeemed(d)
      BY <2>2, <2>3 DEF Redeemed
    <2>6. \A d \in Callbacks \ {c} : Redeemed(d) => callback[d].login \in started \ DOMAIN logins
      BY DEF SignInInv
    <2>7. OneSignInPerLogin'
      BY <2>2, <2>4, <2>5, <2>6 DEF OneSignInPerLogin, SignInInv
    <2> QED
      BY <2>1, <2>2, <2>3, <2>4, <2>5, <2>6, <2>7 DEF SignInInv
  <1>5. ASSUME NEW c \in Callbacks, NEW at \in UnderWay \cup {"failed", "signed in"},
               callback'[c].at = at, callback'[c].login = callback[c].login,
               \A d \in Callbacks \ {c} : callback'[d] = callback[d],
               callback[c].at \in UnderWay \/ at = "failed",
               UNCHANGED <<started, logins>>,
               \/ tokens' = tokens
               \/ callback[c].at \in UnderWay /\ DOMAIN tokens' = DOMAIN tokens \cup {c}
        PROVE  SignInInv'
    <2>1. \A d \in Callbacks \ {c} : Kept(d)
      BY <1>5 DEF Redeemed, SignInInv
    <2>2. Kept(c)
      BY <1>5 DEF Redeemed, UnderWay
    <2> QED
      BY <1>1, <1>5, <2>1, <2>2
  <1>6. ASSUME NEW c \in Callbacks, ErrorReturned(c) PROVE SignInInv'
    BY <1>5, <1>6, OtherCallbacksStay DEF ErrorReturned, rows, authCenter
  <1>7. ASSUME NEW c \in Callbacks, IssueToken(c) PROVE SignInInv'
    <2>1. DOMAIN tokens' = DOMAIN tokens \cup {c}
      BY <1>7, TablesTyped DEF IssueToken, With
    <2> QED
      BY <1>5, <1>7, <2>1, OtherCallbacksStay DEF IssueToken, rows, UnderWay
  <1>8. ASSUME NEW c \in Callbacks, ReceiveToken(c) PROVE SignInInv'
    BY <1>5, <1>8, OtherCallbacksStay DEF ReceiveToken, rows, authCenter, UnderWay
  <1>9. ASSUME NEW c \in Callbacks, AnswerCallback(c) PROVE SignInInv'
    <2>1. CASE Accepts(c)
      BY <1>5, <1>9, <2>1, OtherCallbacksStay DEF AnswerCallback, rows, authCenter, UnderWay
    <2>2. CASE ~Accepts(c)
      BY <1>5, <1>9, <2>2, OtherCallbacksStay DEF AnswerCallback, rows, authCenter, UnderWay
    <2> QED
      BY <2>1, <2>2
  <1>10. ASSUME NEW c \in Callbacks, Admit(c) PROVE SignInInv'
    BY <1>5, <1>10, OtherCallbacksStay DEF Admit, rows, authCenter, UnderWay
  <1>11. ASSUME NEW c \in Callbacks, CreateSession(c) PROVE SignInInv'
    BY <1>5, <1>11, OtherCallbacksStay DEF CreateSession, authCenter, UnderWay
  <1>12. ASSUME NEW c \in Callbacks, CreateFails(c) PROVE SignInInv'
    BY <1>5, <1>12, OtherCallbacksStay DEF CreateFails, authCenter, UnderWay
  <1>13. ASSUME NEW c \in Callbacks, RefuseSignIn(c) PROVE SignInInv'
    <2>1. callback' = Answered(c, "failed") /\ callback[c].at = "denied"
      BY <1>13 DEF RefuseSignIn
    <2>2. UNCHANGED <<started, logins, tokens>>
      BY <1>13 DEF RefuseSignIn, rows
    <2> QED
      BY <1>5, <2>1, <2>2, OtherCallbacksStay DEF UnderWay
  <1>14. ASSUME NEW c \in Callbacks, SignInFails(c) PROVE SignInInv'
    BY <1>5, <1>14, OtherCallbacksStay DEF SignInFails, rows, authCenter, UnderWay
  <1>15. CASE ServerCrashes
    <2>1. UNCHANGED <<started, logins, tokens>>
      BY <1>15 DEF ServerCrashes, rows, authCenter
    <2>2. ASSUME NEW c \in Callbacks PROVE Kept(c)
      <3>1. CASE callback[c].at \in Ended
        BY <1>15, <2>1, <3>1 DEF ServerCrashes, Redeemed, SignInInv
      <3>2. CASE callback[c].at \notin Ended
        BY <1>15, <2>1, <3>2 DEF ServerCrashes, Redeemed, CallbackAt, UnderWay
      <3> QED
        BY <3>1, <3>2
    <2> QED
      BY <1>1, <2>1, <2>2
  <1> QED
    BY <1>2, <1>3, <1>4, <1>6, <1>7, <1>8, <1>9, <1>10, <1>11, <1>12, <1>13, <1>14, <1>15
       DEF DashboardNext, CallbackStep

\* A login is redeemed once, however often its callback comes.
THEOREM OneSignInCorrect == DashboardSpec => []OneSignInPerLogin
  <1>1. SignInInv => OneSignInPerLogin
    BY DEF SignInInv
  <1> QED
    BY <1>1, DashboardTypeCorrect, SignInInit, SignInStep, PTL DEF DashboardSpec

-----------------------------------------------------------------------------
(* Sign-outs.                                                              *)

\* The half of SignOutTakesHold that is about rows.
LateNotLookedUp == \A r \in Requests : request[r].at \in Checked => ~request[r].late

\* Whoever signed out was signed in and has no row, and requests under way are of
\* sessions that once were.
SignOutInv ==
    /\ \A s \in signedOut : s \notin DOMAIN sessions /\ callback[s].at = "signed in"
    /\ \A r \in Requests : request[r].at \in InProgress =>
          /\ callback[request[r].session].at = "signed in"
          /\ request[r].late => request[r].session \in signedOut
    /\ LateNotLookedUp

\* The sessions with a row more, or without one.
LEMMA SessionRows ==
    ASSUME DashboardTypeOK, NEW c \in Callbacks, NEW t \in Nat
    PROVE  /\ Table(With(sessions, c, t), Callbacks)
           /\ DOMAIN With(sessions, c, t) = DOMAIN sessions \cup {c}
           /\ DOMAIN Without(sessions, c) = DOMAIN sessions \ {c}
  <1>1. Table(sessions, Callbacks)
    BY DEF DashboardTypeOK
  <1>2. Table(With(sessions, c, t), Callbacks) /\ DOMAIN With(sessions, c, t) = DOMAIN sessions \cup {c}
    BY <1>1 DEF Table, With
  <1>3. DOMAIN Without(sessions, c) = DOMAIN sessions \ {c}
    BY <1>1, WithoutRow
  <1> QED
    BY <1>2, <1>3

\* A callback that takes a step is neither over nor signed in, and adds no row but
\* its own.
LEMMA CallbackMove ==
    ASSUME DashboardTypeOK, NEW c \in Callbacks, CallbackStep(c)
    PROVE  /\ callback[c].at \in UnderWay \cup {"unsent"}
           /\ \A d \in Callbacks \ {c} : callback'[d] = callback[d]
           /\ UNCHANGED <<request, signedOut>>
           /\ DOMAIN sessions' \subseteq DOMAIN sessions \cup {c}
  <1>1. CASE \E l \in Logins : FinishLogin(c, l)
    BY <1>1 DEF FinishLogin, DashboardTypeOK, UnderWay
  <1>2. CASE ErrorReturned(c) \/ IssueToken(c) \/ ReceiveToken(c) \/ AnswerCallback(c)
             \/ Admit(c) \/ RefuseSignIn(c) \/ SignInFails(c)
    BY <1>2 DEF ErrorReturned, IssueToken, ReceiveToken, AnswerCallback, Admit, RefuseSignIn,
                SignInFails, Answered, DashboardTypeOK, UnderWay, rows
  <1>3. /\ Table(With(sessions, c, callback[c].expires), Callbacks)
        /\ DOMAIN With(sessions, c, callback[c].expires) = DOMAIN sessions \cup {c}
    <2>1. callback[c].expires \in Nat
      BY CallbackTimes
    <2> QED
      BY <2>1, SessionRows
  <1>4. DOMAIN SessionsCleaned(With(sessions, c, callback[c].expires)) \subseteq DOMAIN sessions \cup {c}
    BY <1>3, CleanedRows DEF DashboardTypeOK
  <1>5. CASE CreateSession(c)
    BY <1>4, <1>5 DEF CreateSession, Answered, DashboardTypeOK, UnderWay
  <1>6. CASE CreateFails(c)
    BY <1>3, <1>6 DEF CreateFails, Answered, DashboardTypeOK, UnderWay
  <1> QED
    BY <1>1, <1>2, <1>5, <1>6 DEF CallbackStep

\* A request that takes a step stays that request, and is only let on to auth-center
\* or the cache when it has a row.
LEMMA RequestMove ==
    ASSUME DashboardTypeOK, NEW r \in Requests, RequestStep(r)
    PROVE  /\ request[r].at \in InProgress /\ callback' = callback
           /\ \A q \in Requests \ {r} : request'[q] = request[q]
           /\ request'[r].at \in InProgress =>
                 request'[r].session = request[r].session /\ request'[r].late = request[r].late
           /\ request'[r].at \in Checked =>
                 request[r].at \in Checked \/ request[r].session \in DOMAIN sessions
           /\ \/ UNCHANGED <<sessions, signedOut>>
              \/ /\ DOMAIN sessions' = DOMAIN sessions \ {request[r].session}
                 /\ signedOut' = signedOut \cup {request[r].session}
  <1>1. ASSUME NEW at \in Ended, request' = [request EXCEPT ![r] = Over(at)]
        PROVE  /\ \A q \in Requests \ {r} : request'[q] = request[q]
               /\ request'[r].at \notin InProgress /\ request'[r].at \notin Checked
    <2>1. request'[r] = Over(at) /\ \A q \in Requests \ {r} : request'[q] = request[q]
      BY <1>1, OthersStay
    <2>2. Over(at).at = at
      BY DEF Over
    <2> QED
      BY <2>1, <2>2 DEF Ended, InProgress, Checked
  <1>2. ASSUME request[r].at \in InProgress, NEW at, NEW a,
               \/ request' = [request EXCEPT ![r] = [@ EXCEPT !.at = at]]
               \/ request' = [request EXCEPT ![r] = [@ EXCEPT !.at = at, !.asked = a]]
        PROVE  /\ \A q \in Requests \ {r} : request'[q] = request[q]
               /\ request'[r].at = at
               /\ request'[r].session = request[r].session /\ request'[r].late = request[r].late
    <2>1. Same([request[r] EXCEPT !.at = at], r, at, request[r].asked)
          /\ Same([request[r] EXCEPT !.at = at, !.asked = a], r, at, a)
      BY <1>2, RequestInProgress
    <2>2. CASE request' = [request EXCEPT ![r] = [@ EXCEPT !.at = at]]
      BY <2>1, <2>2, OthersStay DEF Same, DashboardTypeOK
    <2>3. CASE request' = [request EXCEPT ![r] = [@ EXCEPT !.at = at, !.asked = a]]
      BY <2>1, <2>3, OthersStay DEF Same, DashboardTypeOK
    <2> QED
      BY <1>2, <2>2, <2>3
  <1>3. CASE Expired(r)
    BY <1>1, <1>3 DEF Expired, Ended, InProgress, rows
  <1>4. CASE AuthorizeCached(r)
    BY <1>2, <1>4 DEF AuthorizeCached, InProgress, Resolves, rows
  <1>5. CASE AskAuthCenter(r)
    BY <1>2, <1>5 DEF AskAuthCenter, InProgress, Resolves, rows
  <1>6. CASE AnswerRequest(r)
    <2>1. CASE Accepts(request[r].session)
      BY <1>2, <1>6, <2>1 DEF AnswerRequest, InProgress, Checked, rows
    <2>2. CASE ~Accepts(request[r].session)
      BY <1>2, <1>6, <2>2 DEF AnswerRequest, InProgress, Checked, rows
    <2> QED
      BY <2>1, <2>2
  <1>7. CASE Authorize(r)
    BY <1>2, <1>7 DEF Authorize, InProgress, Checked, rows
  <1>8. CASE Refuse(r)
    BY <1>1, <1>8 DEF Refuse, Ended, InProgress, Checked, rows
  <1>9. CASE Serve(r)
    BY <1>1, <1>9 DEF Serve, Ended, InProgress, Checked, rows
  <1>10. CASE SignOut(r)
    <2> DEFINE s == request[r].session
    <2>1. /\ \/ UNCHANGED <<sessions, signedOut>>
             \/ DOMAIN sessions' = DOMAIN sessions \ {s} /\ signedOut' = signedOut \cup {s}
          /\ callback' = callback /\ request[r].at \in InProgress
      <3>1. request[r].at \in InProgress
        BY <1>10 DEF SignOut, InProgress
      <3>2. s \in Callbacks
        BY <3>1, RequestInProgress
      <3>3. DOMAIN Without(sessions, s) = DOMAIN sessions \ {s}
        BY <3>2, SessionRows, 0 \in Nat
      <3> QED
        BY <1>10, <3>1, <3>3 DEF SignOut, SessionsAfter
    <2>2. CASE Resolves(request[r].session)
      <3>1. request' = [request EXCEPT ![r] = [@ EXCEPT !.at = "revoking"]]
        BY <1>10, <2>2 DEF SignOut
      <3>2. /\ \A q \in Requests \ {r} : request'[q] = request[q]
            /\ request'[r].at = "revoking"
            /\ request'[r].session = s /\ request'[r].late = request[r].late
        BY <1>2, <2>1, <3>1
      <3> QED
        BY <2>1, <3>2 DEF Checked
    <2>3. CASE ~Resolves(request[r].session)
      BY <1>1, <1>10, <2>1, <2>3 DEF SignOut, Ended, InProgress, Checked
    <2> QED
      BY <2>2, <2>3
  <1>11. CASE RevokeToken(r)
    BY <1>1, <1>11 DEF RevokeToken, Ended, InProgress, rows
  <1> QED
    BY <1>3, <1>4, <1>5, <1>6, <1>7, <1>8, <1>9, <1>10, <1>11 DEF RequestStep

\* Logins and the rest of the world leave both sides alone.
LEMMA SidesAlone ==
    ASSUME \/ \E l \in Logins : StartLogin(l)
           \/ \E c \in Callbacks : Evict(c)
           \/ ChangeGrant \/ Tick \/ UNCHANGED dashboardVars
    PROVE  UNCHANGED <<sessions, callback, request, signedOut, tokens, vouched>>
  BY DEF StartLogin, Evict, ChangeGrant, Tick, dashboardVars, rows, authCenter

\* Nobody has signed out at the start,
THEOREM SignOutInit == DashboardInit => SignOutInv
  <1> SUFFICES ASSUME DashboardInit PROVE SignOutInv
    OBVIOUS
  <1>1. signedOut = {} /\ \A r \in Requests : request[r].at = "unsent"
    BY DEF DashboardInit, Unsent
  <1> QED
    BY <1>1 DEF SignOutInv, LateNotLookedUp, InProgress, Checked

\* and every step keeps signed-out sessions away.
THEOREM SignOutStep ==
    DashboardTypeOK /\ SignOutInv /\ [DashboardNext]_dashboardVars => SignOutInv'
  <1> SUFFICES ASSUME DashboardTypeOK, SignOutInv, [DashboardNext]_dashboardVars
               PROVE  SignOutInv'
    OBVIOUS
  <1>0. \A r \in Requests : request[r].at \in InProgress => request[r].session \in Callbacks
    BY RequestInProgress
  <1>1. CASE \/ \E l \in Logins : StartLogin(l)
             \/ \E c \in Callbacks : Evict(c)
             \/ ChangeGrant \/ Tick \/ UNCHANGED dashboardVars
    BY <1>1, SidesAlone DEF SignOutInv, LateNotLookedUp
  <1>2. ASSUME NEW c \in Callbacks, CallbackStep(c) PROVE SignOutInv'
    <2>1. \A d \in Callbacks : callback[d].at = "signed in" =>
              callback'[d].at = "signed in" /\ d # c
      BY <1>2, CallbackMove DEF UnderWay
    <2>2. signedOut \subseteq Callbacks
      BY DEF DashboardTypeOK
    <2> QED
      BY <1>0, <1>2, <2>1, <2>2, CallbackMove DEF SignOutInv, LateNotLookedUp
  <1>3. ASSUME NEW r \in Requests, RequestStep(r) PROVE SignOutInv'
    <2> DEFINE s == request[r].session
    <2>1. callback[s].at = "signed in" /\ (request[r].late => s \in signedOut)
      BY <1>3, RequestMove DEF SignOutInv
    <2>2. request[r].at \in Checked \/ s \in DOMAIN sessions => ~request[r].late
      BY <2>1 DEF SignOutInv, LateNotLookedUp
    <2>3. \A x \in signedOut' : x \notin DOMAIN sessions' /\ callback'[x].at = "signed in"
      <3>1. callback' = callback
        BY <1>3, RequestMove
      <3>2. CASE UNCHANGED <<sessions, signedOut>>
        BY <3>1, <3>2 DEF SignOutInv
      <3>3. CASE DOMAIN sessions' = DOMAIN sessions \ {s} /\ signedOut' = signedOut \cup {s}
        BY <2>1, <3>1, <3>3 DEF SignOutInv
      <3> QED
        BY <1>3, <3>2, <3>3, RequestMove
    <2>4. \A q \in Requests : request'[q].at \in InProgress =>
              /\ callback'[request'[q].session].at = "signed in"
              /\ request'[q].late => request'[q].session \in signedOut'
      BY <1>3, <2>1, RequestMove, ZenonT(60) DEF SignOutInv
    <2>5. \A q \in Requests : request'[q].at \in Checked => ~request'[q].late
      BY <1>3, <2>2, RequestMove DEF SignOutInv, LateNotLookedUp, InProgress
    <2> QED
      BY <2>3, <2>4, <2>5 DEF SignOutInv, LateNotLookedUp
  <1>4. ASSUME NEW r \in Requests, NEW s \in Callbacks, NEW kind \in Kinds, Arrive(r, s, kind)
        PROVE  SignOutInv'
    <2>0. PICK late \in BOOLEAN : late <=> s \in signedOut
      <3>1. CASE s \in signedOut
        BY <3>1
      <3>2. CASE s \notin signedOut
        BY <3>2
      <3> QED
        BY <3>1, <3>2
    <2>1. /\ request'[r] = RequestAt("arrived", kind, s, 0, late)
          /\ \A q \in Requests \ {r} : request'[q] = request[q]
      BY <1>4, <2>0, OthersStay DEF Arrive
    <2>2. UNCHANGED <<sessions, callback, signedOut>> /\ callback[s].at = "signed in"
      BY <1>4 DEF Arrive, rows
    <2>3. /\ request'[r].at = "arrived" /\ request'[r].session = s
          /\ request'[r].late = late
      BY <2>1 DEF RequestAt
    <2> QED
      BY <2>0, <2>1, <2>2, <2>3, ZenonT(60) DEF SignOutInv, LateNotLookedUp, Checked
  <1>5. CASE ServerCrashes
    <2>1. UNCHANGED <<sessions, signedOut>>
      BY <1>5 DEF ServerCrashes, rows
    <2>2. \A c \in Callbacks : callback[c].at = "signed in" => callback'[c].at = "signed in"
      BY <1>5 DEF ServerCrashes, Ended
    <2>3. \A r \in Requests : request'[r].at \notin InProgress
      BY <1>5 DEF ServerCrashes, Over, Ended, InProgress, Checked
    <2>4. signedOut \subseteq Callbacks
      BY DEF DashboardTypeOK
    <2> QED
      BY <2>1, <2>2, <2>3, <2>4 DEF SignOutInv, LateNotLookedUp, InProgress
  <1> QED
    BY <1>1, <1>2, <1>3, <1>4, <1>5 DEF DashboardNext

-----------------------------------------------------------------------------
(* What auth-center has vouched for.                                       *)

\* A token is accepted after it was issued and before it ends, and nobody issues
\* it again.
Accepted(s) ==
    /\ callback[s].at \in {"accepted", "admitted", "signed in", "failed"}
    /\ s \in DOMAIN tokens /\ vouched[s] <= now /\ vouched[s] < tokens[s]

\* A verdict is no older than the answer before it.
VerdictVouched(s) == s \in DOMAIN vouched /\ verdicts[s] <= vouched[s] + CacheTtl

CallbackVouched(c) ==
    /\ callback[c].at = "asking" => callback[c].asked <= now
    /\ callback[c].at = "accepted" => c \in DOMAIN vouched /\ callback[c].asked <= vouched[c]
    /\ callback[c].at = "admitted" => c \in DOMAIN vouched

RequestVouched(r) ==
    LET s == request[r].session
    IN  /\ request[r].at = "asking" => request[r].asked <= now
        /\ request[r].at = "accepted" => s \in DOMAIN vouched /\ request[r].asked <= vouched[s]
        /\ request[r].at = "authorized" =>
              s \in DOMAIN vouched /\ request[r].asked < vouched[s] + CacheTtl

VouchInv ==
    /\ \A s \in DOMAIN vouched : Accepted(s)
    /\ DOMAIN sessions \subseteq DOMAIN vouched
    /\ \A s \in DOMAIN verdicts : VerdictVouched(s)
    /\ \A c \in Callbacks : CallbackVouched(c)
    /\ \A r \in Requests : RequestVouched(r)

\* All times are numbers.
LEMMA Times ==
    ASSUME DashboardTypeOK
    PROVE  /\ now \in Nat
           /\ DOMAIN vouched \subseteq Callbacks /\ \A s \in DOMAIN vouched : vouched[s] \in Nat
           /\ DOMAIN verdicts \subseteq Callbacks /\ \A s \in DOMAIN verdicts : verdicts[s] \in Nat
           /\ DOMAIN tokens \subseteq Callbacks /\ \A s \in DOMAIN tokens : tokens[s] \in Nat
           /\ \A c \in Callbacks : callback[c].asked \in Nat
           /\ \A r \in Requests : request[r].at \in InProgress =>
                 request[r].asked \in Nat /\ request[r].session \in Callbacks
           /\ CacheTtl \in Nat /\ CacheTtl > 0
  <1>1. \A f \in {vouched, verdicts, tokens} :
           DOMAIN f \subseteq Callbacks /\ \A s \in DOMAIN f : f[s] \in Nat
    BY DEF DashboardTypeOK, Table
  <1>2. \A c \in Callbacks : callback[c].asked \in Nat
    BY CallbackTimes
  <1>3. \A r \in Requests : request[r].at \in InProgress =>
           request[r].asked \in Nat /\ request[r].session \in Callbacks
    BY RequestInProgress
  <1>4. now \in Nat /\ CacheTtl \in Nat /\ CacheTtl > 0
    BY DashboardAssumption DEF DashboardTypeOK
  <1> QED
    BY <1>1, <1>2, <1>3, <1>4

\* Answers only get later.
Later ==
    /\ now <= now' /\ DOMAIN vouched \subseteq DOMAIN vouched'
    /\ \A s \in DOMAIN vouched : vouched[s] <= vouched'[s]

\* It is enough to look at what a step changes.
LEMMA VouchFrame ==
    ASSUME DashboardTypeOK, DashboardTypeOK', VouchInv, Later,
           \A s \in DOMAIN vouched' : Accepted(s)',
           DOMAIN sessions' \subseteq DOMAIN vouched',
           \A s \in DOMAIN verdicts' :
               (s \in DOMAIN verdicts /\ verdicts'[s] = verdicts[s]) \/ VerdictVouched(s)',
           \A c \in Callbacks : callback'[c] = callback[c] \/ CallbackVouched(c)',
           \A r \in Requests : request'[r] = request[r] \/ RequestVouched(r)'
    PROVE  VouchInv'
  <1>1. ASSUME NEW s \in DOMAIN verdicts, verdicts'[s] = verdicts[s] PROVE VerdictVouched(s)'
    <2>1. s \in DOMAIN vouched /\ verdicts[s] <= vouched[s] + CacheTtl /\ vouched[s] <= vouched'[s]
      BY DEF VouchInv, VerdictVouched, Later
    <2>2. /\ verdicts[s] \in Nat /\ vouched[s] \in Nat /\ CacheTtl \in Nat
          /\ s \in DOMAIN vouched' /\ vouched'[s] \in Nat
      BY <2>1, Times DEF Later, DashboardTypeOK, Table
    <2> QED
      BY <1>1, <2>1, <2>2 DEF VerdictVouched
  <1>2. ASSUME NEW c \in Callbacks, callback'[c] = callback[c] PROVE CallbackVouched(c)'
    <2>1. CallbackVouched(c) /\ callback[c].asked \in Nat /\ now \in Nat /\ now' \in Nat /\ now <= now'
      BY Times DEF VouchInv, Later, DashboardTypeOK
    <2>2. c \in DOMAIN vouched => /\ c \in DOMAIN vouched' /\ vouched[c] <= vouched'[c]
                                  /\ vouched[c] \in Nat /\ vouched'[c] \in Nat
      BY Times DEF Later, DashboardTypeOK, Table
    <2> QED
      BY <1>2, <2>1, <2>2 DEF CallbackVouched
  <1>3. ASSUME NEW r \in Requests, request'[r] = request[r] PROVE RequestVouched(r)'
    <2> DEFINE s == request[r].session
    <2>1. RequestVouched(r) /\ now \in Nat /\ now' \in Nat /\ now <= now' /\ CacheTtl \in Nat
      BY Times DEF VouchInv, Later, DashboardTypeOK
    <2>2. s \in DOMAIN vouched => /\ s \in DOMAIN vouched' /\ vouched[s] <= vouched'[s]
                                  /\ vouched[s] \in Nat /\ vouched'[s] \in Nat
      BY Times DEF Later, DashboardTypeOK, Table
    <2>3. request[r].at \in InProgress => request[r].asked \in Nat
      BY Times
    <2> QED
      BY <1>3, <2>1, <2>2, <2>3 DEF RequestVouched, InProgress, Checked
  <1> QED
    BY <1>1, <1>2, <1>3 DEF VouchInv

\* The token stays as it was issued, and its callback where it was or further on.
StaysAccepted(s) ==
    /\ s \in DOMAIN tokens' /\ tokens'[s] = tokens[s]
    /\ callback'[s].at \in {"accepted", "admitted", "signed in", "failed"}

\* A step that asks nothing.
LEMMA NothingVouched ==
    ASSUME DashboardTypeOK, DashboardTypeOK', VouchInv, vouched' = vouched, now <= now',
           \A s \in DOMAIN vouched : StaysAccepted(s)
    PROVE  Later /\ \A s \in DOMAIN vouched' : Accepted(s)'
  <1>1. now \in Nat /\ now' \in Nat /\ \A s \in DOMAIN vouched : vouched[s] \in Nat
    BY Times DEF DashboardTypeOK
  <1>2. Later
    <2>1. \A s \in DOMAIN vouched : vouched[s] <= vouched'[s]
      BY <1>1
    <2> QED
      BY <1>1, <2>1 DEF Later
  <1>3. ASSUME NEW s \in DOMAIN vouched PROVE Accepted(s)'
    <2>1. vouched[s] <= now /\ vouched[s] < tokens[s]
      BY DEF VouchInv, Accepted
    <2>2. vouched'[s] = vouched[s] /\ vouched[s] <= now'
      BY <1>1, <2>1
    <2> QED
      BY <2>1, <2>2 DEF Accepted, StaysAccepted
  <1> QED
    BY <1>2, <1>3

\* A step that gets an accepting answer for s.
LEMMA OneVouched ==
    ASSUME DashboardTypeOK, DashboardTypeOK', VouchInv, NEW s \in Callbacks,
           vouched' = With(vouched, s, now), UNCHANGED <<now, tokens>>, Accepts(s),
           StaysAccepted(s), \A d \in Callbacks \ {s} : callback'[d] = callback[d]
    PROVE  /\ Later /\ \A x \in DOMAIN vouched' : Accepted(x)'
           /\ s \in DOMAIN vouched' /\ vouched'[s] = now
  <1>1. /\ DOMAIN vouched' = DOMAIN vouched \cup {s} /\ vouched'[s] = now
        /\ \A x \in DOMAIN vouched \ {s} : vouched'[x] = vouched[x]
    <2>1. Table(vouched, Callbacks) /\ now \in Nat
      BY DEF DashboardTypeOK
    <2> QED
      BY <2>1, WithRow
  <1>2. \A x \in DOMAIN vouched : vouched[x] \in Nat /\ vouched[x] <= now
    BY Times DEF VouchInv, Accepted
  <1>3. now \in Nat /\ now' = now
    BY Times
  <1>4. Later
    <2>1. ASSUME NEW x \in DOMAIN vouched PROVE vouched[x] <= vouched'[x]
      BY <1>1, <1>2
    <2>2. now <= now' /\ DOMAIN vouched \subseteq DOMAIN vouched'
      BY <1>1, <1>3
    <2> QED
      BY <2>1, <2>2 DEF Later
  <1>5. Accepted(s)'
    <2>1. s \in DOMAIN tokens' /\ vouched'[s] <= now' /\ vouched'[s] < tokens'[s]
      BY <1>1, <1>3, Times DEF Accepts
    <2> QED
      BY <2>1 DEF Accepted, StaysAccepted
  <1>6. ASSUME NEW x \in DOMAIN vouched \ {s} PROVE Accepted(x)'
    BY <1>1, <1>6, Times DEF VouchInv, Accepted
  <1> QED
    BY <1>1, <1>4, <1>5, <1>6

\* Logins, evictions, grants and the clock.
LEMMA VouchedAside ==
    ASSUME DashboardTypeOK, DashboardTypeOK', VouchInv,
           \/ \E l \in Logins : StartLogin(l)
           \/ \E c \in Callbacks : Evict(c)
           \/ ChangeGrant \/ Tick \/ UNCHANGED dashboardVars
    PROVE  VouchInv'
  <1>1. UNCHANGED <<sessions, callback, request, tokens, vouched>>
    BY SidesAlone
  <1>2. now <= now'
    BY Times DEF StartLogin, Evict, ChangeGrant, Tick, dashboardVars
  <1>3. \A s \in DOMAIN verdicts' : s \in DOMAIN verdicts /\ verdicts'[s] = verdicts[s]
    <2>1. ASSUME NEW c \in Callbacks, Evict(c)
          PROVE  \A s \in DOMAIN verdicts' : s \in DOMAIN verdicts /\ verdicts'[s] = verdicts[s]
      <3>1. Table(verdicts, Callbacks) /\ verdicts' = Without(verdicts, c)
        BY <2>1 DEF Evict, DashboardTypeOK
      <3>2. /\ DOMAIN Without(verdicts, c) = DOMAIN verdicts \ {c}
            /\ \A s \in DOMAIN verdicts \ {c} : Without(verdicts, c)[s] = verdicts[s]
        BY <3>1, WithoutRow
      <3> QED
        BY <3>1, <3>2
    <2>2. CASE UNCHANGED verdicts
      BY <2>2
    <2> QED
      BY <2>1, <2>2 DEF StartLogin, ChangeGrant, Tick, dashboardVars
  <1>4. Later /\ \A s \in DOMAIN vouched' : Accepted(s)'
    BY <1>1, <1>2, NothingVouched DEF VouchInv, Accepted, StaysAccepted
  <1> QED
    BY <1>1, <1>3, <1>4, VouchFrame DEF VouchInv

\* A crash takes verdicts away, and ends what waits for one.
LEMMA VouchedCrash ==
    ASSUME DashboardTypeOK, DashboardTypeOK', VouchInv, ServerCrashes
    PROVE  VouchInv'
  <1>1. UNCHANGED <<now, sessions, tokens, vouched>> /\ verdicts' = <<>>
    BY DEF ServerCrashes, rows, authCenter
  <1>2. ASSUME NEW c \in Callbacks
        PROVE  callback'[c] = callback[c] \/ callback'[c].at = "failed"
    BY DEF ServerCrashes, CallbackAt
  <1>3. ASSUME NEW r \in Requests
        PROVE  request'[r] = request[r] \/ request'[r].at = "refused"
    BY DEF ServerCrashes, Over
  <1>4. DOMAIN vouched \subseteq Callbacks /\ now <= now'
    BY <1>1, Times
  <1>5. Later /\ \A s \in DOMAIN vouched' : Accepted(s)'
    BY <1>1, <1>2, <1>4, NothingVouched DEF VouchInv, Accepted, StaysAccepted
  <1>6. \A c \in Callbacks : callback'[c] = callback[c] \/ CallbackVouched(c)'
    BY <1>2 DEF CallbackVouched
  <1>7. \A r \in Requests : request'[r] = request[r] \/ RequestVouched(r)'
    BY <1>3 DEF RequestVouched
  <1>8. DOMAIN verdicts' = {}
    BY <1>1
  <1> QED
    BY <1>1, <1>5, <1>6, <1>7, <1>8, VouchFrame DEF VouchInv

\* Where a callback is after its step: accepted before or not, it tells no tale.
Moved(c) ==
    /\ c \in DOMAIN vouched => StaysAccepted(c)
    /\ CallbackVouched(c)'

\* Callbacks, when nobody is vouched for.
LEMMA CallbackFrame ==
    ASSUME DashboardTypeOK, DashboardTypeOK', VouchInv, NEW c \in Callbacks, Moved(c),
           UNCHANGED <<now, vouched, request>>,
           \A d \in Callbacks \ {c} : callback'[d] = callback[d],
           \A d \in DOMAIN tokens \ {c} : d \in DOMAIN tokens' /\ tokens'[d] = tokens[d],
           DOMAIN sessions' \subseteq DOMAIN vouched,
           \A s \in DOMAIN verdicts' :
               (s \in DOMAIN verdicts /\ verdicts'[s] = verdicts[s]) \/ VerdictVouched(s)'
    PROVE  VouchInv'
  <1>1. ASSUME NEW s \in DOMAIN vouched PROVE StaysAccepted(s)
    <2>1. CASE s = c
      BY <2>1 DEF Moved
    <2>2. CASE s # c
      <3>1. s \in Callbacks /\ Accepted(s)
        BY Times DEF VouchInv
      <3> QED
        BY <2>2, <3>1 DEF Accepted, StaysAccepted
    <2> QED
      BY <2>1, <2>2
  <1>2. now <= now'
    BY Times
  <1>3. Later /\ \A s \in DOMAIN vouched' : Accepted(s)'
    BY <1>1, <1>2, NothingVouched
  <1>4. \A d \in Callbacks : callback'[d] = callback[d] \/ CallbackVouched(d)'
    BY DEF Moved
  <1> QED
    BY <1>3, <1>4, VouchFrame

\* A callback whose token was not accepted yet.
LEMMA NotYet ==
    ASSUME VouchInv, NEW c, callback[c].at \in {"unsent", "exchanging", "issued", "asking", "denied"}
    PROVE  c \notin DOMAIN vouched
  BY DEF VouchInv, Accepted

\* A step of a callback, which may get an answer, or keep its verdict.
LEMMA VouchedCallback ==
    ASSUME DashboardTypeOK, DashboardTypeOK', VouchInv, NEW c \in Callbacks, CallbackStep(c)
    PROVE  VouchInv'
  <1>1. /\ \A d \in Callbacks \ {c} : callback'[d] = callback[d]
        /\ request' = request
    BY CallbackMove
  <1>2. DOMAIN sessions \subseteq DOMAIN vouched /\ CallbackVouched(c)
    BY DEF VouchInv
  <1>3. ASSUME c \notin DOMAIN vouched,
               callback'[c].at \in {"exchanging", "issued", "denied", "failed"}
        PROVE  Moved(c)
    BY <1>3 DEF Moved, CallbackVouched
  <1>4. ASSUME tokens' = tokens, callback'[c].at \in {"failed", "signed in"}
        PROVE  Moved(c)
    BY <1>4 DEF Moved, CallbackVouched, StaysAccepted, VouchInv, Accepted
  <1>5. ASSUME NEW at, NEW l, NEW e, NEW a, callback' = [callback EXCEPT ![c] = CallbackAt(at, l, e, a)]
        PROVE  callback'[c].at = at /\ callback'[c].asked = a
    BY <1>5 DEF CallbackAt, DashboardTypeOK
  <1>6. ASSUME NEW at, callback' = [callback EXCEPT ![c].at = at]
        PROVE  callback'[c].at = at /\ callback'[c].asked = callback[c].asked
    BY <1>6 DEF DashboardTypeOK, CallbackType
  <1>7. ASSUME NEW l \in Logins, FinishLogin(c, l) PROVE VouchInv'
    <2>1. c \notin DOMAIN vouched
      BY <1>7, NotYet DEF FinishLogin
    <2>2. callback'[c].at \in {"exchanging", "failed"}
      BY <1>5, <1>7 DEF FinishLogin
    <2> QED
      BY <1>1, <1>2, <1>3, <1>7, <2>1, <2>2, CallbackFrame DEF FinishLogin, authCenter
  <1>8. CASE ErrorReturned(c) \/ RefuseSignIn(c) \/ SignInFails(c)
    <2>1. callback'[c].at = "failed"
      BY <1>5, <1>8 DEF ErrorReturned, RefuseSignIn, SignInFails, Answered
    <2>2. UNCHANGED <<now, sessions, verdicts, tokens, vouched>>
      BY <1>8 DEF ErrorReturned, RefuseSignIn, SignInFails, rows, authCenter
    <2> QED
      BY <1>1, <1>2, <1>4, <2>1, <2>2, CallbackFrame
  <1>9. CASE IssueToken(c)
    <2>1. c \notin DOMAIN vouched /\ callback'[c].at = "issued"
      <3>1. c \notin DOMAIN vouched
        BY <1>9, NotYet DEF IssueToken
      <3>2. callback' = [callback EXCEPT ![c].at = "issued"]
        BY <1>9 DEF IssueToken
      <3> QED
        BY <1>6, <3>1, <3>2
    <2>2. \A d \in DOMAIN tokens \ {c} : d \in DOMAIN tokens' /\ tokens'[d] = tokens[d]
      BY <1>9 DEF IssueToken, With
    <2> QED
      BY <1>1, <1>2, <1>3, <1>9, <2>1, <2>2, CallbackFrame DEF IssueToken, rows
  <1>10. CASE ReceiveToken(c)
    <2>1. c \notin DOMAIN vouched
      BY <1>10, NotYet DEF ReceiveToken
    <2>2. callback'[c].at = "asking" /\ callback'[c].asked = now
      BY <1>5, <1>10 DEF ReceiveToken
    <2>3. now <= now' /\ UNCHANGED <<now, sessions, verdicts, tokens, vouched>>
      BY <1>10, Times DEF ReceiveToken, rows, authCenter
    <2>4. Moved(c)
      BY <2>1, <2>2, <2>3 DEF Moved, CallbackVouched
    <2> QED
      BY <1>1, <1>2, <2>3, <2>4, CallbackFrame
  <1>11. CASE AnswerCallback(c)
    <2>1. callback[c].at = "asking" /\ UNCHANGED <<now, sessions, verdicts, tokens>>
      BY <1>11 DEF AnswerCallback, rows, authCenter
    <2>2. CASE Accepts(c)
      <3>1. vouched' = With(vouched, c, now) /\ callback'[c].at = "accepted"
            /\ callback'[c].asked = callback[c].asked
        BY <1>6, <1>11, <2>2 DEF AnswerCallback
      <3>2. StaysAccepted(c)
        BY <2>1, <2>2, <3>1 DEF StaysAccepted, Accepts
      <3>3. /\ Later /\ \A x \in DOMAIN vouched' : Accepted(x)'
            /\ c \in DOMAIN vouched' /\ vouched'[c] = now
        BY <1>1, <2>1, <2>2, <3>1, <3>2, OneVouched
      <3>4. CallbackVouched(c)'
        BY <1>2, <2>1, <3>1, <3>3 DEF CallbackVouched
      <3> QED
        BY <1>1, <1>2, <2>1, <3>3, <3>4, VouchFrame DEF Later
    <2>3. CASE ~Accepts(c)
      <3>1. callback'[c].at = "denied" /\ UNCHANGED vouched
        BY <1>6, <1>11, <2>3 DEF AnswerCallback
      <3> QED
        BY <1>1, <1>2, <1>3, <2>1, <3>1, NotYet, CallbackFrame
    <2> QED
      BY <2>2, <2>3
  <1>12. CASE Admit(c)
    <2>1. callback'[c].at = "admitted" /\ UNCHANGED <<now, sessions, tokens, vouched>>
      BY <1>6, <1>12 DEF Admit, rows, authCenter
    <2>2. c \in DOMAIN vouched /\ callback[c].asked <= vouched[c]
      BY <1>2, <1>12 DEF Admit, CallbackVouched
    <2>3. Moved(c)
      BY <2>1, <2>2 DEF Moved, CallbackVouched, StaysAccepted, VouchInv, Accepted
    <2>4. /\ verdicts'[c] = callback[c].asked + CacheTtl
          /\ \A s \in DOMAIN verdicts' \ {c} : s \in DOMAIN verdicts /\ verdicts'[s] = verdicts[s]
      BY <1>12 DEF Admit, Remembered, With
    <2>5. VerdictVouched(c)'
      <3>1. callback[c].asked \in Nat /\ vouched[c] \in Nat /\ CacheTtl \in Nat
        BY <2>2, Times
      <3>2. verdicts'[c] <= vouched[c] + CacheTtl
        BY <2>2, <2>4, <3>1
      <3> QED
        BY <2>1, <2>2, <3>2 DEF VerdictVouched
    <2> QED
      BY <1>1, <1>2, <2>1, <2>3, <2>4, <2>5, CallbackFrame
  <1>13. CASE CreateSession(c) \/ CreateFails(c)
    <2>1. /\ callback'[c].at \in {"signed in", "failed"} /\ callback[c].at = "admitted"
          /\ UNCHANGED <<now, verdicts, tokens, vouched>>
      <3>1. callback' = Answered(c, "signed in") \/ callback' = Answered(c, "failed")
        BY <1>13 DEF CreateSession, CreateFails
      <3>2. callback'[c].at \in {"signed in", "failed"}
        <4>1. CASE callback' = Answered(c, "signed in")
          BY <1>5, <4>1 DEF Answered
        <4>2. CASE callback' = Answered(c, "failed")
          BY <1>5, <4>2 DEF Answered
        <4> QED
          BY <3>1, <4>1, <4>2
      <3> QED
        BY <1>13, <3>2 DEF CreateSession, CreateFails, authCenter
    <2>2. DOMAIN sessions' \subseteq DOMAIN vouched
      BY <1>2, <2>1, CallbackMove DEF CallbackVouched
    <2> QED
      BY <1>1, <1>4, <2>1, <2>2, CallbackFrame
  <1> QED
    BY <1>7, <1>8, <1>9, <1>10, <1>11, <1>12, <1>13 DEF CallbackStep

\* What lies before an answer, or before the end of its verdict.
LEMMA Sums ==
    \A a, v, t \in Nat : t > 0 /\ a <= v => a < v + t /\ a + t <= v + t
  OBVIOUS

\* What lies before the end of a verdict is within the cache's life of its answer.
LEMMA Chain ==
    \A a, b, v, t \in Nat : a < b /\ b <= v + t => a < v + t
  OBVIOUS

\* A call that is over keeps where it ended.
LEMMA OverIsAt == \A at : Over(at).at = at
  BY DEF Over

\* A step of a request, let in by a verdict or by an answer.
LEMMA VouchedRequest ==
    ASSUME DashboardTypeOK, DashboardTypeOK', VouchInv, SignOutInv,
           NEW r \in Requests, RequestStep(r)
    PROVE  VouchInv'
  <1> DEFINE s == request[r].session
  <1>1. /\ request[r].at \in InProgress /\ callback' = callback
        /\ \A q \in Requests \ {r} : request'[q] = request[q]
        /\ request'[r].at \in InProgress => request'[r].session = s
        /\ DOMAIN sessions' \subseteq DOMAIN sessions
    BY RequestMove
  <1>2. s \in Callbacks /\ callback[s].at = "signed in" /\ request[r].asked \in Nat /\ now \in Nat
    BY <1>1, Times DEF SignOutInv
  <1>3. RequestVouched(r) /\ DOMAIN sessions \subseteq DOMAIN vouched
    BY DEF VouchInv
  <1>4. tokens' = tokens /\ now' = now
    BY DEF RequestStep, Expired, AuthorizeCached, AskAuthCenter, AnswerRequest, Authorize, Refuse,
           Serve, SignOut, RevokeToken, authCenter
  <1>0. now \in Nat /\ now <= now'
    BY <1>4, Times
  <1> HIDE DEF s
  <1>5. ASSUME vouched' = vouched, RequestVouched(r)',
               \A x \in DOMAIN verdicts' :
                   (x \in DOMAIN verdicts /\ verdicts'[x] = verdicts[x]) \/ VerdictVouched(x)'
        PROVE  VouchInv'
    <2>1. \A x \in DOMAIN vouched : StaysAccepted(x)
      BY <1>1, <1>4 DEF VouchInv, Accepted, StaysAccepted
    <2>2. Later /\ \A x \in DOMAIN vouched' : Accepted(x)'
      BY <1>0, <1>5, <2>1, NothingVouched
    <2> QED
      BY <1>1, <1>3, <1>5, <2>2, VouchFrame
  <1>6. ASSUME NEW at \in Ended \cup {"revoking"}, request'[r].at = at PROVE RequestVouched(r)'
    BY <1>6 DEF RequestVouched, Ended
  <1>7. ASSUME NEW at \in InProgress, NEW a,
               \/ request' = [request EXCEPT ![r] = [@ EXCEPT !.at = at]] /\ a = request[r].asked
               \/ request' = [request EXCEPT ![r] = [@ EXCEPT !.at = at, !.asked = a]]
        PROVE  request'[r].at = at /\ request'[r].asked = a /\ request'[r].session = s
    <2>1. Same([request[r] EXCEPT !.at = at], r, at, request[r].asked)
          /\ Same([request[r] EXCEPT !.at = at, !.asked = a], r, at, a)
      BY <1>1, RequestInProgress
    <2> QED
      BY <1>7, <2>1, OthersStay DEF Same, s
  <1>8. CASE Expired(r) \/ Refuse(r) \/ Serve(r) \/ RevokeToken(r)
    <2>1. /\ \E at \in Ended : request' = [request EXCEPT ![r] = Over(at)]
          /\ UNCHANGED <<verdicts, vouched>>
      BY <1>8 DEF Expired, Refuse, Serve, RevokeToken, Ended
    <2>2. \E at \in Ended : request'[r].at = at
      <3>1. PICK at \in Ended : request' = [request EXCEPT ![r] = Over(at)]
        BY <2>1
      <3>2. request'[r] = Over(at)
        BY <3>1, OthersStay
      <3> QED
        BY <3>2, OverIsAt
    <2> QED
      BY <1>5, <1>6, <2>1, <2>2
  <1>9. CASE SignOut(r)
    <2>1. UNCHANGED <<verdicts, vouched>>
      BY <1>9 DEF SignOut, s
    <2>2. CASE Resolves(s)
      <3>1. request' = [request EXCEPT ![r] = [@ EXCEPT !.at = "revoking"]]
        BY <1>9, <2>2 DEF SignOut, s
      <3>2. request'[r].at = "revoking"
        BY <1>7, <3>1 DEF InProgress
      <3> QED
        BY <1>5, <1>6, <2>1, <3>2
    <2>3. CASE ~Resolves(s)
      <3>1. request' = [request EXCEPT ![r] = Over("signed out")]
        BY <1>9, <2>3 DEF SignOut, s
      <3>2. request'[r].at = "signed out"
        BY <3>1, OthersStay, OverIsAt, ZenonT(60)
      <3> QED
        BY <1>5, <1>6, <2>1, <3>2 DEF Ended
    <2> QED
      BY <2>2, <2>3
  <1>10. CASE AuthorizeCached(r)
    <2>1. /\ request'[r].at = "authorized" /\ request'[r].asked = now /\ request'[r].session = s
          /\ UNCHANGED <<verdicts, vouched>>
      <3>1. /\ request' = [request EXCEPT ![r] = [@ EXCEPT !.at = "authorized", !.asked = now]]
            /\ UNCHANGED <<verdicts, vouched>>
        BY <1>10 DEF AuthorizeCached
      <3>2. "authorized" \in InProgress
        BY DEF InProgress, Checked
      <3> QED
        BY <1>7, <3>1, <3>2
    <2>2. s \in DOMAIN verdicts /\ now < verdicts[s] /\ VerdictVouched(s)
      BY <1>10 DEF AuthorizeCached, Cached, VouchInv, s
    <2>3. s \in DOMAIN vouched /\ now < vouched[s] + CacheTtl
      <3>1. s \in DOMAIN vouched /\ verdicts[s] <= vouched[s] + CacheTtl
        BY <2>2 DEF VerdictVouched
      <3>2. verdicts[s] \in Nat /\ vouched[s] \in Nat /\ CacheTtl \in Nat
        BY <2>2, <3>1, Times, Zenon
      <3> QED
        BY <1>0, <2>2, <3>1, <3>2, Chain, Zenon
    <2>4. RequestVouched(r)'
      BY <2>1, <2>3 DEF RequestVouched
    <2> QED
      BY <1>5, <2>1, <2>4
  <1>11. CASE AskAuthCenter(r)
    <2>1. /\ request'[r].at = "asking" /\ request'[r].asked = now /\ request'[r].session = s
          /\ vouched' = vouched /\ verdicts' = Without(verdicts, s)
      <3>1. /\ request' = [request EXCEPT ![r] = [@ EXCEPT !.at = "asking", !.asked = now]]
            /\ vouched' = vouched /\ verdicts' = Without(verdicts, s)
        BY <1>11 DEF AskAuthCenter, s
      <3>2. "asking" \in InProgress
        BY DEF InProgress, Checked
      <3> QED
        BY <1>7, <3>1, <3>2
    <2>2. \A x \in DOMAIN verdicts' : x \in DOMAIN verdicts /\ verdicts'[x] = verdicts[x]
      <3>1. Table(verdicts, Callbacks)
        BY DEF DashboardTypeOK
      <3>2. /\ DOMAIN Without(verdicts, s) = DOMAIN verdicts \ {s}
            /\ \A x \in DOMAIN verdicts \ {s} : Without(verdicts, s)[x] = verdicts[x]
        BY <3>1, WithoutRow
      <3> QED
        BY <2>1, <3>2
    <2>4. RequestVouched(r)'
      BY <1>0, <2>1 DEF RequestVouched
    <2> QED
      BY <1>5, <2>1, <2>2, <2>4
  <1>12. CASE AnswerRequest(r)
    <2>1. request[r].at = "asking" /\ verdicts' = verdicts /\ request[r].asked <= now
      BY <1>3, <1>12 DEF AnswerRequest, RequestVouched, s
    <2>2. CASE Accepts(s)
      <3>1. /\ request'[r].at = "accepted" /\ request'[r].asked = request[r].asked
            /\ request'[r].session = s /\ vouched' = With(vouched, s, now)
        BY <1>7, <1>12, <2>2 DEF AnswerRequest, InProgress, Checked, s
      <3>2. StaysAccepted(s)
        BY <1>1, <1>2, <1>4, <2>2 DEF StaysAccepted, Accepts
      <3>3. /\ Later /\ \A x \in DOMAIN vouched' : Accepted(x)'
            /\ s \in DOMAIN vouched' /\ vouched'[s] = now
        BY <1>1, <1>2, <1>4, <2>2, <3>1, <3>2, OneVouched
      <3>4. RequestVouched(r)'
        BY <2>1, <3>1, <3>3 DEF RequestVouched
      <3>5. DOMAIN sessions' \subseteq DOMAIN vouched'
        BY <1>1, <1>3, <3>3 DEF Later
      <3> QED
        BY <1>1, <2>1, <3>3, <3>4, <3>5, VouchFrame
    <2>3. CASE ~Accepts(s)
      <3>1. request'[r].at = "denied" /\ vouched' = vouched
        BY <1>7, <1>12, <2>3 DEF AnswerRequest, InProgress, Checked, s
      <3>2. RequestVouched(r)'
        BY <3>1 DEF RequestVouched
      <3> QED
        BY <1>5, <2>1, <3>1, <3>2
    <2> QED
      BY <2>2, <2>3
  <1>13. CASE Authorize(r)
    <2>1. /\ request'[r].at = "authorized" /\ request'[r].asked = request[r].asked
          /\ request'[r].session = s /\ vouched' = vouched
          /\ verdicts' = With(verdicts, s, request[r].asked + CacheTtl)
      BY <1>7, <1>13 DEF Authorize, Remembered, InProgress, Checked, s
    <2>2. s \in DOMAIN vouched /\ request[r].asked <= vouched[s]
      BY <1>3, <1>13 DEF Authorize, RequestVouched, s
    <2>3. vouched[s] \in Nat /\ CacheTtl \in Nat /\ CacheTtl > 0
      BY <2>2, Times
    <2>4. request[r].asked < vouched[s] + CacheTtl
      BY <1>2, <2>2, <2>3, Sums, Zenon
    <2>5. RequestVouched(r)'
      BY <2>1, <2>2, <2>4 DEF RequestVouched
    <2>6. /\ verdicts'[s] = request[r].asked + CacheTtl \/ s \notin DOMAIN verdicts'
          /\ \A x \in DOMAIN verdicts' \ {s} : x \in DOMAIN verdicts /\ verdicts'[x] = verdicts[x]
      BY <2>1 DEF With
    <2>7. ASSUME NEW x \in DOMAIN verdicts', x = s PROVE VerdictVouched(x)'
      <3>1. request[r].asked + CacheTtl <= vouched[s] + CacheTtl
        BY <1>2, <2>2, <2>3, Sums, Zenon
      <3>2. verdicts'[x] <= vouched'[x] + CacheTtl
        BY <2>1, <2>6, <2>7, <3>1, Zenon
      <3> QED
        BY <2>1, <2>2, <2>7, <3>2, Zenon DEF VerdictVouched
    <2>8. \A x \in DOMAIN verdicts' :
              (x \in DOMAIN verdicts /\ verdicts'[x] = verdicts[x]) \/ VerdictVouched(x)'
      BY <2>6, <2>7, Zenon
    <2> QED
      BY <1>5, <2>1, <2>5, <2>8, Zenon
  <1> QED
    BY <1>8, <1>9, <1>10, <1>11, <1>12, <1>13 DEF RequestStep

\* Nothing is vouched for at the start,
THEOREM VouchInit == DashboardInit => VouchInv
  <1> SUFFICES ASSUME DashboardInit PROVE VouchInv
    OBVIOUS
  <1>1. DOMAIN vouched = {} /\ DOMAIN sessions = {} /\ DOMAIN verdicts = {}
    BY DEF DashboardInit
  <1>2. \A c \in Callbacks : callback[c].at = "unsent"
    BY DEF DashboardInit, CallbackAt
  <1>3. \A r \in Requests : request[r].at = "unsent"
    BY DEF DashboardInit, Unsent
  <1> QED
    BY <1>1, <1>2, <1>3 DEF VouchInv, CallbackVouched, RequestVouched

\* and every step keeps what vouches for whom.
THEOREM VouchStep ==
    DashboardTypeOK /\ SignOutInv /\ VouchInv /\ [DashboardNext]_dashboardVars => VouchInv'
  <1> SUFFICES ASSUME DashboardTypeOK, SignOutInv, VouchInv, [DashboardNext]_dashboardVars
               PROVE  VouchInv'
    OBVIOUS
  <1>1. DashboardTypeOK'
    BY DashboardTypeStep
  <1>2. ASSUME NEW r \in Requests, NEW s \in Callbacks, NEW kind \in Kinds, Arrive(r, s, kind)
        PROVE  VouchInv'
    <2>1. UNCHANGED <<now, sessions, verdicts, callback, tokens, vouched>>
      BY <1>2 DEF Arrive, rows, authCenter
    <2>2. /\ request'[r] = RequestAt("arrived", kind, s, 0, s \in signedOut)
          /\ \A q \in Requests \ {r} : request'[q] = request[q]
      BY <1>2, OthersStay DEF Arrive
    <2>3. RequestVouched(r)'
      BY <2>2 DEF RequestVouched, RequestAt
    <2>4. \A x \in DOMAIN vouched : StaysAccepted(x)
      BY <2>1 DEF VouchInv, Accepted, StaysAccepted
    <2>5. now <= now'
      BY <2>1, Times
    <2>6. Later /\ \A x \in DOMAIN vouched' : Accepted(x)'
      BY <1>1, <2>1, <2>4, <2>5, NothingVouched
    <2> QED
      BY <1>1, <2>1, <2>2, <2>3, <2>6, VouchFrame DEF VouchInv
  <1> QED
    BY <1>1, <1>2, VouchedAside, VouchedCallback, VouchedRequest, VouchedCrash DEF DashboardNext

\* Nobody is let in beyond the cache's life after auth-center's last yes, nor so
\* long after the token's end.
THEOREM AccessCorrect == DashboardSpec => []AccessIsVouched
  <1>1. DashboardTypeOK /\ VouchInv => AccessIsVouched
    <2> SUFFICES ASSUME DashboardTypeOK, VouchInv, NEW r \in Requests, request[r].at = "authorized"
                 PROVE  LET s == request[r].session
                        IN  /\ s \in DOMAIN vouched /\ request[r].asked < vouched[s] + CacheTtl
                            /\ s \in DOMAIN tokens /\ request[r].asked < tokens[s] + CacheTtl
      BY DEF AccessIsVouched, VouchInv
    <2> DEFINE s == request[r].session
    <2>1. s \in DOMAIN vouched /\ request[r].asked < vouched[s] + CacheTtl
      BY DEF VouchInv, RequestVouched
    <2>2. s \in DOMAIN tokens /\ vouched[s] < tokens[s]
      BY <2>1 DEF VouchInv, Accepted
    <2>3. request[r].asked \in Nat /\ vouched[s] \in Nat /\ tokens[s] \in Nat /\ CacheTtl \in Nat
      BY <2>1, <2>2, Times DEF InProgress, Checked
    <2> QED
      BY <2>1, <2>2, <2>3
  <1> QED
    BY <1>1, DashboardTypeCorrect, SignOutInit, SignOutStep, VouchInit, VouchStep, PTL
       DEF DashboardSpec

-----------------------------------------------------------------------------
(* Tokens that are revoked.                                                *)

\* Nobody was vouched for after the token was revoked.
RevokedInv == \A s \in DOMAIN revoked \cap DOMAIN vouched : vouched[s] <= revoked[s]

\* A step that records an answer, or a revocation, finds the token not revoked yet.
RevocationMove ==
    \/ UNCHANGED <<revoked, vouched>>
    \/ /\ revoked' = revoked
       /\ \E s \in Callbacks \ DOMAIN revoked : vouched' = With(vouched, s, now)
    \/ /\ vouched' = vouched
       /\ \E s \in Callbacks \ DOMAIN revoked : revoked' = With(revoked, s, now)

\* All steps are of that kind.
LEMMA RevocationMoves ==
    ASSUME DashboardTypeOK, [DashboardNext]_dashboardVars
    PROVE  RevocationMove
  <1>1. ASSUME NEW s \in Callbacks, revoked' \in MaybeRevoked(s), vouched' = vouched
        PROVE  RevocationMove
    BY <1>1 DEF MaybeRevoked, RevocationMove
  <1>2. ASSUME NEW c \in Callbacks, AnswerCallback(c) PROVE RevocationMove
    BY <1>2 DEF AnswerCallback, Accepts, RevocationMove, authCenter
  <1>3. ASSUME NEW r \in Requests, AnswerRequest(r) PROVE RevocationMove
    <2>1. request[r].session \in Callbacks
      BY <1>3, RequestInProgress DEF AnswerRequest, InProgress, Checked
    <2> QED
      BY <1>3, <2>1 DEF AnswerRequest, Accepts, RevocationMove, authCenter
  <1>4. ASSUME NEW c \in Callbacks, RefuseSignIn(c) PROVE RevocationMove
    BY <1>1, <1>4 DEF RefuseSignIn
  <1>5. ASSUME NEW r \in Requests, RevokeToken(r) PROVE RevocationMove
    <2>1. request[r].session \in Callbacks
      BY <1>5, RequestInProgress DEF RevokeToken, InProgress
    <2> QED
      BY <1>1, <1>5, <2>1 DEF RevokeToken
  <1>6. CASE UNCHANGED <<revoked, vouched>>
    BY <1>6 DEF RevocationMove
  <1>7. ASSUME NEW c \in Callbacks, CallbackStep(c) PROVE RevocationMove
    BY <1>2, <1>4, <1>6, <1>7 DEF CallbackStep, FinishLogin, ErrorReturned, IssueToken,
       ReceiveToken, Admit, CreateSession, CreateFails, SignInFails, authCenter
  <1>8. ASSUME NEW r \in Requests, RequestStep(r) PROVE RevocationMove
    BY <1>3, <1>5, <1>6, <1>8 DEF RequestStep, Expired, AuthorizeCached, AskAuthCenter,
       Authorize, Refuse, Serve, SignOut, authCenter
  <1> QED
    BY <1>6, <1>7, <1>8 DEF DashboardNext, StartLogin, Evict, Arrive, ChangeGrant, Tick,
       ServerCrashes, dashboardVars, authCenter

\* No answer comes after a revocation.
LEMMA RevokedStep ==
    ASSUME DashboardTypeOK, VouchInv, RevokedInv, [DashboardNext]_dashboardVars
    PROVE  RevokedInv'
  <1>1. /\ now \in Nat /\ Table(vouched, Callbacks) /\ Table(revoked, Callbacks)
        /\ \A s \in DOMAIN vouched : vouched[s] <= now
    BY DEF DashboardTypeOK, VouchInv, Accepted
  <1>2. CASE UNCHANGED <<revoked, vouched>>
    BY <1>2 DEF RevokedInv
  <1>3. ASSUME NEW s \in Callbacks \ DOMAIN revoked, vouched' = With(vouched, s, now),
               revoked' = revoked
        PROVE  RevokedInv'
    <2>1. /\ DOMAIN vouched' = DOMAIN vouched \cup {s}
          /\ \A x \in DOMAIN vouched \ {s} : vouched'[x] = vouched[x]
      BY <1>1, <1>3, WithRow
    <2> QED
      BY <1>3, <2>1 DEF RevokedInv
  <1>4. ASSUME NEW s \in Callbacks, s \notin DOMAIN revoked, revoked' = With(revoked, s, now),
               vouched' = vouched
        PROVE  RevokedInv'
    <2>1. /\ DOMAIN revoked' = DOMAIN revoked \cup {s}
          /\ revoked'[s] = now
          /\ \A x \in DOMAIN revoked \ {s} : revoked'[x] = revoked[x]
      BY <1>4 DEF With
    <2> QED
      BY <1>1, <1>4, <2>1 DEF RevokedInv
  <1> QED
    BY <1>2, <1>3, <1>4, RevocationMoves DEF RevocationMove

\* Whichever of its two effects a sign-out has, it takes hold: nobody comes in by a
\* deleted row, and by one that stayed no longer than a verdict is cached, once the
\* token is revoked.
THEOREM SignOutCorrect == DashboardSpec => []SignOutTakesHold
  <1>1. DashboardInit => RevokedInv
    BY DEF DashboardInit, RevokedInv
  <1>2. DashboardTypeOK /\ VouchInv /\ RevokedInv /\ [DashboardNext]_dashboardVars => RevokedInv'
    BY RevokedStep
  <1>3. DashboardTypeOK /\ SignOutInv /\ VouchInv /\ RevokedInv => SignOutTakesHold
    <2> SUFFICES ASSUME DashboardTypeOK, SignOutInv, VouchInv, RevokedInv, NEW r \in Requests
                 PROVE  /\ request[r].at \in Checked => ~request[r].late
                        /\ request[r].at = "authorized" /\ request[r].session \in DOMAIN revoked =>
                              request[r].asked < revoked[request[r].session] + CacheTtl
      BY DEF SignOutTakesHold
    <2>1. ASSUME request[r].at = "authorized", NEW s \in DOMAIN revoked, s = request[r].session
          PROVE  request[r].asked < revoked[s] + CacheTtl
      <3>1. s \in DOMAIN vouched /\ request[r].asked < vouched[s] + CacheTtl
        BY <2>1 DEF VouchInv, RequestVouched
      <3>2. vouched[s] <= revoked[s]
        BY <3>1 DEF RevokedInv
      <3>3. revoked[s] \in Nat
        BY DEF DashboardTypeOK, Table
      <3>4. request[r].asked \in Nat /\ vouched[s] \in Nat /\ CacheTtl \in Nat
        BY <2>1, <3>1, Times DEF InProgress, Checked
      <3> QED
        BY <3>1, <3>2, <3>3, <3>4
    <2> QED
      BY <2>1 DEF SignOutInv, LateNotLookedUp
  <1> QED
    BY <1>1, <1>2, <1>3, DashboardTypeCorrect, SignOutInit, SignOutStep, VouchInit, VouchStep, PTL
       DEF DashboardSpec

-----------------------------------------------------------------------------
(* Rows that go.                                                           *)

\* Only a callback that is over has a row, so that no row is written twice.
RowsInv == \A c \in DOMAIN sessions : callback[c].at \in {"signed in", "failed"}

\* No step takes a row without a reason.
THEOREM RowsStep ==
    DashboardTypeOK /\ RowsInv /\ [DashboardNext]_dashboardVars => RowsInv'
  <1> SUFFICES ASSUME DashboardTypeOK, RowsInv, [DashboardNext]_dashboardVars PROVE RowsInv'
    OBVIOUS
  <1>0. DOMAIN sessions \subseteq Callbacks
    BY DEF DashboardTypeOK, Table
  <1>1. CASE \/ \E l \in Logins : StartLogin(l)
             \/ \E c \in Callbacks : Evict(c)
             \/ ChangeGrant \/ Tick \/ UNCHANGED dashboardVars
    BY <1>1, SidesAlone DEF RowsInv
  <1>2. ASSUME NEW c \in Callbacks, CallbackStep(c) PROVE RowsInv'
    <2>1. c \notin DOMAIN sessions
      BY <1>2, CallbackMove DEF RowsInv, UnderWay
    <2>2. \A d \in DOMAIN sessions : d \in Callbacks \ {c} /\ callback'[d] = callback[d]
      BY <1>0, <1>2, <2>1, CallbackMove
    <2>3. CASE CreateSession(c) \/ CreateFails(c)
      <3>1. callback' = Answered(c, "signed in") \/ callback' = Answered(c, "failed")
        BY <2>3 DEF CreateSession, CreateFails
      <3>2. callback'[c].at \in {"signed in", "failed"}
        <4>1. ASSUME NEW at, callback' = Answered(c, at) PROVE callback'[c].at = at
          BY <4>1 DEF Answered, CallbackAt, DashboardTypeOK
        <4> QED
          BY <3>1, <4>1
      <3> QED
        BY <1>2, <2>2, <3>2, CallbackMove, ZenonT(60) DEF RowsInv
    <2>4. CASE ~(CreateSession(c) \/ CreateFails(c))
      <3>1. UNCHANGED sessions
        BY <1>2, <2>4 DEF CallbackStep, FinishLogin, ErrorReturned, IssueToken, ReceiveToken,
                          AnswerCallback, Admit, RefuseSignIn, SignInFails, rows
      <3> QED
        BY <2>2, <3>1 DEF RowsInv
    <2> QED
      BY <2>3, <2>4
  <1>3. ASSUME NEW r \in Requests, RequestStep(r) PROVE RowsInv'
    BY <1>3, RequestMove DEF RowsInv
  <1>4. ASSUME NEW r \in Requests, NEW s \in Callbacks, NEW kind \in Kinds, Arrive(r, s, kind)
        PROVE  RowsInv'
    BY <1>4 DEF Arrive, rows, RowsInv
  <1>5. CASE ServerCrashes
    BY <1>0, <1>5 DEF ServerCrashes, rows, RowsInv, CallbackAt
  <1> QED
    BY <1>1, <1>2, <1>3, <1>4, <1>5 DEF DashboardNext

\* The reason a row goes for, step by step.
THEOREM ReasonStep ==
    DashboardTypeOK /\ RowsInv /\ [DashboardNext]_dashboardVars => RowGoesForAReason
  <1> SUFFICES ASSUME DashboardTypeOK, RowsInv, [DashboardNext]_dashboardVars
               PROVE  RowGoesForAReason
    OBVIOUS
  <1>0. Table(logins, Logins) /\ Table(sessions, Callbacks) /\ now \in Nat /\ LoginTtl \in Nat
    BY DashboardAssumption DEF DashboardTypeOK
  <1>1. CASE UNCHANGED rows
    BY <1>1 DEF rows, RowGoesForAReason
  <1>2. ASSUME NEW l \in Logins, StartLogin(l) PROVE RowGoesForAReason
    <2> DEFINE more == With(logins, l, now)
    <2>1. /\ Table(more, Logins) /\ DOMAIN more = DOMAIN logins \cup {l} /\ more[l] = now
          /\ \A x \in DOMAIN logins \ {l} : more[x] = logins[x]
      BY <1>0 DEF Table, With
    <2>2. logins' = LoginsCleaned(more) /\ UNCHANGED sessions
      BY <1>2 DEF StartLogin
    <2>3. DOMAIN logins' = {x \in DOMAIN more : more[x] >= now - LoginTtl}
      BY <1>0, <2>1, <2>2, CleanedRows
    <2> HIDE DEF more
    <2>4. ASSUME NEW x \in DOMAIN logins \ DOMAIN logins' PROVE logins[x] < now - LoginTtl
      <3>1. ~(more[x] >= now - LoginTtl)
        BY <2>1, <2>3
      <3>2. x # l
        BY <1>0, <2>1, <3>1
      <3>3. logins[x] \in Nat /\ more[x] = logins[x]
        BY <1>0, <2>1, <3>2 DEF Table
      <3> QED
        BY <1>0, <3>1, <3>3
    <2> QED
      BY <2>2, <2>4 DEF RowGoesForAReason
  <1>3. ASSUME NEW c \in Callbacks, NEW l \in Logins, FinishLogin(c, l) PROVE RowGoesForAReason
    <2>0. CASE UNCHANGED <<logins, sessions>>
      BY <2>0 DEF RowGoesForAReason
    <2> SUFFICES ASSUME ~UNCHANGED <<logins, sessions>> PROVE RowGoesForAReason
      BY <2>0
    <2>1. DOMAIN logins' = DOMAIN logins \ {l} /\ UNCHANGED sessions
      <3>1. DOMAIN Without(logins, l) = DOMAIN logins \ {l}
        BY <1>0, WithoutRow
      <3> QED
        BY <1>3, <3>1 DEF FinishLogin, LoginsAfter
    <2>2. CASE l \in DOMAIN logins /\ logins[l] >= now - LoginTtl
      <3>1. callback' = [callback EXCEPT ![c] = CallbackAt("exchanging", l, 0, 0)]
        BY <1>3, <2>1, <2>2 DEF FinishLogin
      <3>2. callback'[c].login = l /\ callback'[c].at = "exchanging"
        BY <3>1 DEF CallbackAt, DashboardTypeOK
      <3> QED
        BY <2>1, <3>2 DEF RowGoesForAReason
    <2>3. CASE l \in DOMAIN logins /\ ~(logins[l] >= now - LoginTtl)
      <3>1. logins[l] < now - LoginTtl
        BY <1>0, <2>3 DEF Table
      <3> QED
        BY <2>1, <3>1 DEF RowGoesForAReason
    <2>4. CASE l \notin DOMAIN logins
      BY <2>1, <2>4 DEF RowGoesForAReason
    <2> QED
      BY <2>2, <2>3, <2>4
  <1>4. ASSUME NEW c \in Callbacks, CreateSession(c) PROVE RowGoesForAReason
    <2> DEFINE more == With(sessions, c, callback[c].expires)
    <2>1. /\ Table(more, Callbacks) /\ DOMAIN more = DOMAIN sessions \cup {c}
          /\ \A x \in DOMAIN sessions \ {c} : more[x] = sessions[x]
      <3>1. callback[c].expires \in Nat
        BY CallbackTimes
      <3> QED
        BY <1>0, <3>1 DEF Table, With
    <2>2. sessions' = SessionsCleaned(more) /\ UNCHANGED logins
      BY <1>4 DEF CreateSession
    <2>3. DOMAIN sessions' = {x \in DOMAIN more : more[x] >= now}
      BY <1>0, <2>1, <2>2, CleanedRows
    <2>4. c \notin DOMAIN sessions
      BY <1>4 DEF CreateSession, RowsInv
    <2> HIDE DEF more
    <2>5. ASSUME NEW x \in DOMAIN sessions \ DOMAIN sessions' PROVE ~Resolves(x)
      <3>1. more[x] = sessions[x] /\ ~(more[x] >= now) /\ sessions[x] \in Nat
        BY <1>0, <2>1, <2>3, <2>4 DEF Table
      <3> QED
        BY <1>0, <3>1 DEF Resolves
    <2> QED
      BY <2>2, <2>5 DEF RowGoesForAReason
  <1>5. ASSUME NEW c \in Callbacks, CreateFails(c) PROVE RowGoesForAReason
    <2>1. DOMAIN With(sessions, c, callback[c].expires) = DOMAIN sessions \cup {c}
      BY DEF With
    <2>2. DOMAIN sessions \subseteq DOMAIN sessions' /\ UNCHANGED logins
      BY <1>5, <2>1 DEF CreateFails
    <2> QED
      BY <2>2 DEF RowGoesForAReason
  <1>6. ASSUME NEW r \in Requests, RequestStep(r) PROVE RowGoesForAReason
    <2>1. UNCHANGED logins
      BY <1>6 DEF RequestStep, Expired, AuthorizeCached, AskAuthCenter, AnswerRequest, Authorize,
                  Refuse, Serve, SignOut, RevokeToken, rows
    <2> QED
      BY <1>6, <2>1, RequestMove DEF RowGoesForAReason
  <1>7. ASSUME NEW c \in Callbacks, CallbackStep(c) PROVE RowGoesForAReason
    <2>1. CASE \/ ErrorReturned(c) \/ IssueToken(c) \/ ReceiveToken(c) \/ AnswerCallback(c)
               \/ Admit(c) \/ RefuseSignIn(c) \/ SignInFails(c)
      BY <1>1, <2>1 DEF ErrorReturned, IssueToken, ReceiveToken, AnswerCallback, Admit,
                        RefuseSignIn, SignInFails, rows
    <2> QED
      BY <1>3, <1>4, <1>5, <1>7, <2>1 DEF CallbackStep
  <1>8. CASE \/ \E c \in Callbacks : Evict(c)
             \/ \E r \in Requests, s \in Callbacks, kind \in Kinds : Arrive(r, s, kind)
             \/ ChangeGrant \/ Tick \/ ServerCrashes \/ UNCHANGED dashboardVars
    BY <1>1, <1>8 DEF Evict, Arrive, ChangeGrant, Tick, ServerCrashes, dashboardVars, rows
  <1> QED
    BY <1>2, <1>6, <1>7, <1>8 DEF DashboardNext

\* A session goes when it is signed out of or over, a login when it is used or over.
THEOREM RowsCorrect == DashboardSpec => RowsGoForAReason
  <1>1. DashboardInit => RowsInv
    <2>1. ASSUME DashboardInit PROVE DOMAIN sessions = {}
      BY <2>1 DEF DashboardInit
    <2> QED
      BY <2>1 DEF RowsInv
  <1>2. DashboardTypeOK /\ RowsInv /\ [DashboardNext]_dashboardVars =>
            [RowGoesForAReason]_dashboardVars
    BY ReasonStep
  <1> QED
    BY <1>1, <1>2, DashboardTypeCorrect, RowsStep, PTL DEF DashboardSpec, RowsGoForAReason
=============================================================================
