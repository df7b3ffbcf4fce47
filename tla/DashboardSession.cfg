SPECIFICATION DashboardSpec
CONSTANTS
    Logins = {l1, l2}
    NoLogin = NoLogin
    Callbacks = {c1, c2}
    Requests = {r1, r2}
    NoRequest = NoRequest
    LoginTtl = 1
    TokenLife = 2
    CacheTtl = 1
    MaxTime = 3
SYMMETRY Symmetric
CHECK_DEADLOCK FALSE
INVARIANTS
    OneSignInPerLogin
    AccessIsVouched
    SignOutTakesHold
    MutexIsGivenBack
PROPERTIES
    RowsGoForAReason
