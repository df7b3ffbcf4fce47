SPECIFICATION Spec
CONSTANTS
    k = k  p1 = p1  p2 = p2  d1 = d1  d2 = d2  r1 = r1  r2 = r2
    Calls = {c1, c2}
    Requests <- MCRequests
    Keys = {k}
    NoKey = NoKey
    Projects = {p1, p2}
    Deployments = {d1, d2}
    Owner <- MCOwner
    NoDeployment = NoDeployment
    Resources = {r1, r2, admin}
    AdminResource = admin
    Unbound = Unbound
    Grantable <- MCGrantable
    FirstBindings <- MCFirstBindings
    CacheTtl = 2
    HttpTimeout = 1
    MaxCached = 1
    MaxTime = 4
    MaxCrashes = 1
CHECK_DEADLOCK FALSE
INVARIANTS
    EveryBindIsRecorded
