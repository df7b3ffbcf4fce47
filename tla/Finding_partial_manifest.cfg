SPECIFICATION RunSpec
CONSTANTS
    d1 = d1  d2 = d2  d3 = d3  a = a  b = b  v1 = v1  v2 = v2  app = app
    Tokens <- MCTokens
    Projects <- MCProjects
    Deployments = {d1, d2, d3}
    Plan <- RetentionPlan
    Paths = {a, b}
    Contents = {v1, v2}
    Torn = Torn
    NoManifest = NoManifest
    NoDeployment = NoDeployment
    Keep = 1
    BatchSize = 1
    Edits = {}
    Losses = FALSE
    StartRule = "any"
    CarefulOperator = TRUE
    FaultyDisk = FALSE
    MaxCrashes = 0
CHECK_DEADLOCK FALSE
INVARIANTS
    ActiveIsWhole
