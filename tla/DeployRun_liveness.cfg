SPECIFICATION FairSpec
CONSTANTS
    d1 = d1  d2 = d2  d3 = d3  a = a  b = b  v1 = v1  v2 = v2  app = app
    Tokens <- MCTokens
    Projects <- MCProjects
    Deployments = {d1, d2}
    Plan <- SmallPlan
    Paths = {a}
    Contents = {v1, v2}
    Torn = Torn
    NoManifest = NoManifest
    NoDeployment = NoDeployment
    Keep = 1
    BatchSize = 1
    Edits = {}
    Losses = TRUE
    StartRule = "any"
    CarefulOperator = TRUE
    FaultyDisk = FALSE
    MaxCrashes = 1
CHECK_DEADLOCK FALSE
PROPERTIES
    RunsEnd
    UndisturbedRunsPublish
