SPECIFICATION RunSpec
CONSTANTS
    d1 = d1  d2 = d2  d3 = d3  a = a  b = b  v1 = v1  v2 = v2  app = app
    Tokens <- MCTokens
    Projects <- MCProjects
    Deployments = {d1, d2}
    Plan <- VersionedPlan
    Paths = {a, b}
    Contents = {v1, v2}
    Torn = Torn
    NoManifest = NoManifest
    NoDeployment = NoDeployment
    Keep = 2
    BatchSize = 1
    Edits = {v2}
    Losses = TRUE
    StartRule = "any"
    CarefulOperator = TRUE
    FaultyDisk = TRUE
    MaxCrashes = 1
CHECK_DEADLOCK FALSE
CONSTRAINTS
    OneGone
    HoursOrCrash
INVARIANTS
    PublishedIsWhole
    FinishKeepsShippedFiles
    ManifestIsWholeInFlight
    NoNeededRowLeftBehind
PROPERTIES
    PublishesAtomically
