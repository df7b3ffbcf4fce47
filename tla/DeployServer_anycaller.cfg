SPECIFICATION Spec
CONSTANTS
    d1 = d1  d2 = d2  d3 = d3  d4 = d4  a = a  v = v  app = app
    Tokens <- MCTokens
    Projects <- MCProjects
    Deployments = {d1, d2, d3, d4}
    Plan <- MCPlan
    Paths = {a}
    Contents = {v}
    Torn = Torn
    NoManifest = NoManifest
    NoDeployment = NoDeployment
    Keep = 1
    FaultyDisk = TRUE
    MaxCrashes = 1
INVARIANTS
    DirectoriesAreSeparate
    NewestKeepTheirManifest
CONSTRAINT Bounds
SYMMETRY MCSymmetry
