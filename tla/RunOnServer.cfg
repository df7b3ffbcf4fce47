SPECIFICATION FairSpec
CONSTANTS
    c1 = c1  c2 = c2  d1 = d1  d2 = d2
    Calls = {c1, c2}
    Deployments = {d1, d2}
    NoDeployment = NoDeployment
    MaxRuns = 1
    MaxCrashes = 1
CHECK_DEADLOCK FALSE
INVARIANTS
    SlotsAreCounted
    ScriptsHoldSlots
    StartedRunsAreOnRecord
    ResultsAreOnRecord
    TimedOutLeavesNothing
PROPERTIES
    CallsReturn
