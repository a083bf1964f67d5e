\* An import that is resumed after a failure.
SPECIFICATION Spec
CONSTANTS
    p1 = p1
    p2 = p2
    p3 = p3
    j1 = j1
    j2 = j2
    Jobs = {j1, j2}
    Startup = Startup
    Pages = {p1, p2, p3}
    Sources = {"one", "two"}
    Batch = 2
    FailureLimit = 1
    MaxCalls = 2
    Setups <- ResumedOnce
INVARIANTS EveryPageStored
CHECK_DEADLOCK FALSE
