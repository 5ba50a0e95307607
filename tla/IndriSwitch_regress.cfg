\* Pushes only and no crash: a stale reclaim races a new holder.
SPECIFICATION Spec
CONSTANTS
    Launches = {1, 2, 3, 4}
    MaxCommit = 4
    Touches <- Commits1234
    Watched <- Commits1234
    Tip = Tip
    Branch = Branch
    Free = Free
    NoPid = NoPid
    MaxTries = 1
    MaxManual = 0
    MaxFaults = 0
    FetchFails = FALSE
PROPERTY NoRegress
CHECK_DEADLOCK FALSE
