\* Pushes, a manual run, a fault, a failed fetch.
SPECIFICATION FairSpec
CONSTANTS
    Launches = {1, 2, 3}
    MaxCommit = 2
    Touches <- Commits12
    Watched <- Commits12
    Tip = Tip
    Branch = Branch
    Free = Free
    NoPid = NoPid
    MaxTries = 2
    MaxManual = 1
    MaxFaults = 1
    FetchFails = TRUE
INVARIANTS TypeOK LockExcludes SupersededHasNewerRun NothingLostSilently
PROPERTIES NoRegressUnlessStolen LaunchesEnd
CHECK_DEADLOCK FALSE
