\* Everything can happen: pushes of which one changes shared inputs only, a manual
\* start, faults.
SPECIFICATION FairSpec
CONSTANTS
    MaxCommit = 3
    Touches <- Commits13
    Watched <- Commits123
    NoCommit = NoCommit
    HasFlock = TRUE
    MaxManual = 1
    MaxFaults = 2
INVARIANTS TypeOK NothingLostSilently
PROPERTIES SuccessMeansApplied KeepsPromise RunsEnd
CHECK_DEADLOCK FALSE
