\* A merge that changes shared inputs only, and a start of an older commit.
SPECIFICATION Spec
CONSTANTS
    MaxCommit = 2
    Touches <- Commits1
    Watched <- Commits12
    NoCommit = NoCommit
    HasFlock = TRUE
    MaxManual = 1
    MaxFaults = 0
PROPERTY NoRegress
CHECK_DEADLOCK FALSE
