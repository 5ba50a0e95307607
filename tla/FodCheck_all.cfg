\* Trees up to two steps from a plain one, every selection, up to two failing calls.
SPECIFICATION FairSpec
CONSTANTS
    c1 = c1
    c2 = c2
    p1 = p1
    p2 = p2
    fork = fork
    Containers = {c1, c2}
    Ringtail = "ringtail"
    Pins <- Pins3
    Prefix <- OwnPrefix
    Shell <- SharedShell
    Inputs <- Names
    Trees <- MCTrees
    Argvs <- MCArgvs
    Workers = 2
    MaxFaults = 2
INVARIANTS TypeOK GreenMeansChecked OwnOutcome AllTold
PROPERTY Ends
CHECK_DEADLOCK FALSE
