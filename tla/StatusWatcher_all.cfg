\* Two sidecars that change under a pass, writes a second apart.
SPECIFICATION FairSpec
CONSTANTS
    Files = {f1, f2}
    NoFile = NoFile
    MaxClock = 3
    Stale = 1
    MaxChanges = 2
    MaxFaults = 1
    Distinct = TRUE
INVARIANTS TypeOK SettledMeansTold
PROPERTIES FreshStaysQuiet EventuallyTold
CHECK_DEADLOCK FALSE
