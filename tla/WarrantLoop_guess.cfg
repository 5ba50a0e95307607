\* One request, one run of somebody else, no failure at all.
SPECIFICATION Spec
CONSTANTS
    Filings = {r1}
    Short = r1
    Alike <- SameTitle
    Nobody = Nobody
    MaxPolicy = 0
    MaxRuns = 1
    RunWindow = 1
    Unread = Unread
    PolicyFails = FALSE
    MaxFaults = 0
INVARIANT ClosedMeansOwnRun
CHECK_DEADLOCK FALSE
