\* One request, a run of its own and one of somebody else, sweep after sweep.
SPECIFICATION FairSpec
CONSTANTS
    Filings = {r1}
    Short = r1
    Alike <- SameTitle
    Nobody = Nobody
    MaxPolicy = 1
    MaxRuns = 2
    RunWindow = 1
    Unread = Unread
    PolicyFails = FALSE
    MaxFaults = 1
INVARIANT RecordedMeansOwnRun
PROPERTY SettledGetsClosed
CHECK_DEADLOCK FALSE
