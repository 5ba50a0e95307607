\* Three requests that may supersede each other, one's stamp in the others', a fault.
SPECIFICATION Spec
CONSTANTS
    Filings = {r1, r12, r13}
    Short = r1
    Alike <- SameTitle
    Nobody = Nobody
    MaxPolicy = 0
    MaxRuns = 0
    RunWindow = 1
    Unread = Unread
    PolicyFails = FALSE
    MaxFaults = 1
INVARIANTS TypeOK SupersededHasSuccessor ClosedMeansRetired
SYMMETRY Interchangeable
CHECK_DEADLOCK FALSE
