\* Three runs, each with any of its failures, over each of the earlier ones' leftovers.
SPECIFICATION Spec
CONSTANTS
    MaxRuns = 3
    horkos = horkos
    hand = hand
    External <- MCExternal
    ByHand <- MCByHand
    Serialised = TRUE
INVARIANTS TypeOK ConsumersWork NextRunCleansUp FailedIsKnown
CHECK_DEADLOCK FALSE
