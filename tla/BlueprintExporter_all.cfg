\* Two files, two edits, a time in which polls fail, and a restart.
SPECIFICATION FairSpec
CONSTANTS
    a = a
    b = b
    steady = steady
    Paths <- PathsOf3
    Rank <- InOrder
    Edited = {a, b}
    PageSize = 2
    Carry = 8
    Window = 5
    Cycle = 4
    MaxEdits = 2
    MaxOutages = 1
    MaxRestarts = 1
INVARIANTS TypeOK QuarterTells CarryEnds
PROPERTIES NeverReset Stops
CHECK_DEADLOCK FALSE
