\* The same instance: two insertions suffice for the counterexample.
SPECIFICATION Spec
CONSTANTS
    PageCells = 20
    IndexEntries = 3
    BlockSize = 2
    WordBits = 14
    ArenaPageSize = 64
    FirstBlockLog2 = 4
    MaxBlockLog2 = 5
    TermLength <- MCTermLength
    LengthTable <- MCLengthTable
    Heaps <- MCHeaps
    FreeTids <- MCFreeTids
    NewRows <- MCNewRows
    NWorkers = 2
    Budget = 60
    MaxSegments = 2
    MaxLevels = 3
    SegmentsPerLevel = 2
INVARIANTS
    PostingsSorted
CHECK_DEADLOCK FALSE
