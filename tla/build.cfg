\* Builds of four small tables, and the index in use after them.
SPECIFICATION FairSpec
CONSTANTS
    PageCells = 20
    IndexEntries = 3
    BlockSize = 2
    WordBits = 14
    ArenaPageSize = 64
    FirstBlockLog2 = 4
    MaxBlockLog2 = 5
    TermLength <- MCTermLength
    LengthTable <- MCLengthTable
    Heaps <- MCHeaps
    FreeTids <- MCFreeTids
    NewRows <- MCNewRows
    NWorkers = 2
    Budget = 60
    MaxSegments = 2
    MaxLevels = 3
    SegmentsPerLevel = 2
INVARIANTS
    TypeOK
    IndexHoldsHeap
    PostingsAscend
    PagesAccounted
PROPERTIES
    BuildEnds
\* A build may have failed, and every row may have been inserted.
CHECK_DEADLOCK FALSE
