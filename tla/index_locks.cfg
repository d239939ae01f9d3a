\* Two writers, automatic spills and spills at commit, one restart.
CONSTANTS
    Backends       = {b1, b2}
    Nobody         = Nobody
    MaxDocs        = 5
    Capacity       = 2
    SpillThreshold = 3
    BulkThreshold  = 2
    ManualSpills   = FALSE
    Scans          = FALSE
    MaxRestarts    = 1
    Crashes        = TRUE
SPECIFICATION Spec
SYMMETRY Interchangeable
INVARIANTS
    WritersIsolated
    SpillsExclusive
    NoPageOverflows
\* Every document may have been inserted and nothing be left to do.
CHECK_DEADLOCK FALSE
