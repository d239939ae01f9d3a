\* Two writers whose transactions also query and spill, no restart.
CONSTANTS
    Backends       = {b1, b2}
    Nobody         = Nobody
    MaxDocs        = 5
    Capacity       = 2
    SpillThreshold = 3
    BulkThreshold  = 0
    ManualSpills   = TRUE
    Scans          = TRUE
    MaxRestarts    = 0
    Crashes        = FALSE
SPECIFICATION Spec
SYMMETRY Interchangeable
INVARIANTS
    EachOnce
    IdfNotNegative
\* Every document may have been inserted and nothing be left to do.
CHECK_DEADLOCK FALSE
