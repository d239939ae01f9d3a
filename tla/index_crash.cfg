\* One writer, no spill, one crash.
CONSTANTS
    Backends       = {b1}
    Nobody         = Nobody
    MaxDocs        = 3
    Capacity       = 3
    SpillThreshold = 0
    BulkThreshold  = 0
    ManualSpills   = FALSE
    Scans          = FALSE
    MaxRestarts    = 1
    Crashes        = TRUE
SPECIFICATION Spec
INVARIANTS
    NothingLost
CHECK_DEADLOCK FALSE
