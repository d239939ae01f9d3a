\* One writer, every kind of spill, shutdowns and crashes.
CONSTANTS
    Backends       = {b1}
    Nobody         = Nobody
    MaxDocs        = 4
    Capacity       = 3
    SpillThreshold = 2
    BulkThreshold  = 2
    ManualSpills   = TRUE
    Scans          = FALSE
    MaxRestarts    = 2
    Crashes        = TRUE
SPECIFICATION Spec
INVARIANTS
    TypeOK
    NothingLostByShutdown
    MemtableRecorded
    DiskPointersSound
    DiskChainsSound
\* Every document may have been inserted and nothing be left to do.
CHECK_DEADLOCK FALSE
