\* Vacuum while another process spills and compacts.
CONSTANTS
    Backends    = {b1}
    Vacuum      = Vacuum
    Nobody      = Nobody
    MaxDocs     = 4
    MaxLevels   = 3
    Fanouts     = {2, 3}
    ForceMerges = FALSE
    Overlap     = TRUE
SPECIFICATION Spec
INVARIANT
    LiveIsFound
\* Every document may have been inserted and nothing be left to do.
CHECK_DEADLOCK FALSE
