\* Spills, compaction, forced merges and vacuum, each alone with the chains.
CONSTANTS
    Backends    = {b1}
    Vacuum      = Vacuum
    Nobody      = Nobody
    MaxDocs     = 4
    MaxLevels   = 3
    Fanouts     = {2, 3}
    ForceMerges = TRUE
    Overlap     = FALSE
SPECIFICATION Spec
INVARIANTS
    TypeOK
    BlocksAccounted
    CountsRight
    NoDocTwice
    LevelsBounded
PROPERTY
    ContentsKept
\* Every document may have been inserted and nothing be left to do.
CHECK_DEADLOCK FALSE
