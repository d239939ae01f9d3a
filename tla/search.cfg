\* Limits double from 1 or 3 to 4, which is fewer than the documents of an index.
CONSTANTS
    BlockSize = 2
    NoDoc     = 99
    Frequencies = {1, 2}
    Lengths   = {1, 2}
    Saturation <- SmallSaturation
    Indexes  <- SmallIndexes
    Limits    = {1, 3}
    MaxLimit  = 4
SPECIFICATION Spec
INVARIANTS
    TypeOK
    BestScores
    ExactFromOneSource
    EachRowOnce
PROPERTIES
    ScanEnds
