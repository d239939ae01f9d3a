\* Transactions that rebuild or drop the index do nothing else with it.
CONSTANTS
    Backends      = {b1, b2, b3}
    Nobody        = Nobody
    MaxStates     = 4
    MaxRestarts   = 1
    DropRollsBack = FALSE
    BuildAfterUse = FALSE
SPECIFICATION Spec
SYMMETRY Interchangeable
INVARIANTS
    TypeOK
    NoUseAfterFree
    AreaAgrees
    RegisteredIsLive
    PrivateAreaEnds
    LocksEndWithTransaction
\* Every state may have been used up.
CHECK_DEADLOCK FALSE
