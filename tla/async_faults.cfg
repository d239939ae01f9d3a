\* Two requests, two workers, every fault: safety.
CONSTANTS
    Requests = {r1, r2}
    Workers  = {w1, w2}
    NoWorker = NoWorker
    Faults   = TRUE
SPECIFICATION Spec
SYMMETRY Interchangeable
INVARIANTS
    TypeOK
    OneHandler
    IngestAtomic
PROPERTIES
    OutcomeIsFinal
    PromiseKept
\* Every request may have been submitted and every worker be idle.
CHECK_DEADLOCK FALSE
