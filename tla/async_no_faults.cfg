\* Two requests, two workers, nothing fails but the handlers: who claims answers.
CONSTANTS
    Requests = {r1, r2}
    Workers  = {w1, w2}
    NoWorker = NoWorker
    Faults   = FALSE
SPECIFICATION FairSpec
INVARIANTS
    NothingAbandoned
    ErrorStoresNothing
PROPERTIES
    NotifiedIsAnswered
\* Every request may have been submitted and every worker be idle.
CHECK_DEADLOCK FALSE
