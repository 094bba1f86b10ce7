CONSTANTS
    prof = prof
    term = term
    NoSignal = NoSignal
    Sig = {prof, term}
    Timeout = prof
    Orig <- Originals
    Installable = {"handler"}
    Stealable <- Stolen
    QueueSize = 2
    Order = {"store", "load"}
    MaxDepth = 2
    MaxNesting = 2
SPECIFICATION FairSpec
INVARIANTS TypeOK QueueSound Exclusive
PROPERTIES ImplementsSignalQueue DeferredHandled
CHECK_DEADLOCK TRUE
