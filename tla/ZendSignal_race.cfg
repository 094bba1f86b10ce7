CONSTANTS
    prof = prof
    term = term
    NoSignal = NoSignal
    Sig = {prof, term}
    Timeout = prof
    Orig <- Originals
    Installable = {"handler"}
    Stealable <- NoneStolen
    QueueSize = 2
    Order = {"store"}
    MaxDepth = 2
    MaxNesting = 2
SPECIFICATION Spec
INVARIANT UnblockFindsSignal
CHECK_DEADLOCK TRUE
