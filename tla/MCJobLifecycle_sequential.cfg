CONSTANTS
    Doc = {d1, d2}
    NoDoc = NoDoc
    Worker = {w1}
    Client = {c1}
    ApiOp = {"cancel"}
    FetchOutcome = {"uploaded", "fetched", "failed"}
    CallbackUrl = TRUE
    CallbackAttempts = 2
    MaxRetries = 1
    MaxReady = 1
    MaxFaults = 1

SPECIFICATION Spec
SYMMETRY Symmetry
INVARIANT TypeOK
INVARIANT RunningIsOwned
INVARIANT CancelLatency
INVARIANT CountersMatchRows
INVARIANT StatusMatchesRows
