CONSTANTS
    Doc = {d1}
    NoDoc = NoDoc
    Worker = {w1, w2}
    Client = {c1}
    ApiOp = {}
    FetchOutcome = {"uploaded", "failed"}
    CallbackUrl = TRUE
    CallbackAttempts = 1
    MaxRetries = 1
    MaxReady = 1
    MaxFaults = 1

SPECIFICATION Spec
SYMMETRY Symmetry
INVARIANT PayloadIsConsistent
INVARIANT FailedHasError
