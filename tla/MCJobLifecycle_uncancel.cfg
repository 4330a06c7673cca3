CONSTANTS
    Doc = {d1}
    NoDoc = NoDoc
    Worker = {w1}
    Client = {c1}
    ApiOp = {"cancel"}
    FetchOutcome = {"uploaded", "failed"}
    CallbackUrl = TRUE
    CallbackAttempts = 1
    MaxRetries = 0
    MaxReady = 0
    MaxFaults = 0

SPECIFICATION FairSpec
PROPERTY NeverUncancelled
