CONSTANTS
    Doc = {d1}
    NoDoc = NoDoc
    Worker = {w1}
    Client = {c1}
    ApiOp = {"cancel", "review", "archive"}
    FetchOutcome = {"uploaded", "failed"}
    CallbackUrl = FALSE
    CallbackAttempts = 1
    MaxRetries = 1
    MaxReady = 1
    MaxFaults = 2

SPECIFICATION FairSpec
PROPERTY QueuedIsTakenUp
PROPERTY RunningEnds
