CONSTANTS
    a = a
    b = b
    c = c
    d = d
    k1 = k1
    t1 = t1
    t2 = t2
    NoKey = NoKey
    NoRequest = NoRequest
    Request = {a, b, c, d}
    Key = {k1}
    Type = {t1, t2}
    KeyOf <- KeyOf4
    OriginalOf <- OriginalOf4
    Asked <- Asked4
    MaxMessages = 1

SPECIFICATION FairSpec
CHECK_DEADLOCK FALSE
INVARIANT JobHasItsDocuments
INVARIANT RetryStaysInside
INVARIANT OneJobPerKey
INVARIANT NoSpuriousConflict
PROPERTY Idempotent
PROPERTY CommittedIsStarted
