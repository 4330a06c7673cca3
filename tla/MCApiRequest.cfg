SPECIFICATION Spec
CONSTANTS
    r1 = r1
    r2 = r2
    r3 = r3
    p1 = p1
    p2 = p2
    t1 = t1
    t2 = t2
    k = k
    None = None
    Seed = Seed
    Request = {r1, r2, r3}
    Process = {p1, p2}
    Tenant = {t1, t2}
    Order = {"ours", "theirs", "blank"}
    OwnerOf <- MCOwnerOf
    Blank = {"blank"}
    Type = {"DEED", "PARCEL"}
    Unknown = "bogus"
    Key = {k, "fresh"}
    Load <- MCLoad
    d1 = d1
    d2 = d2
    Delivery = {d1, d2}
    JobOf <- MCJobOf
    Limit = 1
    Window = 1
    MaxTime = 2
SYMMETRY Deliveries
CHECK_DEADLOCK FALSE
INVARIANTS
    TenantIsolation
    RefusedChangesNothing
    SettledAnswer
    WindowBound
