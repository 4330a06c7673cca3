CONSTANTS
    NoHouse = "none"
    Drop = {"AVE"}
    Digit = {"4B"}
    KindOf <- Kinds
    Parcel <- ParcelSeq
    Attrs <- AttrsOf
    Related <- RelatedOf
    Layer = {"L1", "L2"}
    Dists = {0, 150, 1000}
    Regs <- RegSet
    Searches <- SearchSet
    Moved <- MovedSet
    MaxFeats = 2
    MaxFields = 4

SPECIFICATION Spec
INVARIANTS TrustedIsMatched  FindsTheSubject MovedIsFlagged
