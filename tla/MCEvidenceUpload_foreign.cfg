CONSTANTS
    r1 = r1
    r2 = r2
    r3 = r3
    j1 = j1
    j2 = j2
    o1 = o1
    o2 = o2
    f1 = f1
    NoRun = NoRun
    Run = {r1, r2}
    Job = {j1, j2}
    Order = {o1, o2}
    Folder = {f1}
    JobOf <- JobOfTwo
    OrderOf <- OrderOf2
    FolderOf <- FolderOfTwo

SPECIFICATION FairSpec
CHECK_DEADLOCK FALSE
INVARIANT BlobIsOfItsOrder
