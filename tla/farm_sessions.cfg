SPECIFICATION Spec
CONSTANTS
    r1 = r1
    r2 = r2
    r3 = r3
    r4 = r4
    b1 = b1
    Requests = {r1, r2, r3, r4}
    Browsers = {b1}
    BrowserOf <- OneBrowser
    Sites <- KeepingSites
    NoId = NoId
    Absent = Absent
    MaxOps = 2
INVARIANTS TypeOK NoOrphans
PROPERTIES ImplementsContract
SYMMETRY AnyOrder
