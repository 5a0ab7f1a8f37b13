SPECIFICATION Spec
CONSTANTS
    r1 = r1
    r2 = r2
    r3 = r3
    b1 = b1
    b2 = b2
    Requests = {r1, r2}
    Browsers = {b1}
    BrowserOf <- OneBrowser
    NoId = NoId
    Kill = Kill
    Absent = Absent
    Ops = {"put", "putref", "remove", "removeAll", "abandon", "liquidOn", "liquidOff", "readonlyOn", "readonlyOff", "reentrance", "execute", "flush"}
    MaxOps = 2
    Overlap = 2
    UrlIds = TRUE
    Expiry = "any"
    Faults = TRUE
INVARIANTS TypeOK
PROPERTIES DeadStaysDead
SYMMETRY AnyOrder
