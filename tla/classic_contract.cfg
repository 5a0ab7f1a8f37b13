SPECIFICATION Spec
CONSTANTS
    r1 = r1
    r2 = r2
    r3 = r3
    b1 = b1
    b2 = b2
    Requests = {r1, r2, r3}
    Browsers = {b1, b2}
    BrowserOf <- TwoBrowsers
    NoId = NoId
    Kill = Kill
    Absent = Absent
    Ops = {"put", "remove", "abandon", "liquidOn", "reentrance"}
    MaxOps = 2
    Overlap = 1
    UrlIds = FALSE
    Expiry = "never"
    Faults = FALSE
INVARIANTS SessionIsolation CookieNamesRecord NoSecondCopy
PROPERTIES ImplementsContract
