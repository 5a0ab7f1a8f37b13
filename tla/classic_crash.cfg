SPECIFICATION Spec
CONSTANTS
    r1 = r1
    r2 = r2
    r3 = r3
    b1 = b1
    b2 = b2
    Requests = {r1, r2, r3}
    Browsers = {b1, b2}
    BrowserOf <- TwoBrowsers
    NoId = NoId
    Kill = Kill
    Absent = Absent
    Ops = {"put", "abandon", "readonlyOn", "flush"}
    MaxOps = 2
    Overlap = 1
    UrlIds = FALSE
    Expiry = "idle"
    Faults = TRUE
PROPERTIES ImplementsContract
