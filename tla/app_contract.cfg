SPECIFICATION Spec
CONSTANTS
    p1 = p1
    p2 = p2
    p3 = p3
    k1 = k1
    k2 = k2
    None = None
    Empty = Empty
    Absent = Absent
    Keys = {k1, k2}
    Pages = {p1, p2, p3}
    Ops = {"put", "putref", "remove", "removeAll", "expire"}
    MaxOps = 2
    Overlap = 2
    Readd = FALSE
    QuietLoads = TRUE
    Faults = TRUE
INVARIANTS TypeOK
PROPERTIES ImplementsContract
SYMMETRY AnyPageAnyName
