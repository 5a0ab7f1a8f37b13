SPECIFICATION FarmSpec
CONSTANTS
    c1 = c1
    c2 = c2
    m1 = m1
    m2 = m2
    k1 = k1
    k2 = k2
    None = None
    Empty = Empty
    Absent = Absent
    Keys = {k1, k2}
    Pages = {c1, m1, m2}
    ManagedPages = {m1, m2}
    CorePages = {m2}
    Ops = {"put", "remove", "removeAll", "expire"}
    MaxOps = 2
    Overlap = 3
    Readd = TRUE
    QuietLoads = FALSE
    Faults = TRUE
INVARIANTS FarmTypeOK GhostsExplained
SYMMETRY AnyName
