SPECIFICATION FarmSpec
CONSTANTS
    c1 = c1
    c2 = c2
    m1 = m1
    m2 = m2
    k1 = k1
    k2 = k2
    None = None
    Empty = Empty
    Absent = Absent
    Keys = {k1}
    Pages = {c1, m1}
    ManagedPages = {m1}
    CorePages = {}
    Ops = {"put"}
    MaxOps = 1
    Overlap = 1
    Readd = FALSE
    QuietLoads = FALSE
    Faults = FALSE
INVARIANTS GhostsAreDead
