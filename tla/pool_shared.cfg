SPECIFICATION FairSpec
CONSTANTS
    NoConn = NoConn
    Users = {u1, u2, u3}
    Conns = {c1, c2, c3}
    Threads = {t1, t2}
    Faults = {"connect", "timer"}
INVARIANTS TypeOK NoSharing PoolBounded TimerHasThread
PROPERTIES WatchedAreErased
