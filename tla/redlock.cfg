SPECIFICATION Spec
CONSTANTS
    Clients = {cont, net}
    cont = cont
    net = net
    ManagedClients = {net}
    ContinueClients = {cont}
    N = 3
    TTL = 1500
    NowGrain = 16
    Skew = 2
    Retries = 2
    MaxCalls <- CallsPerClient
    Moments = {0, 15, 999, 1000, 1498, 2481}
    MaxLost = 1
    NoVal = NoVal
CHECK_DEADLOCK FALSE
INVARIANTS TypeOK SureExclusive SureByQuorum NoLeftovers
PROPERTIES NoForeignRelease
