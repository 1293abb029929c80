SPECIFICATION BrokerSpec
CONSTANTS
    j1 = j1
    j2 = j2
    c1 = c1
    c2 = c2
    c3 = c3
    Jobs = {j1, j2}
    Clients = {c1, c2, c3}
    JobOf <- MCJobOf
    StalledClients = {c2}
    MaxLines = 1
    NoClient = NoClient
CHECK_DEADLOCK FALSE
INVARIANTS OneTailerPerJob CloserHasOwnChannel
