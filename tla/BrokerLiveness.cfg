SPECIFICATION FairBrokerSpec
CONSTANTS
    j1 = j1
    j2 = j2
    c1 = c1
    c2 = c2
    c3 = c3
    Jobs = {j1}
    Clients = {c1, c2}
    JobOf <- MCJobOf
    StalledClients = {}
    MaxLines = 2
    NoClient = NoClient
CHECK_DEADLOCK FALSE
INVARIANTS LinesInOrder
PROPERTIES LeavingClientReturns AllClientsReceive TailersAreClosed
