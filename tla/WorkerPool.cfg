SPECIFICATION FairPoolSpec
CONSTANTS
    s1 = s1
    s2 = s2
    s3 = s3
    s4 = s4
    a1 = a1
    w1 = w1
    w2 = w2
    ok = ok
    Requests <- MCRequests
    AsyncRequests <- MCAsyncRequests
    Workers <- MCWorkers
    Results = {ok}
    Backlog = 1
    NoRequest = NoRequest
    NoResult = NoResult
INVARIANTS OneReplyPerItem BoundedWork
PROPERTIES AcceptedIsFinished StopDrains
