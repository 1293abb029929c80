SPECIFICATION FairQueueSpec
CONSTANTS
    w1 = w1
    w2 = w2
    p1 = p1
    p2 = p2
    Workers = {w1, w2}
    Projects = {p1, p2}
    Unlucky = {w1}
    Nobody = Nobody
INVARIANTS BootstrapSucceeds
PROPERTIES ImplementsMutex BootstrapReturns
