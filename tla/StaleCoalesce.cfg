SPECIFICATION Spec
CONSTANTS
    r1 = r1
    r2 = r2
    r3 = r3
    q1 = q1
    w1 = w1
    w2 = w2
    a = a
    b = b
    p = p
    g = g
    Requests = {r1, r2, r3}
    AsyncRequests = {}
    Workers = {w1, w2}
    Backlog = 2
    Results <- BuildInfo
    NoRequest = NoRequest
    NoResult = NoResult
    JobIDs = {a, b}
    Job <- MCJob
    Projects = {p}
    Project <- MCProject
    Groups = {g}
    Group <- MCGroup
    NoGroup = NoGroup
    NoJob = NoJob
    NoDir = NoDir
    ContainerExits = {0, 1}
    Faults = {}
    MaxFaults = 0
    MaxCrashes = 0
SYMMETRY MCSymmetry
CHECK_DEADLOCK FALSE
PROPERTY CoalescedIsFresh
