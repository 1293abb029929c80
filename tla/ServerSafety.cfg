SPECIFICATION Spec
CONSTANTS
    r1 = r1
    r2 = r2
    r3 = r3
    q1 = q1
    w1 = w1
    w2 = w2
    a = a
    b = b
    p = p
    g = g
    Requests = {r1, r2, r3, q1}
    AsyncRequests = {}
    Workers = {w1, w2}
    Backlog = 2
    Results <- BuildInfo
    NoRequest = NoRequest
    NoResult = NoResult
    JobIDs = {a, b}
    Job <- MCJob
    Projects = {p}
    Project <- MCProject
    Groups = {g}
    Group <- MCGroup
    NoGroup = NoGroup
    NoJob = NoJob
    NoDir = NoDir
    ContainerExits = {0, 1}
    Faults = {"coalesce", "cache", "remove", "project", "bootstrap", "latest", "builddir",
              "persist", "params", "image", "container", "logs", "close", "final",
              "rename", "unlink", "symlink", "prune"}
    MaxFaults = 1
    MaxCrashes = 1
SYMMETRY MCSymmetry
CHECK_DEADLOCK FALSE
INVARIANTS
    TypeOK
    BuildExclusion
    SomeoneCanWork
    LatestIsSuccessful
    AnswerHasArtifacts
    CloneSourceIntact
    MovesNeverCollide
    LinkIsKept
    PendingIsOwned
PROPERTIES
    SuccessIsPermanent
    FailedBuildIsRestarted
    ImplementsStore
