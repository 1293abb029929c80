SPECIFICATION DockerSpec
CONSTANTS
    a = a
    b = b
    p = p
    old = old
    new = new
    Jobs = {a, b}
    ProjectOf <- MCProjectOf
    VersionOf <- MCVersionOf
    RebuildVersion <- MCRebuildVersion
    ExitCodes = {0, 1}
    FaultPoints <- AnyFault
    MaxContainers = 3
    MaxFaults = 1
    MaxCrashes = 1
    MaxRebuilds = 1
    NoJob = NoJob
    NoImage = NoImage
    NoCode = NoCode
CHECK_DEADLOCK FALSE
INVARIANTS LeftoversDoNotBlock ImageIsThere ExitCodeIsOwn ExitCodeIsReturned
SYMMETRY JobSymmetry
