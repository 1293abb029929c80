SPECIFICATION FairClientSpec
CONSTANTS
    c1 = c1
    c2 = c2
    c3 = c3
    Clients = {c1, c2, c3}
    NoWait = {c3}
    ClearTarget = {c1, c2}
    Rsync = {c2}
    Timed = {c1, c3}
    Names <- MCNames
    Hidden = {".env"}
    DotGlob = {c2}
    DirOf <- MCDirOf
    Top = "."
    Outputs <- MCOutputs
    OldFiles <- MCOldFiles
    SameStat = {"lib/a"}
    NoReply = NoReply
CHECK_DEADLOCK FALSE
INVARIANTS ZeroMeansArtifacts TargetKeptUntilSuccess
PROPERTY WaitingEnds
