SPECIFICATION RequestSpec
CONSTANTS
    ProjectNames <- MCProjectNames
    GroupNames <- MCGroupNames
    ParamNames <- MCParamNames
    ParamValues <- MCParamValues
    Tars <- MCTars
    Names <- MCNames
    Values <- MCValues
    MaxArgs = 2
CHECK_DEADLOCK FALSE
INVARIANTS SameJobSameId OneDifferenceTells LineNamesItsJob
