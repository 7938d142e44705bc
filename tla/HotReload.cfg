CONSTANTS
    Paths <- MCPaths
    Rules <- MCRules
    NoRoute = NoRoute
    Configs = {c1, c2}
    Broken = Broken
    Absent = Absent
    InitialConfig = c1
    RoutesOf <- MCRoutesOf
    Requests = {1}
    MaxTime = 2
    MaxEdits = 2
SPECIFICATION FairReloadSpec
INVARIANTS ReloadTypeOK RoutesFollowConfig QuietSearchIsRight
PROPERTIES NewFileIsApplied NobodyHangs
CHECK_DEADLOCK FALSE
