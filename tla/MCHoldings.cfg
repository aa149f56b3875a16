SPECIFICATION PageSpec
CONSTANTS
    a = a
    b = b
    Vals = {a, b}
    Files <- MCFiles
    Keys = {key}
    None = None
    Nothing = Nothing
    FirstBook <- MCFirstBook
    FirstPlan = "jade"
    Cap <- MCCap
    MaxVersion = 4
    Batch = 1
    Allowed <- MCAllowed
    Jobs = {job}
    Workers = {w1, w2}
    Rescuers = {hook, sweep}
    Faults = 2
INVARIANTS
    VersionTellsBook
    RollbackExact
    AppliedOnce
PROPERTIES
    RowsWithinCap
    RollbackAsShown
    ResultStands
    JobsEnd
CHECK_DEADLOCK FALSE
