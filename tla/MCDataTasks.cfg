SPECIFICATION DataSpec
CONSTANTS
    u1 = u1
    home = home
    abroad = abroad
    Users = {u1}
    Holdings = {home, abroad}
    Foreign = {abroad}
    Shares = {1}
    Unreadable = Unreadable
    LastDay = 3
    Lookback = 1
    Retention = 1
    MaxFaults = 1
    MaxEdits = 2
    MaxRetries = 1
    m1 = m1
    m2 = m2
    o1 = o1
    theme = theme
    t1 = t1
    t2 = t2
    Threads = {t1, t2}
    MoverUnits <- MCMovers
    OtherUnits <- MCOthers
    Themes <- MCThemes
    Links <- MCLinks
    Titles <- MCTitles
    Configured = {"tavily", "parallel", "exa"}
    RunCap <- MCRunCap
    MonthLimit <- MCMonthLimit
    Before <- MCBefore
    DualTop = 1
    SearchCap = 3
    Bundle = 2
    BatchUrls = 4
    SearchPrice <- MCSearchPrice
    ExaPrice = 2
    ExaCosts = {3}
    Over = 1
    Allowed <- MCAllowed
    SlotThreads = {t1}
    SlotMovers <- MCSlotMovers
    SlotConfigured = {"tavily"}
    SlotAllowed <- MCSlotAllowed
    x = x
    y = y
    Instruments = {x, y}
    Yuan = {x}
    LastSession = 3
    MaxLag = 1
    MaxAttempts <- MCAttempts
    Cases <- MCCases
    MaxMishaps = 1
INVARIANTS
    ShownIsFrozen
    SpendAccounted
PROPERTIES
    PastIsReplayed
    RecoverySettles
    DeepeningEnds
    FallbackAdmitted
    NoSilentMiss
CHECK_DEADLOCK FALSE
