SPECIFICATION FairSpec
CONSTANTS
    u1 = u1
    home = home
    abroad = abroad
    Users = {u1}
    Holdings = {home, abroad}
    Foreign = {abroad}
    Shares = {1}
    Unreadable = Unreadable
    LastDay = 3
    Lookback = 1
    Retention = 1
    MaxFaults = 1
    MaxEdits = 2
    MaxRetries = 1
PROPERTY FrozenIsPublished
CHECK_DEADLOCK FALSE
