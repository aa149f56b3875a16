SPECIFICATION Spec
CONSTANTS
    scheduled = scheduled
    manual = manual
    j1 = j1
    n1 = n1
    home = home
    other = other
    w1 = w1
    w2 = w2
    Rows = {scheduled, manual}
    Scheduled = {scheduled}
    Jobs = {j1}
    News = {n1}
    Published <- MCPublished
    Addresses = {home, other}
    Account = home
    Bad = {home}
    None = None
    Backfill = Backfill
    Workers = {w1, w2}
    Late = 2
    Cap = 2
    MaxRetries = 1
    Budgets <- MCBudgets
INVARIANTS
    NothingSkipped
    BlockedNeverMailed
    OneTextMailed
    NewsShownOnce
PROPERTIES
    OnlyBouncedRevoked
SYMMETRY Symmetry
CHECK_DEADLOCK FALSE
