SPECIFICATION AccessSpec
CONSTANTS
    alice = alice
    bob = bob
    post = post
    p1 = p1
    p2 = p2
    c1 = c1
    c2 = c2
    Emails = {alice, bob}
    InviteIds = {1, 2, 3}
    Subs = {1, 2}
    Sessions = {p1, p2}
    None = None
    Waiting = {alice, bob}
    Limit = 1
    Days = 2
    Budgets <- MCBudgets
    Owner = alice
    Others = {post}
    LinkIds = {1, 2, 3}
    Clerks = {c1, c2}
    Bad = {post}
    MaxRetries = 1
    Allowances <- MCAllowances
    Bounds <- MCBounds
    d1 = d1
    d2 = d2
    t1 = t1
    t2 = t2
    r1 = r1
    r2 = r2
    h1 = h1
    h2 = h2
    s1 = s1
    s2 = s2
    Calls = {d1, d2}
    IdleLimit = 1
    Lifetime = 2
    IdleKept = 4
    LastTime = 7
    MaxOutages = 1
    Tokens = {t1, t2}
    Callers = {r1, r2}
    TokenCap = 1
    Lapse = 1
    Endless = 9
    LastDate = 2
    HeavyTasks = {h1, h2}
    MarkKept = 3
    Cooldown = 2
    Margin = 1
    Fires = {0}
    LastMoment = 5
    MaxFlaws = 1
    Senders = {s1, s2}
    Occasions = 3
    MaxTroubles = 3
INVARIANTS
    EndedStaysEnded
    ActiveTokensCapped
    GateMatchesTasks
    ToldOnce
    OneLiveInvite
    UsersMatchAuth
    AutoLimit
PROPERTIES
    RedeemedWasLive
    VerifiedByLink
SYMMETRY Symmetry
CHECK_DEADLOCK FALSE
