SPECIFICATION Spec
CONSTANTS
    None = None
    r = r
    u = u
    weekly = weekly
    daily = daily
    jade = jade
    account = account
    delivery = delivery
    m1 = m1
    Users <- MCUsers
    Ids <- MCIds
    Subscribers <- MCSubscribers
    Briefing <- MCBriefing
    DefaultCadence = daily
    Jade = jade
    Fee <- MCFee
    JadeDiscountFee = 4
    JadeDiscountPeriods = 1
    SignupGrant = 5
    RateNum = 1
    RateDen = 2
    Months <- MCMonths
    LastDay = 6
    Addresses = {account, delivery}
    Bouncing = {}
    TopUps = {m1}
    TopUpAmounts = {4}
    InitialInviter <- MCInviter
    LegacyCadence <- MCNoLegacy
    LateDates = FALSE
INVARIANTS
    UnverifiedIsEnding
CHECK_DEADLOCK FALSE
