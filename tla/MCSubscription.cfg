SPECIFICATION FairSpec
CONSTANTS
    None = None
    r = r
    u = u
    weekly = weekly
    daily = daily
    jade = jade
    account = account
    delivery = delivery
    m1 = m1
    Users <- MCUsers
    Ids <- MCIds
    Subscribers <- MCSubscribers
    Briefing <- MCBriefing
    DefaultCadence = daily
    Jade = jade
    Fee <- MCFee
    JadeDiscountFee = 4
    JadeDiscountPeriods = 1
    SignupGrant = 5
    RateNum = 1
    RateDen = 2
    Months <- MCMonths
    LastDay = 6
    Addresses = {account}
    Bouncing = {account}
    TopUps = {m1}
    TopUpAmounts = {4}
    InitialInviter <- MCInviter
    LegacyCadence <- MCLegacy
    LateDates = FALSE
INVARIANTS
    CadenceMatchesType
    PeriodsArePaid
    ChargesAddUp
PROPERTIES
    PromiseKept
    OverdueIsSettled
CHECK_DEADLOCK FALSE
