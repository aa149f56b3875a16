SPECIFICATION Spec
CONSTANTS
    None = None
    r = r
    u = u
    t1 = t1
    k1 = k1
    k2 = k2
    k3 = k3
    w1 = w1
    w2 = w2
    a1 = a1
    a2 = a2
    a3 = a3
    m1 = m1
    Users <- MCUsers
    Ids <- MCIds
    Txns <- MCTxns
    Buyer <- MCBuyer
    Credits <- MCCredits
    Total <- MCTotal
    RequestKeys <- MCRequestKeys
    RefundSizes = {2, 5}
    Workers <- MCWorkers
    Adjustments <- MCAdjustments
    AdjustKeys = {}
    AdjustAmounts <- MCAdjustAmounts
    RateNum = 1
    RateDen = 2
    Opening <- MCOpening
    InitialInviter <- MCInviter
    Aging = {}
    Deletable = {}
    Faults = {"commit_fails"}
SYMMETRY Symmetry
INVARIANTS
    BalancesMatchLedger
    RefundsWithinPayment
    ClawbackFollowsRefunds
    LedgerMatchesPaddle
    RejectionRestoresDebit
CHECK_DEADLOCK FALSE
