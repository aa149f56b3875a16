SPECIFICATION Spec
CONSTANTS
    None = None
    r = r
    u = u
    t1 = t1
    k1 = k1
    k2 = k2
    k3 = k3
    w1 = w1
    w2 = w2
    a1 = a1
    a2 = a2
    a3 = a3
    m1 = m1
    Users <- MCUsers
    Ids <- MCIds
    Txns <- MCTxns
    Buyer <- MCBuyer
    Credits <- MCCredits
    Total <- MCTotal
    RequestKeys = {k1}
    RefundSizes = {5}
    Workers = {w1, w2}
    Adjustments = {a1}
    AdjustKeys = {m1}
    AdjustAmounts <- MCAdjustAmounts
    RateNum = 1
    RateDen = 2
    Opening <- MCOpening
    InitialInviter <- MCInviter
    Aging = {}
    Deletable = {}
    Faults = {"commit_fails", "answer_lost"}
INVARIANT LedgerMatchesPaddle
CHECK_DEADLOCK FALSE
