SPECIFICATION WalletSpec
CONSTANTS
    ada = ada
    ben = ben
    b1 = b1
    r1 = r1
    r2 = r2
    t1 = t1
    t2 = t2
    w1 = w1
    w2 = w2
    w3 = w3
    Users <- TwoUsers
    Bills <- OneBill
    Refs = {r1, r2}
    Workers = {w1, w2, w3}
    Jobs <- AutopayOnly
    Owner <- OwnedByAda
    BillOf <- ForB1
    Amount <- Naira
    Fee = 1
    MaxRetries = 2
    Deposit <- Deposit2
    Faults = {"crash", "reply_lost"}
    Topups = {t1, t2}
    VATransfers = {t2}
    Payer <- OneEach
    Asked <- AskTwo
    Other <- PayOne
    FundingJobs <- FundingOnly
    Nobody = Nobody
    NoBill = NoBill
    NoRef = NoRef
INVARIANTS CreditedOnce
CHECK_DEADLOCK FALSE
