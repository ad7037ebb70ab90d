SPECIFICATION Spec
CONSTANTS
    ada = ada
    b1 = b1
    b2 = b2
    r1 = r1
    r2 = r2
    r3 = r3
    w1 = w1
    w2 = w2
    w3 = w3
    Users <- OneUser
    Bills <- TwoBills
    Refs = {r1, r2, r3}
    Workers = {w1, w2, w3}
    Jobs <- FreshJobs
    Owner <- OwnedByAda
    BillOf <- ForBoth
    Amount <- Naira
    Fee = 1
    MaxRetries = 2
    Deposit <- Deposit4
    Faults = {"reversal"}
    Nobody = Nobody
    NoBill = NoBill
    NoRef = NoRef
INVARIANTS NeverOvercharged OneLiveTransfer ProcessingIsBacked RetryBudget RefundedStaysUnpaid CommitsFit
PROPERTIES OnlyRefundsGive ImplementsLedger
CHECK_DEADLOCK FALSE
