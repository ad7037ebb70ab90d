SPECIFICATION Spec
CONSTANTS
    ada = ada
    b1 = b1
    b2 = b2
    r1 = r1
    r2 = r2
    r3 = r3
    w1 = w1
    w2 = w2
    w3 = w3
    Users <- OneUser
    Bills <- OneBill
    Refs = {r1, r2}
    Workers = {w1, w2}
    Jobs <- RequestAndAutopay
    Owner <- OwnedByAda
    BillOf <- ForB1
    Amount <- Naira
    Fee = 1
    MaxRetries = 2
    Deposit <- Deposit4
    Faults = {}
    Nobody = Nobody
    NoBill = NoBill
    NoRef = NoRef
INVARIANTS OneLiveTransfer
CHECK_DEADLOCK FALSE
