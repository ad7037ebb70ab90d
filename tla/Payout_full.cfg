SPECIFICATION Spec
CONSTANTS
    ada = ada
    b1 = b1
    b2 = b2
    r1 = r1
    r2 = r2
    r3 = r3
    w1 = w1
    w2 = w2
    w3 = w3
    Users <- OneUser
    Bills <- OneBill
    Refs = {r1, r2}
    Workers = {w1, w2}
    Jobs <- AnyJob
    Owner <- OwnedByAda
    BillOf <- ForB1
    Amount <- Naira
    Fee = 1
    MaxRetries = 2
    Deposit <- Deposit3
    Faults = {"reply_lost", "crash", "otp", "processing_reply"}
    Nobody = Nobody
    NoBill = NoBill
    NoRef = NoRef
INVARIANTS TypeOK NonNegativeBalance PaidMeansTransferred ChargedMeansAccepted OnePayoutPerWallet IInv
CHECK_DEADLOCK FALSE
SYMMETRY Symmetry
