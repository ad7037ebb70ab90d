SPECIFICATION SchedulerSpec
CONSTANTS
    ada = ada
    b1 = b1
    b2 = b2
    r1 = r1
    r2 = r2
    r3 = r3
    w1 = w1
    w2 = w2
    w3 = w3
    Users <- OneUser
    Bills <- OneBill
    Refs = {r1, r2}
    Workers = {w1, w2}
    Jobs <- SchedulerJobs
    Owner <- OwnedByAda
    BillOf <- ForB1
    Amount <- Naira
    Fee = 1
    MaxRetries = 2
    Deposit <- Deposit4
    Faults = {"otp", "reply_lost"}
    Nobody = Nobody
    NoBill = NoBill
    NoRef = NoRef
    power = power
    Series = {power}
    Interval <- EachTick
    Horizon = 1
    Copies = 2
INVARIANTS RecTypeOK NeverAhead NoPeriodSkipped
PROPERTIES EveryDebitSettles PaidBillsRecur
CHECK_DEADLOCK FALSE
