SPECIFICATION DeskSpec
CONSTANTS
    ada = ada
    ben = ben
    x1 = x1
    x2 = x2
    x3 = x3
    y1 = y1
    y2 = y2
    z1 = z1
    z2 = z2
    kolomoni = kolomoni
    test = test
    b1 = b1
    People = {ada}
    Tokens = {x1, x2, x3}
    Numbers = {z1, z2}
    BVNs = {z1, z2}
    Devices = {y1, y2}
    AutoProvision = TRUE
    NoOne = NoOne
    NoToken = NoToken
    NoNumber = NoNumber
    NoBVN = NoBVN
    Members = {y1, y2}
    Chats = {z1, z2}
    Codes = {x1, x2, x3}
    Clerks = {z1}
    NoMember = NoMember
    NoChat = NoChat
    NoCode = NoCode
    Institutions = {kolomoni, test}
    BankCodes = {"001", "100025"}
    CodeOf <- OwnCode
    Texts = {"001", "kg", "bank", "misread"}
    Literal <- TypedCode
    Alias <- KnownAlias
    Named <- NamedBanks
    Snapshot = {kolomoni}
    TestBank = test
    Production = FALSE
    Requests = {z1, z2}
    Refresher = z1
    BillIds = {b1}
    AccountNumbers = {y1}
    NoBank = NoBank
    NoBankCode = "none"
    NoBillId = NoBillId
    NoBill = NoBill
    NoAccount = NoAccount
    Same = Same
    r1 = r1
    t1 = t1
    t2 = t2
    w1 = w1
    w2 = w2
    w3 = w3
    Users = {ada, ben}
    Bills = {b1}
    Refs = {r1}
    Workers = {w1, w2, w3}
    Jobs <- PayAndConfirm
    Owner <- OwnedByAda
    BillOf <- ForB1
    Amount <- Naira
    Fee = 1
    MaxRetries = 2
    Deposit <- Deposit2
    Faults = {"crash", "reply_lost"}
    Topups = {t1, t2}
    VATransfers = {t2}
    Payer <- OneEach
    Asked <- AskTwo
    Other <- PayOne
    FundingJobs <- FundingOnly
    Nobody = Nobody
    NoRef = NoRef
INVARIANTS AccTypeOK ExchangedIsDead SignOutHolds ToldIsOnRecord
INVARIANTS LinkTypeOK SpeaksByItsCode OneUserPerChat CodeLinksOnce
INVARIANTS IntakeTypeOK RefreshIsHeeded BankStaysOnRecord PaidAsRecorded
INVARIANTS FundingTypeOK CreditedMeansPaid NoCreditLost CreditCountsOnce WalletInv
SYMMETRY WalletSymmetry
CONSTRAINTS TokensInOrder CodesAsAsked FewTokensBesideRecords
CHECK_DEADLOCK FALSE
