SPECIFICATION FairPaySpec
CONSTANTS
    u1 = u1
    Txs = {t1}
    Users = {u1}
    UserOf <- MCUserOf
    Items = {i1}
    RetryAfterDecline = TRUE
    MaxCrashes = 1
PROPERTIES
    PaidIsNoticed
    PaidIsDispatched
    AbandonedIsClosed
