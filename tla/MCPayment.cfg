SPECIFICATION PaySpec
CONSTANTS
    u1 = u1
    Txs = {t1}
    Users = {u1}
    UserOf <- MCUserOf
    Items = {i1, i2}
    RetryAfterDecline = TRUE
    MaxCrashes = 1
INVARIANTS
    HandedOnlyIfPaid
    HandedOnce
    CompletedIsClosed
PROPERTIES
    SoldStaysOnBooks
    ImplementsSettlement
