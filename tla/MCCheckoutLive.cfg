SPECIFICATION FairCheckoutSpec
CONSTANTS
    u1 = u1
    Txs = {t1}
    Users = {u1}
    UserOf <- MCUserOf
    Items = {i1}
    RetryAfterDecline = TRUE
    MaxCrashes = 0
    Codes = {c1}
    Agents = {}
    NoAgent = NoAgent
    NoCode = NoCode
    MaxLimit = 1
    MaxCredit = 0
    DatabaseFails = FALSE
    MaxEdits = 1
PROPERTIES
    VoidReleasesCode
    PaidSettlesCode
