SPECIFICATION CheckoutSpec
CONSTANTS
    u1 = u1
    Txs = {t1}
    Users = {u1}
    UserOf <- MCUserOf
    Items = {i1}
    RetryAfterDecline = TRUE
    MaxCrashes = 1
    Codes = {c1}
    Agents = {a1}
    NoAgent = NoAgent
    NoCode = NoCode
    MaxLimit = 1
    MaxCredit = 1
    DatabaseFails = FALSE
    MaxEdits = 2
INVARIANTS
    ConfirmedIsPaid
    CodeSettledFirst
PROPERTY
    ConfirmEnteredOnce
CONSTRAINTS
    PlainCodes
    OneMishap
