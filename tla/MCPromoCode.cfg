SPECIFICATION DeskSpec
CONSTANTS
    u1 = u1
    Codes = {c1}
    Txs = {t1, t2}
    Users = {u1}
    UserOf <- MCUserOf
    Agents = {a1, a2}
    NoAgent = NoAgent
    NoCode = NoCode
    MaxLimit = 2
    MaxCredit = 1
    Asks = {q1}
    Rules <- MCRules
    DefaultRules <- Generous
    NoRules = NoRules
INVARIANTS
    UsedCountExact
    WithinLargestLimit
    LedgerSound
    CreditComplete
PROPERTIES
    MadeUnderRules
    StatementFollowsBalance
CONSTRAINT
    DeskAtRest
SYMMETRY DeskSymmetry
