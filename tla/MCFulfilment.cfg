SPECIFICATION FulfilSpec
CONSTANTS
    Sims = {s1}
    Esims = {e1, e2}
    NoEsim = NoEsim
    Calls = {h1, h2}
    MaxCrashes = 2
INVARIANTS
    AskedOnce
    RedeemedOnce
    CallbackFindsLine
    FailedOnWord
    ShownIsStored
PROPERTIES
    ImplementsDelivery
    Settled
CHECK_DEADLOCK FALSE
