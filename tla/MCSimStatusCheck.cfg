SPECIFICATION StatusSpec
CONSTANTS
    Sims = {1}
    PageSize = 2
    MaxCrashes = 0
INVARIANT
    CheckedIsKnown
