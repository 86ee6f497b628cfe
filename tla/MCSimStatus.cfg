SPECIFICATION FairStatusSpec
CONSTANTS
    Sims = {1}
    PageSize = 2
    MaxCrashes = 1
INVARIANTS
    StatusOnWord
PROPERTIES
    SnapshotNeverOlder
    EndedIsExpired
