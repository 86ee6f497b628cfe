SPECIFICATION AccountSpec
CHECK_DEADLOCK FALSE
CONSTANTS
    Emails = {e1, e2}
    NoEmail = NoEmail
    Users = {u1, u2}
    Staff = {s1, s2}
    Logins = {l1}
    Files = {f1, f2}
    NoFile = NoFile
    Calls = {c1, c2}
    MaxCodes = 2
    MaxRequests = 5
INVARIANTS
    CodeSpent
    AddressProven
    PictureKept
PROPERTIES
    RevokedStaysOut
CONSTRAINT StaffApart
SYMMETRY AccountSymmetry
