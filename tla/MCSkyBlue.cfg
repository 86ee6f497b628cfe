SPECIFICATION SkySpec
CONSTANTS
    Procs = {p1, p2, p3}
    NoProc = NoProc
    MaxLogins = 2
    MaxStalls = 1
INVARIANTS
    LockIsHeld
    NoNeedlessLogin
    PauseRespected
SYMMETRY ProcSymmetry
