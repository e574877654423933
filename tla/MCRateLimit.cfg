CONSTANTS
    Client = {c1, c2}
    Share = {share}
    Request = {r1, r2}
    None = None
    ClientLimit = 2
    ShareLimit = 3
    Window = 2
    Ban = 2
    LongBan = 3
    EscalateAfter = 2
    History = 4
    MaxTime = 4
SPECIFICATION LimitSpec
SYMMETRY Symmetry
CHECK_DEADLOCK FALSE
INVARIANTS
    LimitTypeOK
    GuessesBounded
PROPERTY BansHold
