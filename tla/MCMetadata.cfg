CONSTANTS
    Upload = {u1, u2}
    Slot = {s1, s2}
    None = None
    MaxAttempts = 1
SPECIFICATION Spec
SYMMETRY Symmetry
CHECK_DEADLOCK FALSE
INVARIANTS
    TypeOK
    LiveFileBacked
    ActiveIsCurrent
    JobMeansDisposed
    PendingIsOpen
PROPERTY ImplementsNamespace
