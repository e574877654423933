CONSTANTS
    Provider = {p1}
    Flow = {v1, v2}
    Callback = {w1, w2}
    Subject = {x1, x2}
    Email = {e1, e2}
    Member = {m1, m2}
    MaxEdits = 4
    pa = pa
    pb = pb
    Root = root
    Person = {root, u1}
    Project = {pa, pb}
    Backend = {b1}
    Key = {k1}
    Policy <- MCPolicy
    Wish <- MCWish
    Asker = {first, second}
    second = second
    MaxChanges = 1
    Command = {v1, v2, v3}
    MaxSize = 3
    MaxUpload = 18
    MaxVersions = 2
    BasePart = 3
    PartUnit = 2
    PartCount = 4
    Process = {v1, v2}
    Entry = {w1, w2}
    Path = {x1, x2}
    Size = {1, 2}
    MaxShareEdits = 2
    Workers = 2
    Tries = 2
    Parts = 5
    Batch = 3
    MaxRuns = 2
SPECIFICATION PartsSpec
CONSTRAINT PartsBounds
SYMMETRY Symm
CHECK_DEADLOCK FALSE
INVARIANTS
    OneLoginPerFlow
    SameSubjectSameUser
    NothingOfDeletedProviders
    RightsWereHeld
    KeyPermitted
    InitializedIsKept
    OneInitPerDatabase
    PiecesAreTheFile
    FilesAreWhole
    OneFileEach
    CompleteNamesAllParts
    UnfinishedIsRunning
PROPERTIES
    RevocationIsFinal
    ExistingKept
