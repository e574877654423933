CONSTANTS
    Upload = {u1, u2}
    Kinds = {"local", "single", "multipart"}
    Slot = {s1}
    None = None
    MaxAttempts = 2
    ClaimLimit = 2
    SweepLimit = 1
    MaxCrashes = 1
    MaxInFlight = 2
SPECIFICATION ServiceSpec
CONSTRAINT BoundedUploads
SYMMETRY Symm
CHECK_DEADLOCK FALSE
INVARIANTS
    ServiceTypeOK
    ContentKept
    DeletingHasJob
    NoFileInDeletedProject
PROPERTY Spec
