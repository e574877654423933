CONSTANTS
    Upload = {u1}
    Kinds = {"multipart"}
    Slot = {s1}
    None = None
    MaxAttempts = 1
    ClaimLimit = 1
    SweepLimit = 1
    MaxCrashes = 0
    MaxInFlight = 9
SPECIFICATION FairServiceSpec
CHECK_DEADLOCK FALSE
PROPERTY OverdueSessionsClose
