CONSTANTS
    Upload = {u1}
    Kinds = {"local"}
    Slot = {s1}
    None = None
    MaxAttempts = 2
    ClaimLimit = 2
    SweepLimit = 1
    MaxCrashes = 1
    MaxInFlight = 9
SPECIFICATION FairServiceSpec
CHECK_DEADLOCK FALSE
PROPERTIES
    OverdueSessionsClose
    JobsFinish
