CONSTANTS
    Workers = 2
    Tries = 2
    Parts = 5
    Batch = 3
    MaxRuns = 2
SPECIFICATION ManagerSpec
CHECK_DEADLOCK FALSE
INVARIANT PartsInFlightBounded
