SPECIFICATION FairSpec
CONSTANTS
    Request = {r1, r2}
    MaxRuns = 1
INVARIANTS NothingLeftRunning GracefulStop
PROPERTIES ShutdownCompletes
