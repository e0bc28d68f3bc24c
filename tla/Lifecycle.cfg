SPECIFICATION FairSpec
CONSTANTS
    server = server
    consumer = consumer
    frontier = frontier
    StartupPhases <- MCStartupPhases
    Consumer = consumer
    Clients = {frontier}
    DrainTimeout = 3
    TeardownTimeout = 2
    GracePeriod = 6
    SafetyBuffer = 1
    MaxConsecutiveFailures = 2
INVARIANTS TypeOK ShutdownInTime SuccessIsClean
PROPERTIES ShutdownEnds
CHECK_DEADLOCK FALSE
