SPECIFICATION FairSpec
CONSTANTS
    Coordinators = {c1, c2}
    NoOne = NoOne
    LeaseTtl = 9
    PollEvery = 2
    MaxDelay = 1
    Prompt = TRUE
    MaxShutdowns = 1
    MaxErrors = 2
    MaxCrashes = 1
INVARIANTS TypeOK AtMostOneLeader LeaderHasLease
PROPERTY TakeOverUndisturbed
CHECK_DEADLOCK FALSE
