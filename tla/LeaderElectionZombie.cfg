SPECIFICATION FairSpec
CONSTANTS
    Coordinators = {c1, c2}
    NoOne = NoOne
    LeaseTtl = 9
    PollEvery = 2
    MaxDelay = 1
    Prompt = TRUE
    MaxShutdowns = 0
    MaxErrors = 1
    MaxCrashes = 0
PROPERTY TakeOver
CHECK_DEADLOCK FALSE
