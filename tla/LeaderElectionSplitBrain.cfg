SPECIFICATION FairSpec
CONSTANTS
    Coordinators = {c1, c2}
    NoOne = NoOne
    LeaseTtl = 9
    PollEvery = 2
    MaxDelay = 1
    Prompt = FALSE
    MaxShutdowns = 0
    MaxErrors = 0
    MaxCrashes = 0
PROPERTY SplitBrainHeals
CHECK_DEADLOCK FALSE
