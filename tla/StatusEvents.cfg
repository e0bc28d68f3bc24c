SPECIFICATION FairSpec
CONSTANTS
    Consumers = {c1, c2}
    NoOne = NoOne
    Subjects = {u1}
    Updates = {p1, p2}
    MaxLen = 1
    Approximate = TRUE
    BatchSize = 2
    MaxEvents = 2
    MaxUpdates = 2
    MaxBatch = 2
    MaxFaults = 1
INVARIANTS TypeOK NoEventSkipped EventsAreTrue AnnouncedInOrder
PROPERTY Delivered
CHECK_DEADLOCK FALSE
