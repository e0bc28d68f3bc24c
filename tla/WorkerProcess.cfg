SPECIFICATION Spec
CONSTANTS
    Jobs = {j1, j2}
    Ticks = {t1}
    Dlq = Dlq
    Adapter = Adapter
    Reporter = Reporter
    Entries <- MCEntries
    MaxConcurrency = 2
    MaxAttempts = 2
    MaxStalls = 1
INVARIANT TypeOK
INVARIANT CounterExact
INVARIANT ServedToTheEnd
INVARIANT AlertMeansKept
PROPERTY ShutdownEnds
CHECK_DEADLOCK FALSE
