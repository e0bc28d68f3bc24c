SPECIFICATION Spec
CONSTANTS
    c1 = c1
    c2 = c2
    c3 = c3
    shop = shop
    blog = blog
    Calls = {c1, c2, c3}
    Domains = {shop, blog}
    Database = Database
    None = None
    Plans <- MCPlans
    Threshold = 2
    HalfOpenAfter = 1
    MaxAttempts = 1
    MaxConcurrent = 1
    MaxDomains = 1
    MaxTokens = 1
    TokenTicks = 2
INVARIANT TypeOK
INVARIANT BulkheadBound
INVARIANT LazyRefillExact
INVARIANT OpenedByOwnFailures
INVARIANT SavesAgree
PROPERTY ClosedByProbe
PROPERTY FallbackServes
PROPERTY CallsEnd
CHECK_DEADLOCK FALSE
