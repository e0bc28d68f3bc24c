SPECIFICATION Spec
CONSTANTS
    c1 = c1
    c2 = c2
    c3 = c3
    Calls = {c1, c2, c3}
    Fetches = {c1}
    NoCall = NoCall
    shop = shop
    blog = blog
    Domains = {shop, blog}
    DomainOf <- MCDomainOf
    Wanted <- MCWanted
    Delay = 1
    StaleThreshold = 2
    MaxDomains = 1
    Octets <- MCOctets
    Dotted <- MCDotted
    Answers4 <- MCAnswers4
    Answers6 <- MCAnswers6
    Literals = {"private4", "mapped4"}
    OtherScheme = "ftp"
    AllowPrivateIps = FALSE
    DnsFailPolicy = "open"
    MaxRedirects = 1
    MaxBodyBytes = 2
    NoIp = "none"
INVARIANT TypeOK
INVARIANT HopPinned
INVARIANT RangesExact
INVARIANT TimeoutIsDeadline
INVARIANT BodiesSettled
INVARIANT WithinLimits
PROPERTY GrantsSpaced
PROPERTY WaitersServed
PROPERTY ConnectionsFreed
PROPERTY FetchEnds
CHECK_DEADLOCK FALSE
