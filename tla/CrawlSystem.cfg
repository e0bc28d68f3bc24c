SPECIFICATION FairSpec
CONSTANTS
    home = home
    news = news
    about = about
    w1 = w1
    w2 = w2
    Urls <- MCUrls
    Seeds <- MCSeeds
    Workers <- MCWorkers
    AllowedUrls <- MCUrls
    Html <- MCHtml
    FinalUrl <- MCFinalUrl
    Hrefs <- MCHrefs
    Absolute <- MCAbsolute
    NoUrl = NoUrl
    NoWorker = NoWorker
    NoJob = NoJob
    MaxDepth = 1
    MaxAttempts = 2
    MaxStalls = 1
    MaxConsecutiveFailures = 2
    MaxSkipTicks = 1
    Budget = 2
INVARIANTS TypeOK NoLinkLost
PROPERTIES KeepsPromise VerdictReached
CHECK_DEADLOCK FALSE
