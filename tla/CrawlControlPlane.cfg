SPECIFICATION Spec
CONSTANTS
    home = home
    news = news
    about = about
    w1 = w1
    w2 = w2
    Urls <- MCUrls
    Seeds <- MCTwoSeeds
    Workers <- MCOneWorker
    AllowedUrls <- MCSameSite
    Html <- MCHtml
    FinalUrl <- MCFinalUrl
    Hrefs <- MCTwoHrefs
    Absolute <- MCAbsolute
    NoUrl = NoUrl
    NoWorker = NoWorker
    NoJob = NoJob
    MaxDepth = 0
    MaxAttempts = 2
    MaxStalls = 1
    MaxConsecutiveFailures = 2
    MaxSkipTicks = 1
    Budget = 1
INVARIANT CompletedStateIsDone
CHECK_DEADLOCK FALSE
