SPECIFICATION FairSpec
CONSTANTS
    j1 = j1  j2 = j2  w1 = w1  u1 = u1  r1 = r1  r2 = r2
    None = None
    Jobs <- TwoJobs
    Workers <- OneWorker
    Doer <- BothByOne
    Requests <- TwoRequests
    Reviews <- TwoReviews
    Reporters <- OneReporter
    Concurrent = TRUE
    Aborts = TRUE
INVARIANTS
    CountsStoredReviews
    RemovalIsLogged
    StaleOnlyIfOvertaken
PROPERTIES
    NoSecondReview
    EveryRequestEnds
