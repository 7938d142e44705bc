CONSTANTS
    Requests = {r1, r2}
    Threads = {t1, t2, t3}
    NoRequest = NoRequest
SPECIFICATION FairClientSpec
INVARIANTS ClientTypeOK CallbackAtMostTwice OutstandingIsWatched
PROPERTIES SecondCallNeedsOverlap  EveryRequestIsCalledBack
