CONSTANTS
    Backends = {"b1", "b2", "b3", "b4"}
    Requests = {1, 2}
    NoRequest = 0
    Route <- TwoRoutes
    IndexModulus = 4
    MarksAllowed = FALSE
    MaxServed = 4
SPECIFICATION MCSpec
INVARIANT ConsecutiveAreDistinct
