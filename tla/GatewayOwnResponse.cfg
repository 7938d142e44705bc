CONSTANTS
    r1 = r1
    r2 = r2
    r3 = r3
    r4 = r4
    r5 = r5
    b1 = b1
    b2 = b2
    b3 = b3
    Requests = {r1, r2}
    Threads = {t1, t2}
    Backends = {b1, b2, b3}
    Route <- Overlapping
    IndexModulus = 4
    Malformed = {r4}
    Unrouted = {r5}
    BadUrls = {b3}
    NoRequest = NoRequest
    NoBackend = NoBackend
    NoThread = NoThread
SPECIFICATION GatewaySpec
INVARIANT ResponseIsOwn
CHECK_DEADLOCK FALSE
