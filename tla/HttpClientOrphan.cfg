CONSTANTS
    Requests = {r1}
    Threads = {t1, t2}
    NoRequest = NoRequest
SPECIFICATION ClientSpec
INVARIANT NoOrphanConnection
CHECK_DEADLOCK FALSE
