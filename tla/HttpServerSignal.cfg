CONSTANTS
    Connections = {c1}
    Threads = {t1, t2}
    NoConnection = NoConnection
SPECIFICATION FairServerSpec
PROPERTY EverySignalEndsMain
CHECK_DEADLOCK FALSE
