CONSTANTS
    Owner = o
    Others = {u}
    Stranger = s
    Requests = {r1, r2, r3}
    Paths = {p1}
    NoPath = NoPath
    GitUrl = TRUE
SPECIFICATION MCSpec
INVARIANTS ScannerTypeOK ScansAreFinished NoOrphans DuplicatesNeedRace PartNeedsDamage NobodyWaitsForever
PROPERTIES AnswersAreTrue LoneRequestsSucceed
CHECK_DEADLOCK FALSE
