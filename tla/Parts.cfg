CONSTANTS
    Connections = {c1, c2}
    Threads = {t1, t2}
    NoConnection = NoConnection
    Backends = {"b1", "b2"}
    Requests = {1, 2, 3}
    NoRequest = 0
    Route <- OneRoute
    IndexModulus = 4
    MarksAllowed = TRUE
    MaxServed = 4
    Files <- SourceFiles
    Folders = {"d1", "d2", "d3"}
    FirstContents <- StatementFolders
    NoFolder = NoFolder
    NoData = NoData
    FolderAtFirst <- PhotoFolder
    DocumentFiles <- RagDocuments
    MaxStores = 2
    k = 2
    Adders = {a1, a2, a3}
    iterNum = 2
    Nobody = Nobody
    size = 5
    threadsNum = 2
    HasUrl <- SomeUrls
    MaxRounds = 2
    MaxTimers = 2
    Trainings <- SaleFiles
    Forecasts <- FilesToPredict
    Methods <- MethodLists
    Days = {0, 3}
    SkillDirs <- SkillFolders
    Words = {"hi", "hello", "bye"}
SPECIFICATION PartsSpec
INVARIANTS PartsTypeOK OneAcceptLoop ConsecutiveAreDistinct LossNeedsTwin  RatingNeverFlatters CountIsExact BatchIsWhole ForecastIsOfItsRow OnlyMatchAnswers
PROPERTIES StopEndsLoop EveryRequestIsAnswered SignalEndsMain UnhealthyIsSkipped CyclesShowInCodeDirectory ExportIsOfFolder
CHECK_DEADLOCK FALSE
