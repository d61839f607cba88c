SPECIFICATION PartSpec
CONSTANTS
    Keys = {"summary"}
    Refreshers = {"r1", "r2"}
    Requests <- AllKeys
    Ttl = 1
    Retention = 3
    LeaseTtl = 2
    None = None
    MaxFacts = 3
    MaxTicks = 4
    MaxCrashes = 1
    Universe = {1, 2, 3}
    Derived = TRUE
    DayBars = 2
    StoredBars = 3
    Models = {"m1", "m2"}
    Users = {"u1"}
    LastDate = 3
    BaselineDays = 2
    EmotionBatch = 1
    MaxEdits = 1
    MaxEmotionRuns = 2
    MaxTurns = 1
    LastDay = 3
    Factors <- SomeFactors
    MaxShift = 1
    MaxQfqRuns = 5
    Crew = {"w1", "w2"}
    RunBound = 2
    FaultBound = 2
    OpenDates = {11, 12}
    PoolStocks = {1, 2, 3}
    StockBatch = 2
    RowBatch = 3
    GivenRows <- SomeRows
    GivenEvents <- SomeEvents
    IndexCodes = {"i1", "i2"}
    SectorCodes = {"s1", "s2"}
    FlowWindows = {"v1"}
    NorthChannels = {"n1", "n2"}
    GivenTables <- SomeTables
    FactorStocks = {"s1", "s2"}
    BarBound = 2
    FactorFaults = 1
    ComponentStocks = {1, 2}
    ListedSectors <- SomeSectors
    ExpectedStocks <- SomeIndex
    HtmlPages = 2
    WeightDates = {1, 2}
    MainlandStocks = {1}
    ForeignStocks = {3}
    ListMinimum = 1
    UniverseIds = {"u1"}
    DayBound = 2
    ListBound = 3
INVARIANTS
    BackfillsResume
    ReadyIsCalibrated
    CoverageAgrees
    StudySound
PROPERTIES
    KeepsPromise
    OneBasis
    NeverUnseated
    CatalogsKept
CHECK_DEADLOCK FALSE
