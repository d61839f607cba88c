SPECIFICATION MCSpec
CONSTANTS
    Instances = {"a", "b"}
    DayMinutes = 2
    MinuteDays = 2
    MinuteEvents = 4
    Queries = {"q"}
    QueryDays = 2
    RowLimit = 1
    QueryTurns = 3
    PoolClients = {"p", "q"}
    PoolStocks = {"a", "b"}
    PoolCodes = {"x"}
    PoolIds = 3
    PoolTurns = 5
    KeyIds = {1, 2, 3}
    KeyKind <- SomeKinds
    KeySecrets = {1, 2}
    KeyConfigs = {"a", "b"}
    KeyTests = {"t"}
    KeyTurns = 4
    SkillChains = {"c"}
    SkillLength = 3
    SkillsKeyed = {1, 3}
    SkillKeys = {1, 2, 3}
    BrokenKeys = {2}
    MinItems = 2
    SkillTurns = 2
    BoardDates = 3
    BoardStocks = {"a", "b"}
    BoardLookback = 2
    BoardMarkets <- MCMarkets
    BoardQueries = 2
    ReviewDates = 3
    ReviewStocks = {"a", "b"}
    ListedStocks = {"a"}
    ReviewTurns = 2
    ReviewRuns = 2
    RoundStocks = {1, 2, 3}
    RoundConcepts = {1, 2}
    ConceptStocks <- MCConcepts
    RoundChanges <- MCMoves
    RoundHeats = {0, 1}
    BreadthShare = 65
    TopConcepts = 2
    LeaderConcepts = 1
    MinMove = 1
    KeptPoints = 2
    KeptEvents = 6
    RoundEvents = 3
    MaxRounds = 3
    RoundDays = 2
    RoundTurns = 1
INVARIANTS
    DerivedSound
    ServedSound
PROPERTIES
    CoreCompleted
    RealtimeSteps
CHECK_DEADLOCK FALSE
