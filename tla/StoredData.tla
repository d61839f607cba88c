----------------------------- MODULE StoredData -----------------------------
(***************************************************************************)
(* The parts that store data, each with variables of its own: the asset    *)
(* cache, the coverage of a day, the emotion models and the price basis    *)
(* (extended), the three history backfills, the two catalogs and the rules *)
(* of the strategies (instances).  They share no state: a behaviour is of  *)
(* one part and the others rest.                                           *)
(***************************************************************************)
EXTENDS DataAssetCache, DataAssetHealth, MarketEmotion, QfqBasis

CONSTANTS
    Crew, RunBound, FaultBound,  \* workers, runs and faults of a backfill
    OpenDates,
    PoolStocks, StockBatch, RowBatch, \* history: the pool and the sizes of a write
    GivenRows, GivenEvents,      \*   and what the provider has
    IndexCodes, SectorCodes, FlowWindows, NorthChannels, GivenTables,  \* entities
    FactorStocks, BarBound, FactorFaults,                              \* factors
    ComponentStocks, ListedSectors, ExpectedStocks, HtmlPages, WeightDates,
    MainlandStocks, ForeignStocks, ListMinimum, UniverseIds, DayBound, ListBound

VARIABLES part,       \* the part a behaviour is of
    stockRows, eventRows, markedDates, historyRun, stockQueue, stockWork,
    historyRuns, historyFaults,
    tableRows, entityRun, entityWork, entityRuns, entityFaults,
    barRows, factorRows, rankedRows, groupRows, chunks, groupQueue, groupWork,
    groupSeats, factorRun, factorRuns, factorFaults,
    sectorRows, sectorMembers, indexMembers, sectorRun, indexRun, catalogRuns,
    stockStatus, universeRows, universeHash, universeAnswer, stockRun, stockDay, stockRuns,
    ruleImpl, ruleConfig, ruleFacts, ruleTrials, ruleStage

historyVars == <<stockRows, eventRows, markedDates, historyRun, stockQueue, stockWork,
                 historyRuns, historyFaults>>
entityVars == <<tableRows, entityRun, entityWork, entityRuns, entityFaults>>
factorVars == <<barRows, factorRows, rankedRows, groupRows, chunks, groupQueue, groupWork,
                groupSeats, factorRun, factorRuns, factorFaults>>
sectorVars == <<sectorRows, sectorMembers, indexMembers, sectorRun, indexRun, catalogRuns>>
stockVars == <<stockStatus, universeRows, universeHash, universeAnswer, stockRun, stockDay,
               stockRuns>>
ruleVars == <<ruleImpl, ruleConfig, ruleFacts, ruleTrials, ruleStage>>

History == INSTANCE HistoryBackfill WITH
    Stocks <- PoolStocks, Dates <- OpenDates, Workers <- Crew, BatchSize <- StockBatch,
    MaxRows <- RowBatch, Traded <- GivenRows, Events <- GivenEvents,
    MaxRuns <- RunBound, MaxFaults <- FaultBound, stored <- stockRows,
    events <- eventRows, marked <- markedDates, run <- historyRun,
    left <- stockQueue, work <- stockWork, runs <- historyRuns, faults <- historyFaults
Entity == INSTANCE EntityBackfill WITH
    Indexes <- IndexCodes, Sectors <- SectorCodes, Windows <- FlowWindows,
    North <- NorthChannels, Dates <- OpenDates, Has <- GivenTables,
    Workers <- Crew, MaxRuns <- RunBound, MaxFaults <- FaultBound,
    rows <- tableRows, run <- entityRun, work <- entityWork, runs <- entityRuns,
    faults <- entityFaults
Factor == INSTANCE FactorBackfill WITH
    Stocks <- FactorStocks, Dates <- OpenDates, Workers <- Crew,
    MaxRuns <- RunBound, MaxFaults <- FactorFaults, MaxBars <- BarBound,
    bars <- barRows, factors <- factorRows, ranked <- rankedRows,
    grouped <- groupRows, tasks <- chunks, queued <- groupQueue, held <- groupWork,
    seats <- groupSeats, run <- factorRun, runs <- factorRuns, faults <- factorFaults
Sector == INSTANCE SectorCatalog WITH
    Stocks <- ComponentStocks, Listed <- ListedSectors, Expected <- ExpectedStocks,
    Pages <- HtmlPages, Dates <- WeightDates, MaxRuns <- RunBound,
    catalog <- sectorRows, members <- sectorMembers, index <- indexMembers,
    run <- sectorRun, irun <- indexRun, runs <- catalogRuns
Stock == INSTANCE StockCatalog WITH
    Mainland <- MainlandStocks, Foreign <- ForeignStocks, MinExpected <- ListMinimum,
    Universes <- UniverseIds, LastDay <- DayBound, MaxRuns <- ListBound,
    status <- stockStatus, members <- universeRows, hashes <- universeHash,
    answered <- universeAnswer, run <- stockRun, today <- stockDay, runs <- stockRuns
Rules == INSTANCE StrategyRules WITH
    impl <- ruleImpl, rule <- ruleConfig, facts <- ruleFacts, trials <- ruleTrials,
    stage <- ruleStage

\* What a provider has are rows of the range; the pipelines have workers, dates are
\* numbers in their order, and an index is no sector, window or channel.
ASSUME CrewAssumption == Crew # {} /\ OpenDates \subseteq Nat /\ RunBound \in Nat
ASSUME GivenRowsAssumption == GivenRows \in [PoolStocks -> SUBSET OpenDates]
ASSUME GivenTablesAssumption ==
  /\ GivenTables \in [Entity!Tables -> SUBSET OpenDates]
  /\ IndexCodes \intersect (SectorCodes \union FlowWindows \union NorthChannels) = {}
ASSUME DayAssumption == DayBound \in Nat \ {0}

-----------------------------------------------------------------------------
Parts == {"cache", "health", "emotion", "qfq", "history", "entity", "factor", "sector",
          "stock", "rules"}

\* Where a part has several initial states it starts in one of them, unless
\* the behaviour is of that part.
PartInit ==
  /\ part \in Parts
  /\ Init /\ EmotionInit
  /\ HealthInit /\ (part # "health" => frequency = "daily" /\ active = {} /\ suspended = {})
  /\ QfqInit /\ (part # "qfq" => A = [d \in Days |-> 0])
  /\ History!Init /\ Entity!Init /\ Factor!Init /\ Sector!Init /\ Stock!Init
  /\ IF part = "rules" THEN Rules!Init
     ELSE ruleImpl = 0 /\ ruleConfig = 0 /\ ruleFacts = 0 /\ ruleTrials = 0 /\ ruleStage = 0

\* A step of one part: the variables of the others stay.
OfStored ==
  \/ part = "cache" /\ Next /\ UNCHANGED <<healthVars, emotionVars, qfqVars>>
  \/ part = "health" /\ HealthNext /\ UNCHANGED <<vars, emotionVars, qfqVars>>
  \/ part = "emotion" /\ EmotionNext /\ UNCHANGED <<vars, healthVars, qfqVars>>
  \/ part = "qfq" /\ QfqNext /\ UNCHANGED <<vars, healthVars, emotionVars>>

OfBackfills ==
  \/ part = "history" /\ History!Next /\ UNCHANGED <<entityVars, factorVars>>
  \/ part = "entity" /\ Entity!Next /\ UNCHANGED <<historyVars, factorVars>>
  \/ part = "factor" /\ Factor!Next /\ UNCHANGED <<historyVars, entityVars>>

OfCatalogs ==
  \/ part = "sector" /\ Sector!Next /\ UNCHANGED <<stockVars, ruleVars>>
  \/ part = "stock" /\ Stock!Next /\ UNCHANGED <<sectorVars, ruleVars>>
  \/ part = "rules" /\ Rules!Next /\ UNCHANGED <<sectorVars, stockVars>>

storedVars == <<vars, healthVars, emotionVars, qfqVars>>
backfillVars == <<historyVars, entityVars, factorVars>>
catalogVars == <<sectorVars, stockVars, ruleVars>>
allVars == <<storedVars, backfillVars, catalogVars, part>>

PartNext ==
  /\ \/ OfStored /\ UNCHANGED <<backfillVars, catalogVars>>
     \/ OfBackfills /\ UNCHANGED <<storedVars, catalogVars>>
     \/ OfCatalogs /\ UNCHANGED <<storedVars, backfillVars>>
  /\ UNCHANGED part

PartSpec == PartInit /\ [][PartNext]_allVars

-----------------------------------------------------------------------------
(* The properties of the instances; the modules state them.                *)

\* What the last run of a backfill leaves, however many rows the runs before
\* it lost.
BackfillsResume == History!FactsResume /\ Entity!LastRunCompletes /\ Factor!RanksFresh

\* What a study of parameters concludes from the candidates of a baseline.
StudySound ==
  part = "rules" => Rules!StricterNotLost /\ Rules!TrialsOnlyRemove /\ Rules!ReplayIsFresh

\* What a run of a catalog may take from the stored stocks and members.
CatalogsKept == [][Sector!CatalogStep /\ Stock!MasterStep]_allVars

-----------------------------------------------------------------------------
(* Values for TLC.                                                         *)

AllKeys == {Keys}
SomeRows == [s \in {1, 2, 3} |-> IF s = 1 THEN {11, 12} ELSE {11}]
SomeEvents == [d \in {11, 12} |-> IF d = 11 THEN {1} ELSE {}]
SomeTables ==
  [t \in {<<i, "rows">> : i \in {"s1", "s2", "v1", "n1", "n2"}} \union
         {"i1", "i2"} \X {"bars", "basics"} |-> IF t[2] = "basics" THEN {11} ELSE {11, 12}]
SomeSectors ==
  [t \in {"concept"} |->
    [l \in {"tushare", "eastmoney", "html"} |->
       CASE l = "tushare" -> {"t1"} [] l = "eastmoney" -> {"e1", "e2"} [] l = "html" -> {"h1"}]]
SomeIndex == [i \in {"i1"} |-> 2]
\* exponents of the factors of three days: each day may have an ex-date
SomeFactors == {f \in [1 .. 3 -> 0 .. 2] :
                  f[1] = 0 /\ f[2] =< f[3]}
=============================================================================
