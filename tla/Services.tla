------------------------------ MODULE Services ------------------------------
(***************************************************************************)
(* The parts that serve what is stored, each an instance with variables    *)
(* of its own: the factor row the provider and the calculation share, the  *)
(* minute bars the instances share through Redis, the queries of market    *)
(* data, the stock pools, the configuration centre with the runtime that   *)
(* uses its keys, the chains of skills, the post-close board, the daily    *)
(* review and the events of the realtime dashboard.  They share no state:  *)
(* a behaviour is of one part and the variables of the others are 0.       *)
(***************************************************************************)
EXTENDS Integers, FiniteSets

CONSTANTS
    Instances, DayMinutes, MinuteDays, MinuteEvents,   \* minute bars
    Queries, QueryDays, RowLimit, QueryTurns,          \* queries of market data
    PoolClients, PoolStocks, PoolCodes, PoolIds, PoolTurns,
    KeyIds, KeyKind, KeySecrets, KeyConfigs, KeyTests, KeyTurns, \* keys of the centre
    SkillChains, SkillLength, SkillsKeyed, SkillKeys, BrokenKeys, MinItems, SkillTurns,
    BoardDates, BoardStocks, BoardLookback, BoardMarkets, BoardQueries,
    ReviewDates, ReviewStocks, ListedStocks, ReviewTurns, ReviewRuns,
    RoundStocks, RoundConcepts, ConceptStocks, RoundChanges, RoundHeats, BreadthShare,
    TopConcepts, LeaderConcepts, MinMove, KeptPoints, KeptEvents, RoundEvents,
    MaxRounds, RoundDays, RoundTurns                   \* rounds of the dashboard

\* A page has at least one row (every limit of market_data/api.py is ge=1); the seeded pool
\* has the first of the ids; ids of keys are in the order of their priority; every chain of
\* CAPABILITY_CHAINS has a skill and wants an item (CAPABILITY_MIN_RESULTS, 1 where it names none);
\* a ladder goes back over two dates at least (latest_post_close_limit_events); only a concept
\* with a quote is ranked (_build_sector_strength), and the timeline keeps a point.
ASSUME PageAssumption == QueryDays \in Nat /\ RowLimit \in Nat \ {0}
ASSUME PoolAssumption == PoolIds \in Nat \ {0}
ASSUME KeyAssumption == KeyIds \subseteq Nat
ASSUME SkillAssumption == SkillLength \in Nat \ {0} /\ MinItems \in Nat \ {0}
ASSUME DatesAssumption == BoardDates \in Nat /\ BoardLookback \in Nat \ {0} /\ ReviewDates \in Nat
ASSUME RoundAssumption ==
  /\ IsFiniteSet(RoundStocks) /\ RoundStocks \subseteq Nat \ {0}
  /\ IsFiniteSet(RoundConcepts) /\ RoundConcepts \subseteq Nat \ {0}
  /\ \A k \in RoundConcepts : ConceptStocks[k] # {} /\ ConceptStocks[k] \subseteq RoundStocks
  /\ RoundChanges \subseteq Int /\ RoundHeats \subseteq Int
  /\ TopConcepts \in Nat /\ KeptPoints \in Nat \ {0} /\ KeptEvents \in Nat /\ RoundEvents \in Nat

VARIABLES part,       \* the part a behaviour is of
    factorRow, rowFacts,
    minuteNow, minuteLeader, minuteBars, minuteMeta, barsSent, barsHash,
    minuteRound, minutePage, cooledDown, barsAtRisk, minuteTurns,
    queryCap, queryToday, queryRows, queryAudits, query, queryTurns,
    poolRows, poolMembers, poolPolicy, poolNextId, poolActive, poolOwner,
    poolCands, poolRequest, poolTurns,
    keyRows, keyOptions, keyDefault, keyTest, keyRuntime, keyTurns,
    skillOn, skillFails, skillChain, skillFiles, skillRunning, skillLog, skillTurns,
    ladderMarket, ladderBars, ladderStored, ladderAudited, ladderCached,
    ladderFresh, ladderShown, ladderQueries,
    reviewLimit, reviewComplete, reviewScore, reviewEvidence, reviewSummary,
    reviewJob, reviewFresh, reviewTurns, reviewRuns,
    roundDay, roundQuotes, quotesDay, roundHistory, conceptRanks, conceptLeaders,
    roundBreadth, roundKeys, roundCount, roundTurns

rowVars == <<factorRow, rowFacts>>
minuteVars == <<minuteNow, minuteLeader, minuteBars, minuteMeta, barsSent, barsHash,
                minuteRound, minutePage, cooledDown, barsAtRisk, minuteTurns>>
queryVars == <<queryCap, queryToday, queryRows, queryAudits, query, queryTurns>>
poolVars == <<poolRows, poolMembers, poolPolicy, poolNextId, poolActive, poolOwner,
              poolCands, poolRequest, poolTurns>>
keyVars == <<keyRows, keyOptions, keyDefault, keyTest, keyRuntime, keyTurns>>
skillVars == <<skillOn, skillFails, skillChain, skillFiles, skillRunning, skillLog, skillTurns>>
ladderVars == <<ladderMarket, ladderBars, ladderStored, ladderAudited, ladderCached,
                ladderFresh, ladderShown, ladderQueries>>
reviewVars == <<reviewLimit, reviewComplete, reviewScore, reviewEvidence, reviewSummary,
                reviewJob, reviewFresh, reviewTurns, reviewRuns>>
roundVars == <<roundDay, roundQuotes, quotesDay, roundHistory, conceptRanks, conceptLeaders,
               roundBreadth, roundKeys, roundCount, roundTurns>>

Factor == INSTANCE FactorRow WITH row <- factorRow, facts <- rowFacts
Shared == INSTANCE RealtimeMinutes WITH
    Procs <- Instances, MaxMinute <- DayMinutes, MaxDay <- MinuteDays,
    MaxEvents <- MinuteEvents, now <- minuteNow, leader <- minuteLeader,
    minutes <- minuteBars, meta <- minuteMeta, sent <- barsSent, hash <- barsHash,
    round <- minuteRound, page <- minutePage, cooled <- cooledDown,
    atRisk <- barsAtRisk, events <- minuteTurns
Market == INSTANCE QueryModes WITH
    Clients <- Queries, LastDay <- QueryDays, Limit <- RowLimit,
    MaxTurns <- QueryTurns, cap <- queryCap, today <- queryToday,
    stored <- queryRows, audits <- queryAudits, request <- query, turns <- queryTurns
Pooled == INSTANCE StockPools WITH
    Clients <- PoolClients, Stocks <- PoolStocks, Codes <- PoolCodes,
    MaxIds <- PoolIds, MaxTurns <- PoolTurns, pools <- poolRows,
    members <- poolMembers, policy <- poolPolicy, nextId <- poolNextId,
    active <- poolActive, owner <- poolOwner, cands <- poolCands,
    request <- poolRequest, turns <- poolTurns
Centre == INSTANCE ConfigValues WITH
    Values <- KeyIds, Kind <- KeyKind, Secrets <- KeySecrets,
    Configs <- KeyConfigs, Testers <- KeyTests, MaxTurns <- KeyTurns,
    values <- keyRows, options <- keyOptions, default <- keyDefault,
    test <- keyTest, runtime <- keyRuntime, turns <- keyTurns
Skill == INSTANCE SkillRuns WITH
    Chains <- SkillChains, Length <- SkillLength, Keyed <- SkillsKeyed,
    Keys <- SkillKeys, Broken <- BrokenKeys, MaxTurns <- SkillTurns, on <- skillOn,
    fails <- skillFails, chain <- skillChain, files <- skillFiles,
    running <- skillRunning, log <- skillLog, turns <- skillTurns
Ladder == INSTANCE PostCloseBoard WITH
    LastDate <- BoardDates, Stocks <- BoardStocks, Lookback <- BoardLookback,
    Markets <- BoardMarkets, MaxQueries <- BoardQueries, market <- ladderMarket,
    bars <- ladderBars, stored <- ladderStored, audited <- ladderAudited,
    cached <- ladderCached, fresh <- ladderFresh, shown <- ladderShown,
    queries <- ladderQueries
Daily == INSTANCE DailyReview WITH
    LastDate <- ReviewDates, Stocks <- ReviewStocks, Listed <- ListedStocks,
    MaxTurns <- ReviewTurns, MaxRuns <- ReviewRuns, limit <- reviewLimit,
    complete <- reviewComplete, score <- reviewScore, evidence <- reviewEvidence,
    summary <- reviewSummary, job <- reviewJob, fresh <- reviewFresh,
    turns <- reviewTurns, runs <- reviewRuns
Dashboard == INSTANCE RealtimeBoard WITH
    Stocks <- RoundStocks, Concepts <- RoundConcepts, Members <- ConceptStocks,
    Changes <- RoundChanges, Heats <- RoundHeats, Share <- BreadthShare,
    MaxDay <- RoundDays, MaxTurns <- RoundTurns, day <- roundDay, quotes <- roundQuotes,
    memory <- roundHistory, ranks <- conceptRanks, leaders <- conceptLeaders,
    breadth <- roundBreadth, redis <- roundKeys, rounds <- roundCount, turns <- roundTurns

-----------------------------------------------------------------------------
RowBlank == factorRow = 0 /\ rowFacts = 0
MinuteBlank ==
  /\ minuteNow = 0 /\ minuteLeader = 0 /\ minuteBars = 0 /\ minuteMeta = 0
  /\ barsSent = 0 /\ barsHash = 0 /\ minuteRound = 0 /\ minutePage = 0
  /\ cooledDown = 0 /\ barsAtRisk = 0 /\ minuteTurns = 0
QueryBlank ==
  /\ queryCap = 0 /\ queryToday = 0 /\ queryRows = 0 /\ queryAudits = 0
  /\ query = 0 /\ queryTurns = 0
PoolBlank ==
  /\ poolRows = 0 /\ poolMembers = 0 /\ poolPolicy = 0 /\ poolNextId = 0
  /\ poolActive = 0 /\ poolOwner = 0 /\ poolCands = 0 /\ poolRequest = 0
  /\ poolTurns = 0
KeyBlank ==
  /\ keyRows = 0 /\ keyOptions = 0 /\ keyDefault = 0 /\ keyTest = 0
  /\ keyRuntime = 0 /\ keyTurns = 0
SkillBlank ==
  /\ skillOn = 0 /\ skillFails = 0 /\ skillChain = 0 /\ skillFiles = 0
  /\ skillRunning = 0 /\ skillLog = 0 /\ skillTurns = 0
LadderBlank ==
  /\ ladderMarket = 0 /\ ladderBars = 0 /\ ladderStored = 0 /\ ladderAudited = 0
  /\ ladderCached = 0 /\ ladderFresh = 0 /\ ladderShown = 0 /\ ladderQueries = 0
ReviewBlank ==
  /\ reviewLimit = 0 /\ reviewComplete = 0 /\ reviewScore = 0 /\ reviewEvidence = 0
  /\ reviewSummary = 0 /\ reviewJob = 0 /\ reviewFresh = 0 /\ reviewTurns = 0
  /\ reviewRuns = 0
RoundBlank ==
  /\ roundDay = 0 /\ roundQuotes = 0 /\ quotesDay = 0 /\ roundHistory = 0
  /\ conceptRanks = 0 /\ conceptLeaders = 0 /\ roundBreadth = 0 /\ roundKeys = 0
  /\ roundCount = 0 /\ roundTurns = 0

ServicesInit ==
  /\ IF part = "row" THEN Factor!Init ELSE RowBlank
  /\ IF part = "bars" THEN Shared!Init ELSE MinuteBlank
  /\ IF part = "query" THEN Market!Init ELSE QueryBlank
  /\ IF part = "pool" THEN Pooled!Init ELSE PoolBlank
  /\ IF part = "config" THEN Centre!Init ELSE KeyBlank
  /\ IF part = "skill" THEN Skill!Init ELSE SkillBlank
  /\ IF part = "ladder" THEN Ladder!Init ELSE LadderBlank
  /\ IF part = "review" THEN Daily!Init ELSE ReviewBlank
  /\ IF part = "board" THEN Dashboard!Init ELSE RoundBlank

ServicesNext ==
  /\ \/ /\ part = "row" /\ Factor!Next
        /\ UNCHANGED <<minuteVars, queryVars, poolVars, keyVars, skillVars, ladderVars, reviewVars, roundVars>>
     \/ /\ part = "bars" /\ Shared!Next
        /\ UNCHANGED <<rowVars, queryVars, poolVars, keyVars, skillVars, ladderVars, reviewVars, roundVars>>
     \/ /\ part = "query" /\ Market!Next
        /\ UNCHANGED <<rowVars, minuteVars, poolVars, keyVars, skillVars, ladderVars, reviewVars, roundVars>>
     \/ /\ part = "pool" /\ Pooled!Next
        /\ UNCHANGED <<rowVars, minuteVars, queryVars, keyVars, skillVars, ladderVars, reviewVars, roundVars>>
     \/ /\ part = "config" /\ Centre!Next
        /\ UNCHANGED <<rowVars, minuteVars, queryVars, poolVars, skillVars, ladderVars, reviewVars, roundVars>>
     \/ /\ part = "skill" /\ Skill!Next
        /\ UNCHANGED <<rowVars, minuteVars, queryVars, poolVars, keyVars, ladderVars, reviewVars, roundVars>>
     \/ /\ part = "ladder" /\ Ladder!Next
        /\ UNCHANGED <<rowVars, minuteVars, queryVars, poolVars, keyVars, skillVars, reviewVars, roundVars>>
     \/ /\ part = "review" /\ Daily!Next
        /\ UNCHANGED <<rowVars, minuteVars, queryVars, poolVars, keyVars, skillVars, ladderVars, roundVars>>
     \/ /\ part = "board" /\ Dashboard!Next
        /\ UNCHANGED <<rowVars, minuteVars, queryVars, poolVars, keyVars, skillVars, ladderVars, reviewVars>>
  /\ UNCHANGED part

servicesVars == <<rowVars, minuteVars, queryVars, poolVars, keyVars, skillVars,
                 ladderVars, reviewVars, roundVars, part>>

ServicesSpec == ServicesInit /\ [][ServicesNext]_servicesVars

-----------------------------------------------------------------------------
(* The properties of the instances; the modules state them.                *)

\* What the instances share of the minute bars, what a query answers, what a
\* pool contains, the one key a round asks with, what a chain of skills returns
\* and records, the rungs of the ladder and the boards of the review.
ServedSound ==
  /\ part = "bars" => Shared!SharedWhole
  /\ part = "query" => Market!EnvelopeTrue
  /\ part = "pool" => Pooled!PoolsSound
  /\ part = "config" => Centre!PoolOfOneKey
  /\ part = "skill" => Skill!SkillsSound
  /\ part = "ladder" => Ladder!BoardTrue
  /\ part = "review" => Daily!BoardsSound

\* What a calculation may leave open of the columns it completes, what a test
\* of a key and a round may do with the keys, which rungs a board that is read
\* may miss, and which events a round of the dashboard tells.
CoreCompleted ==
  [][/\ part = "row" => Factor!CalculationCompletes
     /\ part = "config" => Centre!KeysSound
     /\ part = "ladder" => Ladder!RungsExplained
     /\ part = "board" => Dashboard!EventsTrue]_servicesVars

-----------------------------------------------------------------------------
(* Values for TLC.                                                         *)

SomeKinds == [v \in 1 .. 3 |-> IF v = 2 THEN "tushare" ELSE "tickflow"]
=============================================================================
