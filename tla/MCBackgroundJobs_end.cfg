SPECIFICATION MCSpec
CONSTANTS
    q1 = q1
    q2 = q2
    r1 = r1
    r2 = r2
    Requests <- TwoRequests
    Runs <- TwoRuns
    MaxVersion = 2
    Batches = 2
    MaxStarts = 3
    Stocks <- FourStocks
    MaxConcurrent = 2
    BatchSize = 2
    FactorBatch = 2
    Before <- DaysBefore
    Modes = {"append_safe", "rebuild"}
    Answers <- RaisesOrAll
    MaxCancels = 1
INVARIANTS
    VersionsSound
    BatchesAccount
PROPERTIES
    RunSettles
    RunEnds
CHECK_DEADLOCK FALSE
