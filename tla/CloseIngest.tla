---------------------------- MODULE CloseIngest ----------------------------
(***************************************************************************)
(* The facts and factors of one trading day, and the three jobs that write *)
(* them: DailyMarketCloseIngestService.run                                 *)
(* (python-back/app/modules/market_data/close_ingest.py) as called by the  *)
(* core, enrichment and repair handlers (scheduler_handlers.py).           *)
(*                                                                         *)
(* Each block of a run has a session and a transaction of its own: what    *)
(* it committed stays whatever becomes of the run.  The scheduler admits   *)
(* one run per job, but different jobs may run at the same time.           *)
(*                                                                         *)
(* Row counts are three levels: 0 no row, 1 some rows but under the        *)
(* coverage threshold of a full market, 2 enough rows.  Coverage is        *)
(* nested: a stock counted at level 1 in one table is counted at level 1   *)
(* in the others.  Rows appear and disappear; a row whose values a provider *)
(* corrected later is not told apart from the row it replaces.             *)
(***************************************************************************)
EXTENDS Integers, FiniteSets, FiniteSetsExt

CONSTANTS
    Blocks,    \* the data blocks the day is made of
    Short,     \* blocks whose provider may answer with too few rows
    Fallible,  \* blocks whose provider call or write may fail
    Strict,    \* values of fail_on_enrichment_error an operator uses
    Rebuild,   \* values of "ingest_mode is rebuild" an operator uses
    MaxRuns    \* bound on the runs going at the same time

CoreNames == {"daily", "basic", "adjust", "moneyflow", "indexBars"}
EnrichNames == {"events", "sectorBars", "technical", "lhbEvents", "lhbSeats",
                "indexBasic", "sectorFlow"}

ASSUME BlocksAssumption == /\ Blocks \subseteq CoreNames \union EnrichNames
                           /\ "daily" \in Blocks
                           /\ {"sectorBars", "sectorFlow"} \intersect Blocks # {}
ASSUME FaultsAssumption == Short \subseteq Blocks /\ Fallible \subseteq Blocks
ASSUME PayloadAssumption == Strict \subseteq BOOLEAN /\ Rebuild \subseteq BOOLEAN
ASSUME MaxRunsAssumption == MaxRuns \in 1 .. 3

Core == Blocks \intersect CoreNames
Enrich == Blocks \intersect EnrichNames

VARIABLES
    level,  \* rows of each block's table for the day
    marks,  \* t_provider_ingest_audit: blocks with a captured or complete_zero
            \* row, of those whose completeness is read from it
    ready,  \* stocks whose factor row has price and core technicals 'ready'
    fresh,  \* derived table |-> the inputs its rows were computed from and that
            \* have not changed since
    built,  \* derived tables that hold rows for the day
    run,    \* the run of each job
    repair  \* history of the repair that is going: the blocks it wrote, whether
            \* every answer was full, whether no other job ran meanwhile

day == <<level, marks, ready, fresh, built>>
vars == <<level, marks, ready, fresh, built, run, repair>>

Jobs == {"core", "enrichment", "repair"}
Derived == {"stock", "sector", "index", "summary"}

\* What the SQL of each derived table reads of the day.
StockInputs == {"daily", "basic", "adjust", "moneyflow", "indexBars"}
SectorInputs == {"sectorBars", "sectorFlow", "daily", "events"}
IndexInputs == {"indexBars", "indexBasic"}
SummaryInputs == {"daily", "basic", "moneyflow", "events"}

Inputs == [stock |-> StockInputs, sector |-> SectorInputs,
           index |-> IndexInputs, summary |-> SummaryInputs]

Idle == [pc |-> "idle", todo |-> {}, sync |-> {}, calc |-> {}, strict |-> FALSE]

NoRepair == [wrote |-> {}, full |-> TRUE, alone |-> TRUE]

Init ==
    /\ level = [b \in Blocks |-> 0]
    /\ marks = {}
    /\ ready = 0
    /\ fresh = [d \in Derived |-> {}]
    /\ built = {}
    /\ run = [j \in Jobs |-> Idle]
    /\ repair = NoRepair

-----------------------------------------------------------------------------
(* Readiness (assess_readiness) *)

PerStock == {"basic", "moneyflow", "adjust", "technical"}
ByMark == {"events", "lhbEvents", "lhbSeats"}

\* Per-stock tables are measured against the daily bars of the day, not
\* against the universe.
AgainstDaily(n) == n >= Max({1, level["daily"]})

Complete(b) ==
    CASE b \in PerStock    -> AgainstDaily(level[b])
      [] b \in ByMark      -> b \in marks
      [] b = "sectorFlow"  -> level[b] > 0 /\ b \in marks
      [] OTHER             -> level[b] = 2

\* Its gap defers nothing: optional_checks, reported as "deferred".
Optional == {"technical"}

Missing ==
    {b \in Blocks : ~Complete(b)}
    \union (IF AgainstDaily(ready) THEN {} ELSE {"daily_factors"})
    \union (IF "sector" \in built THEN {} ELSE {"sector_factors"})
    \union (IF "summary" \in built THEN {} ELSE {"market_summary"})

-----------------------------------------------------------------------------
(* Payloads *)

Plan(sync, calc) == [sync |-> sync \intersect Blocks, calc |-> calc]

CorePlan == Plan(CoreNames, {})
EnrichPlan == Plan(EnrichNames, {"stock", "sector"})

Lhb == {"lhbEvents", "lhbSeats"}

OnlyMissing(missing) == missing \intersect Blocks                 \* (mutant)

RepairSync(missing) ==
    (missing \intersect Blocks)
    \union (IF "daily" \in missing THEN {"basic", "moneyflow", "adjust"} ELSE {})
    \union (IF Lhb \intersect missing # {} THEN Lhb ELSE {})

CalcIfGap(missing, sync) ==                                       \* (mutant)
    (IF "daily_factors" \in missing THEN {"stock"} ELSE {})
    \union (IF "sector_factors" \in missing THEN {"sector"} ELSE {})

RepairCalc(missing, sync) ==
    (IF "daily_factors" \in missing
        \/ sync \intersect {"daily", "basic", "moneyflow", "adjust", "technical"} # {}
     THEN {"stock"} ELSE {})
    \union
    (IF "sector_factors" \in missing \/ sync \intersect {"sectorBars", "sectorFlow"} # {}
     THEN {"sector"} ELSE {})

RepairPlan(missing) ==
    LET sync == RepairSync(missing) IN Plan(sync, RepairCalc(missing, sync))

-----------------------------------------------------------------------------
(* Starting and ending a run *)

Stop(j) ==
    /\ run' = [run EXCEPT ![j] = Idle]
    /\ repair' = IF j = "repair" THEN NoRepair ELSE repair

Going == {o \in Jobs : run[o].pc # "idle"}

Launch(j, plan, strict, pc) ==
    /\ j \notin Going
    /\ Cardinality(Going) < MaxRuns
    /\ run' = [run EXCEPT ![j] = [pc |-> pc, todo |-> plan.sync \intersect Core,
                                  sync |-> plan.sync, calc |-> plan.calc,
                                  strict |-> strict]]
    /\ UNCHANGED day

Start(j, strict, rebuild) ==
    /\ Launch(j, IF j = "core" THEN CorePlan ELSE EnrichPlan, strict,
              IF rebuild THEN "clear" ELSE "core")
    /\ repair' = [repair EXCEPT !.alone = "repair" \notin Going]

\* With nothing missing the day is reported as skipped.
StartRepair(strict) ==
    /\ Missing # {}
    /\ Launch("repair", RepairPlan(Missing), strict, "core")
    /\ repair' = [NoRepair EXCEPT !.alone = Going = {}]

\* clear_daily_close_ingest_data, then a commit: every fact of the day and the
\* stock and sector factors; not the audit rows, the index factors or the summary
Clear(j) ==
    /\ run[j].pc = "clear"
    /\ level' = [b \in Blocks |-> 0]
    /\ ready' = 0
    /\ built' = built \ {"stock", "sector"}
    /\ fresh' = [d \in Derived |-> {}]
    /\ run' = [run EXCEPT ![j].pc = "core"]
    /\ UNCHANGED <<marks, repair>>

-----------------------------------------------------------------------------
(* Blocks *)

Running(j, b) == run[j].pc \in {"core", "enrich"} /\ b \in run[j].todo

\* daily and daily_basic refuse a response under half of the market; the other
\* blocks accept any response, an empty one included.
Answers(b) ==
    IF b \notin Short \/ b \in ByMark THEN {2}
    ELSE IF b \in {"daily", "basic"} THEN {1, 2} ELSE 0 .. 2

Appended(b, n) == level[b] + n                                    \* (mutant)

\* Rows are upserted: a shorter response removes nothing.
Upserted(b, n) == Max({level[b], n})

\* The audit row of a block is written in its transaction.
Audited == ByMark \union {"sectorFlow"}

BlockDone(j, b, n) ==
    /\ Running(j, b)
    /\ level' = [level EXCEPT ![b] = Upserted(b, n)]
    /\ marks' = marks \union ({b} \intersect Audited)
    /\ ready' = IF b = "technical" THEN Max({ready, n}) ELSE ready
    /\ built' = IF b = "technical" /\ n > 0 THEN built \union {"stock"} ELSE built
    /\ fresh' = [d \in Derived |->
                    IF level'[b] = level[b] THEN fresh[d] ELSE fresh[d] \ {b}]
    /\ run' = [run EXCEPT ![j].todo = @ \ {b}]
    /\ repair' = IF j = "repair"
                 THEN [repair EXCEPT !.wrote = @ \union {b}, !.full = @ /\ n = 2]
                 ELSE repair

Fatal(j, b) == b \in {"daily", "basic", "adjust"} \/ run[j].strict

\* The block rolled back.  The run goes on without it, or fails: the blocks
\* still running are cancelled and awaited first.
BlockFails(j, b) ==
    /\ Running(j, b)
    /\ b \in Fallible
    /\ IF Fatal(j, b) THEN Stop(j)
       ELSE /\ run' = [run EXCEPT ![j].todo = @ \ {b}]
            /\ repair' = [repair EXCEPT !.full = @ /\ j # "repair"]
    /\ UNCHANGED day

CoreDone(j) ==
    /\ run[j].pc = "core"
    /\ run[j].todo = {}
    /\ IF level["daily"] = 0 THEN Stop(j)
       ELSE /\ run' = [run EXCEPT ![j].pc = "enrich",
                                  ![j].todo = run[j].sync \intersect Enrich]
            /\ UNCHANGED repair
    /\ UNCHANGED day

EnrichDone(j) ==
    /\ run[j].pc = "enrich"
    /\ run[j].todo = {}
    /\ run' = [run EXCEPT ![j].pc = "stock"]
    /\ UNCHANGED <<day, repair>>

-----------------------------------------------------------------------------
(* Factors *)

Compute(ds) ==
    /\ built' = built \union ds
    /\ fresh' = [d \in Derived |->
                    IF d \in ds THEN Inputs[d] \intersect Blocks ELSE fresh[d]]

Advance(j, to) == run' = [run EXCEPT ![j].pc = to] /\ UNCHANGED repair

\* A factor row needs a daily bar; its price is ready with an adjust factor,
\* whatever the technical block had recorded.
Priced == IF "adjust" \in Blocks THEN Min({level["daily"], level["adjust"]})
          ELSE level["daily"]

Assembles(j) == "stock" \in run[j].calc /\ level["daily"] > 0

\* Stocks are assembled and committed in chunks of 500.
AssembleChunk(j) ==
    /\ run[j].pc = "stock"
    /\ Assembles(j)
    /\ ready' \in Min({ready, Priced}) .. Max({ready, Priced})
    /\ built' = built \union {"stock"}
    /\ UNCHANGED <<level, marks, fresh, run, repair>>

\* The last chunk.
AssembleStock(j) ==
    /\ run[j].pc = "stock"
    /\ Advance(j, "sector")
    /\ IF Assembles(j) THEN Compute({"stock"}) /\ ready' = Priced
       ELSE UNCHANGED <<built, fresh, ready>>
    /\ UNCHANGED <<level, marks>>

SectorRows == \E b \in {"sectorBars", "sectorFlow"} \intersect Blocks : level[b] > 0

AssembleSector(j) ==
    /\ run[j].pc = "sector"
    /\ Advance(j, "summary")
    /\ IF "sector" \in run[j].calc /\ SectorRows
       THEN Compute({"sector"}) ELSE UNCHANGED <<built, fresh>>
    /\ UNCHANGED <<level, marks, ready>>

\* Index factors and the market summary are one transaction; the summary row
\* is written whatever it found.
Summarise(j) ==
    /\ run[j].pc = "summary"
    /\ Advance(j, "final")
    /\ IF "stock" \in run[j].calc
       THEN Compute({"summary"} \union
                    (IF "indexBars" \in Blocks /\ level["indexBars"] > 0
                     THEN {"index"} ELSE {}))
       ELSE UNCHANGED <<built, fresh>>
    /\ UNCHANGED <<level, marks, ready>>

\* _finalize_readiness only reads; the run returns its result.
Finish(j) ==
    /\ run[j].pc = "final"
    /\ Stop(j)
    /\ UNCHANGED day

\* A statement fails outside a block, or the run is cancelled, times out or
\* dies with its process: what was committed stays.
Abort(j) ==
    /\ run[j].pc # "idle"
    /\ Stop(j)
    /\ UNCHANGED day

-----------------------------------------------------------------------------
Next ==
    \/ \E j \in {"core", "enrichment"}, s \in Strict, r \in Rebuild : Start(j, s, r)
    \/ \E s \in Strict : StartRepair(s)
    \/ \E j \in Jobs :
        \/ Clear(j)
        \/ \E b \in Blocks : \E n \in Answers(b) : BlockDone(j, b, n)
        \/ \E b \in Blocks : BlockFails(j, b)
        \/ CoreDone(j)
        \/ EnrichDone(j)
        \/ AssembleChunk(j)
        \/ AssembleStock(j)
        \/ AssembleSector(j)
        \/ Summarise(j)
        \/ Finish(j)
        \/ Abort(j)

Spec == Init /\ [][Next]_vars

-----------------------------------------------------------------------------
(* Properties *)

\* Type invariant of the day's tables and of the three runs.
TypeOK ==
    /\ level \in [Blocks -> 0 .. 2]
    /\ marks \subseteq Blocks \intersect Audited
    /\ ready \in 0 .. 2
    /\ built \subseteq Derived
    /\ \A d \in Derived : fresh[d] \subseteq Inputs[d]
    /\ \A j \in Jobs : /\ run[j].todo \subseteq run[j].sync
                       /\ run[j].sync \subseteq Blocks
                       /\ run[j].calc \subseteq {"stock", "sector"}
                       /\ run[j].todo # {} => run[j].pc \in {"clear", "core", "enrich"}

Repaired == run["repair"].pc = "final" /\ repair.alone

\* What the repair handler recomputes after repairing a block.
Recomputed == [stock   |-> {"daily", "basic", "adjust", "moneyflow"},
               sector  |-> {"sectorBars", "sectorFlow"},
               index   |-> {},
               summary |-> {"daily", "basic", "moneyflow"}]

\* A repair that ran to its end undisturbed leaves no stock factor, sector
\* factor or summary computed from the rows its per-stock and sector blocks
\* replaced: the handler's closure of what to recompute (repair_daily_factors,
\* repair_sector_factors) covers them, whichever of them was missing.
RepairRefreshes ==
    Repaired => \A d \in Derived :
        d \in built => repair.wrote \intersect Recomputed[d] \subseteq fresh[d]

\* A repair whose every provider answered in full leaves nothing missing that
\* core and enhancement readiness ask for and that it knows how to repair:
\* closing one gap (more daily bars) never opens another (coverage is measured
\* against the daily bars) that the same run leaves open.  The optional block is
\* not in the closure of the daily bars: it may fall behind them, and is left to
\* the next repair.
RepairCloses ==
    Repaired /\ repair.full => Missing \subseteq {"market_summary"} \union Optional

\* Not kept: such a repair closes the optional gap too.
OptionalIsClosed == Repaired /\ repair.full => Missing \subseteq {"market_summary"}

\* The scheduler wiki: repair recomputes the index factors and the market
\* summary that are affected.  Neither is left computed without rows that the
\* repair wrote and that it reads.
RepairRecomputesAffected ==
    Repaired => \A d \in built \intersect {"index", "summary"} :
        repair.wrote \intersect Inputs[d] \subseteq fresh[d]
=============================================================================
