--------------------------- MODULE EntityBackfill ---------------------------
(***************************************************************************)
(* The history pipelines of indexes, sectors and market flows              *)
(* (market_data/entity_history_backfill.py, market_north_flow_backfill.py).*)
(* Each takes its items from a queue: an index writes its bars and then    *)
(* its valuations, a sector its bars, a window its money flow; every write *)
(* is a commit of its own.  Unlike the stock pipeline these run their      *)
(* workers under a bare asyncio.gather: when a worker raises, the run ends *)
(* and its other workers keep taking items from the run's queue, beside    *)
(* whatever run comes next.                                                *)
(***************************************************************************)
EXTENDS Integers, FiniteSets, Sequences

CONSTANTS Indexes, Sectors, Windows, North,  \* the items of each pipeline
          Dates,
          Has,          \* [table -> SUBSET Dates]: the rows the provider has
          Workers, MaxRuns, MaxFaults

VARIABLES rows,     \* [Tables -> SUBSET Dates]: rows committed
          run,      \* [1..MaxRuns -> a run]
          work,     \* [1..MaxRuns \X Workers -> item and tables left to write]
          runs, faults

vars == <<rows, run, work, runs, faults>>

Kinds == {"index", "sector", "north"}
Items == Indexes \cup Sectors \cup Windows \cup North

\* The tables an item writes, in order.
Writes(i) == IF i \in Indexes THEN <<<<i, "bars">>, <<i, "basics">>>>
             ELSE <<<<i, "rows">>>>
Tables == {Writes(i)[n] : i \in Items, n \in {1}} \cup {Writes(i)[2] : i \in Indexes}
TablesOf(k) == {t \in Tables : t[1] \in CASE k = "index" -> Indexes
                                          [] k = "sector" -> Sectors \cup Windows
                                          [] k = "north" -> North}

Free == [item |-> {}, left |-> <<>>, gone |-> FALSE]
NoRun == [kind |-> "index", stage |-> "none", mode |-> "append_safe", only |-> TRUE,
          fast |-> FALSE, queue |-> {}, later |-> {}, failed |-> 0]

TypeOK ==
  /\ rows \in [Tables -> SUBSET Dates]
  /\ \A r \in 1..MaxRuns :
       /\ run[r].stage \in {"none", "going", "done", "raised"}
       /\ run[r].kind \in Kinds /\ run[r].mode \in {"append_safe", "rebuild"}
       /\ run[r].queue \subseteq Items /\ run[r].later \subseteq Windows
       /\ run[r].failed \in 0..MaxFaults
  /\ \A r \in 1..MaxRuns, w \in Workers :
       work[<<r, w>>].item \subseteq Items /\ Cardinality(work[<<r, w>>].item) =< 1
  /\ runs \in 0..MaxRuns /\ faults \in 0..MaxFaults

Init ==
  /\ rows = [t \in Tables |-> {}]
  /\ run = [r \in 1..MaxRuns |-> NoRun]
  /\ work = [rw \in (1..MaxRuns) \X Workers |-> Free]
  /\ runs = 0 /\ faults = 0

-----------------------------------------------------------------------------
\* A run starts when no other run is going.  A rebuild of the indexes or the
\* sectors deletes their rows and commits; the north flow has no rebuild, its
\* target dates are the missing ones.
Start(k, mode, only, fast) ==
  /\ runs < MaxRuns /\ \A r \in 1..MaxRuns : run[r].stage # "going"
  /\ k = "north" => mode = "append_safe"
  /\ runs' = runs + 1
  /\ rows' = IF mode = "rebuild" THEN [t \in Tables |-> IF t \in TablesOf(k) THEN {} ELSE rows[t]]
             ELSE rows
  /\ run' = [run EXCEPT ![runs + 1] =
       [kind |-> k, stage |-> "going", mode |-> mode, only |-> only, fast |-> fast,
        queue |-> CASE k = "index" -> Indexes [] k = "sector" -> Sectors
                    [] k = "north" -> {n \in North : ~(only /\ rows[<<n, "rows">>] = Dates)},
        later |-> IF k = "sector" THEN Windows ELSE {}, failed |-> 0]]
  /\ UNCHANGED <<work, faults>>

\* (mutant) an index is looked up by its bars alone
SkipsOnBars(r, i) ==
  /\ run[r].mode = "append_safe"
  /\ (i \in Indexes /\ run[r].only) \/ i \in Sectors
  /\ Dates \subseteq rows[Writes(i)[1]]

\* Items whose tables hold every open date are skipped: indexes when
\* only_missing asks for it, sectors in every append_safe run.
Skips(r, i) ==
  /\ run[r].mode = "append_safe"
  /\ (i \in Indexes /\ run[r].only) \/ i \in Sectors
  /\ \A n \in DOMAIN Writes(i) : Dates \subseteq rows[Writes(i)[n]]

\* The north flow is fetched by one loop, the others by several workers.
Employed(r, w) == run[r].kind = "north" => w = CHOOSE v \in Workers : TRUE

Take(r, w, i) ==
  /\ run[r].stage \in {"going", "raised"} /\ i \in run[r].queue
  /\ work[<<r, w>>] = Free /\ Employed(r, w)
  /\ run' = [run EXCEPT ![r].queue = @ \ {i}]
  /\ work' = IF Skips(r, i) THEN work
             ELSE [work EXCEPT ![<<r, w>>] = [item |-> {i}, left |-> Writes(i), gone |-> FALSE]]
  /\ UNCHANGED <<rows, runs, faults>>

\* One answer arrives, is upserted and committed.
Store(r, w) ==
  LET left == work[<<r, w>>].left IN
  /\ left # <<>>
  /\ rows' = [rows EXCEPT ![Head(left)] = @ \cup Has[Head(left)]]
  /\ work' = [work EXCEPT ![<<r, w>>] =
       IF Len(left) = 1 THEN Free ELSE [@ EXCEPT !.left = Tail(left)]]
  /\ UNCHANGED <<run, runs, faults>>

\* A call or a commit fails: the item is rolled back and counted; with
\* fail_fast this worker raises and ends the run, the others are not
\* cancelled (the worker itself is gone: it never takes an item again).
Fails(r, w) ==
  /\ work[<<r, w>>].left # <<>> /\ faults < MaxFaults
  /\ faults' = faults + 1
  /\ run' = [run EXCEPT ![r].failed = @ + 1,
                        ![r].stage = IF run[r].fast THEN "raised" ELSE @,
                        ![r].queue = IF run[r].fast /\ run[r].kind = "north" THEN {} ELSE @]
  /\ work' = [work EXCEPT ![<<r, w>>] =
       IF run[r].fast THEN [item |-> {}, left |-> <<>>, gone |-> TRUE] ELSE Free]
  /\ UNCHANGED <<rows, runs>>

Resting(r) == run[r].queue = {} /\ \A w \in Workers : work[<<r, w>>].left = <<>>

\* The bar workers of a sector run are all back: the money flow windows follow.
SecondStage(r) ==
  /\ run[r].stage = "going" /\ Resting(r) /\ run[r].later # {}
  /\ run' = [run EXCEPT ![r].queue = run[r].later, ![r].later = {}]
  /\ UNCHANGED <<rows, work, runs, faults>>

Finish(r) ==
  /\ run[r].stage = "going" /\ Resting(r) /\ run[r].later = {}
  /\ run' = [run EXCEPT ![r].stage = "done"]
  /\ UNCHANGED <<rows, work, runs, faults>>

\* The process exits: runs and stragglers end where they are.
Crash ==
  /\ faults < MaxFaults /\ faults' = faults + 1
  /\ \E r \in 1..MaxRuns : run[r].stage = "going"
  /\ run' = [r \in 1..MaxRuns |-> IF run[r].stage \in {"none", "done"} THEN run[r]
                                  ELSE [run[r] EXCEPT !.stage = "raised", !.queue = {}, !.later = {}]]
  /\ work' = [rw \in (1..MaxRuns) \X Workers |-> Free]
  /\ UNCHANGED <<rows, runs>>

Next ==
  \/ \E k \in Kinds, mode \in {"append_safe", "rebuild"}, only, fast \in BOOLEAN :
       Start(k, mode, only, fast)
  \/ \E r \in 1..MaxRuns :
       \/ SecondStage(r) \/ Finish(r)
       \/ \E w \in Workers : Store(r, w) \/ Fails(r, w) \/ \E i \in Items : Take(r, w, i)
  \/ Crash

Spec == Init /\ [][Next]_vars

\* The last run, when it ends without a failure, leaves every row the provider
\* has in the tables of its pipeline: an item stored in part (an index with
\* bars and no valuations) is fetched again, and what the stragglers of an
\* earlier run write beside it takes nothing away.
LastRunCompletes ==
  runs > 0 /\ run[runs].stage = "done" /\ run[runs].failed = 0 =>
    \A t \in TablesOf(run[runs].kind) : Has[t] \subseteq rows[t]
=============================================================================
