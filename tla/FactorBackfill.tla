--------------------------- MODULE FactorBackfill ---------------------------
(***************************************************************************)
(* The factor backfills of indicator_engine/backfill.py over the factor    *)
(* tables (indicator_engine/repository.py).                                *)
(*                                                                         *)
(* Stock factors go window by window: the stocks with missing rows are     *)
(* computed in chunks, each a session and a commit of its own, and when    *)
(* all chunks are back the cross-sectional percentiles and the market      *)
(* summaries of the window are computed from whatever rows are stored.  A  *)
(* chunk that fails ends the gather and the window; the other chunks are   *)
(* not cancelled and commit later.  Sector factors go by windows in        *)
(* concurrent workers, delete and recompute in one transaction, tried a    *)
(* second time after a lost connection.  Index factors go date by date.    *)
(* A window is one date here: nothing is shared inside a window.           *)
(***************************************************************************)
EXTENDS Integers, FiniteSets

CONSTANTS Stocks, Dates, Workers, MaxRuns, MaxFaults, MaxBars

VARIABLES bars,     \* SUBSET (Stocks \X Dates): daily bars present
          factors,  \* SUBSET (Stocks \X Dates): factor rows that are ready
          ranked,   \* [Dates -> SUBSET Stocks]: rows the last percentiles were over
          grouped,  \* [Dates -> BOOLEAN]: sector (or index) factors present
          tasks,    \* chunks at work: <<run, stock, date>>
          queued,   \* sector and index dates waiting: <<run, date>>
          held,     \* those at work: <<run, date, attempt>>
          seats,    \* [1..MaxRuns -> workers the run still has]
          run, runs, faults

groups == <<grouped, queued, held, seats>>
vars == <<bars, factors, ranked, tasks, groups, run, runs, faults>>

NoRun == [kind |-> "stock", at |-> "none", rebuild |-> FALSE, only |-> TRUE, fast |-> FALSE,
          left |-> {}, window |-> {}, failed |-> 0, alone |-> TRUE, given |-> {}]

TypeOK ==
  /\ bars \subseteq Stocks \X Dates /\ factors \subseteq bars
  /\ ranked \in [Dates -> SUBSET Stocks] /\ grouped \in [Dates -> BOOLEAN]
  /\ tasks \subseteq (1..MaxRuns) \X Stocks \X Dates
  /\ queued \subseteq (1..MaxRuns) \X Dates /\ held \subseteq (1..MaxRuns) \X Dates \X (1..2)
  /\ seats \in [1..MaxRuns -> 0..Cardinality(Workers)]
  /\ run \in [kind: {"stock", "sector", "index"},
              at: {"none", "window", "chunks", "groups", "done", "raised"},
              rebuild: BOOLEAN, only: BOOLEAN, fast: BOOLEAN, left: SUBSET Dates,
              window: SUBSET Dates, failed: 0..Cardinality(Dates), alone: BOOLEAN,
              given: SUBSET (Stocks \X Dates)]
  /\ runs \in 0..MaxRuns /\ faults \in 0..MaxFaults

Init ==
  /\ bars = {} /\ factors = {} /\ ranked = [d \in Dates |-> {}]
  /\ grouped = [d \in Dates |-> FALSE]
  /\ tasks = {} /\ queued = {} /\ held = {} /\ seats = [r \in 1..MaxRuns |-> 0]
  /\ run = NoRun /\ runs = 0 /\ faults = 0

\* The other pipelines store a stock's bar of a date.
BarArrives(s, d) ==
  /\ run.at \in {"none", "done", "raised"} /\ Cardinality(bars) < MaxBars
  /\ bars' = bars \cup {<<s, d>>}
  /\ UNCHANGED <<factors, ranked, tasks, groups, run, runs, faults>>

Start(kind, rebuild, only, fast) ==
  /\ run.at \in {"none", "done", "raised"} /\ runs < MaxRuns /\ runs' = runs + 1
  /\ run' = [kind |-> kind, at |-> IF kind = "stock" THEN "window" ELSE "groups",
             rebuild |-> rebuild, only |-> only, fast |-> fast,
             left |-> IF kind = "stock" THEN Dates ELSE {},
             window |-> {}, failed |-> 0, alone |-> tasks = {}, given |-> bars]
  /\ queued' = queued \cup {<<runs + 1, d>> : d \in IF kind = "stock" THEN {} ELSE Dates}
  /\ seats' = [seats EXCEPT ![runs + 1] = CASE kind = "stock" -> 0 [] kind = "index" -> 1
                                            [] kind = "sector" -> Cardinality(Workers)]
  /\ UNCHANGED <<bars, factors, ranked, grouped, tasks, held, faults>>

-----------------------------------------------------------------------------
(* Stock factors (backfill_standard_daily)                                 *)

OnlyMissing == ~run.rebuild /\ run.only

\* (mutant) a window with nothing to compute is passed over
PassesOver(targets, d) ==
  IF targets = {} THEN [run EXCEPT !.left = @ \ {d}]
  ELSE [run EXCEPT !.at = "chunks", !.window = {d}, !.left = @ \ {d}]

\* Its chunks may be none: the window is gathered and ranked all the same.
Opened(targets, d) == [run EXCEPT !.at = "chunks", !.window = {d}, !.left = @ \ {d}]

\* The next window: the stocks with a bar and, when only missing rows are
\* wanted, no ready row; one chunk for each.
OpenWindow ==
  /\ run.at = "window" /\ run.left # {}
  /\ LET d == CHOOSE x \in run.left : \A y \in run.left : x =< y
         targets == {s \in Stocks : <<s, d>> \in bars /\ ~(OnlyMissing /\ <<s, d>> \in factors)} IN
     /\ tasks' = tasks \cup {<<runs, s, d>> : s \in targets}
     /\ run' = Opened(targets, d)
  /\ UNCHANGED <<bars, factors, ranked, groups, runs, faults>>

\* A chunk commits its rows.
ChunkCommits(t) ==
  /\ t \in tasks
  /\ tasks' = tasks \ {t} /\ factors' = factors \cup {<<t[2], t[3]>>}
  /\ UNCHANGED <<bars, ranked, groups, run, runs, faults>>

InGather(t) == run.at = "chunks" /\ t[1] = runs /\ t[3] \in run.window

WindowFails == [run EXCEPT !.failed = @ + 1, !.window = {},
                           !.at = IF run.fast THEN "raised" ELSE "window"]

\* A chunk fails: nobody hears of it once its window has been given up.
ChunkFails(t) ==
  /\ t \in tasks /\ faults < MaxFaults /\ faults' = faults + 1
  /\ tasks' = tasks \ {t}
  /\ run' = IF InGather(t) THEN WindowFails ELSE run
  /\ UNCHANGED <<bars, factors, ranked, groups, runs>>

\* All chunks are back: percentiles and summaries over the rows now stored.
RankWindow ==
  /\ run.at = "chunks" /\ ~\E t \in tasks : InGather(t)
  /\ ranked' = [d \in Dates |-> IF d \in run.window THEN {s \in Stocks : <<s, d>> \in factors}
                                ELSE ranked[d]]
  /\ run' = [run EXCEPT !.at = "window", !.window = {}]
  /\ UNCHANGED <<bars, factors, tasks, groups, runs, faults>>

RankFails ==
  /\ run.at = "chunks" /\ ~\E t \in tasks : InGather(t)
  /\ faults < MaxFaults /\ faults' = faults + 1 /\ run' = WindowFails
  /\ UNCHANGED <<bars, factors, ranked, tasks, groups, runs>>

-----------------------------------------------------------------------------
(* Sector and index factors                                                *)

\* A worker takes a date; when another worker of the run has raised, this one
\* goes on with the queue of the run that has ended.
TakeGroup(r, d) ==
  /\ <<r, d>> \in queued /\ Cardinality({h \in held : h[1] = r}) < seats[r]
  /\ queued' = queued \ {<<r, d>>} /\ held' = held \cup {<<r, d, 1>>}
  /\ UNCHANGED <<bars, factors, ranked, grouped, tasks, seats, run, runs, faults>>

\* Delete (in a rebuild), recompute and leaders, committed together.
GroupCommits(h) ==
  /\ h \in held /\ held' = held \ {h}
  /\ grouped' = [grouped EXCEPT ![h[2]] = TRUE]
  /\ UNCHANGED <<bars, factors, ranked, tasks, queued, seats, run, runs, faults>>

\* A lost connection on the first attempt of a sector window: the transaction
\* is gone, or it had committed and the answer was lost; it is tried again.
GroupRetries(h) ==
  /\ h \in held /\ h[3] = 1 /\ h[1] = runs /\ run.kind = "sector"
  /\ faults < MaxFaults /\ faults' = faults + 1
  /\ grouped' \in {grouped, [grouped EXCEPT ![h[2]] = TRUE]}
  /\ held' = (held \ {h}) \cup {<<h[1], h[2], 2>>}
  /\ UNCHANGED <<bars, factors, ranked, tasks, queued, seats, run, runs>>

\* Any other failure is counted; with fail_fast the worker raises.
GroupFails(h) ==
  /\ h \in held /\ h[1] = runs /\ faults < MaxFaults /\ faults' = faults + 1
  /\ held' = held \ {h}
  /\ run' = [run EXCEPT !.failed = @ + 1, !.at = IF run.fast THEN "raised" ELSE @]
  /\ seats' = IF run.fast THEN [seats EXCEPT ![runs] = @ - 1] ELSE seats
  /\ UNCHANGED <<bars, factors, ranked, grouped, tasks, queued, runs>>

Finish ==
  /\ run.left = {} /\ run.window = {} /\ run.at \in {"window", "groups"}
  /\ ~\E d \in Dates : <<runs, d>> \in queued
  /\ ~\E h \in held : h[1] = runs
  /\ run' = [run EXCEPT !.at = "done"]
  /\ UNCHANGED <<bars, factors, ranked, tasks, groups, runs, faults>>

\* The process exits, stragglers included.
Crash ==
  /\ run.at \in {"window", "chunks", "groups"} /\ faults < MaxFaults
  /\ faults' = faults + 1 /\ tasks' = {} /\ held' = {} /\ queued' = {}
  /\ run' = [run EXCEPT !.at = "raised", !.left = {}, !.window = {}]
  /\ UNCHANGED <<bars, factors, ranked, grouped, seats, runs>>

Next ==
  \/ \E s \in Stocks, d \in Dates : BarArrives(s, d)
  \/ \E kind \in {"stock", "sector", "index"}, rebuild, only, fast \in BOOLEAN :
       Start(kind, rebuild, only, fast)
  \/ OpenWindow \/ RankWindow \/ RankFails \/ Finish \/ Crash
  \/ \E t \in tasks : ChunkCommits(t) \/ ChunkFails(t)
  \/ \E q \in queued : TakeGroup(q[1], q[2])
  \/ \E h \in held : GroupCommits(h) \/ GroupRetries(h) \/ GroupFails(h)

Spec == Init /\ [][Next]_vars

\* After a stock run without failures, every bar it started from has its
\* factor row and the percentiles of every date are over exactly the rows stored: rows committed
\* by chunks of windows that earlier runs gave up (which never got their
\* percentiles) are ranked by the run that finds nothing left to compute.  It
\* is said of runs that no straggler of an earlier one was still beside.
RanksFresh ==
  run.kind = "stock" /\ run.at = "done" /\ run.failed = 0 /\ run.alone =>
    \A d \in Dates :
      /\ {s \in Stocks : <<s, d>> \in run.given} \subseteq ranked[d]
      /\ ranked[d] = {s \in Stocks : <<s, d>> \in factors}
=============================================================================
