-------------------------- MODULE HistoryBackfill --------------------------
(***************************************************************************)
(* The history pipeline of market_data/history_backfill.py (run_all): one  *)
(* fact kind, fetched stock by stock by concurrent workers, and then the   *)
(* limit and suspension events, fetched date by date.  The five fact kinds *)
(* run one after the other through the same code, so one stands for all.   *)
(*                                                                         *)
(* A stock worker keeps the rows of the stocks it has fetched in a buffer  *)
(* and writes them in batches; the exception handler of a stock empties    *)
(* that buffer, rows of other stocks included.  An event worker writes a   *)
(* date's rows and the audit that marks the date complete in one           *)
(* transaction; later append_safe runs skip the marked dates.  Provider    *)
(* calls and commits may fail, and the process may exit between any two    *)
(* steps.                                                                  *)
(***************************************************************************)
EXTENDS Integers, FiniteSets

CONSTANTS Stocks, Dates, Workers,
          BatchSize,      \* commit_stock_batch_size
          MaxRows,        \* max_upsert_rows_per_commit
          Traded,         \* [Stocks -> SUBSET Dates]: the rows the provider has
          Events,         \* [Dates -> SUBSET Stocks]: the events it has
          MaxRuns, MaxFaults

VARIABLES stored,   \* [Stocks -> SUBSET Dates]: fact rows committed
          events,   \* [Dates -> SUBSET Stocks]: event rows committed
          marked,   \* dates with a completion audit of this scope
          run,      \* the current run
          left,     \* the queue of the current stage
          work,     \* [Workers -> what the worker holds]
          runs, faults

vars == <<stored, events, marked, run, left, work, runs, faults>>

Idle == [at |-> "idle", item |-> {}, rows |-> {}, count |-> 0]
Gone == [Idle EXCEPT !.at = "gone"]
NoRun == [stage |-> "none", mode |-> "append_safe", only |-> TRUE,
          fast |-> FALSE, failed |-> 0]

TypeOK ==
  /\ stored \in [Stocks -> SUBSET Dates]
  /\ events \in [Dates -> SUBSET Stocks]
  /\ marked \subseteq Dates
  /\ run \in [stage: {"none", "clear", "facts", "clear_events", "events", "done", "raised"},
              mode: {"append_safe", "rebuild"}, only: BOOLEAN, fast: BOOLEAN,
              failed: 0..MaxFaults]
  /\ left \subseteq Stocks \cup Dates
  /\ work \in [Workers -> [at: {"idle", "held", "gone"},
                           item: SUBSET (Stocks \cup Dates),
                           rows: SUBSET (Stocks \X Dates), count: 0..BatchSize]]
  /\ runs \in 0..MaxRuns /\ faults \in 0..MaxFaults

Init ==
  /\ stored = [s \in Stocks |-> {}] /\ events = [d \in Dates |-> {}] /\ marked = {}
  /\ run = NoRun /\ left = {} /\ work = [w \in Workers |-> Gone]
  /\ runs = 0 /\ faults = 0

Missing == run.mode = "append_safe" /\ run.only

-----------------------------------------------------------------------------
(* run_all: a request starts the pipeline                                  *)

Start(mode, only, fast) ==
  /\ run.stage \in {"none", "done", "raised"} /\ runs < MaxRuns
  /\ run' = [stage |-> IF mode = "rebuild" THEN "clear" ELSE "facts",
             mode |-> mode, only |-> only, fast |-> fast, failed |-> 0]
  /\ left' = Stocks /\ work' = [w \in Workers |-> Idle] /\ runs' = runs + 1
  /\ UNCHANGED <<stored, events, marked, faults>>

\* clear_stock_fact_range: the range of every stock of the pool.
NoFacts == [s \in Stocks |-> {}]

\* A rebuild deletes them and commits before anything is fetched.
ClearFacts ==
  /\ run.stage = "clear"
  /\ stored' = NoFacts /\ run' = [run EXCEPT !.stage = "facts"]
  /\ UNCHANGED <<events, marked, left, work, runs, faults>>

-----------------------------------------------------------------------------
(* A stock worker                                                          *)

\* existing_*_dates: only an append_safe run for missing rows asks.
Existing(s) == IF Missing THEN stored[s] ELSE {}

\* The provider's rows of the range, mapped to the table of the fact.
Answer(s) == {s} \X Traded[s]
RowsOf(s) == {row \in Answer(s) : row[2] \notin Existing(s)}

\* (mutant) a stock with some of its rows is complete
Started(s) == Existing(s) # {}

Complete(s) == Dates \subseteq Existing(s)

\* A stock whose open dates are all stored is skipped; the others are asked
\* for over the whole range.
TakeStock(w, s) ==
  /\ run.stage = "facts" /\ work[w].at = "idle" /\ s \in left
  /\ left' = left \ {s}
  /\ work' = IF Complete(s) THEN work
             ELSE [work EXCEPT ![w].at = "held", ![w].item = {s}]
  /\ UNCHANGED <<stored, events, marked, run, runs, faults>>

\* upsert_rows: rows of the same key are overwritten, the others stay.
Upserted(s, rows) == stored[s] \cup {d \in Dates : <<s, d>> \in rows}
Written(rows) == [s \in Stocks |-> Upserted(s, rows)]

\* The answer: audit committed, rows appended to the buffer, and the buffer
\* written when it holds enough stocks or rows.
StockArrives(w) ==
  /\ run.stage = "facts" /\ work[w].at = "held"
  /\ \E s \in work[w].item :
       LET rows == work[w].rows \cup RowsOf(s) IN
       IF work[w].count + 1 >= BatchSize \/ Cardinality(rows) >= MaxRows
       THEN stored' = Written(rows) /\ work' = [work EXCEPT ![w] = Idle]
       ELSE /\ work' = [work EXCEPT ![w] = [Idle EXCEPT !.rows = rows, !.count = work[w].count + 1]]
            /\ UNCHANGED stored
  /\ UNCHANGED <<events, marked, run, left, runs, faults>>

Raised == [run EXCEPT !.stage = "raised", !.failed = @ + 1]
Counted == [run EXCEPT !.failed = @ + 1]

\* The provider call or a commit fails: the rows buffered so far are dropped
\* with the stock; with fail_fast the worker raises and the others are
\* cancelled.
StockFails(w) ==
  /\ run.stage = "facts" /\ work[w].at = "held" /\ faults < MaxFaults
  /\ faults' = faults + 1
  /\ run' = IF run.fast THEN Raised ELSE Counted
  /\ work' = IF run.fast THEN [v \in Workers |-> Gone] ELSE [work EXCEPT ![w] = Idle]
  /\ UNCHANGED <<stored, events, marked, left, runs>>

\* The queue is empty: what is left in the buffer is written.
LastFlush(w) ==
  /\ run.stage = "facts" /\ work[w].at = "idle" /\ left = {}
  /\ stored' = Written(work[w].rows)
  /\ work' = [work EXCEPT ![w] = Gone]
  /\ UNCHANGED <<events, marked, run, left, runs, faults>>

\* It fails outside the per-stock handler: the run raises whatever fail_fast is.
LastFlushFails(w) ==
  /\ run.stage = "facts" /\ work[w].at = "idle" /\ left = {}
  /\ work[w].rows # {} /\ faults < MaxFaults
  /\ faults' = faults + 1 /\ run' = Raised
  /\ work' = [v \in Workers |-> Gone]
  /\ UNCHANGED <<stored, events, marked, left, runs>>

-----------------------------------------------------------------------------
(* The events of a date                                                    *)

\* completed_stock_limit_event_backfill_dates
Unmarked == IF Missing THEN Dates \ marked ELSE Dates

\* gather returns and the event stage reads which dates are marked complete.
FactsEnd ==
  /\ run.stage = "facts" /\ \A w \in Workers : work[w].at = "gone"
  /\ run' = [run EXCEPT !.stage = "clear_events"]
  /\ left' = Unmarked
  /\ work' = [w \in Workers |-> Idle]
  /\ UNCHANGED <<stored, events, marked, runs, faults>>

NoEvents == [d \in Dates |-> {}]

\* A rebuild deletes the rows of the range; the completion audits stay.
ClearEvents ==
  /\ run.stage = "clear_events"
  /\ events' = IF run.mode = "rebuild" THEN NoEvents ELSE events
  /\ run' = [run EXCEPT !.stage = "events"]
  /\ UNCHANGED <<stored, marked, left, work, runs, faults>>

TakeDate(w, d) ==
  /\ run.stage = "events" /\ work[w].at = "idle" /\ d \in left
  /\ left' = left \ {d}
  /\ work' = [work EXCEPT ![w].at = "held", ![w].item = {d}]
  /\ UNCHANGED <<stored, events, marked, run, runs, faults>>

\* map_limit_events and map_suspend_events, for the stocks of the pool.
EventRows(d) == Events[d] \cap Stocks

\* Both answers are in: rows and completion audit are committed together.
DateArrives(w) ==
  /\ run.stage = "events" /\ work[w].at = "held"
  /\ events' = [d \in Dates |-> IF d \in work[w].item THEN EventRows(d) ELSE events[d]]
  /\ marked' = marked \cup work[w].item
  /\ work' = [work EXCEPT ![w] = Idle]
  /\ UNCHANGED <<stored, run, left, runs, faults>>

DateFails(w) ==
  /\ run.stage = "events" /\ work[w].at = "held" /\ faults < MaxFaults
  /\ faults' = faults + 1
  /\ run' = IF run.fast THEN Raised ELSE Counted
  /\ work' = IF run.fast THEN [v \in Workers |-> Gone] ELSE [work EXCEPT ![w] = Idle]
  /\ UNCHANGED <<stored, events, marked, left, runs>>

EventsEnd ==
  /\ run.stage = "events" /\ left = {} /\ \A w \in Workers : work[w].at = "idle"
  /\ run' = [run EXCEPT !.stage = "done"]
  /\ work' = [w \in Workers |-> Gone]
  /\ UNCHANGED <<stored, events, marked, left, runs, faults>>

-----------------------------------------------------------------------------
\* The daily close ingest stores a stock's row of one date beside any run.
DailyRow(s, d) ==
  /\ d \in Traded[s] \ stored[s]
  /\ stored' = [stored EXCEPT ![s] = @ \cup {d}]
  /\ UNCHANGED <<events, marked, run, left, work, runs, faults>>

\* The process exits: buffers and the queue are gone, what was committed stays.
Crash ==
  /\ run.stage \notin {"none", "done", "raised"} /\ faults < MaxFaults
  /\ faults' = faults + 1 /\ run' = Raised
  /\ left' = {} /\ work' = [w \in Workers |-> Gone]
  /\ UNCHANGED <<stored, events, marked, runs>>

Next ==
  \/ \E mode \in {"append_safe", "rebuild"}, only, fast \in BOOLEAN : Start(mode, only, fast)
  \/ \E s \in Stocks, d \in Dates : DailyRow(s, d)
  \/ ClearFacts \/ FactsEnd \/ ClearEvents \/ EventsEnd \/ Crash
  \/ \E w \in Workers :
       \/ \E s \in Stocks : TakeStock(w, s)
       \/ \E d \in Dates : TakeDate(w, d)
       \/ StockArrives(w) \/ StockFails(w) \/ LastFlush(w) \/ LastFlushFails(w)
       \/ DateArrives(w) \/ DateFails(w)

Spec == Init /\ [][Next]_vars

Clean == run.stage = "done" /\ run.failed = 0

\* A run that ends without a failure has every row the provider has, for
\* every stock, whatever earlier runs lost: rows dropped from a buffer,
\* interrupted rebuilds, stocks stored in part (the skip of complete stocks
\* reads the rows, not the audits).
FactsResume == Clean => \A s \in Stocks : Traded[s] \subseteq stored[s]

\* The same for the events, as the docstring of run_all has it ("as one
\* resumable pipeline"): a clean run leaves every date's events stored.
EventsResume == Clean => \A d \in Dates : Events[d] \subseteq events[d]
=============================================================================
