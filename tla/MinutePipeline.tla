--------------------------- MODULE MinutePipeline ---------------------------
(***************************************************************************)
(* One run of daily_close_minute_ingest (market_data/close_ingest.py):     *)
(* workers fetch the minute bars of the stocks that lack them and put them *)
(* on a bounded queue, one writer takes them off and commits them in       *)
(* batches, then the minute factors of stocks with more bars than factors  *)
(* are calculated batch by batch.  A provider error is one stock's, an     *)
(* error of the writer or of a worker's close is the run's: every task     *)
(* left is cancelled, as it is when the run itself is.                     *)
(*                                                                         *)
(* A stock has no bars, some (1) or the complete day (2); its factors are  *)
(* counted the same way.  (The composed module holds two modules, so the   *)
(* specification here is MinuteSpec.)                                      *)
(***************************************************************************)
EXTENDS Integers, Sequences, FiniteSets

CONSTANTS
    Stocks,        \* 1 .. n, in the order of list_active_stock_codes
    MaxConcurrent, \* minute_max_concurrency
    BatchSize,     \* minute_batch_size
    FactorBatch,   \* minute_factor_stock_batch_size
    Before,        \* the bars of the day a run may find
    Modes,         \* subset of {"append_safe", "rebuild"}
    Answers,       \* of the provider: -1 raises, 0 no rows, 1 some, 2 the day
    MaxCancels     \* bound: cancellations of the run's task

VARIABLES
    phase,    \* where run_minute stands
    mode,     \* payload.ingest_mode
    bars,     \* t_minute_bar: how much of the day a stock has
    factors,  \* t_stock_factor_minute
    toFetch,  \* what is left on fetch_queue, taken in the order of the stocks
    worker,   \* the tasks minute_worker
    queue,    \* write_queue
    writer,   \* the task minute_writer: [pc, ended (completed_workers), batch]
    batches,  \* minute_batches: the items of each
    targets,  \* factor_targets not calculated yet
    errors,   \* result.errors is not empty
    cancels

minuteVars == <<phase, mode, bars, factors, toFetch, worker, queue, writer, batches,
                targets, errors, cancels>>

Complete == 2

\* ge=1 and ge=20 of DailyMarketCloseIngestRequest; a provider returns no more than a day.
MinuteAssumption ==
    /\ IsFiniteSet(Stocks) /\ Stocks \subseteq Nat \ {0}
    /\ MaxConcurrent \in Nat \ {0} /\ BatchSize \in Nat \ {0}
    /\ Modes \subseteq {"append_safe", "rebuild"}
    /\ Before \subseteq [Stocks -> 0 .. Complete]
    /\ Answers \subseteq -1 .. Complete
ASSUME MinuteAssumption

Capacity == MaxConcurrent * 2
Workers == 1 .. MaxConcurrent
Item(s, rows) == [stock |-> s, rows |-> rows]
Mark == Item(0, 0)                \* None: what a worker puts last
Needed(m, b) == {s \in Stocks : m = "rebuild" \/ b[s] < Complete}

\* worker: pc, and the item it fetches or puts (-1: its provider.close raised).
W(pc, holds) == [pc |-> pc, holds |-> holds]
Nothing == Item(0, 0)
Gone == W("done", Nothing)
Running == {w \in Workers : worker[w].pc # "done"}

NoWriter == [pc |-> "done", ended |-> 0, batch |-> <<>>]

MinuteInit ==
        /\ phase = "start" /\ mode \in Modes
        /\ bars \in Before /\ factors \in {b \in Before : \A s \in Stocks : b[s] =< bars[s]}
        /\ toFetch = {} /\ queue = <<>> /\ batches = <<>>
        /\ worker = [w \in Workers |-> Gone] /\ writer = NoWriter
        /\ targets = {} /\ errors = FALSE /\ cancels = 0

\* run_minute up to the pipeline: a rebuild clears the day first.
Starts ==
    /\ phase = "start"
    /\ LET kept(x) == IF mode = "rebuild" THEN [s \in Stocks |-> 0] ELSE x
           needed == Needed(mode, kept(bars))
           count == IF Cardinality(needed) < MaxConcurrent THEN Cardinality(needed)
                                                           ELSE MaxConcurrent
       IN /\ bars' = kept(bars) /\ factors' = kept(factors)
          /\ toFetch' = needed
          /\ worker' = [w \in Workers |-> IF w =< count THEN W("new", Nothing) ELSE Gone]
          /\ writer' = [pc |-> IF count = 0 THEN "done" ELSE "getting",
                        ended |-> MaxConcurrent - count, batch |-> <<>>]
          /\ phase' = IF count = 0 THEN "counted" ELSE "pipeline"
    /\ UNCHANGED <<mode, queue, batches, targets, errors, cancels>>

-----------------------------------------------------------------------------
(* The workers. *)

\* The next stock of fetch_queue, or the end of the worker's loop.
TakesNext(w) ==
    \/ /\ toFetch = {}
       /\ worker' = [worker EXCEPT ![w] = W("closing", Nothing)]
       /\ UNCHANGED toFetch
    \/ \E s \in toFetch :
          /\ \A t \in toFetch : s =< t
          /\ worker' = [worker EXCEPT ![w] = W("fetching", Item(s, 0))]
          /\ toFetch' = toFetch \ {s}

WorkerStarts(w) ==
    /\ worker[w].pc = "new"
    /\ TakesNext(w)
    /\ UNCHANGED <<phase, mode, bars, factors, queue, writer, batches, targets, errors, cancels>>

\* The provider answers with rows or none, or raises: the error becomes the item.
Fetched(w, rows) ==
    /\ worker[w].pc = "fetching"
    /\ worker' = [worker EXCEPT ![w] = W("putting", Item(@.holds.stock, rows))]
    /\ UNCHANGED <<phase, mode, bars, factors, toFetch, queue, writer, batches, targets,
                   errors, cancels>>

Puts(w) ==
    /\ worker[w].pc = "putting" /\ Len(queue) < Capacity
    /\ queue' = Append(queue, worker[w].holds)
    /\ TakesNext(w)
    /\ UNCHANGED <<phase, mode, bars, factors, writer, batches, targets, errors, cancels>>

\* provider.close in a thread; whatever it does, the end mark is put.
Closed(w, failed) ==
    /\ worker[w].pc = "closing"
    /\ worker' = [worker EXCEPT ![w] = W("ending", Item(0, IF failed THEN -1 ELSE 0))]
    /\ UNCHANGED <<phase, mode, bars, factors, toFetch, queue, writer, batches, targets,
                   errors, cancels>>

\* gather returns on the first exception: all tasks that are not done are cancelled.
Cancelled(w) == CASE w.pc \in {"fetching", "putting"} -> W("closing", Nothing)
                  [] w.pc = "closing" -> W("ending", Nothing)
                  [] OTHER -> Gone
CancelTasks(workers) ==
    /\ worker' = [w \in Workers |-> Cancelled(workers[w])]
    /\ writer' = [writer EXCEPT !.pc = "done"]
    /\ phase' = "draining"

EndsSilently(w) ==                                                     \* (mutant)
    /\ worker[w].pc = "ending"
    /\ worker' = [worker EXCEPT ![w] = Gone]
    /\ UNCHANGED <<phase, mode, bars, factors, toFetch, queue, writer, batches, targets,
                   errors, cancels>>
Ends(w) ==
    /\ worker[w].pc = "ending" /\ Len(queue) < Capacity
    /\ queue' = Append(queue, Mark)
    /\ IF worker[w].holds.rows = -1 /\ phase = "pipeline"
       THEN CancelTasks([worker EXCEPT ![w] = Gone])
       ELSE worker' = [worker EXCEPT ![w] = Gone] /\ UNCHANGED <<writer, phase>>
    /\ UNCHANGED <<mode, bars, factors, toFetch, batches, targets, errors, cancels>>

-----------------------------------------------------------------------------
(* The writer. *)

Rows(batch) == {i \in 1 .. Len(batch) : batch[i].rows > 0}

\* flush: a batch without rows is only recorded; one with rows is committed first.
\* Between the batch and the next get nothing is awaited.
FlushOr(batch, flush, pc) ==
    IF flush /\ Rows(batch) # {}
    THEN /\ writer' = [writer EXCEPT !.pc = "writing", !.batch = batch]
         /\ UNCHANGED batches
    ELSE /\ writer' = [writer EXCEPT !.pc = pc, !.batch = IF flush THEN <<>> ELSE batch]
         /\ batches' = IF flush /\ batch # <<>> THEN Append(batches, batch) ELSE batches

Gets ==
    /\ writer.pc = "getting" /\ queue # <<>> /\ Head(queue) # Mark
    /\ LET batch == Append(writer.batch, Head(queue))
       IN FlushOr(batch, Len(batch) >= BatchSize, "getting")
    /\ queue' = Tail(queue)
    /\ errors' = (errors \/ Head(queue).rows < 0)
    /\ UNCHANGED <<phase, mode, bars, factors, toFetch, worker, targets, cancels>>

LeavesLastBatch ==                                                     \* (mutant)
    /\ writer.pc = "getting" /\ queue # <<>> /\ Head(queue) = Mark
    /\ writer' = [writer EXCEPT !.ended = @ + 1,
                                !.pc = IF writer.ended + 1 = MaxConcurrent THEN "done" ELSE @]
    /\ queue' = Tail(queue)
    /\ UNCHANGED <<phase, mode, bars, factors, toFetch, worker, batches, targets, errors, cancels>>
GetsMark ==
    /\ writer.pc = "getting" /\ queue # <<>> /\ Head(queue) = Mark
    /\ IF writer.ended + 1 < MaxConcurrent
       THEN writer' = [writer EXCEPT !.ended = @ + 1] /\ UNCHANGED batches
       ELSE /\ writer' = IF Rows(writer.batch) # {}
                         THEN [writer EXCEPT !.ended = @ + 1, !.pc = "writing"]
                         ELSE [writer EXCEPT !.ended = @ + 1, !.pc = "done", !.batch = <<>>]
            /\ batches' = IF writer.batch # <<>> /\ Rows(writer.batch) = {}
                          THEN Append(batches, writer.batch) ELSE batches
    /\ queue' = Tail(queue)
    /\ UNCHANGED <<phase, mode, bars, factors, toFetch, worker, targets, errors, cancels>>

\* upsert_minute_bars and its commit.
Written ==
    /\ writer.pc = "writing"
    /\ bars' = [s \in Stocks |->
                  LET got == {writer.batch[i].rows : i \in {j \in Rows(writer.batch) :
                                                              writer.batch[j].stock = s}}
                  IN CHOOSE n \in got \union {bars[s]} : \A m \in got \union {bars[s]} : m =< n]
    /\ batches' = Append(batches, writer.batch)
    /\ writer' = [writer EXCEPT !.pc = IF writer.ended = MaxConcurrent THEN "done" ELSE "getting",
                                !.batch = <<>>]
    /\ UNCHANGED <<phase, mode, factors, toFetch, worker, queue, targets, errors, cancels>>

\* The statement or its commit raises.
WriteFails ==
    /\ writer.pc = "writing" /\ phase = "pipeline"
    /\ CancelTasks(worker)
    /\ UNCHANGED <<mode, bars, factors, toFetch, queue, batches, targets, errors, cancels>>

-----------------------------------------------------------------------------
(* The run. *)

\* A timeout, a request or a shutdown cancels the run's task: gather passes it on.
\* While it waits for cancelled tasks another cancellation is passed on again.
Cancel ==
    /\ phase \in {"pipeline", "draining"} /\ cancels < MaxCancels
    /\ cancels' = cancels + 1
    /\ CancelTasks(worker)
    /\ UNCHANGED <<mode, bars, factors, toFetch, queue, batches, targets, errors>>

Drained ==
    /\ phase = "draining" /\ Running = {}
    /\ phase' = "raised"
    /\ UNCHANGED <<mode, bars, factors, toFetch, worker, queue, writer, batches, targets,
                   errors, cancels>>

Gathered ==
    /\ phase = "pipeline" /\ Running = {} /\ writer.pc = "done"
    /\ phase' = "counted"
    /\ UNCHANGED <<mode, bars, factors, toFetch, worker, queue, writer, batches, targets,
                   errors, cancels>>

\* factor_targets, from the counts of bars and factors read after the pipeline.
ListTargets ==
    /\ phase = "counted"
    /\ targets' = {s \in Stocks : mode = "rebuild" \/ factors[s] < bars[s]}
    /\ phase' = "factors"
    /\ UNCHANGED <<mode, bars, factors, toFetch, worker, queue, writer, batches, errors, cancels>>

\* The next FactorBatch targets: calculated and committed, or rolled back and noted.
NextTargets == {s \in targets : Cardinality({t \in targets : t < s}) < FactorBatch}
Calculate(failed) ==
    /\ phase = "factors" /\ targets # {}
    /\ factors' = IF failed THEN factors
                  ELSE [s \in Stocks |-> IF s \in NextTargets THEN bars[s] ELSE factors[s]]
    /\ errors' = (errors \/ failed)
    /\ targets' = targets \ NextTargets
    /\ UNCHANGED <<phase, mode, bars, toFetch, worker, queue, writer, batches, cancels>>

\* The status; the oldest partitions are dropped only after a complete day.
Whole == \A s \in Stocks : bars[s] = Complete
FactorsWhole == \A s \in Stocks : factors[s] >= bars[s]
Finish ==
    /\ phase = "factors" /\ targets = {}
    /\ phase' = IF Whole /\ FactorsWhole /\ ~errors THEN "success" ELSE "partial"
    /\ UNCHANGED <<mode, bars, factors, toFetch, worker, queue, writer, batches, targets,
                   errors, cancels>>

Ended == phase \in {"raised", "success", "partial"}

Step == \/ Starts \/ ListTargets \/ Finish \/ Gathered \/ Drained
        \/ \E w \in Workers :
              \/ WorkerStarts(w) \/ Puts(w) \/ Ends(w)
              \/ \E rows \in Answers : Fetched(w, rows)
              \/ \E failed \in BOOLEAN : Closed(w, failed)
        \/ Gets \/ GetsMark \/ Written \/ WriteFails
        \/ \E failed \in BOOLEAN : Calculate(failed)
MinuteNext == Step \/ Cancel

MinuteSpec == MinuteInit /\ [][MinuteNext]_minuteVars

\* The event loop runs a task as long as one is ready; a provider call, a thread
\* and a statement end one way or another (mootdx and asyncpg time out).
MinuteFairness == WF_minuteVars(Step)
-----------------------------------------------------------------------------
(* Properties *)

\* A run ends, whatever fails, unless its tasks were cancelled with so much on the
\* queue that the end marks of the workers do not fit: nobody takes any more, and
\* the workers wait for room until a second cancellation (close_ingest.py:1728).
Jammed == phase = "draining" /\ Len(queue) + Cardinality(Running) > Capacity
Fetching == phase = "pipeline"
RunEnds == Fetching ~> (Ended \/ Jammed)

\* When the pipeline has ended well every stock it was to fetch is in one batch and
\* the bars of every batch are stored (minute_writer).
BatchesAccount ==
    phase \in {"counted", "factors", "success", "partial"} =>
      LET items == UNION {{<<b, i>> : i \in 1 .. Len(batches[b])} : b \in 1 .. Len(batches)}
          stock(p) == batches[p[1]][p[2]].stock
      IN /\ \A p, q \in items : stock(p) = stock(q) => p = q
         /\ \A p \in items : bars[stock(p)] >= batches[p[1]][p[2]].rows
         /\ \A s \in Stocks : bars[s] = Complete \/ \E p \in items : stock(p) = s
=============================================================================
