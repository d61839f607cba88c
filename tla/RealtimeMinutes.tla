--------------------------- MODULE RealtimeMinutes ---------------------------
(***************************************************************************)
(* The minute bars of one stock in the memories of the instances and in    *)
(* the Redis hash they share (modules/realtime_market/service.py): the     *)
(* minute block of the leader asks MooTDX and hands its rows to a writer,  *)
(* a page that finds nothing cached asks on demand, every page restores    *)
(* from Redis what its instance does not have.                             *)
(*                                                                         *)
(* The day's bars are the minutes 1, 2, ...; the bar of the running minute *)
(* is worth 0 until the next begins, then 1.  A bar is never removed from  *)
(* the hash before the hash expires at the end of the day.  The lease is   *)
(* RealtimeRounds'; here it may change hands at any moment.                *)
(***************************************************************************)
EXTENDS Integers, FiniteSets

CONSTANTS
  Procs,       \* the instances of the back end
  MaxMinute,   \* bound: the minutes of a day
  MaxDay,      \* bound: the days
  MaxEvents    \* bound: rounds, page requests, failures, restarts, takeovers

VARIABLES
  now,       \* the day and the minute that runs
  leader,    \* the instance that holds the lease
  minutes,   \* minutes[p]: _minutes of the stock
  meta,      \* meta[p]: the status of _minute_meta_by_stock
  sent,      \* sent[p]: _minute_cached_rows, the bars p takes for written
  hash,      \* Redis: the bars of realtime:minute-bars
  round,     \* round[p]: where the minute block of p is, and the rows it has
  page,      \* page[p]: where a page request of p is, and the rows it has
  cooled,    \* cooled[p]: 10 seconds have passed since the last on-demand fetch
  atRisk,    \* bars that Redis may have missed or may lose (history)
  events

vars == <<now, leader, minutes, meta, sent, hash, round, page, cooled, atRisk, events>>

Bar(m, v) == [day |-> now.day, minute |-> m, value |-> v]

\* What the provider answers now: the day's bars, the running one unfinished.
Rows == {Bar(m, IF m = now.minute THEN 0 ELSE 1) : m \in 1 .. now.minute}

SameBar(a, b) == a.day = b.day /\ a.minute = b.minute

\* A hash after some of its fields were set.
Merged(bars, fields) == {b \in bars : \A f \in fields : ~SameBar(b, f)} \union fields

\* (mutant) only bars of new minutes are written.
NewBars(p, rows) == {r \in rows : \A b \in sent[p] : ~SameBar(b, r)}

\* _minute_cache_fields: the rows that differ from what p takes for written.
Fields(p, rows) == rows \ sent[p]

\* What a process is at: a step and the rows it holds.
At(step, rows) == [step |-> step, rows |-> rows]
Idle == At("idle", {})
Writing == {"write", "sending"}

\* A bar as it was at a time or later is among these.
Covers(bars, b) == \E c \in bars : SameBar(c, b) /\ c.value >= b.value

\* What a process has got and not yet written; a write of a bar as it was before is still
\* to come, and nothing puts it in order with the later one.
Carried(p) == UNION {w.rows : w \in {x \in {round[p], page[p]} : x.step \in Writing}}
Late(b) == \E p \in Procs : \E r \in Carried(p) : SameBar(r, b) /\ r.value < b.value

\* Rows arrive.
Arrive == atRisk' = atRisk \union {b \in Rows : Late(b)}

Init ==
  /\ now = [day |-> 1, minute |-> 1]
  /\ leader \in Procs
  /\ minutes = [p \in Procs |-> {}]
  /\ meta = [p \in Procs |-> "none"]
  /\ sent = [p \in Procs |-> {}]
  /\ hash = {}
  /\ round = [p \in Procs |-> Idle]
  /\ page = [p \in Procs |-> Idle]
  /\ cooled = [p \in Procs |-> TRUE]
  /\ atRisk = {}
  /\ events = 0

Event == events < MaxEvents /\ events' = events + 1

(* ---------------------------- the minute block ---------------------------- *)

\* A worker takes the stock of the plan.
RoundAsks(p) ==
  /\ p = leader /\ round[p] = Idle
  /\ Event
  /\ round' = [round EXCEPT ![p] = At("ask", {})]
  /\ UNCHANGED <<now, leader, minutes, meta, sent, hash, page, cooled, atRisk>>

\* The rows replace what the instance shows and go to the writer's queue.
RoundGets(p) ==
  /\ round[p].step = "ask"
  /\ minutes' = [minutes EXCEPT ![p] = Rows]
  /\ meta' = [meta EXCEPT ![p] = "available"]
  /\ round' = [round EXCEPT ![p] = At("write", Rows)]
  /\ Arrive
  /\ UNCHANGED <<now, leader, sent, hash, page, cooled, events>>

\* No rows, or an error: the status alone changes.
RoundFails(p) ==
  /\ round[p].step = "ask"
  /\ \E status \in {"no_intraday_data", "provider_error"} : meta' = [meta EXCEPT ![p] = status]
  /\ round' = [round EXCEPT ![p] = Idle]
  /\ UNCHANGED <<now, leader, minutes, sent, hash, page, cooled, atRisk, events>>

(* ------------------------------- the writes ------------------------------- *)

\* The bars that changed are taken for written before Redis is asked.
Sends(p, rows) == sent' = [sent EXCEPT ![p] = Merged(@, Fields(p, rows))]

\* The writer takes the rows from its queue: hset_many_hashes_json.
WriterSends(p) ==
  /\ round[p].step = "write"
  /\ Sends(p, round[p].rows)
  /\ round' = [round EXCEPT ![p] = At("sending", Fields(p, round[p].rows))]
  /\ UNCHANGED <<now, leader, minutes, meta, hash, page, cooled, atRisk, events>>

\* Redis has executed the pipeline: its bars are safe again, if none is still to be written
\* as it was before.
Executed(fields) ==
  /\ hash' = Merged(hash, fields)
  /\ atRisk' = {b \in atRisk : Late(b) \/ ~Covers(fields, b)}
  /\ UNCHANGED events

\* Or it failed: nothing is raised and the fields stay in the memory of the instance.
Failed(fields) == Event /\ atRisk' = atRisk \union fields /\ UNCHANGED hash

Executes(fields) == Executed(fields) \/ Failed(fields)

WriterDone(p) ==
  /\ round[p].step = "sending"
  /\ Executes(round[p].rows)
  /\ round' = [round EXCEPT ![p] = Idle]
  /\ UNCHANGED <<now, leader, minutes, meta, sent, page, cooled>>

(* ---------------------------- a page's request ---------------------------- *)

\* stock() first restores the bars when the instance has neither bars nor a status.
Restores(p) == minutes[p] = {} /\ meta[p] = "none"

PageRequest(p) ==
  /\ page[p] = Idle
  /\ Event
  /\ page' = [page EXCEPT ![p] =
       IF Restores(p) THEN At("restore", hash) ELSE At("need", {})]
  /\ UNCHANGED <<now, leader, minutes, meta, sent, hash, round, cooled, atRisk>>

\* The answer of HGETALL is kept, whatever came in meanwhile.
PageRestores(p) ==
  /\ page[p].step = "restore"
  /\ IF page[p].rows = {} THEN UNCHANGED <<minutes, meta, sent>>
     ELSE /\ minutes' = [minutes EXCEPT ![p] = page[p].rows]
          /\ sent' = [sent EXCEPT ![p] = page[p].rows]
          /\ meta' = [meta EXCEPT ![p] = "available"]
  /\ page' = [page EXCEPT ![p] = At("need", {})]
  /\ UNCHANGED <<now, leader, hash, round, cooled, atRisk, events>>

\* _stock_needs_on_demand_fetch, _fetch_stock_on_demand: nothing is cached and no
\* failure is on record, or the stock was looked at before the session; a follower and
\* a request within ten seconds of the last fetch leave it at that.
Needed(p) == Restores(p) \/ meta[p] = "early"

PageGivesUp(p) ==
  /\ page[p].step = "need"
  /\ ~(Needed(p) /\ p = leader /\ cooled[p])
  /\ page' = [page EXCEPT ![p] = Idle]
  /\ UNCHANGED <<now, leader, minutes, meta, sent, hash, round, cooled, atRisk, events>>

PageAsks(p) ==
  /\ page[p].step = "need"
  /\ Needed(p) /\ p = leader /\ cooled[p]
  /\ cooled' = [cooled EXCEPT ![p] = FALSE]
  /\ page' = [page EXCEPT ![p] = At("ask", {})]
  /\ UNCHANGED <<now, leader, minutes, meta, sent, hash, round, atRisk, events>>

\* Before continuous trading only the quote was asked for.
PageTooEarly(p) ==
  /\ page[p].step = "ask" /\ now.minute = 1
  /\ meta' = [meta EXCEPT ![p] = "early"]
  /\ page' = [page EXCEPT ![p] = Idle]
  /\ UNCHANGED <<now, leader, minutes, sent, hash, round, cooled, atRisk, events>>

\* The rows are here; the quote is written to Redis before they are looked at.
PageGets(p) ==
  /\ page[p].step = "ask"
  /\ page' = [page EXCEPT ![p] = At("write", Rows)]
  /\ Arrive
  /\ UNCHANGED <<now, leader, minutes, meta, sent, hash, round, cooled, events>>

PageFails(p) ==
  /\ page[p].step = "ask"
  /\ \E status \in {"no_intraday_data", "provider_error"} : meta' = [meta EXCEPT ![p] = status]
  /\ page' = [page EXCEPT ![p] = Idle]
  /\ UNCHANGED <<now, leader, minutes, sent, hash, round, cooled, atRisk, events>>

\* _persist_minute_cache
PageSends(p) ==
  /\ page[p].step = "write"
  /\ minutes' = [minutes EXCEPT ![p] = page[p].rows]
  /\ meta' = [meta EXCEPT ![p] = "available"]
  /\ Sends(p, page[p].rows)
  /\ page' = [page EXCEPT ![p] = At("sending", Fields(p, page[p].rows))]
  /\ UNCHANGED <<now, leader, hash, round, cooled, atRisk, events>>

PageDone(p) ==
  /\ page[p].step = "sending"
  /\ Executes(page[p].rows)
  /\ page' = [page EXCEPT ![p] = Idle]
  /\ UNCHANGED <<now, leader, minutes, meta, sent, round, cooled>>

CoolsDown(p) ==
  /\ ~cooled[p]
  /\ cooled' = [cooled EXCEPT ![p] = TRUE]
  /\ UNCHANGED <<now, leader, minutes, meta, sent, hash, round, page, atRisk, events>>

(* --------------------------- time and instances --------------------------- *)

NextMinute ==
  /\ now.minute < MaxMinute
  /\ now' = [now EXCEPT !.minute = @ + 1]
  /\ UNCHANGED <<leader, minutes, meta, sent, hash, round, page, cooled, atRisk, events>>

\* The hash expires at 15:20; the memories keep the bars of the day that is over.
NextDay ==
  /\ now.day < MaxDay
  /\ \A p \in Procs : round[p] = Idle /\ page[p] = Idle
  /\ now' = [day |-> now.day + 1, minute |-> 1]
  /\ hash' = {}
  /\ UNCHANGED <<leader, minutes, meta, sent, round, page, cooled, atRisk, events>>

\* The lease passes to another instance, whatever the old owner has under way.
Takeover(p) ==
  /\ p # leader
  /\ Event
  /\ leader' = p
  /\ UNCHANGED <<now, minutes, meta, sent, hash, round, page, cooled, atRisk>>

\* A write under way may still be executed.
Restart(p) ==
  /\ Event
  /\ minutes' = [minutes EXCEPT ![p] = {}]
  /\ meta' = [meta EXCEPT ![p] = "none"]
  /\ sent' = [sent EXCEPT ![p] = {}]
  /\ hash' \in {hash} \union
       {Merged(hash, w.rows) : w \in {x \in {round[p], page[p]} : x.step = "sending"}}
  /\ round' = [round EXCEPT ![p] = Idle]
  /\ page' = [page EXCEPT ![p] = Idle]
  /\ cooled' = [cooled EXCEPT ![p] = TRUE]
  /\ UNCHANGED <<now, leader, atRisk>>

Next ==
  \/ NextMinute \/ NextDay
  \/ \E p \in Procs :
       \/ RoundAsks(p) \/ RoundGets(p) \/ RoundFails(p) \/ WriterSends(p) \/ WriterDone(p)
       \/ PageRequest(p) \/ PageRestores(p) \/ PageGivesUp(p) \/ PageAsks(p)
       \/ PageTooEarly(p) \/ PageGets(p) \/ PageFails(p) \/ PageSends(p) \/ PageDone(p)
       \/ CoolsDown(p) \/ Takeover(p) \/ Restart(p)

Spec == Init /\ [][Next]_vars

(* ------------------------------- properties ------------------------------- *)

\* An instance that takes over finds in Redis every bar of the day that any instance
\* shows, and none older, although only changes are written and each instance keeps its
\* own account of them; but for the bars its instance is about to write, those a write
\* that failed carried and those that came while they were still to be written as they
\* were before, until they are written again (_minute_cache_fields, _hydrate_stock_cache).
SharedWhole ==
  \A p \in Procs : \A b \in minutes[p] :
    b.day = now.day => Covers(hash, b) \/ b \in atRisk \/ b \in Carried(p)

\* What a page is shown is of the day.
MinutesOfToday == \A p \in Procs : \A b \in minutes[p] : b.day = now.day
=============================================================================
