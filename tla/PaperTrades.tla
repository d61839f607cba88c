---------------------------- MODULE PaperTrades ----------------------------
(***************************************************************************)
(* Paper candidates and paper trades of one strategy version: the          *)
(* confirmation and exit round of StrategyRealtimeService.process          *)
(* (python-back/app/modules/strategy_center/realtime_service.py), the      *)
(* post-close reconciliation upsert_daily_candidates and the writes they   *)
(* share (strategy_center/repository.py).                                  *)
(*                                                                         *)
(* A round is one database transaction.  It lists the candidates that are  *)
(* still waiting, decides each, lists the open trades, decides each, and   *)
(* commits once.  The rows it listed are ORM copies: a later write of such *)
(* a row stores what was computed from the copy, whatever the row holds by *)
(* then.  PostgreSQL runs READ COMMITTED: nothing uncommitted is seen, and *)
(* a row written and not yet committed makes the next writer wait.         *)
(*                                                                         *)
(* Quantities are in lots of 100 shares.  Prices are left out: whether a   *)
(* quote confirms, rejects or exits is chosen freely wherever the code     *)
(* looks at one.                                                           *)
(***************************************************************************)
EXTENDS Integers, Sequences, FiniteSetsExt

CONSTANTS
    Callers,     \* realtime blocks of one process that call process()
    Candidates,  \* (version, signal day, stock) keys of one signal day
    NoCaller,
    Quantity,    \* risk_plan.initial_quantity, in lots
    Ratios,      \* take_profit_legs[i].sell_ratio, in percent
    MaxTime      \* bound on the clock

ASSUME QuantityAssumption == Quantity \in Nat \ {0}
ASSUME RatiosAssumption == Ratios \in Seq(0 .. 100)
ASSUME NoCallerAssumption == NoCaller \notin Callers
ASSUME MaxTimeAssumption == MaxTime \in Nat

\* The plan of a new version: half of the position, then the rest.
DefaultLegs == <<50, 100>>

VARIABLES
    clock,   \* three ticks a day: before, in and after the window
    paper,   \* definition and version both have status 'paper'
    cand,    \* t_strategy_candidate.candidate_status
    trade,   \* t_strategy_paper_trade, at most one row per candidate
    legs,    \* sell rows of t_strategy_paper_trade_leg
    mutex,   \* StrategyRealtimeService._lock
    tx,      \* the session of each caller
    rec      \* the session of the candidate job

vars == <<clock, paper, cand, trade, legs, mutex, tx, rec>>

Waiting == {"pending_confirmation", "watching"}
Status == Waiting \union
          {"absent", "entry_triggered", "not_triggered", "cancelled"}

\* A tick stands for a stretch of one trading day.
Day(t) == t \div 3
Window(t) == IF t % 3 = 0 THEN "before" ELSE IF t % 3 = 1 THEN "active" ELSE "after"
Deadline == 1

NoTrade == [state |-> "none", open |-> 0, day |-> 0, next |-> 1]
Row == [state : {"none", "open", "closed"}, open : Nat, day : Nat, next : Nat \ {0}]
Leg == [no : Nat, kind : Nat, lots : Nat, day : Nat]   \* kind 0: sells all

NoTx == [pc |-> "idle", now |-> 0, todo |-> {},
         seen |-> [c \in Candidates |-> "absent"], marked |-> {},
         row |-> [c \in Candidates |-> NoTrade], dirty |-> {},
         sells |-> [c \in Candidates |-> {}]]

NoRec == [pc |-> "idle", seen |-> [c \in Candidates |-> "absent"],
          matched |-> {}, todo |-> {}, marked |-> {}]

Init ==
    /\ clock = 0
    /\ paper = TRUE
    /\ cand = [c \in Candidates |-> "absent"]
    /\ trade = [c \in Candidates |-> NoTrade]
    /\ legs = [c \in Candidates |-> {}]
    /\ mutex = NoCaller
    /\ tx = [k \in Callers |-> NoTx]
    /\ rec = NoRec

-----------------------------------------------------------------------------
(* A candidate row written by another open transaction makes a writer wait. *)
RowFree(k, c) ==
    /\ c \notin rec.marked
    /\ \A o \in Callers \ {k} : c \notin tx[o].marked

TradeFree(k, c) == \A o \in Callers \ {k} : c \notin tx[o].dirty

-----------------------------------------------------------------------------
(* One round *)

\* process() is called during trade hours; `now` is the caller's clock, read
\* before the lock is awaited.
Call(k) ==
    /\ tx[k].pc = "idle"
    /\ tx' = [tx EXCEPT ![k] = [NoTx EXCEPT !.pc = "called", !.now = clock]]
    /\ UNCHANGED <<clock, paper, cand, trade, legs, mutex, rec>>

\* list_runtime_candidates
Runtime(k) ==
    IF paper /\ Day(tx[k].now) = Deadline
    THEN {c \in Candidates : cand[c] \in Waiting} ELSE {}

Listed(k) ==
    [tx[k] EXCEPT !.pc = "candidates", !.seen = cand, !.todo = Runtime(k)]

Listing(k) ==
    /\ tx[k].pc = "called"
    /\ mutex' = k
    /\ tx' = [tx EXCEPT ![k] = Listed(k)]
    /\ UNCHANGED <<clock, paper, cand, trade, legs, rec>>

Unlocked(k) == Listing(k)                                         \* (mutant)

Begin(k) == mutex = NoCaller /\ Listing(k)

Deciding(k, c) == tx[k].pc = "candidates" /\ c \in tx[k].todo

Drop(k, c) == [tx[k] EXCEPT !.todo = @ \ {c}]

Mark(k, c, status) ==
    [tx[k] EXCEPT !.todo = @ \ {c}, !.marked = @ \union {c}, !.seen[c] = status]

\* before the window, no usable quote or depth, or no buying point yet
Pass(k, c) ==
    /\ Deciding(k, c)
    /\ Window(tx[k].now) # "after"
    /\ tx' = [tx EXCEPT ![k] = Drop(k, c)]
    /\ UNCHANGED <<clock, paper, cand, trade, legs, mutex, rec>>

Watch(k, c) ==
    /\ Deciding(k, c)
    /\ Window(tx[k].now) = "active"
    /\ tx[k].seen[c] = "pending_confirmation"
    /\ RowFree(k, c)
    /\ tx' = [tx EXCEPT ![k] = Mark(k, c, "watching")]
    /\ UNCHANGED <<clock, paper, cand, trade, legs, mutex, rec>>

\* _not_triggered: the window has closed, or the ask is out of reach
Reject(k, c) ==
    /\ Deciding(k, c)
    /\ Window(tx[k].now) # "before"
    /\ RowFree(k, c)
    /\ tx' = [tx EXCEPT ![k] = Mark(k, c, "not_triggered")]
    /\ UNCHANGED <<clock, paper, cand, trade, legs, mutex, rec>>

Bought(k) == [state |-> "open", open |-> Quantity, day |-> Day(tx[k].now), next |-> 1]

\* the entry without the change of candidate_status
EnterUnmarked(k, c) ==                                            \* (mutant)
    /\ Deciding(k, c)
    /\ Window(tx[k].now) = "active"
    /\ trade[c] = NoTrade
    /\ TradeFree(k, c)
    /\ tx' = [tx EXCEPT ![k] = [Drop(k, c) EXCEPT
                                   !.dirty = @ \union {c}, !.row[c] = Bought(k)]]
    /\ UNCHANGED <<clock, paper, cand, trade, legs, mutex, rec>>

Entered(k, c) ==
    [Mark(k, c, "entry_triggered") EXCEPT
        !.dirty = @ \union {c}, !.row[c] = Bought(k)]

\* create_paper_trade_with_entry, then mark_candidate_status.  The insert
\* needs the candidate's unique key; without it the flush fails and the
\* session can only be rolled back (Abort).
Enter(k, c) ==
    /\ Deciding(k, c)
    /\ Window(tx[k].now) = "active"
    /\ trade[c] = NoTrade
    /\ TradeFree(k, c)
    /\ RowFree(k, c)
    /\ tx' = [tx EXCEPT ![k] = Entered(k, c)]
    /\ UNCHANGED <<clock, paper, cand, trade, legs, mutex, rec>>

-----------------------------------------------------------------------------
(* Exits *)

\* list_open_paper_trades, in the same session: its own entries included
Seen(k) == [c \in Candidates |-> IF c \in tx[k].dirty THEN tx[k].row[c] ELSE trade[c]]

Open(k) == IF paper THEN {c \in Candidates : Seen(k)[c].state = "open"} ELSE {}

Opened(k) == [tx[k] EXCEPT !.pc = "trades", !.row = Seen(k), !.todo = Open(k)]

ListOpen(k) ==
    /\ tx[k].pc = "candidates"
    /\ tx[k].todo = {}
    /\ tx' = [tx EXCEPT ![k] = Opened(k)]
    /\ UNCHANGED <<clock, paper, cand, trade, legs, mutex, rec>>

Exiting(k, c) == tx[k].pc = "trades" /\ c \in tx[k].todo

\* A-share T+1: not on the day of the entry
MayExitSameDay(row, now) == row.day <= Day(now)                   \* (mutant)
MayExit(row, now) == row.day < Day(now)

\* no exit today, no fresh quote and depth, or no trigger
Hold(k, c) ==
    /\ Exiting(k, c)
    /\ tx' = [tx EXCEPT ![k] = Drop(k, c)]
    /\ UNCHANGED <<clock, paper, cand, trade, legs, mutex, rec>>

\* _exit_quantity of a take-profit leg: whole lots of the ratio, or everything
LegLots(open, i) == LET lots == (open * Ratios[i]) \div 100
                    IN  IF lots = 0 THEN open ELSE lots

LegNo(k, c) == 2 + Cardinality(legs[c] \union tx[k].sells[c])

\* append_paper_sell_leg: insert the leg, store what is left
NewLeg(k, c, kind, lots) ==
    [no |-> LegNo(k, c), kind |-> kind, lots |-> lots, day |-> Day(tx[k].now)]

Left(row, kind, lots) ==
    [row EXCEPT !.open = row.open - lots,
                !.state = IF row.open = lots THEN "closed" ELSE "open",
                !.next = IF kind = 0 THEN @ ELSE kind + 1]

Sold(k, c, kind, lots) ==
    [tx[k] EXCEPT !.todo = @ \ {c}, !.dirty = @ \union {c},
                  !.sells[c] = @ \union {NewLeg(k, c, kind, lots)},
                  !.row[c] = Left(tx[k].row[c], kind, lots)]

Sell(k, c, kind, lots) ==
    /\ Exiting(k, c)
    /\ MayExit(tx[k].row[c], tx[k].now)
    /\ lots > 0
    /\ TradeFree(k, c)
    /\ tx' = [tx EXCEPT ![k] = Sold(k, c, kind, lots)]
    /\ UNCHANGED <<clock, paper, cand, trade, legs, mutex, rec>>

\* hard stop, trailing stop or time exit
SellAll(k, c) == Sell(k, c, 0, tx[k].row[c].open)

\* the next take-profit leg is not remembered in risk_plan.runtime_state
SellFirstLeg(k, c) ==                                             \* (mutant)
    Len(Ratios) > 0 /\ Sell(k, c, 1, LegLots(tx[k].row[c].open, 1))

SellLeg(k, c) ==
    LET i == tx[k].row[c].next
    IN  i <= Len(Ratios) /\ Sell(k, c, i, LegLots(tx[k].row[c].open, i))

-----------------------------------------------------------------------------
(* The end of a round *)

Commit(k) ==
    /\ tx[k].pc = "trades"
    /\ tx[k].todo = {}
    /\ cand' = [c \in Candidates |-> IF c \in tx[k].marked THEN tx[k].seen[c] ELSE cand[c]]
    /\ trade' = [c \in Candidates |-> IF c \in tx[k].dirty THEN tx[k].row[c] ELSE trade[c]]
    /\ legs' = [c \in Candidates |-> legs[c] \union tx[k].sells[c]]
    /\ mutex' = NoCaller
    /\ tx' = [tx EXCEPT ![k] = NoTx]
    /\ UNCHANGED <<clock, paper, rec>>

\* A failed flush, a lost connection, a cancelled block or a crash: the
\* session rolls back and the lock is released.
Abort(k) ==
    /\ tx[k].pc # "idle"
    /\ mutex' = IF mutex = k THEN NoCaller ELSE mutex
    /\ tx' = [tx EXCEPT ![k] = NoTx]
    /\ UNCHANGED <<clock, paper, cand, trade, legs, rec>>

-----------------------------------------------------------------------------
(* evaluate_strategy_daily_candidates: nightly, or started by hand later *)

RecBegin ==
    /\ rec.pc = "idle"
    /\ paper
    /\ \E m \in SUBSET Candidates :
          rec' = [NoRec EXCEPT !.pc = "open", !.seen = cand,
                               !.matched = m, !.todo = Candidates]
    /\ UNCHANGED <<clock, paper, cand, trade, legs, mutex, tx>>

RecMarkExpired(c, status) ==                                      \* (mutant)
    rec' = [rec EXCEPT !.todo = @ \ {c}, !.marked = @ \union {c}, !.seen[c] = "expired"]

RecMark(c, status) ==
    rec' = [rec EXCEPT !.todo = @ \ {c}, !.marked = @ \union {c}, !.seen[c] = status]

\* Matched and missing: inserted.  Matched and waiting: score and plan are
\* refreshed, the status stays.  No longer matched and waiting: cancelled,
\* after the matched ones.  Any other row is left alone.
RecCreate(c) ==
    /\ rec.pc = "open" /\ c \in rec.todo \intersect rec.matched
    /\ rec.seen[c] = "absent"
    /\ RecMark(c, "pending_confirmation")
    /\ UNCHANGED <<clock, paper, cand, trade, legs, mutex, tx>>

RecKeep(c) ==
    /\ rec.pc = "open" /\ c \in rec.todo
    /\ IF c \in rec.matched THEN rec.seen[c] # "absent" ELSE rec.seen[c] \notin Waiting
    /\ rec' = [rec EXCEPT !.todo = @ \ {c}]
    /\ UNCHANGED <<clock, paper, cand, trade, legs, mutex, tx>>

RecCancel(c) ==
    /\ rec.pc = "open" /\ c \in rec.todo
    /\ rec.todo \intersect rec.matched = {}
    /\ rec.seen[c] \in Waiting
    /\ \A k \in Callers : c \notin tx[k].marked
    /\ RecMark(c, "cancelled")
    /\ UNCHANGED <<clock, paper, cand, trade, legs, mutex, tx>>

RecCommit ==
    /\ rec.pc = "open" /\ rec.todo = {}
    /\ cand' = [c \in Candidates |-> IF c \in rec.marked THEN rec.seen[c] ELSE cand[c]]
    /\ rec' = NoRec
    /\ UNCHANGED <<clock, paper, trade, legs, mutex, tx>>

RecAbort ==
    /\ rec.pc = "open"
    /\ rec' = NoRec
    /\ UNCHANGED <<clock, paper, cand, trade, legs, mutex, tx>>

-----------------------------------------------------------------------------
(* Environment *)

Tick ==
    /\ clock < MaxTime
    /\ clock' = clock + 1
    /\ UNCHANGED <<paper, cand, trade, legs, mutex, tx, rec>>

\* Promotion, retirement, archiving: the version enters or leaves paper.
Republish ==
    /\ paper' = ~paper
    /\ UNCHANGED <<clock, cand, trade, legs, mutex, tx, rec>>

Round(k) ==
    \/ Call(k)
    \/ Begin(k)
    \/ ListOpen(k)
    \/ Commit(k)
    \/ Abort(k)
    \/ \E c \in Candidates :
          Pass(k, c) \/ Watch(k, c) \/ Reject(k, c) \/ Enter(k, c)
          \/ Hold(k, c) \/ SellAll(k, c) \/ SellLeg(k, c)

Reconcile ==
    \/ RecBegin
    \/ RecCommit
    \/ RecAbort
    \/ \E c \in Candidates : RecCreate(c) \/ RecKeep(c) \/ RecCancel(c)

Next == (\E k \in Callers : Round(k)) \/ Reconcile \/ Tick \/ Republish

Spec == Init /\ [][Next]_vars

-----------------------------------------------------------------------------
Tx == [pc : {"idle", "called", "candidates", "trades"}, now : 0 .. MaxTime,
       todo : SUBSET Candidates, seen : [Candidates -> Status],
       marked : SUBSET Candidates, row : [Candidates -> Row],
       dirty : SUBSET Candidates, sells : [Candidates -> SUBSET Leg]]

Rec == [pc : {"idle", "open"}, seen : [Candidates -> Status],
        matched : SUBSET Candidates, todo : SUBSET Candidates,
        marked : SUBSET Candidates]

(* Every variable keeps its type. *)
TypeOK ==
    /\ clock \in 0 .. MaxTime
    /\ paper \in BOOLEAN
    /\ cand \in [Candidates -> Status]
    /\ trade \in [Candidates -> Row]
    /\ legs \in [Candidates -> SUBSET Leg]
    /\ mutex \in Callers \union {NoCaller}
    /\ tx \in [Callers -> Tx]
    /\ rec \in Rec

LotsOf(ls) == MapThenSumSet(LAMBDA l : l.lots, ls)

(* What is left of a trade is what was bought less what its sell legs sold, *)
(* and it is closed when and only when nothing is left: two rounds of one   *)
(* process never sell the same shares, although each stores a quantity it   *)
(* computed from a copy of the row.                                         *)
LegsAccount ==
    \A c \in Candidates : trade[c].state # "none" =>
        /\ trade[c].open + LotsOf(legs[c]) = Quantity
        /\ (trade[c].state = "closed") <=> (trade[c].open = 0)

(* Each take-profit leg is taken at most once, in their order, and an exit  *)
(* of everything is the last leg there is, across rounds, days and crashes. *)
LegsOnce ==
    \A c \in Candidates : \A l, m \in legs[c] : l.no < m.no =>
        /\ l.kind # 0
        /\ m.kind # 0 => l.kind < m.kind

(* A-share T+1: no share bought on a day is sold on that day, also when the *)
(* round that sells started before the one that bought had committed.       *)
TPlusOne == \A c \in Candidates : \A l \in legs[c] : l.day > trade[c].day

(* An entry and the decision of its candidate are one: whatever fails       *)
(* between the insert and the commit, no triggered candidate lacks a trade  *)
(* and no candidate that still waits or was turned down has one.            *)
EntryAtomic ==
    \A c \in Candidates :
        /\ cand[c] = "entry_triggered" => trade[c].state # "none"
        /\ trade[c].state # "none" => cand[c] \notin Waiting \union {"absent", "not_triggered"}

(* Only a candidate with status entry_triggered has a paper trade (the      *)
(* strategy wiki's words).  The nightly job, started by hand while a round  *)
(* is open, cancels the candidate it read as waiting.                       *)
OnlyTriggeredTrades ==
    \A c \in Candidates : trade[c].state # "none" => cand[c] = "entry_triggered"
=============================================================================
