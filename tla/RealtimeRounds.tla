---------------------------- MODULE RealtimeRounds ----------------------------
(* The realtime market runtime (modules/realtime_market/service.py) of several  *)
(* instances of the back end that share one Redis: the leader lease, the        *)
(* scheduling rounds, the full-market block they start, the snapshot it writes  *)
(* and the API requests that read it.                                           *)
(*                                                                              *)
(* A full-market answer of the provider is a number, in the order the provider  *)
(* gave them; 0 is "nothing cached".  The decision, depth and minute blocks     *)
(* write per-stock keys only and are left out, as are the clocks: a block is    *)
(* due, a reference ages and a lease lapses at any moment the code allows.      *)
EXTENDS Naturals

CONSTANTS
  Procs,       \* the instances of the back end
  None,        \* no instance
  KeyCount,    \* the snapshot's keys, in the order _hydrate_shared_caches reads them
  Lapses,      \* where a round may outlast leader_lease_seconds
  MaxAnswers,  \* bound: accepted full-market answers
  MaxEdits,    \* bound: edits of a stock pool or its realtime policy
  MaxEvents    \* bound: API requests, failed calls, lapsed leases, stops and crashes

ASSUME RoundsAssumption ==
  /\ None \notin Procs
  /\ Lapses \subseteq {"idle", "loading", "forced"}
  /\ {MaxAnswers, MaxEdits, MaxEvents} \subseteq Nat
  /\ KeyCount \in Nat \ {0}

VARIABLES
  lease,    \* Redis: the owner of realtime:leader
  shared,   \* Redis: the snapshot keys and the market-timeline key
  policy,   \* PostgreSQL: the version of pools and policies
  answers,  \* the last full-market answer
  life,     \* life[p]: "up", "stopping" (stop() runs) or "down"
  active,   \* active[p]: _leader_active
  at,       \* at[p][c]: where the round loop and an API request of p are
  block,    \* block[p]: where the "market" task of p is
  draft,    \* draft[p]: the answer its block works on, 0 when it was refused
  ref,      \* ref[p]: the loaded reference, and the version a load has read
  snap,     \* snap[p]: _market_overview, _sector_strength, _pool_summaries
  line,     \* line[p]: _market_timeline, the answers it has a point for
  hyd,      \* hyd[p][c]: the key a hydration is at, and what the task has read of Redis
  lapsed,   \* lapsed[p]: the lease ran out on p, and p was not granted it since, or
            \* its block is still the one it had then (history)
  split,    \* what has parted memory and Redis: a "lapse" of a live owner's lease, a
            \* "hydration" that put an older key over a newer one, a "page" that filled
            \* the timeline of an instance not the owner or with a stale one (history)
  unread,   \* unread[p]: p began its timeline without the one Redis has, because the
            \* GET failed, and has not written since (history)
  events    \* the number of events so far

vars == <<lease, shared, policy, answers, life, active, at, block, draft, ref,
          snap, line, hyd, lapsed, split, unread, events>>

Tasks == {"round", "request"}
Keys == 1..KeyCount
NoSnap == [k \in Keys |-> 0]
Answers == 0..MaxAnswers

RoundSteps == {"idle", "get", "renew", "reference", "loading", "forced", "read",
               "keep"}
RequestSteps == {"idle", "set", "get", "renew", "ask", "read", "keep",
                 "timeline"}
BlockSteps == {"none", "quotes", "quotesSent", "indexes", "indexesSent", "apply",
               "persist"}

TypeOK ==
  /\ lease \in Procs \union {None}
  /\ shared \in [snap : [Keys -> Answers], line : SUBSET Answers]
  /\ policy \in 0..MaxEdits
  /\ answers \in Answers
  /\ life \in [Procs -> {"up", "stopping", "down"}]
  /\ active \in [Procs -> BOOLEAN]
  /\ at \in [Procs -> [Tasks -> RoundSteps \union RequestSteps]]
  /\ \A p \in Procs : at[p]["round"] \in RoundSteps /\ at[p]["request"] \in RequestSteps
  /\ block \in [Procs -> BlockSteps]
  /\ draft \in [Procs -> Answers]
  /\ ref \in [Procs -> [version : 0..MaxEdits, valid : BOOLEAN, read : 0..MaxEdits]]
  /\ snap \in [Procs -> [Keys -> Answers]]
  /\ line \in [Procs -> SUBSET Answers]
  /\ hyd \in [Procs -> [Tasks -> [key : Keys, value : Answers, line : SUBSET Answers]]]
  /\ lapsed \in [Procs -> BOOLEAN]
  /\ split \in SUBSET {"lapse", "hydration", "page"}
  /\ unread \in [Procs -> BOOLEAN]
  /\ events \in 0..MaxEvents

NoRef == [version |-> 0, valid |-> FALSE, read |-> 0]
Parked == [c \in Tasks |-> "idle"]
Read(k) == [key |-> k, value |-> 0, line |-> {}]
NoHyd == [c \in Tasks |-> Read(1)]

Init ==
  /\ lease = None
  /\ shared = [snap |-> NoSnap, line |-> {}]
  /\ policy = 0
  /\ answers = 0
  /\ life = [p \in Procs |-> "up"]
  /\ active = [p \in Procs |-> FALSE]
  /\ at = [p \in Procs |-> Parked]
  /\ block = [p \in Procs |-> "none"]
  /\ draft = [p \in Procs |-> 0]
  /\ ref = [p \in Procs |-> NoRef]
  /\ snap = [p \in Procs |-> NoSnap]
  /\ line = [p \in Procs |-> {}]
  /\ hyd = [p \in Procs |-> NoHyd]
  /\ lapsed = [p \in Procs |-> FALSE]
  /\ split = {}
  /\ unread = [p \in Procs |-> FALSE]
  /\ events = 0

Running(p, c, step) == life[p] = "up" /\ at[p][c] = step
GoesTo(p, c, step) == at' = [at EXCEPT ![p][c] = step]
Event == events < MaxEvents /\ events' = events + 1

(* ------------------------- the leader lease ------------------------------- *)
(* acquire_lease is three Redis commands, SET NX, GET and a compare-and-expire *)
(* script; the round loop and an on-demand request of one instance both run it. *)

\* A round begins with SET NX.
Sets(c) == IF c = "round" THEN "idle" ELSE "set"

\* What the caller does with a granted lease: load the reference, or ask the
\* provider for the page's stock.
Granted(p, c) ==
  /\ active' = [active EXCEPT ![p] = TRUE]
  /\ lapsed' = [lapsed EXCEPT ![p] = @ /\ block[p] # "none"]
  /\ GoesTo(p, c, IF c = "round" THEN "reference" ELSE "ask")
  /\ UNCHANGED hyd

\* A refused round hydrates the shared caches; a refused request gives up.
Refused(p, c) ==
  /\ active' = [active EXCEPT ![p] = FALSE]
  /\ GoesTo(p, c, IF c = "round" THEN "read" ELSE "idle")
  /\ hyd' = IF c = "round" THEN [hyd EXCEPT ![p][c].key = 1] ELSE hyd
  /\ UNCHANGED lapsed

\* (mutant) SET without NX.
SetLeaseAnyway(p, c) ==
  /\ Running(p, c, Sets(c))
  /\ lease' = p
  /\ Granted(p, c)
  /\ UNCHANGED <<shared, policy, answers, life, block, draft, ref, snap, line, split, unread,
                 events>>

SetLease(p, c) ==
  /\ Running(p, c, Sets(c))
  /\ \/ lease = None /\ lease' = p /\ Granted(p, c)
     \/ lease # None /\ GoesTo(p, c, "get") /\ UNCHANGED <<lease, active, lapsed, hyd>>
  /\ UNCHANGED <<shared, policy, answers, life, block, draft, ref, snap, line,
                 split, unread, events>>

GetLease(p, c) ==
  /\ Running(p, c, "get")
  /\ \/ lease = p /\ GoesTo(p, c, "renew") /\ UNCHANGED <<active, lapsed, hyd>>
     \/ lease # p /\ Refused(p, c)
  /\ UNCHANGED <<lease, shared, policy, answers, life, block, draft, ref, snap, line,
                 split, unread, events>>

\* (mutant) a plain EXPIRE instead of the compare-and-expire script.
RenewBlindly(p, c) ==
  /\ Running(p, c, "renew")
  /\ IF lease # None THEN Granted(p, c) ELSE Refused(p, c)
  /\ UNCHANGED <<lease, shared, policy, answers, life, block, draft, ref, snap, line,
                 split, unread, events>>

RenewLease(p, c) ==
  /\ Running(p, c, "renew")
  /\ IF lease = p THEN Granted(p, c) ELSE Refused(p, c)
  /\ UNCHANGED <<lease, shared, policy, answers, life, block, draft, ref, snap, line,
                 split, unread, events>>

\* A Redis error reads as "not the leader"; the SET may have been executed.
LeaseFails(p, c) ==
  /\ life[p] = "up" /\ at[p][c] \in {Sets(c), "get", "renew"}
  /\ Event
  /\ Refused(p, c)
  /\ lease' \in IF at[p][c] = Sets(c) /\ lease = None THEN {None, p} ELSE {lease}
  /\ UNCHANGED <<shared, policy, answers, life, block, draft, ref, snap, line, split, unread>>

\* Redis drops a key whose owner is gone, or did not renew it in time.
LeaseExpires ==
  /\ lease # None
  /\ life[lease] = "down"
  /\ lease' = None
  /\ UNCHANGED <<shared, policy, answers, life, active, at, block, draft, ref, snap,
                 line, hyd, lapsed, split, unread, events>>

LeaseLapses ==
  /\ lease # None
  /\ life[lease] = "up" /\ at[lease]["round"] \in Lapses
  /\ Event
  /\ lapsed' = [lapsed EXCEPT ![lease] = TRUE]
  /\ split' = split \union {"lapse"}
  /\ lease' = None
  /\ UNCHANGED <<shared, policy, answers, life, active, at, block, draft, ref, snap,
                 line, hyd, unread>>

(* --------------------------- scheduling rounds ---------------------------- *)
(* The loop and POST /realtime/refresh run _refresh_round under one lock: one   *)
(* round at a time.                                                             *)

\* The tail of a round does not await: it starts the market block when due and none
\* is running.  A forced round keeps the lock until its blocks are done.
Schedules(p) ==
  \E due, force \in BOOLEAN :
    /\ block' = IF (due \/ force) /\ block[p] = "none" /\ answers < MaxAnswers
                THEN [block EXCEPT ![p] = "quotes"] ELSE block
    /\ GoesTo(p, "round", IF force THEN "forced" ELSE "idle")

\* _ensure_reference: a reference that is loaded and not too old is used as it is.
UseReference(p) ==
  /\ Running(p, "round", "reference")
  /\ ref[p].valid
  /\ Schedules(p)
  /\ UNCHANGED <<lease, shared, policy, answers, life, active, draft, ref, snap, line,
                 hyd, lapsed, split, unread, events>>

\* (mutant) a loaded reference never gets too old.
ReadReferenceOnce(p) ==
  /\ Running(p, "round", "reference")
  /\ ~ref[p].valid
  /\ ref' = [ref EXCEPT ![p].read = policy]
  /\ GoesTo(p, "round", "loading")
  /\ UNCHANGED <<lease, shared, policy, answers, life, active, block, draft, snap,
                 line, hyd, lapsed, split, unread, events>>

\* It was invalidated, or reference_refresh_seconds have passed: pools and policies
\* are read.
ReadReference(p) ==
  /\ Running(p, "round", "reference")
  /\ ref' = [ref EXCEPT ![p].read = policy]
  /\ GoesTo(p, "round", "loading")
  /\ UNCHANGED <<lease, shared, policy, answers, life, active, block, draft, snap,
                 line, hyd, lapsed, split, unread, events>>

\* The session closes after the last query; only then are the values assigned and
\* stamped as loaded, whatever was invalidated meanwhile.
ReferenceLoads(p) ==
  /\ Running(p, "round", "loading")
  /\ ref' = [ref EXCEPT ![p] = [version |-> ref[p].read, valid |-> TRUE, read |-> 0]]
  /\ Schedules(p)
  /\ UNCHANGED <<lease, shared, policy, answers, life, active, draft, snap, line, hyd,
                 lapsed, split, unread, events>>

ReferenceFails(p) ==
  /\ Running(p, "round", "loading")
  /\ Event
  /\ ref' = [ref EXCEPT ![p].read = 0]
  /\ GoesTo(p, "round", "idle")
  /\ UNCHANGED <<lease, shared, policy, answers, life, active, block, draft, snap,
                 line, hyd, lapsed, split, unread>>

ForcedEnds(p) ==
  /\ Running(p, "round", "forced")
  /\ block[p] = "none"
  /\ GoesTo(p, "round", "idle")
  /\ UNCHANGED <<lease, shared, policy, answers, life, active, block, draft, ref, snap,
                 line, hyd, lapsed, split, unread, events>>

(* ------------------------------ hydration --------------------------------- *)
(* _hydrate_shared_caches fills every key that is still empty here; between the *)
(* test, the GET and the assignment other tasks of the instance run.            *)

\* The key after the one hyd points at, or the end of the hydration.
NextKey(p, c) ==
  IF hyd[p][c].key = KeyCount
  THEN GoesTo(p, c, "idle") /\ hyd' = [hyd EXCEPT ![p][c] = Read(1)]
  ELSE GoesTo(p, c, "read") /\ hyd' = [hyd EXCEPT ![p][c] = Read(hyd[p][c].key + 1)]

HydrateReads(p, c) ==
  /\ Running(p, c, "read")
  /\ LET k == hyd[p][c].key IN
       \/ snap[p][k] # 0 /\ NextKey(p, c) /\ UNCHANGED events
       \/ /\ snap[p][k] = 0
          /\ GoesTo(p, c, "keep")
          /\ \/ hyd' = [hyd EXCEPT ![p][c].value = shared.snap[k]] /\ UNCHANGED events
             \/ hyd' = [hyd EXCEPT ![p][c].value = 0] /\ Event     \* read as None
  /\ UNCHANGED <<lease, shared, policy, answers, life, active, block, draft, ref, snap,
                 line, lapsed, split, unread>>

HydrateKeeps(p, c) ==
  /\ Running(p, c, "keep")
  /\ LET k == hyd[p][c].key
         v == hyd[p][c].value
     IN  /\ snap' = IF v = 0 THEN snap ELSE [snap EXCEPT ![p][k] = v]
         /\ split' = IF v # 0 /\ v < snap[p][k] THEN split \union {"hydration"} ELSE split
  /\ NextKey(p, c)
  /\ UNCHANGED <<lease, shared, policy, answers, life, active, block, draft, ref, line,
                 lapsed, unread, events>>

(* --------------------------- the market block ----------------------------- *)

\* The budget has let the request through: universe_quotes is called.
AskQuotes(p) ==
  /\ life[p] = "up" /\ block[p] = "quotes"
  /\ block' = [block EXCEPT ![p] = "quotesSent"]
  /\ UNCHANGED <<lease, shared, policy, answers, life, active, at, draft, ref, snap,
                 line, hyd, lapsed, split, unread, events>>

QuotesArrive(p) ==
  /\ life[p] = "up" /\ block[p] = "quotesSent"
  /\ answers < MaxAnswers
  /\ answers' = answers + 1
  /\ draft' = [draft EXCEPT ![p] = answers + 1]
  /\ block' = [block EXCEPT ![p] = "indexes"]
  /\ UNCHANGED <<lease, shared, policy, life, active, at, ref, snap, line, hyd, lapsed,
                 split, unread, events>>

\* No answer, or one that covers less than 95 % of the active codes.
QuotesDegraded(p) ==
  /\ life[p] = "up" /\ block[p] = "quotesSent"
  /\ Event \/ (answers = MaxAnswers /\ UNCHANGED events)
  /\ draft' = [draft EXCEPT ![p] = 0]
  /\ block' = [block EXCEPT ![p] = "indexes"]
  /\ UNCHANGED <<lease, shared, policy, answers, life, active, at, ref, snap, line, hyd,
                 lapsed, split, unread>>

AskIndexes(p) ==
  /\ life[p] = "up" /\ block[p] = "indexes"
  /\ block' = [block EXCEPT ![p] = "indexesSent"]
  /\ UNCHANGED <<lease, shared, policy, answers, life, active, at, draft, ref, snap,
                 line, hyd, lapsed, split, unread, events>>

\* (mutant) the task of a degraded round is never cleared.
DegradedStays(p) ==
  /\ life[p] = "up" /\ block[p] = "indexesSent"
  /\ draft[p] = 0
  /\ UNCHANGED vars

\* A degraded round ends and keeps the previous snapshot.
RoundEndsDegraded(p) ==
  /\ life[p] = "up" /\ block[p] = "indexesSent"
  /\ draft[p] = 0
  /\ block' = [block EXCEPT ![p] = "none"]
  /\ UNCHANGED <<lease, shared, policy, answers, life, active, at, draft, ref, snap,
                 line, hyd, lapsed, split, unread, events>>

\* (mutant) the day's history is not restored before the point is added.
IndexesArriveAlone(p) ==
  /\ life[p] = "up" /\ block[p] = "indexesSent"
  /\ draft[p] # 0
  /\ block' = [block EXCEPT ![p] = "apply"]
  /\ UNCHANGED <<lease, shared, policy, answers, life, active, at, draft, ref, snap,
                 line, hyd, lapsed, split, unread, events>>

\* An accepted round goes on whatever the indexes answer: _hydrate_market_history
\* reads Redis when the instance has no timeline of its own.
IndexesArrive(p) ==
  /\ life[p] = "up" /\ block[p] = "indexesSent"
  /\ draft[p] # 0
  /\ line' = IF line[p] = {} THEN [line EXCEPT ![p] = shared.line] ELSE line
  /\ block' = [block EXCEPT ![p] = "apply"]
  /\ UNCHANGED <<lease, shared, policy, answers, life, active, at, draft, ref, snap,
                 hyd, lapsed, split, unread, events>>

\* get_json swallows an error of Redis and returns None (an instance without a timeline
\* has none in its fallback memory either): the round goes on with an empty timeline.
TimelineUnread(p) ==
  /\ life[p] = "up" /\ block[p] = "indexesSent"
  /\ draft[p] # 0 /\ line[p] = {}
  /\ Event
  /\ unread' = [unread EXCEPT ![p] = shared.line # {}]
  /\ block' = [block EXCEPT ![p] = "apply"]
  /\ UNCHANGED <<lease, shared, policy, answers, life, active, at, draft, ref, snap, line,
                 hyd, lapsed, split>>

\* Overview, sectors and pools are rebuilt from the round's quotes without an await,
\* and the timeline gains the round's point.
BlockApplies(p) ==
  /\ life[p] = "up" /\ block[p] = "apply"
  /\ snap' = [snap EXCEPT ![p] = [k \in Keys |-> draft[p]]]
  /\ line' = [line EXCEPT ![p] = @ \union {draft[p]}]
  /\ block' = [block EXCEPT ![p] = "persist"]
  /\ UNCHANGED <<lease, shared, policy, answers, life, active, at, draft, ref, hyd,
                 lapsed, split, unread, events>>

\* set_many_json: the whole snapshot and the timeline in one transaction.
Written(p) == [snap |-> snap[p], line |-> line[p]]

BlockPersists(p) ==
  /\ life[p] = "up" /\ block[p] = "persist"
  /\ \/ shared' = Written(p) /\ unread' = [unread EXCEPT ![p] = FALSE] /\ UNCHANGED events
     \/ Event /\ UNCHANGED <<shared, unread>>    \* Redis failed: only p's memory has it
  /\ draft' = [draft EXCEPT ![p] = 0]
  /\ block' = [block EXCEPT ![p] = "none"]
  /\ UNCHANGED <<lease, policy, answers, life, active, at, ref, snap, line, hyd, lapsed,
                 split>>

\* cache_ttl_seconds without a round: the snapshot keys expire, the timeline stays.
SnapshotExpires ==
  /\ shared.snap # NoSnap
  /\ \A p \in Procs : block[p] = "none"
  /\ shared' = [shared EXCEPT !.snap = NoSnap]
  /\ UNCHANGED <<lease, policy, answers, life, active, at, block, draft, ref, snap, line,
                 hyd, lapsed, split, unread, events>>

(* ------------------------------ API requests ------------------------------ *)

Requested(p) ==
  /\ Running(p, "request", "idle")
  /\ Event

\* (mutant) the leader is not asked for before the provider.
StockRequestUnasked(p) ==
  /\ Requested(p)
  /\ GoesTo(p, "request", "ask")
  /\ UNCHANGED <<lease, shared, policy, answers, life, active, block, draft, ref, snap,
                 line, hyd, lapsed, split, unread>>

\* GET /realtime/stocks/{code} with nothing cached: _fetch_stock_on_demand trusts
\* _leader_active and otherwise tries to become the leader.
StockRequest(p) ==
  /\ Requested(p)
  /\ GoesTo(p, "request", IF active[p] THEN "ask" ELSE "set")
  /\ UNCHANGED <<lease, shared, policy, answers, life, active, block, draft, ref, snap,
                 line, hyd, lapsed, split, unread>>

\* Both budgets have let it through: the quote is requested, answered and cached.
AskStock(p) ==
  /\ Running(p, "request", "ask")
  /\ GoesTo(p, "request", "idle")
  /\ UNCHANGED <<lease, shared, policy, answers, life, active, block, draft, ref, snap,
                 line, hyd, lapsed, split, unread, events>>

\* market_overview, sectors, pools.
SnapshotRequest(p) ==
  /\ Requested(p)
  /\ GoesTo(p, "request", "read")
  /\ UNCHANGED <<lease, shared, policy, answers, life, active, block, draft, ref, snap,
                 line, hyd, lapsed, split, unread>>

\* market_timeline, market_events: with no timeline here, Redis is asked.
TimelineRequest(p) ==
  /\ Requested(p)
  /\ line[p] = {} /\ shared.line # {}
  /\ GoesTo(p, "request", "timeline")
  /\ hyd' = [hyd EXCEPT ![p]["request"].line = shared.line]
  /\ UNCHANGED <<lease, shared, policy, answers, life, active, block, draft, ref, snap,
                 line, lapsed, split, unread>>

\* What it answered is kept, whatever the block has built meanwhile.
TimelineKeeps(p) ==
  /\ Running(p, "request", "timeline")
  /\ line' = [line EXCEPT ![p] = hyd[p]["request"].line]
  /\ split' = IF lease = p /\ shared.line \subseteq hyd[p]["request"].line THEN split
              ELSE split \union {"page"}
  /\ unread' = [unread EXCEPT ![p] = FALSE]
  /\ GoesTo(p, "request", "idle")
  /\ hyd' = [hyd EXCEPT ![p]["request"] = Read(1)]
  /\ UNCHANGED <<lease, shared, policy, answers, life, active, block, draft, ref, snap,
                 lapsed, events>>

\* A pool or policy is edited through instance p, which invalidates its own reference.
EditPool(p) ==
  /\ life[p] = "up"
  /\ policy < MaxEdits
  /\ policy' = policy + 1
  /\ ref' = [ref EXCEPT ![p].valid = FALSE]
  /\ UNCHANGED <<lease, shared, answers, life, active, at, block, draft, snap, line, hyd,
                 lapsed, split, unread, events>>

(* ------------------------- start, stop and crash -------------------------- *)

\* The memory of an instance that is gone.
Forgets(p) ==
  /\ active' = [active EXCEPT ![p] = FALSE]
  /\ at' = [at EXCEPT ![p] = Parked]
  /\ block' = [block EXCEPT ![p] = "none"]
  /\ draft' = [draft EXCEPT ![p] = 0]
  /\ ref' = [ref EXCEPT ![p] = NoRef]
  /\ snap' = [snap EXCEPT ![p] = NoSnap]
  /\ line' = [line EXCEPT ![p] = {}]
  /\ hyd' = [hyd EXCEPT ![p] = NoHyd]
  /\ lapsed' = [lapsed EXCEPT ![p] = FALSE]
  /\ unread' = [unread EXCEPT ![p] = FALSE]

Start(p) ==
  /\ life[p] = "down"
  /\ life' = [life EXCEPT ![p] = "up"]
  /\ UNCHANGED <<lease, shared, policy, answers, active, at, block, draft, ref, snap,
                 line, hyd, lapsed, split, unread, events>>

\* stop(): the server has answered its requests; the loop and the block are
\* cancelled, and a transaction already sent to Redis may still be executed.
StopCancels(p) ==
  /\ life[p] = "up" /\ at[p]["request"] = "idle"
  /\ Event
  /\ life' = [life EXCEPT ![p] = "stopping"]
  /\ at' = [at EXCEPT ![p]["round"] = "idle"]
  /\ \/ UNCHANGED shared
     \/ block[p] = "persist" /\ shared' = Written(p)
  /\ block' = [block EXCEPT ![p] = "none"]
  /\ draft' = [draft EXCEPT ![p] = 0]
  /\ UNCHANGED <<lease, policy, answers, active, ref, snap, line, hyd, lapsed, split, unread>>

\* release_lease deletes the key only when it is still p's.
StopReleases(p) ==
  /\ life[p] = "stopping"
  /\ lease' = IF lease = p THEN None ELSE lease
  /\ life' = [life EXCEPT ![p] = "down"]
  /\ Forgets(p)
  /\ UNCHANGED <<shared, policy, answers, split, events>>

Crash(p) ==
  /\ life[p] # "down"
  /\ Event
  /\ life' = [life EXCEPT ![p] = "down"]
  /\ Forgets(p)
  /\ UNCHANGED <<lease, shared, policy, answers, split>>

Acquire(p, c) ==
  \/ SetLease(p, c) \/ GetLease(p, c) \/ RenewLease(p, c) \/ LeaseFails(p, c)
Hydrate(p, c) == HydrateReads(p, c) \/ HydrateKeeps(p, c)
Round(p) ==
  \/ UseReference(p) \/ ReadReference(p) \/ ReferenceLoads(p) \/ ReferenceFails(p)
  \/ ForcedEnds(p)
MarketBlock(p) ==
  \/ AskQuotes(p) \/ QuotesArrive(p) \/ QuotesDegraded(p) \/ AskIndexes(p)
  \/ RoundEndsDegraded(p) \/ IndexesArrive(p) \/ TimelineUnread(p) \/ BlockApplies(p)
  \/ BlockPersists(p)
Request(p) ==
  \/ StockRequest(p) \/ AskStock(p) \/ SnapshotRequest(p) \/ TimelineRequest(p)
  \/ TimelineKeeps(p) \/ EditPool(p)

\* What the clock and the data base bring a round to, sooner or later: its market block
\* is due, its reference is too old.
MarketDue(p) == (UseReference(p) \/ ReferenceLoads(p)) /\ block'[p] # block[p]

Next ==
  \/ LeaseExpires \/ LeaseLapses \/ SnapshotExpires
  \/ \E p \in Procs :
       \/ \E c \in Tasks : Acquire(p, c) \/ Hydrate(p, c)
       \/ Round(p) \/ MarketBlock(p) \/ Request(p)
       \/ Start(p) \/ StopCancels(p) \/ StopReleases(p) \/ Crash(p)

Spec == Init /\ [][Next]_vars

(* The loop ticks, the commands and the provider answer, an interval that has    *)
(* passed makes its block due or the reference too old, and Redis drops the key  *)
(* of an owner that is gone.  Nobody restarts an instance that is down.          *)
FairSpec ==
  /\ Spec
  /\ WF_vars(LeaseExpires)
  /\ \A p \in Procs :
       /\ \A c \in Tasks : WF_vars(Acquire(p, c)) /\ WF_vars(Hydrate(p, c))
       /\ WF_vars(Round(p)) /\ SF_vars(ReadReference(p)) /\ SF_vars(MarketDue(p))
       /\ WF_vars(MarketBlock(p)) /\ WF_vars(AskStock(p)) /\ WF_vars(TimelineKeeps(p))
       /\ WF_vars(StopReleases(p))

(* ------------------------------- properties ------------------------------- *)

\* A task is granted the lease only while Redis holds it for its instance, and the
\* key never passes from one owner to another without having been free: the owner
\* that GET saw may be gone when the renewal runs (acquire_lease).
LeaseSound ==
  [][/\ \A p \in Procs, c \in Tasks :
          at[p][c] \in {Sets(c), "get", "renew"} /\ at'[p][c] \in {"reference", "ask"}
            => lease' = p
     /\ lease' # lease => None \in {lease, lease'}]_vars

AsksProvider(p) ==
  \/ block[p] = "quotes" /\ block'[p] = "quotesSent"
  \/ block[p] = "indexes" /\ block'[p] = "indexesSent"
  \/ at[p]["request"] = "ask" /\ at'[p]["request"] = "idle" /\ life'[p] = "up"

\* Provider quota is spent by the owner of the lease alone, except by an owner the
\* lease ran out on: what a stopped, crashed or refused instance had under way never
\* asks next to the new owner (stop, _start_block, _fetch_stock_on_demand).
OwnerSpends == [][\A p \in Procs : AsksProvider(p) => lease = p \/ lapsed[p]]_vars

\* The shared snapshot never goes back to an older round, unless the lease once ran
\* out on a live owner, whose late block nothing fences, or a late hydration replaced
\* what a block had just built (_persist_quote_caches, _hydrate_shared_caches).
SnapshotForward ==
  [][\A k \in Keys : shared'.snap[k] # 0 /\ shared'.snap[k] < shared.snap[k]
                      => {"lapse", "hydration"} \intersect split # {}]_vars

\* The shared timeline loses points in one way only: an instance that had none of its own
\* could not read it, and its next write replaces it.  Stops, crashes, takeovers and writes
\* that fail cost it nothing, unless the lease once ran out on a live owner or a page left
\* an instance with a timeline it would not have built (_hydrate_market_history).
TimelineCarriedOn ==
  [][\/ shared.line \subseteq shared'.line
     \/ \E p \in Procs : unread[p] /\ shared' = Written(p)
     \/ {"lapse", "page"} \intersect split # {}]_vars

\* Not kept: a hydration never puts an older key over what a block has built while it
\* waited for Redis, nor a page an older timeline, and no round begins a timeline of its
\* own while Redis has one.
HydrationIsCurrent == "hydration" \notin split
PageIsCurrent == "page" \notin split
TimelineIsRead == \A p \in Procs : ~unread[p]

\* As long as one instance stays up, the full-market rounds go on, whatever happens to
\* the leader: its lease expires and another instance takes over.
RoundsGoOn ==
  \A p \in Procs : <>[](life[p] = "up") => <>(answers = MaxAnswers)

\* An edit of a pool reaches the reference of the leader in the end, also when it was
\* made through another instance or while a load was under way and the invalidation
\* was lost: reference_refresh_seconds bound the delay.
EditReachesLeader ==
  \A v \in 1..MaxEdits :
    policy >= v ~> \/ \A p \in Procs : life[p] # "up"
                   \/ \E p \in Procs : lease = p /\ ref[p].version >= v

\* "A follower serves the current Redis snapshot" (service.py:688): when a refused
\* round skips a key, what the instance holds is what Redis holds.
FollowerServesCurrent ==
  [][\A p \in Procs :
       at[p]["round"] = "read" /\ at'[p]["round"] # "keep" /\ life'[p] = "up"
         => LET k == hyd[p]["round"].key
            IN  shared.snap[k] \in {0, snap[p][k]}]_vars
=============================================================================
