---------------------------- MODULE PostCloseBoard ----------------------------
(***************************************************************************)
(* The post-close board of the dashboard: the limit events of a trading    *)
(* day and the ladder of consecutive limit-ups, read from the stored rows  *)
(* by latest_post_close_limit_events (modules/realtime_market/             *)
(* repository.py), built by _build_post_close_structure and cached by      *)
(* post_close_structure (service.py).  Dates are the open dates in order;  *)
(* the ingest that stores the rows and then its audit is external.         *)
(***************************************************************************)
EXTENDS Integers, FiniteSets

CONSTANTS
  LastDate,   \* bound: the open dates
  Stocks,     \* the active stocks
  Lookback,   \* lookback_trade_days
  Markets,    \* what the stocks may have done on the dates
  MaxQueries  \* bound: page requests

Dates == 1 .. LastDate

VARIABLES
  market,   \* market[d][s]: limit_up, limit_break or none
  bars,     \* the dates whose daily bars are stored: 1 .. bars
  stored,   \* the stocks and dates whose limit event, if any, is stored
  audited,  \* the dates with a completion audit
  cached,   \* _post_close_structure
  fresh,    \* its cache seconds have not passed
  shown,    \* the answer of the last request
  queries

vars == <<market, bars, stored, audited, cached, fresh, shown, queries>>

Unavailable(d, reason) ==
  [available |-> FALSE, date |-> d, reason |-> reason, ups |-> {}, breaks |-> {},
   boards |-> [s \in Stocks |-> 0]]

Init ==
  /\ market \in Markets
  /\ bars = 0 /\ stored = {} /\ audited = {}
  /\ cached = Unavailable(0, "post_close_structure_not_loaded")
  /\ fresh = FALSE
  /\ shown = cached
  /\ queries = 0

(* --------------------------------- ingest --------------------------------- *)

BarsIngested ==
  /\ bars < LastDate
  /\ bars' = bars + 1
  /\ UNCHANGED <<market, stored, audited, cached, fresh, shown, queries>>

\* The events of some of a date's stocks.
EventsIngested(d) ==
  /\ \E some \in SUBSET Stocks :
       stored' = stored \union {<<d, s>> : s \in some}
  /\ stored' # stored
  /\ UNCHANGED <<market, bars, audited, cached, fresh, shown, queries>>

\* The audit follows when all of them are stored, also when there were none.
EventsAudited(d) ==
  /\ \A s \in Stocks : <<d, s>> \in stored
  /\ audited' = audited \union {d}
  /\ audited' # audited
  /\ UNCHANGED <<market, bars, stored, cached, fresh, shown, queries>>

(* --------------------------------- reading -------------------------------- *)

Event(d, s) == IF <<d, s>> \in stored THEN market[d][s] ELSE "none"
Of(d, kind) == {s \in Stocks : Event(d, s) = kind}

\* The dates a ladder goes back over, d first.
Floor(d) == IF d > Lookback THEN d - Lookback + 1 ELSE 1

\* The limit-ups in a row that end on d, as far as the rows tell.
BoardCount(d, s) ==
  LET back[e \in 0 .. d] ==
        IF e < Floor(d) \/ Event(e, s) # "limit_up" THEN 0 ELSE 1 + back[e - 1]
  IN  back[d]

\* (mutant) the completion of the date is not asked for.
StructureUnaudited(d) ==
  IF d = 0 \/ d > bars THEN Unavailable(d, "daily_bar_unavailable")
  ELSE [available |-> TRUE, date |-> d, reason |-> "none",
        ups |-> Of(d, "limit_up"), breaks |-> Of(d, "limit_break"),
        boards |-> [s \in Stocks |-> BoardCount(d, s)]]

\* _build_post_close_structure of the rows of date d.
Structure(d) ==
  IF d = 0 \/ d > bars THEN Unavailable(d, "daily_bar_unavailable")
  ELSE IF d \notin audited THEN Unavailable(d, "limit_event_ingest_incomplete")
  ELSE [available |-> TRUE, date |-> d, reason |-> "none",
        ups |-> Of(d, "limit_up"), breaks |-> Of(d, "limit_break"),
        boards |-> [s \in Stocks |-> BoardCount(d, s)]]

Query == queries < MaxQueries /\ queries' = queries + 1

\* A report of a date the user chose is read past the cache.
HistoricalReport(d) ==
  /\ Query
  /\ shown' = Structure(d)
  /\ UNCHANGED <<market, bars, stored, audited, cached, fresh>>

CachedReport ==
  /\ Query
  /\ fresh
  /\ shown' = cached
  /\ UNCHANGED <<market, bars, stored, audited, cached, fresh>>

\* The latest date with bars; an error is an answer too, and cached.
LatestReport ==
  /\ Query
  /\ ~fresh
  /\ cached' \in {Structure(bars), Unavailable(0, "post_close_structure_load_failed")}
  /\ fresh' = TRUE
  /\ shown' = cached'
  /\ UNCHANGED <<market, bars, stored, audited>>

\* 300 seconds, 60 when the structure was not available.
CacheExpires ==
  /\ fresh
  /\ fresh' = FALSE
  /\ UNCHANGED <<market, bars, stored, audited, cached, shown, queries>>

Next ==
  \/ BarsIngested \/ LatestReport \/ CachedReport \/ CacheExpires
  \/ \E d \in Dates : EventsIngested(d) \/ EventsAudited(d) \/ HistoricalReport(d)

Spec == Init /\ [][Next]_vars

(* ------------------------------- properties ------------------------------- *)

\* The limit-ups in a row the market really had, over the same dates.
TrueRun(d, s) ==
  Cardinality({e \in Floor(d) .. d : \A x \in e .. d : market[x][s] = "limit_up"})

\* A board that is shown, however old the cached answer is, has exactly the date's
\* limit-ups and breaks, and has no stock on a higher rung than it reached.
BoardTrue ==
  shown.available =>
    /\ shown.ups = {s \in Stocks : market[shown.date][s] = "limit_up"}
    /\ shown.breaks = {s \in Stocks : market[shown.date][s] = "limit_break"}
    /\ \A s \in shown.ups : shown.boards[s] \in 1 .. TrueRun(shown.date, s)

\* A board read from the rows puts a stock on a lower rung than it reached only when a
\* date it goes back over has not been audited.
RungsExplained ==
  LET read == queries' # queries /\ ~ (fresh /\ shown' = cached)
      d == shown'.date
  IN  read /\ shown'.available /\ (\A e \in Floor(d) .. d : e \in audited)
        => \A s \in shown'.ups : shown'.boards[s] = TrueRun(d, s)

\* A stock of an available board stands on the rung it reached.
LadderWhole ==
  shown.available => \A s \in shown.ups : shown.boards[s] = TrueRun(shown.date, s)
=============================================================================
