--------------------------- MODULE SectorFactors ---------------------------
(***************************************************************************)
(* The daily factors and leaders of the sectors, computed for a window of  *)
(* dates in two SQL statements and one transaction                         *)
(* (indicator_engine/repository.py, called by close_ingest.py for one date *)
(* and by backfill.py for windows).  The daily review rebuilds the leaders *)
(* of a date when it has counted the boards of its limit-ups.              *)
(*                                                                         *)
(* Each sector has money flows (None: no row, Null: a row without value),  *)
(* each stock a change of the day; members are active all the time.        *)
(* Frames are scaled (2 rows for 3, 5 and 10) and the 180 days of history  *)
(* reach back to the first date.  Scores are 12 times the code's, exact    *)
(* for up to four members and two ranked sectors.                          *)
(***************************************************************************)
EXTENDS Integers, FiniteSets, FiniteSetsExt

CONSTANTS LastDate, Members,  \* Members: [sector -> set of stocks]
          Flows, Changes,     \* the facts considered: [sector -> [date -> value]], [stock -> ...]
          MaxTurns, MaxRuns

VARIABLES flow, bars, change, limit,  \* narrow facts
          boards,                     \* board_count of t_market_limit_up_evidence_daily
          rows, leaders,              \* t_sector_factor_daily, t_sector_leader_daily
          stale,                      \* (history) dates whose facts changed since their run
          turns, runs

vars == <<flow, bars, change, limit, boards, rows, leaders, stale, turns, runs>>

Dates == 1..LastDate
Sectors == DOMAIN Members
Stocks == UNION {Members[s] : s \in Sectors}
None == -100
Null == -101
NoRow == [days |-> -1]
Top == 2                     \* leaders of a sector, 5 in the code

Init ==
  /\ flow \in Flows /\ change \in Changes
  /\ bars = Sectors \X Dates /\ limit = {}
  /\ boards = [m \in Stocks |-> [d \in Dates |-> 0]]
  /\ rows = [s \in Sectors |-> [d \in Dates |-> NoRow]]
  /\ leaders = [s \in Sectors |-> [d \in Dates |-> {}]]
  /\ stale = Dates /\ turns = 0 /\ runs = 0

-----------------------------------------------------------------------------
(* Money flows                                                             *)

Value(s, d) == flow[s][d]
Given(s, d) == Value(s, d) \notin {None, Null}
Positive(s, d) == Given(s, d) /\ Value(s, d) > 0

\* flow_marked: rows up to d that interrupt a run of inflows
Group(s, d) == Cardinality({e \in 1..d : Value(s, e) # None /\ ~Positive(s, e)})

\* (mutant) the run is not cut where an outflow interrupts it
Uncut(s, d) == IF Positive(s, d) THEN Cardinality({e \in 1..d : Positive(s, e)}) ELSE 0

\* flow_history: inflows of the date's group
ContinuousDays(s, d) ==
  IF Positive(s, d) THEN Cardinality({e \in 1..d : Positive(s, e) /\ Group(s, e) = Group(s, d)}) ELSE 0

\* the frame of the last two rows
LastRows(s, d) == {e \in 1..d : Value(s, e) # None /\ Cardinality({x \in e..d : Value(s, x) # None}) <= 2}
Net(s, d) == MapThenSumSet(LAMBDA e : IF Given(s, e) THEN Value(s, e) ELSE 0, LastRows(s, d))

\* target_flows: cume_dist and dense_rank among the sectors of the date
Ranked(d) == {s \in Sectors : Given(s, d)}
Strength(s, d) == (420 * Cardinality({o \in Ranked(d) : Value(o, d) <= Value(s, d)})) \div Cardinality(Ranked(d))
FundRank(s, d) == 1 + Cardinality({Value(o, d) : o \in {x \in Ranked(d) : Value(x, d) > Value(s, d)}})

-----------------------------------------------------------------------------
(* Members                                                                 *)

Quoted(s, d) == {m \in Members[s] : change[m][d] # None}
Average(s, d) == (12 * MapThenSumSet(LAMBDA m : change[m][d], Quoted(s, d))) \div Cardinality(Quoted(s, d))
LimitUps(s, d) == {m \in Members[s] : <<m, d>> \in limit}

\* member_stats starts from the sector's bar; without it there are none.
HasStats(s, d) == <<s, d>> \in bars
Breadth(s, d) ==
  IF ~HasStats(s, d) THEN [members |-> Null, covered |-> Null, up |-> Null, limits |-> 0, average |-> 0]
  ELSE [members |-> Cardinality(Members[s]), covered |-> Cardinality(Quoted(s, d)),
        up |-> Cardinality({m \in Quoted(s, d) : change[m][d] > 0}),
        limits |-> Cardinality(LimitUps(s, d)),
        average |-> IF Quoted(s, d) = {} THEN 0 ELSE Average(s, d)]

-----------------------------------------------------------------------------
(* assemble_sector_daily_factors_final_between                             *)

Targets(d) == {s \in Sectors : <<s, d>> \in bars \/ Value(s, d) # None}

Days(s, d) == IF Given(s, d) THEN ContinuousDays(s, d) ELSE 0

Heat(s, d) ==
  LET b == Breadth(s, d) IN
  8 * b.average + 36 * b.limits + (IF Given(s, d) THEN Strength(s, d) ELSE 0)
  + 24 * Min({Days(s, d), 5})
HeatRank(s, d) ==
  LET heat == [x \in Targets(d) |-> Heat(x, d)] IN
  1 + Cardinality({heat[o] : o \in {x \in Targets(d) : heat[x] > heat[s]}})

Flags(s, d) ==
  {f \in {"sector_bar", "sector_fund_flow", "component_coverage"} :
     CASE f = "sector_bar" -> <<s, d>> \notin bars
       [] f = "sector_fund_flow" -> ~Given(s, d)
       [] f = "component_coverage" -> HasStats(s, d) /\ 5 * Breadth(s, d).covered < 4 * Breadth(s, d).members}

Assembled(s, d) ==
  [days |-> Days(s, d), net |-> IF Given(s, d) THEN Net(s, d) ELSE Null,
   rank |-> IF Given(s, d) THEN FundRank(s, d) ELSE Null,
   breadth |-> Breadth(s, d), heat |-> Heat(s, d), heatRank |-> HeatRank(s, d),
   persistence |-> Min({20 * Days(s, d), 100}), flags |-> Flags(s, d), leader |-> Null]

\* rebuild_sector_leaders_between: the members with a bar, by boards, change
\* and code.
Above(b, m, o, d) ==
  \/ b[m][d] > b[o][d]
  \/ b[m][d] = b[o][d] /\ change[m][d] > change[o][d]
  \/ b[m][d] = b[o][d] /\ change[m][d] = change[o][d] /\ m < o

RankOf(b, m, s, d) == 1 + Cardinality({o \in Quoted(s, d) : Above(b, o, m, d)})
LeadersBy(b, s, d) ==
  {[rank |-> RankOf(b, m, s, d), stock |-> m, score |-> 20 * b[m][d] + 3 * change[m][d]] :
     m \in {x \in Quoted(s, d) : RankOf(b, x, s, d) <= Top}}
Leaders(s, d) == LeadersBy(boards, s, d)
Strongest(L) == IF L = {} THEN Null ELSE Max({l.score : l \in L})

\* What the statements leave on date d: rows are replaced for the targets and
\* stay for the others; leaders are replaced for every sector with a row.
RowAfter(s, d, kept) ==
  LET row == IF s \in Targets(d) THEN Assembled(s, d) ELSE kept IN
  IF row = NoRow THEN NoRow ELSE [row EXCEPT !.leader = Strongest(Leaders(s, d))]

\* A run over a window; a rebuild deletes its rows first.
Run(first, last, rebuild) ==
  /\ runs < MaxRuns /\ runs' = runs + 1
  /\ rows' = [s \in Sectors |-> [d \in Dates |->
       IF d \in first..last THEN RowAfter(s, d, IF rebuild THEN NoRow ELSE rows[s][d]) ELSE rows[s][d]]]
  /\ leaders' = [s \in Sectors |-> [d \in Dates |->
       IF d \notin first..last THEN leaders[s][d]
       ELSE IF rows'[s][d] = NoRow THEN {} ELSE Leaders(s, d)]]
  /\ stale' = stale \ (first..last)
  /\ UNCHANGED <<flow, bars, change, limit, boards, turns>>

\* _board_counts: limit-ups in a row that end on d.
Streak(m, d) == Max({k \in 0..d : \A e \in (d - k + 1)..d : <<m, e>> \in limit})

\* MarketDailyReviewService.calculate: evidence is written for the limit-ups of
\* the date, and kept where there is none any more.
Review(d) ==
  /\ turns < MaxTurns /\ turns' = turns + 1
  /\ \E m \in Stocks : <<m, d>> \in limit
  /\ boards' = [m \in Stocks |-> IF <<m, d>> \in limit THEN [boards[m] EXCEPT ![d] = Streak(m, d)] ELSE boards[m]]
  /\ leaders' = [s \in Sectors |-> IF rows[s][d] = NoRow THEN leaders[s]
                                    ELSE [leaders[s] EXCEPT ![d] = LeadersBy(boards', s, d)]]
  /\ rows' = [s \in Sectors |-> IF rows[s][d] = NoRow THEN rows[s]
                                 ELSE [rows[s] EXCEPT ![d].leader = Strongest(leaders'[s][d])]]
  /\ UNCHANGED <<flow, bars, change, limit, stale, runs>>

-----------------------------------------------------------------------------
(* Facts change: a late flow, a cleared bar, the limit events of the day   *)

Turn == /\ turns < MaxTurns /\ turns' = turns + 1
        /\ UNCHANGED <<change, boards, rows, leaders, runs>>

FlowTurns(s, d, v) ==
  /\ Turn /\ v # flow[s][d] /\ flow' = [flow EXCEPT ![s][d] = v]
  /\ stale' = stale \cup d..LastDate /\ UNCHANGED <<bars, limit>>

BarTurns(s, d) ==
  /\ Turn /\ bars' = SymDiff(bars, {<<s, d>>})
  /\ stale' = stale \cup {d} /\ UNCHANGED <<flow, limit>>

LimitTurns(m, d) ==
  /\ Turn /\ change[m][d] # None /\ limit' = SymDiff(limit, {<<m, d>>})
  /\ stale' = stale \cup {d} /\ UNCHANGED <<flow, bars>>

Next ==
  \/ \E first \in Dates, last \in Dates, rebuild \in BOOLEAN : first <= last /\ Run(first, last, rebuild)
  \/ \E s \in Sectors, d \in Dates :
       BarTurns(s, d) \/ \E v \in {None, 2} : FlowTurns(s, d, v)
  \/ \E d \in Dates : Review(d) \/ \E m \in Stocks : LimitTurns(m, d)

Spec == Init /\ [][Next]_vars

-----------------------------------------------------------------------------
\* The last k rows of flows up to d are all inflows.
RunOf(s, d, k) ==
  LET held == {e \in 1..d : Value(s, e) # None}
      last == {e \in held : Cardinality({x \in held : x >= e}) <= k} IN
  Cardinality(last) = k /\ \A e \in last : Positive(s, e)

Current(s, d) == d \notin stale /\ s \in Targets(d)

\* What a date holds once it is computed after the last change of its facts,
\* in whatever windows: continuous_inflow_days is the longest run of inflows
\* that ends on the date, and heat ranks follow the scores without gaps.  The
\* leaders and the strength of their sector follow the boards at all times,
\* whichever of the close, a backfill and the review wrote last.
FactorsSound ==
  \A d \in Dates, s \in Sectors :
    LET r == rows[s][d]
        ranks == {rows[o][d].heatRank : o \in Targets(d)} IN
    /\ Current(s, d) =>
         /\ Value(s, d) # None => r.days = Max({k \in 0..d : k = 0 \/ RunOf(s, d, k)})
         /\ ranks = 1..Cardinality(ranks)
         /\ \A o \in Targets(d) : r.heat > rows[o][d].heat <=> r.heatRank < rows[o][d].heatRank
    /\ r # NoRow =>
         /\ leaders[s][d] = Leaders(s, d) /\ r.leader = Strongest(leaders[s][d])
         /\ {l.rank : l \in leaders[s][d]} = 1..Min({Top, Cardinality(Quoted(s, d))})

\* A sector that lost its facts of a date keeps its factors and leaders until a
\* rebuild: rows exist for the sectors with a bar or a flow only.
RowsHaveFacts ==
  \A d \in Dates \ stale, s \in Sectors : rows[s][d] # NoRow => s \in Targets(d)
=============================================================================
