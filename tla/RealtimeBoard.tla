---------------------------- MODULE RealtimeBoard ----------------------------
(***************************************************************************)
(* The intraday dashboard of the realtime runtime                          *)
(* (modules/realtime_market/service.py): what an accepted full-market      *)
(* round makes of its quotes, the timeline that gains a point with it and  *)
(* the events that tell what changed since the round before; the history   *)
(* is kept in memory, written to Redis and restored from there.            *)
(*                                                                         *)
(* One instance; another one may lead in between and write the history of  *)
(* the day.  A round's quotes are the change of every active stock and the *)
(* heat of every concept, whose formula is left out.                       *)
(***************************************************************************)
EXTENDS Integers, Sequences, FiniteSets

CONSTANTS
  Stocks,         \* the active stocks, numbers in the order of their codes
  Concepts,       \* the concepts, numbers in the order of their codes
  Members,        \* Members[k]: the active stocks of a concept
  Changes, Heats, \* the changes and heats there are
  Share,          \* a breadth takes Share of 100 stocks (65)
  TopConcepts,    \* the concepts events look at (10)
  LeaderConcepts, \* the concepts whose leader is followed (5)
  MinMove,        \* the ranks a concept must move (5)
  KeptPoints,     \* MARKET_TIMELINE_MAX_ITEMS
  KeptEvents,     \* MARKET_EVENT_MAX_ITEMS
  RoundEvents,    \* MARKET_EVENT_PER_ROUND_LIMIT
  MaxRounds,      \* bound: accepted rounds
  MaxDay,         \* bound: the days
  MaxTurns        \* bound: restarts and rounds of another instance

VARIABLES
  day,       \* today
  quotes,    \* the quotes of the last accepted round of this process
  quotesDay, \* the day it was of, 0 when there was none
  memory,    \* _market_history_trade_date, _market_timeline, _market_events
  ranks,     \* _previous_sector_ranks; 0: none
  leaders,   \* _previous_concept_leaders; 0: none
  breadth,   \* _previous_market_breadth
  redis,     \* the market-timeline and market-events keys of the day
  rounds,    \* the rounds there were, of any instance: their ids
  turns

vars == <<day, quotes, quotesDay, memory, ranks, leaders, breadth, redis, rounds, turns>>

First(s, n) == SubSeq(s, 1, IF Len(s) > n THEN n ELSE Len(s))
Last(s, n) == SubSeq(s, IF Len(s) > n THEN Len(s) - n + 1 ELSE 1, Len(s))

(* ---------------------- what a round's quotes amount to ------------------- *)

Count(q, P(_)) == Cardinality({s \in Stocks : P(q.change[s])})
Up(v) == v > 0
Down(v) == v < 0

\* market_breadth of the overview; every stock has a quote.
BreadthOf(q) ==
  CASE Count(q, Up) * 100 >= Share * Cardinality(Stocks) -> "broadly_up"
    [] Count(q, Up) * 100 < Share * Cardinality(Stocks)
       /\ Count(q, Down) * 100 >= Share * Cardinality(Stocks) -> "broadly_down"
    [] OTHER -> "mixed"

\* The first member with the largest change.
LeaderOf(q, k) ==
  CHOOSE s \in Members[k] : \A t \in Members[k] :
    q.change[s] > q.change[t] \/ (q.change[s] = q.change[t] /\ s <= t)

\* The place of a concept by heat: equal ones in the order of their codes.
RankOf(q, k) ==
  1 + Cardinality({j \in Concepts :
        q.heat[j] > q.heat[k] \/ (q.heat[j] = q.heat[k] /\ j < k)})

RanksOf(q) == [k \in Concepts |-> RankOf(q, k)]

\* The leaders the next round is compared with.
LeadersOf(q) == [k \in Concepts |-> IF RankOf(q, k) <= LeaderConcepts THEN LeaderOf(q, k) ELSE 0]

Event(id, kind, k) == [round |-> id, kind |-> kind, concept |-> k]

\* _build_market_events, concept by concept in the order of the ranks.
ConceptEvents(q, id, k) ==
  LET move == ranks[k] - RankOf(q, k)
  IN  (IF ranks[k] # 0 /\ move >= MinMove THEN <<Event(id, "rank_up", k)>> ELSE <<>>)
      \o (IF ranks[k] # 0 /\ -move >= MinMove THEN <<Event(id, "rank_down", k)>> ELSE <<>>)
      \o (IF leaders[k] # 0 /\ leaders[k] # LeaderOf(q, k) /\ RankOf(q, k) <= LeaderConcepts
          THEN <<Event(id, "leader", k)>> ELSE <<>>)

Ranked(q, r) == CHOOSE k \in Concepts : RankOf(q, k) = r
Tops == IF TopConcepts < Cardinality(Concepts) THEN TopConcepts ELSE Cardinality(Concepts)

EventsOf(q, id) ==
  LET upTo[r \in 0 .. Tops] ==
        IF r = 0 THEN IF BreadthOf(q) # breadth THEN <<Event(id, "breadth", 0)>> ELSE <<>>
        ELSE upTo[r - 1] \o ConceptEvents(q, id, Ranked(q, r))
  IN  upTo[Tops]

(* --------------------------------- actions -------------------------------- *)

NoHistory == [day |-> 0, points |-> <<>>, events |-> <<>>]
NoRanks == [k \in Concepts |-> 0]
NoQuotes == [change |-> [s \in Stocks |-> 0], heat |-> [k \in Concepts |-> 0]]
Quotes == [change : [Stocks -> Changes], heat : [Concepts -> Heats]]

Init ==
  /\ day = 1
  /\ quotes = NoQuotes /\ quotesDay = 0
  /\ memory = NoHistory /\ redis = NoHistory
  /\ ranks = NoRanks /\ leaders = NoRanks /\ breadth = "none"
  /\ rounds = 0 /\ turns = 0

\* _hydrate_market_history: the day's history, when the memory has none of today.
Hydrated ==
  IF memory.day = day /\ (memory.points # <<>> \/ memory.events # <<>>) THEN memory
  ELSE IF redis.day = day THEN redis ELSE memory

\* _record_market_history: a point, and events when there was a point before it.
Recorded(history, q, id) ==
  [day |-> day,
   points |-> Last(Append(history.points, [round |-> id, breadth |-> BreadthOf(q)]), KeptPoints),
   events |-> IF history.points = <<>> THEN history.events
              ELSE Last(history.events \o First(EventsOf(q, id), RoundEvents), KeptEvents)]

\* (mutant) the leaders of the first round are kept.
RemembersLess(q) ==
  /\ quotes' = q /\ quotesDay' = day
  /\ ranks' = RanksOf(q)
  /\ leaders' = IF leaders = NoRanks THEN LeadersOf(q) ELSE leaders
  /\ breadth' = BreadthOf(q)

\* What the next round is compared with.
Remembers(q) ==
  /\ quotes' = q /\ quotesDay' = day
  /\ ranks' = RanksOf(q)
  /\ leaders' = LeadersOf(q)
  /\ breadth' = BreadthOf(q)

\* An accepted round restores the history and appends to it.
SameDayRound(q) ==
  /\ Hydrated.day = day
  /\ memory' = Recorded(Hydrated, q, rounds + 1)
  /\ Remembers(q)

\* The first accepted round of a day nobody has a history of forgets the day before
\* (_ensure_market_history_trade_date).
FirstRound(q) ==
  /\ Hydrated.day # day
  /\ memory' = [day |-> day, events |-> <<>>,
                points |-> <<[round |-> rounds + 1, breadth |-> BreadthOf(q)]>>]
  /\ Remembers(q)

\* The history is in memory before it is in Redis, and a failed write leaves it there.
AcceptRound ==
  /\ rounds < MaxRounds
  /\ rounds' = rounds + 1
  /\ \E q \in Quotes : SameDayRound(q) \/ FirstRound(q)
  /\ \/ redis' = memory' /\ UNCHANGED turns
     \/ turns < MaxTurns /\ turns' = turns + 1 /\ UNCHANGED redis
  /\ UNCHANGED day

\* GET /realtime/market-timeline, /market-events
PageRequest ==
  /\ Hydrated # memory
  /\ memory' = Hydrated
  /\ UNCHANGED <<day, quotes, quotesDay, ranks, leaders, breadth, redis, rounds, turns>>

\* Another instance leads for a round: it continues the history that is in Redis.
OtherLeads ==
  /\ turns < MaxTurns /\ rounds < MaxRounds
  /\ turns' = turns + 1 /\ rounds' = rounds + 1
  /\ \E q \in Quotes :
       LET before == IF redis.day = day THEN redis.points ELSE <<>>
       IN  redis' = [day |-> day, events |-> <<>>,
                     points |-> Last(Append(before, [round |-> rounds + 1,
                                                     breadth |-> BreadthOf(q)]), KeptPoints)]
  /\ UNCHANGED <<day, quotes, quotesDay, memory, ranks, leaders, breadth>>

Restart ==
  /\ turns < MaxTurns
  /\ turns' = turns + 1
  /\ memory' = NoHistory /\ quotes' = NoQuotes /\ quotesDay' = 0
  /\ ranks' = NoRanks /\ leaders' = NoRanks /\ breadth' = "none"
  /\ UNCHANGED <<day, redis, rounds>>

\* The keys of a day expire with it.
NextDay ==
  /\ day < MaxDay
  /\ day' = day + 1
  /\ UNCHANGED <<quotes, quotesDay, memory, ranks, leaders, breadth, redis, rounds, turns>>

Next == AcceptRound \/ PageRequest \/ OtherLeads \/ Restart \/ NextDay

Spec == Init /\ [][Next]_vars

(* ------------------------------- properties ------------------------------- *)

NewEvents ==
  LET events == {memory'.events[i] : i \in DOMAIN memory'.events}
  IN  {[kind |-> e.kind, concept |-> e.concept] : e \in {x \in events : x.round = rounds'}}

\* What is different between the quotes of two rounds.
Differences(q, r) ==
  LET moved(k) == RankOf(q, k) - RankOf(r, k)
      top == {k \in Concepts : RankOf(r, k) <= TopConcepts}
      followed == {k \in top : RankOf(q, k) <= LeaderConcepts /\ RankOf(r, k) <= LeaderConcepts}
  IN  (IF BreadthOf(q) # BreadthOf(r) THEN {[kind |-> "breadth", concept |-> 0]} ELSE {})
      \union {[kind |-> "rank_up", concept |-> k] : k \in {j \in top : moved(j) >= MinMove}}
      \union {[kind |-> "rank_down", concept |-> k] : k \in {j \in top : -moved(j) >= MinMove}}
      \union {[kind |-> "leader", concept |-> k] :
                k \in {j \in followed : LeaderOf(q, j) # LeaderOf(r, j)}}

\* The events of a round are what changed since the round before it: every change is
\* told and nothing else, whoever led and whatever was restored in between, as long as
\* the process has had an accepted round of its own on this day (_build_market_events).
EventsTrue ==
  memory'.points # memory.points /\ rounds' # rounds /\ quotesDay = day =>
    LET told == Differences(quotes, quotes') IN
    \/ NewEvents = told
    \/ NewEvents \subseteq told /\ Cardinality(NewEvents) = RoundEvents
    \/ NewEvents \subseteq told /\ Len(memory'.events) = KeptEvents

\* No event is told that compares with nothing: an instance that has just started, or
\* that led last on another day, has no round to compare with.
EventsHaveBasis == rounds' # rounds /\ quotesDay # day => NewEvents = {}
=============================================================================
