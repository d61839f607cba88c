----------------------------- MODULE QuoteViews -----------------------------
(***************************************************************************)
(* What the realtime runtime makes of the quotes of a round: the limit     *)
(* prices it derives (realtime_market/a_share_limit.py), the market        *)
(* overview, the summary of a pool, the heat and the ranks                 *)
(* (realtime_market/service.py).  The views of one round are made of the   *)
(* same quotes, by code of their own each.                                 *)
(*                                                                         *)
(* Prices are whole ticks of 0.01 yuan, changes whole per cent (rounded    *)
(* down), scores hundredths, amounts millions of yuan.                     *)
(***************************************************************************)
EXTENDS Integers, Sequences, FiniteSets, FiniteSetsExt

CONSTANTS
  Stocks,   \* the active stocks, numbers: the order of a round's answers
  Board,    \* Board[s]: "main", "gem", "star", "bse" or "unknown"
  Pool,     \* the stocks of a pool
  Averages, \* Averages[s]: the moving averages of the last completed day, by name
  Answers   \* what the provider may answer of a stock

VARIABLES
  recent,   \* recent[s]: listed within five open days: "yes", "no", or "unknown"
  quotes    \* the quotes of the round

vars == <<recent, quotes>>

Null == -99
Known(x) == x # Null

(* ------------------------------ limit prices ------------------------------ *)

\* _board_rule, in per cent.
Ratio(s) == CASE Board[s] = "main" -> 10
              [] Board[s] \in {"gem", "star"} -> 20
              [] Board[s] = "bse" -> 30
              [] OTHER -> Null

Moved(pre, up, n) == IF up THEN pre + n ELSE pre - n

\* (mutant) a price below five ticks may have the pre-close itself as its limit.
LimitPriceUnmoved(pre, ratio, up) ==
  (2 * pre * Moved(100, up, ratio) + 100) \div 200

\* The exchange formula to the nearest tick, halves up; a tick away at least, and one
\* tick at least.
LimitPrice(pre, ratio, up) ==
  LET nearest == (2 * pre * Moved(100, up, ratio) + 100) \div 200
      moved == IF nearest = pre THEN Moved(pre, up, 1) ELSE nearest
  IN  Max({1, moved})

NoLimit == [up |-> Null, down |-> Null]
Limits(s, pre) ==
  IF Ratio(s) = Null \/ recent[s] # "no" \/ ~Known(pre) THEN NoLimit
  ELSE [up |-> LimitPrice(pre, Ratio(s), TRUE), down |-> LimitPrice(pre, Ratio(s), FALSE)]

Change(last, pre) ==
  IF Known(last) /\ Known(pre) THEN ((last - pre) * 100) \div pre ELSE Null

\* The adapter's row and _normalize_quote: the change is recalculated from the two prices.
Quote(s, a) == [last |-> a.last, pre |-> a.pre, open |-> a.open, high |-> a.high,
                amount |-> a.amount, change |-> Change(a.last, a.pre),
                given |-> a.given, derived |-> Limits(s, a.pre)]

\* _limit_price_details prefers the prices of the provider.
LimitOf(q) == IF q.given # NoLimit THEN q.given ELSE q.derived
Verified(q) == LimitOf(q) # NoLimit
AtLimitUp(q) == Verified(q) /\ q.last = LimitOf(q).up
AtLimitDown(q) == Verified(q) /\ q.last = LimitOf(q).down

(* ---------------------------------- rounds -------------------------------- *)

NoQuote == [last |-> Null, pre |-> Null, open |-> Null, high |-> Null, amount |-> 0,
            change |-> Null, given |-> NoLimit, derived |-> NoLimit]

Init ==
  /\ recent \in [Stocks -> {"yes", "no", "unknown"}]
  /\ \A s \in Stocks : Board[s] = "unknown" => recent[s] = "unknown"
  /\ quotes = [s \in Stocks |-> NoQuote]

\* A round: each stock answered, or not.
Receive ==
  /\ \A s \in Stocks : quotes[s] = NoQuote
  /\ \E got \in SUBSET Stocks, a \in [Stocks -> Answers] :
       /\ \A s \in Stocks \ got : a[s] = CHOOSE x \in Answers : TRUE
       /\ quotes' = [s \in Stocks |-> IF s \in got THEN Quote(s, a[s]) ELSE NoQuote]
  /\ UNCHANGED recent

NextRound ==
  /\ \E s \in Stocks : quotes[s] # NoQuote
  /\ quotes' = [s \in Stocks |-> NoQuote]
  /\ UNCHANGED recent

Next == Receive \/ NextRound
Spec == Init /\ [][Next]_vars

(* ---------------------------------- views --------------------------------- *)

Answered(qs, S) == {s \in S : qs[s] # NoQuote}
Priced(qs, S) == {s \in S : Known(qs[s].change)}
Count(qs, S, test(_)) == Cardinality({s \in S : test(qs[s])})
Total(S, value(_)) == MapThenSumSet(value, S)

Rises(q) == q.change > 0
Falls(q) == q.change < 0

\* change_distribution, from the top; the fourth is flat.
Bands(q) == <<q.change >= 5, 3 <= q.change /\ q.change < 5, 0 < q.change /\ q.change < 3,
              q.change = 0, -3 < q.change /\ q.change < 0,
              -5 < q.change /\ q.change <= -3, q.change <= -5>>
Distribution(qs) ==
  [k \in 1 .. 7 |-> Count(qs, Priced(qs, Stocks), LAMBDA q : Bands(q)[k])]

\* _median, doubled.
Median(values, S) ==
  LET below(x) == {s \in S : values[s] < x}
      middle == {values[s] : s \in {t \in S : /\ 2 * Cardinality(below(values[t])) <= Cardinality(S)
                  /\ 2 * Cardinality({u \in S : values[u] > values[t]}) <= Cardinality(S)}}
  IN  Min(middle) + Max(middle)

\* The counts of limit events, unknown without a quote whose limits are known.
LimitCounts(qs, S) ==
  IF ~\E s \in S : Verified(qs[s]) THEN NoLimit
  ELSE [up |-> Count(qs, S, AtLimitUp), down |-> Count(qs, S, AtLimitDown)]

Summary(qs, S) ==
  [quoted |-> Cardinality(S),
   up |-> Count(qs, Priced(qs, S), Rises), down |-> Count(qs, Priced(qs, S), Falls),
   median |-> IF Priced(qs, S) = {} THEN Null
              ELSE Median([s \in Stocks |-> qs[s].change], Priced(qs, S)),
   limits |-> LimitCounts(qs, S)]

\* _build_market_overview is of every answer, a pool's summary of those with a change.
Overview(qs) == Summary(qs, Answered(qs, Stocks))
PoolSummary(qs) == Summary(qs, Priced(qs, Pool))

\* _build_daily_factor_trend: how many stand at or above an average, and above each.
Names == {"ma5", "ma20", "ma60"}
Comparable(qs, n) == {s \in Stocks : Known(qs[s].last) /\ Known(Averages[s][n])}
Above(qs, n) == {s \in Comparable(qs, n) : qs[s].last >= Averages[s][n]}
ComparableToAll(qs) == {s \in Stocks : \A n \in Names : s \in Comparable(qs, n)}
AboveAll(qs) ==
  {s \in ComparableToAll(qs) : \A n \in Names : qs[s].last >= Averages[s][n]}

\* _build_intraday_structure: above and below the opening price, and at the day's high
\* within 0.001 yuan or 0.02 per cent of the price.
Near(a, b) == 10000 * Max({a - b, b - a}) <= Max({1000, 2 * a})
AboveOpen(q) == Known(q.last) /\ Known(q.open) /\ q.last > q.open
BelowOpen(q) == Known(q.last) /\ Known(q.open) /\ q.last < q.open
AtHigh(q) == Known(q.last) /\ Known(q.high) /\ Near(q.last, q.high)

(* ---------------------------------- heat ---------------------------------- *)

Within(low, high, x) == Max({low, Min({high, x})})

\* (mutant) the limit-downs are added.
LimitPartAdded(counts, size) ==
  LET n(k) == Max({0, counts[k]}) IN
  Min({2500, (n("up") * 25000) \div size}) + Min({1000, (n("down") * 10000) \div size})

\* Limit-ups and limit-downs of the pool's members; unknown counts as none.
LimitPart(counts, size) ==
  LET n(k) == Max({0, counts[k]}) IN
  Min({2500, (n("up") * 25000) \div size}) - Min({1000, (n("down") * 10000) \div size})

\* The whole part of the logarithm of the amount, up to the market's.
LiquidityPart(amount) == 100 * Cardinality({k \in 1 .. 6 : amount >= 10 ^ k})

Heat(qs) ==
  LET S == Priced(qs, Pool)
      n == Cardinality(S)
      mean == (100 * Total(S, LAMBDA s : qs[s].change)) \div n
  IN  IF S = {} THEN 0
      ELSE Within(0, 10000,
             Within(0, 3500, ((mean + 300) * 35) \div 6)
             + (Count(qs, S, Rises) * 3000) \div n
             + LimitPart(LimitCounts(qs, S), Cardinality(Pool))
             + LiquidityPart(Total(S, LAMBDA s : qs[s].amount)))

\* _rank_quotes: the first `limit` by change; equal changes keep the order of the round.
Ranked(qs, S, limit) ==
  LET before(s, t) == qs[s].change > qs[t].change \/ (qs[s].change = qs[t].change /\ s < t)
      place(s) == 1 + Cardinality({t \in S : before(t, s)})
  IN  [i \in 1 .. Min({limit, Cardinality(S)}) |-> CHOOSE s \in S : place(s) = i]

(* ------------------------------- properties ------------------------------- *)

\* The derived limits are a tick away from the pre-close at least, on both sides, but for
\* the lower limit of a stock of one tick; nothing is at both limits, or at one unless
\* its price is at or beyond what the percentage of its board allows, to a tick.
LimitsSound ==
  \A s \in Answered(quotes, Stocks) :
    LET q == quotes[s] IN
      /\ q.derived # NoLimit => /\ q.derived.up > q.pre
                                /\ q.derived.down < q.pre \/ q.pre = 1
      /\ ~(AtLimitUp(q) /\ AtLimitDown(q))
      /\ q.given = NoLimit /\ AtLimitUp(q) =>
           q.change >= Ratio(s) \/ 100 * (q.last + 1) > q.pre * (100 + Ratio(s))

\* The parts of the overview agree: the bands cover every change once, the stocks above
\* all averages are above each, and the ranks leave out no change above one they show.
OverviewAgrees ==
  LET qs == quotes  all == Priced(qs, Stocks)  d == Distribution(qs)  top == Ranked(qs, all, 2)
      o == Overview(qs) IN
    /\ o.up = d[1] + d[2] + d[3] /\ o.down = d[5] + d[6] + d[7]
    /\ o.up + d[4] + o.down = Cardinality(all)
    /\ \A n \in Names : AboveAll(qs) \subseteq Above(qs, n)
    /\ Count(qs, Stocks, AboveOpen) + Count(qs, Stocks, BelowOpen) <= o.quoted
    /\ \A s \in all : s \in {top[i] : i \in DOMAIN top}
                      \/ \A i \in DOMAIN top : qs[top[i]].change >= qs[s].change

\* A member of a pool that rises never lowers the pool's heat: whatever else its quotes
\* say, the same quote with a higher price gives no lower score.
HeatFollowsPrices ==
  \A s \in Priced(quotes, Pool) : \A step \in {1, 3, 10} :
    LET q == quotes[s]
        risen == [q EXCEPT !.last = @ + step, !.change = Change(q.last + step, q.pre)]
    IN  q.given = NoLimit /\ (Verified(q) => risen.last <= q.derived.up) =>
          Heat([quotes EXCEPT ![s] = risen]) >= Heat(quotes)

\* A pool of the whole market has the market's limit events.
PoolAgrees == Pool = Stocks => PoolSummary(quotes).limits = Overview(quotes).limits

\* A stock at its pre-close is at no limit.
FlatIsNoLimit ==
  \A s \in Stocks : quotes[s].change = 0 => ~AtLimitUp(quotes[s]) /\ ~AtLimitDown(quotes[s])
=============================================================================
