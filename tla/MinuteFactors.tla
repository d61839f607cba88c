--------------------------- MODULE MinuteFactors ---------------------------
(***************************************************************************)
(* The minute factors of one stock and day (indicator_engine).  The daily  *)
(* job computes them in one SQL statement over t_minute_bar; the service   *)
(* keeps the bar by bar calculation that the unit tests cover.  The table  *)
(* holds a row for each minute and source: the minute job stores "mootdx", *)
(* a user's query of the minute bars may add rows of "akshare".            *)
(*                                                                         *)
(* Windows are scaled: a volume baseline of 2 bars for 20, lags of 1 and 2 *)
(* for 1, 5 and 15, means of 2 for 5, 10 and 20.  A mean is the pair of    *)
(* the sum and the number of its terms, a ratio the pair of its parts.     *)
(***************************************************************************)
EXTENDS Integers, Sequences, FiniteSets, FiniteSetsExt, TLC

CONSTANTS Minutes,   \* the minutes of the day, 1..n
          Bars       \* the bars considered: records [price, volume, amount]

VARIABLES rows,      \* t_minute_bar, in the order of insertion
          factors,   \* the day's rows of t_stock_factor_minute
          job        \* "none", "stored" (minute bars), "done" or "failed"

vars == <<rows, factors, job>>

Null == -99
Baseline == 2
Lags == {1, 2}
Window == 2

Init == rows = <<>> /\ factors = {} /\ job = "none"

-----------------------------------------------------------------------------
(* Bars                                                                    *)

Row(m, s, bar) == [minute |-> m, source |-> s, price |-> bar.price,
                   volume |-> bar.volume, amount |-> bar.amount]

\* The minute job stores the day's bars.
StoreDay(day) ==
  /\ job = "none" /\ job' = "stored"
  /\ rows' = rows \o [m \in Minutes |-> Row(m, "mootdx", day[m])]
  /\ UNCHANGED factors

\* query_minute_bars keeps what the engine that answered it gave.
StoreQueried(m, bar) ==
  /\ ~\E i \in DOMAIN rows : rows[i].source = "akshare"
  /\ rows' = Append(rows, Row(m, "akshare", bar))
  /\ UNCHANGED <<factors, job>>

-----------------------------------------------------------------------------
(* Terms of both calculations, over a series of rows                       *)

Sum(S, term(_)) == MapThenSumSet(term, S)
Ratio(n, d) == IF Null \in {n, d} \/ d = 0 THEN <<>> ELSE <<n, d>>
Priced(b, S) == {j \in S : b[j].price # Null}
Traded(b, S) == {j \in S : b[j].volume # Null /\ b[j].volume > 0}
Turned(b, S) == {j \in Traded(b, S) : b[j].amount # Null}
Mean(b, S) == <<Sum(S, LAMBDA j : b[j].price), Cardinality(S)>>
Prices(b, S) == {b[j].price : j \in Priced(b, S)}

Vwap(b, S) == IF Turned(b, S) = {} THEN <<>>
              ELSE <<Sum(Turned(b, S), LAMBDA j : b[j].amount),
                     Sum(Turned(b, S), LAMBDA j : b[j].volume)>>

Change(new, old) == IF old = Null THEN <<>> ELSE Ratio(new - old, old)

\* The volume against the mean of the bars in S, all of which must have traded.
VolumeRatio(b, i, S) ==
  IF Cardinality(Traded(b, S)) # Baseline \/ b[i].volume = Null THEN <<>>
  ELSE <<b[i].volume * Baseline, Sum(Traded(b, S), LAMBDA j : b[j].volume)>>

Position(b, i, S) == Ratio(b[i].price - Min(Prices(b, S)), Max(Prices(b, S)) - Min(Prices(b, S)))

-----------------------------------------------------------------------------
(* backfill_minute_factors_set_based: window frames over all rows          *)

ByMinute(r, s) == r.minute < s.minute
InOrder == SortSeq(rows, ByMinute)
Frame(i, first, last) == {j \in DOMAIN rows : i - first <= j /\ j <= i - last}

Lagged(b, i, k) == IF i > k THEN b[i - k].price ELSE Null

\* (mutant) the frame of the baseline ends with the current bar
EndsWithCurrent(b, i) ==
  [minute |-> b[i].minute, vwap |-> Vwap(b, 1..i),
   changes |-> [k \in Lags |-> Change(b[i].price, Lagged(b, i, k))],
   mean |-> Mean(b, Priced(b, Frame(i, Window - 1, 0))),
   volume |-> VolumeRatio(b, i, Frame(i, Baseline - 1, 0)),
   position |-> Position(b, i, 1..i)]

SetBased(b, i) ==
  [minute |-> b[i].minute, vwap |-> Vwap(b, 1..i),
   changes |-> [k \in Lags |-> Change(b[i].price, Lagged(b, i, k))],
   mean |-> Mean(b, Priced(b, Frame(i, Window - 1, 0))),
   volume |-> VolumeRatio(b, i, Frame(i, Baseline, 1)),
   position |-> Position(b, i, 1..i)]

\* The statement may not touch a key twice: two priced rows of one minute fail it.
TouchedTwice(b) == \E i, j \in Priced(b, DOMAIN b) : i # j /\ b[i].minute = b[j].minute

Compute ==
  /\ job = "stored"
  /\ LET b == InOrder IN
     IF TouchedTwice(b) THEN job' = "failed" /\ UNCHANGED factors
     ELSE job' = "done" /\ factors' = {SetBased(b, i) : i \in Priced(b, DOMAIN b)}
  /\ UNCHANGED rows

Next ==
  \/ \E day \in [Minutes -> Bars] : StoreDay(day)
  \/ \E m \in Minutes, bar \in Bars : StoreQueried(m, bar)
  \/ Compute

Spec == Init /\ [][Next]_vars

-----------------------------------------------------------------------------
(* _minute_factors: bar by bar, over what load_minute_bars returns         *)

\* The best source of each minute.
Loaded == SelectSeq(InOrder, LAMBDA r :
            r.source = "mootdx" \/ ~\E i \in DOMAIN rows : rows[i].source = "mootdx" /\ rows[i].minute = r.minute)

PricesOf(b) == SelectSeq(b, LAMBDA r : r.price # Null)
Trailing(p, k) == IF Len(p) > k THEN p[Len(p) - k].price ELSE Null

BarByBar(b, i) ==
  LET so_far == PricesOf(SubSeq(b, 1, i))
      last == DOMAIN so_far \ 1..(Len(so_far) - Window) IN
  [minute |-> b[i].minute, vwap |-> Vwap(b, Priced(b, 1..i)),
   changes |-> [k \in Lags |-> Change(b[i].price, Trailing(so_far, k))],
   mean |-> Mean(so_far, last),
   volume |-> VolumeRatio(b, i, {j \in 1..(i - 1) : j >= i - Baseline}),
   position |-> Position(b, i, 1..i)]

Reference == {BarByBar(Loaded, i) : i \in Priced(Loaded, DOMAIN Loaded)}

-----------------------------------------------------------------------------
AllPriced == \A i \in DOMAIN rows : rows[i].price # Null

\* What the daily job stores is what the bar by bar calculation gives for the
\* stored bars, for every day of bars with prices, with volumes or amounts
\* missing or zero, and whichever source each minute has its row from.
SetBasedAgrees == job = "done" /\ AllPriced => factors = Reference

\* As load_minute_bars prefers one source of a minute over the other: that a
\* minute has been queried from another source keeps no factor from the day.
QueryHarmless == job # "failed"
=============================================================================
