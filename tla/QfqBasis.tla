------------------------------ MODULE QfqBasis ------------------------------
(***************************************************************************)
(* The price basis of one stock's rows of t_stock_factor_daily             *)
(* (indicator_engine/repository.py, called by market_data/close_ingest.py  *)
(* and indicator_engine/backfill.py).  Forward-adjusted (QFQ) prices are   *)
(* price * factor of the date / latest factor, so an ex-date changes the   *)
(* price of every earlier row: the daily run rescales the stored history   *)
(* by a ratio derived from the newest stored row before the ex-date.       *)
(*                                                                         *)
(* Adjustment factors are powers of two given by their exponents; the      *)
(* basis of a stored price is the exponent its latest factor had.  A row   *)
(* holds two price columns: close_qfq, which an assembly never overwrites  *)
(* (coalesce), and the 20 to 250 day extremes, which it always does.  Bars *)
(* of every opened date are present; factors and provider rows may come    *)
(* late.                                                                   *)
(***************************************************************************)
EXTENDS Integers, FiniteSets, FiniteSetsExt

CONSTANTS LastDay,      \* number of trade dates (a bound)
          Factors,      \* the histories of factor exponents considered
          MaxShift,     \* the largest ratio a history is rescaled by (an exponent)
          MaxQfqRuns    \* bound on calculations

ASSUME FactorsAssumption ==
  /\ LastDay \in Nat \ {0} /\ MaxQfqRuns \in Nat /\ MaxShift \in Nat
  /\ Factors \subseteq [1..LastDay -> Nat]

VARIABLES A,        \* [Days -> Nat]: the exponent of each date's factor
          today, adj,   \* newest opened date; dates whose factor is stored
          close, range, \* [Days -> basis of the stored column, or Unset]
          calculation, qfqRuns,
          done,     \* (history) dates calculated as the newest, all factors stored
          crossed   \* (history) an earlier date was worked on at a bad moment, or a
                    \* ratio was refused

qfqVars == <<A, today, adj, close, range, calculation, qfqRuns, done, crossed>>

Days == 1..LastDay
Unset == -1
NoCalculation == [date |-> 0, at |-> "none"]

QfqTypeOK ==
  /\ A \in [Days -> Nat] /\ today \in Days /\ adj \subseteq 1..today
  /\ close \in [Days -> Int] /\ range \in [Days -> Int]
  /\ calculation \in [date: 0..LastDay, at: {"none", "rebase", "assemble"}]
  /\ qfqRuns \in 0..MaxQfqRuns /\ done \subseteq Days /\ crossed \in BOOLEAN

QfqInit ==
  /\ A \in Factors /\ today = 1 /\ adj = {}
  /\ close = [d \in Days |-> Unset] /\ range = [d \in Days |-> Unset]
  /\ calculation = NoCalculation /\ qfqRuns = 0 /\ done = {}
  /\ crossed = FALSE

-----------------------------------------------------------------------------
(* Facts                                                                   *)

OpenDay == /\ calculation = NoCalculation /\ today < LastDay /\ today' = today + 1
           /\ UNCHANGED <<A, adj, close, range, calculation, qfqRuns, done, crossed>>

FactorArrives(d) ==
  /\ calculation = NoCalculation /\ d =< today /\ d \notin adj /\ adj' = adj \cup {d}
  /\ UNCHANGED <<A, today, close, range, calculation, qfqRuns, done, crossed>>

\* Stored prices of earlier dates wait for the rebase of the newest one.
Behind == \E e \in 1..(today - 1) : {close[e], range[e]} \ {Unset, A[today]} # {}

\* A stk_factor_pro row: the provider adjusts to the newest date; its prices
\* replace what is stored, the local extremes stay.
ProviderRow(d) ==
  /\ calculation = NoCalculation /\ d =< today /\ close[d] # A[today]
  /\ close' = [close EXCEPT ![d] = A[today]]
  /\ crossed' = (crossed \/ (d < today /\ Behind))
  /\ UNCHANGED <<A, today, adj, range, calculation, qfqRuns, done>>

-----------------------------------------------------------------------------
(* A calculation of a date: rebase, commit, assemble, commit               *)

Calculate(d) ==
  /\ calculation = NoCalculation /\ qfqRuns < MaxQfqRuns /\ d =< today
  /\ calculation' = [date |-> d, at |-> "rebase"] /\ qfqRuns' = qfqRuns + 1
  /\ UNCHANGED <<A, today, adj, close, range, done, crossed>>

FactorBefore(d) == {e \in adj : e < d}

\* The factor of the date differs from the one stored before it.
Changed(d) == d \in adj /\ FactorBefore(d) # {} /\ A[Max(FactorBefore(d))] # A[d]

\* The earlier rows with a price: the newest is the reference.
Priced(d) == {e \in 1..(d - 1) : close[e] # Unset}
Reference(d) == Max(Priced(d))

\* (mutant) the ratio of the factors, whatever basis the stored prices are on
FactorRatio(d) == A[d] - A[Max(FactorBefore(d))]

\* The ratio of what the reference close should be, by the factor stored on or
\* before it, and what it is: an exponent to add to a basis.
Shift(d) == LET r == Reference(d) IN
            (A[d] - A[Max(FactorBefore(r + 1))]) - (close[r] - A[r])

Rescaled(column, d) ==
  [e \in Days |-> IF e < d /\ column[e] # Unset THEN column[e] + Shift(d) ELSE column[e]]

\* A ratio can be derived: a changed factor, a price before it and its factor.
Derivable(d) == Changed(d) /\ Priced(d) # {} /\ FactorBefore(Reference(d) + 1) # {}

\* scale BETWEEN 0.01 AND 100: a larger ratio rescales nothing, without a word.
Accepted == (-MaxShift)..MaxShift

\* rebase_qfq_history_for_adjustment_changes: every earlier row is rescaled by
\* the one ratio.
Rebase ==
  /\ calculation.at = "rebase" /\ calculation' = [calculation EXCEPT !.at = "assemble"]
  /\ LET d == calculation.date IN
     /\ IF Derivable(d) /\ Shift(d) \in Accepted
        THEN close' = Rescaled(close, d) /\ range' = Rescaled(range, d)
        ELSE UNCHANGED <<close, range>>
     /\ crossed' = (crossed \/ (/\ Derivable(d) /\ Shift(d) # 0
                                /\ d < today \/ Shift(d) \notin Accepted))
  /\ UNCHANGED <<A, today, adj, qfqRuns, done>>

\* What an assembly computes now: prices over the newest stored factor, none
\* on a date without a factor (its extremes are over the dates that have one).
Latest == IF adj = {} THEN Unset ELSE A[Max(adj)]
PriceNow(d) == IF d \in adj THEN Latest ELSE Unset
RangeNow(d) == IF FactorBefore(d + 1) = {} THEN Unset ELSE Latest

\* assemble_stock_daily_factors_final of one date.
Assemble ==
  /\ calculation.at = "assemble" /\ calculation' = NoCalculation
  /\ LET d == calculation.date IN
     /\ close' = IF close[d] = Unset THEN [close EXCEPT ![d] = PriceNow(d)] ELSE close
     /\ range' = [range EXCEPT ![d] = RangeNow(d)]
     /\ done' = IF d = today /\ adj = 1..today THEN done \cup {d} ELSE done
     /\ crossed' = (crossed \/ (d < today /\ Behind))
  /\ UNCHANGED <<A, today, adj, qfqRuns>>

\* The process exits between the two commits.
Exits == /\ calculation.at = "assemble" /\ calculation' = NoCalculation
         /\ UNCHANGED <<A, today, adj, close, range, qfqRuns, done, crossed>>

QfqNext ==
  \/ OpenDay \/ Rebase \/ Assemble \/ Exits
  \/ \E d \in Days : FactorArrives(d) \/ ProviderRow(d) \/ Calculate(d)

QfqSpec == QfqInit /\ [][QfqNext]_qfqVars

-----------------------------------------------------------------------------
\* Every stored price of dates 1..d is on the basis of date d.
OnBasis(d) == \A e \in 1..d : close[e] \in {Unset, A[d]} /\ range[e] \in {Unset, A[d]}

\* (action) The calculation of the newest date leaves the whole history on its
\* basis, when every earlier date was calculated as the newest with the factors
\* stored: interrupted between the two commits, repeated, with the provider's row
\* before or after its own, and with earlier dates calculated again or refetched,
\* unless that work wrote into a history that waited for its rebase or turned it
\* back, or the ratio was refused.
AssemblesOneBasis ==
  Assemble /\ calculation.date = today /\ adj = 1..today /\ 1..(today - 1) \subseteq done
           /\ ~crossed
    => OnBasis(today)'
OneBasis == [][AssemblesOneBasis]_qfqVars

\* (action) "A repeated run therefore derives a scale of one and is idempotent"
\* (docstring of rebase_qfq_history_for_adjustment_changes): the rebase of a date
\* already calculated changes nothing.
RepeatIdles == Rebase /\ calculation.date \in done => UNCHANGED <<close, range>>
RepeatIsIdle == [][RepeatIdles]_qfqVars
=============================================================================
