--------------------------- MODULE DataAssetHealth --------------------------
(***************************************************************************)
(* How complete the data centre says an asset is on one day                *)
(* (data_assets/repository.py): coverage subtracts counts from counts,     *)
(* the gap report that explains it looks at every stock on its own.  A     *)
(* daily asset counts the stocks that have a row, an asset of minutes      *)
(* (minute_bars, stock_factor_minute) one for every 240 rows.              *)
(***************************************************************************)
EXTENDS Integers, FiniteSets

CONSTANTS Universe,   \* rows of t_stock
          Derived,    \* the asset is not one of the three tables of core_actual
          DayBars,    \* the minutes of a session, 240
          StoredBars  \* bound: rows of a stock and day, those of a second source included

ASSUME UniverseAssumption == IsFiniteSet(Universe)
ASSUME BarsAssumption == DayBars \in Nat \ {0} /\ StoredBars \in Nat

VARIABLES frequency, \* the asset's definition: "daily" or "minute"
          active,    \* active stocks of the Shanghai and Shenzhen exchanges
          suspended, \* stocks with a suspend event that day
          core,      \* stocks in t_daily_bar, t_stock_daily_basic or t_stock_fund_flow_daily
          asset,     \* the rows <<s, b>> of the asset, of active stocks or not; the first
                     \* DayBars of a stock are its session, others are of a second source
          stage

healthVars == <<frequency, active, suspended, core, asset, stage>>

HealthInit ==
  /\ frequency \in {"daily", "minute"}
  /\ active \in SUBSET Universe /\ suspended \in SUBSET Universe
  /\ core = {} /\ asset = {} /\ stage = "empty"

\* The day's rows, as the jobs left them: rows[s] of stock s.
Ingested(bars, rows) ==
  /\ stage = "empty"
  /\ Derived \/ {s \in Universe : rows[s] # 0} \subseteq bars
  /\ core' = bars /\ stage' = "ingested"
  /\ asset' = {row \in Universe \X (1..StoredBars) : row[2] <= rows[row[1]]}
  /\ UNCHANGED <<frequency, active, suspended>>

HealthNext ==
  \E bars \in SUBSET Universe, rows \in [Universe -> 0..StoredBars] : Ingested(bars, rows)
HealthSpec == HealthInit /\ [][HealthNext]_healthVars
-----------------------------------------------------------------------------
(* batch_stock_daily_coverages. *)

Smaller(m, n) == IF m < n THEN m ELSE n
Above(m, n) == IF m > n THEN m - n ELSE 0

NoRecord == (active \ suspended) \ core
SuspendedCount == Cardinality(active \cap suspended)
NoRecordCount == Cardinality(NoRecord)
WithRows == {s \in Universe : \E b \in 1..StoredBars : <<s, b>> \in asset}

\* _actual_counts_by_date: ceil(count(*) / 240), or count(distinct stock_code).
ActualCount == IF frequency = "minute" THEN (Cardinality(asset) + DayBars - 1) \div DayBars
               ELSE Cardinality(WithRows)

SuspendedAlone(expected, actual, stopped, silent) ==                   \* (mutant)
    LET byStop == Smaller(Above(expected, actual), stopped)
    IN [exempt |-> byStop, missing |-> Above(Above(expected, actual), byStop)]
CoverageOf(expected, actual, stopped, silent) ==
    LET raw == Above(expected, actual)
        byStop == Smaller(raw, stopped)
        bySilence == Smaller(Above(raw, byStop), silent)
    IN [exempt |-> byStop + bySilence, missing |-> Above(raw, byStop + bySilence)]
Coverage == CoverageOf(Cardinality(active), ActualCount, SuspendedCount, NoRecordCount)

\* stock_daily_gap_report: every active stock that has no row, with its reason.
Gaps == active \ WithRows
Reason(s) == IF s \in suspended THEN "suspended_on_trade_date"
             ELSE IF s \notin core THEN "no_market_record_on_trade_date"
             ELSE "missing_data"
Because(reason) == {s \in Gaps : Reason(s) = reason}

\* _daily_health_status: effective completeness in percent, and what is missing.
HealthStatus ==
    LET expected == Cardinality(active)
        covered == ActualCount + Coverage.exempt
    IN IF Coverage.missing = 0 /\ (expected = 0 \/ covered * 1000 >= 995 * expected) THEN "ok"
       ELSE IF expected # 0 /\ covered * 100 >= 98 * expected THEN "partial"
       ELSE "stale"
-----------------------------------------------------------------------------
(* Properties *)

Expected == WithRows \subseteq active /\ WithRows \cap (suspended \union NoRecord) = {}
OneSource == frequency = "minute" => asset \subseteq WithRows \X (1..DayBars)
WholeDays == frequency = "minute" => asset = WithRows \X (1..DayBars)

\* When no stock that is suspended, silent or out of the universe has a row, and no
\* minute is stored twice, the count of what is missing never hides a gap the report calls
\* so, and a healthy day has none; when every stock that has rows has its whole session, the
\* count is the number of these gaps, and the day is healthy exactly when there is none
\* (batch_stock_daily_coverages).
CoverageAgrees ==
  Expected /\ OneSource =>
    /\ Coverage.missing >= Cardinality(Because("missing_data"))
    /\ HealthStatus = "ok" => Because("missing_data") = {}
    /\ WholeDays => /\ Coverage.missing = Cardinality(Because("missing_data"))
                    /\ (HealthStatus = "ok") = (Because("missing_data") = {})

\* What the documentation says of the two whatever the rows: missing_count is what
\* is really missing (docs/wiki/30-模块地图/前端配置中心模块.md:159).
MissingIsReal == Because("missing_data") # {} => Coverage.missing > 0

\* What a reader of the two may take for granted: what is missing is a stock of the report.
MissingIsListed == Coverage.missing > 0 => Because("missing_data") # {}
=============================================================================
