----------------------------- MODULE FactorRow -----------------------------
(***************************************************************************)
(* One row of t_stock_factor_daily: what the provider's stk_factor_pro     *)
(* writes (market_data/repository.py, stock_factor_contract.py) and what   *)
(* the local calculation completes (indicator_engine/repository.py).       *)
(*                                                                         *)
(* The columns are taken in groups that are written together, each shown   *)
(* by where its value is from.  "ma" and "core" are, with "price", the     *)
(* provider's core columns; "core" holds those the local series can        *)
(* compute (EMA, MACD, KDJ, RSI, BOLL, ATR); rsi14 no provider has.        *)
(* technical_source and the technical quality flags are sets of marks.     *)
(***************************************************************************)
EXTENDS FiniteSets

VARIABLES row,     \* the stored row
          facts    \* the narrow facts stored for its stock and date

vars == <<row, facts>>

CoreColumns == {"price", "ma", "core"}          \* STK_FACTOR_PRO_CORE_COLUMNS
ProColumns == CoreColumns \cup {"extended"}     \* what stk_factor_pro maps
Columns == ProColumns \cup {"rsi14"}
Facts == {"bar", "adjust", "basic"}   \* "basic": both the valuation and the fund flow
Statuses == {"missing", "partial", "ready"}
ProSource == {"pro"}                            \* "tushare:stk_factor_pro"

Empty == [c \in Columns |-> "none"]
NoRow == [stored |-> FALSE, has |-> Empty, price |-> "partial", core |-> "partial",
          extended |-> "partial", valuation |-> "partial", final |-> FALSE,
          source |-> {}, flags |-> {}]

TypeOK ==
  /\ row \in [stored: BOOLEAN, has: [Columns -> {"none", "pro", "local"}],
              price: Statuses, core: Statuses, extended: Statuses,
              valuation: Statuses, final: BOOLEAN,
              source: SUBSET {"pro", "local", "core", "rsi14", "rebase"},
              flags: SUBSET {"core_missing", "fallback"}]
  /\ facts \subseteq Facts

Init == row = NoRow /\ facts = {}

-----------------------------------------------------------------------------
(* The provider's row                                                      *)

\* coalesce(a, b), column by column
Coalesced(a, b) == [c \in Columns |-> IF a[c] # "none" THEN a[c] ELSE b[c]]

Readiness(whole) == IF whole THEN "ready" ELSE "partial"
Better(new, old) == IF new = "ready" THEN "ready" ELSE old

\* map_stk_factor_pro_record: the columns given, and what they make ready.
Mapped(given) ==
  [NoRow EXCEPT !.stored = TRUE, !.source = ProSource,
     !.has = [c \in Columns |-> IF c \in given THEN "pro" ELSE "none"],
     !.price = Readiness("price" \in given),
     !.core = Readiness(CoreColumns \subseteq given),
     !.extended = Readiness("extended" \in given),
     !.flags = IF CoreColumns \subseteq given THEN {} ELSE {"core_missing"}]

\* upsert_stock_factor_professional_rows on a row already there
Merged(old, new) ==
  [old EXCEPT !.has = Coalesced(new.has, @),
     !.price = Better(new.price, @), !.core = Better(new.core, @),
     !.extended = Better(new.extended, @),
     !.source = IF "ready" \in {new.core, new.extended} \/ @ = {} THEN new.source ELSE @,
     !.flags = IF new.core = "ready" THEN @ \ {"core_missing", "fallback"}
               ELSE @ \cup {"core_missing"}]

ProviderRow(given) ==
  /\ row' = IF row.stored THEN Merged(row, Mapped(given)) ELSE Mapped(given)
  /\ UNCHANGED facts

\* (mutant) only the columns are reset
ColumnsCleared == [row EXCEPT !.has = [c \in Columns |-> IF c \in ProColumns THEN "none" ELSE @[c]],
                              !.source = {}]

\* clear_stock_fact_range of stock_technical_factor_pro
TechnicalCleared ==
  [row EXCEPT !.has = [c \in Columns |-> IF c \in ProColumns THEN "none" ELSE @[c]],
              !.source = {}, !.core = "missing", !.extended = "missing"]

ClearTechnical == row.stored /\ row' = TechnicalCleared /\ UNCHANGED facts

\* existing_stock_technical_factor_dates: a resumed backfill passes it over.
Existing == row.stored /\ row.source = ProSource

-----------------------------------------------------------------------------
(* A calculation: assemble, then fill the technical core                   *)

\* A narrow fact is stored, or cleared by its own backfill.
FactsTurn(f) ==
  /\ facts' = IF f \in facts THEN facts \ {f} ELSE facts \cup {f}
  /\ UNCHANGED row

Settled == row.stored /\ {row.price, row.valuation} = {"ready"} /\ row.final

Held(f) == IF f \in facts THEN "ready" ELSE "missing"

\* assemble_stock_daily_factors_final_between: rows start from the bars.
Assembled(only) ==
  IF "bar" \notin facts \/ (only /\ Settled) THEN row
  ELSE [row EXCEPT !.stored = TRUE,
          !.has = Coalesced(@, [c \in Columns |->
             IF "adjust" \in facts /\ c \in {"price", "ma"} THEN "local" ELSE "none"]),
          !.price = Held("adjust"), !.valuation = Held("basic"),
          !.flags = {}, !.final = TRUE]

NeedsCore(r) == r.core # "ready"
NeedsRsi14(r) == r.has["rsi14"] = "none"

FilledSource(r) ==
  IF NeedsCore(r) THEN IF r.source = ProSource THEN {"pro", "core"} ELSE {"local"}
  ELSE {"pro", "rsi14"}

LocalCore == [c \in Columns |-> IF c \in {"core", "rsi14"} THEN "local" ELSE "none"]

\* (mutant) the local series replaces what is stored
Overwritten(r) ==
  IF ~r.stored \/ ~({"bar", "adjust"} \subseteq facts) \/ ~(NeedsCore(r) \/ NeedsRsi14(r)) THEN r
  ELSE [r EXCEPT !.has = Coalesced(LocalCore, @), !.core = "ready", !.source = FilledSource(r),
          !.flags = IF NeedsCore(r) THEN (@ \ {"core_missing"}) \cup {"fallback"} ELSE @]

\* _fill_local_technical_core: from the adjusted series, null columns only
Filled(r) ==
  IF ~r.stored \/ ~({"bar", "adjust"} \subseteq facts) \/ ~(NeedsCore(r) \/ NeedsRsi14(r)) THEN r
  ELSE [r EXCEPT !.has = Coalesced(@, LocalCore), !.core = "ready", !.source = FilledSource(r),
          !.flags = IF NeedsCore(r) THEN (@ \ {"core_missing"}) \cup {"fallback"} ELSE @]

Calculate(only) == row' = Filled(Assembled(only)) /\ UNCHANGED facts

\* rebase_qfq_history_for_adjustment_changes, run for a later ex-date
Rebase ==
  /\ row.stored
  /\ row' = [row EXCEPT !.source = @ \cup {"rebase"}, !.final = TRUE]
  /\ UNCHANGED facts

Next ==
  \/ \E given \in SUBSET ProColumns : ProviderRow(given)
  \/ \E f \in Facts : FactsTurn(f)
  \/ \E only \in BOOLEAN : Calculate(only)
  \/ ClearTechnical \/ Rebase

Spec == Init /\ [][Next]_vars

-----------------------------------------------------------------------------
CoreWhole(r) == \A c \in CoreColumns : r.has[c] # "none"

\* (action) "Existing provider values are never overwritten" (docstring of
\* _fill_local_technical_core), and a full calculation with the bar and the
\* factor stored leaves the whole technical core, whatever partial answers,
\* clearings, rebases and earlier calculations came before.
CalculationCompletes ==
  Calculate(FALSE) =>
    /\ \A c \in Columns : row.has[c] = "pro" => row'.has[c] = "pro"
    /\ {"bar", "adjust"} \subseteq facts =>
         row'.core = "ready" /\ row'.price = "ready" /\ CoreWhole(row') /\ row'.has["rsi14"] # "none"
CoreCompleted == [][CalculationCompletes]_vars

\* As docs/wiki/20-核心流程/每日事实沉淀数据字典.md:109 has it ("Provider 缺失时只
\* 本地回退策略核心", when the provider has none the strategy core is filled
\* locally): a row whose core is ready has its core columns.
ReadyIsWhole == row.stored /\ row.core = "ready" => CoreWhole(row)

\* As the comment in _fill_local_technical_core has it ("not a stale
\* technical_core missing flag that would contradict the typed status"): the
\* flag and the status agree.
FlagsAgree == row.stored /\ row.core = "ready" => "core_missing" \notin row.flags
=============================================================================
