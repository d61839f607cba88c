--------------------------- MODULE StrategyRules ---------------------------
(***************************************************************************)
(* What selects a stock: the eleven builtin matchers and the market gate   *)
(* (strategy_center/builtins.py), the SQL prefilter of a backtest          *)
(* (repository.py) and the trials of a parameter study, replayed over the  *)
(* candidates a baseline kept (optimization.py).                           *)
(*                                                                         *)
(* A fact and a threshold are steps on one scale: a floor is 1 by default, *)
(* 0 when a version loosens it and 2 when it is stricter, a ceiling 3, 4   *)
(* and 2.  A comparison of facts without a threshold (a breakout, an       *)
(* alignment of averages) holds or not.  Scores and reasons are left out.  *)
(***************************************************************************)
EXTENDS Integers, FiniteSets

VARIABLES
    impl,     \* t_strategy_version.implementation_code
    rule,     \* its rule_config, merged with the defaults
    facts,    \* what the tables hold of one stock on one day
    trials,   \* the parameter patches of a study of it (build_trials)
    stage     \* "version", then "candidate"

vars == <<impl, rule, facts, trials, stage>>

Missing == -1
Scale == 0 .. 4
Middle == 2
Default(c) == IF c \in {"gte", "gt"} THEN 1 ELSE 3
Strict(c) == 2

If(key, cmp, field) == [key |-> key, cmp |-> cmp, field |-> field]
Change == {If("change_min", "gte", "change"), If("change_max", "lt", "change")}
ChangeMin == {If("change_min", "gte", "change")}
Volume == {If("volume_ratio_min", "gte", "volume_ratio")}
Amount == {If("amount_ratio_min", "gte", "amount_ratio")}
Position == {If("close_position_min", "gte", "close_position")}
Heat == {If("max_heat_rank", "lte", "heat_rank")}

\* The matchers: what must hold, and what is compared with a parameter.
Rule(holds, compared) == [holds |-> holds, compared |-> compared]
TrendBreakout == Rule({"above_prior_high"}, Change \union Amount \union Position)
BullishAlignment == Rule({"aligned"}, ChangeMin \union Volume)
GoldenCross == Rule({"was_below", "ma5_above_ma10"},
                    {If("change_min", "gt", "change")} \union Volume)
VolumePriceSurge == Rule({}, Change \union Volume \union Amount \union Position)
HighTurnover == Rule({"main_inflow"}, Change \union Position \union
                     {If("turnover_rate_min", "gte", "turnover_rate"),
                      If("main_net_ratio_min", "gt", "main_net_ratio")})
LowVolatility == Rule({"above_ma20"}, {If("volatility_20d_max", "lte", "volatility")}
                                      \union ChangeMin \union Volume \union Position)
PullbackBounce == Rule({"recovered", "trend_intact"},
                       {If("ma20_touch_pct", "lte", "ma20_gap")} \union Volume \union Position)
LowReversal == Rule({"closed_up"}, {If("n_day_touch_pct", "lte", "low_gap")}
                                   \union ChangeMin \union Position \union Volume)
FirstBoard == Rule({"limit_up", "first_board"}, Heat)
BoardRelay == Rule({"limit_up"}, {If("board_count_min", "gte", "board_count"),
                                  If("board_count_max", "lte", "board_count")} \union Heat)
BrokenBoard == Rule({"limit_break"}, ChangeMin \union Position \union Volume)
Matcher == [
  trend_breakout |-> TrendBreakout,
  bullish_alignment |-> BullishAlignment,
  ma_golden_cross |-> GoldenCross,
  volume_price_surge |-> VolumePriceSurge,
  high_turnover_surge |-> HighTurnover,
  low_volatility_leader |-> LowVolatility,
  pullback_ma20_bounce |-> PullbackBounce,
  n_day_low_reversal |-> LowReversal,
  theme_first_board_relay |-> FirstBoard,
  consecutive_limit_up_relay |-> BoardRelay,
  broken_board_recovery |-> BrokenBoard]

Implementations == DOMAIN Matcher
Relays == {"theme_first_board_relay", "consecutive_limit_up_relay"}
Compared(i) == Matcher[i].compared
RuleKeys(i) == {c.key : c \in Compared(i)}
Fields(i) == {c.field : c \in Compared(i)}
Cmp(i, key) == (CHOOSE c \in Compared(i) : c.key = key).cmp

Meets(cmp, value, threshold) ==
    CASE cmp = "gte" -> value >= threshold
      [] cmp = "gt" -> value > threshold
      [] cmp = "lte" -> value =< threshold
      [] cmp = "lt" -> value < threshold

\* A limit-up that never opened is refused; how often it must have opened is a
\* parameter that older versions do not have.
Natural(i, x, r) ==
    IF i = "theme_first_board_relay" /\ r.opens # Missing
    THEN x.opens # Missing /\ x.opens >= r.opens
    ELSE i \in Relays => x.opens = Missing \/ x.opens > 0

MatcherLenient(i, x, r) ==                                             \* (mutant)
    /\ Matcher[i].holds \subseteq x.holds
    /\ \A c \in Compared(i) : \/ x.num[c.field] = Missing
                              \/ Meets(c.cmp, x.num[c.field], r.signal[c.key])
    /\ Natural(i, x, r)
Matches(i, x, r) ==
    /\ Matcher[i].holds \subseteq x.holds
    /\ \A c \in Compared(i) : /\ x.num[c.field] # Missing
                              /\ Meets(c.cmp, x.num[c.field], r.signal[c.key])
    /\ Natural(i, x, r)

\* _check_market_gate: a score that is not usable passes or not by a flag.
UsableScore(x, r) == x.status = "ready" \/ (x.status = "degraded" /\ r.accept)
GatePasses(x, r) ==
    \/ ~r.enabled
    \/ IF UsableScore(x, r)
       THEN ~x.blocked /\ (x.score = Missing \/ x.score >= r.minimum)
       ELSE r.allow

\* evaluate_daily_candidate.
Selected(i, x, r) == GatePasses(x, r) /\ Matches(i, x, r)

\* _backtest_prefilter_conditions: the thresholds of the registry, whatever the
\* version says; of the relays only the limit-up, of the cross only today's side.
PrefilterHolds(i) ==
    CASE i \in Relays -> {"limit_up"}
      [] i = "ma_golden_cross" -> {"ma5_above_ma10"}
      [] OTHER -> Matcher[i].holds
PrefilterCompared(i) == IF i \in Relays THEN {} ELSE Compared(i)
Prefiltered(i, x) ==
    /\ PrefilterHolds(i) \subseteq x.holds
    /\ \A c \in PrefilterCompared(i) : /\ x.num[c.field] # Missing
                                       /\ Meets(c.cmp, x.num[c.field], Default(c.cmp))

-----------------------------------------------------------------------------
(* The study of one version. *)

\* _TUNABLE_PARAMETERS: the keys a study may tighten and how it compares them.
Tunable(i) ==
    CASE i = "pullback_ma20_bounce" -> {"volume_ratio_min", "close_position_min"}
      [] i = "n_day_low_reversal" -> {"change_min", "volume_ratio_min", "close_position_min"}
      [] i = "low_volatility_leader" -> {"volatility_20d_max", "change_min", "volume_ratio_min"}
      [] i = "consecutive_limit_up_relay" -> {"max_heat_rank"}
      [] OTHER -> RuleKeys(i)
TunesGate(i) == i \in {"trend_breakout", "bullish_alignment", "ma_golden_cross",
                       "theme_first_board_relay"}
TunesOpens(i) == i = "theme_first_board_relay"
StudyCmp(i, key) == IF Cmp(i, key) = "gt" THEN "gte" ELSE Cmp(i, key)
Field(i, key) == (CHOOSE c \in Compared(i) : c.key = key).field

\* _version_parameter_specs: the version's own value, then the registry's
\* candidates on its strict side.
Candidates(cmp, baseline) ==
    {baseline} \union
    {v \in {Default(cmp), Strict(cmp)} :
       IF cmp = "gte" THEN v >= baseline ELSE v =< baseline}

\* _parameter_patches and _is_valid_patch.
Valid(p) == LET s == p.signal IN
    {"change_min", "change_max"} \subseteq DOMAIN s => s["change_min"] < s["change_max"]
ValuesOf(i, r, k) == Candidates(StudyCmp(i, k), r.signal[k])
Patches(i, r) ==
    {p \in [signal : {s \in [Tunable(i) -> UNION {ValuesOf(i, r, k) : k \in Tunable(i)}] :
                        \A k \in Tunable(i) : s[k] \in ValuesOf(i, r, k)},
            minimum : IF TunesGate(i) THEN Candidates("gte", r.minimum) ELSE {Missing},
            opens : IF TunesOpens(i)
                    THEN Candidates("gte", IF r.opens = Missing THEN 1 ELSE r.opens)
                    ELSE {Missing}] : Valid(p)}

\* _trial_matches: the filter that replays a trial over the baseline's candidates.
ReplaysScore(x, r) == x.status = "ready"                               \* (mutant)
TrialScore(x, r) == UsableScore(x, r)
TrialMatches(i, x, r, p) ==
    /\ \A k \in Tunable(i) : /\ x.num[Field(i, k)] # Missing
                             /\ Meets(StudyCmp(i, k), x.num[Field(i, k)], p.signal[k])
    /\ TunesOpens(i) => x.opens # Missing /\ x.opens >= p.opens
    /\ TunesGate(i) /\ TrialScore(x, r) => x.score # Missing /\ x.score >= p.minimum

\* The version an operator creates from a trial.
Patched(i, r, p) ==
    [r EXCEPT !.signal = [k \in RuleKeys(i) |-> IF k \in Tunable(i) THEN p.signal[k] ELSE @[k]],
              !.minimum = IF TunesGate(i) THEN p.minimum ELSE @,
              !.opens = IF TunesOpens(i) THEN p.opens ELSE @]

-----------------------------------------------------------------------------
(* Versions that leave the registry in one parameter; stocks that leave a    *)
(* perfect candidate in one fact, or in one and the emotion of the day.      *)

DefaultRule(i) ==
    [signal |-> [k \in RuleKeys(i) |-> Default(Cmp(i, k))], opens |-> Missing,
     enabled |-> TRUE, accept |-> FALSE, allow |-> TRUE, minimum |-> 1]
RuleConfigs(i) ==
    LET d == DefaultRule(i) IN
    {d} \union {[d EXCEPT !.signal[k] = v] : k \in RuleKeys(i), v \in {0, 2, 4}}
        \union {[d EXCEPT !.minimum = v] : v \in {0, 2}}
        \union {[d EXCEPT !.enabled = FALSE], [d EXCEPT !.accept = TRUE],
                [d EXCEPT !.allow = FALSE]}
        \union (IF TunesOpens(i) THEN {[d EXCEPT !.opens = v] : v \in {1, 2}} ELSE {})

Perfect(i) ==
    [num |-> [f \in Fields(i) |-> Middle], holds |-> Matcher[i].holds, opens |-> 2,
     status |-> "ready", blocked |-> FALSE, score |-> Middle]
Deviate(x) ==
    {[x EXCEPT !.num[f] = v] : f \in DOMAIN x.num, v \in {Missing} \union Scale}
    \union {[x EXCEPT !.holds = @ \ {h}] : h \in x.holds}
    \union {[x EXCEPT !.opens = v] : v \in {Missing, 0, 1}}
    \union {[x EXCEPT !.status = v] : v \in {"degraded", "unavailable"}}
    \union {[x EXCEPT !.blocked = TRUE]}
    \union {[x EXCEPT !.score = v] : v \in {Missing} \union Scale}
Doubtful(x) == {[x EXCEPT !.status = v] : v \in {"degraded", "unavailable"}}
               \union {[x EXCEPT !.score = v] : v \in {Missing, 0, 1}}
Stocks(i) == {Perfect(i)} \union Deviate(Perfect(i))
             \union UNION {Doubtful(x) : x \in Deviate(Perfect(i))}

Init == /\ impl \in Implementations
        /\ rule \in RuleConfigs(impl)
        /\ facts = Perfect(impl)
        /\ trials = Patches(impl, rule)
        /\ stage = "version"

\* A stock on a day the version is evaluated for.
Evaluate(x) ==
    /\ stage = "version"
    /\ facts' = x /\ stage' = "candidate"
    /\ UNCHANGED <<impl, rule, trials>>

Next == \E x \in Stocks(impl) : Evaluate(x)

Spec == Init /\ [][Next]_vars
-----------------------------------------------------------------------------
(* Properties *)

StricterThan(cmp, v) == IF cmp \in {"gte", "gt"} THEN v >= Default(cmp) ELSE v =< Default(cmp)

\* A version none of whose parameters is looser than the registry loses no
\* candidate to the prefilter (_backtest_prefilter_conditions).
StricterNotLost ==
    /\ \A k \in RuleKeys(impl) : StricterThan(Cmp(impl, k), rule.signal[k])
    /\ Selected(impl, facts, rule)
    => Prefiltered(impl, facts)

\* A study proposes only versions that select among what its baseline selects: no
\* trial invents a candidate that was never evaluated (_version_parameter_specs).
TrialsOnlyRemove ==
    ~Selected(impl, facts, rule) =>
      \A p \in trials : ~Selected(impl, facts, Patched(impl, rule, p))

\* Where the study compares as the matcher does (no strict floor), the gate is on,
\* the score is known and opening counts are not studied, the replay of a trial
\* over a candidate of the baseline decides as a fresh backtest of the proposed
\* version would (_trial_matches against evaluate_daily_candidate).
ReplayIsFresh ==
    /\ stage = "candidate" /\ Selected(impl, facts, rule) /\ Prefiltered(impl, facts)
    /\ \A k \in Tunable(impl) : Cmp(impl, k) = StudyCmp(impl, k)
    /\ rule.enabled /\ facts.score # Missing /\ ~TunesOpens(impl)
    => \A p \in trials :
         TrialMatches(impl, facts, rule, p)
           <=> Selected(impl, facts, Patched(impl, rule, p))

\* What the code does not keep: the prefilter has no false negatives.  It compares
\* with the registry's thresholds, so that a version that loosens one loses
\* candidates (repository.py:1588).
NoFalseNegatives == Selected(impl, facts, rule) => Prefiltered(impl, facts)
=============================================================================
