--------------------------- MODULE EmotionScores ---------------------------
(***************************************************************************)
(* The scores and the stage of the market emotion                          *)
(* (market_insight/emotion_service.py, calculate and below).  A baseline   *)
(* takes the percentile of each day among the facts of the days before; a  *)
(* daily run takes it among the raw values of the rows stored before.      *)
(*                                                                         *)
(* Two metrics stand for the twenty-three: "ups" is known every day and    *)
(* counts for both scores, "north" counts for the second and may not be    *)
(* published.  Windows are scaled: Window for 120 rows, 2 for the scores   *)
(* of the last 5 days.  Scores are twice the code's.                       *)
(***************************************************************************)
EXTENDS Integers, Sequences, SequencesExt, FiniteSets, FiniteSetsExt, Folds

CONSTANTS LastDate, Days,   \* Days: the series of facts considered, [1..LastDate -> ...]
          Window, MinHistory, \* percentile_window_days, minimum_history_days
          MaxTurns, MaxRuns

VARIABLES day,     \* facts of the dates: [ups, north, usable]
          rows,    \* t_market_emotion_daily of the model
          sound,   \* (history) rows scored from current facts, see Daily
          turns, runs

vars == <<day, rows, sound, turns, runs>>

Dates == 1..LastDate
Null == -1
Metrics == {"ups", "north"}
Cards == [short |-> {"ups"}, risk |-> {"ups", "north"}]
Ice == 40
Retreat == 80
Recovery == 90
Climax == 150
NoRow == [status |-> "none", raw |-> [ups |-> Null, north |-> Null],
          short |-> Null, risk |-> Null, stage |-> "pending"]

Init ==
  /\ day \in Days /\ rows = [d \in Dates |-> NoRow]
  /\ sound = {} /\ turns = 0 /\ runs = 0

-----------------------------------------------------------------------------
(* A row                                                                   *)

\* _build_raw_metrics: the facts of the date as numbers, Null if not published
Raw(d) == [ups |-> day[d].ups, north |-> day[d].north]

LastOf(s, n) == IF Len(s) <= n THEN s ELSE SubSeq(s, Len(s) - n + 1, Len(s))

\* A history is a deque of the numbers seen, of at most Window of them.
Pushed(h, r) == [m \in Metrics |-> IF r[m] = Null THEN h[m] ELSE LastOf(Append(h[m], r[m]), Window)]

\* _rolling_percentile, times two
Percentile(v, h) ==
  LET below == Cardinality({i \in DOMAIN h : h[i] < v})
      equal == Cardinality({i \in DOMAIN h : h[i] = v}) IN
  ((2 * below + equal) * 100) \div Len(h)

\* _metric_payload
AvailableIn(r, h) == {m \in Metrics : r[m] # Null /\ Len(h[m]) >= MinHistory}

\* _scorecard: weights are spread over what is available.
CardScore(card, r, h) ==
  LET in == Cards[card] \cap AvailableIn(r, h) IN
  IF in = {} THEN Null
  ELSE MapThenSumSet(LAMBDA m : Percentile(r[m], h[m]), in) \div Cardinality(in)

\* _primary_stage: before is the sequence of the last short scores.
Stage(short, risk, r, before) ==
  LET slope == IF before = <<>> THEN 0 ELSE short - before[Len(before)] IN
  IF short <= Ice /\ risk <= Retreat /\ slope <= 0 THEN "ice_point"
  ELSE IF short < Retreat /\ slope < 0 THEN "retreat"
  ELSE IF short >= Climax /\ risk >= Recovery /\ r.ups > 0 THEN "climax"
  ELSE IF short >= Recovery /\ slope > 0 /\ risk >= Retreat THEN "recovery"
  ELSE "active"

\* _build_emotion_row
RowOf(d, h, before) ==
  LET r == Raw(d)
      short == CardScore("short", r, h)
      risk == CardScore("risk", r, h) IN
  IF ~day[d].usable THEN [NoRow EXCEPT !.status = "pending", !.raw = r]
  ELSE IF Null \in {short, risk}
  THEN [status |-> "insufficient_history", raw |-> r, short |-> short, risk |-> risk, stage |-> "insufficient_history"]
  ELSE [status |-> IF "north" \in AvailableIn(r, h) THEN "ready" ELSE "degraded", raw |-> r,
        short |-> short, risk |-> risk, stage |-> Stage(short, risk, r, before)]

-----------------------------------------------------------------------------
(* A calculation                                                           *)

Remembered(before, row) == IF row.short = Null THEN before ELSE LastOf(Append(before, row.short), 2)

\* (mutant) the day's own values join the history before it is scored
ScorePushed(acc, d) ==
  LET row == RowOf(d, Pushed(acc.history, Raw(d)), acc.before) IN
  [rows |-> [acc.rows EXCEPT ![d] = row], history |-> Pushed(acc.history, row.raw),
   before |-> Remembered(acc.before, row)]

\* The loop over the target dates: [rows, history, before] after each.
ScoreNext(acc, d) ==
  LET row == RowOf(d, acc.history, acc.before) IN
  [rows |-> [acc.rows EXCEPT ![d] = row], history |-> Pushed(acc.history, row.raw),
   before |-> Remembered(acc.before, row)]

InOrder(S) == SetToSortSeq(S, <)
Nothing == [m \in Metrics |-> <<>>]

\* emotion_rows_before: the last Window rows of the model before the date
StoredBefore(d) ==
  LET held == {e \in 1..(d - 1) : rows[e].status # "none"} IN
  {e \in held : Cardinality({x \in held : x >= e}) <= Window}

\* The numbers of earlier rows, or of earlier dates' facts
History(raw(_), S) == FoldLeft(LAMBDA h, e : Pushed(h, raw(e)), Nothing, InOrder(S))

ShortsBefore(d) == FoldLeft(LAMBDA b, e : Remembered(b, rows[e]), <<>>, InOrder(StoredBefore(d)))

Scored(first, last, history) ==
  FoldLeft(ScoreNext, [rows |-> rows, history |-> history, before |-> ShortsBefore(first)],
           InOrder(first..last)).rows

WindowOf(d) == {e \in 1..(d - 1) : e >= d - Window}

\* A daily run of one date, or of a range
Daily(first, last) ==
  /\ runs < MaxRuns /\ runs' = runs + 1
  /\ rows' = Scored(first, last, History(LAMBDA e : rows[e].raw, StoredBefore(first)))
  /\ sound' = (sound \ (first..last)) \cup
       {d \in first..last : \A e \in WindowOf(d) \ (first..last) : rows[e].status # "none" /\ rows[e].raw = Raw(e)}
  /\ UNCHANGED <<day, turns>>

\* A baseline loads the facts of the Window dates before its first date.
Baseline(first, last) ==
  /\ runs < MaxRuns /\ runs' = runs + 1
  /\ rows' = Scored(first, last, History(Raw, WindowOf(first)))
  /\ sound' = sound \cup (first..last)
  /\ UNCHANGED <<day, turns>>

\* A late fact of a date
FactsTurn(d, f) ==
  /\ turns < MaxTurns /\ turns' = turns + 1
  /\ day' = [day EXCEPT ![d] = f]
  /\ sound' = sound \ (d..(d + Window))
  /\ UNCHANGED <<rows, runs>>

Next ==
  \/ \E first \in Dates, last \in Dates : first <= last /\ (Daily(first, last) \/ Baseline(first, last))
  \/ \E d \in Dates, x \in Days : FactsTurn(d, x[d])

Spec == Init /\ [][Next]_vars

-----------------------------------------------------------------------------
\* The score of a date by the definition: its rank among the published values
\* of the Window dates before it, each date's facts read at that date.
Defined(d, m) ==
  LET earlier == {e \in WindowOf(d) : day[e][m] # Null}
      below == Cardinality({e \in earlier : day[e][m] < day[d][m]})
      equal == Cardinality({e \in earlier : day[e][m] = day[d][m]}) IN
  IF day[d][m] = Null \/ Cardinality(earlier) < MinHistory THEN Null
  ELSE ((2 * below + equal) * 100) \div Cardinality(earlier)

\* "All normalisation is a trailing, same-model percentile: neither score nor
\* stage can see a later trading day" (emotion_service.py): whether a baseline
\* or a daily run scored a date last, alone or in a range, before or after
\* later dates, its short score is its rank in the window before it.
ScoresTrail ==
  \A d \in sound : rows[d].status \in {"ready", "degraded"} => rows[d].short = Defined(d, "ups")

\* The same of the risk score, whose metrics may be unpublished on a day.
RiskTrails ==
  \A d \in sound : rows[d].status = "ready" =>
    rows[d].risk = (Defined(d, "ups") + Defined(d, "north")) \div 2
=============================================================================
