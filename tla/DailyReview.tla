---------------------------- MODULE DailyReview ----------------------------
(***************************************************************************)
(* The daily review: the sentiment job scores dates, then writes evidence  *)
(* for the limit-ups of each date with their count of boards, and finishes *)
(* the board structure of the market summary (market_insight).  The close  *)
(* and the factor backfill write the same summary row from the evidence    *)
(* they find (indicator_engine).                                           *)
(*                                                                         *)
(* The two jobs have codes, and so locks, of their own and interleave at   *)
(* every commit.  Limit events of a date come from the close or a          *)
(* backfill; a rebuild of the history deletes them first.  Evidence is     *)
(* never deleted.                                                          *)
(***************************************************************************)
EXTENDS Integers, FiniteSets, FiniteSetsExt

CONSTANTS LastDate, Stocks,
          Listed,           \* stocks the score counts: past their first days, with a bar
          MaxTurns, MaxRuns

VARIABLES limit,      \* t_limit_event_daily: <<stock, date>> of the limit-ups
          complete,   \* dates whose events have their audit row
          score,      \* t_market_emotion_daily
          evidence,   \* t_market_limit_up_evidence_daily
          summary,    \* t_market_summary_daily
          job,        \* the sentiment job: [left: dates to review, usable: of them]
          fresh,      \* (history) reviewed dates whose facts have not changed since
          turns, runs

vars == <<limit, complete, score, evidence, summary, job, fresh, turns, runs>>

Dates == 1..LastDate
Null == -1
NoScore == [usable |-> FALSE, limitUps |-> Null]
NoEvidence == [status |-> "none", board |-> Null]
NoSummary == [stored |-> FALSE, highest |-> Null, promoted |-> Null, previous |-> Null]
Idle == [left |-> {}, usable |-> {}]

TypeOK ==
  /\ limit \subseteq Stocks \X Dates /\ complete \subseteq Dates
  /\ score \in [Dates -> [usable: BOOLEAN, limitUps: {Null} \cup 0..Cardinality(Stocks)]]
  /\ evidence \in [Stocks \X Dates -> [status: {"none", "pending", "ready"}, board: {Null} \cup Dates]]
  /\ summary \in [Dates -> [stored: BOOLEAN, highest: {Null} \cup Dates,
                            promoted: Int, previous: Int]]
  /\ job \in [left: SUBSET Dates, usable: SUBSET Dates]
  /\ fresh \subseteq Dates /\ turns \in 0..MaxTurns /\ runs \in 0..MaxRuns

Init ==
  /\ limit = {} /\ complete = {}
  /\ score = [d \in Dates |-> NoScore]
  /\ evidence = [x \in Stocks \X Dates |-> NoEvidence]
  /\ summary = [d \in Dates |-> NoSummary]
  /\ job = Idle /\ fresh = {} /\ turns = 0 /\ runs = 0

LimitUps(d) == {s \in Stocks : <<s, d>> \in limit}

-----------------------------------------------------------------------------
(* Facts                                                                   *)

\* The events of a date are stored with their audit; a rebuild deletes the
\* date's events first, any other writer adds to them.
StoreEvents(d, S, rebuild) ==
  /\ turns < MaxTurns /\ turns' = turns + 1
  /\ limit' = {x \in limit : ~rebuild \/ x[2] # d} \cup (S \X {d})
  /\ complete' = complete \cup {d}
  /\ fresh' = fresh \ d..LastDate
  /\ UNCHANGED <<score, evidence, summary, job, runs>>

-----------------------------------------------------------------------------
(* Boards                                                                  *)

\* (mutant) an incomplete date does not end the run
StreakOver(s, d) == IF d \notin complete THEN 0 ELSE
  Max({k \in 0..d : \A e \in (d - k + 1)..d : e \in complete => s \in LimitUps(e)})

\* _board_counts: limit-ups on complete dates in a row that end on d
Streak(s, d) == Max({k \in 0..d : \A e \in (d - k + 1)..d : e \in complete /\ s \in LimitUps(e)})

\* The evidence of a limit-up; the row of a date without complete events has
\* no board.
Reviewed(s, d, usable) ==
  [status |-> IF usable THEN "ready" ELSE "pending",
   board |-> IF usable /\ Streak(s, d) > 0 THEN Streak(s, d) ELSE Null]

Highest(E, d, T) == Max({Null} \cup {E[<<s, d>>].board : s \in T})
Above(E, d, T) == {s \in T : E[<<s, d>>].board >= 2}
Previous(d) == LimitUps(d - 1)

Ready(E, d) == {s \in Stocks : E[<<s, d>>].status = "ready"}

\* refresh_market_summary_board_structure
Refreshed(E, d) ==
  [summary[d] EXCEPT !.highest = Highest(E, d, Ready(E, d)),
                     !.promoted = Cardinality(Above(E, d, Ready(E, d))),
                     !.previous = Cardinality(Previous(d))]

\* rebuild_market_summary, from the close and the factor backfill
RebuildSummary(d) ==
  /\ runs < MaxRuns /\ runs' = runs + 1
  /\ summary' = [summary EXCEPT ![d] =
       IF d \notin complete THEN [NoSummary EXCEPT !.stored = TRUE]
       ELSE [stored |-> TRUE, highest |-> Highest(evidence, d, Stocks),
             promoted |-> Cardinality(Above(evidence, d, Previous(d))),
             previous |-> Cardinality(Previous(d))]]
  /\ UNCHANGED <<limit, complete, score, evidence, job, fresh, turns>>

-----------------------------------------------------------------------------
(* The sentiment job                                                       *)

\* MarketEmotionService.calculate commits the scores of the dates.  A date is
\* usable with enough bars and history (covered) and complete events.
Score(first, last, covered) ==
  /\ job = Idle /\ runs < MaxRuns /\ runs' = runs + 1
  /\ LET usable == (first..last) \cap covered \cap complete IN
     /\ score' = [d \in Dates |-> IF d \notin first..last THEN score[d]
                    ELSE [usable |-> d \in usable, limitUps |-> Cardinality(LimitUps(d) \cap Listed)]]
     /\ job' = [left |-> first..last, usable |-> usable]
  /\ UNCHANGED <<limit, complete, evidence, summary, fresh, turns>>

\* MarketDailyReviewService.calculate for the dates of a batch: nothing more is
\* written when none of them has a limit-up.
Review(batch) ==
  /\ batch # {} /\ batch \subseteq job.left
  /\ \A d \in batch, e \in job.left \ batch : d < e
  /\ evidence' = [x \in Stocks \X Dates |->
       IF x[2] \in batch /\ x \in limit THEN Reviewed(x[1], x[2], x[2] \in job.usable) ELSE evidence[x]]
  /\ summary' = [d \in Dates |->
       IF d \in batch /\ summary[d].stored /\ (\E e \in batch : LimitUps(e) # {})
       THEN Refreshed(evidence', d) ELSE summary[d]]
  /\ job' = [job EXCEPT !.left = @ \ batch]
  /\ fresh' = (fresh \ batch) \cup (batch \cap job.usable)
  /\ UNCHANGED <<limit, complete, score, turns, runs>>

\* The job ends after the last batch; a cancellation, a timeout or an exit
\* ends it between two commits.
Stop == job # Idle /\ job' = Idle
        /\ UNCHANGED <<limit, complete, score, evidence, summary, fresh, turns, runs>>

Next ==
  \/ \E d \in Dates : RebuildSummary(d)
                      \/ \E S \in SUBSET Stocks, rebuild \in BOOLEAN : StoreEvents(d, S, rebuild)
  \/ \E first \in Dates, last \in Dates, covered \in {{}, Dates} : first <= last /\ Score(first, last, covered)
  \/ \E batch \in SUBSET Dates : Review(batch)
  \/ Stop

Spec == Init /\ [][Next]_vars

-----------------------------------------------------------------------------
\* MarketDailyReviewService.read: the report is shown as available.
Available(d) ==
  /\ score[d].usable
  /\ Cardinality(Ready(evidence, d)) >= score[d].limitUps

\* No evidence is left from an event that was deleted.
NoGhosts(d) == Ready(evidence, d) \subseteq LimitUps(d)

\* A limit-up stock on the date before, as the events have it.
Promoted(d) == {s \in LimitUps(d) : d - 1 \in complete /\ s \in LimitUps(d - 1)}

\* A date reviewed after the last change of its facts and of those before it
\* has the evidence of its limit-ups, and its summary the height and promotion
\* of the events, whether the review, the close or a backfill wrote it last.
BoardsSound ==
  \A d \in fresh :
    /\ \A s \in LimitUps(d) :
         /\ evidence[<<s, d>>].status = "ready"
         /\ evidence[<<s, d>>].board >= 2 <=> s \in Promoted(d)
    /\ NoGhosts(d) /\ summary[d].stored =>
         /\ LimitUps(d) # {} => summary[d].highest = Max({Streak(s, d) : s \in LimitUps(d)})
         /\ LimitUps(d) # {} => summary[d].promoted = Cardinality(Promoted(d))

\* As read takes it from the counts ("limit_up_evidence_ready"): an available
\* report of the stored events has the evidence of each limit-up.
ReportWhole ==
  \A d \in Dates : Available(d) /\ score[d].limitUps = Cardinality(LimitUps(d) \cap Listed) =>
    (LimitUps(d) \cap Listed) \subseteq Ready(evidence, d)
=============================================================================
