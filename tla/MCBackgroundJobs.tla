-------------------------- MODULE MCBackgroundJobs --------------------------
(***************************************************************************)
(* TLC instances of the two modules whose jobs have to end: the backtests  *)
(* of StrategyVersions and the run of MinutePipeline.  They share no       *)
(* state: a behaviour is of one of them, the other rests where it starts.  *)
(***************************************************************************)
EXTENDS StrategyVersions, MinutePipeline

CONSTANTS q1, q2, r1, r2

VARIABLE part      \* "versions" or "minute"

TwoRequests == {q1, q2}
TwoRuns == {r1, r2}
FourStocks == 1 .. 4
\* The day is stored in full, in part or not at all when the run starts.
DaysBefore == {[s \in FourStocks |-> 0], [s \in FourStocks |-> IF s = 1 THEN 1 ELSE 2]}
RaisesOrAll == {-1, 2}

allVars == <<vars, minuteVars, part>>

MCInit ==
  \/ part = "versions" /\ Init /\ MinuteInit /\ mode = "rebuild"
     /\ bars = [s \in Stocks |-> 0] /\ factors = [s \in Stocks |-> 0]
  \/ part = "minute" /\ Empty /\ Init /\ MinuteInit

OfVersions(A) == part = "versions" /\ A /\ UNCHANGED <<part, minuteVars>>
OfMinute(A) == part = "minute" /\ A /\ UNCHANGED <<part, vars>>

MCNext == OfVersions(Next) \/ OfMinute(MinuteNext)

\* The fairness of the two modules (Spec, and MinuteFairness).
MCFairness ==
  /\ \A r \in Runs : WF_allVars(OfVersions(Proceed(r)))
  /\ WF_allVars(OfMinute(Step))

MCSpec == MCInit /\ [][MCNext]_allVars /\ MCFairness
=============================================================================
