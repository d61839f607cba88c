----------------------------- MODULE MCServices -----------------------------
(***************************************************************************)
(* The TLC run of Services and, in slots, of the modules whose             *)
(* calculations fold, sort or count what they read: the minute and sector  *)
(* factors and the emotion scores; the targets and views of the realtime   *)
(* runtime; the calls of models.  A behaviour is of one module,   *)
(* which finds its variables in the slots.                                 *)
(***************************************************************************)
EXTENDS Services

VARIABLES x1, x2, x3, x4, x5, x6, x7, x8, x9, x10, x11   \* the slots

slots == <<x1, x2, x3, x4, x5, x6, x7, x8, x9, x10, x11>>
allVars == <<servicesVars, slots>>

Null == -99
Bar(p, v, a) == [price |-> p, volume |-> v, amount |-> a]
MCBars == {Bar(1, 1, 1), Bar(2, 2, Null), Bar(3, Null, 1), Bar(Null, 1, 2)}
MCMembers == [s \in {"s1", "s2"} |-> IF s = "s1" THEN {1, 2} ELSE {2}]
\* net inflows of the sectors; -101: not published
MCFlows == {[s \in {"s1", "s2"} |-> IF s = "s1" THEN <<2, -1, 2>> ELSE <<-101, 2, 1>>]}
\* changes of the members; -100: no bar
MCChanges == {[m \in 1 .. 2 |-> IF m = 1 THEN <<2, 2, 2>> ELSE <<3, -100, 3>>]}
Facts(u, n, k) == [ups |-> u, north |-> n, usable |-> k]
MCDays == {<<Facts(1, 2, TRUE), Facts(2, a, TRUE), Facts(u, 3, k), Facts(1, 3, TRUE)>> :
             a \in {-1, 1}, u \in {0, 2}, k \in BOOLEAN}

Policy(p, q, m, c) == [on |-> TRUE, priority |-> p, quote |-> q, minute |-> m, codes |-> c]
MCPolicies == {Policy(10, "hot", "guaranteed", {1}), [Policy(10, "hot", "guaranteed", {1}) EXCEPT !.on = FALSE],
               Policy(950, "warm", "rotating", {2, 3, 4}), Policy(20, "hot", "rotating", {2, 4})}
MCMoves == {-1, 1}
MCConcepts == [k \in {1, 2} |-> IF k = 1 THEN {1, 2} ELSE {2, 3}]
Pair(a, b) == [s \in {"a", "b"} |-> IF s = "a" THEN a ELSE b]
MCMarkets == {<<Pair(x, "limit_up"), Pair("limit_up", "limit_break"), Pair("limit_up", y)>> :
                x \in {"limit_up", "none"}, y \in {"limit_up", "none"}}
MCRank == <<1, 1, 2>>
MCBoard == [s \in 1 .. 3 |-> CASE s = 1 -> "main" [] s = 2 -> "star" [] OTHER -> "unknown"]
Unlimited == [up |-> Null, down |-> Null]
Answer(last, pre, open, amount) ==
  [last |-> last, pre |-> pre, open |-> open, high |-> IF last > open THEN last ELSE open,
   amount |-> amount, given |-> Unlimited]
MCAnswers ==
  {Answer(90, 100, 95, 1), Answer(97, 100, 97, 1), Answer(100, 100, 100, 1),
   Answer(104, 100, 99, 10), Answer(110, 100, 99, 10), Answer(1, 1, 1, 1), Answer(4, 4, 4, 1),
   Answer(Null, 100, 100, 1), [Answer(110, Null, 99, 1) EXCEPT !.given = [up |-> 110, down |-> 90]]}
MCAverages == [s \in 1 .. 3 |-> [ma5 |-> 99, ma20 |-> IF s = 1 THEN 90 ELSE 104,
                                ma60 |-> IF s = 2 THEN Null ELSE 100]]

B == INSTANCE MinuteFactors WITH
    Minutes <- 1 .. 4, Bars <- MCBars, rows <- x1, factors <- x2, job <- x3
S == INSTANCE SectorFactors WITH
    LastDate <- 3, Members <- MCMembers, Flows <- MCFlows,
    Changes <- MCChanges, MaxTurns <- 2, MaxRuns <- 2, flow <- x1,
    bars <- x2, change <- x3, limit <- x4, boards <- x5, rows <- x6,
    leaders <- x7, stale <- x8, turns <- x9, runs <- x10
E == INSTANCE EmotionScores WITH
    LastDate <- 4, Days <- MCDays, Window <- 2, MinHistory <- 1,
    MaxTurns <- 1, MaxRuns <- 3, day <- x1, rows <- x2, sound <- x3,
    turns <- x4, runs <- x5
T == INSTANCE RealtimeTargets WITH
    Active <- <<1, 2, 3, 4>>, Pools <- {"p", "q"}, Policies <- MCPolicies,
    StrongLimit <- 1, DecisionLimit <- 1, WarmCapacity <- 1,
    Registered <- 3, Guaranteed <- 2, MaxScore <- 1, MaxChanges <- 2,
    MaxRounds <- 3, pools <- x1, watched <- x2, score <- x3, hot <- x4,
    warm <- x5, cursor <- x6, sent <- x7, waits <- x8, lists <- x9,
    changes <- x10, rounds <- x11
W == INSTANCE QuoteViews WITH
    Stocks <- {1, 2, 3}, Pool <- {1, 2}, Board <- MCBoard,
    Averages <- MCAverages, Answers <- MCAnswers, recent <- x1, quotes <- x2
G == INSTANCE LlmCalls WITH
    Calls <- {"c", "d"}, Keys <- {1, 2, 3}, Rank <- MCRank,
    Sizes <- {16000, 20000}, MaxChars <- 16000, Short <- 57, MaxEdits <- 1,
    keys <- x1, call <- x2, log <- x3, clock <- x4, alone <- x5, edits <- x6

Blank10 == x11 = 0
Blank9 == x10 = 0 /\ Blank10
Blank8 == x9 = 0 /\ Blank9
Blank7 == x8 = 0 /\ Blank8
Blank6 == x7 = 0 /\ Blank7
Blank5 == x6 = 0 /\ Blank6
Blank3 == x4 = 0 /\ x5 = 0 /\ Blank5
Blank2 == x3 = 0 /\ Blank3
Blank == x1 = 0 /\ x2 = 0 /\ Blank2

MCInit ==
  /\ \/ part \in {"row", "bars", "query", "pool", "config", "skill", "ladder", "review", "board"} /\ Blank
     \/ part = "minute" /\ B!Init /\ Blank3
     \/ part = "sector" /\ S!Init /\ Blank10
     \/ part = "score" /\ E!Init /\ Blank5
     \/ part = "target" /\ T!Init
     \/ part = "views" /\ W!Init /\ Blank2
     \/ part = "llm" /\ G!Init /\ Blank6
  /\ ServicesInit

Parts ==
  \/ part = "minute" /\ B!Next /\ UNCHANGED <<x4, x5, x6, x7, x8, x9, x10, x11>>
  \/ part = "sector" /\ S!Next /\ UNCHANGED <<x11>>
  \/ part = "score" /\ E!Next /\ UNCHANGED <<x6, x7, x8, x9, x10, x11>>
  \/ part = "target" /\ T!Next
  \/ part = "views" /\ W!Next /\ UNCHANGED <<x3, x4, x5, x6, x7, x8, x9, x10, x11>>
  \/ part = "llm" /\ G!Next /\ UNCHANGED <<x7, x8, x9, x10, x11>>

MCNext ==
  \/ ServicesNext /\ UNCHANGED slots
  \/ Parts /\ UNCHANGED servicesVars

MCSpec == MCInit /\ [][MCNext]_allVars

-----------------------------------------------------------------------------
(* The properties of the modules, each of its part; the modules state them. *)

\* What the factors and the scores hold; what the realtime runtime targets and
\* shows; what a call of a model returns and records.
DerivedSound ==
  /\ part = "minute" => B!SetBasedAgrees
  /\ part = "sector" => S!FactorsSound
  /\ part = "score" => E!ScoresTrail
  /\ part = "target" => T!RotationFair
  /\ part = "views" => W!LimitsSound /\ W!OverviewAgrees /\ W!HeatFollowsPrices
  /\ part = "llm" => G!LlmSound

\* What a round may do.
RealtimeSteps ==
  [][part = "target" => T!TargetsServed]_allVars
=============================================================================
