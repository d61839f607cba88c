--------------------------- MODULE RealtimeTargets ---------------------------
(***************************************************************************)
(* Which stocks the realtime runtime spends its request budgets on         *)
(* (modules/realtime_market/service.py): the policies of the stock pools,  *)
(* the stocks a page watches and the strongest of the last full-market     *)
(* round are merged into one list of targets; the decision and depth       *)
(* blocks take its hot and warm lanes, the minute block its guaranteed and *)
(* rotating ones.                                                          *)
(*                                                                         *)
(* One instance, the leader.  Stocks are numbers, in the order of their    *)
(* codes; a quote is the strength of its change, 0 when the last accepted  *)
(* round has none.  A watched stock expires 120 seconds after the page     *)
(* asked for it, which is any moment here.                                 *)
(***************************************************************************)
EXTENDS Integers, Sequences, SequencesExt, TLC

CONSTANTS
  Active,         \* the active stocks, in the order of their codes
  Pools,          \* the enabled pools
  Policies,       \* what a pool may be: [on, priority, quote, minute, codes]
  StrongLimit,    \* strong_candidate_limit
  DecisionLimit,  \* decision_target_limit
  WarmCapacity,   \* _warm_quote_symbol_capacity
  Registered,     \* minute_registered_target_limit
  Guaranteed,     \* minute_guaranteed_target_count
  MaxScore,       \* bound: the strengths of a change
  MaxChanges,     \* bound: edits, page visits, full-market rounds
  MaxRounds       \* bound: decision, depth and minute rounds

Codes == ToSet(Active)

VARIABLES
  pools,    \* _pools: the reference the runtime has loaded
  watched,  \* _page_targets
  score,    \* _market_round_quotes: the strength of each stock's change
  hot,      \* _decision_targets
  warm,     \* _warm_targets
  cursor,   \* _rotation_cursor
  sent,     \* the last round: its block and the stocks it asks for, in order
  waits,    \* waits[c]: the minute rounds in a row that had c registered, with the
            \* same lists and slots, and did not ask for it (history)
  lists,    \* the registered lists of the last minute round (history)
  changes, rounds

vars == <<pools, watched, score, hot, warm, cursor, sent, waits, lists, changes, rounds>>

(* ------------------------------ the targets ------------------------------- *)

QuoteRank(lane) == CASE lane = "hot" -> 0 [] lane = "warm" -> 1 [] OTHER -> 2
MinuteRank(lane) == CASE lane = "guaranteed" -> 0 [] lane = "rotating" -> 1 [] OTHER -> 2

InPool(p, c) ==
  p.on /\ c \in p.codes /\ ~(p.quote = "off" /\ p.minute = "off")

\* The stocks of the last round with the largest changes.
Stronger(a, b) == score[a] > score[b] \/ (score[a] = score[b] /\ a < b)
Take(s, n) == SubSeq(s, 1, IF n < Len(s) THEN n ELSE Len(s))
After(s, n) == SubSeq(s, n + 1, Len(s))
Strong ==
  ToSet(Take(SortSeq(SelectSeq(Active, LAMBDA c : score[c] > 0), Stronger), StrongLimit))

\* Why a stock is a target, each with its priority and lanes.
Memberships(c, strong) ==
  {[priority |-> pools[p].priority, quote |-> pools[p].quote, minute |-> pools[p].minute] :
     p \in {q \in Pools : InPool(pools[q], c)}}
  \union {[priority |-> 900, quote |-> "hot", minute |-> "guaranteed"] : w \in watched \cap {c}}
  \union {[priority |-> 1000, quote |-> "warm", minute |-> "rotating"] : s \in strong \cap {c}}

\* The best priority and the best lanes of any membership.
Target(c, ms) ==
  [code |-> c,
   priority |-> CHOOSE n \in {m.priority : m \in ms} : \A m \in ms : n <= m.priority,
   quote |-> CHOOSE l \in {m.quote : m \in ms} : \A m \in ms : QuoteRank(l) <= QuoteRank(m.quote),
   minute |-> CHOOSE l \in {m.minute : m \in ms} :
                \A m \in ms : MinuteRank(l) <= MinuteRank(m.minute)]

Ahead(a, b) ==
  LET qa == QuoteRank(a.quote)  qb == QuoteRank(b.quote)
  IN  \/ a.priority < b.priority
      \/ a.priority = b.priority /\ qa < qb
      \/ a.priority = b.priority /\ qa = qb /\ Stronger(a.code, b.code)

\* _realtime_targets, in the order of their claims.
Targets ==
  LET strong == Strong
      of == [c \in Codes |-> Memberships(c, strong)]
      codes == SelectSeq(Active, LAMBDA c : of[c] # {})
  IN  SortSeq([i \in DOMAIN codes |-> Target(codes[i], of[codes[i]])], Ahead)

(* ------------------------------- the lanes -------------------------------- *)

CodesOf(targets) == [i \in DOMAIN targets |-> targets[i].code]
OnQuoteLane(targets, lane) == CodesOf(SelectSeq(targets, LAMBDA t : t.quote = lane))
OnMinuteLane(targets, lane) == CodesOf(SelectSeq(targets, LAMBDA t : t.minute = lane))

\* (mutant) the hot stocks beyond the limit are dropped.
HotAlone(targets) ==
  LET all == OnQuoteLane(targets, "hot")
  IN  [hot |-> Take(all, DecisionLimit), warm |-> OnQuoteLane(targets, "warm")]

\* _build_decision_targets: the hot stocks beyond the limit lead the warm lane.
DecisionLanes(targets) ==
  LET all == OnQuoteLane(targets, "hot")
  IN  [hot |-> Take(all, DecisionLimit),
       warm |-> After(all, DecisionLimit) \o OnQuoteLane(targets, "warm")]

\* The registered stocks of a minute round: guaranteed, and rotating in the room left.
MinuteLists(targets) ==
  LET first == Take(OnMinuteLane(targets, "guaranteed"), Registered)
  IN  <<first, Take(OnMinuteLane(targets, "rotating"), Registered - Len(first))>>

Rotated(s, k) == After(s, k % Len(s)) \o Take(s, k % Len(s))

\* _minute_target_plan: what a round selects outright, and what the slots left over are
\* shared among, from the cursor on.
Plan(registered) ==
  LET overflow == After(registered[1], Guaranteed) \o registered[2]
      first == Take(registered[1], Guaranteed)
      slots == Guaranteed - Len(first)
  IN  [first |-> first,
       turn |-> IF overflow = <<>> THEN <<>> ELSE Take(Rotated(overflow, cursor), slots)]

(* --------------------------------- actions -------------------------------- *)

Init ==
  /\ pools \in [Pools -> Policies]
  /\ watched = {} /\ score = [c \in Codes |-> 0]
  /\ hot = <<>> /\ warm = <<>> /\ sent = [block |-> "none", codes |-> <<>>]
  /\ cursor = 0 /\ waits = [c \in Codes |-> 0] /\ lists = <<<<>>, <<>>>>
  /\ changes = 0 /\ rounds = 0

Change == changes < MaxChanges /\ changes' = changes + 1
Round == rounds < MaxRounds /\ rounds' = rounds + 1

\* A pool is edited and the reference loaded again.
LoadPools ==
  /\ Change
  /\ \E p \in Pools, policy \in Policies : pools' = [pools EXCEPT ![p] = policy]
  /\ UNCHANGED <<watched, score, hot, warm, cursor, sent, waits, lists, rounds>>

Watch(c) ==
  /\ Change
  /\ watched' = watched \union {c}
  /\ UNCHANGED <<pools, score, hot, warm, cursor, sent, waits, lists, rounds>>

PageExpires(c) ==
  /\ c \in watched
  /\ watched' = watched \ {c}
  /\ UNCHANGED <<pools, score, hot, warm, cursor, sent, waits, lists, changes,
                 rounds>>

\* An accepted full-market round: every stock it has an answer for.
MarketRound ==
  /\ Change
  /\ \E c \in Codes, s \in 0 .. MaxScore : score' = [score EXCEPT ![c] = s]
  /\ UNCHANGED <<pools, watched, hot, warm, cursor, sent, waits, lists, rounds>>

Retarget ==
  LET lanes == DecisionLanes(Targets) IN hot' = lanes.hot /\ warm' = lanes.warm

\* _refresh_decision_quotes: the hot stocks, and with a warm turn as many warm ones as
\* the budget leaves room for.
DecisionRound(withWarm) ==
  /\ Round
  /\ Retarget
  /\ sent' = [block |-> "decision",
              codes |-> hot' \o Take(warm', IF withWarm THEN WarmCapacity ELSE 0)]
  /\ UNCHANGED <<pools, watched, score, cursor, waits, lists, changes>>

\* _refresh_depth builds the hot lane for itself.
DepthRound ==
  /\ Round
  /\ Retarget
  /\ sent' = [block |-> "depth", codes |-> hot']
  /\ UNCHANGED <<pools, watched, score, cursor, waits, lists, changes>>

\* The rounds in a row a stock of the lists was passed over.
Waits(registered, asked) ==
  [c \in Codes |->
     IF c \in ToSet(registered[1] \o registered[2]) /\ c \notin asked
     THEN IF registered = lists THEN waits[c] + 1 ELSE 1
     ELSE 0]

\* (mutant) the cursor does not move.
MinuteRoundFromHead ==
  /\ Round
  /\ LET registered == MinuteLists(Targets)
         plan == Plan(registered)
         codes == plan.first \o plan.turn
     IN  /\ sent' = [block |-> "minute", codes |-> codes]
         /\ waits' = Waits(registered, ToSet(codes))
         /\ lists' = registered
  /\ UNCHANGED <<pools, watched, score, hot, warm, cursor, changes>>

MinuteRound ==
  /\ Round
  /\ LET registered == MinuteLists(Targets)
         plan == Plan(registered)
         codes == plan.first \o plan.turn
     IN  /\ sent' = [block |-> "minute", codes |-> codes]
         /\ cursor' = cursor + Len(plan.turn)
         /\ waits' = Waits(registered, ToSet(codes))
         /\ lists' = registered
  /\ UNCHANGED <<pools, watched, score, hot, warm, changes>>

Next ==
  \/ LoadPools \/ MarketRound \/ DepthRound \/ MinuteRound
  \/ \E c \in Codes : Watch(c) \/ PageExpires(c)
  \/ \E withWarm \in BOOLEAN : DecisionRound(withWarm)

Spec == Init /\ [][Next]_vars

(* ------------------------------- properties ------------------------------- *)

\* While the registered stocks stay the same, the left-over ones take turns: none is
\* passed over for as many rounds as their slots need for all of them, wherever the
\* cursor stood and whatever the earlier lists were (_minute_target_plan).
RotationFair ==
  LET left == Len(After(lists[1], Guaranteed)) + Len(lists[2])
      slots == Guaranteed - Len(lists[1])
  IN  slots > 0 => \A c \in Codes : waits[c] > 0 => waits[c] * slots < left

\* A stock that a page watches or a pool wants hot never falls out of the lanes: it is
\* hot, or the hot lane is full and nothing but stocks that are hot themselves come
\* before it in the warm one.  No stock is asked for twice (_build_decision_targets).
LanesKept ==
  <<hot', warm'>> # <<hot, warm>> =>
    LET wanted == {c \in Codes :
          c \in watched \/ \E p \in Pools : InPool(pools[p], c) /\ pools[p].quote = "hot"}
        lead == Take(warm', Cardinality(wanted) - Len(hot'))
    IN  /\ Len(hot') <= DecisionLimit
        /\ IsInjective(hot' \o warm')
        /\ ToSet(hot' \o lead) = wanted
        /\ lead # <<>> => Len(hot') = DecisionLimit

\* A minute round leaves no slot empty while a registered stock waits, asks for no
\* stock twice, and for a rotating one only when every guaranteed one has its slot.
SlotsUsed ==
  sent'.block = "minute" /\ sent' # sent =>
    LET asked == ToSet(sent'.codes)
        registered == ToSet(lists'[1] \o lists'[2])
    IN  /\ IsInjective(sent'.codes)
        /\ asked \subseteq registered
        /\ Len(sent'.codes) = Guaranteed \/ asked = registered
        /\ asked \cap ToSet(lists'[2]) # {} => ToSet(lists'[1]) \subseteq asked

\* What a step of the runtime keeps of its targets: their lanes and their slots.
TargetsServed == LanesKept /\ SlotsUsed

\* "Every minute 200 stocks are guaranteed, the rest rotate by priority" (realtime plan,
\* docs/wiki/70): no guaranteed stock is passed over for as many rounds in a row as there
\* are guaranteed stocks, the lists unchanged (_minute_target_plan).
GuaranteedRotate == \A c \in ToSet(lists[1]) : waits[c] < Len(lists[1])
=============================================================================
