----------------------------- MODULE TushareTokens -----------------------------
(***************************************************************************)
(* Calls to Tushare through the token pool of the configuration centre.    *)
(* A call loads the available tokens, reserves a slot in the process-wide  *)
(* sliding window of one of them, asks the provider, and on failure marks  *)
(* the token and falls back to the next one.  Calls run concurrently and   *)
(* every await between two steps lets the others in.                       *)
(*                                                                         *)
(* Source: app/modules/market_data/tushare_runtime.py and                  *)
(* tushare/rate_limit.py, the token rows of config_center/repository.py.   *)
(* The order of equal tokens (weight, last_used_at, id) is left open.      *)
(***************************************************************************)
EXTENDS Integers, Sequences, FiniteSets

CONSTANTS
  Tokens,        \* t_config_value rows of kind "token"
  Calls,         \* TushareProviderFactory.call invocations
  Priority,      \* priority column: the lowest is preferred
  PerMinute,     \* rate_limit_per_minute
  Window,        \* the 60 seconds of the limiter, in clock units
  Budget,        \* interactive_ or scheduler_max_wait_seconds of each call
  Fallback,      \* calls with fallback_on_empty_response
  RetryCount,    \* retry_count
  Cooldown,      \* cooldown_seconds
  MaxNow,        \* bound: the clock
  MaxEdits       \* bound: edits of the token rows by an operator

ASSUME TokensAssumption == IsFiniteSet(Tokens)
ASSUME PriorityAssumption == Priority \in [Tokens -> Nat]
ASSUME LimitAssumption == PerMinute \in Nat \ {0} /\ Window \in Nat \ {0}
ASSUME BudgetAssumption == Budget \in [Calls -> Nat] /\ Fallback \subseteq Calls
ASSUME OptionAssumption == {RetryCount, Cooldown, MaxNow, MaxEdits} \subseteq Nat

Statuses == {"active", "cooldown", "invalid", "disabled"}
Outcomes == {"none", "records", "empty", "failed", "no_token", "local_limit",
             "cancelled"}
\* TushareTransportError kinds, those _record_failure tells apart.
Kinds == {"transport", "token_invalid", "rate_limit", "other"}

VARIABLES
  now,       \* the clock
  requests,  \* TushareRateCoordinator._requests
  status,    \* t_config_value.status
  until,     \* t_config_value.cooldown_until
  pc,        \* where each call is suspended
  values,    \* the tokens a call may ask
  cands,     \* the tokens a call has not given up
  cur,       \* the token whose slot a call holds, as a set
  attempt,   \* request attempts on that slot
  wake, deadline,   \* when a sleeping call looks again, and gives up
  outcome,
  grants,    \* history: when slots of each token were reserved
  sent,      \* history: by which call and when each token was used
  edits

callVars == <<pc, values, cands, cur, attempt, wake, deadline, outcome>>
tokenVars == <<status, until>>
history == <<grants, sent>>
vars == <<now, requests, tokenVars, callVars, history, edits>>

-----------------------------------------------------------------------------
(* The deque of request times both limiters of the system keep: this one    *)
(* and the realtime budget (realtime_market/rate_limit.py).  A request      *)
(* appends the current time; before it counts, the deque drops the times    *)
(* that left the window from its front, up to the first one still inside.   *)

\* The time t has left a window of w that ends at the given time.
Aged(t, at, w) == at - t >= w

\* The times popleft removes are the first k.
Drops(q, at, w) ==
  CHOOSE k \in 0 .. Len(q) :
    /\ \A i \in 1 .. k : Aged(q[i], at, w)
    /\ k < Len(q) => ~Aged(q[k + 1], at, w)

Trim(q, at, w) == LET k == Drops(q, at, w) IN SubSeq(q, k + 1, Len(q))

\* Any n + 1 consecutive times of q span at least a window of w: no window
\* holds more than n of them.
Spaced(q, n, w) == \A i \in 1 .. Len(q) - n : q[i + n] - q[i] >= w
-----------------------------------------------------------------------------

Live(c) == pc[c] \notin {"idle", "done"}

Init ==
  /\ now = 0 /\ edits = 0
  /\ requests = [t \in Tokens |-> <<>>]
  /\ status = [t \in Tokens |-> "active"] /\ until = [t \in Tokens |-> 0]
  /\ pc = [c \in Calls |-> "idle"] /\ outcome = [c \in Calls |-> "none"]
  /\ values = [c \in Calls |-> {}] /\ cands = values /\ cur = values
  /\ attempt = [c \in Calls |-> 0] /\ wake = attempt /\ deadline = attempt
  /\ grants = [t \in Tokens |-> <<>>] /\ sent = grants

Ends(c, o) ==
  /\ pc' = [pc EXCEPT ![c] = "done"]
  /\ outcome' = [outcome EXCEPT ![c] = o]

-----------------------------------------------------------------------------
(* A call. *)

\* release_expired_cooldowns.
Released == [t \in Tokens |-> IF status[t] = "cooldown" /\ until[t] <= now
                              THEN "active" ELSE status[t]]

\* _load_candidates, then _provider for each value: a token whose endpoint
\* is not a URL is given up at once and keeps its status.
Load(c) ==
  /\ pc[c] = "idle"
  /\ status' = Released
  /\ until' = [t \in Tokens |-> IF status'[t] # status[t] THEN 0 ELSE until[t]]
  /\ LET available == {t \in Tokens : status'[t] = "active" /\ until'[t] <= now}
     IN \E usable \in SUBSET available :
          /\ values' = [values EXCEPT ![c] = usable]
          /\ cands' = [cands EXCEPT ![c] = usable]
          /\ IF usable = {}
             THEN Ends(c, IF available = {} THEN "no_token" ELSE "failed")
             ELSE pc' = [pc EXCEPT ![c] = "reserve"] /\ UNCHANGED outcome
  /\ UNCHANGED <<now, requests, cur, attempt, wake, deadline, history, edits>>

\* reserve takes the coordinator's lock without an await inside: on entry,
\* and again whenever a sleep has ended.
Reserving(c) == pc[c] = "reserve" \/ (pc[c] = "asleep" /\ now >= wake[c])

Trimmed(c) == [t \in Tokens |-> IF t \in cands[c] THEN Trim(requests[t], now, Window)
                                ELSE requests[t]]

\* (mutant) the deque may grow one beyond the limit.
FreeBeyond(c) == {t \in cands[c] : Len(Trimmed(c)[t]) <= PerMinute}

Free(c) == {t \in cands[c] : Len(Trimmed(c)[t]) < PerMinute}

\* The first free candidate in the order of the pool gets the slot.
Grant(c, t) ==
  /\ Reserving(c) /\ t \in Free(c)
  /\ \A u \in Free(c) : Priority[t] <= Priority[u]
  /\ requests' = [Trimmed(c) EXCEPT ![t] = Append(@, now)]
  /\ grants' = [grants EXCEPT ![t] = Append(@, now)]
  /\ cur' = [cur EXCEPT ![c] = {t}]
  /\ attempt' = [attempt EXCEPT ![c] = 1]
  /\ sent' = [sent EXCEPT ![t] = Append(@, [by |-> c, at |-> now])]
  /\ pc' = [pc EXCEPT ![c] = "ask"]
  /\ UNCHANGED <<now, tokenVars, values, cands, wake, deadline, outcome, edits>>

\* How long until the first of the full windows lets a request through.
Waits(c) == {Window - (now - Head(Trimmed(c)[t])) : t \in cands[c]}
Deadline(c) == IF pc[c] = "reserve" THEN now + Budget[c] ELSE deadline[c]

NoFreeUntil(c, w) == Free(c) = {} /\ w \in Waits(c) /\ \A v \in Waits(c) : w <= v

Sleep(c) ==
  /\ Reserving(c)
  /\ \E w \in 0 .. Window :
       /\ NoFreeUntil(c, w) /\ now + w <= Deadline(c)
       /\ wake' = [wake EXCEPT ![c] = now + w]
  /\ deadline' = [deadline EXCEPT ![c] = Deadline(c)]
  /\ requests' = Trimmed(c)
  /\ pc' = [pc EXCEPT ![c] = "asleep"]
  /\ UNCHANGED <<now, tokenVars, values, cands, cur, attempt, outcome, history, edits>>

\* (mutant) a wait that ends exactly at the deadline is refused.
GiveUpAtDeadline(c) ==
  /\ Reserving(c)
  /\ \E w \in 0 .. Window : NoFreeUntil(c, w) /\ now + w >= Deadline(c)
  /\ requests' = Trimmed(c)
  /\ Ends(c, "local_limit")
  /\ UNCHANGED <<now, tokenVars, values, cands, cur, attempt, wake, deadline,
                 history, edits>>

\* TushareRateLimitTimeout: the whole call fails, no token is blamed.
GiveUp(c) ==
  /\ Reserving(c)
  /\ \E w \in 0 .. Window : NoFreeUntil(c, w) /\ now + w > Deadline(c)
  /\ requests' = Trimmed(c)
  /\ Ends(c, "local_limit")
  /\ UNCHANGED <<now, tokenVars, values, cands, cur, attempt, wake, deadline,
                 history, edits>>

\* The token is removed from the candidates; without any left the call fails.
NextToken(c) ==
  /\ cands' = [cands EXCEPT ![c] = @ \ cur[c]]
  /\ cur' = [cur EXCEPT ![c] = {}]
  /\ IF cands[c] \subseteq cur[c]
     THEN Ends(c, "failed")
     ELSE pc' = [pc EXCEPT ![c] = "reserve"] /\ UNCHANGED outcome

\* (mutant) two candidates left count as the last.
AnswerEarly(c, o) ==
  /\ pc[c] = "ask"
  /\ IF o = "empty" /\ c \in Fallback /\ Cardinality(cands[c]) > 2
     THEN NextToken(c)
     ELSE Ends(c, o) /\ UNCHANGED <<cands, cur>>
  /\ UNCHANGED <<now, requests, tokenVars, values, attempt, wake, deadline,
                 history, edits>>

\* An answer.  An empty one counts as a failure of the token while another
\* token could be asked; the last token's empty answer is the result.
Answer(c, o) ==
  /\ pc[c] = "ask"
  /\ IF o = "empty" /\ c \in Fallback /\ Cardinality(cands[c]) > 1
     THEN NextToken(c)
     ELSE Ends(c, o) /\ UNCHANGED <<cands, cur>>
  /\ UNCHANGED <<now, requests, tokenVars, values, attempt, wake, deadline,
                 history, edits>>

\* _record_failure: an unconditional update of the token's row.
Mark(c, k) ==
  /\ status' = [t \in Tokens |->
       IF t \notin cur[c] THEN status[t]
       ELSE CASE k = "token_invalid" -> "invalid"
              [] k = "rate_limit" -> "cooldown"
              [] OTHER -> status[t]]
  /\ until' = [t \in Tokens |-> IF t \in cur[c] /\ k = "rate_limit"
                                THEN now + Cooldown ELSE until[t]]

\* An error.  Only transport errors are retried, on the slot already held.
Fail(c, k) ==
  /\ pc[c] = "ask"
  /\ Mark(c, k)
  /\ IF k = "transport" /\ attempt[c] <= RetryCount
     THEN pc' = [pc EXCEPT ![c] = "backoff"] /\ UNCHANGED <<cands, cur, outcome>>
     ELSE NextToken(c)
  /\ UNCHANGED <<now, requests, values, attempt, wake, deadline, history, edits>>

AskAgain(c) ==
  /\ pc[c] = "backoff"
  /\ attempt' = [attempt EXCEPT ![c] = @ + 1]
  /\ sent' = [t \in Tokens |-> IF t \in cur[c]
                               THEN Append(sent[t], [by |-> c, at |-> now]) ELSE sent[t]]
  /\ pc' = [pc EXCEPT ![c] = "ask"]
  /\ UNCHANGED <<now, requests, tokenVars, values, cands, cur, wake, deadline,
                 outcome, grants, edits>>

\* The caller is cancelled: slots already reserved stay counted.
CancelCall(c) ==
  /\ Live(c) /\ Ends(c, "cancelled")
  /\ UNCHANGED <<now, requests, tokenVars, values, cands, cur, attempt, wake,
                 deadline, history, edits>>

-----------------------------------------------------------------------------
(* The operator and the clock. *)

\* disable_value, or update_value with a status; cooldown_until stays.
EditToken(t, s) ==
  /\ edits < MaxEdits /\ edits' = edits + 1
  /\ status' = [status EXCEPT ![t] = s]
  /\ UNCHANGED <<now, requests, until, callVars, history>>

Tick ==
  /\ now < MaxNow /\ now' = now + 1
  /\ UNCHANGED <<requests, tokenVars, callVars, history, edits>>

\* Every call has ended, or the clock has reached its bound.
Waiting == (now = MaxNow \/ \A c \in Calls : pc[c] = "done") /\ UNCHANGED vars

Next ==
  \/ \E c \in Calls : \/ Load(c) \/ Sleep(c) \/ GiveUp(c) \/ AskAgain(c) \/ CancelCall(c)
                      \/ \E t \in Tokens : Grant(c, t)
                      \/ \E o \in {"records", "empty"} : Answer(c, o)
                      \/ \E k \in Kinds : Fail(c, k)
  \/ \E t \in Tokens, s \in {"active", "disabled"} : EditToken(t, s)
  \/ Tick \/ Waiting

Spec == Init /\ [][Next]_vars
-----------------------------------------------------------------------------
(* Properties. *)

Request == [by : Calls, at : Nat]

\* Rows, deques and call states keep their types.
TypeOK ==
  /\ now \in Nat /\ edits \in Nat
  /\ requests \in [Tokens -> Seq(Nat)] /\ grants \in [Tokens -> Seq(Nat)]
  /\ sent \in [Tokens -> Seq(Request)]
  /\ status \in [Tokens -> Statuses] /\ until \in [Tokens -> Nat]
  /\ pc \in [Calls -> {"idle", "reserve", "asleep", "ask", "backoff", "done"}]
  /\ values \in [Calls -> SUBSET Tokens] /\ cands \in [Calls -> SUBSET Tokens]
  /\ cur \in [Calls -> SUBSET Tokens]
  /\ attempt \in [Calls -> 0 .. RetryCount + 1]
  /\ wake \in [Calls -> Nat] /\ deadline \in [Calls -> Nat]
  /\ outcome \in [Calls -> Outcomes]

\* However calls interleave, sleep and wake, no window of 60 seconds holds
\* more than rate_limit_per_minute reservations of one token (reserve).
WindowKept == \A t \in Tokens : Spaced(grants[t], PerMinute, Window)

Recent(t) == {i \in DOMAIN grants[t] : ~Aged(grants[t][i], now, Window)}

\* The local limit only refuses a call when every candidate it has left was
\* reserved rate_limit_per_minute times within the last window, and none
\* becomes free before the deadline of the call.
RefusalJustified ==
  [][\A c \in Calls : pc[c] # "done" /\ outcome'[c] = "local_limit"
       => \A t \in cands[c] :
            /\ Cardinality(Recent(t)) >= PerMinute
            /\ \A i \in Recent(t) : grants[t][i] + Window > Deadline(c)]_vars

Asked(c) == {t \in Tokens : \E i \in DOMAIN sent[t] : sent[t][i].by = c}

\* A call fails for want of tokens, or takes an empty answer for its result,
\* only after it has asked every token it may ask.
GivesUpLast ==
  \A c \in Calls : outcome[c] = "failed" \/ (outcome[c] = "empty" /\ c \in Fallback)
                  => values[c] \subseteq Asked(c)

\* No call asks a token twice but to retry a transport error, and it gives
\* every token at most retry_count retries.
AskedOnce ==
  \A c \in Calls, t \in Tokens :
    Cardinality({i \in DOMAIN sent[t] : sent[t][i].by = c}) <= RetryCount + 1

\* The fallback reaches every token, and none too often (call).
FallbackSound == GivesUpLast /\ AskedOnce

\* A token marked invalid is only made active again by the operator.
InvalidStays ==
  [][\A t \in Tokens : status[t] = "invalid" => status'[t] = "invalid" \/ edits' # edits]_vars

-----------------------------------------------------------------------------
(* Values for TLC: "t1" is preferred, "c1" is interactive and the others   *)
(* may wait for a whole window.                                            *)

FirstPreferred == [t \in Tokens |-> IF t = "t1" THEN 1 ELSE 2]
FirstShort == [c \in Calls |-> IF c = "c1" THEN 1 ELSE 2]
=============================================================================
