------------------------------- MODULE LlmCalls -------------------------------
(***************************************************************************)
(* The LLM runtime (modules/llm_runtime): chats and analyses of callers    *)
(* that may overlap, each with a database session of its own.  A call      *)
(* loads its configuration, an analysis gathers its context, then the keys *)
(* are listed once and asked in order; what an answer changes is committed *)
(* with it.                                                                *)
(*                                                                         *)
(* Keys are edited meanwhile by the configuration centre.  A block of the  *)
(* context stands for what its query does: data, an error of its own, or   *)
(* an error of the database that leaves the session unusable, because      *)
(* nobody rolls back.                                                      *)
(***************************************************************************)
EXTENDS Integers, Sequences, SequencesExt, FiniteSets

CONSTANTS
  Calls,     \* the calls there may be
  Keys,      \* the ids of the keys, numbers from 1
  Rank,      \* Rank[k]: the place of its priority and weight
  Sizes,     \* the sizes a context may have, as JSON
  MaxChars,  \* max_context_chars
  Short,     \* by how much a cut context, with its mark, is shorter than that: 57
  MaxEdits   \* bound: edits of keys

VARIABLES
  keys,    \* keys[k]: available, failure_count, last_used_at (0: never), successes
  call,    \* call[c]: its step, what it has read, asked and returned
  log,     \* log[c]: the statuses of the rows of t_runtime_call_log of its trace
  clock,   \* the calls that were answered
  alone,   \* (history) no two calls have overlapped
  edits

vars == <<keys, call, log, clock, alone, edits>>

NewCall == [step |-> "idle", json |-> FALSE, size |-> 0, cut |-> FALSE, broken |-> FALSE,
            left |-> << >>, asked |-> << >>, result |-> "none"]

Init ==
  /\ keys = [k \in Keys |-> [on |-> TRUE, fails |-> 0, used |-> 0, uses |-> 0]]
  /\ call = [c \in Calls |-> NewCall]
  /\ log = [c \in Calls |-> << >>]
  /\ clock = 0 /\ alone = TRUE /\ edits = 0

Running(c) == call[c].step \notin {"idle", "done", "raised"}
Goes(c, row) == call' = [call EXCEPT ![c] = row]
Logs(c, statuses) == log' = [log EXCEPT ![c] = @ \o statuses]

\* _record_failure: a row and the answer of a failed call; in a session that is broken it
\* raises what the caller did not expect.
RecordFailure(c, row, statuses) ==
  IF row.broken
  THEN Goes(c, [row EXCEPT !.step = "raised"]) /\ UNCHANGED log
  ELSE Goes(c, [row EXCEPT !.step = "done", !.result = "failed"])
       /\ Logs(c, Append(statuses, "failed"))

(* --------------------------------- a call --------------------------------- *)

\* _load_profile: the configuration and its options, or a failure.
LoadProfile(c, row) ==
  \/ Goes(c, row) /\ UNCHANGED log
  \/ RecordFailure(c, row, << >>)

Begin(c, json, step) ==
  /\ call[c] = NewCall
  /\ alone' = (alone /\ \A d \in Calls : ~Running(d))
  /\ LoadProfile(c, [NewCall EXCEPT !.json = json, !.step = step])
  /\ UNCHANGED <<keys, clock, edits>>

\* chat, and analyze_with_context, which gathers a context before it lists the keys.
Chat(c) == \E json \in BOOLEAN : Begin(c, json, "list")
Analyze(c) == \E json \in BOOLEAN : Begin(c, json, "context")

\* _context_json: too long a text is cut below the limit.
Written(size) == IF size <= MaxChars THEN size ELSE MaxChars - Short

\* build, one block after the other: a block that fails is a block with an error, and the
\* flag is set by the length of what was written.
Gather(c) ==
  /\ call[c].step = "context"
  /\ \E size \in Sizes, broken \in BOOLEAN :
       Goes(c, [call[c] EXCEPT !.step = "list", !.size = size, !.broken = broken,
                               !.cut = Written(size) >= MaxChars])
  /\ UNCHANGED <<keys, log, clock, alone, edits>>

Available == {k \in Keys : keys[k].on}

\* (mutant) keys that were never used come last.
OrderedNullsLast(S) ==
  LET last(k) == IF keys[k].used = 0 THEN clock + 1 ELSE keys[k].used IN
  SetToSortSeq(S, LAMBDA j, k :
    \/ Rank[j] < Rank[k]
    \/ Rank[j] = Rank[k] /\ (last(j) < last(k) \/ (last(j) = last(k) /\ j < k)))

\* list_available_values: by rank, then the one used longest ago, then by id.
Ordered(S) ==
  SetToSortSeq(S, LAMBDA j, k :
    \/ Rank[j] < Rank[k]
    \/ Rank[j] = Rank[k] /\ (keys[j].used < keys[k].used
                             \/ (keys[j].used = keys[k].used /\ j < k)))

ListKeys(c) ==
  /\ call[c].step = "list"
  /\ IF call[c].broken \/ Available = {} THEN RecordFailure(c, call[c], << >>)
     ELSE Goes(c, [call[c] EXCEPT !.step = "ask", !.left = Ordered(Available)]) /\ UNCHANGED log
  /\ UNCHANGED <<keys, clock, alone, edits>>

\* What a key may be answered: an object, a JSON value that is none and perhaps has in it
\* what marks a refusal ("rate", "401"), a refusal, anything else that fails.
Answers == {"object", "scalar", "marked", "refused", "failed"}
Scalars == {"scalar", "marked"}

\* _should_try_next_key looks for the marks in the text of the error, where the validation
\* of the result quotes the value it refuses.
TriesNext(answer) == answer \in {"refused", "marked"}

\* The result of a JSON call takes an object or a list: any other value is refused when
\* the success has been committed, and then fails like a call of the provider.
Accepted(c, answer) == answer = "object" \/ (answer \in Scalars /\ ~call[c].json)
Stored(answer) == answer = "object" \/ answer \in Scalars

\* mark_value_used, mark_value_failure
AfterUse(k) == [keys[k] EXCEPT !.fails = 0, !.used = clock + 1, !.uses = @ + 1]
AfterFailure(row) == [row EXCEPT !.fails = @ + 1]
KeyAfter(c, k, answer) ==
  LET stored == IF Stored(answer) THEN AfterUse(k) ELSE keys[k] IN
  IF Accepted(c, answer) THEN stored ELSE AfterFailure(stored)

\* The loop of _chat_with_profile, one key: its answer and what is committed after it.
Ask(c) ==
  /\ call[c].step = "ask"
  /\ \E answer \in Answers :
       LET k == Head(call[c].left)
           row == [call[c] EXCEPT !.left = Tail(@),
                                  !.asked = Append(@, [key |-> k, answer |-> answer])]
           statuses == IF Stored(answer) THEN <<"success">> ELSE << >> IN
       /\ keys' = [keys EXCEPT ![k] = KeyAfter(c, k, answer)]
       /\ clock' = IF Stored(answer) THEN clock + 1 ELSE clock
       /\ \/ /\ Accepted(c, answer)
             /\ Goes(c, [row EXCEPT !.step = "done", !.result = "success"])
             /\ Logs(c, statuses)
          \/ /\ ~Accepted(c, answer) /\ TriesNext(answer) /\ row.left # << >>
             /\ Goes(c, row) /\ Logs(c, statuses)
          \/ /\ ~Accepted(c, answer) /\ ~(TriesNext(answer) /\ row.left # << >>)
             /\ RecordFailure(c, row, statuses)
  /\ UNCHANGED <<alone, edits>>

\* A request of the configuration centre disables a key or enables it.
EditKey(k) ==
  /\ edits < MaxEdits /\ edits' = edits + 1
  /\ keys' = [keys EXCEPT ![k].on = ~@]
  /\ UNCHANGED <<call, log, clock, alone>>

Next ==
  \/ \E c \in Calls : Chat(c) \/ Analyze(c) \/ Gather(c) \/ ListKeys(c) \/ Ask(c)
  \/ \E k \in Keys : EditKey(k)

Spec == Init /\ [][Next]_vars

(* ------------------------------- properties ------------------------------- *)

Finished == {c \in Calls : call[c].step = "done"}
Rejected(c, i) == call[c].json /\ call[c].asked[i].answer \in Scalars

\* A call that returns has said so in the log, once, and last what it returned; it asked no
\* key twice, and went on only from a refusal, or from a value it rejected and took for one
\* (_chat_with_profile).
CallsAccount ==
  \A c \in Finished :
    LET asked == call[c].asked  n == Len(asked) IN
    /\ log[c] # << >> /\ log[c][Len(log[c])] = call[c].result
    /\ Len(log[c]) = 1 \/ \E i \in 1 .. n : Rejected(c, i)
    /\ \A i, j \in 1 .. n : asked[i].key = asked[j].key => i = j
    /\ \A i \in 1 .. n - 1 :
         /\ asked[i].answer = "refused" \/ (asked[i].answer = "marked" /\ Rejected(c, i))
         /\ Rank[asked[i].key] <= Rank[asked[i + 1].key]

\* Keys of one rank take turns: as long as calls follow each other, no key was edited and
\* the first key asked has always served, no key of the best rank serves more than one call
\* more than another (the order of list_available_values).
KeysTakeTurns ==
  LET served == {c \in Calls : call[c].asked # << >>}
      best == {k \in Keys : \A j \in Keys : Rank[k] <= Rank[j]} IN
  alone /\ edits = 0 /\ (\A c \in served : call[c].result = "success" /\ Len(call[c].asked) = 1) =>
    \A j, k \in best : keys[j].uses <= keys[k].uses + 1

LlmSound == CallsAccount /\ KeysTakeTurns

\* A call that has ended, whether it returned or raised, has one row in the log.
LoggedOnce == \A c \in Calls : call[c].step \in {"done", "raised"} => Len(log[c]) = 1

\* The pack tells that the context it was sent with was cut.
CutIsTold == \A c \in Calls : call[c].size > MaxChars => call[c].cut

\* Only a key that is available is asked.
AskedIsActive ==
  \A c \in Calls : call[c].step = "ask" => keys[Head(call[c].left)].on

\* A key that failed gives way to one of its rank that did not.
FailedGivesWay ==
  \A c \in Calls : call[c].step = "ask" /\ call[c].asked = << >> =>
    \A j \in Available : LET k == Head(call[c].left) IN
      Rank[j] = Rank[k] => keys[k].fails <= keys[j].fails
=============================================================================
