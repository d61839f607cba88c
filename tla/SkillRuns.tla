------------------------------- MODULE SkillRuns -------------------------------
(***************************************************************************)
(* The skill runtime (modules/skill_runtime): chains of skills that are    *)
(* tried until one gives enough results.  A skill is a process of its own  *)
(* with a key of its family in its environment; the keys are asked in turn *)
(* when one is refused.  All attempts of a skill in a chain write into one *)
(* directory, named by the skill and the trace of the chain.               *)
(*                                                                         *)
(* Skills are numbered by their place in the chain.  What a process wrote  *)
(* is whether it printed, how many items that amounts to and whether there *)
(* are files in the directory.                                             *)
(***************************************************************************)
EXTENDS Integers, Sequences, FiniteSets

CONSTANTS
  Chains,    \* the chains there may be
  Length,    \* the number of skills of a chain
  Keyed,     \* the skills that need a key
  Keys,      \* the ids of the keys of the family, in the order they are listed
  Broken,    \* the keys whose secret cannot be decrypted
  MinItems,  \* CAPABILITY_MIN_RESULTS
  MaxTurns   \* bound: edits of keys and cancellations

VARIABLES
  on,       \* the keys that are available
  fails,    \* failure_count of the keys
  chain,    \* chain[c]: its step, its skill, the keys left, results and errors
  files,    \* files[c]: the skills with files in their directory
  running,  \* the processes of skills: chain, skill and key
  log,      \* log[c]: the committed rows of the chain's trace
  turns

vars == <<on, fails, chain, files, running, log, turns>>

Skills == 1 .. Length
NewChain == [step |-> "idle", at |-> 0, left |-> << >>, results |-> << >>, errors |-> {},
             resolved |-> 0]

Init ==
  /\ on = Keys /\ fails = [k \in Keys |-> 0]
  /\ chain = [c \in Chains |-> NewChain]
  /\ files = [c \in Chains |-> {}]
  /\ running = {} /\ turns = 0
  /\ log = [c \in Chains |-> << >>]

Goes(c, row) == chain' = [chain EXCEPT ![c] = row]
Logs(c, skill, ok) == log' = [log EXCEPT ![c] = Append(@, [skill |-> skill, ok |-> ok])]

(* --------------------------------- a chain -------------------------------- *)

Result(skill, ok, items, own) == [skill |-> skill, ok |-> ok, items |-> items, own |-> own]

\* result_item_count: of what was printed; files alone are no items.
Enough(r) == r.ok /\ r.items >= MinItems

\* (mutant) any success resolves the chain.
AfterSkillAnySuccess(row, r) ==
  LET next == [row EXCEPT !.results = Append(@, r), !.left = << >>,
                          !.errors = IF r.ok THEN @ ELSE @ \union {r.skill}] IN
  IF r.ok THEN [next EXCEPT !.step = "done", !.resolved = r.skill]
  ELSE IF r.skill = Length THEN [next EXCEPT !.step = "done"]
  ELSE [next EXCEPT !.step = "skill", !.at = @ + 1]

\* run_capability_chain after a skill: resolved, on to the next one, or at the end.
AfterSkill(row, r) ==
  LET next == [row EXCEPT !.results = Append(@, r), !.left = << >>,
                          !.errors = IF r.ok THEN @ ELSE @ \union {r.skill}] IN
  IF Enough(r) THEN [next EXCEPT !.step = "done", !.resolved = r.skill]
  ELSE IF r.skill = Length THEN [next EXCEPT !.step = "done"]
  ELSE [next EXCEPT !.step = "skill", !.at = @ + 1]

Begin(c) ==
  /\ chain[c] = NewChain
  /\ Goes(c, [NewChain EXCEPT !.step = "skill", !.at = 1])
  /\ UNCHANGED <<on, fails, files, running, log, turns>>

\* _select_credentials: the available keys that can be decrypted; the others have failed.
InOrder(S) ==
  LET place(k) == Cardinality({j \in S : j <= k}) IN
  [i \in 1 .. Cardinality(S) |-> CHOOSE k \in S : place(k) = i]
Credentials == InOrder(on \ Broken)
FailedToDecrypt == [k \in Keys |-> IF k \in on \cap Broken THEN fails[k] + 1 ELSE fails[k]]

Process(c, skill, key) == [chain |-> c, skill |-> skill, key |-> key]

\* A skill without a key of its own runs once, one that needs a key and finds none fails.
StartKeyless(c) ==
  /\ chain[c].step = "skill" /\ chain[c].at \notin Keyed
  /\ running' = running \union {Process(c, chain[c].at, 0)}
  /\ Goes(c, [chain[c] EXCEPT !.step = "run"])
  /\ UNCHANGED <<on, fails, files, log, turns>>

StartKeyed(c) ==
  /\ chain[c].step = "skill" /\ chain[c].at \in Keyed /\ Credentials # << >>
  /\ fails' = FailedToDecrypt
  /\ running' = running \union {Process(c, chain[c].at, Head(Credentials))}
  /\ Goes(c, [chain[c] EXCEPT !.step = "run", !.left = Credentials])
  /\ UNCHANGED <<on, files, log, turns>>

KeyMissing(c) ==
  /\ chain[c].step = "skill" /\ chain[c].at \in Keyed /\ Credentials = << >>
  /\ fails' = FailedToDecrypt
  /\ Logs(c, chain[c].at, FALSE)
  /\ Goes(c, AfterSkill(chain[c], Result(chain[c].at, FALSE, 0, FALSE)))
  /\ UNCHANGED <<on, files, running, turns>>

\* create_subprocess_exec raises: only a timeout is caught, so that the chain ends without a
\* row of the attempt or a failure of its key.
NotStarted(c) ==
  /\ chain[c].step = "skill" /\ (chain[c].at \in Keyed => Credentials # << >>)
  /\ fails' = IF chain[c].at \in Keyed THEN FailedToDecrypt ELSE fails
  /\ Goes(c, [chain[c] EXCEPT !.step = "raised"])
  /\ UNCHANGED <<on, files, running, log, turns>>

\* The end of a process: its exit code, what it printed, and whether its output has one of
\* the words that speak of keys; a timeout kills it and is a failure.
Ends == {e \in [exit : {"zero", "other"}, printed : BOOLEAN, items : 0 .. MinItems,
                wrote : BOOLEAN, retry : BOOLEAN] :
           /\ e.items > 0 => e.printed /\ e.exit = "zero"
           /\ e.printed => e.exit = "zero" /\ ~e.retry}

\* _collect_files takes what is in the directory, whoever wrote it.
Found(c, e) == e.wrote \/ chain[c].at \in files[c]

\* SkillRunner.run
Success(c, e) == e.exit = "zero" /\ (e.printed \/ Found(c, e))
ResultOf(c, e) ==
  Result(chain[c].at, Success(c, e), e.items, e.printed \/ e.wrote)

KeyOf(c) == IF chain[c].left = << >> THEN 0 ELSE Head(chain[c].left)

\* _mark_value_used, _mark_value_failure
FailsAfter(k, ok) ==
  IF k = 0 THEN fails ELSE [fails EXCEPT ![k] = IF ok THEN 0 ELSE @ + 1]

\* run_skill, one key: its result, what is committed after it, and the next key when the
\* failure speaks of one (_should_try_next_value).  A process that cannot be started for the
\* next key raises out of the chain.
Finish(c) ==
  /\ chain[c].step = "run"
  /\ \E e \in Ends, starts \in BOOLEAN :
       LET k == KeyOf(c)  ok == Success(c, e)  at == chain[c].at
           rest == IF k = 0 THEN << >> ELSE Tail(chain[c].left)
           stays == ~ok /\ e.retry /\ rest # << >> IN
       /\ fails' = FailsAfter(k, ok)
       /\ Logs(c, at, ok)
       /\ files' = [files EXCEPT ![c] = IF e.wrote THEN @ \union {at} ELSE @]
       /\ running' = (running \ {Process(c, at, k)})
                       \union (IF stays /\ starts THEN {Process(c, at, Head(rest))} ELSE {})
       /\ Goes(c, IF ~stays THEN AfterSkill(chain[c], ResultOf(c, e))
                  ELSE IF starts THEN [chain[c] EXCEPT !.left = rest]
                  ELSE [chain[c] EXCEPT !.step = "raised"])
  /\ UNCHANGED <<on, turns>>

\* The caller is cancelled while it waits: nothing kills the process.
Cancel(c) ==
  /\ chain[c].step = "run" /\ turns < MaxTurns /\ turns' = turns + 1
  /\ Goes(c, [chain[c] EXCEPT !.step = "cancelled"])
  /\ UNCHANGED <<on, fails, files, running, log>>

OrphanEnds(c) ==
  /\ chain[c].step = "cancelled" /\ \E p \in running : p.chain = c
  /\ running' = {p \in running : p.chain # c}
  /\ UNCHANGED <<on, fails, chain, files, log, turns>>

\* A request of the configuration centre disables a key or enables it.
EditKey(k) ==
  /\ turns < MaxTurns /\ turns' = turns + 1
  /\ on' = IF k \in on THEN on \ {k} ELSE on \union {k}
  /\ UNCHANGED <<fails, chain, files, running, log>>

Next ==
  \/ \E c \in Chains : \/ Begin(c) \/ StartKeyless(c) \/ StartKeyed(c) \/ KeyMissing(c)
                       \/ NotStarted(c) \/ Finish(c) \/ Cancel(c) \/ OrphanEnds(c)
  \/ \E k \in Keys : EditKey(k)

Spec == Init /\ [][Next]_vars

(* ------------------------------- properties ------------------------------- *)

Done == {c \in Chains : chain[c].step = "done"}

\* A chain that returns has a result of every skill up to the last it tried, in order; it
\* is resolved by the last one, with enough results, or has tried them all.  Its errors
\* are the skills that failed, and the last row of a skill in the log tells its result,
\* all those before it a failure.
ChainAccounts ==
  \A c \in Done :
    LET row == chain[c]  rs == row.results  n == Len(rs)
        rows(k) == {j \in DOMAIN log[c] : log[c][j].skill = k} IN
    /\ \A i \in 1 .. n : rs[i].skill = i
    /\ IF row.resolved # 0 THEN row.resolved = n /\ rs[n].items >= MinItems ELSE n = Length
    /\ \A i \in 1 .. n : /\ rs[i].items >= MinItems => i = n
                         /\ i \in row.errors <=> ~rs[i].ok
                         /\ \E j \in rows(i) :
                              /\ log[c][j].ok = rs[i].ok
                              /\ \A x \in rows(i) \ {j} : x < j /\ ~log[c][x].ok

\* A chain waits for one process at most, and only while it runs a skill.
OneProcess ==
  \A c \in Chains : /\ chain[c].step = "run" =>
                         {p \in running : p.chain = c} = {Process(c, chain[c].at, KeyOf(c))}
                    /\ chain[c].step \in {"skill", "done", "raised"} => \A p \in running : p.chain # c

SkillsSound == ChainAccounts /\ OneProcess

\* A success rests on what the attempt itself printed or wrote.
SuccessIsOwn ==
  \A c \in Done : \A i \in DOMAIN chain[c].results :
    chain[c].results[i].ok => chain[c].results[i].own

\* A chain without a result has an error of every skill it tried.
FailureIsTold ==
  \A c \in Done : chain[c].resolved = 0 => chain[c].errors = Skills

\* No process outlives the call that started it.
NoneLeftRunning == \A p \in running : chain[p.chain].step = "run"
=============================================================================
