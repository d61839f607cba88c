---------------------------- MODULE ConfigValues ----------------------------
(***************************************************************************)
(* The configuration centre (modules/config_center) and the one reader of  *)
(* it that keeps what it read: the realtime runtime, whose TickFlow        *)
(* clients hold a key of the centre (realtime_market/tickflow_runtime.py,  *)
(* RealtimeMarketService._ensure_provider_pools).                          *)
(*                                                                         *)
(* Keys are made, edited, disabled and deleted by requests, each one       *)
(* transaction.  A test of a key reads it, asks the provider one question  *)
(* after the other, and only then writes what it found; the key may have   *)
(* changed meanwhile.  A key serves realtime rounds when it is available   *)
(* and the last test recorded for it found every capability.               *)
(***************************************************************************)
EXTENDS Integers, Sequences

CONSTANTS
  Values,    \* the ids of the secret values, 1 .. n, by priority
  Kind,      \* Kind[v]: "tickflow", "tushare" or "redis"
  Secrets,   \* the secrets there are, numbers from 1
  Configs,   \* the configurations of the category, of which one may be the default
  Testers,   \* the tests that may be under way at once
  MaxTurns   \* bound: requests, tests, loads and expiries

VARIABLES
  values,    \* values[v]: the row of value v
  options,   \* the options and switches of the configurations
  default,   \* the default configuration of the category, or "none"
  test,      \* test[t]: what test t has read, its step and the answers that were not rows
  runtime,   \* what the realtime runtime holds: settings, identity and clients
  turns

vars == <<values, options, default, test, runtime, turns>>

NoProbe == [result |-> "none", of |-> 0]
Row(secret, own) == [state |-> "live", secret |-> secret, own |-> own, on |-> TRUE,
                     status |-> "active", until |-> "none", probe |-> NoProbe]
Unborn == [Row(0, "none") EXCEPT !.state = "unborn"]
Gone == [Row(0, "none") EXCEPT !.state = "gone"]
NoClient == [provider |-> "none", secret |-> 0, endpoint |-> "none"]
Free == [value |-> 0, secret |-> 0, step |-> 0, errors |-> {}]
Off == [on |-> FALSE, provider |-> "tickflow", size |-> 1]

Init ==
  /\ values = [v \in Values |-> Unborn]
  /\ options = [provider |-> "tickflow", size |-> 1, realtime |-> TRUE, tickflow |-> TRUE,
                api |-> "none"]
  /\ default = "none"
  /\ test = [t \in Testers |-> Free]
  /\ runtime = [settings |-> Off, id |-> NoClient, pool |-> << >>]
  /\ turns = 0

Turn == turns < MaxTurns /\ turns' = turns + 1
Live(v) == values[v].state = "live"
Write(v, row) == values' = [values EXCEPT ![v] = row]

(* -------------------------------- requests -------------------------------- *)

\* _validate_endpoint_url: only keys of the two data providers have an address of their own.
Endpoints(v) == IF Kind[v] = "redis" THEN {"none"} ELSE {"none", "own"}

CreateValue(v) ==
  /\ values[v] = Unborn /\ Turn
  /\ \E s \in Secrets, own \in Endpoints(v) : Write(v, Row(s, own))
  /\ UNCHANGED <<options, default, test, runtime>>

\* Only the fields of the payload are written: a new secret leaves status and probe.
Edits(v) ==
  LET row == values[v] IN
       {[row EXCEPT !.secret = s] : s \in Secrets}
  \union {[row EXCEPT !.own = e] : e \in Endpoints(v)}
  \union {[row EXCEPT !.on = b] : b \in BOOLEAN}
  \union {[row EXCEPT !.status = s] : s \in {"active", "disabled"}}
  \union {[row EXCEPT !.until = "none"], [row EXCEPT !.probe = NoProbe]}

UpdateValue(v) ==
  /\ Live(v) /\ Turn
  /\ \E row \in Edits(v) \ {values[v]} : Write(v, row)
  /\ UNCHANGED <<options, default, test, runtime>>

DisableValue(v) ==
  /\ Live(v) /\ Turn
  /\ Write(v, [values[v] EXCEPT !.status = "disabled", !.on = FALSE])
  /\ UNCHANGED <<options, default, test, runtime>>

DeleteValue(v) ==
  /\ Live(v) /\ Turn
  /\ Write(v, Gone)
  /\ UNCHANGED <<options, default, test, runtime>>

\* The options of a request are written in one transaction; their values are not checked.
PutOptions ==
  /\ Turn
  /\ \E p \in {"tickflow", "mootdx"}, n \in 1 .. 2, a \in {"none", "url", "bad"} :
       options' = [options EXCEPT !.provider = p, !.size = n, !.api = a]
  /\ UNCHANGED <<values, default, test, runtime>>

SwitchItem ==
  /\ Turn
  /\ \E item \in {"realtime", "tickflow"} : options' = [options EXCEPT ![item] = ~@]
  /\ UNCHANGED <<values, default, test, runtime>>

\* update_item sets the new default before it clears the old one, and the table has one
\* default at most: while another is the default the request fails.
SetDefault(c) ==
  /\ default = "none" /\ Turn
  /\ default' = c
  /\ UNCHANGED <<values, options, test, runtime>>

UnsetDefault ==
  /\ default # "none" /\ Turn
  /\ default' = "none"
  /\ UNCHANGED <<values, options, test, runtime>>

(* ---------------------------------- tests --------------------------------- *)

\* What each question of a full test may be answered: rows, none, a refusal of the key, or
\* any other failure.  One quote, or fifty:
Quotes == {"rows", "empty", "refused", "failed"}
\* the catalogue of the market, where fewer than 200 symbols are a failure:
Catalogue == {"rows", "refused", "failed"}
\* the quotes of the whole market in one answer, and the order books of 200 symbols:
Universe == Quotes
Books == Quotes

\* The questions in order; nothing more is asked when one of the first two fails.
Questions == <<Quotes, Catalogue, Quotes, Universe, Books>>
Decisive == {1, 2}
Recording == Len(Questions) + 1

\* The address of a key: its own, or the one of the options, which may be no address.
EndpointOf(v) == IF values[v].own # "none" THEN "own" ELSE options.api

BeginTest(t, v) ==
  /\ test[t] = Free /\ Live(v) /\ Turn
  /\ LET broken == EndpointOf(v) = "bad"
         read == [value |-> v, secret |-> values[v].secret,
                  step |-> IF broken THEN Recording ELSE 1,
                  errors |-> IF broken THEN {"failed"} ELSE {}]
     IN  test' = [test EXCEPT ![t] = read]
  /\ UNCHANGED <<values, options, default, runtime>>

\* One answer.
Asks(t) ==
  LET q == test[t] IN
  /\ q.step \in DOMAIN Questions
  /\ Kind[q.value] = "tickflow"
  /\ \E answer \in Questions[q.step] :
       test' = [test EXCEPT ![t] =
         IF answer = "rows" THEN [q EXCEPT !.step = @ + 1]
         ELSE [q EXCEPT !.step = IF q.step \in Decisive THEN Recording ELSE @ + 1,
                        !.errors = @ \union {answer}]]
  /\ UNCHANGED <<values, options, default, runtime, turns>>

\* (mutant) a test that succeeds makes the key active again.
ProbedActivates(row, q) ==
  [row EXCEPT !.status = IF q.errors = {} THEN "active" ELSE @,
              !.probe = [result |-> IF q.errors = {} THEN "yes" ELSE "no", of |-> q.secret]]

\* What a test writes into the row there is now: a refused key is invalid, and the probe
\* is of the secret that was read.
Probed(row, q) ==
  [row EXCEPT !.status = IF "refused" \in q.errors THEN "invalid" ELSE @,
              !.probe = [result |-> IF q.errors = {} THEN "yes" ELSE "no", of |-> q.secret]]

\* _record_probe: of a value that was deleted meanwhile nothing is kept.
RecordProbe(t) ==
  LET q == test[t] IN
  /\ q.step = Recording
  /\ values' = [values EXCEPT ![q.value] = IF Live(q.value) THEN Probed(@, q) ELSE @]
  /\ test' = [test EXCEPT ![t] = Free]
  /\ UNCHANGED <<options, default, runtime, turns>>

\* The test of a Tushare token asks for ten days of one stock and changes no row, nor does
\* the ping of a Redis address.
OtherTest(t) ==
  /\ test[t] # Free /\ Kind[test[t].value] # "tickflow"
  /\ test' = [test EXCEPT ![t] = Free]
  /\ UNCHANGED <<values, options, default, runtime, turns>>

(* -------------------------------- cooldowns ------------------------------- *)

\* A call of the Tushare runtime met a rate limit; the value may have changed since.
MarkCooldown(v) ==
  /\ Live(v) /\ Kind[v] = "tushare" /\ Turn
  /\ Write(v, [values[v] EXCEPT !.status = "cooldown", !.until = "later"])
  /\ UNCHANGED <<options, default, test, runtime>>

CooldownPasses(v) ==
  /\ Live(v) /\ values[v].until = "later" /\ Turn
  /\ Write(v, [values[v] EXCEPT !.until = "past"])
  /\ UNCHANGED <<options, default, test, runtime>>

\* release_expired_cooldowns, of every configuration.
Released == [v \in Values |->
  IF Live(v) /\ values[v].status = "cooldown" /\ values[v].until = "past"
  THEN [values[v] EXCEPT !.status = "active", !.until = "none"] ELSE values[v]]

(* ------------------------------- the runtime ------------------------------ *)

\* list_values(only_available).
Available(rows, v) ==
  /\ rows[v].state = "live" /\ rows[v].on /\ rows[v].status = "active"
  /\ rows[v].until # "later"

\* resolve_realtime_credentials: the keys whose recorded test passed.
Passed(rows) ==
  {v \in Values : Kind[v] = "tickflow" /\ Available(rows, v) /\ rows[v].probe.result = "yes"}
First(rows) == CHOOSE v \in Passed(rows) : \A w \in Passed(rows) : v <= w
KeyClient(rows) == [provider |-> "tickflow", secret |-> rows[First(rows)].secret,
                    endpoint |-> EndpointOf(First(rows))]
Usable(rows) == Passed(rows) # {} /\ KeyClient(rows).endpoint # "bad"
MootdxClient == [NoClient EXCEPT !.provider = "mootdx"]

\* _load_settings, after thirty seconds or when it is forced; a load that fails keeps the
\* settings there are.
LoadSettings ==
  /\ Turn
  /\ runtime' = [runtime EXCEPT !.settings =
       IF options.realtime THEN [on |-> TRUE, provider |-> options.provider,
                                 size |-> options.size]
       ELSE Off]
  /\ UNCHANGED <<values, options, default, test>>

\* (mutant) only another number of clients makes new ones.
ResizedPool(held, id, size) ==
  IF Len(held.pool) = size THEN held.pool ELSE [i \in 1 .. size |-> id]

\* The pool after a round: another identity closes the clients, another size too.
Pool(held, id, size) ==
  IF held.id = id /\ Len(held.pool) = size THEN held.pool ELSE [i \in 1 .. size |-> id]

Serves(id) ==
  runtime' = [runtime EXCEPT !.id = id, !.pool = Pool(runtime, id, runtime.settings.size)]

RoundOnMootdx ==
  /\ runtime.settings.on /\ runtime.settings.provider = "mootdx"
  /\ Serves(MootdxClient)
  /\ UNCHANGED <<values, options, default, test, turns>>

RoundOnTickflow ==
  /\ runtime.settings.on /\ runtime.settings.provider = "tickflow"
  /\ options.tickflow
  /\ values' = Released
  /\ Usable(Released)
  /\ Serves(KeyClient(Released))
  /\ UNCHANGED <<options, default, test, turns>>

\* No key, none that passed, or no address: the cooldowns are released, the round raises
\* and the clients stay as they are.
RoundFails ==
  /\ runtime.settings.on /\ runtime.settings.provider = "tickflow"
  /\ options.tickflow
  /\ values' = Released
  /\ ~Usable(Released)
  /\ UNCHANGED <<options, default, test, runtime, turns>>

Next ==
  \/ PutOptions \/ SwitchItem \/ UnsetDefault \/ (\E c \in Configs : SetDefault(c))
  \/ LoadSettings \/ RoundOnMootdx \/ RoundOnTickflow \/ RoundFails
  \/ \E v \in Values : \/ CreateValue(v) \/ UpdateValue(v) \/ DisableValue(v)
                       \/ DeleteValue(v) \/ MarkCooldown(v) \/ CooldownPasses(v)
                       \/ \E t \in Testers : BeginTest(t, v)
  \/ \E t \in Testers : Asks(t) \/ RecordProbe(t) \/ OtherTest(t)

Spec == Init /\ [][Next]_vars

(* ------------------------------- properties ------------------------------- *)

\* However keys are edited while the runtime runs: every client it holds is of the identity
\* it remembers, so a round never asks with two keys or of two providers at once.
PoolOfOneKey == \A i \in DOMAIN runtime.pool : runtime.pool[i] = runtime.id

\* A test never makes a key available that was not when it is recorded, whatever was done
\* to the key while it ran; and a round that takes a key takes one that is available to it
\* and whose recorded test found every capability.
KeysSound ==
  /\ \A t \in Testers : test[t].step = Recording /\ test'[t] = Free =>
       \A v \in Values : Available(values', v) => Available(values, v)
  /\ runtime'.id # runtime.id /\ runtime'.id.provider = "tickflow" =>
       \E v \in Values : /\ Available(values', v) /\ values'[v].probe.result = "yes"
                         /\ values'[v].secret = runtime'.id.secret

\* Only a key that passed the complete test serves: the test was of the secret it has.
KeyWasProbed ==
  \A v \in Passed(values) : values[v].probe.of = values[v].secret

\* The pages count what the runtimes may use: the list's number of available keys is the
\* summary's.
Listed == {v \in Values : Live(v) /\ values[v].on /\ values[v].status = "active"}
Summarised == {v \in Values : Available(values, v)}
KeyCountsAgree == Listed = Summarised

\* A category that has a default can be given another.
DefaultCanMove == default # "none" => \A c \in Configs \ {default} : ENABLED SetDefault(c)
=============================================================================
