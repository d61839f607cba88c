-------------------------- MODULE StrategyVersions --------------------------
(***************************************************************************)
(* One strategy definition, its versions, their backtests and the study    *)
(* that tunes their parameters: python-back/app/modules/strategy_center,   *)
(* service.py and repository.py.                                           *)
(*                                                                         *)
(* Every request and every job has a database session of its own, made     *)
(* with expire_on_commit=False: the rows it loaded keep the values of its  *)
(* reads, and a flush writes only the attributes that differ from them.    *)
(* A request that is refused before it writes is not a step.               *)
(*                                                                         *)
(* The loaders of this release read columns by names the rows no longer    *)
(* have (turnover_rate, volume_ratio), and the summary of a backtest a     *)
(* name that does not exist: no backtest completes and the candidate job   *)
(* raises before it writes, so that it is no step here.  Completed runs,   *)
(* their trades, versions that are ready or paper and open candidates are  *)
(* rows an earlier release left (Init).                                    *)
(***************************************************************************)
EXTENDS Integers, FiniteSetsExt

CONSTANTS
    Requests,     \* operator requests in flight at a time
    Runs,         \* rows of t_strategy_backtest_run
    MaxVersion,   \* bound on version_no
    Batches,      \* batches of BACKTEST_SIGNAL_DAYS_PER_BATCH signal days
    MaxStarts     \* bound on the requests, backtests and sessions that start

ASSUME VersionAssumption == MaxVersion \in Nat \ {0}
ASSUME BatchAssumption == Batches \in Nat \ {0}
ASSUME StartAssumption == MaxStarts \in Nat

VARIABLES
    def,      \* t_strategy_definition.status
    pool,     \* t_stock_pool.is_enabled of the strategy's own pool
    policy,   \* StockPoolRealtimePolicy.is_enabled of that pool
    ver,      \* t_strategy_version, by version_no
    run,      \* t_strategy_backtest_run with its task and trade rows
    study,    \* baselines of the rows of t_strategy_optimization_run
    cand,     \* versions with candidates that wait for confirmation
    open,     \* versions with an open paper trade
    round,    \* session of a realtime round: what it listed
    req,      \* sessions of the requests
    started,  \* requests, backtests and sessions started so far
    raced     \* a commit wrote from rows that had changed since it read them

vars == <<def, pool, policy, ver, run, study, cand, open, round, req, started,
          raced>>
sessions == <<req, started>>
trading == <<cand, open, round>>
rows == <<def, pool, policy, ver>>

Versions == 1 .. MaxVersion
VersionStatus == {"none", "draft", "backtest_ready", "paper", "retired"}
DefStatus == {"none", "draft", "research", "paper", "archived"}
RowStatus == {"none", "running", "completed", "failed", "cancelled"}

Version == [status : VersionStatus, qualified : BOOLEAN, rev : Nat]
NoVersion == [status |-> "none", qualified |-> FALSE, rev |-> 0]
Run == [pc : {"idle", "run", "summary", "discard", "fail"}, status : RowStatus,
        done : 0 .. Batches, capped : BOOLEAN, lost : BOOLEAN]
NoRun == [pc |-> "idle", status |-> "none", done |-> 0, capped |-> FALSE,
          lost |-> FALSE]
Idle == [op |-> "idle", v |-> 1, def |-> "none", was |-> "none", saw |-> {},
         others |-> {}, to |-> "none"]
Off == [on |-> FALSE, enter |-> {}, exit |-> {}]

InState(s) == {v \in Versions : ver[v].status = s}
Latest == Cardinality(Versions \ InState("none"))
ListPaperVersions == IF def = "paper" THEN InState("paper") ELSE {}

TypeOK ==
    /\ def \in DefStatus /\ pool \in BOOLEAN /\ policy \in BOOLEAN
    /\ ver \in [Versions -> Version]
    /\ run \in [Runs -> Run]
    /\ study \in SUBSET Runs
    /\ cand \in SUBSET Versions /\ open \in SUBSET Versions
    /\ round \in [on : BOOLEAN, enter : SUBSET Versions, exit : SUBSET Versions]
    /\ req \in [Requests ->
                  [op : {"idle", "create", "edit", "status", "promote", "retire"},
                   v : Versions, def : DefStatus, was : VersionStatus,
                   saw : SUBSET Versions, others : SUBSET Versions, to : DefStatus]]
    /\ started \in 0 .. MaxStarts
    /\ raced \in BOOLEAN

\* What a database holds when the process starts: nothing yet, or a strategy an
\* earlier release validated and perhaps promoted, with its completed runs.
Empty == /\ def = "none" /\ pool = FALSE /\ policy = FALSE
         /\ ver = [v \in Versions |-> NoVersion]
         /\ run = [r \in Runs |-> NoRun]
         /\ cand = {} /\ open = {}
OldRun == [NoRun EXCEPT !.status = "completed", !.done = Batches]
Inherited ==
    /\ \E s \in [Versions -> {"none", "draft", "backtest_ready", "paper"}] :
         /\ \A v, w \in Versions : v < w /\ s[v] = "none" => s[w] = "none"
         /\ s[1] # "none"
         /\ Cardinality({v \in Versions : s[v] = "paper"}) =< 1
         /\ ver = [v \in Versions |->
                     [NoVersion EXCEPT !.status = s[v],
                        !.qualified = s[v] \in {"backtest_ready", "paper"}]]
         /\ def = IF \E v \in Versions : s[v] = "paper" THEN "paper" ELSE "research"
    /\ pool = TRUE
    /\ policy = (def = "paper")
    /\ \E old \in SUBSET Runs, c \in BOOLEAN :
         /\ Cardinality(old) =< 1
         /\ run = [r \in Runs |-> IF r \in old THEN [OldRun EXCEPT !.capped = c]
                                  ELSE NoRun]
    /\ cand \in SUBSET ListPaperVersions
    /\ open \in SUBSET ListPaperVersions

Init == /\ Empty \/ Inherited
        /\ study = {}
        /\ round = Off
        /\ req = [q \in Requests |-> Idle]
        /\ started = 0
        /\ raced = FALSE

-----------------------------------------------------------------------------
(* Requests.  Each reads, then commits once. *)

Start == started < MaxStarts /\ started' = started + 1
Begin(q, r) == req[q].op = "idle" /\ Start /\ req' = [req EXCEPT ![q] = r]
End(q) == req' = [req EXCEPT ![q] = Idle] /\ UNCHANGED started

\* bootstrap_builtin_definitions and create_definition: a check, then rows with
\* a unique code, so that of two creations one fails.
CreateDefinition(s) ==
    /\ def = "none" /\ Start
    /\ def' = s /\ pool' = TRUE /\ policy' = FALSE
    /\ ver' = [ver EXCEPT ![1] = [NoVersion EXCEPT !.status = "draft"]]
    /\ UNCHANGED <<run, study, trading, req, raced>>

\* create_version: one more than the highest number, which is unique.
CreateReads(q) ==
    /\ def # "none" /\ Latest < MaxVersion
    /\ Begin(q, [Idle EXCEPT !.op = "create", !.v = Latest + 1])
    /\ UNCHANGED <<rows, run, study, trading, raced>>
CreateCommits(q) ==
    /\ req[q].op = "create"
    /\ ver' = IF ver[req[q].v].status = "none"
              THEN [ver EXCEPT ![req[q].v] = [NoVersion EXCEPT !.status = "draft"]]
              ELSE ver
    /\ End(q)
    /\ UNCHANGED <<def, pool, policy, run, study, trading, raced>>

\* update_version: only a draft is edited.
Editable(v) == ver[v].status = "draft"
EditReads(q, v) ==
    /\ Editable(v)
    /\ Begin(q, [Idle EXCEPT !.op = "edit", !.v = v])
    /\ UNCHANGED <<rows, run, study, trading, raced>>
EditCommits(q) ==
    /\ req[q].op = "edit"
    /\ ver' = [ver EXCEPT ![req[q].v].rev = @ + 1]
    /\ End(q)
    /\ UNCHANGED <<def, pool, policy, run, study, trading, raced>>

\* update_definition.  The status is written when it differs from the one read,
\* the pool's flag always.
PoolVisible(s) == s # "archived"
StatusReads(q, to) ==
    /\ def # "none"
    /\ Begin(q, [Idle EXCEPT !.op = "status", !.def = def, !.to = to])
    /\ UNCHANGED <<rows, run, study, trading, raced>>
StatusCommits(q) ==
    /\ req[q].op = "status"
    /\ def' = IF req[q].to # req[q].def THEN req[q].to ELSE def
    /\ pool' = PoolVisible(req[q].to)
    /\ raced' = (raced \/ def # req[q].def)
    /\ End(q)
    /\ UNCHANGED <<policy, ver, run, study, trading>>

\* promote_version_to_paper: check the version, list the paper versions, commit.
Promotable(v) == ver[v].status = "backtest_ready" /\ ver[v].qualified
PromoteReads(q, v) ==
    /\ Promotable(v)
    /\ Begin(q, [Idle EXCEPT !.op = "promote", !.v = v, !.def = def,
                   !.was = ver[v].status])
    /\ UNCHANGED <<rows, run, study, trading, raced>>
OnlyOlderOnPaper(v) == {w \in InState("paper") : w < v}               \* (mutant)
OthersOnPaper(v) == InState("paper") \ {v}
PromoteLists(q) ==
    /\ req[q].op = "promote"
    /\ req' = [req EXCEPT ![q].op = "retire", ![q].saw = InState("paper"),
                           ![q].others = OthersOnPaper(req[q].v)]
    /\ UNCHANGED <<rows, run, study, trading, started, raced>>
PromoteCommits(q) ==
    LET v == req[q].v IN
    /\ req[q].op = "retire"
    /\ ver' = [w \in Versions |->
                 IF w = v THEN [ver[w] EXCEPT !.status = "paper"]
                 ELSE IF w \in req[q].others THEN [ver[w] EXCEPT !.status = "retired"]
                 ELSE ver[w]]
    /\ def' = IF req[q].def # "paper" THEN "paper" ELSE def
    /\ pool' = TRUE /\ policy' = TRUE
    /\ raced' = \/ raced
                \/ def # req[q].def
                \/ ver[v].status # req[q].was
                \/ InState("paper") # req[q].saw
    /\ End(q)
    /\ UNCHANGED <<run, study, trading>>

-----------------------------------------------------------------------------
(* Backtests, run by the scheduler's job or by a request. *)

SetRun(r, new) == /\ run' = [run EXCEPT ![r] = new]
                  /\ UNCHANGED <<rows, study, trading, req, raced>>

\* run_backtest up to the commit of the row 'running'.
StartBacktest(r) ==
    /\ run[r].status = "none" /\ Latest > 0 /\ Start
    /\ SetRun(r, [NoRun EXCEPT !.pc = "run", !.status = "running"])

\* _execute_backtest: a batch without an eligible stock has nothing to load,
\* nothing to insert and commits nothing.
Batch(r) ==
    /\ run[r].pc = "run" /\ UNCHANGED started
    /\ LET done == run[r].done + 1 IN
       SetRun(r, [run[r] EXCEPT !.done = done,
                    !.pc = IF done = Batches THEN "summary" ELSE "run"])

FailUncommitted(x) == [x EXCEPT !.pc = "idle"]  \* (mutant)
FailBacktestRun(x) == [x EXCEPT !.pc = "idle", !.status = "failed"]
\* The first eligible stock: its row has no column volume_ratio, the loader
\* raises and the except clause closes the run.
LoadRaises(r) ==
    /\ run[r].pc = "run" /\ UNCHANGED started
    /\ SetRun(r, FailBacktestRun(run[r]))
\* The summary raises NameError.
Summarise(r) ==
    /\ run[r].pc = "summary" /\ UNCHANGED started
    /\ SetRun(r, FailBacktestRun(run[r]))

\* A statement fails: the transaction is aborted, the update of the except
\* clause fails in it and the row stays as it was.
StatementFails(r) ==
    /\ run[r].pc \in {"run", "summary"} /\ UNCHANGED started
    /\ SetRun(r, [run[r] EXCEPT !.pc = "idle", !.lost = TRUE])

\* A cancellation ends the task; the rows are discarded under shield.
CancelBacktest(r) ==
    /\ run[r].pc \in {"run", "summary"} /\ UNCHANGED started
    /\ SetRun(r, [run[r] EXCEPT !.pc = "discard"])
CancelBacktestRun(x) == [x EXCEPT !.pc = "idle", !.status = "cancelled"]
DiscardPartial(r) ==
    /\ run[r].pc = "discard" /\ UNCHANGED started
    /\ SetRun(r, CancelBacktestRun(run[r]))
\* A cancellation inside a statement closes the connection under the session,
\* which then refuses the cleanup.
DiscardFails(r) ==
    /\ run[r].pc = "discard" /\ UNCHANGED started
    /\ SetRun(r, [run[r] EXCEPT !.pc = "idle", !.lost = TRUE])

\* optimize_parameters: the guards, then one transaction with the row and its
\* trials.  What fails leaves no row.
Completed(r) == run[r].status = "completed"
Optimise(r) ==
    /\ Completed(r) /\ ~run[r].capped
    /\ study' = study \union {r}
    /\ UNCHANGED <<rows, run, trading, sessions, raced>>

-----------------------------------------------------------------------------
(* Candidates and trades, as far as they depend on versions. *)

\* list_runtime_candidates and list_open_paper_trades in the session of a round.
RoundLists ==
    /\ ~round.on /\ (cand \union open) \intersect ListPaperVersions # {} /\ Start
    /\ round' = [on |-> TRUE, enter |-> (cand \ open) \intersect ListPaperVersions,
                 exit |-> open \intersect ListPaperVersions]
    /\ UNCHANGED <<rows, run, study, cand, open, req, raced>>
RoundCommits(in, out) ==
    /\ round.on /\ in \subseteq round.enter /\ out \subseteq round.exit
    /\ cand' = cand \ in
    /\ open' = (open \union in) \ out
    /\ round' = Off
    /\ UNCHANGED <<rows, run, study, sessions, raced>>

-----------------------------------------------------------------------------
\* The process exits: every session is rolled back, every row stays.
Crash ==
    /\ \E r \in Runs : run[r].pc # "idle"
    /\ run' = [r \in Runs |-> [run[r] EXCEPT !.pc = "idle",
                                 !.lost = @ \/ run[r].pc # "idle"]]
    /\ req' = [q \in Requests |-> Idle]
    /\ round' = Off
    /\ UNCHANGED <<rows, study, cand, open, started, raced>>

Request(q) ==
    \/ CreateReads(q) \/ CreateCommits(q)
    \/ \E v \in Versions : EditReads(q, v)
    \/ EditCommits(q)
    \/ \E to \in {"draft", "research", "archived"} : StatusReads(q, to)
    \/ StatusCommits(q)
    \/ \E v \in Versions : PromoteReads(q, v)
    \/ PromoteLists(q) \/ PromoteCommits(q)

Proceed(r) == Batch(r) \/ LoadRaises(r) \/ Summarise(r) \/ DiscardPartial(r)

Next ==
    \/ \E s \in {"draft", "research"} : CreateDefinition(s)
    \/ \E q \in Requests : Request(q)
    \/ \E r \in Runs : StartBacktest(r)
    \/ \E r \in Runs : \/ Proceed(r) \/ StatementFails(r)
                       \/ CancelBacktest(r) \/ DiscardFails(r) \/ Optimise(r)
    \/ RoundLists \/ (\E i, o \in SUBSET Versions : RoundCommits(i, o))
    \/ Crash

\* The event loop runs a task that can run; nothing makes an operator act.
Spec == Init /\ [][Next]_vars /\ \A r \in Runs : WF_vars(Proceed(r))
-----------------------------------------------------------------------------
(* Properties *)

\* One strategy has at most one version on paper, unless a promotion committed
\* from rows that had changed since it read them (promote_version_to_paper).
OnePaperVersion == ~raced => Cardinality(InState("paper")) =< 1

\* The strategy's pool is visible exactly while the strategy is not archived,
\* unless two edits raced (update_definition, promote_version_to_paper).
PoolFollowsDefinition == def # "none" /\ ~raced => (pool <=> def # "archived")

\* Versions and pool agree with the strategy they belong to: what racing requests may
\* still rely on (promote_version_to_paper, update_definition).
VersionsSound == OnePaperVersion /\ PoolFollowsDefinition

\* A backtest whose task lives and whose statements succeed gets a final row,
\* also when it is cancelled (run_backtest).
RunSettles ==
    \A r \in Runs : run[r].status = "running" ~>
                      run[r].status # "running" \/ run[r].lost

\* What the code does not keep: a backtest that nobody cancels and whose
\* statements succeed completes.  The loader of its inputs reads
\* row["volume_ratio"] where the statement selects volume_ratio_5d
\* (repository.py:749), and its summary reads the undefined trades
\* (service.py:872).
BacktestCompletes == \A r \in Runs : run[r].status # "failed"

\* What the code does not keep: every open paper trade is among those the exit
\* round lists; the list asks for a paper version of a paper definition.
OpenTradesWatched == open \subseteq ListPaperVersions
=============================================================================
