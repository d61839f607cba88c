--------------------------- MODULE MarketEmotion ---------------------------
(***************************************************************************)
(* The models of the market emotion score and the job that scores days     *)
(* with them (market_insight/emotion_service.py).  A draft is calibrated   *)
(* over a baseline of days and becomes ready, an administrator activates   *)
(* it, and the daily run scores with the active model.                     *)
(*                                                                         *)
(* Requests and the job have a database session each and take no lock: a   *)
(* request reads the model, checks the status it saw and commits later;    *)
(* the job keeps the model it loaded at its start.  The session writes an  *)
(* attribute only when it differs from the value loaded, so a status that  *)
(* looks unchanged from a stale session is not written at all.  The        *)
(* advisory lock of the job code lets one job run at a time.               *)
(*                                                                         *)
(* A score is abstracted to the parameters it was computed with and to     *)
(* whether the day is usable ("ready" or "degraded").                      *)
(***************************************************************************)
EXTENDS Integers, FiniteSets

CONSTANTS Models, Users,
          LastDate,       \* the stored trade dates are 1..LastDate
          BaselineDays,   \* baseline_trade_days of a model
          EmotionBatch,   \* rows per commit, 20 in the code
          MaxEdits, MaxEmotionRuns, MaxTurns

ASSUME EmotionAssumption ==
  LastDate \in Nat /\ BaselineDays \in Nat /\ MaxEdits \in Nat /\ MaxEmotionRuns \in Nat /\ MaxTurns \in Nat

VARIABLES model,   \* [Models -> row of t_market_emotion_model]
          scores,  \* [Models -> [Dates -> row of t_market_emotion_daily]]
          req,     \* [Users -> request between its read and its commit]
          job,     \* the running calculation
          covered, \* days whose bars and limit events are complete
          edits, emotionRuns, turns

emotionVars == <<model, scores, req, job, covered, edits, emotionRuns, turns>>

Dates == 1..LastDate
Params == 0..MaxEdits
Statuses == {"absent", "draft", "calibrating", "ready", "active", "archived"}
Unscored == [p |-> -1, good |-> FALSE]
NoRequest == [kind |-> "none", m |-> {}, seen |-> "absent", others |-> {}]
NoJob == [at |-> "idle", mode |-> "daily", m |-> {}, seen |-> "absent", p |-> 0,
          left |-> {}, known |-> {}, scored |-> {}]

ModelRow == [status: Statuses, p: Params, complete: BOOLEAN]
RequestRow == [kind: {"none", "edit", "calibrate", "activate", "publish"},
               m: SUBSET Models, seen: Statuses, others: SUBSET Models]
JobRow == [at: {"idle", "resolved", "load", "score", "checkpoint", "end"},
           mode: {"daily", "baseline"}, m: SUBSET Models, seen: Statuses, p: Params,
           left: SUBSET Dates, known: SUBSET Dates, scored: SUBSET Dates]

EmotionTypeOK ==
  /\ model \in [Models -> ModelRow]
  /\ scores \in [Models -> [Dates -> [p: Params \cup {-1}, good: BOOLEAN]]]
  /\ req \in [Users -> RequestRow] /\ job \in JobRow
  /\ covered \subseteq Dates
  /\ edits \in Params /\ emotionRuns \in 0..MaxEmotionRuns /\ turns \in 0..MaxTurns

EmotionInit ==
  /\ model = [m \in Models |-> [status |-> "absent", p |-> 0, complete |-> FALSE]]
  /\ scores = [m \in Models |-> [d \in Dates |-> Unscored]]
  /\ req = [u \in Users |-> NoRequest] /\ job = NoJob /\ covered = Dates
  /\ edits = 0 /\ emotionRuns = 0 /\ turns = 0

-----------------------------------------------------------------------------
(* Requests                                                                *)

\* create_draft: the parameters of the model it clones, or the defaults.
CreateDraft(m, p) ==
  /\ model[m].status = "absent"
  /\ p \in {0} \cup {model[s].p : s \in Models}
  /\ model' = [model EXCEPT ![m] = [status |-> "draft", p |-> p, complete |-> FALSE]]
  /\ UNCHANGED <<scores, req, job, covered, edits, emotionRuns, turns>>

\* (mutant) a model in use may be calibrated again
AllowsActive(kind, m) ==
  \/ kind = "edit" /\ model[m].status = "draft"
  \/ kind = "calibrate" /\ model[m].status \in {"draft", "calibrating", "ready", "active"}
  \/ kind = "activate" /\ model[m].status = "ready" /\ model[m].complete

Allowed(kind, m) ==
  \/ kind = "edit" /\ model[m].status = "draft"
  \/ kind = "calibrate" /\ model[m].status \in {"draft", "calibrating", "ready"}
  \/ kind = "activate" /\ model[m].status = "ready" /\ model[m].complete

Read(u, kind, m) ==
  /\ req[u].kind = "none" /\ Allowed(kind, m)
  /\ req' = [req EXCEPT ![u] = [kind |-> kind, m |-> {m}, seen |-> model[m].status, others |-> {}]]
  /\ UNCHANGED <<model, scores, job, covered, edits, emotionRuns, turns>>

Asks(u, kind, m) == req[u].kind = kind /\ m \in req[u].m

\* update_draft writes the parameters and no status.
Edit(u, m) ==
  /\ Asks(u, "edit", m) /\ edits < MaxEdits
  /\ edits' = edits + 1 /\ model' = [model EXCEPT ![m].p = edits + 1]
  /\ req' = [req EXCEPT ![u] = NoRequest]
  /\ UNCHANGED <<scores, job, covered, emotionRuns, turns>>

\* The status column after a session that loaded seen assigns new to it.
Assigned(m, seen, new) == IF seen = new THEN model[m].status ELSE new

Calibrate(u, m) ==
  /\ Asks(u, "calibrate", m)
  /\ model' = [model EXCEPT ![m].status = Assigned(m, req[u].seen, "calibrating"),
                            ![m].complete = FALSE]
  /\ req' = [req EXCEPT ![u] = NoRequest]
  /\ UNCHANGED <<scores, job, covered, edits, emotionRuns, turns>>

\* activate_emotion_model first selects the active models ...
SelectActive(u, m) ==
  /\ Asks(u, "activate", m)
  /\ req' = [req EXCEPT ![u].kind = "publish",
                        ![u].others = {o \in Models \ {m} : model[o].status = "active"}]
  /\ UNCHANGED <<model, scores, job, covered, edits, emotionRuns, turns>>

\* ... and then archives them and publishes its own in one commit.
Publish(u, m) ==
  /\ Asks(u, "publish", m)
  /\ model' = [o \in Models |->
       IF o = m THEN [model[o] EXCEPT !.status = "active"]
       ELSE IF o \in req[u].others THEN [model[o] EXCEPT !.status = "archived"] ELSE model[o]]
  /\ req' = [req EXCEPT ![u] = NoRequest]
  /\ UNCHANGED <<scores, job, covered, edits, emotionRuns, turns>>

-----------------------------------------------------------------------------
(* The job: MarketEmotionService.calculate                                 *)

Resolves(mode, m) ==
  model[m].status \in (IF mode = "daily" THEN {"active"} ELSE {"draft", "calibrating", "ready"})

\* _target_dates: the range an operator gives, of any length and age, or else the
\* last day in a daily run and the last baseline_trade_days in a baseline; either is one
\* of the ranges.
Resolve(mode, m, first, last) ==
  /\ job.at = "idle" /\ emotionRuns < MaxEmotionRuns /\ Resolves(mode, m)
  /\ emotionRuns' = emotionRuns + 1
  /\ job' = [at |-> IF mode = "daily" THEN "load" ELSE "resolved", mode |-> mode, m |-> {m},
             seen |-> model[m].status, p |-> model[m].p, left |-> first..last,
             known |-> {}, scored |-> {}]
  /\ UNCHANGED <<model, scores, req, covered, edits, turns>>

\* _set_baseline_progress
Progress(m) ==
  model' = [model EXCEPT ![m].status = Assigned(m, job.seen, "calibrating"),
                         ![m].complete = FALSE]

BeginBaseline(m) ==
  /\ job.at = "resolved" /\ m \in job.m
  /\ Progress(m) /\ job' = [job EXCEPT !.at = "load", !.seen = "calibrating"]
  /\ UNCHANGED <<scores, req, covered, edits, emotionRuns, turns>>

LoadInputs ==
  /\ job.at = "load" /\ job' = [job EXCEPT !.at = "score", !.known = covered]
  /\ UNCHANGED <<model, scores, req, covered, edits, emotionRuns, turns>>

Batch == {d \in job.left : Cardinality({e \in job.left : e <= d}) <= EmotionBatch}

\* A batch of days is scored, oldest first, and committed.
SaveBatch(m) ==
  /\ job.at = "score" /\ m \in job.m
  /\ scores' = [scores EXCEPT ![m] = [d \in Dates |->
       IF d \in Batch THEN [p |-> job.p, good |-> d \in job.known] ELSE scores[m][d]]]
  /\ job' = [job EXCEPT !.at = "checkpoint", !.left = @ \ Batch, !.scored = @ \cup Batch]
  /\ UNCHANGED <<model, req, covered, edits, emotionRuns, turns>>

\* _checkpoint_progress
Checkpoint(m) ==
  /\ job.at = "checkpoint" /\ m \in job.m
  /\ IF job.mode = "baseline" THEN Progress(m) ELSE UNCHANGED model
  /\ job' = IF job.left # {} THEN [job EXCEPT !.at = "score"]
            ELSE IF job.mode = "baseline" THEN [job EXCEPT !.at = "end"] ELSE NoJob
  /\ UNCHANGED <<scores, req, covered, edits, emotionRuns, turns>>

\* (mutant) days that were processed count, usable or not
CountsProcessed == Cardinality(job.scored) >= BaselineDays

\* _calibration_summary: as many usable days of the run as the baseline asks for,
\* whichever they are.
BaselineComplete == Cardinality(job.scored \cap job.known) >= BaselineDays

EndBaseline(m) ==
  /\ job.at = "end" /\ m \in job.m
  /\ model' = [model EXCEPT
       ![m].status = Assigned(m, job.seen, IF BaselineComplete THEN "ready" ELSE "calibrating"),
       ![m].complete = BaselineComplete]
  /\ job' = NoJob
  /\ UNCHANGED <<scores, req, covered, edits, emotionRuns, turns>>

\* The timeout, a cancellation, an error or a process exit: what was
\* committed stays.
Stop ==
  /\ job.at # "idle" /\ turns < MaxTurns
  /\ turns' = turns + 1 /\ job' = NoJob
  /\ UNCHANGED <<model, scores, req, covered, edits, emotionRuns>>

\* A day loses its completeness (the active universe grew, events were
\* cleared) or a repair completes it.
FactsTurn(d) ==
  /\ turns < MaxTurns /\ turns' = turns + 1
  /\ covered' = IF d \in covered THEN covered \ {d} ELSE covered \cup {d}
  /\ UNCHANGED <<model, scores, req, job, edits, emotionRuns>>

EmotionNext ==
  \/ \E m \in Models :
       \/ \E p \in Params : CreateDraft(m, p)
       \/ \E u \in Users :
            \/ \E kind \in {"edit", "calibrate", "activate"} : Read(u, kind, m)
            \/ Edit(u, m) \/ Calibrate(u, m) \/ SelectActive(u, m) \/ Publish(u, m)
       \/ \E mode \in {"daily", "baseline"}, first \in Dates, last \in Dates :
            first <= last /\ Resolve(mode, m, first, last)
       \/ BeginBaseline(m) \/ SaveBatch(m) \/ Checkpoint(m) \/ EndBaseline(m)
  \/ LoadInputs \/ Stop \/ \E d \in Dates : FactsTurn(d)

EmotionSpec == EmotionInit /\ [][EmotionNext]_emotionVars

-----------------------------------------------------------------------------
\* A ready model, the only kind an administrator may activate, has as many usable
\* rows as its baseline asks for, all computed with the parameters of one run,
\* whatever runs were stopped part way, repeated or given another range
\* (calculate, _set_baseline_progress, _calibration_summary).
Usable(m, p) == {d \in Dates : scores[m][d] = [p |-> p, good |-> TRUE]}
ReadyIsCalibrated ==
  \A m \in Models : model[m].status = "ready" =>
    \E p \in Params : Cardinality(Usable(m, p)) >= BaselineDays

\* Not kept: what makes a model ready are the last baseline_trade_days, the days a run
\* without a range scores.
ReadyOnLatest ==
  \A m \in Models : model[m].status = "ready" =>
    \E p \in Params : {d \in Dates : d > LastDate - BaselineDays} \subseteq Usable(m, p)

Active == {m \in Models : model[m].status = "active"}

\* An actor steps on a model whose status is no longer the one it read.
OnStale ==
  \/ \E u \in Users : req[u].kind # "none" /\ req'[u].kind = "none"
       /\ \E m \in req[u].m : model[m].status # req[u].seen
  \/ job' # job /\ \E m \in job.m : model[m].status # job.seen

\* Once a model is active the daily run always finds an active model, unless
\* a calibration and an activation of one model overlap and the later commit
\* works from a stale read (activate, start_calibration, calculate).
UnseatsOnStale == Active # {} /\ Active' = {} => OnStale
NeverUnseated == [][UnseatsOnStale]_emotionVars

\* As docs/wiki/30-模块地图/市场洞察模块.md:57 has it ("失败后可从已持久化日期续跑",
\* after a failure the run resumes from the persisted dates): a baseline run
\* never scores again a day that is stored with its own parameters.
ScoresMissingDays ==
  job.mode = "baseline" =>
    \A m \in job.m, d \in job'.scored \ job.scored :
      scores[m][d] # [p |-> job.p, good |-> TRUE]
ResumesAfterFailure == [][ScoresMissingDays]_emotionVars
=============================================================================
