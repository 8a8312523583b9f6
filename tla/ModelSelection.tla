--------------------------- MODULE ModelSelection ---------------------------
(***************************************************************************)
(* How the engines choose among candidates: hyperparameter tuning          *)
(* (tuning.py: POST /models/tune and its background task), AutoML          *)
(* (run_automl, tune_candidates) and the sweep over backtest               *)
(* configurations (sweep_tasks.py).                                        *)
(*                                                                         *)
(* A step evaluates one candidate.  What an evaluation yields is a score   *)
(* or a failure; a score is a small number, and NoScore, which is below    *)
(* every score, is what a sweep gives a run without the metric.            *)
(***************************************************************************)
EXTENDS Integers, Sequences, FiniteSets

CONSTANTS
    Selections,    \* [kind, metric, direction, candidates, trials]
    Scores         \* what an evaluation may yield

Kinds == {"tune", "tune_async", "automl", "tune_candidates", "sweep"}
NoScore == -1

ASSUME SelectionAssumption ==
    /\ Selections \subseteq [kind : Kinds, metric : {"error", "accuracy"},
                             direction : {"minimize", "maximize"},
                             candidates : Nat, trials : Nat \ {0}]
    /\ Scores \subseteq Nat

VARIABLES
    task,         \* the request
    progress,     \* "running", "done" or "failed"
    study,        \* scores of the trials of the candidate that is tuned now
    results,      \* a record per candidate, in the order they were evaluated
    leaderboard   \* the candidates' numbers, best first

selectionVars == <<task, progress, study, results, leaderboard>>

Running == progress = "running" /\ Len(results) < task.candidates
Candidate == Len(results) + 1
Result(score, status) == [score |-> score, status |-> status]

-----------------------------------------------------------------------------
(***************************************************************************)
(* tune_hyperparameters: an Optuna study of so many trials.  Only POST     *)
(* /models/tune hands the direction on; the background task and            *)
(* tune_candidates leave it at "minimize".                                 *)
(***************************************************************************)

Tuned == task.kind \in {"tune", "tune_async", "tune_candidates"}
Direction == IF task.kind = "tune" THEN task.direction ELSE "minimize"

\* study.best_value
BestOf(scores, direction) ==
    CHOOSE s \in scores : \A t \in scores : IF direction = "minimize" THEN s <= t ELSE s >= t

Trial ==
    /\ Running /\ Tuned /\ Len(study) < task.trials
    /\ \E s \in Scores : study' = Append(study, s)
    /\ UNCHANGED <<task, progress, results, leaderboard>>

CloseStudy ==
    /\ Running /\ Tuned /\ Len(study) = task.trials
    /\ results' = Append(results, Result(BestOf({study[i] : i \in DOMAIN study}, Direction), "tuned"))
    /\ study' = <<>>
    /\ UNCHANGED <<task, progress, leaderboard>>

\* run_automl evaluates a candidate with the parameters it comes with.
Evaluate ==
    /\ Running /\ task.kind = "automl"
    /\ \E s \in Scores : results' = Append(results, Result(s, "evaluated"))
    /\ UNCHANGED <<task, progress, study, leaderboard>>

\* An exception of the evaluation ends the request, and what was evaluated is lost.  In a
\* sweep that is so only for what comes before the run of the backtest (BacktestCreate and
\* the insert of its row).
Abort ==
    /\ Running
    /\ progress' = "failed"
    /\ UNCHANGED <<task, study, results, leaderboard>>

-----------------------------------------------------------------------------
(***************************************************************************)
(* parameter_sweep_task: a row and a run of BacktestPipeline per override. *)
(***************************************************************************)

RunBacktest ==
    /\ Running /\ task.kind = "sweep"
    /\ \E s \in Scores \cup {NoScore} : results' = Append(results, Result(s, "completed"))
    /\ UNCHANGED <<task, progress, study, leaderboard>>

\* Mutant: a run that failed is given no place below all others.
BacktestFailsWithZero ==
    /\ Running /\ task.kind = "sweep"
    /\ results' = Append(results, Result(0, "failed"))
    /\ UNCHANGED <<task, progress, study, leaderboard>>

BacktestFails ==
    /\ Running /\ task.kind = "sweep"
    /\ results' = Append(results, Result(NoScore, "failed"))
    /\ UNCHANGED <<task, progress, study, leaderboard>>

-----------------------------------------------------------------------------
\* list.sort is stable, with reverse=True as well.  Lower is better except for accuracy;
\* a sweep takes higher for better whatever the metric is.
HigherIsBetter == task.kind = "sweep" \/ task.metric = "accuracy"

Precedes(i, j) ==
    LET a == results[i].score
        b == results[j].score
    IN  \/ IF HigherIsBetter THEN a > b ELSE a < b
        \/ a = b /\ i < j

\* A candidate's place comes after those of the candidates that precede it.
Place(i) == Cardinality({j \in DOMAIN results : Precedes(j, i)}) + 1

Ranked == [p \in DOMAIN results |-> CHOOSE i \in DOMAIN results : Place(i) = p]

Sort ==
    /\ progress = "running" /\ Len(results) = task.candidates
    /\ leaderboard' = Ranked
    /\ progress' = "done"
    /\ UNCHANGED <<task, study, results>>

SelectionInit ==
    /\ task \in Selections
    /\ progress = "running"
    /\ study = <<>> /\ results = <<>> /\ leaderboard = <<>>

SelectionNext ==
    Trial \/ CloseStudy \/ Evaluate \/ Abort \/ RunBacktest \/ BacktestFails \/ Sort

SelectionSpec == SelectionInit /\ [][SelectionNext]_selectionVars

-----------------------------------------------------------------------------
(***************************************************************************)
(* Properties                                                              *)
(***************************************************************************)

\* A finished selection has lost no candidate and names none twice, its first candidate is
\* one of the best in the sense of the metric, and no run of a sweep that failed stands
\* before one that has a score.  (the sorts of run_automl, tune_candidates and
\* parameter_sweep_task, whose failures get minus infinity)
BestFirst ==
    progress = "done" =>
       /\ {leaderboard[p] : p \in DOMAIN leaderboard} = 1 .. task.candidates
       /\ Len(leaderboard) = task.candidates
       /\ \A p \in DOMAIN leaderboard, q \in DOMAIN leaderboard :
             p < q => LET better == results[leaderboard[p]]
                          other == results[leaderboard[q]]
                      IN  /\ task.kind # "sweep" /\ task.metric = "error" =>
                                better.score <= other.score
                          /\ task.kind = "sweep" \/ task.metric = "accuracy" =>
                                better.score >= other.score
                          /\ better.status = "failed" => other.score = NoScore
=============================================================================
