---------------------------- MODULE ModelTraining ----------------------------
(***************************************************************************)
(* The row of one model, the trainings that write to it and the signal     *)
(* generations that read it.  A training of the API or of a background     *)
(* task ends with the row; a training of the backtest agent knows its      *)
(* strategy and is tracked: an MLflow run, an Experiment row, and the      *)
(* run's id on the model's row.  Every training and generation has a       *)
(* session, and so a view of the row, of its own; an UPDATE writes the     *)
(* columns that differ from the view.                                      *)
(*                                                                         *)
(* The metrics of a training are a function of its parameters and data.    *)
(* An artifact is named for the training that uploaded it, as its key (a   *)
(* new uuid) is used once; so is its MLflow run.  A training or generation *)
(* runs once; its failures are those of storage, of the database, of       *)
(* MLflow and of the data it asks for.                                     *)
(***************************************************************************)
EXTENDS Integers

CONSTANTS
    Trainings,      \* calls of ModelTrainer.train
    Tracked,        \* those with a strategy
    Generations,    \* POST /signals/generate, its task, and the signals of a backtest
    Params,         \* model parameters
    Data,           \* data sets a training may be given
    None            \* no artifact, run, metrics or answer

ASSUME TrainingAssumption ==
    /\ Tracked \subseteq Trainings
    /\ None \notin Trainings \cup Params
    /\ None \notin [params : Params, data : Data]

VARIABLES
    model,          \* the row, or Gone
    training,       \* training -> where it is, its data and its view of the row
    artifacts,      \* the trainings whose artifact is stored
    runs,           \* training -> its MLflow run
    experiments,    \* training -> its Experiment row
    generation,     \* generation -> where it is, its view of the row and its answer
    logic,          \* whether the SignalLogic row is there
    patched         \* trainings during or after which the parameters were changed

vars == <<model, training, artifacts, runs, experiments, generation, logic, patched>>

Gone == [parameters |-> None]
Metrics == [params : Params, data : Data] \cup {None}
Rows == [parameters : Params, metrics : Metrics, artifact_uri : Trainings \cup {None},
         mlflow_run_id : Trainings \cup {None}]

PCs == {"idle", "assemble", "fit", "commit", "refresh", "start", "log", "insert", "write",
        "done", "failed"}
TrainingStates == [pc : PCs, data : Data \cup {None}, view : Rows \cup {Gone}]
GenerationStates ==
    [pc : {"idle", "features", "rules", "plugin", "done", "failed"}, view : Rows \cup {Gone},
     answer : [params : Params, artifact : Trainings] \cup {None}]

There == model # Gone

At(t, pc) == training[t].pc = pc
Goto(t, pc) == training' = [training EXCEPT ![t].pc = pc]

\* What training t's model was trained with.
TrainedWith(t) == [params |-> training[t].view.parameters, data |-> training[t].data]

-----------------------------------------------------------------------------
(***************************************************************************)
(* ModelTrainer.train and its callers                                      *)
(***************************************************************************)

\* repo.get, or the select of the backtest agent, whose session keeps no row that nobody
\* refers to any more and so has a fresh view too.
Begin(t) ==
    /\ At(t, "idle") /\ There
    /\ training' = [training EXCEPT ![t].pc = "assemble", ![t].view = model]
    /\ UNCHANGED <<model, artifacts, runs, experiments, generation, logic, patched>>

Assemble(t) ==
    /\ At(t, "assemble")
    /\ \E d \in Data :
          training' = [training EXCEPT ![t].pc = "fit", ![t].data = d]
    /\ UNCHANGED <<model, artifacts, runs, experiments, generation, logic, patched>>

\* evaluate_with_cv, the final fit and the upload.
Fit(t) ==
    /\ At(t, "fit")
    /\ artifacts' = artifacts \cup {t}
    /\ Goto(t, "commit")
    /\ UNCHANGED <<model, runs, experiments, generation, logic, patched>>

\* The UPDATE names the metrics only if they differ from those in the view; the key of the
\* artifact is new.
Commit(t) ==
    /\ At(t, "commit") /\ There
    /\ model' = [model EXCEPT
                    !.metrics = IF TrainedWith(t) = training[t].view.metrics
                                THEN model.metrics ELSE TrainedWith(t),
                    !.artifact_uri = t]
    /\ Goto(t, "refresh")
    /\ UNCHANGED <<artifacts, runs, experiments, generation, logic, patched>>

Refresh(t) ==
    /\ At(t, "refresh") /\ There
    /\ Goto(t, IF t \in Tracked THEN "start" ELSE "done")
    /\ UNCHANGED <<model, artifacts, runs, experiments, generation, logic, patched>>

\* The row is gone (404, ValueError, StaleDataError or a failed refresh), or a call fails.
Fail(t) ==
    /\ \/ ~There /\ \E pc \in {"idle", "commit", "refresh", "write"} : At(t, pc)
       \/ \E pc \in {"assemble", "fit", "commit", "start", "insert", "write"} : At(t, pc)
    /\ Goto(t, "failed")
    /\ UNCHANGED <<model, artifacts, runs, experiments, generation, logic, patched>>

-----------------------------------------------------------------------------
(***************************************************************************)
(* ExperimentTracker.log_training_run                                      *)
(***************************************************************************)

\* mlflow_run: the run begins.
StartRun(t) ==
    /\ At(t, "start")
    /\ runs' = [runs EXCEPT ![t] = "running"]
    /\ Goto(t, "log")
    /\ UNCHANGED <<model, artifacts, experiments, generation, logic, patched>>

\* Mutant: the Experiment row is inserted inside the run, before it ends.
LogInserts(t) ==
    /\ At(t, "log")
    /\ experiments' = [experiments EXCEPT ![t] = "row"]
    /\ Goto(t, "write")
    /\ UNCHANGED <<model, artifacts, runs, generation, logic, patched>>

\* Parameters, metrics and the artifact are logged and the run ends.
LogRun(t) ==
    /\ At(t, "log")
    /\ runs' = [runs EXCEPT ![t] = "finished"]
    /\ Goto(t, "insert")
    /\ UNCHANGED <<model, artifacts, experiments, generation, logic, patched>>

\* An exception ends the run as failed.
LogFails(t) ==
    /\ At(t, "log")
    /\ runs' = [runs EXCEPT ![t] = "failed"]
    /\ Goto(t, "failed")
    /\ UNCHANGED <<model, artifacts, experiments, generation, logic, patched>>

InsertExperiment(t) ==
    /\ At(t, "insert")
    /\ experiments' = [experiments EXCEPT ![t] = "row"]
    /\ Goto(t, "write")
    /\ UNCHANGED <<model, artifacts, runs, generation, logic, patched>>

WriteRunId(t) ==
    /\ At(t, "write") /\ There
    /\ model' = [model EXCEPT !.mlflow_run_id = t]
    /\ Goto(t, "done")
    /\ UNCHANGED <<artifacts, runs, experiments, generation, logic, patched>>

-----------------------------------------------------------------------------
(***************************************************************************)
(* Signal generation                                                       *)
(***************************************************************************)

ReadModel(g) ==
    /\ generation[g].pc = "idle" /\ There
    /\ generation' = [generation EXCEPT ![g].pc = "features", ![g].view = model]
    /\ UNCHANGED <<model, training, artifacts, runs, experiments, logic, patched>>

\* Bars and features are fetched and computed.
Features(g) ==
    /\ generation[g].pc = "features"
    /\ \E path \in {"rules", "plugin"} :
          generation' = [generation EXCEPT ![g].pc = path]
    /\ UNCHANGED <<model, training, artifacts, runs, experiments, logic, patched>>

Answer(g, row) ==
    /\ row.artifact_uri \in artifacts
    /\ generation' = [generation EXCEPT ![g].pc = "done",
                        ![g].answer = [params |-> row.parameters, artifact |-> row.artifact_uri]]

\* Mutant: the artifact is the one that the row names by now.
PredictFromRow(g) ==
    /\ \/ generation[g].pc = "rules" /\ logic
       \/ generation[g].pc = "plugin"
    /\ There
    /\ Answer(g, [generation[g].view EXCEPT !.artifact_uri = model.artifact_uri])
    /\ UNCHANGED <<model, training, artifacts, runs, experiments, logic, patched>>

\* generate_from_rule_tree reads the SignalLogic, then either path loads the artifact into
\* a plugin made with the row's parameters.
Predict(g) ==
    /\ \/ generation[g].pc = "rules" /\ logic
       \/ generation[g].pc = "plugin"
    /\ Answer(g, generation[g].view)
    /\ UNCHANGED <<model, training, artifacts, runs, experiments, logic, patched>>

\* 404 or ValueError; no bars; no SignalLogic; a model that was never trained; the store.
GenerationFails(g) ==
    /\ \/ generation[g].pc = "idle" /\ ~There
       \/ generation[g].pc \in {"features", "rules", "plugin"}
    /\ generation' = [generation EXCEPT ![g].pc = "failed"]
    /\ UNCHANGED <<model, training, artifacts, runs, experiments, logic, patched>>

-----------------------------------------------------------------------------
(***************************************************************************)
(* The other requests, and the crash of the process                        *)
(***************************************************************************)

\* PATCH /models/{id}, and the hyperparameter agent.  ModelUpdate has the artifact's, run's
\* and metrics' columns as well; that a client leaves them alone is an assumption.
Patch ==
    /\ There
    /\ \E p \in Params \ {model.parameters} : model' = [model EXCEPT !.parameters = p]
    /\ patched' = {t \in Trainings : ~At(t, "idle")}
    /\ UNCHANGED <<training, artifacts, runs, experiments, generation, logic>>

Delete ==
    /\ There
    /\ model' = Gone
    /\ UNCHANGED <<training, artifacts, runs, experiments, generation, logic, patched>>

DeleteLogic ==
    /\ logic /\ logic' = FALSE
    /\ UNCHANGED <<model, training, artifacts, runs, experiments, generation, patched>>

DeleteExperiment(t) ==
    /\ experiments[t] = "row"
    /\ experiments' = [experiments EXCEPT ![t] = "deleted"]
    /\ UNCHANGED <<model, training, artifacts, runs, generation, logic, patched>>

\* Whatever is under way is lost; a run that was open stays so.
Crash ==
    /\ \E t \in Trainings : training[t].pc \notin {"idle", "done", "failed"}
    /\ training' = [t \in Trainings |->
          IF training[t].pc \in {"idle", "done", "failed"} THEN training[t]
          ELSE [training[t] EXCEPT !.pc = "failed"]]
    /\ generation' = [g \in Generations |->
          IF generation[g].pc \in {"idle", "done", "failed"} THEN generation[g]
          ELSE [generation[g] EXCEPT !.pc = "failed"]]
    /\ UNCHANGED <<model, artifacts, runs, experiments, logic, patched>>

-----------------------------------------------------------------------------
\* POST /models
Init ==
    /\ \E p \in Params :
          model = [parameters |-> p, metrics |-> None, artifact_uri |-> None,
                   mlflow_run_id |-> None]
    /\ training = [t \in Trainings |-> [pc |-> "idle", data |-> None, view |-> Gone]]
    /\ artifacts = {}
    /\ runs = [t \in Trainings |-> "none"]
    /\ experiments = [t \in Trainings |-> "none"]
    /\ generation = [g \in Generations |-> [pc |-> "idle", view |-> Gone, answer |-> None]]
    /\ logic = TRUE
    /\ patched = {}

Step(t) ==
    \/ Begin(t) \/ Assemble(t) \/ Fit(t) \/ Commit(t) \/ Refresh(t) \/ Fail(t)
    \/ StartRun(t) \/ LogRun(t) \/ LogFails(t) \/ InsertExperiment(t) \/ WriteRunId(t)

Generate(g) == ReadModel(g) \/ Features(g) \/ Predict(g) \/ GenerationFails(g)

Next ==
    \/ \E t \in Trainings : Step(t) \/ DeleteExperiment(t)
    \/ \E g \in Generations : Generate(g)
    \/ Patch \/ Delete \/ DeleteLogic \/ Crash

Spec == Init /\ [][Next]_vars

-----------------------------------------------------------------------------
(***************************************************************************)
(* Properties                                                              *)
(***************************************************************************)

\* The kinds of values of the four stores and of what trainings and generations carry.
TypeOK ==
    /\ model \in Rows \cup {Gone}
    /\ training \in [Trainings -> TrainingStates]
    /\ artifacts \subseteq Trainings
    /\ runs \in [Trainings -> {"none", "running", "finished", "failed"}]
    /\ experiments \in [Trainings -> {"none", "row", "deleted"}]
    /\ generation \in [Generations -> GenerationStates]
    /\ logic \in BOOLEAN
    /\ patched \subseteq Trainings

\* What is recorded of a training was done before, whatever failed or crashed since: the
\* artifact that the row names is stored, the run that the row names has its Experiment
\* (unless a user deleted it), an Experiment has a run that ended well, and a run has an
\* artifact.  (the order of the writes to four stores in train and log_training_run)
LineageBackwards ==
    /\ There => /\ model.artifact_uri # None => model.artifact_uri \in artifacts
                /\ model.mlflow_run_id # None => experiments[model.mlflow_run_id] # "none"
    /\ \A t \in Trainings : /\ experiments[t] # "none" => runs[t] = "finished"
                            /\ runs[t] # "none" => t \in artifacts

\* Signals are made with the parameters that their artifact was trained with, unless the
\* parameters were changed since that training read them; what trainings, deletions and
\* crashes do between the two reads of a generation makes no difference.  (_run_model, which
\* puts the artifact into a plugin that it makes with the row's parameters)
SignalsExplained ==
    \A g \in Generations :
       LET a == generation[g].answer
       IN  a # None =>
              a.artifact \in patched \/ TrainedWith(a.artifact).params = a.params
=============================================================================
