------------------------- MODULE ModelTrainingProofs -------------------------
(***************************************************************************)
(* What holds of a model's row for any number of trainings and             *)
(* generations: the types, with PhaseInv, which says what a training or    *)
(* generation carries where it is; LineageInv, which says what it has done *)
(* before; ParamsInv, which follows the parameters from the row into the   *)
(* views.                                                                  *)
(***************************************************************************)
EXTENDS ModelTraining, TLAPS

PhaseInv ==
    /\ \A t \in Trainings :
        /\ training[t].pc \notin {"idle", "failed"} => training[t].view \in Rows
        /\ training[t].pc \in {"fit", "commit"} => training[t].data \in Data
    /\ \A g \in Generations :
        generation[g].pc \in {"features", "rules", "plugin"} => generation[g].view \in Rows

\* How far a training has come with its artifact, its run and its Experiment.
LineageInv ==
    /\ LineageBackwards
    /\ \A t \in Trainings :
        /\ training[t].pc \in {"commit", "refresh", "start", "log"} => t \in artifacts
        /\ training[t].pc = "insert" => runs[t] = "finished"
        /\ training[t].pc = "write" => experiments[t] # "none"
        /\ training[t].pc \in {"idle", "assemble", "fit", "commit", "refresh", "start", "log"} =>
              experiments[t] = "none"

\* What is known of artifact t to somebody who has parameters p with it.
Explains(t, p) ==
    /\ training[t].pc # "idle"
    /\ t \in patched \/ training[t].view.parameters = p

\* The row's parameters are those of every training since the last change of them.
RowInv ==
    There => /\ \A t \in Trainings : training[t].pc # "idle" => Explains(t, model.parameters)
             /\ model.artifact_uri # None => Explains(model.artifact_uri, model.parameters)

\* A generation's view agrees with its own artifact.
GenerationInv ==
    \A g \in Generations :
        /\ generation[g].view \in Rows /\ generation[g].view.artifact_uri # None =>
              Explains(generation[g].view.artifact_uri, generation[g].view.parameters)
        /\ generation[g].answer # None =>
              Explains(generation[g].answer.artifact, generation[g].answer.params)

ParamsInv ==
    /\ \A t \in patched : training[t].pc # "idle"
    /\ RowInv
    /\ GenerationInv

-----------------------------------------------------------------------------
\* A row is there.
LEMMA RowsAreThere ==
    ASSUME NEW row \in Rows
    PROVE  row # Gone /\ row.parameters \in Params /\ row.metrics \in Metrics
           /\ row.artifact_uri \in Trainings \cup {None}
           /\ row.mlflow_run_id \in Trainings \cup {None}
BY TrainingAssumption DEF Rows, Gone

\* A training goes on, and carries what it did.
LEMMA GotoMoves ==
    ASSUME TypeOK, NEW t \in Trainings, NEW pc \in PCs, Goto(t, pc)
    PROVE  /\ training' \in [Trainings -> TrainingStates]
           /\ training'[t].pc = pc
           /\ \A u \in Trainings : /\ u # t => training'[u] = training[u]
                                   /\ training'[u].data = training[u].data
                                   /\ training'[u].view = training[u].view
<1>1. training' = [training EXCEPT ![t] = [@ EXCEPT !.pc = pc]]
  BY DEF Goto
<1>2. /\ [training[t] EXCEPT !.pc = pc] \in TrainingStates
      /\ [training[t] EXCEPT !.pc = pc].pc = pc
      /\ [training[t] EXCEPT !.pc = pc].data = training[t].data
      /\ [training[t] EXCEPT !.pc = pc].view = training[t].view
  BY DEF TypeOK, TrainingStates
<1> QED BY <1>1, <1>2 DEF TypeOK

\* A crash ends trainings and generations and takes nothing from them.
LEMMA CrashMoves ==
    ASSUME TypeOK, Crash
    PROVE  /\ training' \in [Trainings -> TrainingStates]
           /\ \A u \in Trainings : /\ training'[u].pc \in {training[u].pc, "failed"}
                                   /\ training[u].pc = "idle" <=> training'[u].pc = "idle"
                                   /\ training'[u].data = training[u].data
                                   /\ training'[u].view = training[u].view
           /\ generation' \in [Generations -> GenerationStates]
           /\ \A g \in Generations : /\ generation'[g].pc \in {generation[g].pc, "failed"}
                                     /\ generation'[g].view = generation[g].view
                                     /\ generation'[g].answer = generation[g].answer
<1>1. \A s \in TrainingStates :
         /\ [s EXCEPT !.pc = "failed"] \in TrainingStates
         /\ [s EXCEPT !.pc = "failed"].pc = "failed"
         /\ [s EXCEPT !.pc = "failed"].data = s.data
         /\ [s EXCEPT !.pc = "failed"].view = s.view
  BY DEF TrainingStates, PCs
<1>2. \A s \in GenerationStates :
         /\ [s EXCEPT !.pc = "failed"] \in GenerationStates
         /\ [s EXCEPT !.pc = "failed"].pc = "failed"
         /\ [s EXCEPT !.pc = "failed"].view = s.view
         /\ [s EXCEPT !.pc = "failed"].answer = s.answer
  BY DEF GenerationStates
<1>3. /\ training' \in [Trainings -> TrainingStates]
      /\ \A u \in Trainings : training'[u] \in {training[u], [training[u] EXCEPT !.pc = "failed"]}
      /\ \A u \in Trainings : training[u].pc = "idle" => training'[u] = training[u]
  BY <1>1 DEF Crash, TypeOK
<1>4. /\ generation' \in [Generations -> GenerationStates]
      /\ \A g \in Generations :
            generation'[g] \in {generation[g], [generation[g] EXCEPT !.pc = "failed"]}
  BY <1>2 DEF Crash, TypeOK
<1>5. \A u \in Trainings : /\ training'[u].pc \in {training[u].pc, "failed"}
                           /\ training[u].pc = "idle" <=> training'[u].pc = "idle"
                           /\ training'[u].data = training[u].data
                           /\ training'[u].view = training[u].view
  <2> SUFFICES ASSUME NEW u \in Trainings
               PROVE  /\ training'[u].pc \in {training[u].pc, "failed"}
                      /\ training[u].pc = "idle" <=> training'[u].pc = "idle"
                      /\ training'[u].data = training[u].data
                      /\ training'[u].view = training[u].view
    OBVIOUS
  <2>1. training[u] \in TrainingStates
    BY DEF TypeOK
  <2> QED BY <1>1, <1>3, <2>1
<1>6. \A g \in Generations : /\ generation'[g].pc \in {generation[g].pc, "failed"}
                             /\ generation'[g].view = generation[g].view
                             /\ generation'[g].answer = generation[g].answer
  <2> SUFFICES ASSUME NEW g \in Generations
               PROVE  /\ generation'[g].pc \in {generation[g].pc, "failed"}
                      /\ generation'[g].view = generation[g].view
                      /\ generation'[g].answer = generation[g].answer
    OBVIOUS
  <2>1. generation[g] \in GenerationStates
    BY DEF TypeOK
  <2> QED BY <1>2, <1>4, <2>1
<1> QED BY <1>3, <1>4, <1>5, <1>6

\* Every step keeps the types and PhaseInv.
LEMMA TypeOKStep ==
    ASSUME TypeOK, PhaseInv, [Next]_vars
    PROVE  TypeOK' /\ PhaseInv'
<1> USE TrainingAssumption
<1>0. There => model \in Rows
  BY DEF TypeOK, There
<1>1. ASSUME NEW t \in Trainings, Begin(t)
      PROVE  TypeOK' /\ PhaseInv'
  <2>1. model \in Rows
    BY <1>0, <1>1 DEF Begin
  <2>2. training' = [training EXCEPT ![t] = [@ EXCEPT !.pc = "assemble", !.view = model]]
    BY <1>1 DEF Begin
  <2>3. [training[t] EXCEPT !.pc = "assemble", !.view = model] \in TrainingStates
    BY <2>1 DEF TypeOK, TrainingStates, PCs
  <2>4. training' \in [Trainings -> TrainingStates]
    BY <2>2, <2>3 DEF TypeOK
  <2>5. /\ training'[t].pc = "assemble" /\ training'[t].view = model
        /\ \A u \in Trainings : u # t => training'[u] = training[u]
    BY <2>2 DEF TypeOK, TrainingStates
  <2> QED BY <1>1, <2>1, <2>4, <2>5 DEF Begin, TypeOK, PhaseInv
<1>2. ASSUME NEW t \in Trainings, Assemble(t)
      PROVE  TypeOK' /\ PhaseInv'
  <2>1. PICK d \in Data :
           training' = [training EXCEPT ![t] = [@ EXCEPT !.pc = "fit", !.data = d]]
    BY <1>2 DEF Assemble
  <2>2. [training[t] EXCEPT !.pc = "fit", !.data = d] \in TrainingStates
    BY DEF TypeOK, TrainingStates, PCs
  <2>3. training' \in [Trainings -> TrainingStates]
    BY <2>1, <2>2 DEF TypeOK
  <2>4. /\ training'[t].data = d /\ training'[t].view = training[t].view
        /\ \A u \in Trainings : u # t => training'[u] = training[u]
    BY <2>1 DEF TypeOK, TrainingStates
  <2>5. training[t].view \in Rows
    BY <1>2 DEF Assemble, At, PhaseInv
  <2> QED BY <1>2, <2>3, <2>4, <2>5 DEF Assemble, TypeOK, PhaseInv
<1>3. ASSUME NEW t \in Trainings, Fit(t)
      PROVE  TypeOK' /\ PhaseInv'
  BY <1>3, GotoMoves DEF Fit, At, PCs, TypeOK, PhaseInv
<1>4. ASSUME NEW t \in Trainings, Commit(t)
      PROVE  TypeOK' /\ PhaseInv'
  <2>1. training[t].view.parameters \in Params /\ training[t].data \in Data
    BY <1>4, RowsAreThere DEF Commit, At, PhaseInv
  <2>2. TrainedWith(t) \in Metrics
    BY <2>1 DEF TrainedWith, Metrics
  <2>3. model' \in Rows
    BY <1>0, <1>4, <2>2 DEF Commit, Rows
  <2> QED BY <1>4, <2>3, GotoMoves DEF Commit, At, PCs, TypeOK, PhaseInv
<1>5. ASSUME NEW t \in Trainings, Refresh(t)
      PROVE  TypeOK' /\ PhaseInv'
  <2>1. \E pc \in {"start", "done"} : Goto(t, pc)
    BY <1>5 DEF Refresh
  <2> QED BY <1>5, <2>1, GotoMoves DEF Refresh, At, PCs, TypeOK, PhaseInv
<1>6. ASSUME NEW t \in Trainings, Fail(t)
      PROVE  TypeOK' /\ PhaseInv'
  BY <1>6, GotoMoves DEF Fail, PCs, TypeOK, PhaseInv
<1>7. ASSUME NEW t \in Trainings, StartRun(t) \/ LogRun(t) \/ LogFails(t) \/ InsertExperiment(t)
      PROVE  TypeOK' /\ PhaseInv'
  <2>1. \E pc \in {"log", "insert", "failed", "write"} : Goto(t, pc) /\ training[t].view \in Rows
    BY <1>7 DEF StartRun, LogRun, LogFails, InsertExperiment, At, PhaseInv
  <2>2. training' \in [Trainings -> TrainingStates] /\ PhaseInv'
    BY <1>7, <2>1, GotoMoves DEF StartRun, LogRun, LogFails, InsertExperiment, PCs, PhaseInv
  <2> QED BY <1>7, <2>2 DEF StartRun, LogRun, LogFails, InsertExperiment, TypeOK
<1>8. ASSUME NEW t \in Trainings, WriteRunId(t)
      PROVE  TypeOK' /\ PhaseInv'
  <2>1. model' \in Rows
    BY <1>0, <1>8 DEF WriteRunId, Rows
  <2> QED BY <1>8, <2>1, GotoMoves DEF WriteRunId, At, PCs, TypeOK, PhaseInv
<1>9. ASSUME NEW g \in Generations, ReadModel(g) \/ Features(g) \/ GenerationFails(g)
      PROVE  TypeOK' /\ PhaseInv'
  <2>1. CASE ReadModel(g)
    <3>1. [generation[g] EXCEPT !.pc = "features", !.view = model] \in GenerationStates
      BY <1>0, <2>1 DEF ReadModel, TypeOK, GenerationStates
    <3>2. generation' = [generation EXCEPT ![g] = [@ EXCEPT !.pc = "features", !.view = model]]
      BY <2>1 DEF ReadModel
    <3>3. /\ generation' \in [Generations -> GenerationStates]
          /\ generation'[g].view = model
          /\ \A h \in Generations : h # g => generation'[h] = generation[h]
      BY <3>1, <3>2 DEF TypeOK, GenerationStates
    <3> QED BY <1>0, <2>1, <3>3 DEF ReadModel, TypeOK, PhaseInv
  <2>2. CASE Features(g) \/ GenerationFails(g)
    <3>1. PICK pc \in {"rules", "plugin", "failed"} :
             /\ generation' = [generation EXCEPT ![g] = [@ EXCEPT !.pc = pc]]
             /\ pc # "failed" => generation[g].view \in Rows
      BY <2>2 DEF Features, GenerationFails, PhaseInv
    <3>2. [generation[g] EXCEPT !.pc = pc] \in GenerationStates
      BY DEF TypeOK, GenerationStates
    <3>3. /\ generation' \in [Generations -> GenerationStates]
          /\ generation'[g].pc = pc /\ generation'[g].view = generation[g].view
          /\ \A h \in Generations : h # g => generation'[h] = generation[h]
      BY <3>1, <3>2 DEF TypeOK, GenerationStates
    <3> QED BY <2>2, <3>1, <3>3 DEF Features, GenerationFails, TypeOK, PhaseInv
  <2> QED BY <1>9, <2>1, <2>2
<1>10. ASSUME NEW g \in Generations, Predict(g)
       PROVE  TypeOK' /\ PhaseInv'
  <2>1. generation[g].view.parameters \in Params /\ generation[g].view.artifact_uri \in Trainings
    BY <1>10, RowsAreThere DEF Predict, Answer, TypeOK, PhaseInv
  <2> DEFINE a == [params |-> generation[g].view.parameters,
                   artifact |-> generation[g].view.artifact_uri]
  <2>2. generation' = [generation EXCEPT ![g] = [@ EXCEPT !.pc = "done", !.answer = a]]
    BY <1>10 DEF Predict, Answer
  <2>3. [generation[g] EXCEPT !.pc = "done", !.answer = a] \in GenerationStates
    BY <2>1 DEF TypeOK, GenerationStates
  <2>4. /\ generation' \in [Generations -> GenerationStates]
        /\ generation'[g].pc = "done"
        /\ \A h \in Generations : h # g => generation'[h] = generation[h]
    BY <2>2, <2>3 DEF TypeOK, GenerationStates
  <2> QED BY <1>10, <2>4 DEF Predict, TypeOK, PhaseInv
<1>11. ASSUME Patch
       PROVE  TypeOK' /\ PhaseInv'
  <2>1. model' \in Rows
    BY <1>0, <1>11 DEF Patch, Rows
  <2> QED BY <1>11, <2>1 DEF Patch, TypeOK, PhaseInv
<1>12. ASSUME Delete \/ DeleteLogic \/ \E t \in Trainings : DeleteExperiment(t)
       PROVE  TypeOK' /\ PhaseInv'
  BY <1>12 DEF Delete, DeleteLogic, DeleteExperiment, TypeOK, PhaseInv
<1>13. ASSUME Crash
       PROVE  TypeOK' /\ PhaseInv'
  <2>1. TypeOK'
    BY <1>13, CrashMoves DEF Crash, TypeOK
  <2> QED BY <1>13, <2>1, CrashMoves DEF PhaseInv
<1>14. CASE UNCHANGED vars
  BY <1>14 DEF vars, TypeOK, PhaseInv
<1> QED
  BY <1>1, <1>2, <1>3, <1>4, <1>5, <1>6, <1>7, <1>8, <1>9, <1>10, <1>11, <1>12, <1>13, <1>14
     DEF Next, Step, Generate

\* Model, artifacts, runs and Experiments have only the values the code writes to them.
THEOREM TrainingTypes == Spec => [](TypeOK /\ PhaseInv)
<1>1. Init => TypeOK /\ PhaseInv
  BY TrainingAssumption DEF Init, TypeOK, PhaseInv, Rows, Metrics, TrainingStates, PCs,
                            GenerationStates
<1> QED BY <1>1, TypeOKStep, PTL DEF Spec

-----------------------------------------------------------------------------
\* Every step keeps the lineage.
LEMMA LineageStep ==
    ASSUME TypeOK, PhaseInv, LineageInv, [Next]_vars
    PROVE  LineageInv'
<1> USE TrainingAssumption
<1>0. There => model \in Rows
  BY DEF TypeOK, There
<1>1. ASSUME NEW t \in Trainings, Begin(t) \/ Assemble(t) \/ Refresh(t) \/ Fail(t)
      PROVE  LineageInv'
  BY <1>1 DEF Begin, Assemble, Refresh, Fail, At, Goto, TypeOK, TrainingStates, LineageInv,
              LineageBackwards, There
<1>2. ASSUME NEW t \in Trainings, Fit(t)
      PROVE  LineageInv'
  BY <1>2, GotoMoves DEF Fit, At, PCs, LineageInv, LineageBackwards, There
<1>3. ASSUME NEW t \in Trainings, Commit(t)
      PROVE  LineageInv'
  <2>1. model'.artifact_uri = t /\ model'.mlflow_run_id = model.mlflow_run_id
    BY <1>0, <1>3 DEF Commit, Rows
  <2> QED BY <1>3, <2>1 DEF Commit, At, Goto, TypeOK, TrainingStates, LineageInv, LineageBackwards, There
<1>4. ASSUME NEW t \in Trainings, StartRun(t) \/ LogRun(t) \/ LogFails(t) \/ InsertExperiment(t)
      PROVE  LineageInv'
  <2>1. CASE StartRun(t)
    BY <2>1, GotoMoves DEF StartRun, At, PCs, TypeOK, LineageInv, LineageBackwards, There
  <2>2. CASE LogRun(t)
    BY <2>2, GotoMoves DEF LogRun, At, PCs, TypeOK, LineageInv, LineageBackwards, There
  <2>3. CASE LogFails(t)
    BY <2>3, GotoMoves DEF LogFails, At, PCs, TypeOK, LineageInv, LineageBackwards, There
  <2>4. CASE InsertExperiment(t)
    BY <2>4, GotoMoves DEF InsertExperiment, At, PCs, TypeOK, LineageInv, LineageBackwards, There
  <2> QED BY <1>4, <2>1, <2>2, <2>3, <2>4
<1>5. ASSUME NEW t \in Trainings, WriteRunId(t)
      PROVE  LineageInv'
  <2>1. model'.artifact_uri = model.artifact_uri /\ model'.mlflow_run_id = t
    BY <1>0, <1>5 DEF WriteRunId, Rows
  <2> QED BY <1>5, <2>1 DEF WriteRunId, At, Goto, TypeOK, TrainingStates, LineageInv, LineageBackwards, There
<1>6. ASSUME NEW g \in Generations, Generate(g)
      PROVE  LineageInv'
  BY <1>6 DEF Generate, ReadModel, Features, Predict, GenerationFails, LineageInv,
              LineageBackwards, There
<1>7. ASSUME Patch
      PROVE  LineageInv'
  <2>1. model'.artifact_uri = model.artifact_uri /\ model'.mlflow_run_id = model.mlflow_run_id
    BY <1>0, <1>7 DEF Patch, Rows
  <2> QED BY <1>7, <2>1 DEF Patch, LineageInv, LineageBackwards, There
<1>8. ASSUME Delete \/ DeleteLogic
      PROVE  LineageInv'
  BY <1>8 DEF Delete, DeleteLogic, LineageInv, LineageBackwards, There
<1>9. ASSUME NEW t \in Trainings, DeleteExperiment(t)
      PROVE  LineageInv'
  BY <1>9 DEF DeleteExperiment, TypeOK, LineageInv, LineageBackwards, There
<1>10. ASSUME Crash
       PROVE  LineageInv'
  BY <1>10, CrashMoves DEF Crash, LineageInv, LineageBackwards, There
<1>11. CASE UNCHANGED vars
  BY <1>11 DEF vars, LineageInv, LineageBackwards, There
<1> QED
  BY <1>1, <1>2, <1>3, <1>4, <1>5, <1>6, <1>7, <1>8, <1>9, <1>10, <1>11 DEF Next, Step

\* What the row, an Experiment or a run records of a training was done before, for any
\* failures, deletions and crashes.  (trainer.py, tracking/service.py)
THEOREM LineageIsComplete == Spec => []LineageBackwards
<1>1. Init => LineageInv
  BY DEF Init, LineageInv, LineageBackwards, There
<1>2. LineageInv => LineageBackwards
  BY DEF LineageInv
<1> QED BY <1>1, <1>2, LineageStep, TrainingTypes, PTL DEF Spec

-----------------------------------------------------------------------------
\* What is known of an artifact stays known as long as trainings keep their views.
Keeps ==
    /\ patched \subseteq patched'
    /\ \A t \in Trainings : training[t].pc # "idle" =>
          training'[t].pc # "idle" /\ training'[t].view = training[t].view

LEMMA ExplainsKept ==
    ASSUME Keeps, NEW t \in Trainings, NEW p, Explains(t, p)
    PROVE  Explains(t, p)'
BY DEF Explains, Keeps

\* What generations know stays true while generations do not move.
LEMMA GenerationsKept ==
    ASSUME TypeOK, ParamsInv, Keeps,
           \A g \in Generations : /\ generation'[g].view = generation[g].view
                                 /\ generation'[g].answer = generation[g].answer
    PROVE  GenerationInv'
<1> SUFFICES ASSUME NEW g \in Generations
             PROVE  /\ generation'[g].view \in Rows /\ generation'[g].view.artifact_uri # None =>
                          Explains(generation[g].view.artifact_uri, generation[g].view.parameters)'
                    /\ generation'[g].answer # None =>
                          Explains(generation[g].answer.artifact, generation[g].answer.params)'
  BY DEF GenerationInv, Explains
<1>1. /\ generation[g].view \in Rows => generation[g].view.artifact_uri \in Trainings \cup {None}
      /\ generation[g].answer # None => generation[g].answer.artifact \in Trainings
  BY RowsAreThere DEF TypeOK, GenerationStates
<1> QED BY <1>1 DEF ParamsInv, GenerationInv, Keeps, Explains

\* What touches neither row nor trainings.
LEMMA RowUntouched ==
    ASSUME ParamsInv, UNCHANGED <<model, training, patched>>
    PROVE  (\A t \in patched' : training'[t].pc # "idle") /\ RowInv'
<1>1. \A t \in patched' : training'[t].pc # "idle"
  BY DEF ParamsInv
<1>2. There' = There /\ \A t, p : Explains(t, p)' <=> Explains(t, p)
  BY DEF There, Explains
<1> QED BY <1>1, <1>2 DEF ParamsInv, RowInv

\* What the row says stays true when no training begins, whichever artifact it names.
LEMMA RowKept ==
    ASSUME TypeOK, ParamsInv, Keeps, patched' = patched,
           \A u \in Trainings : training'[u].pc # "idle" => training[u].pc # "idle",
           There' => /\ There /\ model'.parameters = model.parameters
                     /\ \/ model'.artifact_uri = model.artifact_uri
                        \/ /\ model'.artifact_uri \in Trainings
                           /\ training[model'.artifact_uri].pc # "idle"
    PROVE  /\ \A t \in patched' : training'[t].pc # "idle"
           /\ RowInv'
<1>1. \A t \in patched' : training'[t].pc # "idle"
  BY DEF Keeps, ParamsInv, TypeOK
<1>2. ASSUME There'
      PROVE  /\ \A t \in Trainings : training'[t].pc # "idle" => Explains(t, model.parameters)'
             /\ model'.artifact_uri # None => Explains(model.artifact_uri, model.parameters)'
  <2>1. \A t \in Trainings : training[t].pc # "idle" => Explains(t, model.parameters)
    BY <1>2 DEF ParamsInv, RowInv
  <2>2. \A t \in Trainings : training'[t].pc # "idle" => Explains(t, model.parameters)'
    BY <1>2, <2>1 DEF Explains, Keeps
  <2>3. model'.artifact_uri # None =>
           model'.artifact_uri \in Trainings /\ training[model'.artifact_uri].pc # "idle"
    BY <1>2, RowsAreThere DEF ParamsInv, RowInv, Explains, TypeOK, There
  <2>4. model'.artifact_uri # None => training'[model'.artifact_uri].pc # "idle"
    BY <2>3 DEF Keeps
  <2> QED BY <2>2, <2>3, <2>4 DEF Explains
<1> QED BY <1>1, <1>2 DEF RowInv

\* Every step keeps ParamsInv.
LEMMA ParamsStep ==
    ASSUME TypeOK, PhaseInv, ParamsInv, [Next]_vars
    PROVE  ParamsInv'
<1> USE TrainingAssumption
<1>0. There => model \in Rows
  BY DEF TypeOK, There
<1>1. ASSUME NEW t \in Trainings, Begin(t)
      PROVE  ParamsInv'
  <2>1. training' = [training EXCEPT ![t] = [@ EXCEPT !.pc = "assemble", !.view = model]]
    BY <1>1 DEF Begin
  <2>2. /\ training'[t].pc = "assemble" /\ training'[t].view = model
        /\ \A u \in Trainings : u # t => training'[u] = training[u]
    BY <2>1 DEF TypeOK, TrainingStates
  <2>3. Keeps
    BY <1>1, <2>2 DEF Keeps, Begin, At
  <2>4. \A g \in Generations : /\ generation'[g].view = generation[g].view
                               /\ generation'[g].answer = generation[g].answer
    BY <1>1 DEF Begin
  <2>5. UNCHANGED <<model, patched>> /\ There /\ training'[t].view.parameters = model.parameters
    BY <1>1, <2>2 DEF Begin
  <2>6. \A u \in Trainings : training'[u].pc # "idle" => Explains(u, model.parameters)'
    <3> SUFFICES ASSUME NEW u \in Trainings, training'[u].pc # "idle"
                 PROVE  u \in patched \/ training'[u].view.parameters = model.parameters
      BY <2>5 DEF Explains
    <3>1. CASE u = t
      BY <2>5, <3>1
    <3>2. CASE u # t
      BY <2>2, <2>5, <3>2 DEF ParamsInv, RowInv, Explains
    <3> QED BY <3>1, <3>2
  <2>7. model.artifact_uri # None =>
           model.artifact_uri \in Trainings /\ training[model.artifact_uri].pc # "idle"
    BY <1>0, <2>5, RowsAreThere DEF ParamsInv, RowInv, Explains
  <2>8. RowInv'
    BY <2>3, <2>5, <2>6, <2>7 DEF RowInv, Keeps
  <2>9. \A u \in patched' : training'[u].pc # "idle"
    BY <2>3, <2>5 DEF ParamsInv, Keeps, TypeOK
  <2> QED BY <2>3, <2>4, <2>8, <2>9, GenerationsKept DEF ParamsInv
<1>2. ASSUME NEW t \in Trainings, NEW pc \in PCs \ {"idle"}, Goto(t, pc), training[t].pc # "idle",
             UNCHANGED <<generation, patched>>,
             There' => /\ There /\ model'.parameters = model.parameters
                       /\ model'.artifact_uri \in {model.artifact_uri, t}
      PROVE  ParamsInv'
  <2>1. Keeps
    BY <1>2, GotoMoves DEF Keeps
  <2>2. \A u \in Trainings : training'[u].pc # "idle" <=> training[u].pc # "idle"
    BY <1>2, GotoMoves
  <2>3. \A g \in Generations : /\ generation'[g].view = generation[g].view
                               /\ generation'[g].answer = generation[g].answer
    BY <1>2
  <2>4. There' => \/ model'.artifact_uri = model.artifact_uri
                  \/ model'.artifact_uri \in Trainings /\ training[model'.artifact_uri].pc # "idle"
    BY <1>2
  <2> QED BY <1>2, <2>1, <2>2, <2>3, <2>4, GenerationsKept, RowKept DEF ParamsInv
<1>3. ASSUME NEW t \in Trainings, Assemble(t)
      PROVE  ParamsInv'
  <2>1. PICK d \in Data : training' = [training EXCEPT ![t] = [@ EXCEPT !.pc = "fit", !.data = d]]
    BY <1>3 DEF Assemble
  <2>2. /\ training'[t].pc = "fit" /\ training'[t].view = training[t].view
        /\ \A u \in Trainings : u # t => training'[u] = training[u]
    BY <2>1 DEF TypeOK, TrainingStates
  <2>3. Keeps /\ \A u \in Trainings : training'[u].pc # "idle" <=> training[u].pc # "idle"
    BY <1>3, <2>2 DEF Keeps, Assemble, At
  <2>4. \A g \in Generations : /\ generation'[g].view = generation[g].view
                               /\ generation'[g].answer = generation[g].answer
    BY <1>3 DEF Assemble
  <2>5. UNCHANGED <<model, patched>>
    BY <1>3 DEF Assemble
  <2> QED BY <2>3, <2>4, <2>5, GenerationsKept, RowKept DEF ParamsInv, There
<1>4. ASSUME NEW t \in Trainings, Fail(t)
      PROVE  ParamsInv'
  <2>1. CASE training[t].pc = "idle"
    <3>1. ~There /\ ~There' /\ UNCHANGED <<generation, patched>>
      BY <1>4, <2>1 DEF Fail, At, There
    <3>2. Keeps /\ \A u \in Trainings : training[u].pc # "idle" => training'[u].pc # "idle"
      BY <1>4, <2>1, GotoMoves DEF Fail, PCs, Keeps
    <3>3. \A g \in Generations : /\ generation'[g].view = generation[g].view
                                 /\ generation'[g].answer = generation[g].answer
      BY <3>1
    <3> QED BY <3>1, <3>2, <3>3, GenerationsKept DEF ParamsInv, RowInv, TypeOK
  <2>2. CASE training[t].pc # "idle"
    BY <1>2, <1>4, <2>2 DEF Fail, PCs, There
  <2> QED BY <2>1, <2>2
<1>5. ASSUME NEW t \in Trainings, Fit(t) \/ StartRun(t) \/ LogRun(t) \/ LogFails(t) \/ InsertExperiment(t)
      PROVE  ParamsInv'
  <2>1. \E pc \in PCs \ {"idle"} : Goto(t, pc)
    BY <1>5 DEF Fit, StartRun, LogRun, LogFails, InsertExperiment, PCs
  <2>2. training[t].pc # "idle" /\ UNCHANGED <<generation, patched, model>>
    BY <1>5 DEF Fit, StartRun, LogRun, LogFails, InsertExperiment, At
  <2> QED BY <1>2, <2>1, <2>2 DEF There
<1>6. ASSUME NEW t \in Trainings, Commit(t)
      PROVE  ParamsInv'
  <2>1. /\ Goto(t, "refresh") /\ training[t].pc # "idle" /\ UNCHANGED <<generation, patched>> /\ There
    BY <1>6 DEF Commit, At
  <2>2. model'.parameters = model.parameters /\ model'.artifact_uri = t
    BY <1>0, <1>6, <2>1 DEF Commit, Rows
  <2> QED BY <1>2, <2>1, <2>2 DEF PCs
<1>7. ASSUME NEW t \in Trainings, Refresh(t) \/ WriteRunId(t)
      PROVE  ParamsInv'
  <2>1. \E pc \in PCs \ {"idle"} : Goto(t, pc)
    BY <1>7 DEF Refresh, WriteRunId, PCs
  <2>2. training[t].pc # "idle" /\ UNCHANGED <<generation, patched>> /\ There
    BY <1>7 DEF Refresh, WriteRunId, At
  <2>3. model'.parameters = model.parameters /\ model'.artifact_uri = model.artifact_uri
    BY <1>0, <1>7, <2>2 DEF Refresh, WriteRunId, Rows
  <2> QED BY <1>2, <2>1, <2>2, <2>3
<1>8. ASSUME NEW g \in Generations, ReadModel(g)
      PROVE  ParamsInv'
  <2>1. generation' = [generation EXCEPT ![g] = [@ EXCEPT !.pc = "features", !.view = model]]
    BY <1>8 DEF ReadModel
  <2>2. /\ generation'[g].view = model /\ generation'[g].answer = generation[g].answer
        /\ \A h \in Generations : h # g => generation'[h] = generation[h]
    BY <2>1 DEF TypeOK, GenerationStates
  <2>3. model.artifact_uri # None => Explains(model.artifact_uri, model.parameters)
    BY <1>8 DEF ReadModel, ParamsInv, RowInv
  <2>4. UNCHANGED <<model, training, patched>>
    BY <1>8 DEF ReadModel
  <2>5. GenerationInv'
    BY <2>2, <2>3, <2>4 DEF ParamsInv, GenerationInv, Explains
  <2> QED BY <2>4, <2>5, RowUntouched DEF ParamsInv
<1>9. ASSUME NEW g \in Generations, Features(g) \/ GenerationFails(g)
      PROVE  ParamsInv'
  <2>1. PICK pc \in {"rules", "plugin", "failed"} :
           generation' = [generation EXCEPT ![g] = [@ EXCEPT !.pc = pc]]
    BY <1>9 DEF Features, GenerationFails
  <2>2. \A h \in Generations : /\ generation'[h].view = generation[h].view
                               /\ generation'[h].answer = generation[h].answer
    BY <2>1 DEF TypeOK, GenerationStates
  <2>3. UNCHANGED <<model, training, patched>>
    BY <1>9 DEF Features, GenerationFails
  <2>4. Keeps
    BY <2>3 DEF Keeps
  <2> QED BY <2>2, <2>3, <2>4, GenerationsKept, RowUntouched DEF ParamsInv
<1>10. ASSUME NEW g \in Generations, Predict(g)
       PROVE  ParamsInv'
  <2> DEFINE v == generation[g].view
  <2>1. v \in Rows /\ v.artifact_uri \in artifacts /\ v.artifact_uri # None
    BY <1>10 DEF Predict, Answer, PhaseInv, TypeOK
  <2>2. generation' = [generation EXCEPT ![g] = [@ EXCEPT !.pc = "done",
                         !.answer = [params |-> v.parameters, artifact |-> v.artifact_uri]]]
    BY <1>10 DEF Predict, Answer
  <2>3. /\ generation'[g].view = v
        /\ generation'[g].answer = [params |-> v.parameters, artifact |-> v.artifact_uri]
        /\ \A h \in Generations : h # g => generation'[h] = generation[h]
    BY <2>2 DEF TypeOK, GenerationStates
  <2>4. Explains(v.artifact_uri, v.parameters)
    BY <2>1 DEF ParamsInv, GenerationInv
  <2>5. UNCHANGED <<model, training, patched>>
    BY <1>10 DEF Predict
  <2>6. GenerationInv'
    BY <2>3, <2>4, <2>5 DEF ParamsInv, GenerationInv, Explains
  <2> QED BY <2>5, <2>6, RowUntouched DEF ParamsInv
<1>11. ASSUME Patch
       PROVE  ParamsInv'
  <2>1. Keeps
    BY <1>11 DEF Patch, Keeps, ParamsInv, TypeOK, At
  <2>2. model'.artifact_uri = model.artifact_uri
    BY <1>0, <1>11 DEF Patch, Rows
  <2>3. \A g \in Generations : /\ generation'[g].view = generation[g].view
                               /\ generation'[g].answer = generation[g].answer
    BY <1>11 DEF Patch
  <2>4. \A p : \A t \in Trainings : training'[t].pc # "idle" => Explains(t, p)'
    BY <1>11 DEF Patch, Explains, At
  <2>5. model.artifact_uri # None =>
           training[model.artifact_uri].pc # "idle" /\ model.artifact_uri \in Trainings
    BY <1>0, <1>11, RowsAreThere DEF Patch, ParamsInv, RowInv, Explains
  <2>6. RowInv'
    BY <1>11, <2>2, <2>4, <2>5 DEF Patch, RowInv
  <2> QED BY <1>11, <2>1, <2>3, <2>6, GenerationsKept DEF Patch, ParamsInv, At
<1>12. ASSUME Delete \/ DeleteLogic \/ \E t \in Trainings : DeleteExperiment(t)
       PROVE  ParamsInv'
  BY <1>12 DEF Delete, DeleteLogic, DeleteExperiment, ParamsInv, RowInv, GenerationInv, Explains, There
<1>13. ASSUME Crash
       PROVE  ParamsInv'
  <2>1. Keeps /\ \A u \in Trainings : training'[u].pc # "idle" <=> training[u].pc # "idle"
    BY <1>13, CrashMoves DEF Keeps, Crash
  <2>2. UNCHANGED <<model, patched>>
    BY <1>13 DEF Crash
  <2> QED BY <1>13, <2>1, <2>2, CrashMoves, GenerationsKept, RowKept DEF ParamsInv, There
<1>14. CASE UNCHANGED vars
  BY <1>14 DEF vars, ParamsInv, RowInv, GenerationInv, Explains, There
<1> QED
  BY <1>1, <1>3, <1>4, <1>5, <1>6, <1>7, <1>8, <1>9, <1>10, <1>11, <1>12, <1>13, <1>14
     DEF Next, Step, Generate

\* Signals are explained by the parameters of their artifact, for any number of trainings,
\* generations and crashes.  (_run_model)
THEOREM SignalsAreExplained == Spec => []SignalsExplained
<1>1. Init => ParamsInv
  BY RowsAreThere DEF Init, ParamsInv, RowInv, GenerationInv, There, Explains
<1>2. TypeOK /\ ParamsInv => SignalsExplained
  BY DEF TypeOK, ParamsInv, GenerationInv, Explains, SignalsExplained, TrainedWith
<1> QED BY <1>1, <1>2, ParamsStep, TrainingTypes, PTL DEF Spec
=============================================================================
