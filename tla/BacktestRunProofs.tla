------------------------- MODULE BacktestRunProofs -------------------------
(***************************************************************************)
(* What holds of one backtest for any number of overlapping executions.    *)
(* First the types, then who is at work on a running row (RunnerInv), then *)
(* whose results the row holds (ResultInv); the last two are inductive only*)
(* together with what each session remembers of the row.                   *)
(***************************************************************************)
EXTENDS BacktestRun, TLAPS

\* Who is going to write another state into a row that is running: what the session
\* of r has seen decides whether its last commit has a state to write.
InRun == {"run", "upload", "complete"}
Working(r) == pc[r] \in InRun \/ (pc[r] = "failing" /\ view[r].status = "running")
RunnerInv ==
    /\ \A r \in Requests : pc[r] \in InRun => view[r].status = "running"
    /\ SaysRunning => Abandoned \/ \E r \in Requests : Working(r)

\* Before an execution has stored its result, nobody has seen it.
Before == {"idle", "dispatch", "queued", "mark", "run", "upload", "complete"}
Unknown(r, seen) == seen.metrics # r /\ seen.uris # r
ResultInv ==
    /\ ArtifactsMatch
    /\ \A r \in Requests : pc[r] = "complete" => r \in files
    /\ \A r \in Requests :
          pc[r] \in Before => Unknown(r, row) /\ Unknown(r, view[r])

(***************************************************************************)
(* Commits                                                                 *)
(***************************************************************************)

\* What a session's commit does to the row: it raises on a row that is gone, and
\* otherwise writes each column that the session changed.
LEMMA SaveCases ==
    ASSUME NEW r \in Requests, NEW new \in Rows, NEW label,
           row \in Rows, view \in [Requests -> Rows], Save(r, new, label)
    PROVE  \/ /\ Goto(r, "raised")
              /\ UNCHANGED <<row, patched, view>>
           \/ /\ Goto(r, label)
              /\ view' = [view EXCEPT ![r] = new]
              /\ row' \in Rows
              /\ row'.status = IF new.status # view[r].status THEN new.status ELSE row.status
              /\ row'.metrics = IF new.metrics # view[r].metrics THEN new.metrics ELSE row.metrics
              /\ row'.uris = IF new.uris # view[r].uris THEN new.uris ELSE row.uris
              /\ patched' \subseteq patched
              /\ new.status = view[r].status => ("status" \in patched <=> "status" \in patched')
              /\ new.metrics = view[r].metrics => ("metrics" \in patched <=> "metrics" \in patched')
              /\ new.uris = view[r].uris => ("uris" \in patched <=> "uris" \in patched')
<1> DEFINE changed == {f \in DOMAIN new : new[f] # view[r][f]}
<1>1. CASE row.status = "gone" /\ changed # {}
  BY <1>1 DEF Save
<1>2. CASE ~(row.status = "gone" /\ changed # {})
  <2>1. row' = [f \in DOMAIN row |-> IF f \in changed THEN new[f] ELSE row[f]]
    BY <1>2 DEF Save
  <2>2. view' = [view EXCEPT ![r] = new] /\ Goto(r, label) /\ patched' = patched \ changed
    BY <1>2 DEF Save
  <2>8. /\ patched' \subseteq patched
        /\ \A f : new[f] = view[r][f] => (f \in patched <=> f \in patched')
    BY <2>2
  <2>3. /\ DOMAIN row = {"status", "metrics", "uris"}
        /\ DOMAIN new = {"status", "metrics", "uris"}
    BY DEF Rows
  <2>4. /\ row'.status = IF new.status # view[r].status THEN new.status ELSE row.status
        /\ row'.metrics = IF new.metrics # view[r].metrics THEN new.metrics ELSE row.metrics
        /\ row'.uris = IF new.uris # view[r].uris THEN new.uris ELSE row.uris
    BY <2>1, <2>3
  <2>5. row' = [status |-> row'.status, metrics |-> row'.metrics, uris |-> row'.uris]
    BY <2>1, <2>3
  <2>6. /\ row'.status \in Statuses \cup PatchStatuses \cup {"gone"}
        /\ row'.metrics \in Requests \cup {NoRun, Error, Client}
        /\ row'.uris \in Requests \cup {NoRun, Client}
    BY <2>4 DEF Rows
  <2>7. row' \in Rows
    BY <2>5, <2>6 DEF Rows
  <2> QED BY <2>2, <2>4, <2>7, <2>8
<1> QED BY <1>1, <1>2

(***************************************************************************)
(* Types                                                                   *)
(***************************************************************************)

\* What the executions commit are rows.
LEMMA CommittedRows ==
    ASSUME TypeOK, NEW r \in Requests
    PROVE  /\ Fresh \in Rows /\ Gone \in Rows
           /\ \A s \in Statuses : [view[r] EXCEPT !.status = s] \in Rows
           /\ [status |-> "completed", metrics |-> r, uris |-> r] \in Rows
           /\ [view[r] EXCEPT !.status = "failed", !.metrics = Error] \in Rows
  BY DEF TypeOK, Rows, Fresh, Gone, Statuses

\* Every step keeps the types.
LEMMA TypeOKStep ==
    ASSUME TypeOK, [Next]_vars
    PROVE  TypeOK'
<1> USE BacktestAssumption
<1>0. /\ row \in Rows /\ view \in [Requests -> Rows] /\ pc \in [Requests -> PCs]
      /\ patched \subseteq {"status", "metrics", "uris"}
      /\ files \subseteq Requests /\ logged \subseteq Requests
      /\ patches \in 0..MaxPatches /\ crashes \in 0..MaxCrashes
  BY DEF TypeOK
<1>1. ASSUME NEW r \in Requests, NEW label \in PCs, Goto(r, label)
      PROVE  pc' \in [Requests -> PCs]
  BY <1>0, <1>1 DEF Goto
<1>2. ASSUME NEW r \in Requests, Load(r)
      PROVE  view' \in [Requests -> Rows]
  BY <1>0, <1>2 DEF Load
<1>3. ASSUME NEW r \in Requests, NEW new \in Rows, NEW label \in PCs,
             Save(r, new, label), UNCHANGED <<files, logged, counters>>
      PROVE  TypeOK'
  <2>1. "raised" \in PCs
    BY DEF PCs
  <2>2. row' \in Rows /\ view' \in [Requests -> Rows] /\ patched' \subseteq patched
    BY <1>0, <1>3, SaveCases
  <2>3. pc' \in [Requests -> PCs]
    BY <1>0, <1>1, <1>3, <2>1, SaveCases
  <2> QED BY <1>0, <1>3, <2>2, <2>3 DEF TypeOK, counters
<1>4. ASSUME NEW r \in Requests, Post(r)
      PROVE  TypeOK'
  <2>1. pc' \in [Requests -> PCs]
    BY <1>1, <1>4 DEF Post, PCs, Active
  <2> QED BY <1>0, <1>2, <1>4, <2>1 DEF Post, TypeOK, sharedVars, counters
<1>5. ASSUME NEW r \in Requests, Dispatch(r)
      PROVE  TypeOK'
  <2>1. pc' \in [Requests -> PCs]
    BY <1>1, <1>5 DEF Dispatch, PCs, Active
  <2> QED BY <1>0, <1>5, <2>1 DEF Dispatch, TypeOK, sharedVars, counters
<1>6. ASSUME NEW r \in Requests, StartTask(r)
      PROVE  TypeOK'
  <2>1. pc' \in [Requests -> PCs]
    BY <1>1, <1>6 DEF StartTask, PCs, Active
  <2> QED BY <1>0, <1>2, <1>6, <2>1 DEF StartTask, TypeOK, sharedVars, counters
<1>7. ASSUME NEW r \in Requests, MarkRunning(r) \/ Complete(r) \/ SaveFailed(r)
      PROVE  TypeOK'
  <2>1. /\ {"run", "refresh", "error"} \subseteq PCs
        /\ "running" \in Statuses
    BY DEF PCs, Active, Executing, Statuses
  <2> QED BY <1>3, <1>7, <2>1, CommittedRows DEF MarkRunning, Complete, SaveFailed
<1>8. ASSUME NEW r \in Requests, Run(r) \/ Fail(r) \/ FlushFails(r)
      PROVE  TypeOK'
  <2>1. pc' \in [Requests -> PCs]
    BY <1>1, <1>8 DEF Run, Fail, FlushFails, PCs, Active, Executing
  <2> QED BY <1>0, <1>8, <2>1 DEF Run, Fail, FlushFails, TypeOK, sharedVars, counters
<1>9. ASSUME NEW r \in Requests, Upload(r) \/ Track(r)
      PROVE  TypeOK'
  <2>1. pc' \in [Requests -> PCs]
    BY <1>1, <1>9 DEF Upload, Track, PCs, Active, Executing
  <2> QED BY <1>0, <1>9, <2>1 DEF Upload, Track, TypeOK, counters
<1>10. ASSUME NEW r \in Requests, Refresh(r)
       PROVE  TypeOK'
  <2>1. pc' \in [Requests -> PCs]
    BY <1>1, <1>10 DEF Refresh, PCs, Active, Executing
  <2> QED BY <1>0, <1>2, <1>10, <2>1 DEF Refresh, TypeOK, sharedVars, counters
<1>11. CASE Patch
  <2>1. row' \in Rows /\ patched' \subseteq {"status", "metrics", "uris"}
    <3>1. PICK s \in PatchStatuses \cup {row.status}, m \in {Client, Error, row.metrics},
               u \in {Client, row.uris} :
                  LET new == [status |-> s, metrics |-> m, uris |-> u]
                  IN  /\ row' = new
                      /\ patched' = patched \cup {f \in DOMAIN new : new[f] # row[f]}
      BY <1>11 DEF Patch
    <3>2. /\ row.status \in Statuses \cup PatchStatuses \cup {"gone"}
          /\ row.metrics \in Requests \cup {NoRun, Error, Client}
          /\ row.uris \in Requests \cup {NoRun, Client}
      BY <1>0 DEF Rows
    <3>3. row' \in Rows
      BY <3>1, <3>2 DEF Rows
    <3>4. DOMAIN [status |-> s, metrics |-> m, uris |-> u] = {"status", "metrics", "uris"}
      OBVIOUS
    <3> QED BY <1>0, <3>1, <3>3, <3>4
  <2>2. patches' \in 0..MaxPatches
    BY <1>0, <1>11 DEF Patch
  <2> QED BY <1>0, <1>11, <2>1, <2>2 DEF Patch, TypeOK
<1>12. CASE Delete
  BY <1>0, <1>12 DEF Delete, TypeOK, Rows, Gone, Fresh, counters
<1>13. CASE Crash
  <2>1. pc' \in [Requests -> PCs]
    BY <1>0, <1>13 DEF Crash, PCs
  <2> QED BY <1>0, <1>13, <2>1 DEF Crash, TypeOK, sharedVars, counters
<1>14. CASE UNCHANGED vars
  BY <1>0, <1>14 DEF vars, sharedVars, counters, TypeOK
<1> QED BY <1>4, <1>5, <1>6, <1>7, <1>8, <1>9, <1>10, <1>11, <1>12, <1>13, <1>14
        DEF Next, Step

\* Every variable keeps its type (ORM columns of Backtest, and where each request
\* is in execute_backtest and BacktestPipeline.execute).
THEOREM BacktestTypes == Spec => []TypeOK
<1>1. Init => TypeOK
  BY BacktestAssumption DEF Init, TypeOK, Rows, Fresh, Statuses, PCs
<1> QED BY <1>1, TypeOKStep, PTL DEF Spec

(***************************************************************************)
(* Who is at work on a running row                                         *)
(***************************************************************************)

\* A step of one request keeps RunnerInv if it leaves a running row only to a request
\* that is at work, or as broken off, or as it was.
LEMMA RunnerKept ==
    ASSUME TypeOK, RunnerInv,
           NEW r \in Requests, NEW label, Goto(r, label),
           pc[r] \notin {"raised", "crashed"},
           view' \in [Requests -> Rows],
           \A q \in Requests \ {r} : view'[q] = view[q],
           label \in InRun => view'[r].status = "running",
           SaysRunning' =>
               \/ label = "raised"
               \/ label \in InRun \cup {"failing"} /\ view'[r].status = "running"
               \/ SaysRunning /\ ~Working(r)
    PROVE  RunnerInv'
<1>0. pc \in [Requests -> PCs]
  BY DEF TypeOK
<1>1. /\ pc'[r] = label
      /\ \A q \in Requests \ {r} : pc'[q] = pc[q]
  BY <1>0 DEF Goto
<1>2. \A q \in Requests : pc'[q] \in InRun => view'[q].status = "running"
  BY <1>1 DEF RunnerInv
<1>3. ASSUME SaysRunning'
      PROVE  Abandoned' \/ \E q \in Requests : Working(q)'
  <2>1. CASE label = "raised"
    BY <1>1, <2>1 DEF Abandoned
  <2>2. CASE label \in InRun \cup {"failing"} /\ view'[r].status = "running"
    BY <1>1, <2>2 DEF Working
  <2>3. CASE SaysRunning /\ ~Working(r)
    <3>1. CASE Abandoned
      BY <1>1, <3>1 DEF Abandoned
    <3>2. ASSUME NEW q \in Requests, Working(q)
          PROVE  Working(q)'
      <4>1. q # r
        BY <2>3, <3>2
      <4> QED BY <1>1, <3>2, <4>1 DEF Working
    <3> QED BY <2>3, <3>1, <3>2 DEF RunnerInv
  <2> QED BY <1>3, <2>1, <2>2, <2>3
<1> QED BY <1>2, <1>3 DEF RunnerInv

LEMMA RunnerStep ==
    ASSUME TypeOK, TypeOK', RunnerInv, [Next]_vars
    PROVE  RunnerInv'
<1> USE BacktestAssumption
<1>0. /\ row \in Rows /\ view \in [Requests -> Rows] /\ pc \in [Requests -> PCs]
      /\ view' \in [Requests -> Rows]
  BY DEF TypeOK
<1>1. ASSUME NEW r \in Requests, Post(r) \/ StartTask(r)
      PROVE  RunnerInv'
  <2>1. PICK label : Goto(r, label) /\ label \in {"refused", "dispatch", "raised", "mark"}
    BY <1>1 DEF Post, StartTask
  <2>2. /\ pc[r] \in {"idle", "queued"}
        /\ row' = row /\ patched' = patched
        /\ \A q \in Requests \ {r} : view'[q] = view[q]
    BY <1>0, <1>1 DEF Post, StartTask, Load, sharedVars
  <2> QED BY <2>1, <2>2, <1>0, RunnerKept DEF InRun, Working, SaysRunning
<1>2. ASSUME NEW r \in Requests, Dispatch(r)
      PROVE  RunnerInv'
  <2>1. PICK label : Goto(r, label) /\ label \in {"queued", "mark"}
    BY <1>2 DEF Dispatch
  <2>2. pc[r] = "dispatch" /\ row' = row /\ patched' = patched /\ view' = view
    BY <1>2 DEF Dispatch, sharedVars
  <2> QED BY <2>1, <2>2, <1>0, RunnerKept DEF InRun, Working, SaysRunning
<1>3. ASSUME NEW r \in Requests, MarkRunning(r)
      PROVE  RunnerInv'
  <2> DEFINE new == [view[r] EXCEPT !.status = "running"]
  <2>1. new \in Rows /\ new.status = "running"
    BY <1>0 DEF Rows, Statuses
  <2>2. pc[r] = "mark" /\ Save(r, new, "run")
    BY <1>3 DEF MarkRunning
  <2>3. CASE Goto(r, "raised") /\ UNCHANGED <<row, patched, view>>
    BY <2>2, <2>3, <1>0, RunnerKept DEF InRun, SaysRunning
  <2>4. CASE Goto(r, "run") /\ view' = [view EXCEPT ![r] = new]
    BY <2>1, <2>2, <2>4, <1>0, RunnerKept DEF InRun, SaysRunning
  <2> QED BY <2>1, <2>2, <2>3, <2>4, <1>0, SaveCases
<1>4. ASSUME NEW r \in Requests, Complete(r)
      PROVE  RunnerInv'
  <2> DEFINE new == [status |-> "completed", metrics |-> r, uris |-> r]
  <2>1. new \in Rows /\ new.status = "completed"
    BY DEF Rows, Statuses
  <2>2. pc[r] = "complete" /\ Save(r, new, "refresh") /\ view[r].status = "running"
    BY <1>4 DEF Complete, RunnerInv, InRun
  <2>3. CASE Goto(r, "raised") /\ UNCHANGED <<row, patched, view>>
    BY <2>2, <2>3, <1>0, RunnerKept DEF InRun, SaysRunning
  <2>4. CASE /\ Goto(r, "refresh") /\ view' = [view EXCEPT ![r] = new]
             /\ row'.status = IF new.status # view[r].status THEN new.status ELSE row.status
    <3>1. row'.status = "completed" /\ \A q \in Requests \ {r} : view'[q] = view[q]
      BY <2>1, <2>2, <2>4, <1>0
    <3> QED BY <2>2, <2>4, <3>1, <1>0, RunnerKept DEF InRun, SaysRunning
  <2> QED BY <2>1, <2>2, <2>3, <2>4, <1>0, SaveCases
<1>5. ASSUME NEW r \in Requests, SaveFailed(r)
      PROVE  RunnerInv'
  <2> DEFINE new == [view[r] EXCEPT !.status = "failed", !.metrics = Error]
  <2>1. new \in Rows /\ new.status = "failed"
    BY <1>0 DEF Rows, Statuses
  <2>2. pc[r] = "failing" /\ Save(r, new, "error")
    BY <1>5 DEF SaveFailed
  <2>3. CASE Goto(r, "raised") /\ UNCHANGED <<row, patched, view>>
    BY <2>2, <2>3, <1>0, RunnerKept DEF InRun, SaysRunning
  <2>4. CASE /\ Goto(r, "error") /\ view' = [view EXCEPT ![r] = new]
             /\ row'.status = IF new.status # view[r].status THEN new.status ELSE row.status
             /\ new.status = view[r].status => ("status" \in patched <=> "status" \in patched')
    <3>1. /\ SaysRunning' => SaysRunning /\ view[r].status # "running"
          /\ \A q \in Requests \ {r} : view'[q] = view[q]
      BY <2>1, <2>4, <1>0 DEF SaysRunning
    <3> QED BY <2>2, <2>4, <3>1, <1>0, RunnerKept DEF InRun, Working
  <2> QED BY <2>1, <2>2, <2>3, <2>4, <1>0, SaveCases
<1>6. ASSUME NEW r \in Requests, Run(r) \/ Upload(r)
      PROVE  RunnerInv'
  <2>1. PICK label : Goto(r, label) /\ label \in {"upload", "complete"}
    BY <1>6 DEF Run, Upload
  <2>2. pc[r] \in {"run", "upload"} /\ row' = row /\ patched' = patched /\ view' = view
    BY <1>6 DEF Run, Upload, sharedVars
  <2>3. view[r].status = "running"
    BY <2>2 DEF RunnerInv, InRun
  <2> QED BY <2>1, <2>2, <2>3, <1>0, RunnerKept DEF InRun, SaysRunning
<1>7. ASSUME NEW r \in Requests, Refresh(r)
      PROVE  RunnerInv'
  <2>1. PICK label : Goto(r, label) /\ label \in {"failing", "track"}
    BY <1>7 DEF Refresh
  <2>2. /\ pc[r] = "refresh" /\ row' = row /\ patched' = patched
        /\ \A q \in Requests \ {r} : view'[q] = view[q]
    BY <1>0, <1>7 DEF Refresh, Load, sharedVars
  <2> QED BY <2>1, <2>2, <1>0, RunnerKept DEF InRun, Working, SaysRunning
<1>8. ASSUME NEW r \in Requests, Track(r)
      PROVE  RunnerInv'
  <2>1. pc[r] = "track" /\ row' = row /\ patched' = patched /\ view' = view /\ Goto(r, "done")
    BY <1>8 DEF Track
  <2> QED BY <2>1, <1>0, RunnerKept DEF InRun, Working, SaysRunning
<1>9. ASSUME NEW r \in Requests, Fail(r)
      PROVE  RunnerInv'
  <2>1. /\ pc[r] \in {"run", "upload", "refresh", "track"}
        /\ row' = row /\ patched' = patched /\ view' = view /\ Goto(r, "failing")
    BY <1>9 DEF Fail, sharedVars
  <2>2. pc[r] \in InRun => view[r].status = "running"
    BY DEF RunnerInv
  <2> QED BY <2>1, <2>2, <1>0, RunnerKept DEF InRun, Working, SaysRunning
<1>10. ASSUME NEW r \in Requests, FlushFails(r)
       PROVE  RunnerInv'
  <2>1. /\ pc[r] \in {"mark", "run", "complete", "track", "failing"}
        /\ row' = row /\ patched' = patched /\ view' = view /\ Goto(r, "raised")
    BY <1>10 DEF FlushFails, sharedVars
  <2> QED BY <2>1, <1>0, RunnerKept DEF InRun, SaysRunning
<1>11. CASE Patch
  <2>1. view' = view /\ pc' = pc /\ patched \subseteq patched'
    BY <1>11 DEF Patch
  <2>2. row'.status = row.status \/ "status" \in patched'
    BY <1>11 DEF Patch
  <2>3. SaysRunning' => SaysRunning
    BY <2>1, <2>2 DEF SaysRunning
  <2> QED BY <2>1, <2>3 DEF RunnerInv, Abandoned, Working
<1>12. CASE Delete
  BY <1>12 DEF Delete, Gone, Fresh, RunnerInv, SaysRunning
<1>13. CASE Crash
  <2>1. /\ row' = row /\ patched' = patched /\ view' = view
        /\ \A q \in Requests : pc'[q] = IF pc[q] \in Active THEN "crashed" ELSE pc[q]
    BY <1>13 DEF Crash, sharedVars
  <2>2. \A q \in Requests : pc'[q] \notin InRun
    BY <2>1 DEF InRun, Active, Executing
  <2>3. ASSUME SaysRunning
        PROVE  Abandoned'
    <3>1. CASE Abandoned
      BY <2>1, <3>1 DEF Abandoned, Active, Executing
    <3>2. ASSUME NEW q \in Requests, Working(q)
          PROVE  Abandoned'
      BY <2>1, <3>2 DEF Working, InRun, Active, Executing, Abandoned
    <3> QED BY <2>3, <3>1, <3>2 DEF RunnerInv
  <2> QED BY <2>1, <2>2, <2>3 DEF RunnerInv, SaysRunning
<1>14. CASE UNCHANGED vars
  BY <1>14 DEF vars, sharedVars, RunnerInv, SaysRunning, Abandoned, Working
<1> QED BY <1>1, <1>2, <1>3, <1>4, <1>5, <1>6, <1>7, <1>8, <1>9, <1>10, <1>11, <1>12,
           <1>13, <1>14
        DEF Next, Step

\* A row in state running, for which execute_backtest answers 409, has an execution
\* at work on it, or one was broken off.
THEOREM BacktestHasRunner == Spec => []RunningHasRunner
<1>1. Init => TypeOK /\ RunnerInv
  BY BacktestAssumption
     DEF Init, TypeOK, Rows, Fresh, Statuses, PCs, RunnerInv, SaysRunning, InRun
<1>2. TypeOK /\ RunnerInv /\ [Next]_vars => (TypeOK /\ RunnerInv)'
  BY TypeOKStep, RunnerStep
<1>3. RunnerInv => RunningHasRunner
  BY DEF RunnerInv, RunningHasRunner, Working, InRun, Executing
<1> QED BY <1>1, <1>2, <1>3, PTL DEF Spec

(***************************************************************************)
(* Whose results the row holds                                             *)
(***************************************************************************)

\* A step of one request keeps ResultInv if it keeps ArtifactsMatch and shows no
\* result before it is stored.
LEMMA ResultKept ==
    ASSUME TypeOK, ResultInv,
           NEW r \in Requests, NEW label, Goto(r, label),
           \A q \in Requests \ {r} : view'[q] = view[q],
           files \subseteq files', ArtifactsMatch',
           label = "complete" => r \in files',
           label \in Before => pc[r] \in Before /\ Unknown(r, view'[r]),
           \A q \in Requests : Unknown(q, row) => Unknown(q, row') \/ (q = r /\ label \notin Before)
    PROVE  ResultInv'
<1>0. pc \in [Requests -> PCs]
  BY DEF TypeOK
<1>1. /\ pc'[r] = label
      /\ \A q \in Requests \ {r} : pc'[q] = pc[q]
  BY <1>0 DEF Goto
<1>2. \A q \in Requests : pc'[q] = "complete" => q \in files'
  BY <1>1 DEF ResultInv
<1>3. ASSUME NEW q \in Requests, pc'[q] \in Before
      PROVE  Unknown(q, row') /\ Unknown(q, view'[q])
  BY <1>1, <1>3 DEF ResultInv
<1> QED BY <1>2, <1>3 DEF ResultInv

LEMMA ResultStep ==
    ASSUME TypeOK, ResultInv, [Next]_vars
    PROVE  ResultInv'
<1> USE BacktestAssumption
<1>0. /\ row \in Rows /\ view \in [Requests -> Rows] /\ pc \in [Requests -> PCs]
  BY DEF TypeOK
<1>1. ASSUME NEW r \in Requests, Post(r) \/ StartTask(r) \/ Refresh(r)
      PROVE  ResultInv'
  <2>1. PICK label : /\ Goto(r, label)
                     /\ label \in {"refused", "dispatch", "raised", "mark", "failing", "track"}
                     /\ label \in Before => pc[r] \in Before /\ view'[r] = row
    BY <1>0, <1>1 DEF Post, StartTask, Refresh, Load, Before
  <2>2. /\ row' = row /\ patched' = patched /\ files' = files
        /\ \A q \in Requests \ {r} : view'[q] = view[q]
    BY <1>0, <1>1 DEF Post, StartTask, Refresh, Load, sharedVars
  <2>3. label \in Before => Unknown(r, view'[r])
    BY <2>1 DEF ResultInv
  <2>4. ArtifactsMatch'
    BY <2>2 DEF ResultInv, ArtifactsMatch
  <2> QED BY <2>1, <2>2, <2>3, <2>4, ResultKept
<1>2. ASSUME NEW r \in Requests, MarkRunning(r)
      PROVE  ResultInv'
  <2> DEFINE new == [view[r] EXCEPT !.status = "running"]
  <2>1. /\ new \in Rows /\ new.status = "running"
        /\ new.metrics = view[r].metrics /\ new.uris = view[r].uris
    BY <1>0 DEF Rows, Statuses
  <2>2. pc[r] = "mark" /\ Save(r, new, "run") /\ files' = files
    BY <1>2 DEF MarkRunning
  <2>3. CASE Goto(r, "raised") /\ UNCHANGED <<row, patched, view>>
    BY <2>2, <2>3, ResultKept DEF ResultInv, ArtifactsMatch, Before
  <2>4. CASE /\ Goto(r, "run") /\ view' = [view EXCEPT ![r] = new]
             /\ row'.status = IF new.status # view[r].status THEN new.status ELSE row.status
             /\ row'.metrics = row.metrics /\ row'.uris = row.uris
             /\ patched' \subseteq patched
             /\ new.status = view[r].status => ("status" \in patched <=> "status" \in patched')
             /\ "metrics" \in patched <=> "metrics" \in patched'
             /\ "uris" \in patched <=> "uris" \in patched'
    <3>1. view'[r] = new /\ \A q \in Requests \ {r} : view'[q] = view[q]
      BY <2>4, <1>0
    <3>2. Unknown(r, view'[r])
      BY <2>1, <2>2, <3>1 DEF ResultInv, Before, Unknown
    <3>3. ArtifactsMatch'
      BY <2>1, <2>2, <2>4 DEF ResultInv, ArtifactsMatch
    <3> QED BY <2>2, <2>4, <3>1, <3>2, <3>3, ResultKept DEF Before, Unknown
  <2> QED BY <2>1, <2>2, <2>3, <2>4, <1>0, SaveCases
<1>3. ASSUME NEW r \in Requests, Complete(r)
      PROVE  ResultInv'
  <2> DEFINE new == [status |-> "completed", metrics |-> r, uris |-> r]
  <2>1. new \in Rows /\ new.metrics = r /\ new.uris = r
    BY DEF Rows, Statuses
  <2>2. pc[r] = "complete" /\ Save(r, new, "refresh") /\ files' = files
    BY <1>3 DEF Complete
  <2>3. r \in files /\ Unknown(r, view[r])
    BY <2>2 DEF ResultInv, Before
  <2>4. CASE Goto(r, "raised") /\ UNCHANGED <<row, patched, view>>
    BY <2>2, <2>4, ResultKept DEF ResultInv, ArtifactsMatch, Before
  <2>5. CASE /\ Goto(r, "refresh") /\ view' = [view EXCEPT ![r] = new]
             /\ row'.metrics = IF new.metrics # view[r].metrics THEN new.metrics ELSE row.metrics
             /\ row'.uris = IF new.uris # view[r].uris THEN new.uris ELSE row.uris
    <3>1. row'.metrics = r /\ row'.uris = r
      BY <2>1, <2>3, <2>5 DEF Unknown
    <3>2. \A q \in Requests \ {r} : view'[q] = view[q]
      BY <2>5, <1>0
    <3>3. ArtifactsMatch'
      BY <2>2, <2>3, <3>1 DEF ArtifactsMatch
    <3> QED BY <2>2, <2>5, <3>1, <3>2, <3>3, ResultKept DEF Before, Unknown
  <2> QED BY <2>1, <2>2, <2>4, <2>5, <1>0, SaveCases
<1>4. ASSUME NEW r \in Requests, SaveFailed(r)
      PROVE  ResultInv'
  <2> DEFINE new == [view[r] EXCEPT !.status = "failed", !.metrics = Error]
  <2>1. /\ new \in Rows /\ new.status = "failed"
        /\ new.metrics = Error /\ new.uris = view[r].uris
    BY <1>0 DEF Rows, Statuses
  <2>2. pc[r] = "failing" /\ Save(r, new, "error") /\ files' = files
    BY <1>4 DEF SaveFailed
  <2>3. CASE Goto(r, "raised") /\ UNCHANGED <<row, patched, view>>
    BY <2>2, <2>3, ResultKept DEF ResultInv, ArtifactsMatch, Before
  <2>4. CASE /\ Goto(r, "error") /\ view' = [view EXCEPT ![r] = new]
             /\ row'.status = IF new.status # view[r].status THEN new.status ELSE row.status
             /\ row'.metrics = IF new.metrics # view[r].metrics THEN new.metrics ELSE row.metrics
             /\ row'.uris = row.uris
             /\ patched' \subseteq patched
             /\ new.status = view[r].status => ("status" \in patched <=> "status" \in patched')
             /\ new.metrics = view[r].metrics => ("metrics" \in patched <=> "metrics" \in patched')
             /\ "uris" \in patched <=> "uris" \in patched'
    <3>1. /\ row'.metrics = Error \/ (row'.metrics = row.metrics /\ ("metrics" \in patched <=> "metrics" \in patched'))
          /\ row'.status = "completed" =>
                row.status = "completed" /\ ("status" \in patched <=> "status" \in patched')
          /\ \A q \in Requests \ {r} : view'[q] = view[q]
      BY <2>1, <2>4, <1>0
    <3>2. ArtifactsMatch'
      BY <2>2, <2>4, <3>1 DEF ResultInv, ArtifactsMatch
    <3>3. \A q \in Requests : Unknown(q, row) => Unknown(q, row')
      BY <2>4, <3>1 DEF Unknown
    <3> QED BY <2>2, <2>4, <3>1, <3>2, <3>3, ResultKept DEF Before
  <2> QED BY <2>1, <2>2, <2>3, <2>4, <1>0, SaveCases
<1>5. ASSUME NEW r \in Requests,
             Dispatch(r) \/ Run(r) \/ Upload(r) \/ Track(r) \/ Fail(r) \/ FlushFails(r)
      PROVE  ResultInv'
  <2>1. PICK label : /\ Goto(r, label)
                     /\ label \in Before => pc[r] \in Before
                     /\ label = "complete" => r \in files'
    BY <1>5 DEF Dispatch, Run, Upload, Track, Fail, FlushFails, Before
  <2>2. row' = row /\ patched' = patched /\ view' = view /\ files \subseteq files'
    BY <1>5 DEF Dispatch, Run, Upload, Track, Fail, FlushFails, sharedVars
  <2>3. ArtifactsMatch'
    BY <2>2 DEF ResultInv, ArtifactsMatch
  <2>4. label \in Before => Unknown(r, view'[r])
    BY <2>1, <2>2 DEF ResultInv
  <2> QED BY <2>1, <2>2, <2>3, <2>4, ResultKept
<1>6. CASE Patch
  <2>1. /\ files' = files /\ view' = view /\ pc' = pc /\ patched \subseteq patched'
        /\ row'.metrics \in {Client, Error, row.metrics} /\ row'.uris \in {Client, row.uris}
        /\ row'.status = row.status \/ "status" \in patched'
        /\ row'.metrics = row.metrics \/ "metrics" \in patched'
        /\ row'.uris = row.uris \/ "uris" \in patched'
    BY <1>6 DEF Patch
  <2>2. ArtifactsMatch'
    BY <2>1 DEF ResultInv, ArtifactsMatch
  <2>3. \A q \in Requests : Unknown(q, row) => Unknown(q, row')
    BY <2>1 DEF Unknown
  <2> QED BY <2>1, <2>2, <2>3 DEF ResultInv
<1>7. CASE Delete
  BY <1>7 DEF Delete, Gone, Fresh, ResultInv, ArtifactsMatch, Unknown
<1>8. CASE Crash
  <2>1. /\ row' = row /\ patched' = patched /\ view' = view /\ files' = files
        /\ \A q \in Requests : pc'[q] \in {pc[q], "crashed"}
    BY <1>8 DEF Crash, sharedVars
  <2> QED BY <2>1 DEF ResultInv, ArtifactsMatch, Before
<1>9. CASE UNCHANGED vars
  BY <1>9 DEF vars, sharedVars, ResultInv, ArtifactsMatch
<1> QED BY <1>1, <1>2, <1>3, <1>4, <1>5, <1>6, <1>7, <1>8, <1>9 DEF Next, Step

\* The metrics in a row and its artifacts are of the same execution, or the metrics
\* are an error; the artifacts of a completed row are in the object store.
THEOREM BacktestArtifacts == Spec => []ArtifactsMatch
<1>1. Init => TypeOK /\ ResultInv
  BY BacktestAssumption
     DEF Init, TypeOK, Rows, Fresh, Statuses, PCs, ResultInv, ArtifactsMatch, Unknown
<1>2. TypeOK /\ ResultInv /\ [Next]_vars => (TypeOK /\ ResultInv)'
  BY TypeOKStep, ResultStep
<1>3. ResultInv => ArtifactsMatch
  BY DEF ResultInv
<1> QED BY <1>1, <1>2, <1>3, PTL DEF Spec
=============================================================================
