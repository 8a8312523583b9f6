----------------------------- MODULE BacktestRun -----------------------------
(***************************************************************************)
(* One backtest of app/api/backtests and the requests that execute it,     *)
(* synchronously in the API's session or as a task in a session of its own:*)
(* engines/backtest_engine/pipeline.py and storage.py.                     *)
(*                                                                         *)
(* A session remembers the row as it loaded or last wrote it (view), and an*)
(* UPDATE has only the columns whose new value differs from that.  When a  *)
(* flush fails the session refuses every later commit until a rollback,    *)
(* which the pipeline's except clause does not do.                         *)
(***************************************************************************)
EXTENDS Integers

CONSTANTS Requests,       \* requests to execute the backtest
          PatchStatuses,  \* the states clients write with PATCH
          MaxPatches,     \* bound: PATCH requests
          MaxCrashes,     \* bound: crashes of the service
          NoRun,          \* no result in the row
          Error,          \* metrics that hold the text of an exception
          Client          \* metrics or URIs of which a client has written something

Statuses == {"pending", "running", "completed", "failed"}

ASSUME BacktestAssumption ==
    /\ {NoRun, Error, Client} \cap Requests = {}
    /\ NoRun # Error /\ NoRun # Client /\ Error # Client
    /\ "gone" \notin PatchStatuses
    /\ MaxPatches \in Nat /\ MaxCrashes \in Nat

VARIABLES
    row,      \* the row of the backtest; a result is named after its request
    patched,  \* history: the columns that are as a client has written them
    view,     \* view[r]: the row as the session of r has it
    pc,       \* pc[r]: where request r is
    files,    \* the requests whose artifacts are in the object store
    logged,   \* the requests with a row in the experiments table
    patches,  \* PATCH requests so far
    crashes   \* crashes so far

sharedVars == <<row, patched, files, logged>>
counters == <<patches, crashes>>
vars == <<sharedVars, view, pc, counters>>

\* The URIs stand for both columns, trades_uri and equity_curve_uri.
Rows == [status : Statuses \cup PatchStatuses \cup {"gone"},
         metrics : Requests \cup {NoRun, Error, Client},
         uris : Requests \cup {NoRun, Client}]
Fresh == [status |-> "pending", metrics |-> NoRun, uris |-> NoRun]
Gone == [Fresh EXCEPT !.status = "gone"]

\* From the test of the state until the request is over.
Executing == {"run", "upload", "complete", "failing"}
Active == {"dispatch", "queued", "mark", "refresh", "track"} \cup Executing
PCs == Active \cup {"idle", "refused", "done", "error", "raised", "crashed"}

Init ==
    /\ row = Fresh
    /\ view = [r \in Requests |-> Fresh]
    /\ pc = [r \in Requests |-> "idle"]
    /\ patched = {} /\ files = {} /\ logged = {}
    /\ patches = 0 /\ crashes = 0

Goto(r, label) == pc' = [pc EXCEPT ![r] = label]
Load(r) == view' = [view EXCEPT ![r] = row]

\* Commit the row as the session of r has it now.  An UPDATE of a row that is gone
\* raises.
Save(r, new, label) ==
    LET changed == {f \in DOMAIN new : new[f] # view[r][f]}
    IN  IF row.status = "gone" /\ changed # {}
        THEN Goto(r, "raised") /\ UNCHANGED <<row, patched, view>>
        ELSE /\ row' = [f \in DOMAIN row |-> IF f \in changed THEN new[f] ELSE row[f]]
             /\ patched' = patched \ changed
             /\ view' = [view EXCEPT ![r] = new]
             /\ Goto(r, label)

-----------------------------------------------------------------------------
(* Executing a backtest *)

\* execute_backtest: 404 for a row that is gone, 409 for one that is running.
Post(r) ==
    /\ pc[r] = "idle"
    /\ Load(r)
    /\ Goto(r, IF row.status \in {"gone", "running"} THEN "refused" ELSE "dispatch")
    /\ UNCHANGED <<sharedVars, counters>>

\* The task queue takes the task, or the request goes on by itself: in synchronous
\* mode, and when delay raised, after which the queue does not run the task.
Dispatch(r) ==
    /\ pc[r] = "dispatch"
    /\ \E label \in {"queued", "mark"} : Goto(r, label)
    /\ UNCHANGED <<sharedVars, view, counters>>

\* The task loads the row again, and does not look at its state.
StartTask(r) ==
    /\ pc[r] = "queued"
    /\ Load(r)
    /\ Goto(r, IF row.status = "gone" THEN "raised" ELSE "mark")
    /\ UNCHANGED <<sharedVars, counters>>

MarkRunning(r) ==
    /\ pc[r] = "mark"
    /\ Save(r, [view[r] EXCEPT !.status = "running"], "run")
    /\ UNCHANGED <<files, logged, counters>>

\* Market data, features, signals and the engine.
Run(r) ==
    /\ pc[r] = "run"
    /\ Goto(r, "upload")
    /\ UNCHANGED <<sharedVars, view, counters>>

\* Equity curve, trades and drawdowns, under a fresh run_id.
Upload(r) ==
    /\ pc[r] = "upload"
    /\ files' = files \cup {r}
    /\ Goto(r, "complete")
    /\ UNCHANGED <<row, patched, logged, view, counters>>

\* Mutant: the URIs of the artifacts are not written.
CompleteMetricsOnly(r) ==
    /\ pc[r] = "complete"
    /\ Save(r, [view[r] EXCEPT !.status = "completed", !.metrics = r], "refresh")
    /\ UNCHANGED <<files, logged, counters>>

Complete(r) ==
    /\ pc[r] = "complete"
    /\ Save(r, [status |-> "completed", metrics |-> r, uris |-> r], "refresh")
    /\ UNCHANGED <<files, logged, counters>>

\* persist_backtest_result ends with a refresh, which needs the row.
Refresh(r) ==
    /\ pc[r] = "refresh"
    /\ IF row.status = "gone"
       THEN Goto(r, "failing") /\ UNCHANGED view
       ELSE Goto(r, "track") /\ Load(r)
    /\ UNCHANGED <<sharedVars, counters>>

\* log_backtest_run: MLflow, and then a row of its own.
Track(r) ==
    /\ pc[r] = "track"
    /\ logged' = logged \cup {r}
    /\ Goto(r, "done")
    /\ UNCHANGED <<row, patched, files, view, counters>>

\* Mutant: the exception's text is stored and the state forgotten.
SaveFailedTextOnly(r) ==
    /\ pc[r] = "failing"
    /\ Save(r, [view[r] EXCEPT !.metrics = Error], "error")
    /\ UNCHANGED <<files, logged, counters>>

\* The except clause of execute, whatever was committed before it.
SaveFailed(r) ==
    /\ pc[r] = "failing"
    /\ Save(r, [view[r] EXCEPT !.status = "failed", !.metrics = Error], "error")
    /\ UNCHANGED <<files, logged, counters>>

\* An exception that leaves the session usable: market data, engine, object store,
\* a read of the database, MLflow.
Fail(r) ==
    /\ pc[r] \in {"run", "upload", "refresh", "track"}
    /\ Goto(r, "failing")
    /\ UNCHANGED <<sharedVars, view, counters>>

\* A flush fails: inside the try (the feature pipeline commits too) the except
\* clause's own commit raises, and the row stays as it is.
FlushFails(r) ==
    /\ pc[r] \in {"mark", "run", "complete", "track", "failing"}
    /\ Goto(r, "raised")
    /\ UNCHANGED <<sharedVars, view, counters>>

Step(r) ==
    \/ Dispatch(r) \/ StartTask(r) \/ MarkRunning(r) \/ Run(r) \/ Upload(r)
    \/ Complete(r) \/ Refresh(r) \/ Track(r) \/ SaveFailed(r)

-----------------------------------------------------------------------------
(* Around the executions *)

\* update_backtest writes any of the columns of BacktestUpdate, whatever they hold and
\* whoever is at work on the row.  Client stands for every value but an exception's text
\* (which SaveFailed may find in its view).
Patch ==
    /\ row.status # "gone"
    /\ patches < MaxPatches /\ patches' = patches + 1
    /\ \E s \in PatchStatuses \cup {row.status}, m \in {Client, Error, row.metrics},
          u \in {Client, row.uris} :
          LET new == [status |-> s, metrics |-> m, uris |-> u]
          IN  /\ row' = new
              /\ patched' = patched \cup {f \in DOMAIN new : new[f] # row[f]}
    /\ UNCHANGED <<files, logged, view, pc, crashes>>

Delete ==
    /\ row.status # "gone"
    /\ row' = Gone
    /\ patched' = {}
    /\ UNCHANGED <<files, logged, view, pc, counters>>

\* The service dies with its sessions and its queue of tasks.
Crash ==
    /\ crashes < MaxCrashes
    /\ crashes' = crashes + 1
    /\ pc' = [r \in Requests |-> IF pc[r] \in Active THEN "crashed" ELSE pc[r]]
    /\ UNCHANGED <<sharedVars, view, patches>>

Next ==
    \/ \E r \in Requests : Post(r) \/ Step(r) \/ Fail(r) \/ FlushFails(r)
    \/ Patch
    \/ Delete
    \/ Crash

Spec == Init /\ [][Next]_vars

\* Event loop and workers go on with what they have begun.
FairSpec == Spec /\ \A r \in Requests : WF_vars(Step(r))

-----------------------------------------------------------------------------
(* Properties *)

\* Every variable has its type.
TypeOK ==
    /\ row \in Rows
    /\ view \in [Requests -> Rows]
    /\ pc \in [Requests -> PCs]
    /\ patched \subseteq {"status", "metrics", "uris"}
    /\ files \subseteq Requests /\ logged \subseteq Requests
    /\ patches \in 0..MaxPatches /\ crashes \in 0..MaxCrashes

Abandoned == \E r \in Requests : pc[r] \in {"raised", "crashed"}

\* The row says of itself that it is running: no client has written that.
SaysRunning == row.status = "running" /\ "status" \notin patched

\* A row in state running, for which every execution is refused, has somebody at
\* work on it, unless a client wrote the state or an execution was broken off by a
\* crash or the database.  Any number of executions may overlap, each knows only its
\* own view, and clients write other states meanwhile.
RunningHasRunner ==
    SaysRunning => Abandoned \/ \E r \in Requests : pc[r] \in Executing

\* However executions overlap and fail, and whatever clients write beside them: the
\* metrics of a row and its artifacts are of the same execution, or the metrics are an
\* error, unless a client wrote one of them; and a row that an execution completed has
\* artifacts, which are in the object store, unless a client wrote others.
ArtifactsMatch ==
    /\ {"metrics", "uris"} \cap patched = {} => row.metrics \in {row.uris, Error}
    /\ {"status", "uris"} \cap patched = {} /\ row.status = "completed" => row.uris \in files

\* A running row does not stay so, unless an execution was broken off.
RunningSettles == SaysRunning ~> (~SaysRunning \/ Abandoned)
=============================================================================
