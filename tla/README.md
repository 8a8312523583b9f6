# A verification project for the research layer backend

TLA+ models of the parts of this backend where order matters: the background
task queue, the data layer and its providers, the feature store, the training of models,
the execution of backtests, the status of a strategy and the research agents; and of
the algorithms that split data, evaluate rule trees and rank candidates. TLC checks
every model on a small instance; TLAPS proves every safety property that the runs check,
for every value of the constants. Paths in this document are relative to `src/`.

- [The system](#the-system): components, state, operations, what is hard
- [The modules](#the-modules): what models what, and how to read it
- [The runs](#the-runs): what each check asks, its bounds and why they are enough
- [Fairness](#fairness)
- [The proofs](#the-proofs): what is proved, from what, and along which argument
- [Assumptions about the world around the code](#assumptions)
- [What disagrees](#what-disagrees): the findings
- [What is not modelled, and the plan](#what-is-not-modelled-and-the-plan)

## The system

A FastAPI service (`app/main.py`) in one process: an asyncio event loop that
serves requests and a `ThreadPoolExecutor` that runs background tasks. (For
`EVENT_BACKEND` `kafka` there is also a consumer with a daemon thread of its own,
`app/events/bus.py`, but nothing in this commit starts it.) State is in
SQLite through SQLAlchemy (two databases: the platform's and the data layer's),
in an object store (Parquet files, backtest artifacts), in a `DiskCache`, in
MLflow, and in memory.

| component | state it keeps | operations | correct when |
|---|---|---|---|
| **Task queue** `app/workers/task_queue.py` | `TaskState._tasks`, the globals `_thread_pool` and `_scheduler`, the executors' work queues | `submit_task`, `schedule_task`, `get_task_status`, `is_ready`, `shutdown`; the worker function `_run` | a task is run at most once, its record says what its function did, an accepted task is settled also across a shutdown, a refused one never runs |
| **Readers of tasks** `app/main.py`, `app/workers/task_app.py` | none of their own; a dict or a result while they read | the polling endpoint, `LocalAsyncResult.ready/failed/get` | a reader that looks without the lock still tells only what is true |
| **Data layer** `app/data/` | provider data, `DiskCache`, the registry's tables, Parquet files | the OHLCV, news, fundamentals and macro pipelines, cache invalidation, flush and refresh | no name without its file, cache and registry agree, nobody is given older data than somebody had before |
| **Backtests** `app/api/backtests/`, `app/engines/backtest_engine/` | the backtest's row, artifacts in the object store, experiments | create, patch (any column), delete, execute (synchronously or as a task) | a row that an execution left running has a runner, metrics and artifacts that executions wrote belong together |
| **Strategies** `app/api/strategies/`, `app/engines/validation_engine/`, `app/engines/promotion/` | the strategy's status, experiments, events | patch (any status), delete, walk-forward and CPCV validation, promote, demote | what a request has committed took effect, a promotion found the row validated and goes by the best evidence |
| **Feature store** `app/engines/feature_engine/` | rows of feature datasets, Parquet files, a cache by version hash | find, write, read, `run_one`, `run_many` | one dataset for one version; a reader gets the bytes of its version |
| **Training, tracking, signals** `app/engines/model_training_engine/trainer.py`, `app/engines/tracking/`, `app/engines/signal_engine/pipeline.py` | the model's row, artifacts, MLflow runs, experiment rows | `train`, `log_training_run`, generate signals, patch, delete | nothing recorded is ahead of what it rests on; signals are explained by the parameters and the artifact they name |
| **Splits** `app/engines/model_training_engine/cross_validation.py`, `app/engines/validation_engine/` | none beyond a call | `TimeSeriesCV.split`, walk-forward, CPCV | no row is predicted by a model that has seen it, or that was trained on a move of the price its label is made of |
| **Rules** `app/engines/signal_engine/rule_engine.py` | none beyond a call | dry run, evaluation per row | a signal is what the tree means |
| **Selection** `tuning.py`, `automl.py`, `app/workers/sweep_tasks.py` | none beyond a call | tune, AutoML, sweep | the first is a best one, a failure is never before a result |
| **Providers** `app/data/ingestion/providers/`, `feature_engine/market_data_client.py` | the in-memory circuit breaker of Yahoo | get with two attempts; download with three tries; check, record, reset | the count stays bounded, an open circuit closes |
| **Research agents** `app/agents/`, `app/api/agents/router.py` | `_sessions`, a context per request, and through it strategies and models | research, stream, chat; the manager and its agents | a snapshot names models that were committed, with their plugin, and a strategy that was committed or that a client named; a report is about one model |
| **Events** `app/events/` | the cached publisher | publish; consume and dispatch (never started) | an event of a committed change is delivered |

### How they interact

The routers of backtests, models and validation *call* `.delay(...)` of a task
wrapper, which calls `submit_task`; when it raises, the router runs the work
itself in the request. A worker *shares* the record of a task with the readers.
Submissions come from the event loop's thread: every endpoint that calls `.delay` is
`async`. A task opens a session of its own and so knows a row as it was
when it loaded it; the API does the same in its session; the two meet only in
the database. The research agents *call* the same engines in the session of their
request, and hand results to one another through the context and through the rows.
The promotion *reads* the backtests that executions move, and
*publishes* an event after its commit. The data layer *shares* cache, registry
and object store among all requests, and SQLite's write lock is, without anybody
having said so, what orders its writers.

### What is hard here

- **Unlocked globals**: the lazy `_thread_pool`, which two threads construct at
  once, and `shutdown` which clears it under the feet of a submission.
- **Torn reads**: `get_task_status` reads the fields of a task without the lock,
  between two assignments of `update`.
- **Stale sessions**: a status is tested in one session, minutes later a task
  writes in another; SQLAlchemy writes only the columns that differ from its own
  view, so two executions can leave a row that no single one wrote, and an UPDATE may be
  left out although the row says something else.
- **Clients that may write everything**: a PATCH takes any status of a strategy or
  backtest and a backtest's metrics and URIs; a research request takes any strategy id.
- **Two stores, one step**: object store, cache, database, MLflow and Kafka are
  written one after the other; anything may fail, and the process may die, in
  between.
- **Late exceptions**: `except` clauses that cover more than they mean to, and a
  failed flush which makes the `except` clause's own commit raise.
- **Clients that give up**: a request goes on in the data service after its client has
  timed out and asked again, and all of them share one count of failures.
- **Agents that fail**: each catches what goes wrong in it, the next ones run on with
  what is in the context, and the session may be unusable.
- **Index arithmetic**: folds of a few rows, remainders of divisions, windows that are
  kept or skipped one by one.
- **Check then act**: the key that is tested and then written, the dataset that
  is looked up and then inserted.

`PROJECT.json` lists the hazards one by one, each at its line, with the
properties that watch it or the reason why none does.

## The modules

| module | models | kind |
|---|---|---|
| `TaskPromise` | what the queue promises to those who dispatch work to it | abstract specification |
| `TaskQueue` | `app/workers/task_queue.py` | component, refines `TaskPromise` |
| `TaskClient` | the readers of tasks, composed with `TaskQueue` | composition |
| `DatasetPromise` | what the data layer promises to the clients of the delivery API | abstract specification |
| `Ingestion` | requests of the data layer, cache, registry, files, crashes | component, refines `DatasetPromise` |
| `BacktestRun` | one backtest and the executions on it | component |
| `StrategyLifecycle` | the status of one strategy, under every request that writes it | component; sees backtests as `BacktestRun` leaves them |
| `FeatureStore` | runs of the feature pipeline over store, cache and database | component |
| `Providers` | `MarketDataClient._get`, the data service's requests, the providers and Yahoo's circuit breaker | component |
| `ModelTraining` | one model's row, the trainings that write it, tracking, signal generation | component |
| `Research` | the research agents, their endpoints and sessions | composition of the engines as the agents call them |
| `Splits` | `TimeSeriesCV`, walk-forward and CPCV splits and the loops over them | algorithm |
| `RuleEngine` | the rule engine and the requests that run it | algorithm |
| `ModelSelection` | tuning, AutoML, sweeps | algorithm |
| `Algorithms` | the last three side by side, for one run | composition |
| `TaskQueueProofs`, `IngestionProofs`, `BacktestRunProofs`, `StrategyLifecycleProofs`, `FeatureStoreProofs`, `ModelTrainingProofs`, `ResearchProofs`, `AlgorithmProofs` | | theorems; those of `TaskClient` are in `TaskQueueProofs`, those of `Providers` in `IngestionProofs` |
| `MC*` | | instances for TLC |

Everywhere a *step* is what one thread or coroutine does between two accesses of
state that somebody else can reach: for threads that is a field, for coroutines
it is what lies between two `await`s, for sessions a commit. Names are the
code's; where the code has a local variable that lives across steps, the model
has a function of the requests or threads (`held`, `executor`, `view`, `uri`).
Operators whose comment begins with *Mutant* are not part of any specification:
each is a plausible bug in the definition after it, and the property it is
paired with in `PROJECT.json` fails when it takes that definition's place.

### TaskQueue and TaskPromise

`status`, `startedAt`, `completedAt`, `result` and `error` are the fields of
`TaskInfo` (the two times only as set or unset), `lock` is the lock of
`TaskState`, `pool` the global, `poolState`, `queue` and `busy` the executors.
`Create`, `CheckPool`, `MakePool`, `ReturnPool`, `MarkStarted`, `Enqueue` and
`EnqueueRaises` are `submit_task` step by step, with `_get_thread_pool`'s test,
construction, assignment and return as four accesses of the global. `StartRun`,
`FinishRun`, `SetStatus`, `SetCompleted`, `SetPayload` are a worker: the
assignments of `update` are one step each because a reader can see between them.
A function ends by returning (something or `None`), by an exception with or
without a text, or by something that is no `Exception` (`Outcomes`).
`ShutdownScheduler` to `ClearPool` are `shutdown`.

`AddJob` models what this code does with the APScheduler it pins
(`requirements.txt:22`): `date.DateRunTime` does not exist there, so
`schedule_task` raises after it has already submitted the function; nothing else
of the scheduler can be reached.

`TaskPromise` says what the dispatching routers rely on: a task is run at most
once, and judged at most once and finally, by the worker that holds it.
`PromiseKept` is the refinement: `Phase` reads it off `worker`, `Verdict` off
`status`.

### TaskClient

`Lookup`, `ReadStatus`, `ReadCompleted`, `ReadError` and `ReadResult` are
`get_task_status`, one field at a time; `Use` is what the caller makes of the
dict: the endpoint reports it, `LocalAsyncResult.get` polls until ready, then
asks again whether it failed, then reads a third time for what it returns or
raises. `reply[r]` is the last answer, with the task it is about: of two answers the
property compares those about one task. The event loop's thread either submits or polls
(`QueueStep`).

### Ingestion and DatasetPromise

A request (`Ask`) looks into the cache twice, at the endpoint and in the pipeline
(`LookCache`), then into the registry (`LookRegistry`, `Recache`), and otherwise
ingests: `LogStart`, `Download`, `Head` and `Put` (the object store's test and
upload), `Create`, `CacheSet`, `Commit`, with `Fail` and `Rollback` for what goes
wrong, and `Read` for DuckDB. `writer` is SQLite's write lock, which the flush in
`log_start` takes and the session's end gives back; what is flushed and not
committed exists only in the writer's session and so has no variable of its own.
Around the requests the provider revises its data, cache entries expire or are
invalidated, a refresh drops them, and the service dies. `served`, `refreshed`
and `floor` are history variables. Hashes are values: a dataset *is* its hash.

`DatasetPromise` has no cache, registry, lock or file: a dataset is a register that is
written once. A request is *offered* a version and then given it, or an error; what is
offered does not get older as long as nothing is published, and is the published version
afterwards. In the refinement `DataPromiseKept` a version is published by the commit of
its record (`Published` reads it through `record`), and offered to a request that is
about to read its file (`Offered`); a failure or a crash withdraws offers. The promise
is stronger than one might expect of a cache that is set before the commit: a version
that the cache showed and no commit followed may be offered, but only a version at least
as new is published after it.

### BacktestRun

`row` is the database's row, `view[r]` the row as the session of request `r` has
it. `Save` is a commit: it writes the columns in which the new state differs from
the view, and raises when the row is gone. `Post` to `Track` is an execution; the
test of the state is in `Post`, the task that starts later (`StartTask`) does not
repeat it. `Fail` is an exception that leaves the session usable and leads to the
`except` clause (`SaveFailed`); `FlushFails` is one that does not, after which
that clause's own commit raises. `Patch`, `Delete` and `Crash` are around them. A
result is named after the request that made it. `Patch` writes any of the columns of
`BacktestUpdate`, each or several of them: any of the states the instance names, metrics
and URIs (`Client` stands for whatever a client writes there). The two URI columns are
one, as executions always write them together; a PATCH of one of them makes both the
client's. `patched` is a history variable: the columns whose value is a client's, until
an execution writes them again. The properties speak of what executions wrote: about a
column that a client has overwritten the code promises nothing.

### StrategyLifecycle

`view[r]` is the status as request `r` loaded it. The six kinds of request share
their steps: `Load`, `Gates` (`WalkForward` or `Cpcv`: the assembly of features and the
validation, minutes long, with its `Verdict`), `Evidence` (the choice of a backtest by a promotion), `Commit`, `Publish`,
`Track`, `Delete`; `AfterLoad` and `AfterCommit` give each kind its order. CPCV
runs its gates first and loads the strategy only if they passed; walk-forward loads
first. `backtest` moves as `BacktestRun` lets it. A PATCH writes any status, `validated`
and `promoted` among them (`Targets`), as nobody checks it. Two history variables:
`steady[r]`, the backtests that were completed ever since `r` loaded the strategy, and
`during[r]`, every status the row has had since then.

As clients may write any status, a status by itself says nothing of its grounds. What the
code does keep is `TakesEffect`: a session compares with a view that may be minutes old,
and may leave its UPDATE out because of it, but what it has committed without an exception
was the row's status at some time while the request was under way; and a promotion, which
has read `validated`, writes `promoted` over whatever is there by then. The documents say
more (that what is promoted has been validated by the engine, that a passed validation
leaves the strategy validated), which the code does not keep, even with clients who only
archive: these are findings, and behaviours of the model.

### FeatureStore

A *run* is one request or task: `Load` (its features, in whatever order the query gives
them, `Orders`; a run of one feature raises when it is gone, a `Lenient` one, such as a
training, goes on with those it finds), `Fetch`
and `FetchTimesOut` (the client's two attempts), then for each feature `Compute`,
`Find`, and either `Put`, `CacheNew`, `Insert` or nothing, and `Read` from the
cache or `Get` and `Recache` from the store; `Frame` adds the frame and goes to the
next feature. `Raise` is an exception, `Fail` everything that can cause one and a
crash. `Find` raises when there are two rows, as `scalar_one_or_none` does. A
version hash is the pair of what it is computed from, definition and fingerprint;
symbol, timeframe and dates are those of one slice of data. News are what a plugin
makes of them, `0` being the zeros of a failed fetch. Around the runs the provider
revises its data, cache entries expire, and features are changed or deleted.

### Providers

`client` is a caller in `_get`: `Get`, `Retry` and `GiveUp` (after thirty seconds, or
when the service cannot be reached). `call[s]` is a request of the data service, which
`Request` makes and which outlives its client. `Start` and `Refuse` are `is_open`
before a download, `TryAgain` tenacity's next try, `Fails` and `Succeeds` the end with
`record_failure` or the reset; `StartOther`, `FallBack` and `EndOther` are the
providers without a breaker, news with its second source; `Unsupported` is Yahoo's refusal
of a timeframe it does not have, which counts as no failure; `Lose` is a request that
never reaches the data service. `failures[f]` is the count and the age of the last
failure, so that time is `Tick`: the age stops at one past `ResetTimeout`, as all
greater ages are alike. `AfterIsOpen` is the deletion that `is_open` makes on the way.

### ModelTraining

`model` is the row or `Gone`; `training[t]` has the step, the data and the row as the
session of `t` saw it. `Begin` to `Refresh` are `ModelTrainer.train`; `StartRun` to
`WriteRunId` `log_training_run` for the trainings that know a strategy (`Tracked`).
`ReadModel`, `Features` and `Predict` are a generation of signals, of the API, a task or
a backtest: it reads the row once and the artifact later. `Commit` writes, as SQLAlchemy
does, the columns that differ from the view. `Patch`, `Delete`, `DeleteLogic`,
`DeleteExperiment` and `Crash` are around them. An artifact, and an MLflow run, are
named after their training; metrics are a function of parameters and data.

### Research

`pc[r]` is the agent whose turn it is, `ctx[r]` what the agents read and write,
`poisoned` the requests whose session only a rollback could save, `sessions` the
snapshots in memory. `Ask` and `Chat` begin a request (`Rehydrate` is what a chat takes
from a snapshot). A request may come with any strategy id: of a row, of one that is
deleted, or one of the `Strangers`, of which there never is a row, for nobody looks it
up; `named` is the history of the ids that came in this way. The others are steps of a
request: `EnsureStrategy` to `Govern` are the manager and its agents, each up to a
commit (`Tune`/`SaveTuned`, `Train`/`SaveTrained`/`Backtest`,
`WalkForward`/`SaveVerdict`/`Cpcv`); `Store` is the snapshot, `Disconnect` a client of a
stream that goes away. `Caught` is an agent that failed. What the agents compute is a
choice, of importance, scores, verdicts and flags; which model, plugin and parameters
they compute it from is not.

### Splits, RuleEngine, ModelSelection

One behaviour is one call, one step one turn of its loop. In `Splits` a window is four
row numbers, a fraction of the configuration the number of rows it comes to, and
`model[i]` the fold whose training window the model that predicts fold `i` has seen
(without refitting, the first one's). The loops over the folds and paths are modelled
with all their ends: a fold that predicts nothing and is passed over, a path that is too
small or comes to nothing, an exception from the cross-validation inside, from fitting
or predicting, which ends the whole validation; `reported` are those that the result
has. The label of row `t` is `close[t+h] / close[t] - 1`, so two labels share something
when a *move* between neighbouring closes is part of both (`Moves`): that is what
`LabelsPurged` excludes. The single closes `t+1..t+h`, of which the module's
introduction speaks, are not kept apart: the row `h` before the test window stays, and
its label is made with the close of the first tested row. That is a finding. In
`RuleEngine` a tree is a table of nodes, and the value of a node *true*, *false* or the
exception it ends with, so that the order in which `all()` and `any()` look matters as
in the code (`Judge` is one node, `EvalNode` the recursion); `Meaning` is the reference
it is checked against, in which a rule that cannot be evaluated may be either. In
`ModelSelection` a step evaluates one trial or candidate, which yields a score or fails;
`Sort` is the stable ranking at the end, in the direction the code takes for the metric:
`Place` counts who comes before a candidate.

## The runs

| run | asks | distinct states |
|---|---|---|
| `task_queue` | Two tasks (one scheduled), two submitting threads, a shutdown, pools that are made twice: single carrier, no forgotten task, refused tasks never run, records are right, shutdown drains and returns, queued tasks settle, and the promise is kept. | 52,920 |
| `task_client` | One task and its readers: a poll or `get` between any two assignments tells the truth, never goes back, and returns. | 31,788 |
| `ingestion` | Three requests for one dataset, a revision, a crash, failures anywhere: files behind names, cache and registry, audit rows, no overwriting, everybody answered, and the promise is kept. | 395,380 |
| `backtest_run` | Two executions that overlap, two PATCH requests of any columns, delete, failures, a crash: a runner for a running row, matching artifacts, and a running row that does not stay. | 798,219 |
| `strategy_lifecycle` | Three requests of any kind with old views, PATCH of any status, two backtests that move: commits take effect, promotions find the row validated and go by the best evidence. | 849,441 |
| `feature_store` | Three runs over two features of one definition, a revision, an edit or deletion, expiry, failures: rows with their files, runs with their own version, no overwriting. | 4,783,168 |
| `providers` | Clients that give up and ask again while their requests go on: how far the count can pass the threshold; an open circuit closes. | 99,938 |
| `model_training` | A tracked and an untracked training, a generation of signals, PATCH, deletions, a crash: recorded lineage is complete, signals are explained. | 368,820 |
| `research` | A research request, which may come with an id of no row, and a chat that goes on from its snapshot, failing agents, a client who changes or deletes rows, a crash: snapshots are sound, reports coherent. | 1,629,065 |
| `algorithms` | Every small configuration of the splits, rule trees and selections: no look-ahead, tiling, purging, coverage, nested folds, meaning, best first. | 92,006 |

Two more runs each look for one sentence of a document or docstring that the code
does not keep, and find the counterexample (see [What disagrees](#what-disagrees)):
`ingestion_refresh` and `features_duplicates`.

### Bounds

- *Two threads and two tasks* in the queue are enough for every race of the lazy
  initialisation (two constructions, one lost) and of submission against
  shutdown; *one worker per pool* makes tasks wait in the queue, which two
  workers and two tasks would not. `MCPools` has four executors, one more than
  can ever be made. The theorems lift all of this.
- *One task* with its readers: readers of different tasks share nothing but the
  lock, and the lock is held by the one task's worker. The theorems are about any number
  of tasks, and about polls of one thread for different ones.
- *Three requests for one dataset*: two race, the third comes with an old or a new
  view of what they left; requests for different datasets meet only at the write
  lock, which does not care what it is wanted for. One revision gives two versions
  to confuse. One crash separates a life before from a life after.
- *Two executions* of a backtest overlap, each with its own view, and either may begin when
  the other is over. Two PATCH requests (`MaxPatches`) write any columns at any time,
  `running` and `completed` among the states: a client can take a state away and give it
  back. The theorems are about any number of executions.
- *Three requests* of any kind: the shortest way to a wrong promotion (demote,
  load, overtake) takes two, and the third disturbs. *Two backtests* of which one
  is better make the choice matter. Clients write `archived`, `validated` or `promoted`.
- *Three runs* of the pipeline: two leave a duplicate, the third finds it. *Two
  features* of one definition share their file; the first may become a feature of news
  or be deleted. One revision gives two versions. The first two runs ask for the same
  and are symmetric; the third is `Lenient`, so it meets a feature that is gone and goes
  on; the run checks no liveness, so `SYMMETRY` is sound.
- *Three requests in the data service* and a threshold of two: two failures open the
  circuit, a third download was under way. One client suffices, since what it gives up
  goes on without it. `ResetTimeout` is two ticks, so that a failure can come before,
  at and after the end of the open time. `Tick` is bounded by the age, so the run has
  no other bound and checks for deadlock.
- *Two trainings* overlap on the row; one is tracked. *One generation* reads before or
  after either of them. Two parameters and two data sets, symmetric, are enough to tell
  a right pair from a wrong one. A `Crash` may come whenever something is under way.
- *A research request and a chat*: a snapshot and a context that came from it. One id
  that nobody created: what could differ between two of them is nothing. Two
  plugins, two parameter sets, one change or deletion by a client (`MaxChanges`), which
  bounds the only counter.
- *Algorithms*: data sets of 1 to 17 rows, up to five folds, gaps and embargoes of up to two
  rows, horizons up to three: folds are kept, skipped, cut short and refused. Rule trees
  of two groups with a branch, over six rules of which two cannot be evaluated, on tables
  with NaN or without a column. Up to four candidates, scores 0 to 2, so ties occur.
- Requests are taken once each: a client that asks again is another request. This
  is why the runs do not check for deadlock; where something must go on, a liveness
  property says so.
- `MaxVersion`, `MaxSource`, `MaxNews`, `MaxPatches` and
  `MaxCrashes` are the other counters, and
  guards bound them; `Edited` names the features that are changed, once each.

## Fairness

Weak fairness of the steps of threads and requests already under way, and nothing
else. The code justifies it: worker threads and coroutines are scheduled by the
operating system and by the event loop, and every external call they wait on has a
timeout or raises. No new request, no failure, no crash, no revision, no time-out
of a `get` is ever forced to happen.

- `QueuedSettles`, `ShutdownReturns`, `GetReturns`: fair threads, functions that
  return. A function that never returned would hold its worker for ever; that is
  outside of what the queue can promise. The lock is taken by threads that are
  weakly fair: the steps that take it are finite in number (every task is created,
  started and settled once), so it is free in the end.
- `Answered`: a request that waits for the write lock gets it or is refused
  (`LogStart` or `LogStartLocked`), so weak fairness of `Step(r)` is enough.
- `RunningSettles`: up to executions that were broken off, which the property
  names. Nothing in the code repairs those (see the hazards), nor a `running` that a client
  wrote, of which the property does not speak.
- `OpenCloses`: time passes (`WF_vars(Tick)`), nothing else. Failures may go on for as
  long as downloads that began before the circuit opened can still fail; those are
  finitely many, since an open circuit starts none.
- The other modules have no liveness: none of their requests waits for another.

## The proofs

Eight modules prove, for every value of the constants their assumptions allow:

| theorem | says |
|---|---|
| `TaskQueueTypes`, `TaskQueueOneCarrier`, `TaskQueueRaised`, `TaskQueueRecord` | `TaskQueue`: types, one carrier, refused tasks never run, the record tells what the function did |
| `TaskQueueForgetsNothing`, `TaskQueueDrained` | an accepted task is always somewhere, and a finished shutdown has drained its pool |
| `TaskQueueKeepsPromise` | `TaskQueue` implements `TaskPromise`: `PromiseKept`, the whole refinement, for any tasks, callers and workers |
| `GetIsFaithful`, `ReportIsTrue`, `ReportsAdvance` | `TaskClient`: what `get` gives and a poll reports is true, though read without the lock; reports do not go back |
| `IngestionTypes`, `NamedFilesExist`, `CacheFollowsRegistry`, `RecordHasOneRow` | `Ingestion`: types, files behind names, agreement, audit rows |
| `ServedDataNeverOlder`, `FilesNeverOverwritten` | the same, if the clock's microseconds never coincide (`~MayCoincide`) |
| `DataLayerKeepsPromise` | `Ingestion` implements `DatasetPromise`: `DataPromiseKept`, under the same assumption |
| `CircuitBounded` | `Providers`: how far the count of failures passes the threshold |
| `BacktestTypes`, `BacktestHasRunner`, `BacktestArtifacts` | `BacktestRun`: types, a runner, matching artifacts, whatever columns clients write |
| `StrategyTypes`, `CommitsTakeEffect`, `PromotionGoesByBest` | `StrategyLifecycle`: types, what a commit has done, evidence, whatever status clients write |
| `FeatureTypes`, `RowsAreStored`, `RunsAreServedTheirVersion`, `HistoryIsKept` | `FeatureStore`: types, files behind rows, own versions, no overwriting |
| `TrainingTypes`, `LineageIsComplete`, `SignalsAreExplained` | `ModelTraining`: types (with the phase of every view), lineage, signals |
| `ResearchTypes`, `SnapshotsAreSound`, `ReportIsCoherent` | `Research`: types, snapshots, reports about one model, whatever strategy ids clients come with |
| `NobodyLooksAhead`, `WindowsTile`, `PathsArePurged`, `EveryRowIsTested`, `NestedSplitsFit` | `Splits`: any number of rows, folds, tested folds, gaps, horizons |
| `SignalsAreMeant` | `RuleEngine`: any finite tree over any table |
| `SelectionsRank` | `ModelSelection`: any scores and number of candidates |

Types are the ground of every other proof and are proved; the runs spend their
properties on the other invariants.

None of these invariants is inductive as it stands. Each proof strengthens it in
layers, and a layer may use those below it:

- **TaskQueue.** `OneCarrier` says where a task may be, and nothing of how it came
  there. The strengthening (`HandInv`, `FreshInv`) follows a task from hand to hand:
  while a caller holds a task it is created, in no queue and with no worker; once in
  a queue it is in the hands of nobody who would enqueue it again; once a worker has
  it, no queue does. `RaisedNeverRuns` needs that the caller that got the exception
  was the only one with the task. `RecordInv` follows the assignments of `update` one
  by one, and needs that only the task's own worker writes its fields after it is
  enqueued. `ShutInv` says how far a shutdown has come, and what is still in the pool
  it waits for. The refinement is a step simulation: every step keeps all phases and
  verdicts, or moves one task as `TaskPromise` allows.
- **TaskClient.** A reader's snapshot is taken field by field while a worker assigns.
  `ReadSoFar` says of each field that was read what it still tells of the record now: the
  status is not ahead of it, a verdict, a completion time and a payload are final.
  `ReadAgain` is `get`'s second and third read: they begin after a verdict was seen, and
  look the task up under the lock, which its worker gives back only when all fields are
  written (`SettleInv`), so they see a complete record. `Report` compares what the endpoint
  has reported with the record and with what it is reading of the same task now.
- **Ingestion.** `NameInv` (names are of the dataset's own files and those exist),
  then `LockInv` (the request in its transaction is the writer: this is where
  SQLite's lock earns its keep), `StoreInv` (what the writer is about to put is not
  yet anybody's), `AgreeInv` (before the commit only the writer's file can be in
  the cache), `LogInv` (one row per record). Freshness adds `VersionInv` and
  `NamedInv`, which say that versions do not fall from what was served to what is
  named, and that a file, once named, is not put again. That last fact is false if
  the clock can show a suffix twice: hence the assumption. The refinement rests on all
  layers: `AgreeInv` makes a cache hit an offer of the published version, `NamedInv` a hit
  without a record an offer of the newest version, `VersionInv` and the unique hash make
  the commit the only publication; and since no step changes a file that exists
  (`FileKept`), what is published and offered stays what it was.
- **Providers.** `Overshoot` is inductive with the types and with the fact that only feeds
  of Yahoo have a count. A download starts only while the circuit is closed, when the
  requests under way are at most all the slots; after that every failure counted is one
  request fewer in flight. The sets in flight before and after a step differ by one slot,
  whose cardinality the lemmas follow.
- **BacktestRun.** `RunnerInv`: the only step that writes `running` leaves its
  request executing, and a request that stops executing either writes another status
  or is broken off. The delicate point is the stale view: a failing request whose own
  view does not say `running` would write nothing, so `Working` relates view and
  program counter to the row. `ResultInv`: nobody has seen a result that is not yet
  stored (`Unknown`), hence nobody's stale view can bring half of it back. A PATCH adds
  the columns it writes to `patched` and a commit takes those it writes away
  (`SaveCases`, `CommittedRows`), so that each part of the invariant is about columns whose
  last writer was an execution.
- **StrategyLifecycle.** `KindInv` (where a kind may be), `ViewInv` (when a request has a
  view, and that a promotion past its test has the view `validated`), `SeenInv` (a view is
  one of the statuses the row has had since: so when an UPDATE is left out because view
  and target agree, the target was in the row all the same), `EvidenceInv` (what was
  completed all along is completed now).
- **FeatureStore.** `StoreInv`: whatever lies under a hash, in store or cache, is
  what the hash says (`Matches`), but for the news. `RunInv` says the same of what a
  run carries, and that it fetched its version before it computed anything; `RowInv`
  that a row's hash is made of its run's definition and its own fingerprint, and that
  the file is there. `HistoryIsKept` follows because a content without news is
  determined by its hash (`OneContent`): a second put writes what was there.
- **ModelTraining.** `LineageInv` says for every step of a training what it has already
  written; the order artifact, row, run, experiment, run's id then gives
  `LineageBackwards`. `ParamsInv` follows parameters from the row into the views:
  parameters change only by `Patch`, which marks every training that has begun, so an
  artifact that is not marked was trained with the row's parameters, or with those of
  the view it is read with. `Commit` does not write parameters, which is why a stale
  view does no harm.
- **Research.** `Sound` is what is said of a snapshot, said of every context as well:
  agents that failed leave the context sound, a snapshot takes it over, and a chat gets
  it back. For its strategy this is that it was committed once or that a client named it
  (`named` only grows). `Own` adds that a request creates its own model at one place only, so no
  other request's context can name that model before it is committed with its plugin.
  For reports, `Mine` says that until a request is over nobody else's context, and no
  snapshot, has its model; `Agrees` that context and row then say the same of plugin and
  parameters unless a client changed them, and so do what an agent read before, the
  artifact and the backtest.
- **Splits.** `SplitInv` has a part per kind of job: the rows that are assigned so far,
  and the windows as the loop index gives them. Divisions enter through lemmas on
  multiples, with which the solver can do the rest. That labels are purged rests on the least
  test row: what stays lies a horizon before it, so its moves end before the first tested
  one begins. That all rows are tested equally often
  is a bijection: swapping folds `k` and `l` takes the combinations that contain `k` to
  those that contain `l`, so both are as many.
- **RuleEngine.** `EvalNode` is recursive over a tree, and the theorems on induction are not
  at the solver's disposal. The proof goes by the node with the greatest number for which
  something is false (`GreatestExists`): children have greater numbers, so it is true
  of them. `SolutionExists` shows in this way that a recursion that looks at greater numbers
  only has a solution, hence that `EvalNode` and `Meaning` satisfy their equations;
  `NodesAreTruthful` that where the first is *true* or *false*, the second is. `RuleInv`
  then needs only that the groups passed over on the row at hand came out *false*.
- **ModelSelection.** `Precedes` is a strict total order of the candidates, so `Place` is
  injective on a finite set, hence a bijection, and `Ranked` its inverse. `RankInv` adds
  that only a sweep has failures, and that they have `NoScore`.

Each module has one lemma per layer of the form "every step keeps it", split by
action; the temporal step at the end is the same everywhere.

**Only model-checked**: the liveness properties (`QueuedSettles`, `ShutdownReturns`,
`GetReturns`, `Answered`, `RunningSettles`, `OpenCloses`). Liveness under fairness and
`ENABLED` are beyond the prover. Everything else that a passing run checks is also the
statement of a theorem.

## Assumptions

Where a model depends on something outside `app/`, this is it.

- **Python.** A bytecode that reads or writes one attribute is atomic. Submitted
  functions end. Threads of an executor that is shut down finish what it accepted.
- **The event loop's thread** runs both the endpoints and the lifespan's
  `shutdown`; after that it serves nobody. `TaskQueue` has a second thread that
  submits, also during and after a shutdown: the queue is a module that any thread may
  call, and `app/events/handlers.py` dispatches tasks from what would be the consumer's
  thread. As nothing starts the consumer in this commit, the races of two submitters
  in `TaskQueue` cannot happen until it, or another such thread, is started; with one
  submitter the model has the races of the event loop, the workers and the readers.
- **SQLite** in the legacy transaction mode of `pysqlite`: a `SELECT` opens no
  transaction, the first write takes the database's write lock and holds it until
  commit or rollback, and a session that cannot get it in time raises.
- **SQLAlchemy** with `expire_on_commit=False`: a session keeps the attributes it
  loaded; an `UPDATE` has the columns that were set to something else than what the
  session has; an `UPDATE` that matches no row raises; after a failed flush nothing
  but a rollback helps. Deleting a strategy would set the NOT NULL `strategy_id` of
  its backtests and experiments to NULL, which raises. Foreign keys are not checked.
- **The schema exists and ids bind.** `app/db/session.py` creates the tables and
  `app/main.py` only prints a failure of that; on SQLite the ARRAY columns of
  strategies cannot be created as declared. Identifiers
  reach the database as `uuid.UUID` objects, which neither the text column's type nor
  `sqlite3` converts. The models are of a database in which the tables are there and
  identifiers match.
- **Clients** may PATCH any status of strategies and backtests and any other column of a
  backtest, and may name any strategy, but for ids the service has yet to draw at
  random. The one word a PATCH cannot write in the models is `gone`, which there stands
  for a row that is deleted. A PATCH of a model changes its parameters only (`Patch` in
  `ModelTraining`), and a chat comes without `context_override`, by which a client could
  write any field of the context (`Rehydrate` in `Research`).
- **Scores are numbers or failures** in `ModelSelection`: a NaN has no place in an
  order, and where `sorted` puts it is not modelled.
- **Sessions** of SQLAlchemy keep a row only as long as somebody refers to it, so a
  later `select` sees a fresh one; nobody rolls the session of a research request back,
  so after a failed flush it stays unusable.
- **The clock** shows no microsecond fraction for a key twice (`MayCoincide` is
  FALSE in the run and in the three theorems that need it). The other theorems hold
  without this.
- **A crash** ends all requests and loses the queue; what is committed, cached or
  uploaded stays. In `StrategyLifecycle` a crash is a `Fail` of every request that
  is under way, since its requests leave nothing behind in memory.

## What disagrees

Each is a `finding` in `PROJECT.json`, with the sentence and its line.

With a run that finds the counterexample:

1. `POST /cache/refresh` does not lead to a new download: the registry still has
   the record (`ingestion_refresh`).
2. One version of a feature can have two datasets, after which it resolves to none:
   every lookup raises (`features_duplicates`).

The others were found while reading and modelling, and are recorded without a run:

- *Tasks*: `schedule_task` submits at once, whatever `run_date` says; a poll can report
  SUCCESS without the result, since the status is assigned before the payload.
- *Backtests*: a completed backtest becomes FAILED when tracking fails after the
  commit; two tests of "already running" can both pass, and runs on one row can leave
  COMPLETED with the metrics of an error; the asynchronous answer does not fit its
  response model.
- *Strategies*: a draft that is demoted is VALIDATED and can be promoted without any
  validation; a validation that passes may leave its UPDATE out and the strategy archived, as
  a client made it meanwhile; governance flags are not looked at; a late validation overwrites a
  promotion; no event of the Market Data Layer is ever consumed, and the task for one
  would fail for want of a feature id.
- *Data*: every failure of a pipeline is reported as the provider's; a failed ingestion
  leaves no audit row, because its session is rolled back; news are no part of a
  feature's version hash.
- *Training*: an asynchronous tuning ignores the direction; a training of the API is not
  tracked, although the trainer says all are; the training task has none of the
  endpoint's checks; the two comparisons of experiments name the least and the greatest
  value of every metric the winner.
- *Validation and signals*: CPCV's purge keeps the row a horizon before the test window,
  whose label is made with the first tested close; it takes every row after the first test row out
  of the training set, so a combination that tests fold 0 trains on nothing; the dry run
  of a rule tree does not reach every branch; the output mode "score" gives actions.
- *Agents*: a request with a strategy id of no row gets no strategy either, and its
  snapshot names one that never existed; a chat takes the plugin from a key that only
  streams store; a chat runs the full pipeline; every short word of a query is a ticker;
  a critical flag blocks nothing.
- *Database*: ARRAY columns cannot be created on SQLite, and identifiers are compared as
  UUID objects with text columns, which as written raises. The models take both as
  repaired.

## What is not modelled, and the plan

- *Numeric code*: backtest metrics, indicators, model fitting, evaluation, sentiment,
  and the aggregates over folds (means, probability of overfitting, deflated Sharpe).
  Floating point is of no interest to a model checker. What is computed is a choice or
  the name of the inputs.
- *Normalizers and validators*: pure functions over the values of one table.
- *The engines' adapters* (backtrader, vectorbt) and plugins: libraries behind a registry.
- *Event consumer and handlers*: nothing calls them. The publisher that falls back to
  doing nothing for good is a hazard without a property.
- *Read-only endpoints* (listings, comparisons, downloads, health), schemas and
  configuration: they change no state.
- *Object storage, sessions, caches*: thin wrappers that appear as the steps of their
  users. `datasets.py` and `market.py` of the data service only read, apart from the
  pipelines that `Ingestion` has.
- *What governance flags and importance say*: in `Research` they are choices.
- *The service's own event loop being blocked* by a plugin that waits for its result.

Done, in this order: the task queue with its promise, its readers, the data layer with its promise,
backtests, strategies, the feature store; then splits, rules and selection, the
providers, training with tracking and signals, the research agents; and the proofs of
every safety property the runs check.

What would be worth doing next:

1. **Abstract specifications** of a strategy's life (a register of which every request
   says at what moment it took effect) and of the feature store (a version of a feature
   has one content), with `StrategyLifecycle` and `FeatureStore` shown to refine them,
   as `TaskQueue` and `Ingestion` refine theirs.
2. **More proofs**: the aggregates of `ModelTraining` and `StrategyLifecycle` under several
   rows at once; the abstract specifications above, step by step.
3. **Composition**: `Research` over `StrategyLifecycle` and `ModelTraining` in one
   behaviour, in place of the choices it makes of what they do now.
4. **Publishers**: the cached publisher, and the order of the events of different
   sessions.
