----------------------------- MODULE TaskQueue -----------------------------
(***************************************************************************)
(* app/workers/task_queue.py: the in-process task queue every router       *)
(* dispatches to.  Threads call submit_task, schedule_task, is_ready and   *)
(* shutdown; the threads of a ThreadPoolExecutor run the submitted         *)
(* functions and write the outcome into the shared TaskState.              *)
(*                                                                         *)
(* A step is what a thread does between two accesses of shared state. The  *)
(* field assignments of TaskState.update at the end of a task are separate *)
(* steps made under the lock, because get_task_status reads the fields     *)
(* without it (module TaskClient).                                         *)
(***************************************************************************)
EXTENDS Integers, Sequences, FiniteSets

CONSTANTS Tasks,       \* task ids (uuid4: never reused)
          Scheduled,   \* the tasks that enter through schedule_task
          Callers,     \* threads that call the queue: the event loop, and any other that submits
          Main,        \* the event loop's thread, which runs the shutdown
          Pools,       \* ThreadPoolExecutor objects that may be constructed
          NoPool,      \* the None of the global _thread_pool
          NoTask,      \* a caller that holds no task id
          Free,        \* the TaskState lock held by nobody
          MaxWorkers   \* max_workers of a pool

ASSUME TaskQueueAssumption ==
    /\ Scheduled \subseteq Tasks
    /\ Main \in Callers
    /\ NoPool \notin Pools
    /\ NoTask \notin Tasks
    /\ Free \notin Tasks \cup Callers
    /\ MaxWorkers \in Nat \ {0}

VARIABLES
    status, startedAt, completedAt, result, error,
                \* TaskState._tasks: the fields of each task's TaskInfo, the two
                \* times reduced to whether they are set
    lock,       \* TaskState._lock: Free, or the task whose worker holds it
    pool,       \* the global _thread_pool
    poolState,  \* poolState[p]: the executor object p
    queue,      \* queue[p]: the FIFO work queue of p
    busy,       \* busy[p]: the tasks p's worker threads hold
    worker,     \* worker[t]: where the worker that holds t is in _run
    outcome,    \* outcome[t]: how t's function ended
    scheduler,  \* whether the global _scheduler exists (and is started)
    runDate,    \* runDate[t]: the run_date of a scheduled task, relative to now
    pc,         \* pc[c]: where caller c is
    held,       \* held[c]: the task id in c's local variable task_id
    executor,   \* executor[c]: the pool in c's local variable executor
    stopped,    \* whether the lifespan has called shutdown (it does so once)
    answer      \* answer[t]: how the call that created t ended

vars == <<status, startedAt, completedAt, result, error, lock, pool, poolState,
          queue, busy, worker, outcome, scheduler, runDate, pc, held, executor,
          stopped, answer>>
infoVars == <<status, startedAt, completedAt, result, error>>
poolVars == <<pool, poolState, queue, busy>>
handVars == <<held, executor>>
callVars == <<pc, held, executor, stopped, answer>>
dateVars == <<scheduler, runDate>>

-----------------------------------------------------------------------------
(* Values *)

\* RETRY is in the enumeration and is never assigned.
TaskStatus == {"PENDING", "STARTED", "SUCCESS", "FAILURE", "RETRY"}
Terminal == {"SUCCESS", "FAILURE"}

\* A result is None or not; an error is unset, the text of an exception that
\* has one, or the empty text of an exception raised without a message.
Results == {"none", "value"}
Errors == {"none", "empty", "text"}
Created(t) == status[t] # "ABSENT"

\* How a submitted function ends: it returns (a value or None), it raises an
\* Exception (with or without a message), or something that is not an Exception
\* escapes from it (SystemExit, CancelledError) past the except clause of _run.
Outcomes == {"value", "none", "text", "empty", "escape"}
Returns == {"value", "none"}
Raises == {"text", "empty"}
VerdictOf(o) == IF o \in Returns THEN "SUCCESS" ELSE "FAILURE"

\* Where a thread is inside a call of the queue, and a worker inside _run.
CallerPC == {"idle", "check_pool", "make_pool", "return_pool", "mark_started",
             "enqueue", "add_job", "shut_pool", "shut_wait", "shut_clear"}
Settling == {"set_status", "set_completed", "set_payload"}
Holding == {"running", "set_status", "set_completed", "set_payload"}
WorkerPC == {"waiting", "over"} \cup Holding

InQueue(t, p) == \E i \in 1..Len(queue[p]) : queue[p][i] = t
Refuses(p) == IF p = NoPool THEN TRUE ELSE poolState[p] = "closed"

-----------------------------------------------------------------------------
Init ==
    /\ status = [t \in Tasks |-> "ABSENT"]
    /\ startedAt = [t \in Tasks |-> FALSE]
    /\ completedAt = [t \in Tasks |-> FALSE]
    /\ result = [t \in Tasks |-> "none"]
    /\ error = [t \in Tasks |-> "none"]
    /\ lock = Free
    /\ pool = NoPool
    /\ poolState = [p \in Pools |-> "unmade"]
    /\ queue = [p \in Pools |-> <<>>]
    /\ busy = [p \in Pools |-> {}]
    /\ worker = [t \in Tasks |-> "waiting"]
    /\ outcome = [t \in Tasks |-> "unknown"]
    /\ scheduler = FALSE
    /\ runDate = [t \in Tasks |-> IF t \in Scheduled THEN "future" ELSE "unset"]
    /\ pc = [c \in Callers |-> "idle"]
    /\ held = [c \in Callers |-> NoTask]
    /\ executor = [c \in Callers |-> NoPool]
    /\ stopped = FALSE
    /\ answer = [t \in Tasks |-> "none"]

-----------------------------------------------------------------------------
(* submit_task and schedule_task, one step per access of shared state.  The *)
(* event loop's thread takes no request any more once it has shut down.    *)

Goto(c, label) == pc' = [pc EXCEPT ![c] = label]
Return(c) ==
    /\ Goto(c, "idle")
    /\ held' = [held EXCEPT ![c] = NoTask]
    /\ executor' = [executor EXCEPT ![c] = NoPool]
MayCall(c) == pc[c] = "idle" /\ (c = Main => ~stopped)

\* TaskState.create, atomic under the lock.
Create(c, t) ==
    /\ MayCall(c)
    /\ lock = Free
    /\ ~Created(t)
    /\ status' = [status EXCEPT ![t] = "PENDING"]
    /\ held' = [held EXCEPT ![c] = t]
    /\ Goto(c, "check_pool")
    /\ UNCHANGED <<startedAt, completedAt, result, error, executor, lock,
                   poolVars, worker, outcome, dateVars, stopped, answer>>

\* is_ready, called by the health endpoint, creates the pool as well.
IsReady ==
    /\ MayCall(Main)
    /\ Goto(Main, "check_pool")
    /\ UNCHANGED <<infoVars, lock, poolVars, worker, outcome, dateVars,
                   handVars, stopped, answer>>

\* _get_thread_pool: the test of the global, without any lock ...
CheckPool(c) ==
    /\ pc[c] = "check_pool"
    /\ Goto(c, IF pool = NoPool THEN "make_pool" ELSE "return_pool")
    /\ UNCHANGED <<infoVars, lock, poolVars, worker, outcome, dateVars,
                   handVars, stopped, answer>>

\* ... the construction of a new executor and the assignment, whatever the
\* global holds by now ...
MakePool(c) ==
    LET unmade == {p \in Pools : poolState[p] = "unmade"}
    IN  /\ pc[c] = "make_pool"
        /\ unmade # {}
        /\ pool' = CHOOSE p \in unmade : TRUE
        /\ poolState' = [poolState EXCEPT ![pool'] = "open"]
        /\ Goto(c, "return_pool")
        /\ UNCHANGED <<infoVars, lock, queue, busy, worker, outcome, dateVars,
                       handVars, stopped, answer>>

\* ... and the return of the global as it is now: another thread's pool, or None.
ReturnPool(c) ==
    /\ pc[c] = "return_pool"
    /\ IF held[c] = NoTask
       THEN Return(c)
       ELSE /\ executor' = [executor EXCEPT ![c] = pool]
            /\ Goto(c, "mark_started")
            /\ UNCHANGED held
    /\ UNCHANGED <<infoVars, lock, poolVars, worker, outcome, dateVars, stopped,
                   answer>>

\* The status goes to STARTED before any worker has seen the task.
MarkStarted(c) ==
    /\ pc[c] = "mark_started"
    /\ lock = Free
    /\ status' = [status EXCEPT ![held[c]] = "STARTED"]
    /\ startedAt' = [startedAt EXCEPT ![held[c]] = TRUE]
    /\ Goto(c, "enqueue")
    /\ UNCHANGED <<completedAt, result, error, lock, poolVars, worker, outcome,
                   dateVars, handVars, stopped, answer>>

\* executor.submit(_run) on an open pool.
Enqueue(c) ==
    LET t == held[c]
        p == executor[c]
    IN  /\ pc[c] = "enqueue"
        /\ ~Refuses(p)
        /\ queue' = [queue EXCEPT ![p] = Append(@, t)]
        /\ IF t \in Scheduled
           THEN Goto(c, "add_job") /\ UNCHANGED <<held, executor, answer>>
           ELSE Return(c) /\ answer' = [answer EXCEPT ![t] = "task_id"]
        /\ UNCHANGED <<infoVars, lock, pool, poolState, busy, worker, outcome,
                       dateVars, stopped>>

\* Mutant: the submission fails and the caller is told the task id all the same.
EnqueueSwallows(c) ==
    /\ pc[c] = "enqueue"
    /\ Refuses(executor[c])
    /\ Return(c)
    /\ answer' = [answer EXCEPT ![held[c]] = "task_id"]
    /\ UNCHANGED <<infoVars, lock, poolVars, worker, outcome, dateVars,
                   stopped>>

\* Mutant: the item is put in the work queue before the executor's state is tested.
EnqueueThenRaises(c) ==
    LET p == executor[c]
    IN  /\ pc[c] = "enqueue"
        /\ Refuses(p)
        /\ IF p = NoPool THEN UNCHANGED queue
           ELSE queue' = [queue EXCEPT ![p] = Append(@, held[c])]
        /\ Return(c)
        /\ answer' = [answer EXCEPT ![held[c]] = "raised"]
        /\ UNCHANGED <<infoVars, lock, pool, poolState, busy, worker, outcome,
                       dateVars, stopped>>

\* executor.submit on a pool that was shut down in the meantime raises
\* RuntimeError, on None AttributeError: the caller sees the exception and
\* nothing takes the task's STARTED back.
EnqueueRaises(c) ==
    /\ pc[c] = "enqueue"
    /\ Refuses(executor[c])
    /\ Return(c)
    /\ answer' = [answer EXCEPT ![held[c]] = "raised"]
    /\ UNCHANGED <<infoVars, lock, poolVars, worker, outcome, dateVars,
                   stopped>>

\* schedule_task after its submit_task: the scheduler is started, and the
\* trigger's constructor is looked up under a name APScheduler 3.10 does not have,
\* so the call raises AttributeError and no job is added.
AddJob(c) ==
    /\ pc[c] = "add_job"
    /\ scheduler' = TRUE
    /\ Return(c)
    /\ answer' = [answer EXCEPT ![held[c]] = "raised"]
    /\ UNCHANGED <<infoVars, lock, poolVars, worker, outcome, runDate, stopped>>

\* Time: the run_date of a scheduled task arrives.
RunDateArrives(t) ==
    /\ runDate[t] = "future"
    /\ runDate' = [runDate EXCEPT ![t] = "reached"]
    /\ UNCHANGED <<infoVars, lock, poolVars, worker, outcome, scheduler,
                   callVars>>

Submission(c) ==
    \/ CheckPool(c)
    \/ MakePool(c)
    \/ ReturnPool(c)
    \/ MarkStarted(c)
    \/ Enqueue(c)
    \/ EnqueueRaises(c)
    \/ AddJob(c)

-----------------------------------------------------------------------------
(* The worker threads of a pool *)

\* Mutant: the item is read and stays in the work queue.
StartRunPeeks(p, t) ==
    /\ queue[p] # <<>>
    /\ t = Head(queue[p])
    /\ Cardinality(busy[p]) < MaxWorkers
    /\ busy' = [busy EXCEPT ![p] = @ \cup {t}]
    /\ worker' = [worker EXCEPT ![t] = "running"]
    /\ UNCHANGED <<infoVars, lock, pool, poolState, queue, outcome, dateVars,
                   callVars>>

\* Mutant: a pool that is shutting down starts nothing any more.
StartRunIfOpen(p, t) ==
    /\ queue[p] # <<>>
    /\ t = Head(queue[p])
    /\ poolState[p] = "open"
    /\ Cardinality(busy[p]) < MaxWorkers
    /\ queue' = [queue EXCEPT ![p] = Tail(@)]
    /\ busy' = [busy EXCEPT ![p] = @ \cup {t}]
    /\ worker' = [worker EXCEPT ![t] = "running"]
    /\ UNCHANGED <<infoVars, lock, pool, poolState, outcome, dateVars,
                   callVars>>

\* A free worker takes the oldest item, also from a pool that is shutting down.
StartRun(p, t) ==
    /\ queue[p] # <<>>
    /\ t = Head(queue[p])
    /\ Cardinality(busy[p]) < MaxWorkers
    /\ queue' = [queue EXCEPT ![p] = Tail(@)]
    /\ busy' = [busy EXCEPT ![p] = @ \cup {t}]
    /\ worker' = [worker EXCEPT ![t] = "running"]
    /\ UNCHANGED <<infoVars, lock, pool, poolState, outcome, dateVars,
                   callVars>>

\* The function ends.  What is no Exception is kept by the future that nobody
\* looks at, and the worker goes on to its next item.
FinishRun(p, t, o) ==
    /\ t \in busy[p]
    /\ worker[t] = "running"
    /\ outcome' = [outcome EXCEPT ![t] = o]
    /\ IF o = "escape"
       THEN /\ worker' = [worker EXCEPT ![t] = "over"]
            /\ busy' = [busy EXCEPT ![p] = @ \ {t}]
       ELSE /\ worker' = [worker EXCEPT ![t] = "set_status"]
            /\ UNCHANGED busy
    /\ UNCHANGED <<infoVars, lock, pool, poolState, queue, dateVars, callVars>>

\* Mutant: the verdict is taken from the truth of the error's text.
SetStatusByText(t) ==
    /\ worker[t] = "set_status"
    /\ lock = Free
    /\ lock' = t
    /\ status' = [status EXCEPT ![t] = IF outcome[t] = "text" THEN "FAILURE" ELSE "SUCCESS"]
    /\ worker' = [worker EXCEPT ![t] = "set_completed"]
    /\ UNCHANGED <<startedAt, completedAt, result, error, poolVars, outcome,
                   dateVars, callVars>>

\* TaskState.update of the outcome: the lock, then status, completed_at, payload.
SetStatus(t) ==
    /\ worker[t] = "set_status"
    /\ lock = Free
    /\ lock' = t
    /\ status' = [status EXCEPT ![t] = VerdictOf(outcome[t])]
    /\ worker' = [worker EXCEPT ![t] = "set_completed"]
    /\ UNCHANGED <<startedAt, completedAt, result, error, poolVars, outcome,
                   dateVars, callVars>>

SetCompleted(t) ==
    /\ worker[t] = "set_completed"
    /\ completedAt' = [completedAt EXCEPT ![t] = TRUE]
    /\ worker' = [worker EXCEPT ![t] = "set_payload"]
    /\ UNCHANGED <<status, startedAt, result, error, lock, poolVars, outcome,
                   dateVars, callVars>>

\* Mutant: the lock is not released.
SetPayloadKeepsLock(p, t) ==
    /\ t \in busy[p]
    /\ worker[t] = "set_payload"
    /\ result' = [result EXCEPT ![t] = IF outcome[t] = "value" THEN "value" ELSE @]
    /\ error' = [error EXCEPT ![t] = IF outcome[t] \in Raises THEN outcome[t] ELSE @]
    /\ worker' = [worker EXCEPT ![t] = "over"]
    /\ busy' = [busy EXCEPT ![p] = @ \ {t}]
    /\ UNCHANGED <<status, startedAt, completedAt, lock, pool, poolState, queue,
                   outcome, dateVars, callVars>>

\* A result that is None leaves the field as it was; the text of an exception is
\* stored even when it is empty.
SetPayload(p, t) ==
    /\ t \in busy[p]
    /\ worker[t] = "set_payload"
    /\ result' = [result EXCEPT ![t] = IF outcome[t] = "value" THEN "value" ELSE @]
    /\ error' = [error EXCEPT ![t] = IF outcome[t] \in Raises THEN outcome[t] ELSE @]
    /\ lock' = Free
    /\ worker' = [worker EXCEPT ![t] = "over"]
    /\ busy' = [busy EXCEPT ![p] = @ \ {t}]
    /\ UNCHANGED <<status, startedAt, completedAt, pool, poolState, queue,
                   outcome, dateVars, callVars>>

WorkerStep(t) ==
    \/ \E p \in Pools : StartRun(p, t)
    \/ \E p \in Pools, o \in Outcomes : FinishRun(p, t, o)
    \/ SetStatus(t)
    \/ SetCompleted(t)
    \/ \E p \in Pools : SetPayload(p, t)

-----------------------------------------------------------------------------
(* shutdown, called once by the lifespan on the event loop's thread *)

ShutdownScheduler ==
    /\ MayCall(Main)
    /\ stopped' = TRUE
    /\ scheduler' = FALSE
    /\ Goto(Main, "shut_pool")
    /\ UNCHANGED <<infoVars, lock, poolVars, worker, outcome, runDate, handVars,
                   answer>>

ShutdownNoPool ==
    /\ pc[Main] = "shut_pool"
    /\ pool = NoPool
    /\ Return(Main)
    /\ UNCHANGED <<infoVars, lock, poolVars, worker, outcome, dateVars, stopped,
                   answer>>

\* _thread_pool.shutdown(wait=True): from here on the executor refuses work ...
ClosePool ==
    /\ pc[Main] = "shut_pool"
    /\ pool # NoPool
    /\ poolState' = [poolState EXCEPT ![pool] = "closed"]
    /\ executor' = [executor EXCEPT ![Main] = pool]
    /\ Goto(Main, "shut_wait")
    /\ UNCHANGED <<infoVars, lock, pool, queue, busy, worker, outcome, dateVars,
                   held, stopped, answer>>

\* Mutant: the workers' current items are not waited for.
JoinPoolQueueOnly ==
    /\ pc[Main] = "shut_wait"
    /\ queue[executor[Main]] = <<>>
    /\ Goto(Main, "shut_clear")
    /\ UNCHANGED <<infoVars, lock, poolVars, worker, outcome, dateVars,
                   handVars, stopped, answer>>

\* ... and the call returns when what it had accepted is done.
JoinPool ==
    /\ pc[Main] = "shut_wait"
    /\ queue[executor[Main]] = <<>>
    /\ busy[executor[Main]] = {}
    /\ Goto(Main, "shut_clear")
    /\ UNCHANGED <<infoVars, lock, poolVars, worker, outcome, dateVars,
                   handVars, stopped, answer>>

ClearPool ==
    /\ pc[Main] = "shut_clear"
    /\ pool' = NoPool
    /\ Return(Main)
    /\ UNCHANGED <<infoVars, lock, poolState, queue, busy, worker, outcome,
                   dateVars, stopped, answer>>

ShutdownStep == ShutdownNoPool \/ ClosePool \/ JoinPool \/ ClearPool

-----------------------------------------------------------------------------
Next ==
    \/ \E c \in Callers, t \in Tasks : Create(c, t)
    \/ IsReady
    \/ \E c \in Callers : Submission(c)
    \/ \E t \in Tasks : WorkerStep(t)
    \/ \E t \in Tasks : RunDateArrives(t)
    \/ ShutdownScheduler
    \/ ShutdownStep

Spec == Init /\ [][Next]_vars

\* Threads are scheduled by the operating system and submitted functions return:
\* a thread inside a call of the queue, and every worker, goes on.  Nobody is
\* obliged to call the queue.
Fairness ==
    /\ \A c \in Callers : WF_vars(Submission(c))
    /\ \A t \in Tasks : WF_vars(WorkerStep(t))
    /\ WF_vars(ShutdownStep)

FairSpec == Spec /\ Fairness

-----------------------------------------------------------------------------
(* Properties *)

\* Every variable has its type.
TypeOK ==
    /\ status \in [Tasks -> TaskStatus \cup {"ABSENT"}]
    /\ startedAt \in [Tasks -> BOOLEAN]
    /\ completedAt \in [Tasks -> BOOLEAN]
    /\ result \in [Tasks -> Results]
    /\ error \in [Tasks -> Errors]
    /\ lock \in Tasks \cup {Free}
    /\ pool \in Pools \cup {NoPool}
    /\ poolState \in [Pools -> {"unmade", "open", "closed"}]
    /\ queue \in [Pools -> Seq(Tasks)]
    /\ busy \in [Pools -> SUBSET Tasks]
    /\ worker \in [Tasks -> WorkerPC]
    /\ outcome \in [Tasks -> Outcomes \cup {"unknown"}]
    /\ scheduler \in BOOLEAN
    /\ runDate \in [Tasks -> {"unset", "future", "reached"}]
    /\ pc \in [Callers -> CallerPC]
    /\ held \in [Callers -> Tasks \cup {NoTask}]
    /\ executor \in [Callers -> Pools \cup {NoPool}]
    /\ stopped \in BOOLEAN
    /\ answer \in [Tasks -> {"none", "task_id", "raised"}]

\* A task has one carrier at a time: one place in one pool's queue or one worker,
\* and none once its run is over; so two pools made by the unlocked lazy
\* initialisation never both run it.
OneCarrier ==
    \A t \in Tasks, p \in Pools, q \in Pools :
        /\ t \in busy[p] => /\ t \in busy[q] => p = q
                            /\ ~InQueue(t, q)
                            /\ worker[t] \in Holding
        /\ \A i \in 1..Len(queue[p]), j \in 1..Len(queue[q]) :
                queue[p][i] = t /\ queue[q][j] = t => p = q /\ i = j
        /\ InQueue(t, p) => worker[t] = "waiting"

\* A task whose status is not terminal is still on its way: in the hands of the
\* thread that submits it, in a queue, or with a worker.  The exceptions are a
\* submission that raised and a function that ended with no Exception: those stay
\* STARTED for ever.
NeverForgotten ==
    \A t \in Tasks :
        Created(t) /\ status[t] \notin Terminal =>
            \/ \E c \in Callers : held[c] = t /\ pc[c] # "add_job"
            \/ \E p \in Pools : InQueue(t, p) \/ t \in busy[p]
            \/ worker[t] = "waiting" /\ answer[t] = "raised"
            \/ outcome[t] = "escape"

\* The routers run the work themselves when the dispatch raises: what submit_task
\* refused, in whatever state shutdown had left the pool, is never run by a worker.
RaisedNeverRuns ==
    \A t \in Tasks \ Scheduled :
        answer[t] = "raised" =>
            worker[t] = "waiting" /\ \A p \in Pools : ~InQueue(t, p)

\* When the worker has let go of a task, the record says what its function did:
\* status, completion time, and the payload that belongs to the status alone.
OutcomeRecorded ==
    \A t \in Tasks :
        LET o == outcome[t] IN
        worker[t] = "over" /\ o # "escape" =>
            /\ status[t] = VerdictOf(o)
            /\ completedAt[t]
            /\ result[t] = IF o = "value" THEN "value" ELSE "none"
            /\ error[t] = IF o \in Raises THEN o ELSE "none"

\* Once shutdown has waited for the pool it closed, that pool holds no work and is
\* never given any again, by no thread that still has it in a local variable.
ShutdownDrained ==
    stopped /\ pc[Main] \in {"shut_clear", "idle"} =>
        \A p \in Pools : poolState[p] = "closed" => queue[p] = <<>> /\ busy[p] = {}

\* A task that got into a queue is settled, or ends with no Exception: also when
\* the pool is shut down while it waits.
QueuedSettles ==
    \A t \in Tasks :
        (\E p \in Pools : InQueue(t, p)) ~>
            (worker[t] = "over" /\ (status[t] \in Terminal \/ outcome[t] = "escape"))

\* shutdown returns, however much work its pool had accepted.
ShutdownReturns == (pc[Main] = "shut_pool") ~> (pc[Main] = "idle")

\* What the queue promises (TaskPromise) is what it does: a task is run when a worker
\* takes it, and judged when its status becomes terminal.
Phase == [t \in Tasks |-> IF worker[t] = "waiting" THEN "idle"
                          ELSE IF worker[t] = "over" THEN "over" ELSE "running"]
Verdict == [t \in Tasks |-> IF status[t] \in Terminal THEN status[t] ELSE "none"]
Promise == INSTANCE TaskPromise WITH phase <- Phase, verdict <- Verdict
PromiseKept == Promise!PromiseSpec
=============================================================================
