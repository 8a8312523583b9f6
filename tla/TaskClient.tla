----------------------------- MODULE TaskClient -----------------------------
(***************************************************************************)
(* The two ways to learn what became of a background task, composed with   *)
(* the queue: the polling endpoint of app/main.py on the event loop's      *)
(* thread, and LocalAsyncResult.get of app/workers/task_app.py on any      *)
(* other thread.  Both read through get_task_status, which looks the task  *)
(* up under the lock and then reads its fields without it, one by one,     *)
(* while a worker may be in the middle of TaskState.update.                *)
(***************************************************************************)
EXTENDS TaskQueue

CONSTANT Waiters     \* threads that call LocalAsyncResult.get

ASSUME TaskClientAssumption == Waiters \cap Callers = {}

Readers == Waiters \cup {Main}

VARIABLES at,      \* at[r]: the next access of shared state of reader r
          goal,    \* goal[r]: the call the reading is for
          about,   \* about[r]: the task read about
          snap,    \* snap[r]: the dict that get_task_status is building
          reply    \* reply[r]: what the last call of r produced

clientVars == <<at, goal, about, snap, reply>>

Goals == {"poll", "ready", "failed", "error", "result"}
NoSnap == [status |-> "ABSENT", completed |-> FALSE, error |-> "none", result |-> "none"]
Terminated(s) == s.status \in Terminal

\* A reply about a task: of the endpoint (kind "report"), or of get, which returns
\* a value, raises the task's error or raises TimeoutError.
Reply(kind, t, s) == [kind |-> kind, task |-> t, status |-> s.status, error |-> s.error,
                      result |-> IF s.error # "none" THEN "none" ELSE s.result]
NoReply == Reply("none", NoTask, NoSnap)

ClientInit ==
    /\ Init
    /\ at = [r \in Readers |-> "idle"]
    /\ goal = [r \in Readers |-> "poll"]
    /\ about = [r \in Readers |-> NoTask]
    /\ snap = [r \in Readers |-> NoSnap]
    /\ reply = [r \in Readers |-> NoReply]

-----------------------------------------------------------------------------
\* GET /api/v1/tasks/{task_id}, or a call of get on the AsyncResult of a task.
Ask(r, t) ==
    /\ at[r] = "idle"
    /\ r = Main => MayCall(Main)
    /\ r # Main => reply[r].kind = "none"
    /\ at' = [at EXCEPT ![r] = "lookup"]
    /\ goal' = [goal EXCEPT ![r] = IF r = Main THEN "poll" ELSE "ready"]
    /\ about' = [about EXCEPT ![r] = t]
    /\ UNCHANGED <<snap, reply>>

\* TaskState.get: an unknown id makes the endpoint say NOT_FOUND, and get go on
\* waiting for what _refresh leaves at PENDING.
Lookup(r) ==
    /\ at[r] = "lookup"
    /\ lock = Free
    /\ IF Created(about[r])
       THEN at' = [at EXCEPT ![r] = "status"] /\ UNCHANGED reply
       ELSE /\ goal[r] = "poll"
            /\ at' = [at EXCEPT ![r] = "idle"]
            /\ reply' = [reply EXCEPT ![r] = Reply("report", about[r], NoSnap)]
    /\ UNCHANGED <<goal, about, snap>>

\* Mutant: the lookup does not take the lock.
LookupUnlocked(r) ==
    /\ at[r] = "lookup"
    /\ Created(about[r]) \/ goal[r] = "poll"
    /\ at' = [at EXCEPT ![r] = IF Created(about[r]) THEN "status" ELSE "idle"]
    /\ reply' = [reply EXCEPT ![r] =
                    IF Created(about[r]) THEN @ ELSE Reply("report", about[r], NoSnap)]
    /\ UNCHANGED <<goal, about, snap>>

\* The fields, in the order get_task_status reads them.
ReadStatus(r) ==
    /\ at[r] = "status"
    /\ snap' = [snap EXCEPT ![r].status = status[about[r]]]
    /\ at' = [at EXCEPT ![r] = "completed"]
    /\ UNCHANGED <<goal, about, reply>>

ReadCompleted(r) ==
    /\ at[r] = "completed"
    /\ snap' = [snap EXCEPT ![r].completed = completedAt[about[r]]]
    /\ at' = [at EXCEPT ![r] = "error"]
    /\ UNCHANGED <<goal, about, reply>>

\* An error without a text is left out.
ReadError(r) ==
    /\ at[r] = "error"
    /\ snap' = [snap EXCEPT ![r].error =
                    IF error[about[r]] = "text" THEN "text" ELSE "none"]
    /\ at' = [at EXCEPT ![r] = "result"]
    /\ UNCHANGED <<goal, about, reply>>

\* The result is left out unless the status, read again, is SUCCESS.
ReadResult(r) ==
    /\ at[r] = "result"
    /\ snap' = [snap EXCEPT ![r].result =
                    IF status[about[r]] = "SUCCESS" THEN result[about[r]] ELSE "none"]
    /\ at' = [at EXCEPT ![r] = "use"]
    /\ UNCHANGED <<goal, about, reply>>

\* What the reader makes of the dict: the endpoint answers; get tests ready, then
\* failed, then reads once more for what it raises or returns.
Finish(r, kind) ==
    /\ reply' = [reply EXCEPT ![r] = Reply(kind, about[r], snap[r])]
    /\ at' = [at EXCEPT ![r] = "idle"]
    /\ snap' = [snap EXCEPT ![r] = NoSnap]
    /\ UNCHANGED goal
Again(r, next) ==
    /\ goal' = [goal EXCEPT ![r] = next]
    /\ at' = [at EXCEPT ![r] = "lookup"]
    /\ snap' = [snap EXCEPT ![r] = NoSnap]
    /\ UNCHANGED reply

\* Mutant: get returns what it read when it found the task ready.
UseFirst(r) ==
    /\ at[r] = "use"
    /\ \/ goal[r] = "poll" /\ Finish(r, "report")
       \/ goal[r] = "ready" /\ ~Terminated(snap[r]) /\ Again(r, "ready")
       \/ goal[r] = "ready" /\ snap[r].status = "FAILURE" /\ Finish(r, "raise")
       \/ goal[r] = "ready" /\ snap[r].status = "SUCCESS" /\ Finish(r, "return")
    /\ UNCHANGED about

Use(r) ==
    /\ at[r] = "use"
    /\ \/ goal[r] = "poll" /\ Finish(r, "report")
       \/ goal[r] = "ready" /\ Again(r, IF Terminated(snap[r]) THEN "failed" ELSE "ready")
       \/ goal[r] = "failed" /\ Again(r, IF snap[r].status = "FAILURE" THEN "error"
                                                                       ELSE "result")
       \/ goal[r] = "error" /\ Finish(r, "raise")
       \/ goal[r] = "result" /\ Finish(r, "return")
    /\ UNCHANGED about

\* get with a timeout: the time is up before the task was seen to be ready.  A call
\* without a timeout is one in which this step is not taken.
TimeOut(r) ==
    /\ r \in Waiters
    /\ at[r] = "lookup"
    /\ goal[r] = "ready"
    /\ Finish(r, "timeout")
    /\ UNCHANGED about

Reading(r) ==
    \/ Lookup(r)
    \/ ReadStatus(r)
    \/ ReadCompleted(r)
    \/ ReadError(r)
    \/ ReadResult(r)
    \/ Use(r)

\* The event loop's thread does one thing at a time: it submits or it polls.
QueueStep ==
    /\ Next
    /\ at[Main] # "idle" => pc'[Main] = pc[Main]

ClientNext ==
    \/ QueueStep /\ UNCHANGED clientVars
    \/ /\ \E r \in Readers :
            \/ \E t \in Tasks : Ask(r, t)
            \/ Reading(r)
            \/ TimeOut(r)
       /\ UNCHANGED vars

\* As in the queue's Fairness, and a thread that reads goes on reading.  No task
\* is submitted once all ids are used, so the lock is free in the end.
ClientSpec ==
    /\ ClientInit
    /\ [][ClientNext]_<<vars, clientVars>>
    /\ \A c \in Callers : WF_<<vars, clientVars>>(Submission(c) /\ UNCHANGED clientVars)
    /\ \A t \in Tasks : WF_<<vars, clientVars>>(WorkerStep(t) /\ UNCHANGED clientVars)
    /\ \A r \in Readers : WF_<<vars, clientVars>>(Reading(r) /\ UNCHANGED vars)

-----------------------------------------------------------------------------
(* Properties *)

\* get, although it reads the fields without the lock: it returns what the function
\* returned, and raises only what the function raised.
GetFaithful ==
    \A r \in Waiters :
        LET o == outcome[about[r]] IN
        /\ reply[r].kind = "return" => o \in Returns /\ reply[r].result = o
        /\ reply[r].kind = "raise" =>
            o \in Raises /\ reply[r].error = (IF o = "text" THEN "text" ELSE "none")

\* No report shows a payload that does not belong to what the function did, and a
\* verdict, a completion time or a payload is shown only when it is final.
ReportTrue ==
    \A r \in Readers :
        at[r] = "use" =>
            LET s == snap[r]
                o == outcome[about[r]]
            IN  /\ Terminated(s) => s.status = VerdictOf(o)
                /\ s.result # "none" => o = "value" /\ s.error = "none"
                /\ s.error # "none" => o = "text"
                /\ s.completed => status[about[r]] \in Terminal

\* What the endpoint has reported of a task it never takes back.
Rank(s) == CASE s = "ABSENT" -> 0 [] s = "PENDING" -> 1 [] s = "STARTED" -> 2
             [] OTHER -> 3
ReportsNeverGoBack ==
    [][reply'[Main].task = reply[Main].task =>
        /\ Rank(reply[Main].status) <= Rank(reply'[Main].status)
        /\ reply[Main].status \in Terminal => reply'[Main].status = reply[Main].status]_reply

\* get comes back when the function it waits for ends, with the exception of a
\* function that dies with something that is not an Exception.
GetReturns ==
    \A r \in Waiters, t \in Tasks :
        (goal[r] = "ready" /\ about[r] = t /\ \E p \in Pools : InQueue(t, p)) ~>
            (reply[r].kind # "none" \/ outcome[t] = "escape")
=============================================================================
