-------------------------- MODULE TaskQueueProofs --------------------------
(***************************************************************************)
(* Theorems about the task queue and its readers for any sets of tasks,    *)
(* threads and executors, with their proofs.  The invariant is built in    *)
(* layers: types and the callers' local variables, then who carries a      *)
(* task, then what the task's record says, and last what each reader of    *)
(* the record knows.                                                       *)
(***************************************************************************)
EXTENDS TaskClient, TLAPS

Submitting == {"check_pool", "make_pool", "return_pool", "mark_started", "enqueue"}

\* What the local variables of a caller hold at each point of a call.
CallerInv ==
    \A c \in Callers :
        /\ held[c] # NoTask => pc[c] \in Submitting \cup {"add_job"}
        /\ pc[c] \in {"mark_started", "enqueue", "add_job"} => held[c] \in Tasks
        /\ pc[c] = "add_job" => held[c] \in Scheduled
        /\ pc[c] = "shut_wait" => executor[c] \in Pools
        /\ pc[c] \in {"shut_pool", "shut_wait", "shut_clear"} => c = Main

\* A task in the hands of a caller is in nobody else's, and until it is queued no
\* pool knows it.
HandInv ==
    \A c \in Callers, t \in Tasks :
        held[c] = t =>
            /\ Created(t)
            /\ \A d \in Callers : held[d] = t => c = d
            /\ pc[c] # "add_job" =>
                /\ worker[t] = "waiting"
                /\ answer[t] = "none"
                /\ \A p \in Pools : ~InQueue(t, p)

\* A task id that was not created yet is nowhere.
FreshInv ==
    \A t \in Tasks :
        ~Created(t) => /\ worker[t] = "waiting"
                       /\ answer[t] = "none"
                       /\ \A p \in Pools : ~InQueue(t, p)

\* The record of a task follows the worker that holds the task.
RecordOf(t) ==
    /\ worker[t] \in {"waiting", "running", "set_status"} => status[t] \notin Terminal
    /\ worker[t] # "over" => result[t] = "none" /\ error[t] = "none"
    /\ worker[t] \in Settling => outcome[t] \in Outcomes \ {"escape"}
    /\ worker[t] \in {"set_completed", "set_payload"} => status[t] = VerdictOf(outcome[t])
    /\ worker[t] = "set_payload" => completedAt[t]
RecordInv == (\A t \in Tasks : RecordOf(t)) /\ OutcomeRecorded

TypeInv == TypeOK /\ CallerInv
CarrierInv == HandInv /\ FreshInv /\ OneCarrier /\ RaisedNeverRuns

USE TaskQueueAssumption

-----------------------------------------------------------------------------
\* Every step keeps the types ...
LEMMA TypeOKStep ==
    ASSUME TypeOK, CallerInv, [Next]_vars
    PROVE  TypeOK'
  <1> USE DEF TypeOK, Goto, infoVars, handVars, callVars, dateVars, poolVars
  <1>1. ASSUME NEW c \in Callers, NEW t \in Tasks, Create(c, t)
        PROVE  TypeOK'
    BY <1>1 DEF Create, Created, CallerPC, TaskStatus
  <1>2. ASSUME IsReady
        PROVE  TypeOK'
    BY <1>2 DEF IsReady, CallerPC
  <1>3. ASSUME NEW c \in Callers, CheckPool(c)
        PROVE  TypeOK'
    BY <1>3 DEF CheckPool, CallerPC
  <1>4. ASSUME NEW c \in Callers, MakePool(c)
        PROVE  TypeOK'
    BY <1>4 DEF MakePool, CallerPC
  <1>5. ASSUME NEW c \in Callers, ReturnPool(c)
        PROVE  TypeOK'
    <2>0. \/ pc' = [pc EXCEPT ![c] = "idle"]
          \/ pc' = [pc EXCEPT ![c] = "mark_started"]
      BY <1>5 DEF ReturnPool, Return
    <2>1. pc' \in [Callers -> CallerPC]
      BY <2>0 DEF CallerPC
    <2>2. held' \in [Callers -> Tasks \cup {NoTask}]
      BY <1>5 DEF ReturnPool, Return
    <2>3. executor' \in [Callers -> Pools \cup {NoPool}]
      BY <1>5 DEF ReturnPool, Return
    <2> QED
      BY <1>5, <2>1, <2>2, <2>3 DEF ReturnPool
  <1>6. ASSUME NEW c \in Callers, MarkStarted(c)
        PROVE  TypeOK'
    BY <1>6 DEF MarkStarted, CallerInv, TaskStatus, CallerPC
  <1>7. ASSUME NEW c \in Callers, Enqueue(c)
        PROVE  TypeOK'
    <2>1. held[c] \in Tasks /\ executor[c] \in Pools
      BY <1>7 DEF Enqueue, CallerInv, Refuses
    <2>2. queue' \in [Pools -> Seq(Tasks)]
      BY <1>7, <2>1 DEF Enqueue
    <2>3. \/ pc' = [pc EXCEPT ![c] = "idle"]
          \/ pc' = [pc EXCEPT ![c] = "add_job"]
      BY <1>7 DEF Enqueue, Return, Goto
    <2>4. pc' \in [Callers -> CallerPC]
      BY <2>3 DEF CallerPC
    <2>5. held' \in [Callers -> Tasks \cup {NoTask}]
      BY <1>7 DEF Enqueue, Return
    <2>6. executor' \in [Callers -> Pools \cup {NoPool}]
      BY <1>7 DEF Enqueue, Return
    <2>7. answer' \in [Tasks -> {"none", "task_id", "raised"}]
      BY <1>7, <2>1 DEF Enqueue
    <2> QED
      BY <1>7, <2>2, <2>4, <2>5, <2>6, <2>7 DEF Enqueue
  <1>8. ASSUME NEW c \in Callers, EnqueueRaises(c)
        PROVE  TypeOK'
    BY <1>8 DEF EnqueueRaises, CallerInv, Refuses, Return, CallerPC
  <1>9. ASSUME NEW c \in Callers, AddJob(c)
        PROVE  TypeOK'
    BY <1>9 DEF AddJob, CallerInv, Return, CallerPC
  <1>10. ASSUME NEW p \in Pools, NEW t \in Tasks, StartRun(p, t)
        PROVE  TypeOK'
    BY <1>10 DEF StartRun, WorkerPC, Holding
  <1>11. ASSUME NEW p \in Pools, NEW t \in Tasks, NEW o \in Outcomes, FinishRun(p, t, o)
        PROVE  TypeOK'
    <2>1. \/ worker' = [worker EXCEPT ![t] = "over"]
          \/ worker' = [worker EXCEPT ![t] = "set_status"]
      BY <1>11 DEF FinishRun
    <2>2. worker' \in [Tasks -> WorkerPC]
      BY <2>1 DEF WorkerPC, Holding
    <2>3. busy' \in [Pools -> SUBSET Tasks]
      BY <1>11 DEF FinishRun
    <2>4. outcome' \in [Tasks -> Outcomes \cup {"unknown"}]
      BY <1>11 DEF FinishRun
    <2> QED
      BY <1>11, <2>2, <2>3, <2>4 DEF FinishRun
  <1>12. ASSUME NEW t \in Tasks, SetStatus(t)
        PROVE  TypeOK'
    BY <1>12 DEF SetStatus, VerdictOf, TaskStatus, WorkerPC, Holding
  <1>13. ASSUME NEW t \in Tasks, SetCompleted(t)
        PROVE  TypeOK'
    BY <1>13 DEF SetCompleted, WorkerPC, Holding
  <1>14. ASSUME NEW p \in Pools, NEW t \in Tasks, SetPayload(p, t)
        PROVE  TypeOK'
    BY <1>14 DEF SetPayload, Raises, Results, Errors, WorkerPC
  <1>15. ASSUME NEW t \in Tasks, RunDateArrives(t)
        PROVE  TypeOK'
    BY <1>15 DEF RunDateArrives
  <1>16. ASSUME ShutdownScheduler
        PROVE  TypeOK'
    BY <1>16 DEF ShutdownScheduler, CallerPC
  <1>17. ASSUME ShutdownNoPool
        PROVE  TypeOK'
    BY <1>17 DEF ShutdownNoPool, CallerPC, Return
  <1>18. ASSUME ClosePool
        PROVE  TypeOK'
    BY <1>18 DEF ClosePool, CallerPC
  <1>19. ASSUME JoinPool
        PROVE  TypeOK'
    BY <1>19 DEF JoinPool, CallerPC
  <1>20. ASSUME ClearPool
        PROVE  TypeOK'
    BY <1>20 DEF ClearPool, CallerPC, Return
  <1>21. ASSUME UNCHANGED vars
        PROVE  TypeOK'
    BY <1>21 DEF vars
  <1> QED
    BY <1>1, <1>2, <1>3, <1>4, <1>5, <1>6, <1>7, <1>8, <1>9, <1>10, <1>11, <1>12, <1>13, <1>14, <1>15, <1>16, <1>17, <1>18, <1>19, <1>20, <1>21
    DEF Next, Submission, WorkerStep, ShutdownStep

\* ... and what the callers' local variables hold.
LEMMA CallerStep ==
    ASSUME TypeOK, CallerInv, [Next]_vars
    PROVE  CallerInv'
  <1> USE DEF CallerInv, TypeOK, CallerPC, Goto, infoVars, handVars, callVars, dateVars,
         poolVars, Submitting
  <1>1. ASSUME NEW c \in Callers, NEW t \in Tasks, Create(c, t)
        PROVE  CallerInv'
    BY <1>1 DEF Create, MayCall
  <1>2. ASSUME IsReady
        PROVE  CallerInv'
    BY <1>2 DEF IsReady, MayCall
  <1>3. ASSUME NEW c \in Callers, CheckPool(c)
        PROVE  CallerInv'
    BY <1>3 DEF CheckPool
  <1>4. ASSUME NEW c \in Callers, MakePool(c)
        PROVE  CallerInv'
    BY <1>4 DEF MakePool
  <1>5. ASSUME NEW c \in Callers, ReturnPool(c)
        PROVE  CallerInv'
    BY <1>5 DEF ReturnPool, Return
  <1>6. ASSUME NEW c \in Callers, MarkStarted(c)
        PROVE  CallerInv'
    BY <1>6 DEF MarkStarted
  <1>7. ASSUME NEW c \in Callers, Enqueue(c)
        PROVE  CallerInv'
    BY <1>7 DEF Enqueue, Return
  <1>8. ASSUME NEW c \in Callers, EnqueueRaises(c)
        PROVE  CallerInv'
    BY <1>8 DEF EnqueueRaises, Return
  <1>9. ASSUME NEW c \in Callers, AddJob(c)
        PROVE  CallerInv'
    BY <1>9 DEF AddJob, Return
  <1>10. ASSUME NEW p \in Pools, NEW t \in Tasks, StartRun(p, t)
        PROVE  CallerInv'
    BY <1>10 DEF StartRun
  <1>11. ASSUME NEW p \in Pools, NEW t \in Tasks, NEW o \in Outcomes, FinishRun(p, t, o)
        PROVE  CallerInv'
    BY <1>11 DEF FinishRun
  <1>12. ASSUME NEW t \in Tasks, SetStatus(t)
        PROVE  CallerInv'
    BY <1>12 DEF SetStatus
  <1>13. ASSUME NEW t \in Tasks, SetCompleted(t)
        PROVE  CallerInv'
    BY <1>13 DEF SetCompleted
  <1>14. ASSUME NEW p \in Pools, NEW t \in Tasks, SetPayload(p, t)
        PROVE  CallerInv'
    BY <1>14 DEF SetPayload
  <1>15. ASSUME NEW t \in Tasks, RunDateArrives(t)
        PROVE  CallerInv'
    BY <1>15 DEF RunDateArrives
  <1>16. ASSUME ShutdownScheduler
        PROVE  CallerInv'
    BY <1>16 DEF ShutdownScheduler, MayCall
  <1>17. ASSUME ShutdownNoPool
        PROVE  CallerInv'
    BY <1>17 DEF ShutdownNoPool, Return
  <1>18. ASSUME ClosePool
        PROVE  CallerInv'
    BY <1>18 DEF ClosePool
  <1>19. ASSUME JoinPool
        PROVE  CallerInv'
    BY <1>19 DEF JoinPool
  <1>20. ASSUME ClearPool
        PROVE  CallerInv'
    BY <1>20 DEF ClearPool, Return
  <1>21. ASSUME UNCHANGED vars
        PROVE  CallerInv'
    BY <1>21 DEF vars
  <1> QED
    BY <1>1, <1>2, <1>3, <1>4, <1>5, <1>6, <1>7, <1>8, <1>9, <1>10, <1>11, <1>12, <1>13, <1>14, <1>15, <1>16, <1>17, <1>18, <1>19, <1>20, <1>21
    DEF Next, Submission, WorkerStep, ShutdownStep

\* The program starts with every variable in its type.
LEMMA InitTypeInv ==
    ASSUME Init
    PROVE  TypeInv
  <1>1. /\ status \in [Tasks -> TaskStatus \cup {"ABSENT"}]
        /\ startedAt \in [Tasks -> BOOLEAN]
        /\ completedAt \in [Tasks -> BOOLEAN]
        /\ result \in [Tasks -> Results]
        /\ error \in [Tasks -> Errors]
    BY DEF Init, TaskStatus, Results, Errors
  <1>2. /\ queue \in [Pools -> Seq(Tasks)]
        /\ busy \in [Pools -> SUBSET Tasks]
        /\ worker \in [Tasks -> WorkerPC]
        /\ runDate \in [Tasks -> {"unset", "future", "reached"}]
    BY DEF Init, WorkerPC
  <1>3. /\ pc \in [Callers -> CallerPC]
        /\ held \in [Callers -> Tasks \cup {NoTask}]
        /\ executor \in [Callers -> Pools \cup {NoPool}]
    BY DEF Init, CallerPC
  <1>4. TypeOK
    BY <1>1, <1>2, <1>3 DEF Init, TypeOK
  <1>5. CallerInv
    BY DEF Init, CallerInv
  <1> QED
    BY <1>4, <1>5 DEF TypeInv

\* Type correctness: every variable of the task queue keeps its type, whatever
\* the numbers of tasks, threads and executors.
THEOREM TaskQueueTypes == Spec => []TypeOK
  <1>1. TypeInv /\ [Next]_vars => TypeInv'
    BY TypeOKStep, CallerStep DEF TypeInv
  <1>2. TypeInv => TypeOK
    BY DEF TypeInv
  <1> QED
    BY <1>1, <1>2, InitTypeInv, PTL DEF Spec

-----------------------------------------------------------------------------
\* What an append adds to the work queues, and where.
LEMMA AppendInQueue ==
    ASSUME TypeOK, NEW p \in Pools, NEW t \in Tasks,
           queue' = [queue EXCEPT ![p] = Append(@, t)],
           NEW u \in Tasks, NEW q \in Pools
    PROVE  InQueue(u, q)' <=> InQueue(u, q) \/ (q = p /\ u = t)
  <1>1. queue[p] \in Seq(Tasks) /\ queue[q] \in Seq(Tasks)
    BY DEF TypeOK
  <1>2. CASE q # p
    <2>1. queue'[q] = queue[q]
      BY <1>2 DEF TypeOK
    <2> QED
      BY <1>2, <2>1 DEF InQueue
  <1>3. CASE q = p
    <2>1. queue'[q] = Append(queue[q], t)
      BY <1>3 DEF TypeOK
    <2>2. /\ Len(queue'[q]) = Len(queue[q]) + 1
          /\ queue'[q][Len(queue[q]) + 1] = t
          /\ \A i \in 1..Len(queue[q]) : queue'[q][i] = queue[q][i]
      BY <1>1, <2>1
    <2> QED
      BY <1>1, <1>3, <2>2 DEF InQueue
  <1> QED
    BY <1>2, <1>3

\* What is left in the work queues when a worker takes an item: the places of the
\* others move up by one.
LEMMA TailInQueue ==
    ASSUME TypeOK, NEW p \in Pools, queue[p] # <<>>,
           queue' = [queue EXCEPT ![p] = Tail(@)],
           NEW q \in Pools
    PROVE  /\ Len(queue'[q]) = IF q = p THEN Len(queue[q]) - 1 ELSE Len(queue[q])
           /\ \A i \in 1..Len(queue'[q]) :
                queue'[q][i] = IF q = p THEN queue[q][i + 1] ELSE queue[q][i]
           /\ Len(queue[q]) \in Nat
           /\ q = p => Len(queue[q]) > 0 /\ Head(queue[q]) = queue[q][1]
  <1>1. queue[p] \in Seq(Tasks) /\ queue[q] \in Seq(Tasks)
    BY DEF TypeOK
  <1>2. CASE q # p
    BY <1>1, <1>2 DEF TypeOK
  <1>3. CASE q = p
    <2>1. queue'[q] = Tail(queue[q]) /\ queue[q] # <<>>
      BY <1>3 DEF TypeOK
    <2>2. Len(queue[q]) \in Nat /\ Len(queue[q]) > 0
      BY <1>1, <2>1
    <2>3. Len(Tail(queue[q])) = Len(queue[q]) - 1
      BY <1>1, <2>1
    <2>4. \A i \in 1..Len(Tail(queue[q])) : Tail(queue[q])[i] = queue[q][i + 1]
      BY <1>1, <2>1
    <2>5. Head(queue[q]) = queue[q][1]
      BY <1>1, <2>1
    <2> QED
      BY <1>3, <2>1, <2>2, <2>3, <2>4, <2>5
  <1> QED
    BY <1>2, <1>3

\* After StartRun the started task is in no queue, and nothing else has moved
\* from one queue to another.
LEMMA StartRunInQueue ==
    ASSUME TypeOK, OneCarrier, NEW p \in Pools, NEW t \in Tasks, StartRun(p, t),
           NEW u \in Tasks, NEW q \in Pools
    PROVE  /\ InQueue(t, p)
           /\ InQueue(u, q)' => InQueue(u, q) /\ u # t
           /\ InQueue(u, q) /\ u # t => InQueue(u, q)'
  <1> USE DEF InQueue
  <1>0. queue[p] # <<>> /\ queue' = [queue EXCEPT ![p] = Tail(@)] /\ t = Head(queue[p])
    BY DEF StartRun
  <1>1. /\ Len(queue'[q]) = IF q = p THEN Len(queue[q]) - 1 ELSE Len(queue[q])
        /\ \A i \in 1..Len(queue'[q]) :
                queue'[q][i] = IF q = p THEN queue[q][i + 1] ELSE queue[q][i]
        /\ Len(queue[q]) \in Nat
    BY <1>0, TailInQueue
  <1>2. Len(queue[p]) \in Nat /\ Len(queue[p]) > 0 /\ t = queue[p][1]
    BY <1>0, TailInQueue
  <1>3. InQueue(t, p)
    BY <1>2
  <1>4. ASSUME InQueue(u, q)' PROVE InQueue(u, q) /\ u # t
    <2>1. PICK i \in 1..Len(queue'[q]) : queue'[q][i] = u
      BY <1>4
    <2>2. CASE q = p
      <3>1. i + 1 \in 1..Len(queue[q]) /\ queue[q][i + 1] = u
        BY <1>1, <2>1, <2>2
      <3>2. u # t
        BY <1>2, <2>2, <3>1 DEF OneCarrier
      <3> QED
        BY <3>1, <3>2
    <2>3. CASE q # p
      <3>1. i \in 1..Len(queue[q]) /\ queue[q][i] = u
        BY <1>1, <2>1, <2>3
      <3>2. u # t
        BY <1>2, <2>3, <3>1 DEF OneCarrier
      <3> QED
        BY <3>1, <3>2
    <2> QED
      BY <2>2, <2>3
  <1>5. ASSUME InQueue(u, q), u # t PROVE InQueue(u, q)'
    <2>1. PICK i \in 1..Len(queue[q]) : queue[q][i] = u
      BY <1>5
    <2>2. CASE q = p
      <3>1. i # 1 /\ Len(queue'[q]) = Len(queue[q]) - 1
        BY <1>1, <1>2, <1>5, <2>1, <2>2
      <3>2. i - 1 \in 1..Len(queue'[q])
        BY <1>1, <2>1, <3>1
      <3>3. queue'[q][i - 1] = queue[q][(i - 1) + 1]
        BY <1>1, <2>2, <3>2
      <3>4. queue'[q][i - 1] = u
        BY <2>1, <3>3
      <3> QED
        BY <3>2, <3>4
    <2>3. CASE q # p
      BY <1>1, <2>1, <2>3
    <2> QED
      BY <2>2, <2>3
  <1> QED
    BY <1>3, <1>4, <1>5

\* The step relation under which no task is queued, taken or moved on.
LEMMA QuietSteps ==
    ASSUME [Next]_vars
    PROVE  \/ UNCHANGED <<queue, busy, worker, answer>> /\ Next
           \/ UNCHANGED vars
           \/ \E c \in Callers : Enqueue(c) \/ EnqueueRaises(c) \/ AddJob(c)
           \/ \E p \in Pools, t \in Tasks :
                \/ StartRun(p, t)
                \/ \E o \in Outcomes : FinishRun(p, t, o)
                \/ SetPayload(p, t)
           \/ \E t \in Tasks : SetStatus(t) \/ SetCompleted(t)
  BY DEF Next, Submission, WorkerStep, ShutdownStep, ShutdownNoPool, ClosePool,
         JoinPool, ClearPool, ShutdownScheduler, RunDateArrives, Create, IsReady,
         CheckPool, MakePool, ReturnPool, MarkStarted, poolVars, callVars

\* Every step keeps each task with one carrier.
LEMMA OneCarrierStep ==
    ASSUME TypeOK, CallerInv, HandInv, OneCarrier, [Next]_vars
    PROVE  OneCarrier'
  <1> USE DEF OneCarrier, Holding
  <1>1. ASSUME UNCHANGED <<queue, busy, worker>>
        PROVE  OneCarrier'
    BY <1>1 DEF InQueue
  <1>2. ASSUME NEW c \in Callers, Enqueue(c)
        PROVE  OneCarrier'
    <2> DEFINE t == held[c]
               p == executor[c]
    <2>1. /\ t \in Tasks /\ p \in Pools
          /\ queue' = [queue EXCEPT ![p] = Append(@, t)]
          /\ UNCHANGED <<busy, worker>>
      BY <1>2 DEF Enqueue, Refuses, TypeOK, CallerInv
    <2>2. worker[t] = "waiting" /\ \A q \in Pools : ~InQueue(t, q)
      BY <1>2, <2>1 DEF HandInv, Enqueue
    <2>3. \A u \in Tasks, q \in Pools :
              InQueue(u, q)' <=> InQueue(u, q) \/ (q = p /\ u = t)
      BY <2>1, AppendInQueue
    <2>4. ASSUME NEW u \in Tasks, NEW q \in Pools, NEW r \in Pools,
                 NEW i \in 1..Len(queue'[q]), NEW j \in 1..Len(queue'[r]),
                 queue'[q][i] = u, queue'[r][j] = u
          PROVE  q = r /\ i = j
      <3>1. /\ queue[q] \in Seq(Tasks) /\ queue[r] \in Seq(Tasks)
            /\ queue'[q] = IF q = p THEN Append(queue[q], t) ELSE queue[q]
            /\ queue'[r] = IF r = p THEN Append(queue[r], t) ELSE queue[r]
        BY <2>1 DEF TypeOK
      <3>2. /\ i \in 1..Len(queue[q]) => queue[q][i] = u
            /\ i \notin 1..Len(queue[q]) => q = p /\ i = Len(queue[q]) + 1 /\ u = t
        BY <2>4, <3>1
      <3>3. /\ j \in 1..Len(queue[r]) => queue[r][j] = u
            /\ j \notin 1..Len(queue[r]) => r = p /\ j = Len(queue[r]) + 1 /\ u = t
        BY <2>4, <3>1
      <3> QED
        BY <2>2, <3>2, <3>3 DEF InQueue
    <2> QED
      BY <2>1, <2>2, <2>3, <2>4
  <1>3. ASSUME NEW p \in Pools, NEW t \in Tasks, StartRun(p, t)
        PROVE  OneCarrier'
    <2>1. \A u \in Tasks, q \in Pools :
              InQueue(u, q)' => InQueue(u, q) /\ u # t
      BY <1>3, StartRunInQueue
    <2>2. InQueue(t, p)
      BY <1>3, StartRunInQueue
    <2>3. /\ busy' = [busy EXCEPT ![p] = @ \cup {t}]
          /\ worker' = [worker EXCEPT ![t] = "running"]
          /\ queue[p] # <<>> /\ queue' = [queue EXCEPT ![p] = Tail(@)]
      BY <1>3 DEF StartRun
    <2>4. ASSUME NEW u \in Tasks, NEW q \in Pools, NEW r \in Pools,
                 NEW i \in 1..Len(queue'[q]), NEW j \in 1..Len(queue'[r]),
                 queue'[q][i] = u, queue'[r][j] = u
          PROVE  q = r /\ i = j
      <3> DEFINE P(s, k) == IF s = p THEN k + 1 ELSE k
      <3>1. ASSUME NEW s \in Pools, NEW k \in 1..Len(queue'[s])
            PROVE  P(s, k) \in 1..Len(queue[s]) /\ queue'[s][k] = queue[s][P(s, k)]
        <4>0. queue[p] # <<>> /\ queue' = [queue EXCEPT ![p] = Tail(@)]
          BY <2>3
        <4>1. /\ Len(queue'[s]) = IF s = p THEN Len(queue[s]) - 1 ELSE Len(queue[s])
              /\ \A m \in 1..Len(queue'[s]) :
                    queue'[s][m] = IF s = p THEN queue[s][m + 1] ELSE queue[s][m]
              /\ Len(queue[s]) \in Nat
          <5> HIDE DEF P, OneCarrier, Holding, TypeOK
          <5> QED
            BY ONLY <4>0, TypeOK, p \in Pools, s \in Pools, TailInQueue
        <4>2. CASE s = p
          <5> HIDE DEF OneCarrier
          <5> QED
            BY <4>1, <4>2
        <4>3. CASE s # p
          <5> HIDE DEF OneCarrier
          <5> QED
            BY <4>1, <4>3
        <4> QED
          BY <4>2, <4>3
      <3>2. P(q, i) \in 1..Len(queue[q]) /\ queue[q][P(q, i)] = u
        BY <2>4, <3>1
      <3>3. P(r, j) \in 1..Len(queue[r]) /\ queue[r][P(r, j)] = u
        BY <2>4, <3>1
      <3>4. q = r /\ P(q, i) = P(r, j)
        <4> HIDE DEF P
        <4> QED
          BY <3>2, <3>3
      <3> QED
        BY <3>4
    <2>5. worker[t] = "waiting" /\ \A q \in Pools : t \notin busy[q]
      BY <2>2
    <2>6. ASSUME NEW u \in Tasks, NEW q \in Pools, NEW r \in Pools, u \in busy'[q]
          PROVE  /\ u \in busy'[r] => q = r
                 /\ ~InQueue(u, r)'
                 /\ worker'[u] \in Holding
      <3>1. CASE u = t
        <4>1. q = p /\ (t \in busy'[r] => r = p)
          BY <2>3, <2>5, <2>6, <3>1 DEF TypeOK
        <4>2. ~InQueue(t, r)'
          BY <2>1
        <4>3. worker'[t] = "running"
          BY <2>3 DEF TypeOK
        <4> QED
          BY <3>1, <4>1, <4>2, <4>3
      <3>2. CASE u # t
        <4>1. u \in busy[q] /\ (u \in busy'[r] => u \in busy[r])
          BY <2>3, <2>6, <3>2 DEF TypeOK
        <4>2. ~InQueue(u, r)'
          BY <2>1, <4>1
        <4>3. worker'[u] = worker[u]
          BY <2>3, <3>2 DEF TypeOK
        <4> QED
          BY <4>1, <4>2, <4>3
      <3> QED
        BY <3>1, <3>2
    <2>7. ASSUME NEW u \in Tasks, NEW q \in Pools, InQueue(u, q)'
          PROVE  worker'[u] = "waiting"
      BY <2>1, <2>3, <2>7 DEF TypeOK
    <2> QED
      BY <2>4, <2>6, <2>7
  <1>4. ASSUME NEW p \in Pools, NEW t \in Tasks, t \in busy[p],
               UNCHANGED queue, worker' = [worker EXCEPT ![t] = "over"],
               busy' = [busy EXCEPT ![p] = @ \ {t}]
        PROVE  OneCarrier'
    BY <1>4 DEF TypeOK, InQueue
  <1>5. ASSUME NEW t \in Tasks, worker[t] \in Holding, UNCHANGED <<queue, busy>>,
               NEW w \in Holding, worker' = [worker EXCEPT ![t] = w]
        PROVE  OneCarrier'
    BY <1>5 DEF TypeOK, InQueue
  <1>6. ASSUME NEW p \in Pools, NEW t \in Tasks, NEW o \in Outcomes, FinishRun(p, t, o)
        PROVE  OneCarrier'
    BY <1>4, <1>5, <1>6 DEF FinishRun
  <1> QED
    BY <1>1, <1>2, <1>3, <1>4, <1>5, <1>6, QuietSteps
    DEF SetStatus, SetCompleted, SetPayload, EnqueueRaises, AddJob, poolVars, vars

-----------------------------------------------------------------------------
\* A step that gives no caller a task, and leaves those in hand alone, keeps
\* HandInv.
LEMMA HandKept ==
    ASSUME HandInv,
           \A c \in Callers : \/ held'[c] = NoTask
                              \/ /\ held'[c] = held[c]
                                 /\ pc'[c] # "add_job" => pc[c] # "add_job",
           \A t \in Tasks : Created(t) => Created(t)',
           \A c \in Callers, t \in Tasks :
              held[c] = t /\ pc[c] # "add_job" /\ held'[c] = t /\ pc'[c] # "add_job" =>
                /\ worker'[t] = worker[t] /\ answer'[t] = answer[t]
                /\ \A p \in Pools : InQueue(t, p)' => InQueue(t, p)
    PROVE  HandInv'
  BY DEF HandInv

\* Every step keeps the hands of the callers to themselves.
LEMMA HandInvStep ==
    ASSUME TypeOK, CallerInv, HandInv, FreshInv, OneCarrier, [Next]_vars
    PROVE  HandInv'
  <1>0. /\ pc \in [Callers -> CallerPC] /\ held \in [Callers -> Tasks \cup {NoTask}]
        /\ worker \in [Tasks -> WorkerPC] /\ DOMAIN answer = Tasks
        /\ status \in [Tasks -> TaskStatus \cup {"ABSENT"}]
    BY DEF TypeOK
  <1> USE DEF Goto
  <1>1. ASSUME NEW c \in Callers, NEW t \in Tasks, Create(c, t)
        PROVE  HandInv'
    <2>1. /\ ~Created(t) /\ held' = [held EXCEPT ![c] = t]
          /\ status' = [status EXCEPT ![t] = "PENDING"]
          /\ pc' = [pc EXCEPT ![c] = "check_pool"]
          /\ UNCHANGED <<queue, worker, answer>>
      BY <1>1 DEF Create, poolVars
    <2>2. \A d \in Callers : held[d] # t
      BY <2>1 DEF HandInv
    <2>3. \A u \in Tasks : (Created(u)' <=> Created(u) \/ u = t)
      BY <1>0, <2>1 DEF Created
    <2>4. \A u \in Tasks, p \in Pools : InQueue(u, p)' <=> InQueue(u, p)
      BY <2>1 DEF InQueue
    <2>5. /\ worker[t] = "waiting" /\ answer[t] = "none"
          /\ \A p \in Pools : ~InQueue(t, p)
      BY <2>1 DEF FreshInv
    <2>6. \A d \in Callers : IF d = c THEN held'[d] = t
                                      ELSE held'[d] = held[d] /\ pc'[d] = pc[d]
      BY <1>0, <2>1
    <2> QED
      BY <2>1, <2>2, <2>3, <2>4, <2>5, <2>6 DEF HandInv
  <1>2. ASSUME UNCHANGED <<status, held, queue, worker, answer>>, NEW c \in Callers,
               NEW l \in CallerPC, pc' = [pc EXCEPT ![c] = l],
               l = "add_job" \/ pc[c] # "add_job"
        PROVE  HandInv'
    BY <1>0, <1>2, HandKept DEF Created, InQueue
  <1>3. ASSUME NEW c \in Callers, Return(c), UNCHANGED <<status, queue, worker>>,
               \/ UNCHANGED answer
               \/ answer' = [answer EXCEPT ![held[c]] = "raised"]
        PROVE  HandInv'
    <2>1. /\ held' = [held EXCEPT ![c] = NoTask] /\ pc' = [pc EXCEPT ![c] = "idle"]
      BY <1>3 DEF Return
    <2>2. \A d \in Callers : \/ held'[d] = NoTask
                             \/ /\ held'[d] = held[d] /\ pc'[d] = pc[d] /\ d # c
      BY <1>0, <2>1
    <2>3. \A d \in Callers, t \in Tasks : held[d] = t /\ held'[d] = t =>
                answer'[t] = answer[t]
      BY <1>0, <1>3, <2>2 DEF HandInv
    <2>4. \A t \in Tasks : (Created(t)' <=> Created(t)) /\ worker'[t] = worker[t]
                            /\ \A p \in Pools : InQueue(t, p)' <=> InQueue(t, p)
      BY <1>3 DEF Created, InQueue
    <2> QED
      BY <2>2, <2>3, <2>4, HandKept
  <1>4. ASSUME NEW c \in Callers, MarkStarted(c)
        PROVE  HandInv'
    <2>1. /\ status' = [status EXCEPT ![held[c]] = "STARTED"]
          /\ pc' = [pc EXCEPT ![c] = "enqueue"] /\ pc[c] = "mark_started"
          /\ UNCHANGED <<held, queue, worker, answer>>
      BY <1>4 DEF MarkStarted, handVars, poolVars
    <2>2. \A t \in Tasks : Created(t) => Created(t)'
      BY <1>0, <2>1 DEF Created
    <2> QED
      BY <1>0, <2>1, <2>2, HandKept DEF InQueue
  <1>5. ASSUME NEW c \in Callers, Enqueue(c)
        PROVE  HandInv'
    <2> DEFINE t == held[c]
               p == executor[c]
    <2>1. /\ t \in Tasks /\ p \in Pools
          /\ queue' = [queue EXCEPT ![p] = Append(@, t)]
          /\ UNCHANGED <<status, worker>>
          /\ \/ pc' = [pc EXCEPT ![c] = "add_job"] /\ UNCHANGED <<held, answer>>
             \/ /\ pc' = [pc EXCEPT ![c] = "idle"] /\ held' = [held EXCEPT ![c] = NoTask]
                /\ answer' = [answer EXCEPT ![t] = "task_id"]
      BY <1>5 DEF Enqueue, Refuses, TypeOK, CallerInv, Return, infoVars
    <2>2. \A u \in Tasks, q \in Pools : u # t => (InQueue(u, q)' <=> InQueue(u, q))
      BY <2>1, AppendInQueue
    <2>3. \A d \in Callers : IF d = c
                THEN held'[d] = NoTask \/ (held'[d] = held[d] /\ pc'[d] = "add_job")
                ELSE held'[d] = held[d] /\ pc'[d] = pc[d] /\ (held[d] # t)
      BY <1>0, <2>1 DEF HandInv
    <2>4. \A u \in Tasks : /\ u # t => answer'[u] = answer[u]
                           /\ worker'[u] = worker[u] /\ (Created(u)' <=> Created(u))
      BY <1>0, <2>1 DEF Created
    <2> QED
      BY <2>2, <2>3, <2>4, HandKept
  <1>6. ASSUME NEW p \in Pools, NEW t \in Tasks, StartRun(p, t)
        PROVE  HandInv'
    <2>1. /\ InQueue(t, p)
          /\ \A u \in Tasks, q \in Pools : InQueue(u, q)' => InQueue(u, q)
      BY <1>6, StartRunInQueue
    <2>2. /\ worker' = [worker EXCEPT ![t] = "running"]
          /\ UNCHANGED <<status, pc, held, answer>>
      BY <1>6 DEF StartRun, infoVars, callVars
    <2>3. \A c \in Callers : held[c] = t => pc[c] = "add_job"
      BY <2>1 DEF HandInv
    <2> QED
      BY <1>0, <2>1, <2>2, <2>3, HandKept DEF Created
  <1>7. ASSUME NEW t \in Tasks, worker[t] # "waiting", NEW w \in WorkerPC,
               worker' = [worker EXCEPT ![t] = w],
               UNCHANGED <<pc, held, queue, answer>>,
               \/ UNCHANGED status
               \/ \E v \in TaskStatus : status' = [status EXCEPT ![t] = v]
        PROVE  HandInv'
    <2>1. \A c \in Callers : held[c] = t => pc[c] = "add_job"
      BY <1>7 DEF HandInv
    <2>2. \A u \in Tasks : Created(u) => Created(u)'
      BY <1>0, <1>7 DEF Created, TaskStatus
    <2> QED
      BY <1>0, <1>7, <2>1, <2>2, HandKept DEF InQueue
  <1>8. CASE UNCHANGED vars
    BY <1>8 DEF vars, HandInv, InQueue, Created
  <1>9. ASSUME NEW c \in Callers, Submission(c)
        PROVE  HandInv'
    <2>1. CASE CheckPool(c)
      BY <1>2, <2>1 DEF CheckPool, CallerPC, infoVars, handVars, poolVars
    <2>2. CASE MakePool(c)
      BY <1>2, <2>2 DEF MakePool, CallerPC, infoVars, handVars
    <2>3. CASE ReturnPool(c)
      <3>1. CASE Return(c)
        BY <1>3, <2>3, <3>1 DEF ReturnPool, infoVars, poolVars
      <3>2. CASE pc' = [pc EXCEPT ![c] = "mark_started"] /\ UNCHANGED held
        BY <1>2, <2>3, <3>2 DEF ReturnPool, CallerPC, infoVars, poolVars
      <3> QED
        BY <2>3, <3>1, <3>2 DEF ReturnPool
    <2>4. CASE EnqueueRaises(c)
      BY <1>3, <2>4 DEF EnqueueRaises, infoVars, poolVars
    <2>5. CASE AddJob(c)
      BY <1>3, <2>5 DEF AddJob, infoVars, poolVars
    <2> QED
      BY <1>4, <1>5, <1>9, <2>1, <2>2, <2>3, <2>4, <2>5 DEF Submission
  <1>10. ASSUME NEW t \in Tasks, WorkerStep(t)
         PROVE  HandInv'
    <2>1. ASSUME NEW p \in Pools, NEW o \in Outcomes, FinishRun(p, t, o)
          PROVE  HandInv'
      BY <1>7, <2>1 DEF FinishRun, WorkerPC, Holding, infoVars, callVars
    <2>2. CASE SetStatus(t)
      <3>1. VerdictOf(outcome[t]) \in TaskStatus
        BY DEF VerdictOf, TaskStatus
      <3> QED
        BY <1>7, <2>2, <3>1 DEF SetStatus, WorkerPC, Holding, callVars, poolVars
    <2>3. CASE SetCompleted(t)
      BY <1>7, <2>3 DEF SetCompleted, WorkerPC, Holding, callVars, poolVars
    <2>4. ASSUME NEW p \in Pools, SetPayload(p, t)
          PROVE  HandInv'
      BY <1>7, <2>4 DEF SetPayload, WorkerPC, callVars
    <2> QED
      BY <1>6, <1>10, <2>1, <2>2, <2>3, <2>4 DEF WorkerStep
  <1>11. CASE IsReady
    BY <1>2, <1>11 DEF IsReady, MayCall, CallerPC, infoVars, handVars, poolVars
  <1>12. CASE ShutdownScheduler
    BY <1>2, <1>12 DEF ShutdownScheduler, MayCall, CallerPC, infoVars, handVars, poolVars
  <1>13. CASE ShutdownStep
    <2>1. CASE ShutdownNoPool
      BY <1>3, <2>1 DEF ShutdownNoPool, infoVars, poolVars
    <2>2. CASE ClosePool
      BY <1>2, <2>2 DEF ClosePool, CallerPC, infoVars
    <2>3. CASE JoinPool
      BY <1>2, <2>3 DEF JoinPool, CallerPC, infoVars, handVars, poolVars
    <2>4. CASE ClearPool
      BY <1>3, <2>4 DEF ClearPool, infoVars
    <2> QED
      BY <1>13, <2>1, <2>2, <2>3, <2>4 DEF ShutdownStep
  <1>14. ASSUME NEW t \in Tasks, RunDateArrives(t)
         PROVE  HandInv'
    BY <1>14 DEF RunDateArrives, HandInv, InQueue, Created, infoVars, poolVars, callVars
  <1> QED
    BY <1>1, <1>8, <1>9, <1>10, <1>11, <1>12, <1>13, <1>14 DEF Next

\* The steps that change a status field, and so may create a task.
LEMMA StatusSteps ==
    ASSUME [Next]_vars
    PROVE  \/ UNCHANGED status
           \/ \E c \in Callers : MarkStarted(c) \/ \E t \in Tasks : Create(c, t)
           \/ \E t \in Tasks : SetStatus(t)
  BY DEF Next, Submission, WorkerStep, ShutdownStep, ShutdownNoPool, ClosePool,
         JoinPool, ClearPool, ShutdownScheduler, RunDateArrives, IsReady, CheckPool,
         MakePool, ReturnPool, Enqueue, EnqueueRaises, AddJob, StartRun, FinishRun,
         SetCompleted, SetPayload, infoVars, vars

\* A task that was created stays created.
LEMMA CreatedStays ==
    ASSUME TypeOK, CallerInv, [Next]_vars, NEW t \in Tasks, Created(t)
    PROVE  Created(t)'
  <1>1. \/ UNCHANGED status
        \/ \E u \in Tasks, v \in TaskStatus : status' = [status EXCEPT ![u] = v]
    <2>1. ASSUME NEW c \in Callers, MarkStarted(c)
          PROVE  held[c] \in Tasks /\ status' = [status EXCEPT ![held[c]] = "STARTED"]
      BY <2>1 DEF MarkStarted, CallerInv
    <2>2. \A u \in Tasks : VerdictOf(outcome[u]) \in TaskStatus
      BY DEF VerdictOf, TaskStatus
    <2> QED
      BY <2>1, <2>2, StatusSteps DEF Create, SetStatus, TaskStatus
  <1> QED
    BY <1>1 DEF TypeOK, Created, TaskStatus

\* Every step leaves alone a task that is not created by it.
LEMMA FreshInvStep ==
    ASSUME TypeOK, CallerInv, HandInv, FreshInv, OneCarrier, [Next]_vars
    PROVE  FreshInv'
  <1> SUFFICES ASSUME NEW t \in Tasks, ~Created(t)'
               PROVE  /\ worker'[t] = "waiting" /\ answer'[t] = "none"
                      /\ \A p \in Pools : ~InQueue(t, p)'
    BY DEF FreshInv
  <1>0. /\ worker \in [Tasks -> WorkerPC] /\ DOMAIN answer = Tasks
        /\ ~Created(t) /\ worker[t] = "waiting" /\ answer[t] = "none"
        /\ \A p \in Pools : ~InQueue(t, p)
    BY CreatedStays DEF TypeOK, FreshInv
  <1>1. CASE UNCHANGED <<queue, busy, worker, answer>>
    BY <1>0, <1>1 DEF InQueue
  <1>2. ASSUME NEW c \in Callers, Enqueue(c) \/ EnqueueRaises(c) \/ AddJob(c)
        PROVE  answer'[t] = "none" /\ UNCHANGED worker
    <2>1. held[c] \in Tasks /\ held[c] # t
      BY <1>0, <1>2 DEF CallerInv, HandInv, Enqueue, EnqueueRaises, AddJob
    <2> QED
      BY <1>0, <1>2, <2>1 DEF Enqueue, EnqueueRaises, AddJob
  <1>3. ASSUME NEW c \in Callers, Enqueue(c), NEW p \in Pools
        PROVE  ~InQueue(t, p)'
    <2>1. /\ held[c] \in Tasks /\ held[c] # t /\ executor[c] \in Pools
          /\ queue' = [queue EXCEPT ![executor[c]] = Append(@, held[c])]
      BY <1>0, <1>3 DEF CallerInv, HandInv, Enqueue, Refuses, TypeOK
    <2> QED
      BY <1>0, <2>1, AppendInQueue
  <1>4. ASSUME NEW c \in Callers, EnqueueRaises(c) \/ AddJob(c)
        PROVE  UNCHANGED queue
    BY <1>4 DEF EnqueueRaises, AddJob, poolVars
  <1>5. ASSUME NEW p \in Pools, NEW u \in Tasks, StartRun(p, u)
        PROVE  /\ worker'[t] = "waiting" /\ UNCHANGED answer
               /\ \A q \in Pools : ~InQueue(t, q)'
    <2>1. InQueue(u, p) /\ \A q \in Pools : InQueue(t, q)' => InQueue(t, q)
      BY <1>5, StartRunInQueue
    <2> QED
      BY <1>0, <1>5, <2>1 DEF StartRun, callVars
  <1>6. ASSUME NEW u \in Tasks, worker[u] # "waiting", NEW w \in WorkerPC,
               worker' = [worker EXCEPT ![u] = w], UNCHANGED <<queue, answer>>
        PROVE  /\ worker'[t] = "waiting" /\ answer'[t] = "none"
               /\ \A q \in Pools : ~InQueue(t, q)'
    BY <1>0, <1>6 DEF InQueue
  <1>7. ASSUME NEW u \in Tasks,
               \/ \E p \in Pools : \/ \E o \in Outcomes : FinishRun(p, u, o)
                                   \/ SetPayload(p, u)
               \/ SetStatus(u) \/ SetCompleted(u)
        PROVE  /\ worker'[t] = "waiting" /\ answer'[t] = "none"
               /\ \A q \in Pools : ~InQueue(t, q)'
    BY <1>6, <1>7 DEF FinishRun, SetPayload, SetStatus, SetCompleted, WorkerPC,
                      Holding, callVars, poolVars
  <1>8. CASE UNCHANGED vars
    BY <1>1, <1>8 DEF vars
  <1> QED
    BY <1>0, <1>1, <1>2, <1>3, <1>4, <1>5, <1>7, <1>8, QuietSteps DEF InQueue

\* Every step keeps away from the workers what submit_task refused.
LEMMA RaisedStep ==
    ASSUME TypeOK, CallerInv, HandInv, FreshInv, OneCarrier, RaisedNeverRuns,
           [Next]_vars
    PROVE  RaisedNeverRuns'
  <1> SUFFICES ASSUME NEW t \in Tasks \ Scheduled, answer'[t] = "raised"
               PROVE  worker'[t] = "waiting" /\ \A p \in Pools : ~InQueue(t, p)'
    BY DEF RaisedNeverRuns
  <1>0. /\ worker \in [Tasks -> WorkerPC] /\ DOMAIN answer = Tasks
        /\ answer[t] = "raised" =>
                worker[t] = "waiting" /\ \A p \in Pools : ~InQueue(t, p)
    BY DEF TypeOK, RaisedNeverRuns
  <1>1. CASE UNCHANGED <<queue, busy, worker, answer>>
    BY <1>0, <1>1 DEF InQueue
  <1>2. ASSUME NEW c \in Callers, Enqueue(c)
        PROVE  worker'[t] = "waiting" /\ \A p \in Pools : ~InQueue(t, p)'
    <2>1. /\ held[c] \in Tasks /\ executor[c] \in Pools /\ UNCHANGED worker
          /\ queue' = [queue EXCEPT ![executor[c]] = Append(@, held[c])]
          /\ UNCHANGED answer \/ answer' = [answer EXCEPT ![held[c]] = "task_id"]
      BY <1>2 DEF CallerInv, Enqueue, Refuses, TypeOK
    <2>2. answer[held[c]] = "none"
      BY <1>2, <2>1 DEF HandInv, Enqueue
    <2>3. answer[t] = "raised" /\ held[c] # t
      BY <1>0, <2>1, <2>2
    <2> QED
      BY <1>0, <2>1, <2>3, AppendInQueue
  <1>3. ASSUME NEW c \in Callers, EnqueueRaises(c) \/ AddJob(c)
        PROVE  worker'[t] = "waiting" /\ \A p \in Pools : ~InQueue(t, p)'
    <2>1. UNCHANGED <<queue, worker>>
      BY <1>3 DEF EnqueueRaises, AddJob, poolVars
    <2>2. CASE held[c] = t
      <3>1. pc[c] = "enqueue"
        BY <1>3, <2>2 DEF EnqueueRaises, AddJob, CallerInv
      <3> QED
        BY <2>1, <2>2, <3>1 DEF HandInv, InQueue
    <2>3. CASE held[c] # t
      <3>1. answer[t] = "raised"
        BY <1>0, <1>3, <2>3 DEF EnqueueRaises, AddJob
      <3> QED
        BY <1>0, <2>1, <3>1 DEF InQueue
    <2> QED
      BY <2>2, <2>3
  <1>4. ASSUME NEW p \in Pools, NEW u \in Tasks, StartRun(p, u)
        PROVE  worker'[t] = "waiting" /\ \A q \in Pools : ~InQueue(t, q)'
    <2>1. InQueue(u, p) /\ \A q \in Pools : InQueue(t, q)' => InQueue(t, q)
      BY <1>4, StartRunInQueue
    <2> QED
      BY <1>0, <1>4, <2>1 DEF StartRun, callVars
  <1>5. ASSUME NEW u \in Tasks, worker[u] # "waiting", NEW w \in WorkerPC,
               worker' = [worker EXCEPT ![u] = w], UNCHANGED <<queue, answer>>
        PROVE  worker'[t] = "waiting" /\ \A q \in Pools : ~InQueue(t, q)'
    BY <1>0, <1>5 DEF InQueue
  <1>6. ASSUME NEW u \in Tasks,
               \/ \E p \in Pools : \/ \E o \in Outcomes : FinishRun(p, u, o)
                                   \/ SetPayload(p, u)
               \/ SetStatus(u) \/ SetCompleted(u)
        PROVE  worker'[t] = "waiting" /\ \A q \in Pools : ~InQueue(t, q)'
    BY <1>5, <1>6 DEF FinishRun, SetPayload, SetStatus, SetCompleted, WorkerPC,
                      Holding, callVars, poolVars
  <1>7. CASE UNCHANGED vars
    BY <1>1, <1>7 DEF vars
  <1> QED
    BY <1>1, <1>2, <1>3, <1>4, <1>6, <1>7, QuietSteps

\* At the start no task is anywhere.
LEMMA InitCarrierInv ==
    ASSUME Init
    PROVE  CarrierInv
  <1>1. \A t \in Tasks, p \in Pools : ~InQueue(t, p) /\ busy[p] = {} /\ queue[p] = <<>>
    BY DEF Init, InQueue
  <1>2. OneCarrier
    BY <1>1 DEF OneCarrier
  <1>3. HandInv
    BY DEF Init, HandInv
  <1>4. FreshInv /\ RaisedNeverRuns
    BY <1>1 DEF Init, FreshInv, RaisedNeverRuns
  <1> QED
    BY <1>2, <1>3, <1>4 DEF CarrierInv

\* Every step keeps the whole of the carriers' invariant.
LEMMA CarrierStep ==
    ASSUME TypeInv, CarrierInv, [Next]_vars
    PROVE  TypeInv' /\ CarrierInv'
  BY TypeOKStep, CallerStep, OneCarrierStep, HandInvStep, FreshInvStep, RaisedStep
  DEF TypeInv, CarrierInv

\* Types and carriers, throughout.
LEMMA CarrierAlways == Spec => [](TypeInv /\ CarrierInv)
  <1>1. TypeInv /\ CarrierInv /\ [Next]_vars => (TypeInv /\ CarrierInv)'
    BY CarrierStep
  <1> QED
    BY <1>1, InitTypeInv, InitCarrierInv, PTL DEF Spec

\* A task never has two carriers: whichever pools the unlocked lazy initialisation
\* of _get_thread_pool makes, one worker at most runs it, once.
THEOREM TaskQueueOneCarrier == Spec => []OneCarrier
  BY CarrierAlways, PTL DEF CarrierInv

\* What submit_task refused is never run: the routers' synchronous fallback is the
\* only execution of that work.
THEOREM TaskQueueRaised == Spec => []RaisedNeverRuns
  BY CarrierAlways, PTL DEF CarrierInv

-----------------------------------------------------------------------------
\* The steps that move a worker on, or write what it found.
LEMMA RunSteps ==
    ASSUME [Next]_vars
    PROVE  \/ UNCHANGED <<worker, result, error, outcome, completedAt, lock>>
           \/ \E p \in Pools, t \in Tasks :
                \/ StartRun(p, t) \/ SetPayload(p, t)
                \/ \E o \in Outcomes : FinishRun(p, t, o)
           \/ \E t \in Tasks : SetStatus(t) \/ SetCompleted(t)
  BY DEF Next, Submission, WorkerStep, ShutdownStep, ShutdownNoPool, ClosePool,
         JoinPool, ClearPool, ShutdownScheduler, RunDateArrives, IsReady, CheckPool,
         MakePool, ReturnPool, MarkStarted, Create, Enqueue, EnqueueRaises, AddJob,
         infoVars, vars

\* Every step keeps each record in step with the worker of its task.
LEMMA RecordInvStep ==
    ASSUME TypeInv, CarrierInv, RecordInv, [Next]_vars
    PROVE  RecordInv'
  <1> USE DEF RecordOf, Settling, VerdictOf
  <1> DEFINE Kept(t) == RecordOf(t)' /\ (worker'[t] = "over" /\ outcome'[t] # "escape" =>
                /\ status'[t] = VerdictOf(outcome'[t]) /\ completedAt'[t]
                /\ result'[t] = IF outcome'[t] = "value" THEN "value" ELSE "none"
                /\ error'[t] = IF outcome'[t] \in Raises THEN outcome'[t] ELSE "none")
  <1> SUFFICES ASSUME NEW t \in Tasks
               PROVE  Kept(t)
    BY DEF RecordInv, OutcomeRecorded
  <1>0. /\ worker \in [Tasks -> WorkerPC] /\ status \in [Tasks -> TaskStatus \cup {"ABSENT"}]
        /\ DOMAIN result = Tasks /\ DOMAIN error = Tasks /\ DOMAIN outcome = Tasks
        /\ DOMAIN completedAt = Tasks
    BY DEF TypeInv, TypeOK
  <1>1. RecordOf(t) /\ (worker[t] = "over" /\ outcome[t] # "escape" =>
                /\ status[t] = VerdictOf(outcome[t]) /\ completedAt[t]
                /\ result[t] = IF outcome[t] = "value" THEN "value" ELSE "none"
                /\ error[t] = IF outcome[t] \in Raises THEN outcome[t] ELSE "none")
    BY DEF RecordInv, OutcomeRecorded
  <1>2. CASE UNCHANGED <<worker[t], status[t], result[t], error[t], outcome[t], completedAt[t]>>
    BY <1>1, <1>2
  <1>3. CASE UNCHANGED <<worker, result, error, outcome, completedAt>>
    <2>1. \/ UNCHANGED status[t]
          \/ worker[t] = "waiting" /\ status'[t] \notin Terminal
      <3>1. CASE UNCHANGED status
        BY <3>1
      <3>2. ASSUME NEW c \in Callers, NEW u \in Tasks, Create(c, u), u = t
            PROVE  worker[t] = "waiting" /\ status'[t] \notin Terminal
        BY <1>0, <3>2 DEF Create, CarrierInv, FreshInv, Terminal
      <3>3. ASSUME NEW c \in Callers, MarkStarted(c), held[c] = t
            PROVE  worker[t] = "waiting" /\ status'[t] \notin Terminal
        BY <1>0, <3>3 DEF MarkStarted, CarrierInv, HandInv, Terminal
      <3>4. ASSUME NEW c \in Callers, MarkStarted(c), held[c] # t
            PROVE  UNCHANGED status[t]
        BY <1>0, <3>4 DEF MarkStarted
      <3>5. ASSUME NEW c \in Callers, NEW u \in Tasks, Create(c, u), u # t
            PROVE  UNCHANGED status[t]
        BY <1>0, <3>5 DEF Create
      <3>6. ASSUME NEW u \in Tasks, SetStatus(u)
            PROVE  FALSE
        BY <1>0, <1>3, <3>6 DEF SetStatus
      <3> QED
        BY <3>1, <3>2, <3>3, <3>4, <3>5, <3>6, StatusSteps
    <2> QED
      BY <1>1, <1>3, <2>1
  <1>4. ASSUME NEW p \in Pools, NEW u \in Tasks, StartRun(p, u)
        PROVE  Kept(t)
    <2>1. InQueue(u, p)
      BY <1>4, StartRunInQueue DEF CarrierInv, TypeInv
    <2>2. worker[u] = "waiting"
      BY <2>1 DEF CarrierInv, OneCarrier
    <2>3. worker' = [worker EXCEPT ![u] = "running"]
          /\ UNCHANGED <<status, result, error, outcome, completedAt>>
      BY <1>4 DEF StartRun, infoVars
    <2> QED
      BY <1>0, <1>1, <2>2, <2>3
  <1>5. ASSUME NEW p \in Pools, NEW u \in Tasks, NEW o \in Outcomes, FinishRun(p, u, o)
        PROVE  Kept(t)
    <2>1. /\ worker[u] = "running" /\ outcome' = [outcome EXCEPT ![u] = o]
          /\ \/ o = "escape" /\ worker' = [worker EXCEPT ![u] = "over"]
             \/ o # "escape" /\ worker' = [worker EXCEPT ![u] = "set_status"]
          /\ UNCHANGED <<status, result, error, completedAt>>
      BY <1>5 DEF FinishRun, infoVars
    <2> QED
      BY <1>0, <1>1, <2>1
  <1>6. ASSUME NEW u \in Tasks, SetStatus(u)
        PROVE  Kept(t)
    <2>1. /\ worker[u] = "set_status" /\ worker' = [worker EXCEPT ![u] = "set_completed"]
          /\ status' = [status EXCEPT ![u] = VerdictOf(outcome[u])]
          /\ UNCHANGED <<result, error, outcome, completedAt>>
      BY <1>6 DEF SetStatus
    <2> QED
      BY <1>0, <1>1, <2>1
  <1>7. ASSUME NEW u \in Tasks, SetCompleted(u)
        PROVE  Kept(t)
    <2>1. /\ worker[u] = "set_completed" /\ worker' = [worker EXCEPT ![u] = "set_payload"]
          /\ completedAt' = [completedAt EXCEPT ![u] = TRUE]
          /\ UNCHANGED <<result, error, outcome, status>>
      BY <1>7 DEF SetCompleted
    <2> QED
      BY <1>0, <1>1, <2>1
  <1>8. ASSUME NEW p \in Pools, NEW u \in Tasks, SetPayload(p, u)
        PROVE  Kept(t)
    <2>1. /\ worker[u] = "set_payload" /\ worker' = [worker EXCEPT ![u] = "over"]
          /\ result' = [result EXCEPT ![u] = IF outcome[u] = "value" THEN "value" ELSE @]
          /\ error' = [error EXCEPT ![u] = IF outcome[u] \in Raises THEN outcome[u] ELSE @]
          /\ UNCHANGED <<status, outcome, completedAt>>
      BY <1>8 DEF SetPayload
    <2>2. CASE u # t
      BY <1>0, <1>1, <2>1, <2>2
    <2>3. CASE u = t
      <3>1. /\ result'[t] = IF outcome[t] = "value" THEN "value" ELSE "none"
            /\ error'[t] = IF outcome[t] \in Raises THEN outcome[t] ELSE "none"
        BY <1>0, <1>1, <2>1, <2>3
      <3> QED
        BY <1>0, <1>1, <2>1, <2>3, <3>1
    <2> QED
      BY <2>2, <2>3
  <1> HIDE DEF Kept
  <1> QED
    BY <1>3, <1>4, <1>5, <1>6, <1>7, <1>8, RunSteps

\* The whole invariant holds throughout.
LEMMA InvAlways == Spec => [](TypeInv /\ CarrierInv /\ RecordInv)
  <1>1. Init => RecordInv
    BY DEF Init, RecordInv, RecordOf, OutcomeRecorded, Settling, Terminal
  <1>2. TypeInv /\ CarrierInv /\ RecordInv /\ [Next]_vars => RecordInv'
    BY RecordInvStep
  <1> QED
    BY <1>1, <1>2, CarrierAlways, PTL DEF Spec

\* The record of a task that is over tells what its function did.
THEOREM TaskQueueRecord == Spec => []OutcomeRecorded
  BY InvAlways, PTL DEF RecordInv

-----------------------------------------------------------------------------
\* A step of the queue is a step of the promise or none at all.
LEMMA PromiseStep ==
    ASSUME TypeInv, CarrierInv, RecordInv, [Next]_vars
    PROVE  [Promise!PromiseNext]_(Promise!promiseVars)
  <1> USE DEF Promise!promiseVars
  <1>0. /\ worker \in [Tasks -> WorkerPC] /\ status \in [Tasks -> TaskStatus \cup {"ABSENT"}]
    BY DEF TypeInv, TypeOK
  <1>1. ASSUME NEW p \in Pools, NEW t \in Tasks, StartRun(p, t)
        PROVE  Promise!Run(t)
    <2>1. InQueue(t, p)
      BY <1>1, StartRunInQueue DEF CarrierInv, TypeInv
    <2>2. worker[t] = "waiting"
      BY <2>1 DEF CarrierInv, OneCarrier
    <2>3. worker' = [worker EXCEPT ![t] = "running"] /\ UNCHANGED status
      BY <1>1 DEF StartRun, infoVars
    <2>4. Phase[t] = "idle" /\ UNCHANGED Verdict
      BY <2>2, <2>3 DEF Phase, Verdict
    <2>5. Phase' = [Phase EXCEPT ![t] = "running"]
      BY <1>0, <2>3 DEF Phase
    <2> QED
      BY <2>4, <2>5 DEF Promise!Run
  <1>2. ASSUME NEW t \in Tasks, worker[t] \in Holding,
               worker' = [worker EXCEPT ![t] = "over"], UNCHANGED status
        PROVE  Promise!Leave(t)
    <2>1. Phase[t] = "running" /\ UNCHANGED Verdict
      BY <1>2 DEF Phase, Verdict, Holding
    <2>2. Phase' = [Phase EXCEPT ![t] = "over"]
      BY <1>0, <1>2 DEF Phase
    <2> QED
      BY <2>1, <2>2 DEF Promise!Leave
  <1>3. ASSUME NEW t \in Tasks, worker[t] \in Holding, NEW w \in Holding,
               worker' = [worker EXCEPT ![t] = w]
        PROVE  Phase[t] = "running" /\ UNCHANGED Phase
    BY <1>0, <1>3 DEF Phase, Holding
  <1>4. ASSUME NEW t \in Tasks, SetStatus(t)
        PROVE  \E v \in {"SUCCESS", "FAILURE"} : Promise!Judge(t, v)
    <2> DEFINE v == VerdictOf(outcome[t])
    <2>1. /\ worker[t] \in Holding /\ worker' = [worker EXCEPT ![t] = "set_completed"]
          /\ status' = [status EXCEPT ![t] = v]
      BY <1>4 DEF SetStatus, Holding
    <2>2. Phase[t] = "running" /\ UNCHANGED Phase
      BY <1>3, <2>1 DEF Holding
    <2>3. status[t] \notin Terminal
      BY <1>4 DEF SetStatus, RecordInv, RecordOf
    <2>4. v \in {"SUCCESS", "FAILURE"}
      BY DEF VerdictOf
    <2>5. Verdict[t] = "none"
      BY <2>3 DEF Verdict
    <2>6. Verdict' = [Verdict EXCEPT ![t] = v]
      <3> HIDE DEF v
      <3> QED
        BY <1>0, <2>1, <2>4 DEF Verdict, Terminal
    <2> QED
      BY <2>2, <2>4, <2>5, <2>6 DEF Promise!Judge
  <1>5. ASSUME NEW t \in Tasks, SetCompleted(t)
        PROVE  UNCHANGED <<Phase, Verdict>>
    <2>1. UNCHANGED Phase
      BY <1>3, <1>5 DEF SetCompleted, Holding
    <2>2. UNCHANGED Verdict
      BY <1>5 DEF SetCompleted, Verdict
    <2> QED
      BY <2>1, <2>2
  <1>6. ASSUME NEW p \in Pools, NEW t \in Tasks, NEW o \in Outcomes, FinishRun(p, t, o)
        PROVE  Promise!Leave(t) \/ UNCHANGED <<Phase, Verdict>>
    <2>1. worker[t] \in Holding /\ UNCHANGED status
      BY <1>6 DEF FinishRun, Holding, infoVars
    <2>2. CASE worker' = [worker EXCEPT ![t] = "over"]
      BY <1>2, <2>1, <2>2
    <2>3. CASE worker' = [worker EXCEPT ![t] = "set_status"]
      <3>1. UNCHANGED Phase
        BY <1>3, <2>1, <2>3 DEF Holding
      <3>2. UNCHANGED Verdict
        BY <2>1 DEF Verdict
      <3> QED
        BY <3>1, <3>2
    <2> QED
      BY <1>6, <2>2, <2>3 DEF FinishRun
  <1>7. ASSUME NEW p \in Pools, NEW t \in Tasks, SetPayload(p, t)
        PROVE  Promise!Leave(t)
    BY <1>2, <1>7 DEF SetPayload, Holding
  <1>8. ASSUME NEW c \in Callers, MarkStarted(c) \/ \E t \in Tasks : Create(c, t)
        PROVE  UNCHANGED <<Phase, Verdict>>
    <2>1. ASSUME NEW t \in Tasks, Create(c, t), NEW u \in Tasks
          PROVE  \/ status'[u] = status[u]
                 \/ status[u] \notin Terminal /\ status'[u] \notin Terminal
      BY <1>0, <2>1 DEF Create, Created, Terminal
    <2>2. ASSUME MarkStarted(c), NEW u \in Tasks
          PROVE  \/ status'[u] = status[u]
                 \/ status[u] \notin Terminal /\ status'[u] \notin Terminal
      <3>1. held[c] \in Tasks /\ status[held[c]] \notin Terminal
        BY <2>2 DEF MarkStarted, TypeInv, CallerInv, CarrierInv, HandInv, RecordInv, RecordOf
      <3> QED
        BY <1>0, <2>2, <3>1 DEF MarkStarted, Terminal
    <2>3. UNCHANGED worker
      BY <1>8 DEF MarkStarted, Create
    <2>4. \A u \in Tasks : \/ status'[u] = status[u]
                           \/ status[u] \notin Terminal /\ status'[u] \notin Terminal
      BY <1>8, <2>1, <2>2
    <2> QED
      BY <2>3, <2>4 DEF Phase, Verdict
  <1>9. CASE UNCHANGED <<worker, status>>
    BY <1>9 DEF Phase, Verdict
  <1> QED
    BY <1>1, <1>4, <1>5, <1>6, <1>7, <1>8, <1>9, RunSteps, StatusSteps
    DEF Promise!PromiseNext

\* The queue keeps its promise: it runs a task at most once, and gives at most one
\* verdict on it, while a worker has it.
THEOREM TaskQueueKeepsPromise == Spec => PromiseKept
  <1>1. Init => Promise!PromiseInit
    BY DEF Init, Promise!PromiseInit, Phase, Verdict, Terminal
  <1>2. TypeInv /\ CarrierInv /\ RecordInv /\ [Next]_vars =>
            [Promise!PromiseNext]_(Promise!promiseVars)
    BY PromiseStep
  <1> QED
    BY <1>1, <1>2, InvAlways, PTL DEF Spec, PromiseKept, Promise!PromiseSpec

-----------------------------------------------------------------------------
\* Every step keeps each unfinished task on its way, or leaves it to one of the
\* two known exceptions.
LEMMA ForgottenStep ==
    ASSUME TypeInv, CarrierInv, RecordInv, NeverForgotten, [Next]_vars
    PROVE  NeverForgotten'
  <1> DEFINE InHand(t) == \E c \in Callers : held[c] = t /\ pc[c] # "add_job"
             Carried(t) == \E p \in Pools : InQueue(t, p) \/ t \in busy[p]
             Refused(t) == worker[t] = "waiting" /\ answer[t] = "raised"
             Accounted(t) == \/ InHand(t) \/ Carried(t) \/ Refused(t)
                             \/ outcome[t] = "escape"
  <1> SUFFICES ASSUME NEW t \in Tasks, Created(t)', status'[t] \notin Terminal
               PROVE  Accounted(t)'
    BY DEF NeverForgotten
  <1>0. /\ worker \in [Tasks -> WorkerPC] /\ DOMAIN answer = Tasks
        /\ DOMAIN outcome = Tasks /\ status \in [Tasks -> TaskStatus \cup {"ABSENT"}]
        /\ pc \in [Callers -> CallerPC] /\ held \in [Callers -> Tasks \cup {NoTask}]
        /\ busy \in [Pools -> SUBSET Tasks]
    BY DEF TypeInv, TypeOK
  <1>1. CASE UNCHANGED <<queue, busy, worker, answer, outcome, held, pc, status>>
    BY <1>1 DEF NeverForgotten, InQueue, Created
  <1>2. ASSUME UNCHANGED <<queue, busy, worker>>
        PROVE  Carried(t) => Carried(t)'
    BY <1>2 DEF InQueue
  <1>3. UNCHANGED status[t] => Accounted(t)
    BY DEF NeverForgotten, Created
  <1>4. ASSUME NEW c \in Callers, NEW u \in Tasks, Create(c, u)
        PROVE  Accounted(t)'
    <2>1. /\ held' = [held EXCEPT ![c] = u] /\ pc' = [pc EXCEPT ![c] = "check_pool"]
          /\ status' = [status EXCEPT ![u] = "PENDING"] /\ held[c] = NoTask
          /\ UNCHANGED <<queue, busy, worker, answer, outcome>>
      BY <1>4 DEF Create, MayCall, Goto, poolVars, TypeInv, CallerInv, Submitting
    <2>2. CASE u = t
      BY <1>0, <2>1, <2>2
    <2>3. CASE u # t
      <3>1. Accounted(t)
        BY <1>0, <1>3, <2>1, <2>3
      <3>2. InHand(t) => InHand(t)'
        BY <1>0, <2>1
      <3> QED
        BY <1>2, <2>1, <3>1, <3>2
    <2> QED
      BY <2>2, <2>3
  <1>5. ASSUME NEW c \in Callers, NEW l \in CallerPC, pc' = [pc EXCEPT ![c] = l],
               l # "add_job", UNCHANGED <<queue, busy, worker, answer, outcome, held>>,
               Accounted(t)
        PROVE  Accounted(t)'
    <2>1. InHand(t) => InHand(t)'
      BY <1>0, <1>5
    <2> QED
      BY <1>2, <1>5, <2>1
  <1>6. ASSUME NEW c \in Callers, Return(c), held[c] = t => pc[c] = "add_job",
               UNCHANGED <<queue, busy, worker, outcome>>, Accounted(t),
               \/ UNCHANGED answer
               \/ answer' = [answer EXCEPT ![held[c]] = "raised"]
        PROVE  Accounted(t)'
    <2>1. /\ pc' = [pc EXCEPT ![c] = "idle"] /\ held' = [held EXCEPT ![c] = NoTask]
          /\ answer[t] = "raised" => answer'[t] = "raised"
      BY <1>0, <1>6 DEF Return, Goto
    <2>2. InHand(t) => InHand(t)'
      BY <1>0, <1>6, <2>1
    <2> QED
      BY <1>2, <1>6, <2>1, <2>2
  <1>7. ASSUME NEW c \in Callers, MarkStarted(c)
        PROVE  Accounted(t)'
    <2>1. /\ status' = [status EXCEPT ![held[c]] = "STARTED"] /\ held[c] \in Tasks
          /\ pc[c] = "mark_started" /\ pc' = [pc EXCEPT ![c] = "enqueue"]
          /\ UNCHANGED <<queue, busy, worker, answer, outcome, held>>
      BY <1>7 DEF MarkStarted, Goto, poolVars, handVars, TypeInv, CallerInv
    <2>2. CASE held[c] = t
      BY <1>0, <2>1, <2>2
    <2>3. CASE held[c] # t
      <3>1. Accounted(t)
        BY <1>0, <1>3, <2>1, <2>3
      <3> QED
        BY <1>5, <2>1, <3>1 DEF CallerPC
    <2> QED
      BY <2>2, <2>3
  <1>8. ASSUME NEW c \in Callers, Enqueue(c)
        PROVE  Accounted(t)'
    <2>1. /\ held[c] \in Tasks /\ executor[c] \in Pools
          /\ queue' = [queue EXCEPT ![executor[c]] = Append(@, held[c])]
          /\ UNCHANGED <<busy, worker, outcome, status>>
          /\ answer'[t] = answer[t] \/ held[c] = t
          /\ \A d \in Callers \ {c} : held'[d] = held[d] /\ pc'[d] = pc[d]
      BY <1>0, <1>8 DEF Enqueue, Goto, Return, Refuses, infoVars, TypeInv, CallerInv, TypeOK
    <2>2. \A p \in Pools : (InQueue(t, p) => InQueue(t, p)')
                           /\ (held[c] = t /\ p = executor[c] => InQueue(t, p)')
      BY <2>1, AppendInQueue DEF TypeInv
    <2>3. CASE held[c] = t
      BY <2>1, <2>2, <2>3
    <2>4. CASE held[c] # t
      BY <1>3, <2>1, <2>2, <2>4
    <2> QED
      BY <2>3, <2>4
  <1>9. ASSUME NEW c \in Callers, EnqueueRaises(c)
        PROVE  Accounted(t)'
    <2>1. /\ Return(c) /\ answer' = [answer EXCEPT ![held[c]] = "raised"]
          /\ UNCHANGED <<queue, busy, worker, outcome, status>> /\ pc[c] = "enqueue"
      BY <1>9 DEF EnqueueRaises, poolVars, infoVars
    <2>2. CASE held[c] = t
      <3>1. worker[t] = "waiting"
        BY <2>1, <2>2 DEF CarrierInv, HandInv
      <3> QED
        BY <1>0, <2>1, <2>2, <3>1
    <2>3. CASE held[c] # t
      BY <1>3, <1>6, <2>1, <2>3
    <2> QED
      BY <2>2, <2>3
  <1>10. ASSUME NEW c \in Callers, Submission(c)
         PROVE  Accounted(t)'
    <2>1. CASE CheckPool(c)
      BY <1>3, <1>5, <2>1 DEF CheckPool, Goto, CallerPC, infoVars, handVars, poolVars
    <2>2. CASE MakePool(c)
      BY <1>3, <1>5, <2>2 DEF MakePool, Goto, CallerPC, infoVars, handVars
    <2>3. CASE ReturnPool(c)
      <3>1. CASE held[c] = NoTask
        BY <1>3, <1>6, <2>3, <3>1 DEF ReturnPool, infoVars, poolVars
      <3>2. CASE held[c] # NoTask
        BY <1>3, <1>5, <2>3, <3>2 DEF ReturnPool, Goto, CallerPC, infoVars, poolVars
      <3> QED
        BY <3>1, <3>2
    <2>4. CASE AddJob(c)
      BY <1>3, <1>6, <2>4 DEF AddJob, infoVars, poolVars
    <2> QED
      BY <1>7, <1>8, <1>9, <1>10, <2>1, <2>2, <2>3, <2>4 DEF Submission
  <1>11. ASSUME NEW p \in Pools, NEW u \in Tasks, StartRun(p, u)
         PROVE  Accounted(t)'
    <2>1. /\ busy' = [busy EXCEPT ![p] = @ \cup {u}] /\ worker' = [worker EXCEPT ![u] = "running"]
          /\ UNCHANGED <<status, outcome, pc, held, answer>>
      BY <1>11 DEF StartRun, infoVars, callVars
    <2>2. \A q \in Pools : InQueue(t, q) /\ t # u => InQueue(t, q)'
      BY <1>11, StartRunInQueue DEF TypeInv, CarrierInv
    <2> QED
      BY <1>0, <1>3, <2>1, <2>2
  <1>12. ASSUME NEW p \in Pools, NEW u \in Tasks, u \in busy[p],
                worker' = [worker EXCEPT ![u] = "over"],
                busy' = [busy EXCEPT ![p] = @ \ {u}],
                u = t => outcome'[t] = "escape", u # t => UNCHANGED outcome[t],
                UNCHANGED <<status, queue, pc, held, answer>>
         PROVE  Accounted(t)'
    BY <1>0, <1>3, <1>12 DEF InQueue
  <1>13. ASSUME NEW u \in Tasks, NEW p \in Pools, NEW o \in Outcomes, FinishRun(p, u, o)
         PROVE  Accounted(t)'
    <2>1. /\ u \in busy[p] /\ outcome' = [outcome EXCEPT ![u] = o]
          /\ worker[u] = "running"
          /\ UNCHANGED <<status, queue, pc, held, answer>>
      BY <1>13 DEF FinishRun, infoVars, callVars
    <2>2. CASE o = "escape"
      BY <1>0, <1>12, <1>13, <2>1, <2>2 DEF FinishRun
    <2>3. CASE o # "escape"
      <3>1. UNCHANGED busy /\ worker' = [worker EXCEPT ![u] = "set_status"]
        BY <1>13, <2>3 DEF FinishRun
      <3> QED
        BY <1>0, <1>3, <2>1, <3>1 DEF InQueue
    <2> QED
      BY <2>2, <2>3
  <1>14. ASSUME NEW u \in Tasks, SetStatus(u) \/ SetCompleted(u)
         PROVE  Accounted(t)'
    <2>1. u = t => UNCHANGED status[t]
      <3>1. VerdictOf(outcome[u]) \in Terminal
        BY DEF VerdictOf, Terminal
      <3> QED
        BY <1>0, <1>14, <3>1 DEF SetStatus, SetCompleted
    <2>2. u # t => UNCHANGED status[t]
      BY <1>0, <1>14 DEF SetStatus, SetCompleted
    <2>3. /\ worker[u] # "waiting"
          /\ u # t => UNCHANGED worker[t]
          /\ UNCHANGED <<queue, busy, outcome, pc, held, answer>>
      BY <1>0, <1>14 DEF SetStatus, SetCompleted, poolVars, callVars
    <2> QED
      BY <1>3, <2>1, <2>2, <2>3 DEF InQueue
  <1>15. ASSUME NEW p \in Pools, NEW u \in Tasks, SetPayload(p, u)
         PROVE  Accounted(t)'
    <2>1. /\ u \in busy[p] /\ worker[u] = "set_payload"
          /\ UNCHANGED <<status, queue, outcome, pc, held, answer>>
          /\ worker' = [worker EXCEPT ![u] = "over"]
          /\ busy' = [busy EXCEPT ![p] = @ \ {u}]
      BY <1>15 DEF SetPayload, callVars
    <2>2. u # t
      <3>1. status[u] = VerdictOf(outcome[u])
        BY <2>1 DEF RecordInv, RecordOf
      <3> QED
        BY <2>1, <3>1 DEF VerdictOf, Terminal
    <2> QED
      BY <1>12, <2>1, <2>2
  <1>16. ASSUME NEW u \in Tasks, WorkerStep(u)
         PROVE  Accounted(t)'
    BY <1>11, <1>13, <1>14, <1>15, <1>16 DEF WorkerStep
  <1>17. CASE IsReady \/ ShutdownScheduler
    <2>1. UNCHANGED status[t]
      BY <1>17 DEF IsReady, ShutdownScheduler, infoVars
    <2> QED
      BY <1>3, <1>5, <1>17, <2>1 DEF IsReady, ShutdownScheduler, Goto, CallerPC,
                                    infoVars, handVars, poolVars
  <1>18. CASE ShutdownStep
    <2>1. UNCHANGED status[t]
      BY <1>18 DEF ShutdownStep, ShutdownNoPool, ClosePool, JoinPool, ClearPool, infoVars
    <2>2. CASE ShutdownNoPool \/ ClearPool
      <3>1. held[Main] # t
        BY <2>2 DEF ShutdownNoPool, ClearPool, TypeInv, CallerInv, Submitting
      <3> QED
        BY <1>3, <1>6, <2>1, <2>2, <3>1 DEF ShutdownNoPool, ClearPool, poolVars
    <2>3. CASE ClosePool \/ JoinPool
      BY <1>3, <1>5, <2>1, <2>3 DEF ClosePool, JoinPool, Goto, CallerPC, handVars, poolVars
    <2> QED
      BY <1>18, <2>2, <2>3 DEF ShutdownStep
  <1>19. ASSUME NEW u \in Tasks, RunDateArrives(u)
         PROVE  Accounted(t)'
    BY <1>1, <1>19 DEF RunDateArrives, infoVars, poolVars, callVars
  <1>20. CASE UNCHANGED vars
    BY <1>1, <1>20 DEF vars
  <1> HIDE DEF Accounted
  <1> QED
    BY <1>4, <1>10, <1>16, <1>17, <1>18, <1>19, <1>20 DEF Next

\* A task without a verdict is in somebody's hands, unless its submission was
\* refused or its function died with something that is not an Exception.
THEOREM TaskQueueForgetsNothing == Spec => []NeverForgotten
  <1>1. Init => NeverForgotten
    BY DEF Init, NeverForgotten, Created
  <1>2. TypeInv /\ CarrierInv /\ RecordInv /\ NeverForgotten /\ [Next]_vars => NeverForgotten'
    BY ForgottenStep
  <1> QED
    BY <1>1, <1>2, InvAlways, PTL DEF Spec

-----------------------------------------------------------------------------
\* The lifespan shuts down once, so it closes one pool at most, and is still in
\* shutdown until that pool is drained.
ShutInv ==
    /\ stopped => pc[Main] \in {"shut_pool", "shut_wait", "shut_clear", "idle"}
    /\ pc[Main] \in {"shut_pool", "shut_wait", "shut_clear"} => stopped
    /\ \A p \in Pools :
        poolState[p] = "closed" => /\ stopped
                                   /\ pc[Main] # "shut_pool"
                                   /\ pc[Main] = "shut_wait" => executor[Main] = p
    /\ ShutdownDrained

\* Every step keeps a pool that was closed and waited for without work.
LEMMA ShutStep ==
    ASSUME TypeInv, ShutInv, [Next]_vars
    PROVE  ShutInv'
  <1>0. /\ pc \in [Callers -> CallerPC] /\ Main \in Callers /\ DOMAIN poolState = Pools
        /\ DOMAIN queue = Pools /\ DOMAIN busy = Pools /\ DOMAIN executor = Callers
    BY DEF TypeInv, TypeOK
  <1> USE DEF ShutInv, ShutdownDrained, Goto
  <1>1. CASE UNCHANGED <<stopped, pc, poolState, executor, queue, busy>>
    BY <1>1
  <1>2. ASSUME UNCHANGED <<stopped, poolState, queue, busy>>,
               NEW c \in Callers, NEW l \in CallerPC,
               pc' = [pc EXCEPT ![c] = l],
               l \notin {"shut_pool", "shut_wait", "shut_clear"},
               \A d \in Callers \ {c} : executor'[d] = executor[d],
               c = Main => ~stopped
        PROVE  ShutInv'
    BY <1>0, <1>2
  <1>3. ASSUME NEW c \in Callers, Submission(c)
        PROVE  c = Main => ~stopped
    BY <1>3 DEF Submission, CheckPool, MakePool, ReturnPool, MarkStarted, Enqueue,
                EnqueueRaises, AddJob
  <1>4. ASSUME NEW c \in Callers,
               CheckPool(c) \/ ReturnPool(c) \/ MarkStarted(c) \/ EnqueueRaises(c)
                            \/ AddJob(c)
        PROVE  ShutInv'
    <2>1. c = Main => ~stopped
      BY <1>3, <1>4 DEF Submission
    <2>2. /\ UNCHANGED <<stopped, poolState, queue, busy>>
          /\ \E l \in CallerPC : /\ pc' = [pc EXCEPT ![c] = l]
                                 /\ l \notin {"shut_pool", "shut_wait", "shut_clear"}
          /\ \A d \in Callers \ {c} : executor'[d] = executor[d]
      BY <1>0, <1>4 DEF CheckPool, ReturnPool, MarkStarted, EnqueueRaises, AddJob, Return,
                        CallerPC, poolVars, handVars
    <2> QED
      BY <1>2, <2>1, <2>2
  <1>5. ASSUME NEW c \in Callers, MakePool(c)
        PROVE  ShutInv'
    <2>1. PICK p \in Pools : poolState' = [poolState EXCEPT ![p] = "open"]
      BY <1>5 DEF MakePool
    <2>2. /\ pc' = [pc EXCEPT ![c] = "return_pool"] /\ pc[c] = "make_pool"
          /\ UNCHANGED <<stopped, executor, queue, busy>>
      BY <1>5 DEF MakePool, handVars
    <2> QED
      BY <1>0, <2>1, <2>2
  <1>6. ASSUME NEW c \in Callers, Enqueue(c)
        PROVE  ShutInv'
    <2>1. /\ executor[c] \in Pools /\ poolState[executor[c]] # "closed"
          /\ queue' = [queue EXCEPT ![executor[c]] = Append(@, held[c])]
          /\ UNCHANGED <<stopped, poolState, busy>>
          /\ \A d \in Callers \ {c} : executor'[d] = executor[d] /\ pc'[d] = pc[d]
          /\ pc[c] = "enqueue" /\ pc'[c] \in {"add_job", "idle"}
      BY <1>0, <1>6 DEF Enqueue, Refuses, Return, TypeInv, TypeOK
    <2>2. c = Main => ~stopped
      BY <2>1
    <2> QED
      BY <1>0, <2>1, <2>2
  <1>7. ASSUME NEW p \in Pools, NEW t \in Tasks, StartRun(p, t)
        PROVE  ShutInv'
    <2>1. /\ queue[p] # <<>> /\ queue' = [queue EXCEPT ![p] = Tail(@)]
          /\ busy' = [busy EXCEPT ![p] = @ \cup {t}]
          /\ UNCHANGED <<stopped, pc, poolState, executor>>
      BY <1>7 DEF StartRun, callVars
    <2> QED
      BY <1>0, <2>1
  <1>8. ASSUME NEW p \in Pools, NEW t \in Tasks,
               busy' = [busy EXCEPT ![p] = @ \ {t}] \/ UNCHANGED busy,
               UNCHANGED <<stopped, pc, poolState, executor, queue>>
        PROVE  ShutInv'
    BY <1>0, <1>8
  <1>9. ASSUME NEW t \in Tasks, WorkerStep(t)
        PROVE  ShutInv'
    <2>1. ASSUME NEW p \in Pools, NEW o \in Outcomes, FinishRun(p, t, o)
          PROVE  ShutInv'
      BY <1>8, <2>1 DEF FinishRun, callVars
    <2>2. ASSUME NEW p \in Pools, SetPayload(p, t)
          PROVE  ShutInv'
      BY <1>8, <2>2 DEF SetPayload, callVars
    <2>3. CASE SetStatus(t) \/ SetCompleted(t)
      BY <1>1, <2>3 DEF SetStatus, SetCompleted, callVars, poolVars
    <2> QED
      BY <1>7, <1>9, <2>1, <2>2, <2>3 DEF WorkerStep
  <1>10. CASE ShutdownScheduler
    BY <1>0, <1>10 DEF ShutdownScheduler, MayCall, handVars, poolVars
  <1>11. ASSUME ClosePool
         PROVE  ShutInv'
    <2>1. /\ pool \in Pools /\ poolState' = [poolState EXCEPT ![pool] = "closed"]
          /\ executor' = [executor EXCEPT ![Main] = pool]
          /\ pc[Main] = "shut_pool" /\ pc' = [pc EXCEPT ![Main] = "shut_wait"]
          /\ UNCHANGED <<stopped, queue, busy>>
      BY <1>11 DEF ClosePool, TypeInv, TypeOK
    <2> QED
      BY <1>0, <2>1
  <1>12. CASE JoinPool
    BY <1>0, <1>12 DEF JoinPool, handVars, poolVars
  <1>13. CASE ShutdownNoPool \/ ClearPool
    BY <1>0, <1>13 DEF ShutdownNoPool, ClearPool, Return, poolVars
  <1>14. CASE IsReady
    BY <1>0, <1>14 DEF IsReady, MayCall, handVars, poolVars
  <1>15. ASSUME NEW c \in Callers, NEW t \in Tasks, Create(c, t)
         PROVE  ShutInv'
    BY <1>0, <1>15 DEF Create, MayCall, poolVars
  <1>16. CASE (\E t \in Tasks : RunDateArrives(t)) \/ UNCHANGED vars
    BY <1>1, <1>16 DEF RunDateArrives, vars, poolVars, callVars
  <1> QED
    BY <1>4, <1>5, <1>6, <1>9, <1>10, <1>11, <1>12, <1>13, <1>14, <1>15, <1>16
    DEF Next, Submission, ShutdownStep

\* Whatever a thread kept in a local variable before the shutdown, the pool that
\* was closed and waited for never gets or does any work again.
THEOREM TaskQueueDrained == Spec => []ShutdownDrained
  <1>1. Init => ShutInv
    BY DEF Init, ShutInv, ShutdownDrained
  <1>2. TypeInv /\ ShutInv /\ [Next]_vars => ShutInv'
    BY ShutStep
  <1>3. ShutInv => ShutdownDrained
    BY DEF ShutInv
  <1> QED
    BY <1>1, <1>2, <1>3, InvAlways, PTL DEF Spec

-----------------------------------------------------------------------------
(* The readers of module TaskClient. *)

\* A worker between its first and its last field assignment has the lock; a
\* completion time comes after the verdict; a function that died with something
\* that is not an Exception leaves no trace in the record; and nothing ever assigns
\* RETRY.
SettleInv ==
    \A t \in Tasks :
        /\ worker[t] \in {"set_completed", "set_payload"} => lock = t
        /\ completedAt[t] => worker[t] \in {"set_payload", "over"}
        /\ worker[t] = "over" /\ outcome[t] = "escape" =>
            /\ status[t] \notin Terminal
            /\ ~completedAt[t]
            /\ result[t] = "none"
            /\ error[t] = "none"
        /\ worker[t] = "over" => outcome[t] # "unknown"
        /\ status[t] # "RETRY"

\* The record of a task is complete.
Settled(t) == worker[t] = "over" /\ outcome[t] # "escape"

QueueInv == TypeInv /\ CarrierInv /\ RecordInv /\ SettleInv

\* The points of a reading after the status, the completion time, the error and
\* the result were read.
AfterStatus == {"completed", "error", "result", "use"}
AfterCompleted == {"error", "result", "use"}
AfterError == {"result", "use"}
ReaderAt == {"idle", "lookup", "status"} \cup AfterStatus
Statuses == TaskStatus \cup {"ABSENT"}
Kinds == {"none", "report", "return", "raise", "timeout"}
Known(t) == IF error[t] = "text" THEN "text" ELSE "none"
LateGoals == {"failed", "error", "result"}

ReaderType ==
    /\ at \in [Readers -> ReaderAt]
    /\ goal \in [Readers -> Goals]
    /\ about \in [Readers -> Tasks \cup {NoTask}]
    /\ snap \in [Readers -> [status : Statuses, completed : BOOLEAN,
                             error : Errors, result : Results]]
    /\ reply \in [Readers -> [kind : Kinds, task : Tasks \cup {NoTask},
                              status : Statuses, error : Errors, result : Results]]
    /\ goal[Main] = "poll"
    /\ \A r \in Readers : at[r] # "idle" \/ goal[r] \in LateGoals => about[r] \in Tasks

\* What reader r has read so far is no later than what the record says now, and
\* whatever it read of the verdict and the payloads is final.
ReadSoFar(r) ==
    LET s == snap[r]
        t == about[r]
    IN  /\ at[r] \in AfterStatus => /\ Rank(s.status) <= Rank(status[t])
                                    /\ Terminated(s) => s.status = status[t]
        /\ at[r] \in AfterCompleted => (s.completed => completedAt[t])
        /\ at[r] \in AfterError => s.error = "none" \/ (s.error = "text" /\ error[t] = "text")
        /\ at[r] = "use" => s.result = "none" \/ s.result = result[t]

\* Once get has found the task ready, it reads a complete record.
ReadAgain(r) ==
    LET s == snap[r]
        t == about[r]
    IN  goal[r] \in LateGoals =>
            /\ status[t] \in Terminal
            /\ goal[r] = "error" => status[t] = "FAILURE"
            /\ goal[r] = "result" => status[t] = "SUCCESS"
            /\ at[r] \notin {"idle", "lookup"} => Settled(t)
            /\ at[r] \in AfterStatus => s.status = status[t]
            /\ at[r] \in AfterError => s.error = Known(t)
            /\ at[r] = "use" => s.result = IF status[t] = "SUCCESS" THEN result[t] ELSE "none"

\* What get has answered is what the function did.
Answer(r) ==
    LET o == outcome[about[r]] IN
    reply[r].kind \in {"return", "raise"} =>
        /\ about[r] \in Tasks
        /\ status[about[r]] \in Terminal
        /\ reply[r].kind = "return" => o \in Returns /\ reply[r].result = o
        /\ reply[r].kind = "raise" =>
            o \in Raises /\ reply[r].error = (IF o = "text" THEN "text" ELSE "none")

\* What the endpoint has reported is no later than the record, nor than what the
\* endpoint is reading of the same task now.
Report ==
    LET t == reply[Main].task
        k == Rank(reply[Main].status)
    IN  t \in Tasks =>
            /\ k <= Rank(status[t])
            /\ reply[Main].status \in Terminal => reply[Main].status = status[t]
            /\ about[Main] = t /\ at[Main] \in AfterStatus =>
                /\ k <= Rank(snap[Main].status)
                /\ reply[Main].status \in Terminal => reply[Main].status = snap[Main].status

ReaderInv ==
    /\ \A r \in Readers : ReadSoFar(r) /\ ReadAgain(r)
    /\ \A r \in Waiters : Answer(r)
    /\ Report

-----------------------------------------------------------------------------
\* The steps that change the status of task t.
LEMMA StatusMoves ==
    ASSUME TypeInv, CarrierInv, RecordInv, [Next]_vars, NEW t \in Tasks, status'[t] # status[t]
    PROVE  /\ status[t] \notin Terminal
           /\ \/ /\ worker[t] = "waiting"
                 /\ UNCHANGED <<worker, result, error, outcome, completedAt>>
                 /\ \/ status[t] = "ABSENT" /\ status'[t] = "PENDING"
                    \/ status[t] # "ABSENT" /\ status'[t] = "STARTED"
              \/ SetStatus(t)
  <1>0. DOMAIN status = Tasks
    BY DEF TypeInv, TypeOK
  <1>1. worker[t] \in {"waiting", "set_status"} => status[t] \notin Terminal
    BY DEF RecordInv, RecordOf
  <1>2. ASSUME NEW c \in Callers, NEW u \in Tasks, Create(c, u)
        PROVE  /\ u = t /\ worker[t] = "waiting" /\ status[t] = "ABSENT"
               /\ status'[t] = "PENDING"
               /\ UNCHANGED <<worker, result, error, outcome, completedAt>>
    <2>1. u = t /\ status[t] = "ABSENT" /\ status'[t] = "PENDING"
      BY <1>0, <1>2 DEF Create, Created
    <2>2. worker[t] = "waiting"
      BY <2>1 DEF CarrierInv, FreshInv, Created
    <2> QED
      BY <1>2, <2>1, <2>2 DEF Create
  <1>3. ASSUME NEW c \in Callers, MarkStarted(c)
        PROVE  /\ worker[t] = "waiting" /\ status[t] # "ABSENT" /\ status'[t] = "STARTED"
               /\ UNCHANGED <<worker, result, error, outcome, completedAt>>
    <2>1. held[c] = t /\ status'[t] = "STARTED" /\ pc[c] = "mark_started"
      BY <1>0, <1>3 DEF MarkStarted
    <2>2. worker[t] = "waiting" /\ Created(t)
      BY <2>1 DEF CarrierInv, HandInv
    <2> QED
      BY <1>3, <2>1, <2>2 DEF MarkStarted, Created
  <1>4. ASSUME NEW u \in Tasks, SetStatus(u)
        PROVE  u = t /\ worker[t] = "set_status"
    BY <1>0, <1>4 DEF SetStatus
  <1>5. (\E u \in Tasks : SetStatus(u)) => SetStatus(t) /\ worker[t] = "set_status"
    BY <1>4
  <1> QED
    BY <1>1, <1>2, <1>3, <1>5, StatusSteps

\* Every step keeps what a worker has settled in step with the lock.
LEMMA SettleStep ==
    ASSUME TypeInv, CarrierInv, RecordInv, SettleInv, [Next]_vars
    PROVE  SettleInv'
  <1> DEFINE Part(t) ==
        /\ worker[t] \in {"set_completed", "set_payload"} => lock = t
        /\ completedAt[t] => worker[t] \in {"set_payload", "over"}
        /\ worker[t] = "over" /\ outcome[t] = "escape" =>
            /\ status[t] \notin Terminal
            /\ ~completedAt[t]
            /\ result[t] = "none"
            /\ error[t] = "none"
        /\ worker[t] = "over" => outcome[t] # "unknown"
        /\ status[t] # "RETRY"
  <1> SUFFICES ASSUME NEW t \in Tasks
               PROVE  Part(t)'
    BY DEF SettleInv
  <1>0. /\ worker \in [Tasks -> WorkerPC] /\ DOMAIN status = Tasks /\ DOMAIN result = Tasks
        /\ DOMAIN error = Tasks /\ DOMAIN outcome = Tasks /\ DOMAIN completedAt = Tasks
    BY DEF TypeInv, TypeOK
  <1>1. Part(t)
    BY DEF SettleInv
  <1>2. RecordOf(t) /\ status'[t] # "RETRY"
    <2>1. SetStatus(t) => status'[t] # "RETRY"
      BY <1>0 DEF SetStatus, VerdictOf
    <2> QED
      BY <1>1, <2>1, StatusMoves DEF RecordInv
  <1>3. CASE UNCHANGED <<worker, result, error, outcome, completedAt, lock>>
    <2>1. worker[t] = "over" => UNCHANGED status[t]
      BY <1>3, StatusMoves DEF SetStatus
    <2> QED
      BY <1>1, <1>2, <1>3, <2>1
  <1>4. ASSUME NEW p \in Pools, NEW u \in Tasks, StartRun(p, u)
        PROVE  Part(t)'
    <2>1. InQueue(u, p)
      BY <1>4, StartRunInQueue DEF CarrierInv, TypeInv
    <2>2. worker[u] = "waiting"
      BY <2>1 DEF CarrierInv, OneCarrier
    <2>3. worker' = [worker EXCEPT ![u] = "running"]
          /\ UNCHANGED <<status, result, error, outcome, completedAt, lock>>
      BY <1>4 DEF StartRun, infoVars
    <2> QED
      BY <1>0, <1>1, <1>2, <2>2, <2>3
  <1>5. ASSUME NEW p \in Pools, NEW u \in Tasks, NEW o \in Outcomes, FinishRun(p, u, o)
        PROVE  Part(t)'
    <2>1. /\ worker[u] = "running" /\ outcome' = [outcome EXCEPT ![u] = o]
          /\ \/ worker' = [worker EXCEPT ![u] = "over"]
             \/ worker' = [worker EXCEPT ![u] = "set_status"]
          /\ UNCHANGED <<status, result, error, completedAt, lock>>
      BY <1>5 DEF FinishRun, infoVars
    <2>2. o # "unknown"
      BY DEF Outcomes
    <2> QED
      BY <1>0, <1>1, <1>2, <2>1, <2>2 DEF RecordOf
  <1>6. ASSUME NEW u \in Tasks, SetStatus(u)
        PROVE  Part(t)'
    <2>1. /\ worker[u] = "set_status" /\ worker' = [worker EXCEPT ![u] = "set_completed"]
          /\ status' = [status EXCEPT ![u] = VerdictOf(outcome[u])]
          /\ lock = Free /\ lock' = u
          /\ UNCHANGED <<result, error, outcome, completedAt>>
      BY <1>6 DEF SetStatus
    <2> QED
      BY <1>0, <1>1, <1>2, <2>1
  <1>7. ASSUME NEW u \in Tasks, SetCompleted(u)
        PROVE  Part(t)'
    <2>1. /\ worker[u] = "set_completed" /\ worker' = [worker EXCEPT ![u] = "set_payload"]
          /\ completedAt' = [completedAt EXCEPT ![u] = TRUE]
          /\ UNCHANGED <<status, result, error, outcome, lock>>
      BY <1>7 DEF SetCompleted
    <2> QED
      BY <1>0, <1>1, <1>2, <2>1
  <1>8. ASSUME NEW p \in Pools, NEW u \in Tasks, SetPayload(p, u)
        PROVE  Part(t)'
    <2>1. /\ worker[u] = "set_payload" /\ worker' = [worker EXCEPT ![u] = "over"]
          /\ result' = [result EXCEPT ![u] = IF outcome[u] = "value" THEN "value" ELSE @]
          /\ error' = [error EXCEPT ![u] = IF outcome[u] \in Raises THEN outcome[u] ELSE @]
          /\ UNCHANGED <<status, outcome, completedAt>>
      BY <1>8 DEF SetPayload
    <2>2. lock = u /\ outcome[u] \in Outcomes \ {"escape"}
      BY <2>1 DEF SettleInv, RecordInv, RecordOf, Settling
    <2>3. outcome[u] # "unknown" /\ outcome[u] # "escape"
      BY <2>2 DEF Outcomes
    <2>4. CASE u = t
      BY <1>0, <1>2, <2>1, <2>3, <2>4
    <2>5. CASE u # t
      <3>1. worker[t] \notin {"set_completed", "set_payload"}
        BY <1>1, <2>2, <2>5
      <3> QED
        BY <1>0, <1>1, <1>2, <2>1, <2>5, <3>1
    <2> QED
      BY <2>4, <2>5
  <1> HIDE DEF Part
  <1> QED
    BY <1>3, <1>4, <1>5, <1>6, <1>7, <1>8, RunSteps

\* What the record of a task says of its function.
LEMMA RecordFacts ==
    ASSUME QueueInv, NEW t \in Tasks
    PROVE  /\ status[t] \in Terminal => status[t] = VerdictOf(outcome[t])
           /\ status[t] \in Terminal /\ lock = Free => Settled(t)
           /\ Settled(t) => outcome[t] \in Returns \cup Raises /\ status[t] \in Terminal
           /\ completedAt[t] => status[t] \in Terminal
           /\ error[t] # "none" => outcome[t] = error[t] /\ error[t] \in Raises
           /\ result[t] # "none" => outcome[t] = "value" /\ result[t] = "value"
           /\ Settled(t) /\ outcome[t] \in Returns => result[t] = outcome[t] /\ error[t] = "none"
           /\ Settled(t) /\ outcome[t] \in Raises => error[t] = outcome[t]
  <1>0. /\ worker[t] \in WorkerPC
        /\ outcome[t] \in Outcomes \cup {"unknown"}
        /\ lock = Free => lock # t
    BY TaskQueueAssumption DEF QueueInv, TypeInv, TypeOK
  <1>1. \A o : VerdictOf(o) \in Terminal
    BY DEF VerdictOf, Terminal
  <1>2. CASE worker[t] \in {"waiting", "running", "set_status"}
    BY <1>2 DEF QueueInv, RecordInv, RecordOf, SettleInv, Settled
  <1>3. CASE worker[t] \in {"set_completed", "set_payload"}
    <2>1. /\ status[t] = VerdictOf(outcome[t]) /\ lock = t
          /\ error[t] = "none" /\ result[t] = "none"
      BY <1>3 DEF QueueInv, RecordInv, RecordOf, SettleInv
    <2> QED
      BY <1>0, <1>1, <1>3, <2>1 DEF Settled
  <1>4. CASE worker[t] = "over" /\ outcome[t] = "escape"
    BY <1>4 DEF QueueInv, SettleInv, Settled
  <1>5. CASE Settled(t)
    <2>1. /\ status[t] = VerdictOf(outcome[t])
          /\ result[t] = IF outcome[t] = "value" THEN "value" ELSE "none"
          /\ error[t] = IF outcome[t] \in Raises THEN outcome[t] ELSE "none"
          /\ outcome[t] # "unknown"
      BY <1>5 DEF QueueInv, RecordInv, OutcomeRecorded, SettleInv, Settled
    <2>2. outcome[t] \in Returns \cup Raises
      BY <1>0, <1>5, <2>1 DEF Outcomes, Returns, Raises, Settled
    <2> QED
      BY <1>1, <1>5, <2>1, <2>2 DEF Returns, Raises
  <1> QED
    BY <1>0, <1>2, <1>3, <1>4, <1>5 DEF WorkerPC, Holding, Settled

\* The order of the statuses of a task.
LEMMA RankFacts ==
    /\ \A s \in Statuses : Rank(s) \in 0..3 /\ (s \in Terminal \cup {"RETRY"} <=> Rank(s) = 3)
    /\ Rank("ABSENT") = 0 /\ Rank("PENDING") = 1 /\ Rank("STARTED") = 2
    /\ \A o : Rank(VerdictOf(o)) = 3 /\ VerdictOf(o) \in Terminal
  BY DEF Rank, Statuses, TaskStatus, Terminal, VerdictOf

\* A task's record only moves on: no step takes back a verdict, a completion time
\* or a payload, and what is settled stays as it is.
LEMMA TaskMovesOn ==
    ASSUME QueueInv, [Next]_vars, NEW t \in Tasks
    PROVE  /\ Rank(status[t]) <= Rank(status'[t])
           /\ status[t] \in Terminal => status'[t] = status[t] /\ outcome'[t] = outcome[t]
           /\ completedAt[t] => completedAt'[t]
           /\ error[t] # "none" => error'[t] = error[t]
           /\ result[t] # "none" => result'[t] = result[t]
           /\ Settled(t) => Settled(t)' /\ error'[t] = error[t] /\ result'[t] = result[t]
  <1>0. /\ worker \in [Tasks -> WorkerPC] /\ status \in [Tasks -> Statuses]
        /\ DOMAIN result = Tasks /\ DOMAIN error = Tasks /\ DOMAIN outcome = Tasks
        /\ DOMAIN completedAt = Tasks
    BY DEF QueueInv, TypeInv, TypeOK, Statuses
  <1>1. RecordOf(t)
    BY DEF QueueInv, RecordInv
  <1>2. /\ Rank(status[t]) \in 0..3
        /\ status[t] \in Terminal => Rank(status[t]) = 3
    BY <1>0, RankFacts
  <1>3. /\ Rank(status[t]) <= Rank(status'[t])
        /\ status[t] \in Terminal => status'[t] = status[t]
    <2>1. CASE status'[t] = status[t]
      BY <1>2, <2>1
    <2>2. CASE status'[t] # status[t]
      <3>1. /\ status[t] \notin Terminal
            /\ \/ status[t] = "ABSENT" /\ status'[t] = "PENDING"
               \/ worker[t] = "waiting" /\ status'[t] = "STARTED"
               \/ SetStatus(t)
        BY <2>2, StatusMoves DEF QueueInv
      <3>2. SetStatus(t) => status'[t] = VerdictOf(outcome[t])
        BY <1>0 DEF SetStatus
      <3>3. SetStatus(t) => Rank(status'[t]) = 3
        BY <3>2, RankFacts
      <3>4. status'[t] = "STARTED" => Rank(status[t]) <= 2
        <4>1. status[t] # "RETRY"
          BY DEF QueueInv, SettleInv
        <4> QED
          BY <1>0, <1>2, <3>1, <4>1, RankFacts
      <3> QED
        BY <1>2, <3>1, <3>3, <3>4, RankFacts
    <2> QED
      BY <2>1, <2>2
  <1>4. CASE UNCHANGED <<worker, result, error, outcome, completedAt>>
    BY <1>3, <1>4 DEF Settled
  <1>5. ASSUME NEW p \in Pools, NEW u \in Tasks, StartRun(p, u)
        PROVE  /\ UNCHANGED <<result, error, outcome, completedAt>>
               /\ worker'[t] = worker[t] \/ worker[t] = "waiting"
    <2>1. InQueue(u, p)
      BY <1>5, StartRunInQueue DEF QueueInv, CarrierInv, TypeInv
    <2>2. worker[u] = "waiting"
      BY <2>1 DEF QueueInv, CarrierInv, OneCarrier
    <2> QED
      BY <1>0, <1>5, <2>2 DEF StartRun, infoVars
  <1>6. ASSUME NEW p \in Pools, NEW u \in Tasks, NEW o \in Outcomes, FinishRun(p, u, o)
        PROVE  /\ UNCHANGED <<result, error, completedAt>>
               /\ \/ worker'[t] = worker[t] /\ outcome'[t] = outcome[t]
                  \/ worker[t] = "running"
    BY <1>0, <1>6 DEF FinishRun, infoVars
  <1>7. ASSUME NEW u \in Tasks, SetStatus(u) \/ SetCompleted(u)
        PROVE  /\ UNCHANGED <<result, error, outcome>>
               /\ worker'[t] = worker[t] \/ worker[t] # "over"
               /\ completedAt[t] => completedAt'[t]
    BY <1>0, <1>7 DEF SetStatus, SetCompleted
  <1>8. ASSUME NEW p \in Pools, NEW u \in Tasks, SetPayload(p, u)
        PROVE  /\ UNCHANGED <<outcome, completedAt>>
               /\ \/ UNCHANGED <<worker[t], result[t], error[t]>>
                  \/ worker[t] = "set_payload" /\ result[t] = "none" /\ error[t] = "none"
    BY <1>0, <1>1, <1>8 DEF SetPayload, RecordOf
  <1>9. worker[t] = "running" => status[t] \notin Terminal
    BY <1>1 DEF RecordOf
  <1> QED
    BY <1>3, <1>4, <1>5, <1>6, <1>7, <1>8, <1>9, RunSteps DEF Settled

\* A step of the queue leaves the readers' knowledge true.
LEMMA ReaderQueueStep ==
    ASSUME QueueInv, ReaderType, ReaderInv, [Next]_vars, UNCHANGED clientVars
    PROVE  ReaderType' /\ ReaderInv'
  <1>0. /\ UNCHANGED <<at, goal, about, snap, reply>>
        /\ \A t \in Tasks : status[t] \in Statuses /\ Rank(status[t]) \in 0..3
        /\ \A r \in Readers : Rank(snap[r].status) \in 0..3 /\ Rank(reply[r].status) \in 0..3
    BY RankFacts DEF clientVars, QueueInv, TypeInv, TypeOK, ReaderType, Statuses
  <1>1. ReaderType'
    BY <1>0 DEF ReaderType
  <1>2. \A t \in Tasks : Rank(status'[t]) \in 0..3
    <2>1. TypeOK'
      BY TypeOKStep DEF QueueInv, TypeInv
    <2> QED
      BY <2>1, RankFacts DEF TypeOK, Statuses
  <1>3. ASSUME NEW r \in Readers
        PROVE  ReadSoFar(r)'
    <2>1. CASE at[r] = "idle"
      BY <1>0, <2>1 DEF ReadSoFar, AfterStatus, AfterCompleted, AfterError
    <2>2. CASE at[r] # "idle"
      <3>1. about[r] \in Tasks /\ ReadSoFar(r)
        BY <2>2 DEF ReaderType, ReaderInv
      <3> QED
        BY <1>0, <1>2, <3>1, TaskMovesOn DEF ReadSoFar, Terminated
    <2> QED
      BY <2>1, <2>2
  <1>4. ASSUME NEW r \in Readers
        PROVE  ReadAgain(r)'
    <2>1. goal[r] \in LateGoals => about[r] \in Tasks /\ ReadAgain(r)
      BY DEF ReaderType, ReaderInv
    <2>2. ASSUME goal[r] \in LateGoals, at[r] \notin {"idle", "lookup"}
          PROVE  /\ Settled(about[r]) /\ Settled(about[r])'
                 /\ Known(about[r])' = Known(about[r])
                 /\ result'[about[r]] = result[about[r]]
      BY <1>0, <2>1, <2>2, TaskMovesOn DEF ReadAgain, Known
    <2> QED
      BY <1>0, <2>1, <2>2, TaskMovesOn DEF ReadAgain, AfterStatus, AfterError
  <1>5. ASSUME NEW r \in Waiters
        PROVE  Answer(r)'
    <2>1. Answer(r)
      BY <1>0 DEF ReaderInv
    <2> QED
      BY <1>0, <2>1, TaskMovesOn DEF Answer
  <1>6. Report'
    <2>1. Report /\ Main \in Readers
      BY DEF ReaderInv, Readers
    <2> QED
      BY <1>0, <1>2, <2>1, TaskMovesOn DEF Report
  <1> QED
    BY <1>1, <1>3, <1>4, <1>5, <1>6 DEF ReaderInv

\* A step of a reader keeps the types of its variables.
LEMMA ReaderTypeStep ==
    ASSUME QueueInv, ReaderType, UNCHANGED vars, NEW r \in Readers,
           (\E t \in Tasks : Ask(r, t)) \/ Reading(r) \/ TimeOut(r)
    PROVE  ReaderType'
  <1> USE DEF ReaderType
  <1>0. /\ \A t \in Tasks : /\ status[t] \in Statuses /\ completedAt[t] \in BOOLEAN
                            /\ error[t] \in Errors /\ result[t] \in Results
        /\ {"none", "text"} \subseteq Errors /\ "none" \in Results /\ "ABSENT" \in Statuses
    BY DEF QueueInv, TypeInv, TypeOK, Statuses, Errors, Results
  <1>1. /\ NoSnap \in [status : Statuses, completed : BOOLEAN, error : Errors, result : Results]
        /\ \A k \in Kinds, t \in Tasks,
              s \in [status : Statuses, completed : BOOLEAN, error : Errors, result : Results] :
            Reply(k, t, s) \in [kind : Kinds, task : Tasks \cup {NoTask}, status : Statuses,
                                error : Errors, result : Results]
    BY <1>0 DEF NoSnap, Reply
  <1>2. ASSUME NEW t \in Tasks, Ask(r, t)
        PROVE  ReaderType'
    BY <1>2 DEF Ask, ReaderAt, Goals, LateGoals
  <1>3. ASSUME Lookup(r)
        PROVE  ReaderType'
    <2>1. about[r] \in Tasks
      BY <1>3 DEF Lookup
    <2>2. reply' \in [Readers -> [kind : Kinds, task : Tasks \cup {NoTask}, status : Statuses,
                                 error : Errors, result : Results]]
      <3>1. Reply("report", about[r], NoSnap) \in
                [kind : Kinds, task : Tasks \cup {NoTask}, status : Statuses,
                 error : Errors, result : Results]
        BY <1>1, <2>1 DEF Kinds
      <3>2. \/ UNCHANGED reply
            \/ reply' = [reply EXCEPT ![r] = Reply("report", about[r], NoSnap)]
        BY <1>3 DEF Lookup
      <3> QED
        BY <3>1, <3>2
    <2>3. at' \in [Readers -> ReaderAt] /\ UNCHANGED <<goal, about, snap>>
      BY <1>3 DEF Lookup, ReaderAt, AfterStatus
    <2>4. \A q \in Readers : at'[q] # "idle" => at[q] # "idle"
      BY <1>3 DEF Lookup
    <2> QED
      BY <2>2, <2>3, <2>4
  <1>4. ASSUME ReadStatus(r) \/ ReadCompleted(r) \/ ReadError(r) \/ ReadResult(r)
        PROVE  ReaderType'
    <2>1. about[r] \in Tasks /\ UNCHANGED <<goal, about, reply>>
      BY <1>4 DEF ReadStatus, ReadCompleted, ReadError, ReadResult
    <2>2. snap' \in [Readers -> [status : Statuses, completed : BOOLEAN,
                                error : Errors, result : Results]]
      BY <1>0, <1>4, <2>1 DEF ReadStatus, ReadCompleted, ReadError, ReadResult
    <2>3. at' \in [Readers -> ReaderAt]
      BY <1>4 DEF ReadStatus, ReadCompleted, ReadError, ReadResult, ReaderAt, AfterStatus
    <2>4. \A q \in Readers : at'[q] # "idle" => at[q] # "idle"
      BY <1>4 DEF ReadStatus, ReadCompleted, ReadError, ReadResult
    <2> QED
      BY <2>1, <2>2, <2>3, <2>4
  <1>5. ASSUME NEW k \in Kinds, Finish(r, k), about[r] \in Tasks, UNCHANGED about
        PROVE  ReaderType'
    <2>1. reply' \in [Readers -> [kind : Kinds, task : Tasks \cup {NoTask}, status : Statuses,
                                 error : Errors, result : Results]]
      BY <1>1, <1>5 DEF Finish
    <2>2. snap' \in [Readers -> [status : Statuses, completed : BOOLEAN,
                                error : Errors, result : Results]]
      BY <1>1, <1>5 DEF Finish
    <2> QED
      BY <1>5, <2>1, <2>2 DEF Finish, ReaderAt
  <1>6. ASSUME NEW g \in Goals, Again(r, g), goal[r] # "poll", about[r] \in Tasks, UNCHANGED about
        PROVE  ReaderType'
    <2>1. snap' \in [Readers -> [status : Statuses, completed : BOOLEAN,
                                error : Errors, result : Results]]
      BY <1>1, <1>6 DEF Again
    <2> QED
      BY <1>6, <2>1 DEF Again, ReaderAt
  <1>7. ASSUME Use(r)
        PROVE  ReaderType'
    <2>1. about[r] \in Tasks /\ UNCHANGED about
      BY <1>7 DEF Use
    <2>2. \/ \E k \in Kinds : Finish(r, k)
          \/ goal[r] # "poll" /\ \E g \in Goals : Again(r, g)
      BY <1>7 DEF Use, Kinds, Goals
    <2> QED
      BY <1>5, <1>6, <2>1, <2>2
  <1>8. ASSUME TimeOut(r)
        PROVE  ReaderType'
    <2>1. about[r] \in Tasks /\ UNCHANGED about /\ Finish(r, "timeout")
      BY <1>8 DEF TimeOut
    <2> QED
      BY <1>5, <2>1 DEF Kinds
  <1> QED
    BY <1>2, <1>3, <1>4, <1>7, <1>8 DEF Reading

\* A step of a reader touches no other reader.
LEMMA OtherReaders ==
    ASSUME ReaderType, NEW r \in Readers,
           (\E t \in Tasks : Ask(r, t)) \/ Reading(r) \/ TimeOut(r),
           NEW q \in Readers, q # r
    PROVE  UNCHANGED <<at[q], goal[q], about[q], snap[q], reply[q]>>
  BY DEF ReaderType, Ask, Reading, Lookup, ReadStatus, ReadCompleted, ReadError, ReadResult,
         Use, TimeOut, Finish, Again

\* What reader r knows after a step that reads one more field, or none.
LEMMA OwnReading ==
    ASSUME QueueInv, ReaderType, ReaderInv, UNCHANGED vars, NEW r \in Readers,
           \/ \E t \in Tasks : Ask(r, t)
           \/ Lookup(r) \/ ReadStatus(r) \/ ReadCompleted(r) \/ ReadError(r) \/ ReadResult(r)
    PROVE  ReadSoFar(r)' /\ ReadAgain(r)'
  <1>0. /\ UNCHANGED <<status, completedAt, error, result, outcome, worker>>
        /\ \A t \in Tasks : status[t] \in Statuses /\ Rank(status[t]) \in 0..3
        /\ \A t \in Tasks : error[t] = "text" => error[t] # "none"
        /\ DOMAIN at = Readers /\ DOMAIN goal = Readers /\ DOMAIN about = Readers
        /\ snap \in [Readers -> [status : Statuses, completed : BOOLEAN,
                                 error : Errors, result : Results]]
        /\ Rank(snap[r].status) \in 0..3
    BY RankFacts DEF vars, QueueInv, TypeInv, TypeOK, ReaderType, Statuses
  <1>1. ReadSoFar(r) /\ ReadAgain(r)
    BY DEF ReaderInv
  <1> USE DEF ReadSoFar, ReadAgain, AfterStatus, AfterCompleted, AfterError
  <1>2. ASSUME NEW t \in Tasks, Ask(r, t)
        PROVE  ReadSoFar(r)' /\ ReadAgain(r)'
    <2>1. at'[r] = "lookup" /\ goal'[r] \in {"poll", "ready"}
      BY <1>0, <1>2 DEF Ask
    <2> QED
      BY <2>1 DEF LateGoals
  <1>3. ASSUME Lookup(r)
        PROVE  ReadSoFar(r)' /\ ReadAgain(r)'
    <2>1. /\ at'[r] \in {"status", "idle"} /\ lock = Free /\ about[r] \in Tasks
          /\ UNCHANGED <<goal, about, snap>>
          /\ at'[r] = "idle" => goal[r] = "poll"
      BY <1>0, <1>3 DEF Lookup, ReaderType
    <2>2. goal[r] \in LateGoals => Settled(about[r])
      BY <1>1, <2>1, RecordFacts
    <2> QED
      BY <1>0, <1>1, <2>1, <2>2 DEF Settled
  <1>4. ASSUME ReadStatus(r)
        PROVE  ReadSoFar(r)' /\ ReadAgain(r)'
    <2>1. /\ at[r] = "status" /\ at'[r] = "completed" /\ about[r] \in Tasks
          /\ UNCHANGED <<goal, about>>
          /\ snap'[r].status = status[about[r]]
      BY <1>0, <1>4 DEF ReadStatus, ReaderType
    <2> QED
      BY <1>0, <1>1, <2>1 DEF Settled
  <1>5. ASSUME ReadCompleted(r)
        PROVE  ReadSoFar(r)' /\ ReadAgain(r)'
    <2>1. /\ at[r] = "completed" /\ at'[r] = "error" /\ about[r] \in Tasks
          /\ UNCHANGED <<goal, about>>
          /\ snap'[r].status = snap[r].status
          /\ snap'[r].completed = completedAt[about[r]]
      BY <1>0, <1>5 DEF ReadCompleted, ReaderType
    <2> QED
      BY <1>0, <1>1, <2>1 DEF Settled, Terminated
  <1>6. ASSUME ReadError(r)
        PROVE  ReadSoFar(r)' /\ ReadAgain(r)'
    <2>1. /\ at[r] = "error" /\ at'[r] = "result" /\ about[r] \in Tasks
          /\ UNCHANGED <<goal, about>>
          /\ snap'[r].status = snap[r].status /\ snap'[r].completed = snap[r].completed
          /\ snap'[r].error = Known(about[r])
      BY <1>0, <1>6 DEF ReadError, ReaderType, Known
    <2> QED
      BY <1>0, <1>1, <2>1 DEF Settled, Terminated, Known
  <1>7. ASSUME ReadResult(r)
        PROVE  ReadSoFar(r)' /\ ReadAgain(r)'
    <2>1. /\ at[r] = "result" /\ at'[r] = "use" /\ about[r] \in Tasks
          /\ UNCHANGED <<goal, about>>
          /\ snap'[r].status = snap[r].status /\ snap'[r].completed = snap[r].completed
          /\ snap'[r].error = snap[r].error
          /\ snap'[r].result = IF status[about[r]] = "SUCCESS" THEN result[about[r]] ELSE "none"
      BY <1>0, <1>7 DEF ReadResult, ReaderType
    <2> QED
      BY <1>0, <1>1, <2>1 DEF Settled, Terminated, Known
  <1> QED
    BY <1>2, <1>3, <1>4, <1>5, <1>6, <1>7

\* What reader r knows after it has used, or given up, what it read.
LEMMA OwnUse ==
    ASSUME QueueInv, ReaderType, ReaderInv, UNCHANGED vars, NEW r \in Readers,
           Use(r) \/ TimeOut(r)
    PROVE  ReadSoFar(r)' /\ ReadAgain(r)'
  <1>0. /\ UNCHANGED <<status, completedAt, error, result, outcome, worker>>
        /\ DOMAIN at = Readers /\ DOMAIN goal = Readers
        /\ about[r] \in Tasks /\ UNCHANGED about
    BY DEF vars, ReaderType, Use, TimeOut
  <1>1. ReadSoFar(r) /\ ReadAgain(r)
    BY DEF ReaderInv
  <1>2. at'[r] \in {"idle", "lookup"}
    BY <1>0 DEF Use, TimeOut, Finish, Again
  <1>3. \/ goal'[r] = goal[r]
        \/ goal'[r] \notin LateGoals
        \/ goal[r] = "ready" /\ goal'[r] = "failed" /\ Terminated(snap[r]) /\ at[r] = "use"
        \/ /\ goal[r] = "failed" /\ at[r] = "use"
           /\ goal'[r] = IF snap[r].status = "FAILURE" THEN "error" ELSE "result"
    BY <1>0 DEF Use, TimeOut, Finish, Again, LateGoals
  <1>4. goal'[r] \in LateGoals =>
            /\ status[about[r]] \in Terminal
            /\ goal'[r] = "error" => status[about[r]] = "FAILURE"
            /\ goal'[r] = "result" => status[about[r]] = "SUCCESS"
    <2>1. CASE goal'[r] = goal[r]
      BY <1>1, <2>1 DEF ReadAgain
    <2>2. CASE goal[r] = "ready" /\ goal'[r] = "failed" /\ Terminated(snap[r]) /\ at[r] = "use"
      BY <1>1, <2>2 DEF ReadSoFar, Terminated, AfterStatus
    <2>3. CASE goal[r] = "failed" /\ at[r] = "use"
               /\ goal'[r] = IF snap[r].status = "FAILURE" THEN "error" ELSE "result"
      <3>1. status[about[r]] \in Terminal /\ snap[r].status = status[about[r]]
        BY <1>1, <2>3 DEF ReadAgain, LateGoals, AfterStatus
      <3> QED
        BY <2>3, <3>1 DEF Terminal
    <2> QED
      BY <1>3, <2>1, <2>2, <2>3
  <1> QED
    BY <1>0, <1>2, <1>4 DEF ReadSoFar, ReadAgain, AfterStatus, AfterCompleted, AfterError

\* What get answers in its last step is what the function did.
LEMMA OwnAnswer ==
    ASSUME QueueInv, ReaderType, ReaderInv, UNCHANGED vars, NEW r \in Waiters,
           (\E t \in Tasks : Ask(r, t)) \/ Reading(r) \/ TimeOut(r)
    PROVE  Answer(r)'
  <1>0. /\ UNCHANGED <<status, outcome>> /\ r \in Readers /\ r # Main
        /\ DOMAIN reply = Readers /\ DOMAIN about = Readers
        /\ Answer(r) /\ ReadAgain(r)
    BY TaskQueueAssumption, TaskClientAssumption DEF vars, ReaderType, ReaderInv, Readers
  <1>1. CASE reply'[r].kind \notin {"return", "raise"}
    BY <1>1 DEF Answer
  <1>2. CASE UNCHANGED <<reply[r], about[r]>>
    BY <1>0, <1>2 DEF Answer
  <1>3. ASSUME NEW t \in Tasks, Ask(r, t)
        PROVE  reply'[r].kind \notin {"return", "raise"}
    BY <1>0, <1>3 DEF Ask
  <1>4. ASSUME Lookup(r)
        PROVE  UNCHANGED <<reply[r], about[r]>> \/ reply'[r].kind = "report"
    BY <1>0, <1>4 DEF Lookup, Reply
  <1>5. ASSUME ReadStatus(r) \/ ReadCompleted(r) \/ ReadError(r) \/ ReadResult(r)
        PROVE  UNCHANGED <<reply[r], about[r]>>
    BY <1>5 DEF ReadStatus, ReadCompleted, ReadError, ReadResult
  <1>6. ASSUME Use(r), reply'[r].kind \in {"return", "raise"}, ~UNCHANGED reply[r]
        PROVE  Answer(r)'
    <2>1. /\ at[r] = "use" /\ UNCHANGED about /\ about[r] \in Tasks
          /\ \/ goal[r] = "error" /\ Finish(r, "raise")
             \/ goal[r] = "result" /\ Finish(r, "return")
      <3>1. UNCHANGED about /\ at[r] = "use" /\ about[r] \in Tasks
        BY <1>0, <1>6 DEF Use, ReaderType
      <3>2. Finish(r, "report") => reply'[r].kind = "report"
        BY <1>0 DEF Finish, Reply
      <3>3. \A g \in Goals : Again(r, g) => UNCHANGED reply[r]
        BY DEF Again
      <3> QED
        BY <1>6, <3>1, <3>2, <3>3 DEF Use, Goals
    <2>2. /\ reply'[r].error = snap[r].error
          /\ reply'[r].result = IF snap[r].error # "none" THEN "none" ELSE snap[r].result
          /\ goal[r] = "error" => reply'[r].kind = "raise"
          /\ goal[r] = "result" => reply'[r].kind = "return"
      BY <1>0, <2>1 DEF Finish, Reply
    <2>3. /\ Settled(about[r]) /\ status[about[r]] \in Terminal
          /\ snap[r].error = Known(about[r])
          /\ snap[r].result = IF status[about[r]] = "SUCCESS" THEN result[about[r]] ELSE "none"
          /\ goal[r] = "error" => status[about[r]] = "FAILURE"
          /\ goal[r] = "result" => status[about[r]] = "SUCCESS"
      BY <1>0, <2>1 DEF ReadAgain, LateGoals, AfterStatus, AfterError
    <2>4. /\ outcome[about[r]] \in Returns \cup Raises
          /\ status[about[r]] = VerdictOf(outcome[about[r]])
          /\ outcome[about[r]] \in Returns =>
                result[about[r]] = outcome[about[r]] /\ error[about[r]] = "none"
          /\ outcome[about[r]] \in Raises => error[about[r]] = outcome[about[r]]
      BY <2>1, <2>3, RecordFacts
    <2>5. CASE goal[r] = "error"
      <3>1. outcome[about[r]] \in Raises
        BY <2>3, <2>4, <2>5 DEF VerdictOf
      <3> QED
        BY <1>0, <2>1, <2>2, <2>3, <2>4, <2>5, <3>1 DEF Answer, Known
    <2>6. CASE goal[r] = "result"
      <3>1. outcome[about[r]] \in Returns
        BY <2>3, <2>4, <2>6 DEF VerdictOf
      <3> QED
        BY <1>0, <2>1, <2>2, <2>3, <2>4, <2>6, <3>1 DEF Answer, Known
    <2> QED
      BY <2>1, <2>5, <2>6
  <1>7. Use(r) => UNCHANGED about
    BY DEF Use
  <1>8. TimeOut(r) => reply'[r].kind = "timeout"
    BY <1>0 DEF TimeOut, Finish, Reply
  <1> QED
    BY <1>1, <1>2, <1>3, <1>4, <1>5, <1>6, <1>7, <1>8 DEF Reading

\* The steps of the endpoint that answer: nothing was found, or a dict was read.
LEMMA ReportSteps ==
    ASSUME ReaderType, Reading(Main) \/ TimeOut(Main)
    PROVE  \/ UNCHANGED reply[Main]
           \/ /\ Lookup(Main) /\ status[about[Main]] = "ABSENT"
              /\ reply'[Main].status = "ABSENT" /\ reply'[Main].task = about[Main]
              /\ at'[Main] = "idle"
           \/ /\ Use(Main) /\ at[Main] = "use"
              /\ reply'[Main].status = snap[Main].status /\ reply'[Main].task = about[Main]
              /\ at'[Main] = "idle"
  <1>0. /\ Main \in Readers /\ Main \notin Waiters /\ goal[Main] = "poll"
        /\ DOMAIN reply = Readers /\ DOMAIN at = Readers
    BY TaskQueueAssumption, TaskClientAssumption DEF ReaderType, Readers
  <1>1. CASE Lookup(Main)
    BY <1>0, <1>1 DEF Lookup, Created, Reply, NoSnap
  <1>2. CASE ReadStatus(Main) \/ ReadCompleted(Main) \/ ReadError(Main) \/ ReadResult(Main)
    BY <1>2 DEF ReadStatus, ReadCompleted, ReadError, ReadResult
  <1>3. CASE Use(Main)
    <2>1. Finish(Main, "report") /\ at[Main] = "use"
      BY <1>0, <1>3 DEF Use
    <2> QED
      BY <1>0, <1>3, <2>1 DEF Finish, Reply
  <1>4. ~TimeOut(Main)
    BY <1>0 DEF TimeOut
  <1> QED
    BY <1>1, <1>2, <1>3, <1>4 DEF Reading

\* What the endpoint has reported stays behind the record it reads again.
LEMMA OwnReport ==
    ASSUME QueueInv, ReaderType, ReaderInv, UNCHANGED vars,
           (\E t \in Tasks : Ask(Main, t)) \/ Reading(Main) \/ TimeOut(Main)
    PROVE  Report'
  <1>0. /\ UNCHANGED <<status, outcome>> /\ Main \in Readers
        /\ DOMAIN reply = Readers /\ DOMAIN about = Readers /\ DOMAIN at = Readers
        /\ snap \in [Readers -> [status : Statuses, completed : BOOLEAN,
                                 error : Errors, result : Results]]
        /\ Report /\ ReadSoFar(Main) /\ Main \notin Waiters
        /\ at[Main] # "idle" => about[Main] \in Tasks
        /\ \A t \in Tasks : status[t] \in Statuses /\ Rank(status[t]) \in 0..3
    BY TaskQueueAssumption, TaskClientAssumption, RankFacts
    DEF vars, ReaderType, ReaderInv, Readers, QueueInv, TypeInv, TypeOK, Statuses
  <1>1. ASSUME NEW t \in Tasks, Ask(Main, t)
        PROVE  Report'
    <2>1. at'[Main] = "lookup" /\ UNCHANGED reply
      BY <1>0, <1>1 DEF Ask
    <2> QED
      BY <1>0, <2>1 DEF Report, AfterStatus
  <1>2. CASE UNCHANGED reply[Main] /\ (Reading(Main) \/ TimeOut(Main))
    <2>1. /\ UNCHANGED about[Main]
          /\ \/ at'[Main] \notin AfterStatus
             \/ at[Main] \in AfterStatus /\ snap'[Main].status = snap[Main].status
             \/ about[Main] \in Tasks /\ snap'[Main].status = status[about[Main]]
      <3>1. CASE Lookup(Main) \/ Use(Main)
        BY <1>0, <3>1 DEF Lookup, Use, Finish, Again, AfterStatus
      <3>2. CASE ReadStatus(Main)
        BY <1>0, <3>2 DEF ReadStatus
      <3>3. CASE ReadCompleted(Main) \/ ReadError(Main) \/ ReadResult(Main)
        BY <1>0, <3>3 DEF ReadCompleted, ReadError, ReadResult, AfterStatus
      <3> QED
        BY <1>0, <1>2, <3>1, <3>2, <3>3 DEF Reading, TimeOut
    <2> QED
      BY <1>0, <1>2, <2>1 DEF Report
  <1>3. CASE /\ status[about[Main]] = "ABSENT" /\ at[Main] = "lookup"
             /\ reply'[Main].status = "ABSENT" /\ reply'[Main].task = about[Main]
             /\ at'[Main] = "idle"
    BY <1>0, <1>3, RankFacts DEF Report, AfterStatus, Terminal
  <1>4. CASE /\ at[Main] = "use"
             /\ reply'[Main].status = snap[Main].status /\ reply'[Main].task = about[Main]
             /\ at'[Main] = "idle"
    BY <1>0, <1>4 DEF Report, ReadSoFar, Terminated, AfterStatus
  <1> QED
    BY <1>1, <1>2, <1>3, <1>4, ReportSteps DEF Lookup

\* A step of a reader keeps what all readers know true.
LEMMA ReaderOwnStep ==
    ASSUME QueueInv, ReaderType, ReaderInv, UNCHANGED vars, NEW r \in Readers,
           (\E t \in Tasks : Ask(r, t)) \/ Reading(r) \/ TimeOut(r)
    PROVE  ReaderInv'
  <1>0. UNCHANGED <<status, completedAt, error, result, outcome, worker>>
    BY DEF vars
  <1>1. ASSUME NEW q \in Readers
        PROVE  ReadSoFar(q)' /\ ReadAgain(q)'
    <2>1. CASE q = r
      BY <2>1, OwnReading, OwnUse DEF Reading
    <2>2. CASE q # r
      <3>1. UNCHANGED <<at[q], goal[q], about[q], snap[q], reply[q]>>
        BY <2>2, OtherReaders
      <3>2. ReadSoFar(q) /\ ReadAgain(q)
        BY DEF ReaderInv
      <3> QED
        BY <1>0, <3>1, <3>2 DEF ReadSoFar, ReadAgain, Settled, Known, Terminated
    <2> QED
      BY <2>1, <2>2
  <1>2. ASSUME NEW q \in Waiters
        PROVE  Answer(q)'
    <2>1. CASE q = r
      BY <2>1, OwnAnswer
    <2>2. CASE q # r
      <3>1. UNCHANGED <<about[q], reply[q]>>
        BY <2>2, OtherReaders DEF Readers
      <3> QED
        BY <1>0, <3>1 DEF Answer, ReaderInv
    <2> QED
      BY <2>1, <2>2
  <1>3. Report'
    <2>1. CASE r = Main
      BY <2>1, OwnReport
    <2>2. CASE r # Main
      <3>1. UNCHANGED <<at[Main], about[Main], snap[Main], reply[Main]>>
        BY <2>2, OtherReaders DEF Readers
      <3> QED
        BY <1>0, <3>1 DEF Report, ReaderInv
    <2> QED
      BY <2>1, <2>2
  <1> QED
    BY <1>1, <1>2, <1>3 DEF ReaderInv

\* The invariant of the queue and its readers, at the start and at every step.
ClientInv == QueueInv /\ ReaderType /\ ReaderInv

\* It holds at the start ...
LEMMA InitClientInv ==
    ASSUME ClientInit
    PROVE  ClientInv
  <1>0. Init
    BY DEF ClientInit
  <1>1. QueueInv
    <2>1. CarrierInv
      BY <1>0, InitCarrierInv
    <2>2. RecordInv
      BY <1>0 DEF Init, RecordInv, RecordOf, OutcomeRecorded, Settling, Terminal
    <2>3. SettleInv
      BY <1>0 DEF Init, SettleInv
    <2> QED
      BY <1>0, <2>1, <2>2, <2>3, InitTypeInv DEF QueueInv
  <1>2. ReaderType
    <2>1. NoSnap \in [status : Statuses, completed : BOOLEAN, error : Errors, result : Results]
      BY DEF NoSnap, Statuses, Errors, Results
    <2>2. NoReply \in [kind : Kinds, task : Tasks \cup {NoTask}, status : Statuses,
                       error : Errors, result : Results]
      BY DEF NoReply, Reply, NoSnap, Kinds, Statuses, Errors, Results
    <2> QED
      BY <2>1, <2>2 DEF ClientInit, ReaderType, ReaderAt, Goals, LateGoals, Readers
  <1>3. /\ \A r \in Readers : at[r] = "idle" /\ goal[r] = "poll" /\ reply[r].kind = "none"
        /\ reply[Main].task = NoTask
    BY DEF ClientInit, NoReply, Reply, Readers
  <1>4. ReaderInv
    BY <1>3, TaskQueueAssumption
    DEF ReaderInv, ReadSoFar, ReadAgain, Answer, Report, AfterStatus, AfterCompleted,
        AfterError, LateGoals, Readers
  <1> QED
    BY <1>1, <1>2, <1>4 DEF ClientInv

\* ... is kept by every step of the queue and of a reader ...
LEMMA ClientStep ==
    ASSUME ClientInv, [ClientNext]_<<vars, clientVars>>
    PROVE  ClientInv'
  <1>1. CASE [Next]_vars /\ UNCHANGED clientVars
    <2>1. ReaderType' /\ ReaderInv'
      BY <1>1, ReaderQueueStep DEF ClientInv
    <2>2. TypeInv' /\ CarrierInv' /\ RecordInv' /\ SettleInv'
      BY <1>1, CarrierStep, RecordInvStep, SettleStep
      DEF ClientInv, QueueInv
    <2> QED
      BY <2>1, <2>2 DEF ClientInv, QueueInv
  <1>2. ASSUME NEW r \in Readers, (\E t \in Tasks : Ask(r, t)) \/ Reading(r) \/ TimeOut(r),
               UNCHANGED vars
        PROVE  ClientInv'
    <2>1. ReaderType' /\ ReaderInv'
      BY <1>2, ReaderTypeStep, ReaderOwnStep DEF ClientInv
    <2>2. TypeInv' /\ CarrierInv' /\ RecordInv' /\ SettleInv'
      BY <1>2, CarrierStep, RecordInvStep, SettleStep
      DEF ClientInv, QueueInv
    <2> QED
      BY <2>1, <2>2 DEF ClientInv, QueueInv
  <1> QED
    BY <1>1, <1>2 DEF ClientNext, QueueStep

\* What a finished reading shows belongs to what the function did, and is final.
LEMMA ReadingTrue ==
    ASSUME ClientInv
    PROVE  ReportTrue
  <1> SUFFICES ASSUME NEW r \in Readers, at[r] = "use"
               PROVE  LET s == snap[r]
                          o == outcome[about[r]]
                      IN  /\ Terminated(s) => s.status = VerdictOf(o)
                          /\ s.result # "none" => o = "value" /\ s.error = "none"
                          /\ s.error # "none" => o = "text"
                          /\ s.completed => status[about[r]] \in Terminal
    BY DEF ReportTrue
  <1>1. about[r] \in Tasks /\ QueueInv /\ ReadSoFar(r)
    BY DEF ClientInv, ReaderType, ReaderInv
  <1>2. /\ Terminated(snap[r]) => snap[r].status = status[about[r]]
        /\ snap[r].completed => completedAt[about[r]]
        /\ snap[r].error = "none" \/ (snap[r].error = "text" /\ error[about[r]] = "text")
        /\ snap[r].result = "none" \/ snap[r].result = result[about[r]]
    BY <1>1 DEF ReadSoFar, AfterStatus, AfterCompleted, AfterError
  <1>3. /\ status[about[r]] \in Terminal => status[about[r]] = VerdictOf(outcome[about[r]])
        /\ completedAt[about[r]] => status[about[r]] \in Terminal
        /\ error[about[r]] # "none" => outcome[about[r]] = error[about[r]]
        /\ result[about[r]] # "none" => outcome[about[r]] = "value"
    BY <1>1, RecordFacts
  <1> QED
    BY <1>2, <1>3 DEF Terminated

\* ... and so holds throughout.
LEMMA ClientAlways == ClientSpec => []ClientInv
  BY InitClientInv, ClientStep, PTL DEF ClientSpec

\* get, which reads the fields one by one without the lock, returns what the function
\* returned and raises what it raised: for any number of tasks, callers and waiting
\* threads.
THEOREM GetIsFaithful == ClientSpec => []GetFaithful
  <1>1. ClientInv => GetFaithful
    BY DEF ClientInv, ReaderInv, Answer, GetFaithful
  <1> QED
    BY <1>1, ClientAlways, PTL

\* No report shows a payload, a verdict or a completion time that is not final, or that
\* belongs to another outcome.
THEOREM ReportIsTrue == ClientSpec => []ReportTrue
  BY ReadingTrue, ClientAlways, PTL

\* The endpoint takes nothing back that it has reported of a task.
THEOREM ReportsAdvance == ClientSpec => ReportsNeverGoBack
  <1> DEFINE Advance ==
        reply'[Main].task = reply[Main].task =>
            /\ Rank(reply[Main].status) <= Rank(reply'[Main].status)
            /\ reply[Main].status \in Terminal => reply'[Main].status = reply[Main].status
  <1>1. ASSUME ClientInv, [ClientNext]_<<vars, clientVars>>
        PROVE  [Advance]_reply
    <2>0. /\ Main \in Readers /\ Report /\ ReaderType
          /\ Rank(reply[Main].status) \in 0..3
          /\ at[Main] # "idle" => about[Main] \in Tasks
      BY <1>1, RankFacts DEF ClientInv, ReaderInv, ReaderType, Readers
    <2>1. CASE reply'[Main] = reply[Main]
      BY <2>0, <2>1
    <2>2. CASE reply'[Main] # reply[Main]
      <3>1. PICK r \in Readers : (\E t \in Tasks : Ask(r, t)) \/ Reading(r) \/ TimeOut(r)
        BY <1>1, <2>2 DEF ClientNext, clientVars
      <3>2. r = Main
        BY <2>0, <2>2, <3>1, OtherReaders
      <3>3. Reading(Main) \/ TimeOut(Main)
        BY <2>2, <3>1, <3>2 DEF Ask
      <3>4. CASE /\ Lookup(Main) /\ status[about[Main]] = "ABSENT"
                 /\ reply'[Main].status = "ABSENT" /\ reply'[Main].task = about[Main]
        BY <2>0, <3>4, RankFacts DEF Report, Lookup, Terminal
      <3>5. CASE /\ at[Main] = "use"
                 /\ reply'[Main].status = snap[Main].status /\ reply'[Main].task = about[Main]
        BY <2>0, <3>5 DEF Report, AfterStatus
      <3> QED
        BY <2>0, <2>2, <3>3, <3>4, <3>5, ReportSteps
    <2> QED
      BY <2>1, <2>2
  <1> QED
    BY <1>1, ClientAlways, PTL DEF ClientSpec, ReportsNeverGoBack
=============================================================================
