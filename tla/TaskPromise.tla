---------------------------- MODULE TaskPromise ----------------------------
(***************************************************************************)
(* What the background task queue promises to the routers that dispatch    *)
(* work to it: a task is run at most once, a verdict on it is given at most*)
(* once, by the worker that has it, and never changes.  A task may be lost *)
(* (its submission was refused, or its function died with something that is*)
(* not an Exception): then it keeps the verdict "none" for ever.           *)
(***************************************************************************)
CONSTANTS Tasks     \* task ids

VARIABLES phase,    \* phase[t]: how far t has come
          verdict   \* verdict[t]: what the queue says about t's function

promiseVars == <<phase, verdict>>

PromiseTypeOK ==
    /\ phase \in [Tasks -> {"idle", "running", "over"}]
    /\ verdict \in [Tasks -> {"none", "SUCCESS", "FAILURE"}]

PromiseInit ==
    /\ phase = [t \in Tasks |-> "idle"]
    /\ verdict = [t \in Tasks |-> "none"]

\* A worker picks the task up: never a second time.
Run(t) ==
    /\ phase[t] = "idle"
    /\ phase' = [phase EXCEPT ![t] = "running"]
    /\ UNCHANGED verdict

\* The verdict is published once, while the worker still holds the task.
Judge(t, v) ==
    /\ phase[t] = "running"
    /\ verdict[t] = "none"
    /\ verdict' = [verdict EXCEPT ![t] = v]
    /\ UNCHANGED phase

\* The worker lets go of the task, with or without a verdict.
Leave(t) ==
    /\ phase[t] = "running"
    /\ phase' = [phase EXCEPT ![t] = "over"]
    /\ UNCHANGED verdict

PromiseNext ==
    \E t \in Tasks :
        \/ Run(t)
        \/ \E v \in {"SUCCESS", "FAILURE"} : Judge(t, v)
        \/ Leave(t)

PromiseSpec == PromiseInit /\ [][PromiseNext]_promiseVars
=============================================================================
