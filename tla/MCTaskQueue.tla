---------------------------- MODULE MCTaskQueue ----------------------------
(***************************************************************************)
(* A small instance of the task queue for TLC: two tasks, one of them      *)
(* entering through schedule_task, the event loop's thread and a second    *)
(* one (the consumer's, for which handlers.py dispatches tasks), and one   *)
(* worker per pool so that tasks have to queue.                            *)
(***************************************************************************)
EXTENDS TaskQueue

\* Two threads never construct more than three executors in one life of the
\* process: two by the race of the lazy initialisation and one after shutdown.
MCPools == 1..4
=============================================================================
