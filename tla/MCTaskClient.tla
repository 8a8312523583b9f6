---------------------------- MODULE MCTaskClient ----------------------------
(***************************************************************************)
(* A small instance of the queue with its readers: one task submitted by   *)
(* the event loop, which also polls, and one thread that waits for it.     *)
(***************************************************************************)
EXTENDS TaskClient

\* One caller makes one executor, and none after shutdown.
MCPools == 1..2
=============================================================================
