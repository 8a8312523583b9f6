--------------------------- MODULE MCBacktestRun ---------------------------
(***************************************************************************)
(* Two executions of one backtest that overlap, a crash, and PATCH requests*)
(* of any columns: to a state that refuses executions, to one that promises*)
(* results, and to one that lets the backtest be executed again.           *)
(***************************************************************************)
EXTENDS BacktestRun

MCPatchStatuses == {"pending", "running", "completed"}
=============================================================================
