------------------------ MODULE MCStrategyLifecycle ------------------------
(***************************************************************************)
(* A small instance of the strategy's life for TLC: three requests, each of*)
(* any kind, so that validations, promotions, demotions and clients meet   *)
(* with views of any age; two backtests of which one is better.            *)
(***************************************************************************)
EXTENDS StrategyLifecycle

CONSTANTS good, bad

MCSharpe == [b \in Backtests |-> IF b = good THEN 2 ELSE 1]
MCPatchStatuses == {"archived", "validated", "promoted"}
=============================================================================
