--------------------------- MODULE MCModelTraining ---------------------------
(***************************************************************************)
(* A tracked training and one of the API, on data of two versions, with a  *)
(* generation of signals and a PATCH at any time.                          *)
(***************************************************************************)
EXTENDS ModelTraining, TLC

Symmetry == Permutations(Params) \cup Permutations(Data)
=============================================================================
