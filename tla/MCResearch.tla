---------------------------- MODULE MCResearch ----------------------------
(***************************************************************************)
(* A research request, streamed or not, and a chat that may begin anew or  *)
(* go on from it.  A client changes or deletes one thing at any time.      *)
(***************************************************************************)
EXTENDS Research, TLC

Symmetry == Permutations(Plugins)
=============================================================================
