---------------------------- MODULE MCIngestion ----------------------------
(***************************************************************************)
(* A small instance of the data layer for TLC: three requests for one      *)
(* dataset, one revision of it upstream, one crash.  Requests for different*)
(* datasets meet only at the write lock, where a request does not care what*)
(* the other one is for.                                                   *)
(***************************************************************************)
EXTENDS Ingestion

MCWant == [r \in Requests |-> CHOOSE d \in Datasets : TRUE]
MCMicros == 1..3
=============================================================================
