-------------------------- MODULE MCCorrelatedWorker --------------------------
(* A small instance of CorrelatedWorker for TLC. *)
EXTENDS CorrelatedWorker

CONSTANTS first, second
=============================================================================
