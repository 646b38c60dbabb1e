-------------------------- MODULE MCIngestionWorkflow --------------------------
(* A small instance of IngestionWorkflow for TLC. *)
EXTENDS IngestionWorkflow

CONSTANTS first, second
=============================================================================
