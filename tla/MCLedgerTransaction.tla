-------------------------- MODULE MCLedgerTransaction --------------------------
(* A small instance of LedgerTransaction for TLC. *)
EXTENDS LedgerTransaction

CONSTANTS ingest, review, drain, c1, c2
=============================================================================
