--------------------------- MODULE MCLedgerMigration ---------------------------
(* A small instance of LedgerMigration for TLC. *)
EXTENDS LedgerMigration

CONSTANTS init, ingest, retry

\* 006, between two migrations whose statements are all IF NOT EXISTS.
MCSize == <<1, 2, 1>>
MCPlain == {2}
MCRequired == {<<1, 1>>, <<2, 1>>, <<3, 1>>}
=============================================================================
