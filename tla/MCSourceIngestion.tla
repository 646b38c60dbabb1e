--------------------------- MODULE MCSourceIngestion ---------------------------
(* A small instance of SourceIngestion for TLC. *)
EXTENDS SourceIngestion

CONSTANTS first, second, third, good, other, poor
=============================================================================
