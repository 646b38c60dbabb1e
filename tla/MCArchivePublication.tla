-------------------------- MODULE MCArchivePublication --------------------------
(* A small instance of ArchivePublication for TLC. *)
EXTENDS ArchivePublication

CONSTANTS first, second, third, one, other
=============================================================================
