------------------------- MODULE MCResourceInstallation -------------------------
(* A small instance of ResourceInstallation for TLC. *)
EXTENDS ResourceInstallation, TLC

CONSTANTS install, repair, again

\* The two repairs are alike.
MCSymmetry == Permutations(Repairing)

\* What is in the two places, who has not begun, and what those at work know.  No
\* step and no property looks at how an installer ended, or what it knew then.
MCView ==
  LET working == {p \in Installers : Active(p)} IN
  <<target, backup, {p \in Installers : step[p] = "idle"}, beside \cap working,
    [p \in working |-> <<step[p], staged[p], raised[p], found[p]>>]>>
=============================================================================
