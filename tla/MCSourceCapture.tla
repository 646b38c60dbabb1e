---------------------------- MODULE MCSourceCapture ----------------------------
(* Small instances of SourceCapture for TLC. *)
EXTENDS SourceCapture, TLC

CONSTANTS url, note, item, bytes1, bytes2, bytes3, k1, k2, k3, v1, v2, meta1, meta2

MCMediumOf == [s \in Sources |-> "text/plain"]

\* The item never has the third content.
MCPayloads == [s \in Sources |-> IF s \in Items THEN {bytes1, bytes2} ELSE Contents]

\* Contents and keys are compared for equality only.
MCSymmetry == Permutations({bytes1, bytes2}) \cup Permutations(Keys)
=============================================================================
