--------------------------- MODULE MCJournalCache ---------------------------
(* Instances of JournalLog on devices with a write cache for TLC. *)
EXTENDS JournalLog, TLC

\* The blocks of the volume are interchangeable.
Symmetry == Permutations(Block)
=============================================================================
