---------------------------- MODULE MCJournalLog ----------------------------
(* Instances of JournalLog and JournalLogRef for TLC. *)
EXTENDS JournalLogRef, TLC

\* The blocks of the volume are interchangeable.
Symmetry == Permutations(Block)
=============================================================================
