----------------------- MODULE MCSchedulableSequence -----------------------
(***************************************************************************)
(* Instances of SchedulableSequence for TLC.                               *)
(***************************************************************************)
EXTENDS SchedulableSequence, TLC

Symmetry == Permutations(Seqs) \cup Permutations(Blocks)

=============================================================================
