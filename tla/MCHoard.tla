-------------------------------- MODULE MCHoard --------------------------------
(* Instances of Hoard for TLC: threads are interchangeable. *)
EXTENDS Hoard, TLC

Symmetry == Permutations(Threads)
=============================================================================
