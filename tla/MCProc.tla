------------------------------- MODULE MCProc -------------------------------
(* Instances of Proc for TLC. *)
EXTENDS Proc, TLC

\* Addresses are interchangeable.
Symmetry == Permutations(Slots)
=============================================================================
