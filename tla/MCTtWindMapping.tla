-------------------------- MODULE MCTtWindMapping --------------------------
(* TtWindMapping for TLC: two handles, one or two user windows and the      *)
(* kernel's, two addresses.                                                 *)
EXTENDS TtWindMapping, TLC

FileSymmetry == Permutations(Files)
VaSymmetry == Permutations(Vas)
Symmetry == FileSymmetry \cup VaSymmetry

=============================================================================
