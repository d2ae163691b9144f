------------------------------ MODULE MCAccount ------------------------------
(* Account for TLC: users are interchangeable, the servers are not, since   *)
(* one of them is the default.                                              *)
EXTENDS Account, TLC

Symmetry == Permutations(Users)
=============================================================================
