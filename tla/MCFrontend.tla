---------------------------- MODULE MCFrontend ----------------------------
(* Instances of Frontend for TLC. *)
EXTENDS Frontend, TLC

Symmetry == Permutations(Tab) \cup Permutations(User) \cup Permutations(Token)
=============================================================================
