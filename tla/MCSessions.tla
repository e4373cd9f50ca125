---------------------------- MODULE MCSessions ----------------------------
(* Instances of Sessions for TLC. *)
EXTENDS SessionsRefinement, TLC

(* Requests differ only in name, and so do users: sound for invariants and *)
(* action properties, left out of the liveness run.                        *)
Symmetry == Permutations(Request) \cup Permutations(User)
=============================================================================
