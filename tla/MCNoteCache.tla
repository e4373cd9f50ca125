---------------------------- MODULE MCNoteCache ----------------------------
(* Instances of NoteCache for TLC. *)
EXTENDS NoteCache, TLC

Symmetry == Permutations(Request) \cup Permutations(User \ {Owner})
=============================================================================
