---------------------------- MODULE MCNoteEdits ----------------------------
(* Instances of NoteEdits for TLC. *)
EXTENDS NoteEdits, TLC

Symmetry == Permutations(Request) \cup Permutations(Field) \cup Permutations(Value)
=============================================================================
