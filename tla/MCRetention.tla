---------------------------- MODULE MCRetention ----------------------------
(***************************************************************************)
(* Instances of Retention for TLC.  The runs check liveness, so they use   *)
(* no symmetry.                                                            *)
(***************************************************************************)
EXTENDS RetentionRefinement, TLC

=============================================================================
