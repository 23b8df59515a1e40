---------------------------- MODULE MCTaskRunner ----------------------------
(* TLC instance of TaskRunner. *)
EXTENDS TaskRunner

=============================================================================
