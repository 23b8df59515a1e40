---------------------------- MODULE MCTaskContext ----------------------------
(* TLC instance of TaskContext. *)
EXTENDS TaskContext

CONSTANTS c1, c2
=============================================================================
