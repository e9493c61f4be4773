----------------------------- MODULE MCTaskRunner -----------------------------
(* A small instance of TaskRunner for TLC. *)
EXTENDS TaskRunner
=============================================================================
