-------------------------- MODULE MCCoroutineLocks --------------------------
(* An instance of CoroutineLocks for TLC. *)
EXTENDS CoroutineLocks
=============================================================================
