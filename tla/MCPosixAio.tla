----------------------------- MODULE MCPosixAio -----------------------------
(* An instance of PosixAio for TLC. *)
EXTENDS PosixAio
=============================================================================
