---------------------------- MODULE MCScissors ----------------------------
(* An instance of Scissors for TLC. *)
EXTENDS Scissors

EntryShapes == {
  [kind |-> "INPUT", site |-> "IO_READ", val |-> "input"],
  [kind |-> "INTERRUPT_REQUEST", site |-> "CPU_EXEC_1", val |-> "input"],
  [kind |-> "SKIPPED_CALL", site |-> "IO_WRITE", val |-> "CPU_MEM_RW"]}
=============================================================================
