------------------------------ MODULE MCQcow2 ------------------------------
(* Instances of Qcow2 for TLC: the requests are interchangeable. *)
EXTENDS Qcow2, TLC

RequestSymmetry == Permutations(Requests)
=============================================================================
