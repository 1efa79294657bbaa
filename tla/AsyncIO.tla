------------------------------ MODULE AsyncIO ------------------------------
(***************************************************************************)
(* What asynchronous file I/O promises the block layer: every request that *)
(* is submitted either has its completion callback called, once, or is     *)
(* cancelled, and after that nothing more happens to it.                   *)
(***************************************************************************)
CONSTANT Submissions        \* names for successive requests

VARIABLE fate               \* "new", "pending", "called" or "cancelled"

Init == fate = [s \in Submissions |-> "new"]

Submit(s) == fate[s] = "new" /\ fate' = [fate EXCEPT ![s] = "pending"]
Call(s) == fate[s] = "pending" /\ fate' = [fate EXCEPT ![s] = "called"]
Cancel(s) == fate[s] = "pending" /\ fate' = [fate EXCEPT ![s] = "cancelled"]

Next == \E s \in Submissions : Submit(s) \/ Call(s) \/ Cancel(s)

Safety == Init /\ [][Next]_fate
Spec == Safety /\ \A s \in Submissions : WF_fate(Call(s) \/ Cancel(s))
=============================================================================
