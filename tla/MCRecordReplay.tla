---------------------------- MODULE MCRecordReplay ----------------------------
(***************************************************************************)
(* Small guests for RecordReplay.                                          *)
(***************************************************************************)
EXTENDS RecordReplayRefinement

Always(k) == [a \in Data |-> k]

\* Reads a device, branches on what it got, writes a device, reads memory and
\* halts or goes on.
Branching == << Always("in"),
                [a \in Data |-> IF a = 0 THEN "ld" ELSE "out"],
                Always("out"),
                [a \in Data |-> IF a = 0 THEN "hlt" ELSE "nop"] >>
=============================================================================
