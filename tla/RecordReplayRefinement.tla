------------------------ MODULE RecordReplayRefinement ------------------------
(***************************************************************************)
(* RecordReplay implements DeterministicReplay.                            *)
(***************************************************************************)
EXTENDS RecordReplay

Phase == IF replayed THEN "REPLAYED"
         ELSE IF rr_mode = "OFF" THEN "RECORDED" ELSE rr_mode

Promise == INSTANCE DeterministicReplay WITH phase <- Phase, seen <- trace

\* Every step of the two threads and the devices is a step of the promise or
\* invisible to it: the replay adds the recorded events one at a time and
\* main_loop ends it only when none is left.
ReplayIsDeterministic == Promise!Spec

\* Moreover the replay gets on, event by event, until it has ended: no entry of
\* the log keeps cpu_exec waiting for ever, neither in a halted guest nor
\* between two kicks of the I/O thread.
ReplayProceeds == Promise!FairSpec
=============================================================================
