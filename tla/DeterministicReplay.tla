------------------------- MODULE DeterministicReplay --------------------------
(***************************************************************************)
(* What record/replay promises to its users, without logs, queues, threads *)
(* or devices: a guest runs and sees events of whatever kind; once the     *)
(* recording has stopped, a replay starts the guest afresh and lets it see *)
(* the same events, one by one and in the same order, and ends only when   *)
(* it has seen them all.                                                   *)
(***************************************************************************)
EXTENDS Naturals, Sequences

VARIABLES
    phase,       \* "RECORD", "RECORDED", "REPLAY", "REPLAYED"
    seen,        \* what the guest has seen since it was started
    recorded     \* what it had seen when the recording stopped

vars == <<phase, seen, recorded>>

Init == phase = "RECORD" /\ seen = <<>> /\ recorded = <<>>

\* The guest sees one more event, whatever it is.
Live ==
    /\ phase = "RECORD"
    /\ Len(seen') = Len(seen) + 1 /\ SubSeq(seen', 1, Len(seen)) = seen
    /\ UNCHANGED <<phase, recorded>>

Stop ==
    /\ phase = "RECORD" /\ phase' = "RECORDED"
    /\ recorded' = seen
    /\ UNCHANGED seen

Begin ==
    /\ phase = "RECORDED" /\ phase' = "REPLAY"
    /\ seen' = <<>>
    /\ UNCHANGED recorded

\* The guest sees the event that is next in the recording.
Replay ==
    /\ phase = "REPLAY" /\ Len(seen) < Len(recorded)
    /\ seen' = Append(seen, recorded[Len(seen) + 1])
    /\ UNCHANGED <<phase, recorded>>

End ==
    /\ phase = "REPLAY" /\ phase' = "REPLAYED"
    /\ seen = recorded
    /\ UNCHANGED <<seen, recorded>>

Next == Live \/ Stop \/ Begin \/ Replay \/ End

Spec == Init /\ [][Next]_vars

\* A replay that can go on does, up to its end.
FairSpec == Spec /\ WF_vars(Replay \/ End)
=============================================================================
