----------------------------- MODULE MCTBCache -----------------------------
\* An instance of TBCache for TLC: two virtual pages of two words.
EXTENDS TBCache

\* Page 0 always is P1; the guest maps page 1 to P1, too, or to P2.
TwoPages == 0 :> {"P1"} @@ 1 :> {"P1", "P2"}

\* Both words of page 1 can be a jump to its first.
Loops == 2 :> 2 @@ 3 :> 2

\* The two words of page 0 jump to each other.
PingPong == 0 :> 1 @@ 1 :> 0

M(replay, chaining, invalidates, flushes) ==
    [replay |-> replay, chaining |-> chaining, invalidates |-> invalidates,
     flushes |-> flushes]

\* Running or recording; replaying, with a plugin that invalidates blocks; and
\* running with a plugin that flushes.
Recording == {M(FALSE, TRUE, FALSE, FALSE)}
Replaying == {M(TRUE, TRUE, TRUE, FALSE)}
Flushing == {M(FALSE, TRUE, FALSE, TRUE)}
=============================================================================
