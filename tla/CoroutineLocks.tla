--------------------------- MODULE CoroutineLocks ---------------------------
(***************************************************************************)
(* Coroutines (qemu-coroutine.c) and their locks (qemu-coroutine-lock.c):  *)
(* one CoMutex and one CoRwlock, which share the list of woken coroutines  *)
(* and the bottom half that enters them.                                   *)
(*                                                                         *)
(* Only one coroutine runs at a time, the last of stack; it was entered by *)
(* the one below it, or by the main loop.  It runs until it yields, ends   *)
(* or enters another.  Waking is deferred: an unlock moves the waiter to   *)
(* unlock_bh_queue, and until the bottom half enters it any coroutine that *)
(* asks may take the lock first.                                           *)
(*                                                                         *)
(* A coroutine holds at most one lock here.  What it does with it is left  *)
(* out, save that it may yield for I/O and enter others meanwhile.         *)
(***************************************************************************)
EXTENDS Integers, Sequences, FiniteSets, Functions

CONSTANTS
  Coroutines,
  MaxRounds       \* bound: locks a coroutine takes

ASSUME CoroutinesAssumption == IsFiniteSet(Coroutines) /\ MaxRounds \in Nat

VARIABLES
  stack,          \* the coroutines that have been entered and have not yielded
  io,             \* coroutines that have yielded until their I/O is done
  at,             \* "idle" (not started, or ended), "run", "lock" (asking), "held"
  want,           \* the lock a coroutine asks for or holds
  locked, mutex_queue,             \* CoMutex
  writer, reader, rwlock_queue,    \* CoRwlock
  unlock_bh_queue,
  scheduled,      \* unlock_bh is scheduled
  in_bh,          \* qemu_co_queue_next_bh runs
  rounds          \* locks each coroutine may still take

locks == <<locked, mutex_queue, writer, reader, rwlock_queue>>
wake == <<unlock_bh_queue, scheduled, in_bh>>
vars == <<stack, io, at, want, locks, wake, rounds>>

Init ==
  /\ stack = <<>> /\ io = {}
  /\ at = [c \in Coroutines |-> "idle"] /\ want = [c \in Coroutines |-> "mutex"]
  /\ locked = FALSE /\ mutex_queue = <<>>
  /\ writer = FALSE /\ reader = 0 /\ rwlock_queue = <<>>
  /\ unlock_bh_queue = <<>> /\ scheduled = FALSE /\ in_bh = FALSE
  /\ rounds = [c \in Coroutines |-> MaxRounds]

Running(c) == stack # <<>> /\ stack[Len(stack)] = c
InMain == stack = <<>>
Enter(c) == stack' = Append(stack, c)
Yield == stack' = SubSeq(stack, 1, Len(stack) - 1)

----------------------------------------------------------------------------
(* Entering and leaving coroutines.                                        *)

\* qemu_coroutine_create and qemu_coroutine_enter, by the main loop or a coroutine.
Start(c) ==
  /\ at[c] = "idle" /\ ~(InMain /\ in_bh)
  /\ Enter(c)
  /\ at' = [at EXCEPT ![c] = "run"]
  /\ UNCHANGED <<io, want, locks, wake, rounds>>

\* The I/O a coroutine waits for completes and its callback enters it.
IODone(c) ==
  /\ InMain /\ ~in_bh /\ c \in io
  /\ Enter(c) /\ io' = io \ {c}
  /\ UNCHANGED <<at, want, locks, wake, rounds>>

YieldsForIO(c) ==
  /\ Running(c) /\ at[c] \in {"run", "held"}
  /\ Yield /\ io' = io \cup {c}
  /\ UNCHANGED <<at, want, locks, wake, rounds>>

Terminates(c) ==
  /\ Running(c) /\ at[c] = "run"
  /\ Yield /\ at' = [at EXCEPT ![c] = "idle"]
  /\ UNCHANGED <<io, want, locks, wake, rounds>>

RunsBH_idle ==
  /\ InMain /\ ~in_bh /\ scheduled /\ io = {}
  /\ scheduled' = FALSE /\ in_bh' = TRUE
  /\ UNCHANGED <<stack, io, at, want, locks, unlock_bh_queue, rounds>>

\* qemu_bh_poll calls qemu_co_queue_next_bh ...
RunsBH ==
  /\ InMain /\ ~in_bh /\ scheduled
  /\ scheduled' = FALSE /\ in_bh' = TRUE
  /\ UNCHANGED <<stack, io, at, want, locks, unlock_bh_queue, rounds>>

BHEnters_one ==
  /\ InMain /\ in_bh /\ unlock_bh_queue # <<>>
  /\ Enter(Head(unlock_bh_queue)) /\ unlock_bh_queue' = Tail(unlock_bh_queue)
  /\ in_bh' = FALSE
  /\ UNCHANGED <<io, at, want, locks, scheduled, rounds>>

BHEnters_kept ==
  /\ InMain /\ in_bh /\ unlock_bh_queue # <<>>
  /\ Enter(Head(unlock_bh_queue))
  /\ UNCHANGED <<io, at, want, locks, wake, rounds>>

\* ... which enters the woken coroutines, each until it yields,
BHEnters ==
  /\ InMain /\ in_bh /\ unlock_bh_queue # <<>>
  /\ Enter(Head(unlock_bh_queue)) /\ unlock_bh_queue' = Tail(unlock_bh_queue)
  /\ UNCHANGED <<io, at, want, locks, scheduled, in_bh, rounds>>

\* ... until there are none.
BHEnds ==
  /\ InMain /\ in_bh /\ unlock_bh_queue = <<>>
  /\ in_bh' = FALSE
  /\ UNCHANGED <<stack, io, at, want, locks, unlock_bh_queue, scheduled, rounds>>

----------------------------------------------------------------------------
(* Locks.                                                                  *)

\* A coroutine calls qemu_co_mutex_lock, qemu_co_rwlock_rdlock or _wrlock.
Asks(c, l) ==
  /\ Running(c) /\ at[c] = "run" /\ rounds[c] > 0
  /\ at' = [at EXCEPT ![c] = "lock"] /\ want' = [want EXCEPT ![c] = l]
  /\ rounds' = [rounds EXCEPT ![c] = @ - 1]
  /\ UNCHANGED <<stack, io, locks, wake>>

\* The condition of the while loop, on entry and after every wake-up.
MustWait_writer(l) ==
  CASE l = "mutex" -> locked
    [] l = "read" -> writer
    [] l = "write" -> writer

MustWait(l) ==
  CASE l = "mutex" -> locked
    [] l = "read" -> writer
    [] l = "write" -> writer \/ reader > 0

\* qemu_co_queue_wait.
Waits(c) ==
  /\ Running(c) /\ at[c] = "lock" /\ MustWait(want[c])
  /\ IF want[c] = "mutex"
       THEN mutex_queue' = Append(mutex_queue, c) /\ UNCHANGED rwlock_queue
       ELSE rwlock_queue' = Append(rwlock_queue, c) /\ UNCHANGED mutex_queue
  /\ Yield
  /\ UNCHANGED <<io, at, want, locked, writer, reader, wake, rounds>>

Takes(c) ==
  /\ Running(c) /\ at[c] = "lock" /\ ~MustWait(want[c])
  /\ at' = [at EXCEPT ![c] = "held"]
  /\ locked' = (locked \/ want[c] = "mutex")
  /\ writer' = (writer \/ want[c] = "write")
  /\ reader' = IF want[c] = "read" THEN reader + 1 ELSE reader
  /\ UNCHANGED <<stack, io, want, mutex_queue, rwlock_queue, wake, rounds>>

\* qemu_co_queue_next, n times.
qemu_co_queue_next(queue, n) ==
  /\ unlock_bh_queue' = unlock_bh_queue \o SubSeq(queue, 1, n)
  /\ scheduled' = (scheduled \/ n > 0)

First(queue) == IF queue = <<>> THEN 0 ELSE 1
Rest(queue, n) == SubSeq(queue, n + 1, Len(queue))

\* qemu_co_mutex_unlock.
MutexUnlock(c) ==
  /\ Running(c) /\ at[c] = "held" /\ want[c] = "mutex"
  /\ at' = [at EXCEPT ![c] = "run"]
  /\ locked' = FALSE
  /\ qemu_co_queue_next(mutex_queue, First(mutex_queue))
  /\ mutex_queue' = Rest(mutex_queue, First(mutex_queue))
  /\ UNCHANGED <<stack, io, want, writer, reader, rwlock_queue, in_bh, rounds>>

\* How many waiters qemu_co_rwlock_unlock wakes: all after a writer, the first
\* after the last reader.
Woken_one == IF writer \/ reader = 1 THEN First(rwlock_queue) ELSE 0

Woken == IF writer THEN Len(rwlock_queue) ELSE IF reader = 1 THEN First(rwlock_queue) ELSE 0

\* qemu_co_rwlock_unlock.
RwUnlock(c) ==
  /\ Running(c) /\ at[c] = "held" /\ want[c] # "mutex"
  /\ at' = [at EXCEPT ![c] = "run"]
  /\ writer' = FALSE
  /\ reader' = IF writer THEN reader ELSE reader - 1
  /\ qemu_co_queue_next(rwlock_queue, Woken)
  /\ rwlock_queue' = Rest(rwlock_queue, Woken)
  /\ UNCHANGED <<stack, io, want, locked, mutex_queue, in_bh, rounds>>

----------------------------------------------------------------------------
\* What a coroutine that runs does, and cannot put off for ever.
Steps(c) == Terminates(c) \/ Waits(c) \/ Takes(c) \/ MutexUnlock(c) \/ RwUnlock(c)

Next ==
  \/ RunsBH \/ BHEnters \/ BHEnds
  \/ \E c \in Coroutines :
       \/ Start(c) \/ IODone(c) \/ YieldsForIO(c) \/ Steps(c)
       \/ \E l \in {"mutex", "read", "write"} : Asks(c, l)

Spec == Init /\ [][Next]_vars

\* The main loop polls its bottom halves, I/O ends, and no coroutine keeps a lock, or
\* the processor, for ever.
Fairness ==
  /\ WF_vars(BHEnters) /\ WF_vars(BHEnds) /\ SF_vars(RunsBH)
  /\ \A c \in Coroutines : SF_vars(Steps(c)) /\ SF_vars(IODone(c))

FairSpec == Spec /\ Fairness

----------------------------------------------------------------------------
(* Properties.                                                             *)

Holders(l) == {c \in Coroutines : at[c] = "held" /\ want[c] = l}
Waking(l) == {c \in Coroutines : /\ at[c] = "lock" /\ want[c] \in l
                                 /\ c \in Range(stack \o unlock_bh_queue)}

\* Every variable has its type.
TypeOK ==
  /\ stack \in Seq(Coroutines) /\ io \subseteq Coroutines
  /\ at \in [Coroutines -> {"idle", "run", "lock", "held"}]
  /\ want \in [Coroutines -> {"mutex", "read", "write"}]
  /\ locked \in BOOLEAN /\ writer \in BOOLEAN /\ reader \in Nat
  /\ mutex_queue \in Seq(Coroutines) /\ rwlock_queue \in Seq(Coroutines)
  /\ unlock_bh_queue \in Seq(Coroutines)
  /\ scheduled \in BOOLEAN /\ in_bh \in BOOLEAN
  /\ rounds \in [Coroutines -> Nat]

\* The mutex has one holder at most, a writer excludes everyone else, and reader counts
\* the readers: although a lock is kept while its holder yields, and is free for
\* anyone between an unlock and the wake-up it causes.
Exclusion ==
  /\ \A c, d \in Holders("mutex") : c = d
  /\ locked = (Holders("mutex") # {})
  /\ \A c, d \in Holders("write") : c = d
  /\ writer = (Holders("write") # {})
  /\ reader = Cardinality(Holders("read"))
  /\ ~(writer /\ reader > 0)

\* A coroutine that does not run is in one place only: waiting for I/O, queued on one
\* lock, or woken.  The queues share the link co_queue_next, and entering a coroutine
\* that is already entered aborts (qemu_coroutine_enter).
OnePlace ==
  LET places == stack \o mutex_queue \o rwlock_queue \o unlock_bh_queue
  IN  /\ IsInjective(places)
      /\ Range(places) \cap io = {}
      /\ Range(places) \cup io = {c \in Coroutines : at[c] # "idle"}

\* No wake-up is lost: a lock that is free and waited for has somebody on the way who
\* will take it, and the woken are entered.
NoLostWakeup ==
  /\ unlock_bh_queue # <<>> => scheduled \/ in_bh
  /\ mutex_queue # <<>> => locked \/ Waking({"mutex"}) # {}
  /\ rwlock_queue # <<>> => writer \/ reader > 0 \/ Waking({"read", "write"}) # {}

\* While no writer holds the lock only writers wait for it: that is why the last reader
\* may wake one waiter only ("Wakeup only one waiting writer").
OnlyWritersWait ==
  ~writer => \A i \in 1 .. Len(rwlock_queue) : want[rwlock_queue[i]] = "write"

\* Every coroutine that asks for a lock gets it, as long as newcomers do not take it
\* first for ever (MaxRounds).
WaiterServed == \A c \in Coroutines : at[c] = "lock" ~> at[c] = "held"
=============================================================================
