------------------------ MODULE CoroutineLocksProofs ------------------------
(***************************************************************************)
(* For any number of coroutines: the locks exclude, a coroutine is never   *)
(* in two places at once, readers are never left waiting for readers, and  *)
(* no wake-up is lost.                                                     *)
(***************************************************************************)
EXTENDS CoroutineLocks, FiniteSetTheorems, TLAPS

(***************************************************************************)
(* What moving a coroutine does to the elements of a queue.                *)
(***************************************************************************)

\* Entering a coroutine (Enter), or queueing it (qemu_co_queue_wait).
LEMMA AppendElements ==
  ASSUME NEW S, NEW s \in Seq(S), NEW c \in S
  PROVE  /\ Append(s, c) \in Seq(S)
         /\ Range(Append(s, c)) = Range(s) \cup {c}
         /\ IsInjective(s) /\ c \notin Range(s) => IsInjective(Append(s, c))
<1>1. /\ Append(s, c) \in Seq(S) /\ Len(Append(s, c)) = Len(s) + 1
      /\ DOMAIN s = 1 .. Len(s) /\ DOMAIN Append(s, c) = 1 .. Len(s) + 1
      /\ Len(s) \in Nat
  OBVIOUS
<1>2. /\ \A i \in 1 .. Len(s) : Append(s, c)[i] = s[i]
      /\ Append(s, c)[Len(s) + 1] = c
  OBVIOUS
<1>3. Range(Append(s, c)) = Range(s) \cup {c}
  BY <1>1, <1>2 DEF Range
<1>4. ASSUME IsInjective(s), c \notin Range(s)
      PROVE  IsInjective(Append(s, c))
  BY <1>1, <1>2, <1>4 DEF IsInjective, Range
<1> QED
  BY <1>1, <1>3, <1>4

\* u is a followed by b.
Joins(u, a, b) ==
  /\ Len(a) \in Nat /\ Len(b) \in Nat
  /\ DOMAIN a = 1 .. Len(a) /\ DOMAIN b = 1 .. Len(b)
  /\ DOMAIN u = 1 .. Len(a) + Len(b)
  /\ \A i \in 1 .. Len(a) : u[i] = a[i]
  /\ \A i \in 1 .. Len(b) : u[Len(a) + i] = b[i]

\* The elements of a queue are those of its parts, each in one part only if no
\* coroutine is in the queue twice.
LEMMA JoinedElements ==
  ASSUME NEW u, NEW a, NEW b, Joins(u, a, b)
  PROVE  /\ Range(u) = Range(a) \cup Range(b)
         /\ IsInjective(u) <=> /\ IsInjective(a) /\ IsInjective(b)
                               /\ Range(a) \cap Range(b) = {}
<1> DEFINE n == Len(a)
           m == Len(b)
<1>1. /\ n \in Nat /\ m \in Nat
      /\ DOMAIN a = 1 .. n /\ DOMAIN b = 1 .. m /\ DOMAIN u = 1 .. n + m
      /\ \A i \in 1 .. n : u[i] = a[i]
      /\ \A i \in 1 .. m : u[n + i] = b[i]
  BY DEF Joins
<1> HIDE DEF n, m
<1>2. ASSUME NEW i \in 1 .. n + m, i \notin 1 .. n
      PROVE  i - n \in 1 .. m /\ u[i] = b[i - n]
  <2>1. i - n \in 1 .. m /\ n + (i - n) = i
    BY <1>1, <1>2
  <2> QED BY <2>1, <1>1
<1>3. Range(a) = {a[i] : i \in 1 .. n} /\ Range(b) = {b[i] : i \in 1 .. m}
      /\ Range(u) = {u[i] : i \in 1 .. n + m}
  BY <1>1 DEF Range
<1>4. Range(a) \subseteq Range(u)
  <2>1. ASSUME NEW i \in 1 .. n PROVE a[i] \in Range(u)
    <3>1. i \in 1 .. n + m /\ a[i] = u[i]
      BY <1>1
    <3> QED BY <3>1, <1>3
  <2> QED BY <2>1, <1>3
<1>5. Range(b) \subseteq Range(u)
  <2>1. ASSUME NEW i \in 1 .. m PROVE b[i] \in Range(u)
    <3>1. n + i \in 1 .. n + m /\ b[i] = u[n + i]
      BY <1>1
    <3> QED BY <3>1, <1>3
  <2> QED BY <2>1, <1>3
<1>6. Range(u) \subseteq Range(a) \cup Range(b)
  <2>1. ASSUME NEW i \in 1 .. n + m PROVE u[i] \in Range(a) \cup Range(b)
    <3>1. CASE i \in 1 .. n
      BY <3>1, <1>1, <1>3
    <3>2. CASE i \notin 1 .. n
      BY <3>2, <1>2, <1>3
    <3> QED BY <3>1, <3>2
  <2> QED BY <2>1, <1>3
<1>7. ASSUME IsInjective(u)
      PROVE  IsInjective(a) /\ IsInjective(b) /\ Range(a) \cap Range(b) = {}
  <2>0. \A i, j \in 1 .. n + m : u[i] = u[j] => i = j
    BY <1>7, <1>1 DEF IsInjective
  <2>1. ASSUME NEW i \in 1 .. n, NEW j \in 1 .. n, a[i] = a[j] PROVE i = j
    <3>1. i \in 1 .. n + m /\ j \in 1 .. n + m /\ u[i] = a[i] /\ u[j] = a[j]
      BY <1>1
    <3> QED BY <2>0, <2>1, <3>1
  <2>2. ASSUME NEW i \in 1 .. m, NEW j \in 1 .. m, b[i] = b[j] PROVE i = j
    <3>1. /\ n + i \in 1 .. n + m /\ n + j \in 1 .. n + m
          /\ u[n + i] = b[i] /\ u[n + j] = b[j]
      BY <1>1
    <3>2. n + i = n + j
      BY <2>0, <2>2, <3>1
    <3> QED BY <3>2, <1>1
  <2>3. ASSUME NEW i \in 1 .. n, NEW j \in 1 .. m PROVE a[i] # b[j]
    <3>1. /\ i \in 1 .. n + m /\ n + j \in 1 .. n + m /\ i # n + j
          /\ u[i] = a[i] /\ u[n + j] = b[j]
      BY <1>1
    <3> QED BY <2>0, <3>1
  <2>4. IsInjective(a) /\ IsInjective(b)
    BY <2>1, <2>2, <1>1 DEF IsInjective
  <2> QED BY <2>3, <2>4, <1>3
<1>8. ASSUME IsInjective(a), IsInjective(b), Range(a) \cap Range(b) = {}
      PROVE  IsInjective(u)
  <2>1. /\ \A i, j \in 1 .. n : a[i] = a[j] => i = j
        /\ \A i, j \in 1 .. m : b[i] = b[j] => i = j
    BY <1>8, <1>1 DEF IsInjective
  <2>2. \A i \in 1 .. n, j \in 1 .. m : a[i] # b[j]
    BY <1>8, <1>3
  <2>3. ASSUME NEW i \in 1 .. n + m, NEW j \in 1 .. n + m, u[i] = u[j] PROVE i = j
    <3>1. CASE i \in 1 .. n /\ j \in 1 .. n
      BY <3>1, <2>1, <2>3, <1>1
    <3>2. CASE i \in 1 .. n /\ j \notin 1 .. n
      BY <3>2, <2>2, <2>3, <1>1, <1>2
    <3>3. CASE i \notin 1 .. n /\ j \in 1 .. n
      BY <3>3, <2>2, <2>3, <1>1, <1>2
    <3>4. CASE i \notin 1 .. n /\ j \notin 1 .. n
      <4>1. i - n = j - n
        BY <3>4, <2>1, <2>3, <1>2
      <4> QED BY <4>1, <1>1
    <3> QED BY <3>1, <3>2, <3>3, <3>4
  <2> QED BY <2>3, <1>1 DEF IsInjective
<1> QED
  BY <1>4, <1>5, <1>6, <1>7, <1>8

\* A queue is split in two: the waiters that are woken and those that are not.
LEMMA SplitElements ==
  ASSUME NEW S, NEW s \in Seq(S), NEW n \in 0 .. Len(s)
  PROVE  /\ SubSeq(s, 1, n) \in Seq(S) /\ Rest(s, n) \in Seq(S)
         /\ Range(s) = Range(SubSeq(s, 1, n)) \cup Range(Rest(s, n))
         /\ IsInjective(s) =>
              /\ IsInjective(SubSeq(s, 1, n)) /\ IsInjective(Rest(s, n))
              /\ Range(SubSeq(s, 1, n)) \cap Range(Rest(s, n)) = {}
<1>1. SubSeq(s, 1, n) \in Seq(S) /\ Rest(s, n) \in Seq(S)
  BY DEF Rest
<1>2. Joins(s, SubSeq(s, 1, n), Rest(s, n))
  <2>1. /\ Len(SubSeq(s, 1, n)) = n /\ DOMAIN SubSeq(s, 1, n) = 1 .. n
        /\ \A i \in 1 .. n : SubSeq(s, 1, n)[i] = s[i]
    OBVIOUS
  <2>2. /\ Len(Rest(s, n)) = Len(s) - n /\ DOMAIN Rest(s, n) = 1 .. Len(s) - n
        /\ \A i \in 1 .. Len(s) - n : Rest(s, n)[i] = s[n + i]
    BY DEF Rest
  <2>3. n \in Nat /\ Len(s) - n \in Nat /\ DOMAIN s = 1 .. n + (Len(s) - n)
    OBVIOUS
  <2> QED BY <2>1, <2>2, <2>3 DEF Joins
<1>3. /\ Range(s) = Range(SubSeq(s, 1, n)) \cup Range(Rest(s, n))
      /\ IsInjective(s) <=>
           /\ IsInjective(SubSeq(s, 1, n)) /\ IsInjective(Rest(s, n))
           /\ Range(SubSeq(s, 1, n)) \cap Range(Rest(s, n)) = {}
  BY <1>2, JoinedElements
<1> QED
  BY <1>1, <1>3

\* Woken waiters join unlock_bh_queue.
LEMMA ConcatElements ==
  ASSUME NEW S, NEW s \in Seq(S), NEW t \in Seq(S)
  PROVE  /\ s \o t \in Seq(S)
         /\ Range(s \o t) = Range(s) \cup Range(t)
         /\ IsInjective(s) /\ IsInjective(t) /\ Range(s) \cap Range(t) = {} =>
              IsInjective(s \o t)
<1>1. s \o t \in Seq(S)
  OBVIOUS
<1>2. Joins(s \o t, s, t)
  BY DEF Joins
<1>3. /\ Range(s \o t) = Range(s) \cup Range(t)
      /\ IsInjective(s \o t) <=> /\ IsInjective(s) /\ IsInjective(t)
                                 /\ Range(s) \cap Range(t) = {}
  BY <1>2, JoinedElements
<1> QED
  BY <1>1, <1>3

\* The coroutine that yields leaves the stack (qemu_coroutine_yield).
LEMMA YieldElements ==
  ASSUME stack \in Seq(Coroutines), NEW c, Running(c), Yield
  PROVE  /\ stack' \in Seq(Coroutines) /\ c \in Range(stack)
         /\ IsInjective(stack) =>
              IsInjective(stack') /\ Range(stack') = Range(stack) \ {c}
<1> DEFINE n == Len(stack) - 1
<1>1. n \in 0 .. Len(stack) /\ stack' = SubSeq(stack, 1, n) /\ stack[n + 1] = c
  BY DEF Running, Yield
<1>2. Range(Rest(stack, n)) = {c}
  <2>1. /\ DOMAIN Rest(stack, n) = 1 .. 1
        /\ Rest(stack, n)[1] = c
    BY <1>1 DEF Rest, Running
  <2> QED BY <2>1 DEF Range
<1> HIDE DEF n
<1> QED
  BY <1>1, <1>2, SplitElements

\* A coroutine that is entered is on top of the stack (qemu_coroutine_enter).
LEMMA EnterElements ==
  ASSUME stack \in Seq(Coroutines), NEW c \in Coroutines, Enter(c)
  PROVE  /\ stack' \in Seq(Coroutines) /\ Range(stack') = Range(stack) \cup {c}
         /\ IsInjective(stack) /\ c \notin Range(stack) => IsInjective(stack')
BY AppendElements DEF Enter

\* The bottom half takes the first of the woken coroutines.
LEMMA HeadElements ==
  ASSUME NEW S, NEW s \in Seq(S), s # <<>>
  PROVE  /\ Head(s) \in S /\ Tail(s) \in Seq(S) /\ Head(s) \in Range(s)
         /\ IsInjective(s) =>
              IsInjective(Tail(s)) /\ Range(Tail(s)) = Range(s) \ {Head(s)}
<1>1. 1 \in 0 .. Len(s) /\ Head(s) \in S /\ Tail(s) = Rest(s, 1)
  BY DEF Rest
<1>2. Range(SubSeq(s, 1, 1)) = {Head(s)}
  <2>1. /\ DOMAIN SubSeq(s, 1, 1) = 1 .. 1 /\ SubSeq(s, 1, 1)[1] = Head(s)
    OBVIOUS
  <2> QED BY <2>1 DEF Range
<1>3. /\ Rest(s, 1) \in Seq(S)
      /\ Range(s) = Range(SubSeq(s, 1, 1)) \cup Range(Rest(s, 1))
      /\ IsInjective(s) =>
           IsInjective(Rest(s, 1)) /\ Range(SubSeq(s, 1, 1)) \cap Range(Rest(s, 1)) = {}
  BY <1>1, SplitElements
<1> QED
  BY <1>1, <1>2, <1>3, Zenon

\* The readers are finitely many.
LEMMA ReaderCount ==
  /\ IsFiniteSet(Holders("read")) /\ Cardinality(Holders("read")) \in Nat
  /\ Cardinality(Holders("read")) = 0 <=> Holders("read") = {}
<1>1. IsFiniteSet(Holders("read"))
  BY CoroutinesAssumption, FS_Subset DEF Holders
<1> QED
  BY <1>1, FS_CardinalityType, FS_EmptySet

\* How many waiters an unlock wakes.
LEMMA WokenType ==
  ASSUME TypeOK
  PROVE  /\ First(mutex_queue) \in 0 .. Len(mutex_queue)
         /\ Woken \in 0 .. Len(rwlock_queue)
         /\ First(rwlock_queue) \in 0 .. Len(rwlock_queue)
BY DEF TypeOK, First, Woken

\* Every variable keeps its type.  Exclusion is needed for the number of readers.
LEMMA TypeStep ==
  ASSUME TypeOK, Exclusion, [Next]_vars
  PROVE  TypeOK'
<1> USE DEF locks, wake
<1>1. CASE RunsBH
  BY <1>1, Zenon DEF RunsBH, TypeOK
<1>2. CASE BHEnters
  <2>1. /\ Head(unlock_bh_queue) \in Coroutines
        /\ unlock_bh_queue' \in Seq(Coroutines)
    BY <1>2, HeadElements DEF BHEnters, TypeOK
  <2>2. stack' \in Seq(Coroutines)
    BY <1>2, <2>1, EnterElements DEF BHEnters, TypeOK
  <2> QED BY <1>2, <2>1, <2>2 DEF BHEnters, TypeOK
<1>3. CASE BHEnds
  BY <1>3, Zenon DEF BHEnds, TypeOK
<1>4. ASSUME NEW c \in Coroutines, Start(c)
      PROVE  TypeOK'
  <2>1. stack' \in Seq(Coroutines)
    BY <1>4, EnterElements DEF Start, TypeOK
  <2> QED BY <1>4, <2>1 DEF Start, TypeOK
<1>5. ASSUME NEW c \in Coroutines, IODone(c)
      PROVE  TypeOK'
  <2>1. stack' \in Seq(Coroutines)
    BY <1>5, EnterElements DEF IODone, TypeOK
  <2> QED BY <1>5, <2>1 DEF IODone, TypeOK
<1>6. ASSUME NEW c \in Coroutines, YieldsForIO(c)
      PROVE  TypeOK'
  <2>1. stack' \in Seq(Coroutines)
    BY <1>6, YieldElements DEF YieldsForIO, TypeOK
  <2> QED BY <1>6, <2>1 DEF YieldsForIO, TypeOK
<1>7. ASSUME NEW c \in Coroutines, Terminates(c)
      PROVE  TypeOK'
  <2>1. stack' \in Seq(Coroutines)
    BY <1>7, YieldElements DEF Terminates, TypeOK
  <2> QED BY <1>7, <2>1 DEF Terminates, TypeOK
<1>8. ASSUME NEW c \in Coroutines, Waits(c)
      PROVE  TypeOK'
  <2>1. stack' \in Seq(Coroutines)
    BY <1>8, YieldElements DEF Waits, TypeOK
  <2>2. mutex_queue' \in Seq(Coroutines) /\ rwlock_queue' \in Seq(Coroutines)
    <3>1. /\ Append(mutex_queue, c) \in Seq(Coroutines)
          /\ Append(rwlock_queue, c) \in Seq(Coroutines)
      BY AppendElements DEF TypeOK
    <3> QED BY <1>8, <3>1, Zenon DEF Waits, TypeOK
  <2> QED BY <1>8, <2>1, <2>2 DEF Waits, TypeOK
<1>9. ASSUME NEW c \in Coroutines, Takes(c)
      PROVE  TypeOK'
  BY <1>9 DEF Takes, TypeOK
<1>10. ASSUME NEW c \in Coroutines, MutexUnlock(c)
       PROVE  TypeOK'
  <2>1. /\ SubSeq(mutex_queue, 1, First(mutex_queue)) \in Seq(Coroutines)
        /\ mutex_queue' \in Seq(Coroutines)
    BY <1>10, SplitElements, WokenType DEF MutexUnlock, TypeOK
  <2>2. unlock_bh_queue' \in Seq(Coroutines)
    BY <1>10, <2>1, ConcatElements DEF MutexUnlock, qemu_co_queue_next, TypeOK
  <2> QED BY <1>10, <2>1, <2>2, Zenon DEF MutexUnlock, qemu_co_queue_next, TypeOK
<1>11. ASSUME NEW c \in Coroutines, RwUnlock(c)
       PROVE  TypeOK'
  <2>1. /\ SubSeq(rwlock_queue, 1, Woken) \in Seq(Coroutines)
        /\ rwlock_queue' \in Seq(Coroutines)
    BY <1>11, SplitElements, WokenType DEF RwUnlock, TypeOK
  <2>2. unlock_bh_queue' \in Seq(Coroutines)
    BY <1>11, <2>1, ConcatElements DEF RwUnlock, qemu_co_queue_next, TypeOK
  <2>3. reader' \in Nat
    <3>1. CASE writer
      BY <1>11, <3>1 DEF RwUnlock, TypeOK
    <3>2. CASE ~writer
      <4>1. c \in Holders("read")
        BY <1>11, <3>2, Zenon DEF RwUnlock, Exclusion, Holders, TypeOK
      <4>2. reader # 0
        BY <4>1, ReaderCount DEF Exclusion
      <4> QED BY <1>11, <3>2, <4>2 DEF RwUnlock, TypeOK
    <3> QED BY <3>1, <3>2 DEF TypeOK
  <2> QED BY <1>11, <2>1, <2>2, <2>3, Zenon DEF RwUnlock, qemu_co_queue_next, TypeOK
<1>12. ASSUME NEW c \in Coroutines, NEW l \in {"mutex", "read", "write"}, Asks(c, l)
       PROVE  TypeOK'
  BY <1>12 DEF Asks, TypeOK
<1>13. CASE UNCHANGED vars
  BY <1>13 DEF vars, TypeOK
<1> QED
  BY <1>1, <1>2, <1>3, <1>4, <1>5, <1>6, <1>7, <1>8, <1>9, <1>10, <1>11, <1>12, <1>13,
     ZenonT(30) DEF Next, Steps

(***************************************************************************)
(* Exclusion.  Only Takes and the two unlocks change who holds a lock.     *)
(***************************************************************************)

\* Exclusion depends on who holds a lock and on the locks' own state only.
LEMMA SameHolders ==
  ASSUME Exclusion, \A l \in {"mutex", "read", "write"} : Holders(l)' = Holders(l),
         UNCHANGED <<locked, writer, reader>>
  PROVE  Exclusion'
BY DEF Exclusion

\* A coroutine that holds no lock before and after the step, and no other one
\* moves: the holders are the same.
LEMMA OtherHolders ==
  ASSUME TypeOK, NEW c \in Coroutines, at[c] # "held", at'[c] # "held",
         \A d \in Coroutines \ {c} : at'[d] = at[d] /\ want'[d] = want[d]
  PROVE  \A l \in {"mutex", "read", "write"} : Holders(l)' = Holders(l)
BY DEF Holders

\* Every step keeps Exclusion: taking and releasing a lock are the only ones that
\* change its holders.
LEMMA ExclusionStep ==
  ASSUME TypeOK, Exclusion, [Next]_vars
  PROVE  Exclusion'
<1> USE DEF locks, wake
<1>1. CASE \/ RunsBH \/ BHEnters \/ BHEnds \/ UNCHANGED vars
           \/ \E c \in Coroutines : IODone(c) \/ YieldsForIO(c) \/ Waits(c)
  <2>1. UNCHANGED <<at, want, locked, writer, reader>>
    BY <1>1 DEF RunsBH, BHEnters, BHEnds, IODone, YieldsForIO, Waits, vars
  <2> QED BY <2>1, SameHolders DEF Holders
<1>2. ASSUME NEW c \in Coroutines, Start(c) \/ Terminates(c) \/
                 \E l \in {"mutex", "read", "write"} : Asks(c, l)
      PROVE  Exclusion'
  <2>1. /\ at[c] # "held" /\ at'[c] # "held" /\ UNCHANGED <<locked, writer, reader>>
        /\ \A d \in Coroutines \ {c} : at'[d] = at[d] /\ want'[d] = want[d]
    BY <1>2 DEF Start, Terminates, Asks, TypeOK
  <2> QED BY <2>1, OtherHolders, SameHolders
<1>3. ASSUME NEW c \in Coroutines, Takes(c)
      PROVE  Exclusion'
  <2>1. /\ at[c] = "lock" /\ want[c] \in {"mutex", "read", "write"}
        /\ \A l \in {"mutex", "read", "write"} :
              /\ c \notin Holders(l)
              /\ Holders(l)' = IF l = want[c] THEN Holders(l) \cup {c} ELSE Holders(l)
    BY <1>3 DEF Takes, Holders, TypeOK
  <2>2. CASE want[c] = "mutex"
    <3>1. /\ ~locked /\ locked' = TRUE /\ UNCHANGED <<writer, reader>>
      BY <1>3, <2>2, Zenon DEF Takes, MustWait, TypeOK
    <3>2. Holders("mutex")' = {c}
      BY <2>1, <2>2, <3>1, Zenon DEF Exclusion
    <3> QED BY <2>1, <2>2, <3>1, <3>2, Zenon DEF Exclusion
  <2>3. CASE want[c] = "write"
    <3>1. ~writer /\ ~(reader > 0)
      <4>1. ~MustWait("write")
        BY <1>3, <2>3 DEF Takes
      <4> QED BY <4>1 DEF MustWait
    <3>2. writer' = TRUE /\ UNCHANGED <<locked, reader>>
      BY <1>3, <2>3, Zenon DEF Takes, TypeOK
    <3>3. Holders("write")' = {c}
      BY <2>1, <2>3, <3>1, Zenon DEF Exclusion
    <3>4. ~(writer' /\ reader' > 0)
      BY <3>1, <3>2
    <3> QED BY <2>1, <2>3, <3>2, <3>3, <3>4, Zenon DEF Exclusion
  <2>4. CASE want[c] = "read"
    <3>1. /\ ~writer /\ reader' = reader + 1 /\ UNCHANGED <<locked, writer>>
      BY <1>3, <2>4 DEF Takes, MustWait, TypeOK
    <3>2. Cardinality(Holders("read")') = Cardinality(Holders("read")) + 1
      BY <2>1, <2>4, ReaderCount, FS_AddElement
    <3> QED BY <2>1, <2>4, <3>1, <3>2 DEF Exclusion
  <2> QED BY <2>1, <2>2, <2>3, <2>4
<1>4. ASSUME NEW c \in Coroutines, MutexUnlock(c) \/ RwUnlock(c)
      PROVE  Exclusion'
  <2>1. /\ want[c] \in {"mutex", "read", "write"} /\ c \in Holders(want[c])
        /\ \A l \in {"mutex", "read", "write"} :
              Holders(l)' = IF l = want[c] THEN Holders(l) \ {c} ELSE Holders(l)
    BY <1>4 DEF MutexUnlock, RwUnlock, Holders, TypeOK
  <2>2. CASE want[c] = "mutex"
    <3>1. locked' = FALSE /\ UNCHANGED <<writer, reader>>
      BY <1>4, <2>2 DEF MutexUnlock, RwUnlock
    <3>2. Holders("mutex")' = {}
      BY <2>1, <2>2 DEF Exclusion
    <3> QED BY <2>1, <2>2, <3>1, <3>2, Zenon DEF Exclusion
  <2>3. CASE want[c] = "write"
    <3>1. writer /\ writer' = FALSE /\ UNCHANGED <<locked, reader>>
      BY <1>4, <2>1, <2>3, Zenon DEF MutexUnlock, RwUnlock, Exclusion
    <3>2. Holders("write")' = {}
      BY <2>1, <2>3 DEF Exclusion
    <3> QED BY <2>1, <2>3, <3>1, <3>2, Zenon DEF Exclusion
  <2>4. CASE want[c] = "read"
    <3>1. reader > 0 /\ ~writer
      BY <2>1, <2>4, ReaderCount DEF Exclusion
    <3>2. writer' = FALSE /\ reader' = reader - 1 /\ UNCHANGED locked
      BY <1>4, <2>4, <3>1 DEF MutexUnlock, RwUnlock
    <3>3. Cardinality(Holders("read")') = Cardinality(Holders("read")) - 1
      BY <2>1, <2>4, ReaderCount, FS_RemoveElement
    <3>4. ~writer' /\ ~writer
      BY <3>1, <3>2
    <3> QED BY <2>1, <2>4, <3>2, <3>3, <3>4, Zenon DEF Exclusion, TypeOK
  <2> QED BY <2>1, <2>2, <2>3, <2>4
<1> QED
  BY <1>1, <1>2, <1>3, <1>4, ZenonT(30) DEF Next, Steps

\* Every variable of the locks and of the scheduler of coroutines has its type and
\* the locks exclude, for any number of coroutines.
THEOREM TypeAndExclusion == Spec => [](TypeOK /\ Exclusion)
<1>1. Init => TypeOK
  <2>1. <<>> \in Seq(Coroutines) /\ {} \subseteq Coroutines /\ 0 \in Nat
    OBVIOUS
  <2>2. /\ [c \in Coroutines |-> "idle"] \in [Coroutines -> {"idle", "run", "lock", "held"}]
        /\ [c \in Coroutines |-> "mutex"] \in [Coroutines -> {"mutex", "read", "write"}]
        /\ [c \in Coroutines |-> MaxRounds] \in [Coroutines -> Nat]
    BY CoroutinesAssumption
  <2> QED BY <2>1, <2>2, ZenonT(30) DEF Init, TypeOK
<1>2. Init => Exclusion
  <2> SUFFICES ASSUME Init PROVE Exclusion
    OBVIOUS
  <2>1. \A l : Holders(l) = {}
    BY DEF Init, Holders
  <2> QED BY <2>1, FS_EmptySet, Zenon DEF Init, Exclusion
<1> QED
  BY <1>1, <1>2, TypeStep, ExclusionStep, PTL DEF Spec

\* qemu_co_mutex_lock and the two locks of CoRwlock exclude one another as they
\* promise, however the coroutines are entered, yield and are woken.
THEOREM LocksExclude == Spec => []Exclusion
BY TypeAndExclusion, PTL

(***************************************************************************)
(* One place.  Each queue has no coroutine twice, no two places share one, *)
(* every coroutine that was started is somewhere, and those that wait for  *)
(* a lock still ask for it.                                                *)
(***************************************************************************)
Injective ==
  /\ IsInjective(stack) /\ IsInjective(mutex_queue)
  /\ IsInjective(rwlock_queue) /\ IsInjective(unlock_bh_queue)

Apart(S, M, R, U, I, a, w) ==
  /\ S \cap M = {} /\ S \cap R = {} /\ S \cap U = {} /\ S \cap I = {}
  /\ M \cap R = {} /\ M \cap U = {} /\ M \cap I = {}
  /\ R \cap U = {} /\ R \cap I = {} /\ U \cap I = {}
  /\ S \cup M \cup R \cup U \cup I = {c \in Coroutines : a[c] # "idle"}
  /\ \A c \in M : a[c] = "lock" /\ w[c] = "mutex"
  /\ \A c \in R : a[c] = "lock" /\ w[c] # "mutex"

Placed ==
  /\ Injective
  /\ Apart(Range(stack), Range(mutex_queue), Range(rwlock_queue),
           Range(unlock_bh_queue), io, at, want)

\* Every step moves at most one running coroutine, or the woken ones, from one place to
\* another.
LEMMA PlacedStep ==
  ASSUME TypeOK, Placed, [Next]_vars
  PROVE  Placed'
<1> DEFINE S == Range(stack)
           M == Range(mutex_queue)
           R == Range(rwlock_queue)
           U == Range(unlock_bh_queue)
<1> USE DEF locks, wake
<1>0. Injective /\ Apart(S, M, R, U, io, at, want)
  BY DEF Placed
<1>a. ASSUME Injective', Apart(S', M', R', U', io', at', want')
      PROVE  Placed'
  BY <1>a DEF Placed
<1>b. ASSUME UNCHANGED <<stack, mutex_queue, rwlock_queue, unlock_bh_queue>>
      PROVE  Injective' /\ S' = S /\ M' = M /\ R' = R /\ U' = U
  BY <1>0, <1>b DEF Injective
<1> HIDE DEF S, M, R, U
<1>1. CASE RunsBH \/ BHEnds \/ UNCHANGED vars
  <2>1. /\ UNCHANGED <<stack, mutex_queue, rwlock_queue, unlock_bh_queue>>
        /\ UNCHANGED <<io, at, want>>
    BY <1>1 DEF RunsBH, BHEnds, vars
  <2> QED BY <2>1, <1>0, <1>a, <1>b
<1>2. CASE BHEnters
  <2> DEFINE c == Head(unlock_bh_queue)
  <2>1. /\ c \in Coroutines /\ c \in U /\ U' = U \ {c} /\ IsInjective(unlock_bh_queue')
    BY <1>0, <1>2, HeadElements DEF BHEnters, TypeOK, Injective, U
  <2>2. c \notin S
    BY <2>1, <1>0 DEF Apart
  <2>3. S' = S \cup {c} /\ IsInjective(stack')
    BY <1>0, <1>2, <2>1, <2>2, EnterElements DEF BHEnters, TypeOK, Injective, S
  <2>4. UNCHANGED <<mutex_queue, rwlock_queue, io, at, want>> /\ M' = M /\ R' = R
    BY <1>2 DEF BHEnters, M, R
  <2> HIDE DEF c
  <2>5. Injective'
    BY <1>0, <2>1, <2>3, <2>4 DEF Injective
  <2>6. Apart(S', M', R', U', io', at', want')
    BY <1>0, <2>1, <2>3, <2>4 DEF Apart
  <2> QED BY <2>5, <2>6, <1>a
<1>3. ASSUME NEW c \in Coroutines, Start(c)
      PROVE  Placed'
  <2>1. c \notin S \cup M \cup R \cup U \cup io
    BY <1>0, <1>3 DEF Start, Apart
  <2>2. S' = S \cup {c} /\ IsInjective(stack')
    BY <1>0, <1>3, <2>1, EnterElements DEF Start, TypeOK, Injective, S
  <2>3. /\ UNCHANGED <<mutex_queue, rwlock_queue, unlock_bh_queue, io, want>>
        /\ at' = [at EXCEPT ![c] = "run"] /\ M' = M /\ R' = R /\ U' = U
    BY <1>3 DEF Start, M, R, U
  <2>4. Injective'
    BY <1>0, <2>2, <2>3 DEF Injective
  <2>5. Apart(S', M', R', U', io', at', want')
    BY <1>0, <2>1, <2>2, <2>3 DEF Apart, TypeOK
  <2> QED BY <2>4, <2>5, <1>a
<1>4. ASSUME NEW c \in Coroutines, IODone(c)
      PROVE  Placed'
  <2>1. c \in io /\ c \notin S
    BY <1>0, <1>4 DEF IODone, Apart
  <2>2. S' = S \cup {c} /\ IsInjective(stack')
    BY <1>0, <1>4, <2>1, EnterElements DEF IODone, TypeOK, Injective, S
  <2>3. /\ UNCHANGED <<mutex_queue, rwlock_queue, unlock_bh_queue, at, want>>
        /\ io' = io \ {c} /\ M' = M /\ R' = R /\ U' = U
    BY <1>4 DEF IODone, M, R, U
  <2>4. Injective'
    BY <1>0, <2>2, <2>3 DEF Injective
  <2>5. Apart(S', M', R', U', io', at', want')
    BY <1>0, <2>1, <2>2, <2>3 DEF Apart
  <2> QED BY <2>4, <2>5, <1>a
<1>5. ASSUME NEW c \in Coroutines, Running(c), Yield
      PROVE  /\ c \in S /\ c \notin M \cup R \cup U \cup io
             /\ S' = S \ {c} /\ IsInjective(stack')
  <2>1. c \in S /\ S' = S \ {c} /\ IsInjective(stack')
    BY <1>0, <1>5, YieldElements DEF TypeOK, Injective, S
  <2> QED BY <2>1, <1>0 DEF Apart
<1>6. ASSUME NEW c \in Coroutines, YieldsForIO(c)
      PROVE  Placed'
  <2>1. /\ c \in S /\ c \notin M \cup R \cup U \cup io
        /\ S' = S \ {c} /\ IsInjective(stack')
    BY <1>5, <1>6 DEF YieldsForIO
  <2>2. /\ UNCHANGED <<mutex_queue, rwlock_queue, unlock_bh_queue, at, want>>
        /\ io' = io \cup {c} /\ M' = M /\ R' = R /\ U' = U
    BY <1>6 DEF YieldsForIO, M, R, U
  <2>3. Injective'
    BY <1>0, <2>1, <2>2 DEF Injective
  <2>4. Apart(S', M', R', U', io', at', want')
    BY <1>0, <2>1, <2>2 DEF Apart
  <2> QED BY <2>3, <2>4, <1>a
<1>7. ASSUME NEW c \in Coroutines, Terminates(c)
      PROVE  Placed'
  <2>1. /\ c \in S /\ c \notin M \cup R \cup U \cup io
        /\ S' = S \ {c} /\ IsInjective(stack')
    BY <1>5, <1>7 DEF Terminates
  <2>2. /\ UNCHANGED <<mutex_queue, rwlock_queue, unlock_bh_queue, io, want>>
        /\ at' = [at EXCEPT ![c] = "idle"] /\ M' = M /\ R' = R /\ U' = U
    BY <1>7 DEF Terminates, M, R, U
  <2>3. Injective'
    BY <1>0, <2>1, <2>2 DEF Injective
  <2>4. Apart(S', M', R', U', io', at', want')
    BY <1>0, <2>1, <2>2 DEF Apart, TypeOK
  <2> QED BY <2>3, <2>4, <1>a
<1>8. ASSUME NEW c \in Coroutines, Waits(c)
      PROVE  Placed'
  <2>1. /\ c \in S /\ c \notin M \cup R \cup U \cup io
        /\ S' = S \ {c} /\ IsInjective(stack')
    BY <1>5, <1>8 DEF Waits
  <2>2. UNCHANGED <<unlock_bh_queue, io, at, want>> /\ U' = U /\ at[c] = "lock"
    BY <1>8 DEF Waits, U
  <2>3. CASE want[c] = "mutex"
    <3>1. /\ mutex_queue' = Append(mutex_queue, c) /\ UNCHANGED rwlock_queue /\ R' = R
      BY <1>8, <2>3 DEF Waits, R
    <3>2. M' = M \cup {c} /\ IsInjective(mutex_queue')
      BY <1>0, <2>1, <3>1, AppendElements DEF TypeOK, Injective, M
    <3>3. Injective'
      BY <1>0, <2>1, <2>2, <3>1, <3>2 DEF Injective
    <3>4. Apart(S', M', R', U', io', at', want')
      BY <1>0, <2>1, <2>2, <2>3, <3>1, <3>2 DEF Apart
    <3> QED BY <3>3, <3>4, <1>a
  <2>4. CASE want[c] # "mutex"
    <3>1. /\ rwlock_queue' = Append(rwlock_queue, c) /\ UNCHANGED mutex_queue /\ M' = M
      BY <1>8, <2>4 DEF Waits, M
    <3>2. R' = R \cup {c} /\ IsInjective(rwlock_queue')
      BY <1>0, <2>1, <3>1, AppendElements DEF TypeOK, Injective, R
    <3>3. Injective'
      BY <1>0, <2>1, <2>2, <3>1, <3>2 DEF Injective
    <3>4. Apart(S', M', R', U', io', at', want')
      BY <1>0, <2>1, <2>2, <2>4, <3>1, <3>2 DEF Apart
    <3> QED BY <3>3, <3>4, <1>a
  <2> QED BY <2>3, <2>4
<1>9. ASSUME NEW c \in Coroutines, Running(c)
      PROVE  c \in S /\ c \notin M \cup R \cup U \cup io
  <2>1. c \in S
    BY <1>9 DEF Running, TypeOK, S, Range
  <2> QED BY <2>1, <1>0 DEF Apart
<1>10. ASSUME NEW c \in Coroutines, c \in S, c \notin M \cup R,
              at[c] # "idle", at'[c] # "idle",
              \A e \in Coroutines \ {c} : at'[e] = at[e] /\ want'[e] = want[e]
       PROVE  Apart(S, M, R, U, io, at', want')
  BY <1>0, <1>10 DEF Apart, TypeOK
<1>11. ASSUME NEW c \in Coroutines,
              Takes(c) \/ \E l \in {"mutex", "read", "write"} : Asks(c, l)
       PROVE  Placed'
  <2>1. c \in S /\ c \notin M \cup R
    BY <1>9, <1>11 DEF Takes, Asks
  <2>2. /\ UNCHANGED <<stack, mutex_queue, rwlock_queue, unlock_bh_queue, io>>
        /\ at[c] # "idle" /\ at'[c] # "idle"
        /\ \A e \in Coroutines \ {c} : at'[e] = at[e] /\ want'[e] = want[e]
    BY <1>11 DEF Takes, Asks, TypeOK
  <2>3. Apart(S, M, R, U, io, at', want')
    BY <2>1, <2>2, <1>10
  <2> QED BY <2>2, <2>3, <1>a, <1>b
<1>12. ASSUME NEW c \in Coroutines, MutexUnlock(c)
       PROVE  Placed'
  <2> DEFINE q == SubSeq(mutex_queue, 1, First(mutex_queue))
             W == Range(q)
  <2>1. c \in S /\ c \notin M \cup R
    BY <1>9, <1>12 DEF MutexUnlock
  <2>2. /\ M = W \cup M' /\ W \cap M' = {} /\ IsInjective(mutex_queue')
        /\ q \in Seq(Coroutines) /\ IsInjective(q)
    BY <1>0, <1>12, SplitElements, WokenType DEF MutexUnlock, TypeOK, Injective, M
  <2>3. U \cap W = {}
    BY <1>0, <2>2 DEF Apart
  <2>4. U' = U \cup W /\ IsInjective(unlock_bh_queue')
    <3>1. /\ unlock_bh_queue' = unlock_bh_queue \o q
          /\ unlock_bh_queue \in Seq(Coroutines) /\ IsInjective(unlock_bh_queue)
      BY <1>0, <1>12 DEF MutexUnlock, qemu_co_queue_next, TypeOK, Injective
    <3>2. IsInjective(q) /\ q \in Seq(Coroutines)
      BY <2>2
    <3>3. Range(unlock_bh_queue) \cap Range(q) = {}
      BY <2>3 DEF U
    <3> HIDE DEF q
    <3>4. /\ Range(unlock_bh_queue') = Range(unlock_bh_queue) \cup Range(q)
          /\ IsInjective(unlock_bh_queue')
      BY <3>1, <3>2, <3>3, ConcatElements
    <3> QED BY <3>4 DEF U
  <2>5. /\ UNCHANGED <<stack, rwlock_queue, io, want>> /\ S' = S /\ R' = R
        /\ at[c] # "idle" /\ at'[c] # "idle"
        /\ \A e \in Coroutines \ {c} : at'[e] = at[e] /\ want'[e] = want[e]
    BY <1>12 DEF MutexUnlock, TypeOK, S, R
  <2> HIDE DEF W
  <2>6. Injective'
    BY <1>0, <2>2, <2>4, <2>5 DEF Injective
  <2>7. Apart(S, M, R, U, io, at', want')
    BY <2>1, <2>5, <1>10
  <2>8. Apart(S', M', R', U', io', at', want')
    BY <2>2, <2>4, <2>5, <2>7 DEF Apart
  <2> QED BY <2>6, <2>8, <1>a
<1>13. ASSUME NEW c \in Coroutines, RwUnlock(c)
       PROVE  Placed'
  <2> DEFINE q == SubSeq(rwlock_queue, 1, Woken)
             W == Range(q)
  <2>1. c \in S /\ c \notin M \cup R
    BY <1>9, <1>13 DEF RwUnlock
  <2>2. /\ R = W \cup R' /\ W \cap R' = {} /\ IsInjective(rwlock_queue')
        /\ q \in Seq(Coroutines) /\ IsInjective(q)
    BY <1>0, <1>13, SplitElements, WokenType DEF RwUnlock, TypeOK, Injective, R
  <2>3. U \cap W = {}
    BY <1>0, <2>2 DEF Apart
  <2>4. U' = U \cup W /\ IsInjective(unlock_bh_queue')
    <3>1. /\ unlock_bh_queue' = unlock_bh_queue \o q
          /\ unlock_bh_queue \in Seq(Coroutines) /\ IsInjective(unlock_bh_queue)
      BY <1>0, <1>13 DEF RwUnlock, qemu_co_queue_next, TypeOK, Injective
    <3>2. IsInjective(q) /\ q \in Seq(Coroutines)
      BY <2>2
    <3>3. Range(unlock_bh_queue) \cap Range(q) = {}
      BY <2>3 DEF U
    <3> HIDE DEF q
    <3>4. /\ Range(unlock_bh_queue') = Range(unlock_bh_queue) \cup Range(q)
          /\ IsInjective(unlock_bh_queue')
      BY <3>1, <3>2, <3>3, ConcatElements
    <3> QED BY <3>4 DEF U
  <2>5. /\ UNCHANGED <<stack, mutex_queue, io, want>> /\ S' = S /\ M' = M
        /\ at[c] # "idle" /\ at'[c] # "idle"
        /\ \A e \in Coroutines \ {c} : at'[e] = at[e] /\ want'[e] = want[e]
    BY <1>13, SMTT(30) DEF RwUnlock, TypeOK, S, M
  <2> HIDE DEF W
  <2>6. Injective'
    BY <1>0, <2>2, <2>4, <2>5 DEF Injective
  <2>7. Apart(S, M, R, U, io, at', want')
    BY <2>1, <2>5, <1>10
  <2>8. Apart(S', M', R', U', io', at', want')
    BY <2>2, <2>4, <2>5, <2>7 DEF Apart
  <2> QED BY <2>6, <2>8, <1>a
<1> QED
  BY <1>1, <1>2, <1>3, <1>4, <1>6, <1>7, <1>8, <1>11, <1>12, <1>13, ZenonT(30)
     DEF Next, Steps

\* The places of the coroutines stay apart.
LEMMA PlacedAlways == Spec => []Placed
<1>1. Init => Placed
  <2> SUFFICES ASSUME Init PROVE Placed
    OBVIOUS
  <2>1. Range(<<>>) = {} /\ IsInjective(<<>>)
    BY DEF Range, IsInjective
  <2>2. {c \in Coroutines : at[c] # "idle"} = {}
    BY DEF Init
  <2>3. /\ stack = <<>> /\ mutex_queue = <<>> /\ rwlock_queue = <<>>
        /\ unlock_bh_queue = <<>> /\ io = {}
    BY DEF Init
  <2>4. Injective
    BY <2>1, <2>3 DEF Injective
  <2>5. Apart({}, {}, {}, {}, {}, at, want)
    BY <2>2 DEF Apart
  <2> QED BY <2>1, <2>3, <2>4, <2>5 DEF Placed
<1> QED
  BY <1>1, PlacedStep, TypeAndExclusion, PTL DEF Spec

\* A coroutine is never entered twice nor queued twice: it is on the stack, waiting for
\* I/O, queued on one lock, or woken.
THEOREM CoroutinesInOnePlace == Spec => []OnePlace
<1>2. ASSUME TypeOK, Placed
      PROVE  OnePlace
  <2> DEFINE p == stack \o mutex_queue
             q == p \o rwlock_queue
             r == q \o unlock_bh_queue
  <2>0. Injective /\ Apart(Range(stack), Range(mutex_queue), Range(rwlock_queue),
                           Range(unlock_bh_queue), io, at, want)
    BY <1>2 DEF Placed
  <2>1. /\ p \in Seq(Coroutines) /\ Range(p) = Range(stack) \cup Range(mutex_queue)
        /\ IsInjective(p)
    BY <1>2, <2>0, ConcatElements DEF TypeOK, Injective, Apart
  <2> HIDE DEF p
  <2>2. Range(p) \cap Range(rwlock_queue) = {}
    BY <2>0, <2>1 DEF Apart
  <2>3. /\ q \in Seq(Coroutines) /\ Range(q) = Range(p) \cup Range(rwlock_queue)
        /\ IsInjective(q)
    BY <1>2, <2>0, <2>1, <2>2, ConcatElements DEF TypeOK, Injective
  <2> HIDE DEF q
  <2>4. Range(q) \cap Range(unlock_bh_queue) = {}
    BY <2>0, <2>1, <2>3 DEF Apart
  <2>5. /\ Range(r) = Range(q) \cup Range(unlock_bh_queue) /\ IsInjective(r)
    BY <1>2, <2>0, <2>3, <2>4, ConcatElements DEF TypeOK, Injective
  <2> HIDE DEF r
  <2>6. /\ Range(r) \cap io = {}
        /\ Range(r) \cup io = {c \in Coroutines : at[c] # "idle"}
    BY <2>0, <2>1, <2>3, <2>5 DEF Apart
  <2> QED BY <2>5, <2>6 DEF OnePlace, p, q, r
<1> QED
  BY <1>2, PlacedAlways, TypeAndExclusion, PTL

(***************************************************************************)
(* Wake-ups.                                                               *)
(***************************************************************************)

\* The waiters of the CoRwlock, seen as a set.
LEMMA WritersAsSet ==
  ASSUME TypeOK
  PROVE  OnlyWritersWait <=> (~writer => \A c \in Range(rwlock_queue) : want[c] = "write")
BY DEF OnlyWritersWait, Range, TypeOK

\* A reader waits only for a writer, and the writer wakes all.
LEMMA WritersStep ==
  ASSUME TypeOK, TypeOK', Placed, OnlyWritersWait, [Next]_vars
  PROVE  OnlyWritersWait'
<1> DEFINE R == Range(rwlock_queue)
           P == ~writer => \A c \in R : want[c] = "write"
<1> USE DEF locks, wake
<1>0. P
  BY WritersAsSet
<1>a. P' => OnlyWritersWait'
  BY DEF OnlyWritersWait, Range, TypeOK
<1> SUFFICES P'
  BY <1>a
<1>1. CASE \/ RunsBH \/ BHEnters \/ BHEnds \/ UNCHANGED vars
           \/ \E c \in Coroutines : \/ Start(c) \/ IODone(c) \/ YieldsForIO(c)
                                    \/ Terminates(c) \/ MutexUnlock(c)
  <2>1. UNCHANGED <<writer, rwlock_queue, want>>
    BY <1>1 DEF RunsBH, BHEnters, BHEnds, Start, IODone, YieldsForIO, Terminates,
                MutexUnlock, vars
  <2> QED BY <2>1, <1>0
<1>2. ASSUME NEW c \in Coroutines, NEW l \in {"mutex", "read", "write"}, Asks(c, l)
      PROVE  P'
  <2>1. c \notin R
    <3>1. c \in Range(stack)
      BY <1>2 DEF Asks, Running, TypeOK, Range
    <3> QED BY <3>1 DEF Placed, Apart
  <2>2. R \subseteq Coroutines
    BY DEF TypeOK, Range
  <2>3. /\ UNCHANGED <<writer, rwlock_queue>> /\ R' = R
        /\ \A d \in Coroutines \ {c} : want'[d] = want[d]
    BY <1>2 DEF Asks, TypeOK
  <2> HIDE DEF R
  <2> QED BY <1>0, <2>1, <2>2, <2>3
<1>3. ASSUME NEW c \in Coroutines, Waits(c)
      PROVE  P'
  <2>0. UNCHANGED <<writer, want>> /\ MustWait(want[c])
    BY <1>3 DEF Waits
  <2>1. CASE want[c] = "mutex"
    BY <1>0, <1>3, <2>0, <2>1 DEF Waits
  <2>2. CASE want[c] # "mutex"
    <3>1. R' = R \cup {c}
      <4>1. rwlock_queue' = Append(rwlock_queue, c)
        BY <1>3, <2>2 DEF Waits
      <4>2. rwlock_queue \in Seq(Coroutines)
        BY DEF TypeOK
      <4> QED BY <4>1, <4>2, AppendElements
    <3>2. ~writer => want[c] = "write"
      <4>1. CASE want[c] = "read"
        BY <2>0, <4>1 DEF MustWait
      <4> QED BY <2>2, <4>1 DEF TypeOK
    <3> HIDE DEF R
    <3> QED BY <1>0, <2>0, <3>1, <3>2
  <2> QED BY <2>1, <2>2, SMTT(30)
<1>4. ASSUME NEW c \in Coroutines, Takes(c)
      PROVE  P'
  <2>1. UNCHANGED <<rwlock_queue, want>> /\ (writer => writer')
    BY <1>4, Zenon DEF Takes
  <2> QED BY <1>0, <2>1
<1>5. ASSUME NEW c \in Coroutines, RwUnlock(c)
      PROVE  P'
  <2>1. rwlock_queue' = Rest(rwlock_queue, Woken) /\ UNCHANGED want
    BY <1>5 DEF RwUnlock
  <2>2. CASE writer
    <3>1. rwlock_queue' = <<>>
      BY <2>1, <2>2 DEF Woken, Rest, TypeOK
    <3> QED BY <3>1 DEF Range
  <2>3. CASE ~writer
    <3>1. R' \subseteq R
      BY <2>1, SplitElements, WokenType DEF TypeOK
    <3> HIDE DEF R
    <3> QED BY <1>0, <2>1, <2>3, <3>1
  <2> QED BY <2>2, <2>3
<1> QED
  BY <1>1, <1>2, <1>3, <1>4, <1>5, ZenonT(30) DEF Next, Steps

\* While no writer holds the lock only writers wait for it, so that waking one waiter
\* after the last reader, as qemu_co_rwlock_unlock does, loses no reader.
THEOREM ReadersNeverStranded == Spec => []OnlyWritersWait
<1>1. Init => OnlyWritersWait
  BY DEF Init, OnlyWritersWait
<1> QED
  BY <1>1, WritersStep, PlacedAlways, TypeAndExclusion, PTL DEF Spec

\* Who is entered or woken, seen as a set.
LEMMA EnteredOrWoken ==
  ASSUME TypeOK
  PROVE  Range(stack \o unlock_bh_queue) = Range(stack) \cup Range(unlock_bh_queue)
BY ConcatElements DEF TypeOK

LEMMA EnteredOrWokenNext ==
  ASSUME TypeOK'
  PROVE  Range(stack' \o unlock_bh_queue') = Range(stack') \cup Range(unlock_bh_queue')
BY ConcatElements DEF TypeOK

\* Whoever is on the way to take a lock stays so while another coroutine acts.
LEMMA WakingKept ==
  ASSUME TypeOK, TypeOK', NEW l, NEW c,
         \A d \in Coroutines \ {c} : at'[d] = at[d] /\ want'[d] = want[d],
         (Range(stack) \cup Range(unlock_bh_queue)) \ {c}
            \subseteq Range(stack') \cup Range(unlock_bh_queue')
  PROVE  Waking(l) \ {c} \subseteq Waking(l)'
BY EnteredOrWoken, EnteredOrWokenNext DEF Waking

\* Who is on the way to take a lock has been entered or woken and asks for it.
LEMMA WakingIs ==
  ASSUME TypeOK, NEW l, NEW c
  PROVE  c \in Waking(l) <=> /\ c \in Coroutines /\ at[c] = "lock" /\ want[c] \in l
                             /\ c \in Range(stack) \cup Range(unlock_bh_queue)
BY EnteredOrWoken DEF Waking

\* The same in the next state.
LEMMA WakingIsNext ==
  ASSUME TypeOK', NEW l, NEW c
  PROVE  c \in Waking(l)' <=> /\ c \in Coroutines /\ at'[c] = "lock" /\ want'[c] \in l
                              /\ c \in Range(stack') \cup Range(unlock_bh_queue')
BY EnteredOrWokenNext DEF Waking

\* An unlock wakes the first waiter if there is one.
LEMMA FirstWoken ==
  ASSUME NEW q \in Seq(Coroutines), q # <<>>
  PROVE  First(q) = 1 /\ Head(q) \in Range(q) /\ Head(q) \in Coroutines
         /\ Head(q) \in Range(SubSeq(q, 1, 1))
<1>1. First(q) = 1 /\ Head(q) \in Range(q) /\ Head(q) \in Coroutines
  BY HeadElements DEF First
<1>2. DOMAIN SubSeq(q, 1, 1) = 1 .. 1 /\ SubSeq(q, 1, 1)[1] = Head(q)
  OBVIOUS
<1> QED
  BY <1>1, <1>2 DEF Range

\* The bottom half that enters the woken forgets none.
LEMMA MainKeepsWaking ==
  ASSUME TypeOK, TypeOK', Placed, NEW l, RunsBH \/ BHEnters \/ BHEnds \/ UNCHANGED vars
  PROVE  Waking(l) \subseteq Waking(l)'
<1> DEFINE A == Range(stack) \cup Range(unlock_bh_queue)
<1> USE DEF locks, wake
<1>1. UNCHANGED <<at, want>>
  BY DEF RunsBH, BHEnters, BHEnds, vars
<1>2. A' = A
  <2>1. CASE BHEnters
    <3> DEFINE c == Head(unlock_bh_queue)
    <3>1. /\ c \in Range(unlock_bh_queue) /\ c \in Coroutines
          /\ Range(unlock_bh_queue') = Range(unlock_bh_queue) \ {c}
      BY <2>1, HeadElements DEF BHEnters, TypeOK, Placed, Injective
    <3>2. Range(stack') = Range(stack) \cup {c}
      BY <2>1, <3>1, EnterElements DEF BHEnters, TypeOK
    <3> HIDE DEF c
    <3> QED BY <3>1, <3>2
  <2>2. CASE RunsBH \/ BHEnds \/ UNCHANGED vars
    <3>1. UNCHANGED <<stack, unlock_bh_queue>>
      BY <2>2, SMTT(30) DEF RunsBH, BHEnds, vars
    <3> QED BY <3>1
  <2> QED BY <2>1, <2>2
<1>3. ASSUME NEW c \in Waking(l)
      PROVE  c \in Waking(l)'
  <2>1. /\ c \in Coroutines /\ at[c] = "lock" /\ want[c] \in l /\ c \in A
    BY <1>3, WakingIs
  <2>2. /\ at'[c] = "lock" /\ want'[c] \in l /\ c \in A'
    BY <1>1, <1>2, <2>1, SMTT(30)
  <2> QED BY <2>1, <2>2, WakingIsNext
<1> QED
  BY <1>3

\* A coroutine that acts disturbs no other on the way to a lock.
LEMMA OthersKeepWaking ==
  ASSUME TypeOK, TypeOK', Placed, NEW l, NEW c \in Coroutines,
         \/ Start(c) \/ IODone(c) \/ YieldsForIO(c) \/ Steps(c)
         \/ \E k \in {"mutex", "read", "write"} : Asks(c, k)
  PROVE  Waking(l) \ {c} \subseteq Waking(l)'
<1> DEFINE S == Range(stack)
           U == Range(unlock_bh_queue)
<1> USE DEF locks, wake
<1>1. \A d \in Coroutines \ {c} : at'[d] = at[d] /\ want'[d] = want[d]
  BY Zenon DEF Start, IODone, YieldsForIO, Steps, Terminates, Waits, Takes, MutexUnlock,
         RwUnlock, Asks, TypeOK
<1>2. (S \cup U) \ {c} \subseteq S' \cup U'
  <2>1. CASE Start(c) \/ IODone(c)
    <3>1. S' = S \cup {c}
      BY <2>1, EnterElements DEF Start, IODone, TypeOK
    <3>2. U' = U
      BY <2>1 DEF Start, IODone
    <3> QED BY <3>1, <3>2
  <2>2. CASE YieldsForIO(c) \/ Terminates(c) \/ Waits(c)
    <3>1. S' = S \ {c}
      BY <2>2, YieldElements
         DEF YieldsForIO, Terminates, Waits, TypeOK, Placed, Injective
    <3>2. U' = U
      BY <2>2 DEF YieldsForIO, Terminates, Waits
    <3> QED BY <3>1, <3>2, SMTT(30)
  <2>3. CASE Takes(c) \/ \E k \in {"mutex", "read", "write"} : Asks(c, k)
    <3>1. UNCHANGED <<stack, unlock_bh_queue>>
      BY <2>3 DEF Takes, Asks
    <3> QED BY <3>1
  <2>4. CASE MutexUnlock(c) \/ RwUnlock(c)
    <3>1. PICK q \in Seq(Coroutines) : unlock_bh_queue' = unlock_bh_queue \o q
      <4>1. /\ SubSeq(mutex_queue, 1, First(mutex_queue)) \in Seq(Coroutines)
            /\ SubSeq(rwlock_queue, 1, Woken) \in Seq(Coroutines)
        BY SplitElements, WokenType, Zenon DEF TypeOK
      <4> QED BY <2>4, <4>1, Zenon DEF MutexUnlock, RwUnlock, qemu_co_queue_next
    <3>2. U \subseteq U'
      <4>1. unlock_bh_queue \in Seq(Coroutines)
        BY DEF TypeOK
      <4> QED BY <3>1, <4>1, ConcatElements
    <3>3. S' = S
      BY <2>4 DEF MutexUnlock, RwUnlock
    <3> QED BY <3>2, <3>3
  <2> QED BY <2>1, <2>2, <2>3, <2>4 DEF Steps
<1> QED
  BY <1>1, <1>2, WakingKept

\* Every step keeps NoLostWakeup.  Who waits saw the lock taken; who releases it wakes
\* the first waiter, or is not the last reader.
LEMMA WakeupStep ==
  ASSUME TypeOK, TypeOK', Exclusion, Placed, NoLostWakeup, [Next]_vars
  PROVE  NoLostWakeup'
<1> DEFINE Sched == unlock_bh_queue # <<>> => scheduled \/ in_bh
           WM == Waking({"mutex"})
           WR == Waking({"read", "write"})
           Mutex == mutex_queue # <<>> => locked \/ WM # {}
           Rw == rwlock_queue # <<>> => writer \/ reader > 0 \/ WR # {}
           Free(c) == \/ Start(c) \/ IODone(c) \/ YieldsForIO(c) \/ Terminates(c)
                      \/ \E k \in {"mutex", "read", "write"} : Asks(c, k)
<1> USE DEF locks, wake
<1>0. Sched /\ Mutex /\ Rw
  BY DEF NoLostWakeup
<1>1. Sched'
  <2>1. CASE RunsBH \/ BHEnters \/ BHEnds
    BY <1>0, <2>1 DEF RunsBH, BHEnters, BHEnds
  <2>2. ASSUME NEW c \in Coroutines, Free(c) \/ Waits(c) \/ Takes(c)
        PROVE  Sched'
    <3>1. UNCHANGED wake
      BY <2>2 DEF Start, IODone, YieldsForIO, Terminates, Asks, Waits, Takes
    <3> QED BY <1>0, <3>1, SMTT(30)
  <2>3. ASSUME NEW q \in Seq(Coroutines), NEW n \in 0 .. Len(q),
               qemu_co_queue_next(q, n), UNCHANGED in_bh
        PROVE  Sched'
    <3>1. CASE n = 0
      <4>1. SubSeq(q, 1, n) = <<>> /\ unlock_bh_queue \in Seq(Coroutines)
        BY <3>1 DEF TypeOK
      <4>2. unlock_bh_queue' = unlock_bh_queue
        <5>1. unlock_bh_queue \o <<>> = unlock_bh_queue
          BY <4>1
        <5>2. unlock_bh_queue' = unlock_bh_queue \o SubSeq(q, 1, n)
          BY <2>3 DEF qemu_co_queue_next
        <5> QED BY <4>1, <5>1, <5>2, Zenon
      <4>3. scheduled' = (scheduled \/ n > 0)
        BY <2>3 DEF qemu_co_queue_next
      <4>4. scheduled => scheduled'
        BY <4>3, Zenon
      <4> QED BY <1>0, <2>3, <4>2, <4>4
    <3>2. CASE n > 0
      <4>1. scheduled' = (scheduled \/ n > 0)
        BY <2>3 DEF qemu_co_queue_next
      <4>2. scheduled'
        BY <3>2, <4>1, Zenon
      <4> QED BY <4>2
    <3> QED BY <3>1, <3>2
  <2>4. ASSUME NEW c \in Coroutines, MutexUnlock(c) \/ RwUnlock(c)
        PROVE  Sched'
    BY <2>3, <2>4, WokenType DEF MutexUnlock, RwUnlock, TypeOK
  <2>5. CASE UNCHANGED vars
    BY <1>0, <2>5 DEF vars
  <2> HIDE DEF Sched
  <2> QED
    BY <2>1, <2>2, <2>4, <2>5, ZenonT(30) DEF Next, Steps
<1> HIDE DEF Sched
<1>2. ASSUME RunsBH \/ BHEnters \/ BHEnds \/ UNCHANGED vars
      PROVE  Mutex' /\ Rw'
  <2>1. UNCHANGED <<locked, mutex_queue, writer, reader, rwlock_queue>>
    BY <1>2 DEF RunsBH, BHEnters, BHEnds, vars
  <2>2. WM \subseteq WM' /\ WR \subseteq WR'
    BY <1>2, MainKeepsWaking
  <2> HIDE DEF WM, WR
  <2>3. Mutex'
    BY <1>0, <2>1, <2>2
  <2>4. Rw'
    BY <1>0, <2>1, <2>2
  <2> QED BY <2>3, <2>4
<1>3. ASSUME NEW c \in Coroutines, Free(c)
      PROVE  Mutex' /\ Rw'
  <2>1. UNCHANGED <<locked, mutex_queue, writer, reader, rwlock_queue>>
    BY <1>3 DEF Start, IODone, YieldsForIO, Terminates, Asks
  <2>2. c \notin WM /\ c \notin WR
    <3>1. at[c] = "lock" => c \in io
      BY <1>3 DEF Start, IODone, YieldsForIO, Terminates, Asks
    <3>2. c \in io => c \notin Range(stack) \cup Range(unlock_bh_queue)
      BY DEF Placed, Apart
    <3> QED BY <3>1, <3>2, WakingIs
  <2>3. WM \ {c} \subseteq WM' /\ WR \ {c} \subseteq WR'
    BY <1>3, OthersKeepWaking DEF Steps
  <2> HIDE DEF WM, WR
  <2>4. Mutex'
    BY <1>0, <2>1, <2>2, <2>3
  <2>5. Rw'
    BY <1>0, <2>1, <2>2, <2>3
  <2> QED BY <2>4, <2>5
<1>4. ASSUME NEW c \in Coroutines, Steps(c)
      PROVE  /\ WM \ {c} \subseteq WM' /\ WR \ {c} \subseteq WR'
             /\ (c \in WM => at[c] = "lock" /\ want[c] = "mutex")
             /\ (c \in WR => at[c] = "lock" /\ want[c] # "mutex")
  <2>1. WM \ {c} \subseteq WM' /\ WR \ {c} \subseteq WR'
    BY <1>4, OthersKeepWaking
  <2> QED BY <2>1, WakingIs
<1> HIDE DEF WM, WR
<1>5. ASSUME NEW c \in Coroutines, Waits(c) \/ Takes(c)
      PROVE  Mutex' /\ Rw'
  <2>1. Steps(c) /\ at[c] = "lock" /\ want[c] \in {"mutex", "read", "write"}
    BY <1>5 DEF Steps, Waits, Takes, TypeOK
  <2>2. CASE want[c] = "mutex"
    <3>1. locked'
      <4>1. CASE Waits(c)
        <5>1. MustWait("mutex") /\ UNCHANGED locked
          BY <4>1, <2>2 DEF Waits
        <5> QED BY <5>1, SMTT(30) DEF MustWait
      <4>2. CASE Takes(c)
        BY <4>2, <2>2, Zenon DEF Takes
      <4> QED BY <1>5, <4>1, <4>2
    <3>2. UNCHANGED <<writer, reader, rwlock_queue>>
      BY <1>5, <2>2 DEF Waits, Takes, TypeOK
    <3>3. WR \subseteq WR'
      BY <1>4, <2>1, <2>2
    <3>4. Rw'
      BY <1>0, <3>2, <3>3
    <3> QED BY <3>1, <3>4
  <2>3. CASE want[c] # "mutex"
    <3>1. UNCHANGED <<locked, mutex_queue>>
      BY <1>5, <2>3 DEF Waits, Takes, TypeOK
    <3>2. WM \subseteq WM'
      BY <1>4, <2>1, <2>3
    <3>3. Mutex'
      BY <1>0, <3>1, <3>2
    <3>4. writer' \/ reader' > 0
      <4>1. CASE Waits(c)
        <5>1. MustWait(want[c]) /\ UNCHANGED <<writer, reader>>
          BY <4>1 DEF Waits
        <5>2. writer \/ reader > 0
          BY <2>1, <2>3, <5>1, Zenon DEF MustWait
        <5> QED BY <5>1, <5>2, SMTT(30)
      <4>2. CASE Takes(c) /\ want[c] = "write"
        BY <4>2, Zenon DEF Takes
      <4>3. CASE Takes(c) /\ want[c] = "read"
        <5>1. reader' = reader + 1 /\ reader \in Nat
          BY <4>3 DEF Takes, TypeOK
        <5> QED BY <5>1
      <4> QED BY <1>5, <2>1, <2>3, <4>1, <4>2, <4>3
    <3> QED BY <3>3, <3>4, SMTT(30)
  <2> QED BY <2>2, <2>3, SMTT(30)
<1>6. ASSUME NEW c \in Coroutines, MutexUnlock(c)
      PROVE  Mutex' /\ Rw'
  <2>1. Steps(c) /\ at[c] = "held" /\ UNCHANGED <<writer, reader, rwlock_queue>>
    BY <1>6 DEF Steps, MutexUnlock
  <2>2. Rw'
    BY <1>0, <1>4, <2>1
  <2>3. ASSUME mutex_queue' # <<>>
        PROVE  WM' # {}
    <3> DEFINE d == Head(mutex_queue)
               q == SubSeq(mutex_queue, 1, 1)
    <3>1. mutex_queue # <<>> /\ mutex_queue \in Seq(Coroutines)
      BY <1>6, <2>3 DEF MutexUnlock, Rest, First, TypeOK
    <3>2. /\ First(mutex_queue) = 1 /\ d \in Range(mutex_queue) /\ d \in Coroutines
          /\ d \in Range(q)
      BY <3>1, FirstWoken
    <3>3. at[d] = "lock" /\ want[d] = "mutex"
      BY <3>2 DEF Placed, Apart
    <3> HIDE DEF d
    <3>4. at'[d] = "lock" /\ want'[d] \in {"mutex"}
      BY <1>6, <2>1, <3>2, <3>3 DEF MutexUnlock, TypeOK
    <3>5. d \in Range(unlock_bh_queue')
      <4>1. unlock_bh_queue' = unlock_bh_queue \o q
        BY <1>6, <3>2 DEF MutexUnlock, qemu_co_queue_next
      <4>2. unlock_bh_queue \in Seq(Coroutines) /\ q \in Seq(Coroutines)
        BY <3>1 DEF TypeOK
      <4> HIDE DEF q
      <4> QED BY <3>2, <4>1, <4>2, ConcatElements
    <3> QED BY <3>2, <3>4, <3>5, WakingIsNext DEF WM
  <2> QED BY <2>2, <2>3
<1>7. ASSUME NEW c \in Coroutines, RwUnlock(c)
      PROVE  Mutex' /\ Rw'
  <2>1. Steps(c) /\ at[c] = "held" /\ UNCHANGED <<locked, mutex_queue>>
    BY <1>7 DEF Steps, RwUnlock
  <2>2. Mutex'
    BY <1>0, <1>4, <2>1
  <2>3. CASE writer
    <3>1. rwlock_queue' = <<>>
      BY <1>7, <2>3 DEF RwUnlock, Woken, Rest, TypeOK
    <3> QED BY <2>2, <3>1
  <2>4. CASE ~writer
    <3>1. reader # 0 /\ reader \in Nat /\ reader' = reader - 1
      <4>1. c \in Holders("read")
        BY <1>7, <2>4, Zenon DEF RwUnlock, Exclusion, Holders, TypeOK
      <4>2. reader # 0
        BY <4>1, ReaderCount DEF Exclusion
      <4> QED BY <1>7, <2>4, <4>2 DEF RwUnlock, TypeOK
    <3>2. CASE reader # 1
      <4>1. reader' > 0
        BY <3>1, <3>2
      <4> QED BY <2>2, <4>1
    <3>3. ASSUME reader = 1, rwlock_queue' # <<>>
          PROVE  WR' # {}
      <4> DEFINE d == Head(rwlock_queue)
                 q == SubSeq(rwlock_queue, 1, 1)
      <4>1. Woken = First(rwlock_queue)
        BY <2>4, <3>3 DEF Woken
      <4>2. rwlock_queue # <<>> /\ rwlock_queue \in Seq(Coroutines)
        BY <1>7, <3>3, <4>1 DEF RwUnlock, Rest, First, TypeOK
      <4>3. /\ First(rwlock_queue) = 1 /\ d \in Range(rwlock_queue) /\ d \in Coroutines
            /\ d \in Range(q)
        BY <4>2, FirstWoken
      <4>4. at[d] = "lock" /\ want[d] # "mutex"
        BY <4>3 DEF Placed, Apart
      <4> HIDE DEF d
      <4>5. at'[d] = "lock" /\ want'[d] \in {"read", "write"}
        BY <1>7, <2>1, <4>3, <4>4 DEF RwUnlock, TypeOK
      <4>6. d \in Range(unlock_bh_queue')
        <5>1. unlock_bh_queue' = unlock_bh_queue \o q
          BY <1>7, <4>1, <4>3 DEF RwUnlock, qemu_co_queue_next
        <5>2. unlock_bh_queue \in Seq(Coroutines) /\ q \in Seq(Coroutines)
          BY <4>2 DEF TypeOK
        <5> HIDE DEF q
        <5> QED BY <4>3, <5>1, <5>2, ConcatElements
      <4> QED BY <4>3, <4>5, <4>6, WakingIsNext DEF WR
    <3> QED BY <2>2, <3>2, <3>3
  <2> QED BY <2>3, <2>4
<1> HIDE DEF Mutex, Rw
<1>8. Mutex' /\ Rw'
  BY <1>2, <1>3, <1>5, <1>6, <1>7, ZenonT(30) DEF Next, Steps
<1> QED
  BY <1>1, <1>8 DEF Sched, Mutex, Rw, WM, WR, NoLostWakeup

\* A lock that is free and waited for always has somebody on the way who will take it,
\* and the woken are always about to be entered: no wake-up of qemu_co_queue_next is
\* lost, whatever the coroutines do between an unlock and the bottom half.
THEOREM WakeupsNeverLost == Spec => []NoLostWakeup
<1>1. Init => NoLostWakeup
  BY DEF Init, NoLostWakeup
<1> QED
  BY <1>1, WakeupStep, PlacedAlways, TypeAndExclusion, PTL DEF Spec
=============================================================================
