------------------------- MODULE RecordReplayLemmas -------------------------
(***************************************************************************)
(* What the operators of RRLog compute, for every log, and what the pieces *)
(* of RecordReplay that several actions share do to the log, the queue and *)
(* the types, in a state of the inductive invariant.                       *)
(***************************************************************************)
EXTENDS RecordReplay, TLAPS

LOCAL INSTANCE WellFoundedInduction

\* A nonempty set of naturals has a least element.
LEMMA LeastNatural ==
    ASSUME NEW S, S \subseteq Nat, S # {}
    PROVE  \E n \in S : \A m \in S : n <= m
<1>1. PICK n \in S : \A m \in S : <<m, n>> \notin OpToRel(<, Nat)
  BY WFMin, NatLessThanWellFounded, Zenon
<1>2. \A m \in S : ~(m < n)
  BY <1>1, ZenonT(30) DEF OpToRel
<1> QED
  BY <1>2

\* One call of rr_fill_queue on a log that is not exhausted reads at least one
\* entry, reads no further than the file goes, stops at an entry at which it
\* must stop, and at none before it.
LEMMA FillEndProperties ==
    ASSUME NEW lg, NEW pos \in Nat, Len(lg) \in Nat, pos < Len(lg)
    PROVE  /\ FillEnd(lg, pos) \in pos + 1 .. Len(lg)
           /\ StopsAt(lg, pos, FillEnd(lg, pos))
           /\ \A j \in pos + 1 .. FillEnd(lg, pos) - 1 : ~StopsAt(lg, pos, j)
<1> DEFINE Stops == {i \in pos + 1 .. Len(lg) : StopsAt(lg, pos, i)}
<1>1. Stops \subseteq Nat /\ Len(lg) \in Stops
  BY DEF StopsAt
<1>2. PICK i \in Stops : \A j \in Stops : i <= j
  <2> HIDE DEF Stops
  <2> QED BY <1>1, LeastNatural, ZenonT(30)
<1>3. /\ i \in pos + 1 .. Len(lg)
      /\ StopsAt(lg, pos, i)
      /\ \A j \in pos + 1 .. i - 1 : ~StopsAt(lg, pos, j)
  BY <1>2
<1>4. FillEnd(lg, pos) = CHOOSE k \in pos + 1 .. Len(lg) :
                             /\ StopsAt(lg, pos, k)
                             /\ \A j \in pos + 1 .. k - 1 : ~StopsAt(lg, pos, j)
  BY DEF FillEnd
<1> QED
  BY <1>3, <1>4, SMTT(30)

\* uint64_t subtraction stays a uint64_t.
LEMMA MinusType ==
    ASSUME NEW a \in Word, NEW b \in Word
    PROVE  Minus(a, b) \in Word
BY LogAssumption DEF Minus, Word

\* A log as the lemmas below need it: every entry has a count.
Counted(lg) ==
    /\ Len(lg) \in Nat
    /\ \A i \in 1 .. Len(lg) : lg[i].point.count \in Word

\* Filling an empty queue leaves a sound queue that starts where it did and
\* has grown unless the file was exhausted.
LEMMA FillProperties ==
    ASSUME NEW lg, Counted(lg),
           NEW u, QueueOK(lg, u), IsEmpty(u),
           NEW point, point.count \in Word
    PROVE  /\ QueueOK(lg, rr_fill_queue(lg, u, point))
           /\ rr_fill_queue(lg, u, point).head = u.head
           /\ rr_fill_queue(lg, u, point).pos >= u.pos
           /\ rr_fill_queue(lg, u, point).pos = u.pos <=> u.pos = Len(lg)
<1> DEFINE i == FillEnd(lg, u.pos)
           n == FillCount(lg, u, i, point)
           r == [head |-> u.head, pos |-> i, num |-> n]
<1>0. /\ u.head \in Nat \ {0} /\ u.pos \in Nat /\ u.num \in Word
      /\ u.pos <= Len(lg) /\ u.head = u.pos + 1 /\ Len(lg) \in Nat
  BY DEF QueueOK, Queues, IsEmpty, Counted
<1>1. rr_fill_queue(lg, u, point) = r
  BY DEF rr_fill_queue
<1>2. CASE u.pos = Len(lg)
  <2>1. i = u.pos
    BY <1>0, <1>2 DEF FillEnd
  <2>2. n = u.num
    BY <2>1 DEF FillCount
  <2> HIDE DEF i, n
  <2>3. r \in Queues /\ r.head = u.head /\ r.pos = u.pos
    BY <1>0, <2>1, <2>2 DEF Queues
  <2> QED
    BY <1>0, <1>1, <1>2, <2>1, <2>3 DEF QueueOK
<1>3. CASE u.pos < Len(lg)
  <2>1. /\ i \in u.pos + 1 .. Len(lg)
        /\ \A j \in u.pos + 1 .. i - 1 : ~Boundary(lg[j])
    BY <1>0, <1>3, FillEndProperties DEF StopsAt
  <2>2. n \in Word
    <3>1. i \in 1 .. Len(lg)
      BY <1>0, <2>1
    <3>2. Minus(lg[i].point.count, point.count) \in Word
      BY <3>1, MinusType DEF Counted
    <3>3. WordSize - 1 \in Word
      BY LogAssumption DEF Word
    <3> QED
      BY <1>0, <3>2, <3>3 DEF FillCount
  <2> HIDE DEF i, n
  <2>3. r \in Queues /\ r.head = u.head /\ r.pos = i
    BY <1>0, <2>1, <2>2 DEF Queues
  <2>4. QueueOK(lg, r)
    BY <1>0, <2>1, <2>3 DEF QueueOK
  <2> QED
    BY <1>0, <1>1, <1>3, <2>1, <2>3, <2>4
<1> QED
  BY <1>0, <1>2, <1>3

\* When no fill is cut short and the log ends in its end marker, a fill from a
\* point that no unread entry precedes leaves the exact countdown.
LEMMA FillCountsDown ==
    ASSUME NEW lg, Counted(lg), NeverCutOff(lg),
           Len(lg) > 0, Boundary(lg[Len(lg)]),
           NEW u, QueueOK(lg, u), IsEmpty(u),
           NEW point, point.count \in Word,
           \A k \in u.pos + 1 .. Len(lg) : point.count <= lg[k].point.count,
           u.pos = Len(lg) => CountsDown(lg, u, point.count)
    PROVE  CountsDown(lg, rr_fill_queue(lg, u, point), point.count)
<1> DEFINE i == FillEnd(lg, u.pos)
           n == FillCount(lg, u, i, point)
           r == [head |-> u.head, pos |-> i, num |-> n]
<1>0. /\ u.pos \in Nat /\ u.pos <= Len(lg) /\ Len(lg) \in Nat
  BY DEF QueueOK, Queues, Counted
<1>1. rr_fill_queue(lg, u, point) = r
  BY DEF rr_fill_queue
<1>2. CASE u.pos = Len(lg)
  <2>1. i = u.pos
    BY <1>0, <1>2 DEF FillEnd
  <2>2. n = u.num
    BY <2>1 DEF FillCount
  <2> HIDE DEF i, n
  <2> QED
    BY <1>1, <1>2, <2>1, <2>2 DEF CountsDown
<1>3. CASE u.pos < Len(lg)
  <2>1. /\ i \in u.pos + 1 .. Len(lg)
        /\ StopsAt(lg, u.pos, i)
        /\ \A j \in u.pos + 1 .. i - 1 : ~StopsAt(lg, u.pos, j)
    BY <1>0, <1>3, FillEndProperties
  <2>2. Boundary(lg[i])
    <3>1. SUFFICES ASSUME i - u.pos > RR_MAX_QUEUE_LEN PROVE Boundary(lg[i])
      BY <2>1 DEF StopsAt
    <3> HIDE DEF i
    <3>2. u.pos + RR_MAX_QUEUE_LEN < Len(lg) /\ u.pos \in 0 .. Len(lg)
      BY <1>0, <1>3, <2>1, <3>1, LogAssumption
    <3>3. PICK j \in u.pos + 1 .. u.pos + RR_MAX_QUEUE_LEN + 1 : Boundary(lg[j])
      BY <3>2 DEF NeverCutOff
    <3>4. j \notin u.pos + 1 .. i - 1
      BY <2>1, <3>3 DEF StopsAt
    <3>5. u.pos \in Nat /\ i \in Nat /\ RR_MAX_QUEUE_LEN \in Nat
      BY <1>0, <2>1, <3>2, LogAssumption
    <3>6. j = i
      BY <3>1, <3>4, <3>5, SMTT(30)
    <3> QED
      BY <3>3, <3>6
  <2>3. n = lg[i].point.count - point.count
    <3>1. point.count <= lg[i].point.count
      BY <2>1
    <3> QED
      BY <1>0, <2>1, <2>2, <3>1 DEF FillCount, Minus
  <2>4. lg[i].point.count \in Nat /\ point.count \in Nat
    BY <1>0, <2>1 DEF Counted, Word
  <2> HIDE DEF i, n
  <2> QED
    BY <1>0, <1>1, <2>1, <2>2, <2>3, <2>4, SMTT(30) DEF CountsDown
<1> QED
  BY <1>0, <1>2, <1>3

(***************************************************************************)
(* Facts about the queue in a state of the invariant.                      *)
(***************************************************************************)

\* The program's length is a number.
LEMMA ProgramLength == Len(Program) \in Nat
BY GuestAssumption

\* The log of a reachable state has counts that are words.
LEMMA LogCounted == IInv => Counted(log)
<1> SUFFICES ASSUME IInv PROVE Counted(log)
  OBVIOUS
<1>1. Len(log) \in Nat /\ \A i \in 1 .. Len(log) : log[i] \in Entries
  BY DEF IInv, TypeOK
<1>2. Len(Program) \in Nat /\ WordSize \in Nat /\ WordSize > Len(Program) + 1
  BY GuestAssumption, LogAssumption
<1>3. \A i \in 1 .. Len(log) : log[i].point.count \in Word
  BY <1>1, <1>2, SMTT(30) DEF IInv, LogInv, Entries, RR_prog_point, Word
<1> QED
  BY <1>1, <1>3 DEF Counted

\* Setting the program point keeps the queue sound.
LEMMA AdvancedOK ==
    ASSUME IInv, NEW c \in rr_prog_point.count .. Len(Program)
    PROVE  /\ QueueOK(log, Advanced(c))
           /\ Advanced(c).head = q.head /\ Advanced(c).pos = q.pos
           /\ Advanced(c).num = Minus(q.num, c - rr_prog_point.count)
<1>1. Len(Program) \in Nat /\ rr_prog_point.count \in Nat /\ q \in Queues
  BY GuestAssumption DEF IInv, TypeOK, RR_prog_point
<1>2. c - rr_prog_point.count \in Word
  BY <1>1, GuestAssumption, LogAssumption, SMTT(30) DEF Word
<1>3. Minus(q.num, c - rr_prog_point.count) \in Word
  BY <1>1, <1>2, MinusType DEF Queues
<1>4. /\ Advanced(c) \in Queues
      /\ Advanced(c).head = q.head /\ Advanced(c).pos = q.pos
      /\ Advanced(c).num = Minus(q.num, c - rr_prog_point.count)
  BY <1>1, <1>3 DEF Advanced, Queues
<1> QED
  BY <1>4 DEF IInv, QueueInv, QueueOK

\* The guest's own count is one to which the point may be set.
LEMMA HereOK ==
    ASSUME IInv
    PROVE  /\ icount \in rr_prog_point.count .. Len(Program)
           /\ Here \in RR_prog_point /\ Here.count = icount /\ Here.count \in Word
<1> QED
  BY GuestAssumption, LogAssumption DEF IInv, TypeOK, CpuInv, Here, RR_prog_point, Word

\* The queue get_next_entry looks at is sound, starts where the queue did, and
\* in replay is not empty.
LEMMA QueueLemma ==
    ASSUME IInv
    PROVE  /\ QueueOK(log, Queue)
           /\ Queue.head = q.head /\ Queue.pos >= q.pos
           /\ rr_in_replay => ~IsEmpty(Queue)
<1> DEFINE a == Advanced(icount)
<1>1. QueueOK(log, a) /\ a.head = q.head /\ a.pos = q.pos
  BY AdvancedOK, HereOK
<1>2. Len(log) \in Nat /\ q.head \in Nat /\ q.pos \in Nat /\ q.pos <= Len(log)
  BY DEF IInv, QueueInv, QueueOK, Queues, TypeOK
<1>3. rr_in_replay => q.head <= Len(log)
  BY DEF IInv, QueueInv
<1> HIDE DEF a
<1>4. CASE IsEmpty(a)
  <2>1. Queue = rr_fill_queue(log, a, Here)
    BY <1>4 DEF Queue, Refilled, a
  <2>2. /\ QueueOK(log, Queue) /\ Queue.head = a.head /\ Queue.pos >= a.pos
        /\ Queue.pos = a.pos <=> a.pos = Len(log)
    BY <2>1, <1>1, <1>4, LogCounted, HereOK, FillProperties, SMTT(30)
  <2>3. Queue.pos \in Nat /\ a.head <= a.pos + 1
    BY <1>1, <2>2 DEF QueueOK, Queues
  <2> QED
    BY <1>1, <1>2, <1>3, <1>4, <2>2, <2>3 DEF IsEmpty
<1>5. CASE ~IsEmpty(a)
  <2>1. Queue = a
    BY <1>5 DEF Queue, Refilled, a
  <2> QED
    BY <1>1, <1>2, <1>5, <2>1
<1> QED
  BY <1>4, <1>5

\* An entry that get_next_entry hands out has the kind asked for; it is not
\* the end marker, so the queue is sound without it and not at the log's end.
\* A boundary is the last entry of the queue.
LEMMA TakeLemma ==
    ASSUME IInv, rr_in_replay,
           NEW kind \in RR_log_entry_kind \ {"LAST"}, NEW site, NEW check,
           get_next_entry(kind, site, check) = "take"
    PROVE  /\ q.head \in 1 .. Len(log) - 1 /\ Queue.head = q.head
           /\ log[q.head] \in Entries /\ log[q.head].kind = kind
           /\ QueueOK(log, Pop(Queue))
           /\ Pop(Queue).head = q.head + 1 /\ Pop(Queue).pos = Queue.pos
           /\ Pop(Queue).num = Queue.num
           /\ kind = "INTERRUPT_REQUEST" => IsEmpty(Pop(Queue))
<1>1. /\ QueueOK(log, Queue) /\ Queue.head = q.head /\ ~IsEmpty(Queue)
      /\ Queue \in Queues
  BY QueueLemma DEF QueueOK
<1>2. log[q.head].kind = kind
  BY <1>1 DEF get_next_entry, NextEntry
<1>3. Len(log) \in Nat /\ Len(log) > 0 /\ log[Len(log)].kind = "LAST"
      /\ \A i \in 1 .. Len(log) : log[i] \in Entries
  BY DEF IInv, TypeOK, LogInv, rr_in_replay, rr_in_record
<1>4. q.head \in 1 .. Len(log) - 1
  <2>1. q.head \in 1 .. Len(log)
    BY <1>1, <1>3 DEF QueueOK, Queues, IsEmpty
  <2> QED
    BY <1>2, <1>3, <2>1
<1>5. /\ Pop(Queue) \in Queues
      /\ Pop(Queue).head = q.head + 1 /\ Pop(Queue).pos = Queue.pos
      /\ Pop(Queue).num = Queue.num
  BY <1>1 DEF Pop, Queues
<1>6. QueueOK(log, Pop(Queue))
  BY <1>1, <1>4, <1>5, SMTT(30) DEF QueueOK, Queues, IsEmpty
<1>7. ASSUME kind = "INTERRUPT_REQUEST" PROVE IsEmpty(Pop(Queue))
  <2>1. Boundary(log[q.head])
    BY <1>2, <1>7 DEF Boundary
  <2>2. q.head \notin Queue.head .. Queue.pos - 1
    BY <1>1, <2>1, SMTT(30) DEF QueueOK
  <2> QED
    BY <1>1, <1>4, <1>5, <2>2 DEF Queues, IsEmpty
<1> QED
  BY <1>1, <1>2, <1>3, <1>4, <1>5, <1>6, <1>7

\* The refill after the last entry was handed out.
LEMMA RefillLemma ==
    ASSUME IInv, rr_in_replay,
           NEW kind \in RR_log_entry_kind \ {"LAST"}, NEW site, NEW check,
           get_next_entry(kind, site, check) = "take",
           IsEmpty(Pop(Queue))
    PROVE  /\ QueueOK(log, rr_fill_queue(log, Pop(Queue), Here))
           /\ rr_fill_queue(log, Pop(Queue), Here).head = q.head + 1
           /\ rr_fill_queue(log, Pop(Queue), Here).pos >= Queue.pos
<1> QED
  BY TakeLemma, LogCounted, HereOK, FillProperties, SMTT(30)

(***************************************************************************)
(* What the parts of the invariant depend on.                              *)
(***************************************************************************)

\* Steps that leave the log alone, stay in their mode and do not move the
\* program point back.
LEMMA LogFrame ==
    ASSUME IInv, UNCHANGED log, UNCHANGED rr_mode,
           rr_prog_point'.count \in Nat,
           rr_in_record => rr_prog_point'.count >= rr_prog_point.count
    PROVE  LogInv'
<1>1. LogOrdered'
  BY SMTT(30) DEF IInv, LogInv, LogOrdered
<1>2. rr_prog_point.count \in Nat /\ \A i \in 1 .. Len(log) : log[i].point.count \in Nat
  <2>1. \A i \in 1 .. Len(log) : log[i] \in Entries
    BY DEF IInv, TypeOK
  <2> QED
    BY <2>1, ZenonT(30) DEF IInv, TypeOK, Entries, RR_prog_point
<1>3. rr_in_record' => \A i \in 1 .. Len(log') :
          log'[i].point.count <= rr_prog_point'.count /\ log'[i].kind # "LAST"
  BY <1>2 DEF IInv, LogInv, rr_in_record
<1> QED
  BY <1>1, <1>3, SMTT(30) DEF IInv, LogInv, rr_in_record

\* Recording an entry at the program point.
LEMMA LogAppend ==
    ASSUME IInv, rr_in_record,
           NEW kind \in RR_log_entry_kind, NEW site \in RR_callsite_id,
           NEW p \in RR_prog_point, NEW val \in Nat,
           rr_write_item(kind, site, p, val),
           p.count \in rr_prog_point.count .. Len(Program),
           kind \in {"INPUT", "SKIPPED_CALL"} => val \in Data,
           \/ kind = "LAST" /\ ~rr_in_record'
           \/ kind # "LAST" /\ rr_in_record' /\ rr_prog_point'.count = p.count
    PROVE  /\ log' \in Seq(Entries)
           /\ LogInv'
           /\ \A r : QueueOK(log, r) => QueueOK(log', r)
<1> DEFINE e == Entry(kind, site, p, val)
<1>1. /\ e \in Entries /\ e.kind = kind /\ e.point = p /\ e.val = val
  BY DEF Entry, Entries
<1>2. log \in Seq(Entries) /\ log' = Append(log, e)
  BY DEF IInv, TypeOK, rr_write_item
<1> HIDE DEF e
<1>3. /\ log' \in Seq(Entries) /\ Len(log) \in Nat /\ Len(log') = Len(log) + 1
      /\ \A i \in 1 .. Len(log) : log'[i] = log[i]
      /\ log'[Len(log')] = e
  BY <1>1, <1>2, SMTT(30)
<1>4. /\ p.count \in Nat /\ rr_prog_point.count \in Nat
      /\ \A i \in 1 .. Len(log) : log[i].point.count \in Nat
  <2>1. \A i \in 1 .. Len(log) : log[i] \in Entries
    BY <1>2
  <2> QED
    BY <2>1, ZenonT(30) DEF IInv, TypeOK, Entries, RR_prog_point
<1>5. \A i \in 1 .. Len(log) :
          log[i].point.count <= rr_prog_point.count /\ log[i].kind # "LAST"
  BY DEF IInv, LogInv
<1>6. LogOrdered'
  <2> SUFFICES ASSUME NEW i \in 1 .. Len(log'), NEW j \in 1 .. Len(log'), i < j
               PROVE  /\ log'[i].point.count <= log'[j].point.count
                      /\ log'[i].kind # "LAST"
    BY DEF LogOrdered
  <2>1. i \in 1 .. Len(log) /\ log'[i] = log[i] /\ log[i].kind # "LAST"
    BY <1>3, <1>5, SMTT(30)
  <2>2. CASE j \in 1 .. Len(log)
    BY <2>1, <2>2, <1>3, SMTT(30) DEF IInv, LogInv, LogOrdered
  <2>3. CASE j = Len(log')
    BY <2>1, <2>3, <1>1, <1>3, <1>4, <1>5, SMTT(30)
  <2>4. Len(log) \in Nat /\ Len(log') = Len(log) + 1
    BY <1>3
  <2>5. j \in 1 .. Len(log) \/ j = Len(log')
    BY <2>4
  <2> QED
    BY <2>2, <2>3, <2>5
<1>7. \A i \in 1 .. Len(log') :
          /\ log'[i].point.count <= Len(Program)
          /\ log'[i].kind \in {"INPUT", "SKIPPED_CALL"} => log'[i].val \in Data
  <2> SUFFICES ASSUME NEW i \in 1 .. Len(log')
               PROVE  /\ log'[i].point.count <= Len(Program)
                      /\ log'[i].kind \in {"INPUT", "SKIPPED_CALL"} => log'[i].val \in Data
    OBVIOUS
  <2>1. CASE i \in 1 .. Len(log)
    BY <2>1, <1>3, SMTT(30) DEF IInv, LogInv
  <2>2. CASE i = Len(log')
    BY <2>2, <1>1, <1>3, SMTT(30)
  <2> QED
    BY <1>3, <2>1, <2>2
<1>8. rr_in_record' => \A i \in 1 .. Len(log') :
          log'[i].point.count <= rr_prog_point'.count /\ log'[i].kind # "LAST"
  BY <1>1, <1>3, <1>4, <1>5, SMTT(30)
<1>9. ~rr_in_record' => Len(log') > 0 /\ log'[Len(log')].kind = "LAST"
  BY <1>1, <1>3
<1>10. \A r : QueueOK(log, r) => QueueOK(log', r)
  <2> SUFFICES ASSUME NEW r, QueueOK(log, r) PROVE QueueOK(log', r)
    OBVIOUS
  <2>1. r \in Queues /\ r.pos <= Len(log) /\ r.head <= r.pos + 1
    BY DEF QueueOK
  <2>2. \A i \in r.head .. r.pos - 1 : log'[i] = log[i] /\ ~Boundary(log[i])
    BY <1>3, <2>1, SMTT(30) DEF QueueOK, Queues
  <2>3. r.pos <= Len(log')
    BY <1>3, <2>1, SMTT(30) DEF Queues
  <2>4. ASSUME NEW i \in r.head .. r.pos - 1 PROVE ~Boundary(log'[i])
    <3>1. log'[i] = log[i] /\ ~Boundary(log[i])
      BY <2>2
    <3> QED
      BY <3>1, Zenon
  <2> QED
    BY <2>1, <2>3, <2>4, SMTT(30) DEF QueueOK
<1> QED
  BY <1>3, <1>6, <1>7, <1>8, <1>9, <1>10 DEF LogInv

\* Steps of a replay, and steps that leave the log alone.
LEMMA QueueFrame ==
    ASSUME UNCHANGED log, QueueOK(log, q'), rr_in_replay' => q'.head <= Len(log)
    PROVE  QueueInv'
BY DEF QueueInv, QueueOK

\* The guest's history grows by a well-typed event.
LEMMA SeesType ==
    ASSUME TypeOK, icount' \in Nat, eip' \in Nat,
           NEW k \in Events, NEW v \in Data, Sees(k, v)
    PROVE  trace' \in Seq(Events \X Nat \X Nat \X Data)
<1>1. <<k, icount', eip', v>> \in Events \X Nat \X Nat \X Data
  OBVIOUS
<1> QED
  BY <1>1 DEF TypeOK, Sees

(***************************************************************************)
(* The pieces that several actions share.                                  *)
(***************************************************************************)

\* Setting the program point to a count the program can reach.
LEMMA SetPoint ==
    ASSUME IInv, NEW c \in rr_prog_point.count .. Len(Program), q' = Advanced(c),
           UNCHANGED log, UNCHANGED rr_mode
    PROVE  q' \in Queues /\ QueueInv'
<1>1. QueueOK(log, q') /\ q'.head = q.head
  BY AdvancedOK
<1>2. rr_in_replay' => q'.head <= Len(log)
  BY <1>1 DEF IInv, QueueInv, rr_in_replay
<1> QED
  BY <1>1, <1>2, QueueFrame DEF QueueOK

\* Looking at the queue without taking anything.
LEMMA PeekQueue ==
    ASSUME IInv, q' = Queue, UNCHANGED log, UNCHANGED rr_mode
    PROVE  q' \in Queues /\ QueueInv'
<1>1. QueueOK(log, q') /\ q'.head = q.head
  BY QueueLemma
<1>2. rr_in_replay' => q'.head <= Len(log)
  BY <1>1 DEF IInv, QueueInv, rr_in_replay
<1> QED
  BY <1>1, <1>2, QueueFrame DEF QueueOK

\* Replaying a DMA write.
LEMMA SkippedCall ==
    ASSUME IInv, rr_in_replay, NEW site, ReplaySkippedCall(site),
           UNCHANGED log, UNCHANGED rr_mode
    PROVE  /\ q' \in Queues /\ QueueInv'
           /\ mem' \in Data /\ trace' \in Seq(Events \X Nat \X Nat \X Data)
<1>1. get_next_entry("SKIPPED_CALL", site, FALSE) = "take"
  BY ZenonT(30) DEF ReplaySkippedCall
<1>2. /\ q.head \in 1 .. Len(log) - 1 /\ Queue.head = q.head
      /\ log[q.head].kind = "SKIPPED_CALL"
      /\ QueueOK(log, Pop(Queue)) /\ Pop(Queue).head = q.head + 1
  BY <1>1, TakeLemma, ZenonT(30) DEF RR_log_entry_kind
<1>3. Len(log) \in Nat
  BY DEF IInv, TypeOK
<1>4. QueueOK(log, q') /\ q'.head = q.head + 1
  <2>1. CASE site = "MAIN_LOOP_WAIT" /\ IsEmpty(Pop(Queue))
    <3>1. q' = rr_fill_queue(log, Pop(Queue), Here)
      BY <2>1 DEF ReplaySkippedCall
    <3> QED
      BY <1>1, <2>1, <3>1, RefillLemma, ZenonT(30) DEF RR_log_entry_kind
  <2>2. CASE ~(site = "MAIN_LOOP_WAIT" /\ IsEmpty(Pop(Queue)))
    BY <1>2, <2>2 DEF ReplaySkippedCall
  <2> QED
    BY <2>1, <2>2
<1>5. QueueInv'
  BY <1>2, <1>3, <1>4, QueueFrame
<1>6. mem' \in Data
  BY <1>2, <1>3 DEF ReplaySkippedCall, IInv, LogInv
<1>7. trace' \in Seq(Events \X Nat \X Nat \X Data)
  <2>1. "dma" \in Events /\ Sees("dma", mem') /\ icount' \in Nat /\ eip' \in Nat /\ TypeOK
    BY GuestAssumption, SMTT(30) DEF Events, ReplaySkippedCall, IInv, TypeOK
  <2> QED
    BY <1>6, <2>1, SeesType, SMTT(30)
<1> QED
  BY <1>4, <1>5, <1>6, <1>7, SMTT(30) DEF QueueOK

\* Reading the interrupt request.
LEMMA InterruptRequest ==
    ASSUME IInv, NEW site \in RR_callsite_id, rr_interrupt_request(site),
           UNCHANGED rr_mode
    PROVE  /\ log' \in Seq(Entries) /\ q' \in Queues
           /\ rr_prog_point' \in RR_prog_point /\ rr_prog_point'.count = icount
           /\ rr_skipped_callsite_location' = site
           /\ interrupt_request' \in BOOLEAN
           /\ LogInv' /\ QueueInv'
<1>1. /\ rr_prog_point' = Here /\ Here \in RR_prog_point /\ Here.count = icount
      /\ rr_skipped_callsite_location' = site
      /\ icount \in rr_prog_point.count .. Len(Program)
      /\ icount \in Nat /\ rr_prog_point.count \in Nat
  BY HereOK, GuestAssumption DEF rr_interrupt_request, IInv, TypeOK, RR_prog_point
<1>2. ASSUME UNCHANGED log PROVE log' \in Seq(Entries) /\ LogInv'
  BY <1>1, <1>2, LogFrame, SMTT(30) DEF IInv, TypeOK
<1>3. CASE rr_in_record /\ interrupt_request
  <2>1. /\ rr_write_item("INTERRUPT_REQUEST", site, Here, 1) /\ q' = Advanced(icount)
        /\ UNCHANGED interrupt_request
    BY <1>3 DEF rr_interrupt_request, rr_in_record, rr_in_replay
  <2>2. /\ log' \in Seq(Entries) /\ LogInv'
        /\ \A r : QueueOK(log, r) => QueueOK(log', r)
    BY <1>1, <1>3, <2>1, LogAppend, SMTT(30) DEF RR_log_entry_kind, rr_in_record
  <2>3. QueueOK(log', q')
    BY <1>1, <2>1, <2>2, AdvancedOK, SMTT(30)
  <2> QED
    BY <1>1, <1>3, <2>1, <2>2, <2>3, SMTT(30)
    DEF QueueInv, QueueOK, rr_in_record, rr_in_replay, IInv, TypeOK
<1>4. CASE rr_in_record /\ ~interrupt_request
  <2>1. UNCHANGED log /\ UNCHANGED interrupt_request /\ q' = Advanced(icount)
    BY <1>4 DEF rr_interrupt_request, rr_in_record, rr_in_replay
  <2> QED
    BY <1>1, <1>2, <2>1, SetPoint, SMTT(30) DEF IInv, TypeOK
<1>5. CASE /\ rr_in_replay /\ get_next_entry("INTERRUPT_REQUEST", site, TRUE) = "take"
           /\ IsEmpty(Pop(Queue)) /\ q' = rr_fill_queue(log, Pop(Queue), Here)
           /\ interrupt_request' = TRUE /\ UNCHANGED log
  <2>0. Len(log) \in Nat
    BY SMTT(30) DEF IInv, TypeOK
  <2>1. q.head \in 1 .. Len(log) - 1
    BY <1>5, TakeLemma, ZenonT(30) DEF RR_log_entry_kind
  <2>2. QueueOK(log, q') /\ q'.head = q.head + 1
    BY <1>5, RefillLemma, ZenonT(30) DEF RR_log_entry_kind
  <2>3. QueueInv'
    BY <1>5, <2>0, <2>1, <2>2, QueueFrame
  <2> QED
    BY <1>1, <1>2, <1>5, <2>2, <2>3, SMTT(30) DEF QueueOK
<1>6. CASE q' = Queue /\ interrupt_request' = FALSE /\ UNCHANGED log
  BY <1>1, <1>2, <1>6, PeekQueue, ZenonT(30)
<1> QED
  BY <1>3, <1>4, <1>5, <1>6, ZenonT(30) DEF rr_interrupt_request

\* The value of a device access.
LEMMA DeviceValueLemma ==
    ASSUME IInv, cpu = "device", DeviceValue,
           UNCHANGED <<rr_mode, rr_prog_point>>
    PROVE  /\ log' \in Seq(Entries) /\ q' \in Queues /\ acc' \in Data
           /\ LogInv' /\ QueueInv'
<1> DEFINE site == rr_skipped_callsite_location
<1>1. /\ site \in RR_callsite_id
      /\ rr_prog_point \in RR_prog_point
      /\ rr_prog_point.count \in Nat /\ Len(Program) \in Nat
      /\ rr_prog_point.count \in rr_prog_point.count .. Len(Program)
  BY GuestAssumption DEF IInv, TypeOK, CpuInv, RR_prog_point
<1>2. rr_in_record \/ rr_in_replay
  BY DEF IInv, TypeOK, CpuInv, rr_in_record, rr_in_replay
<1>3. ASSUME UNCHANGED log PROVE log' \in Seq(Entries) /\ LogInv'
  BY <1>1, <1>3, LogFrame, SMTT(30) DEF IInv, TypeOK
<1>4. CASE UNCHANGED <<acc, log>> /\ q' = IF rr_in_replay THEN Queue ELSE q
  <2>1. q' \in Queues /\ QueueInv'
    <3>1. CASE rr_in_replay
      BY <1>4, <3>1, PeekQueue, SMTT(30)
    <3>2. CASE ~rr_in_replay
      BY <1>4, <3>2, QueueFrame, SMTT(30) DEF IInv, QueueInv, TypeOK, rr_in_replay
    <3> QED
      BY <3>1, <3>2
  <2> QED
    BY <1>3, <1>4, <2>1 DEF IInv, TypeOK
<1>5. CASE /\ rr_in_record /\ \E v \in Data : acc' = v
           /\ rr_write_item("INPUT", site, rr_prog_point, acc') /\ UNCHANGED q
  <2>1. acc' \in Data /\ acc' \in Nat
    BY <1>5, GuestAssumption
  <2>2. /\ log' \in Seq(Entries) /\ LogInv'
        /\ \A r : QueueOK(log, r) => QueueOK(log', r)
    BY <1>1, <1>5, <2>1, LogAppend DEF RR_log_entry_kind, rr_in_record
  <2> QED
    BY <1>5, <2>1, <2>2, ZenonT(30)
    DEF IInv, TypeOK, QueueInv, QueueOK, rr_in_record, rr_in_replay
<1>6. CASE /\ rr_in_replay /\ get_next_entry("INPUT", site, FALSE) = "take"
           /\ acc' = log[Queue.head].val /\ q' = Pop(Queue) /\ UNCHANGED log
  <2>0. Len(log) \in Nat
    BY SMTT(30) DEF IInv, TypeOK
  <2>1. /\ q.head \in 1 .. Len(log) - 1 /\ Queue.head = q.head
        /\ log[q.head].kind = "INPUT" /\ QueueOK(log, q') /\ q'.head = q.head + 1
    BY <1>6, TakeLemma, ZenonT(30) DEF RR_log_entry_kind
  <2>2. QueueInv'
    BY <1>6, <2>0, <2>1, QueueFrame, SMTT(30)
  <2>3. acc' \in Data
    BY <1>6, <2>0, <2>1 DEF IInv, LogInv
  <2> QED
    BY <1>3, <1>6, <2>1, <2>2, <2>3 DEF QueueOK
<1> QED
  BY <1>4, <1>5, <1>6, ZenonT(30) DEF DeviceValue

=============================================================================
