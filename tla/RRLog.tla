-------------------------------- MODULE RRLog --------------------------------
(***************************************************************************)
(* The nondeterminism log of PANDA's record/replay (qemu/rr_log.c,         *)
(* qemu/rr_log_all.h), and the replay queue that reads it.                 *)
(*                                                                         *)
(* A log is a sequence of entries.  An entry carries the kind of the       *)
(* nondeterministic event, the call site that recorded it, the program     *)
(* point it was recorded at, and its value.  A program point is the number *)
(* of guest instructions started so far, and the guest's pc (the code's    *)
(* (pc, secondary) pair is one value here: both only ever serve to tell    *)
(* two points with the same count apart).                                  *)
(*                                                                         *)
(* The replay queue is the stretch head .. pos of the log: the code reads  *)
(* entries from the file in order into a linked list and removes them from *)
(* its head, so pos is how far the file was read and head is the next      *)
(* entry to hand out.  num is rr_num_instr_before_next_interrupt, a        *)
(* uint64_t: the number of instructions the CPU may still execute.         *)
(***************************************************************************)
EXTENDS Integers, Sequences

CONSTANTS
    WordSize,          \* 2^64 in the code
    RR_MAX_QUEUE_LEN   \* 65536 in the code

ASSUME LogAssumption == /\ WordSize \in Nat \ {0, 1}
                        /\ RR_MAX_QUEUE_LEN \in Nat

Word == 0 .. WordSize - 1

RR_log_entry_kind == {"INPUT", "INTERRUPT_REQUEST", "SKIPPED_CALL", "LAST"}

RR_callsite_id == {"none", "MAIN_LOOP_WAIT", "CPU_EXEC_1", "CPU_EXEC_2",
                   "CPU_EXEC_4", "IO_READ", "IO_WRITE", "LAST"}

RR_prog_point == [count : Nat, pc : Nat]

\* The point rr_reset_state leaves behind.
ZeroPoint == [count |-> 0, pc |-> 0]

Entry(kind, site, point, val) ==
    [kind |-> kind, site |-> site, point |-> point, val |-> val]

(***************************************************************************)
(* Reading the log.                                                        *)
(***************************************************************************)

\* The entries at which rr_fill_queue stops: the CPU must not run past them.
Boundary_interrupts(e) == e.kind \in {"LAST", "INTERRUPT_REQUEST"}
Boundary(e) ==
    \/ e.kind \in {"LAST", "INTERRUPT_REQUEST"}
    \/ e.kind = "SKIPPED_CALL" /\ e.site = "MAIN_LOOP_WAIT"

\* rr_fill_queue reads entry i after having read up to pos, and stops there.
StopsAt_full(log, pos, i) == i - pos > RR_MAX_QUEUE_LEN \/ i = Len(log)
StopsAt(log, pos, i) ==
    Boundary(log[i]) \/ i - pos > RR_MAX_QUEUE_LEN \/ i = Len(log)

\* Index of the last entry one call of rr_fill_queue reads.
FillEnd(log, pos) ==
    IF pos < Len(log)
    THEN CHOOSE i \in pos + 1 .. Len(log) :
            /\ StopsAt(log, pos, i)
            /\ \A j \in pos + 1 .. i - 1 : ~StopsAt(log, pos, j)
    ELSE pos

\* a - b in uint64_t arithmetic.
Minus_signed(a, b) == a - b
Minus(a, b) == IF b <= a THEN a - b ELSE a + WordSize - b

IsEmpty(q) == q.head > q.pos

rr_log_is_empty(log, q) == q.pos = Len(log)

\* The countdown a fill that stops at entry i leaves; it is untouched when the
\* file ends without a boundary.
FillCount(log, q, i, point) ==
    IF i = q.pos THEN q.num
    ELSE IF Boundary(log[i]) THEN Minus(log[i].point.count, point.count)
    ELSE IF i - q.pos > RR_MAX_QUEUE_LEN THEN WordSize - 1
    ELSE q.num

rr_fill_queue(log, q, point) ==
    LET i == FillEnd(log, q.pos)
    IN  [head |-> q.head, pos |-> i, num |-> FillCount(log, q, i, point)]

(***************************************************************************)
(* Handing out entries.                                                    *)
(***************************************************************************)

\* current against recorded: "equal", "before" (the code's -1, which it also
\* returns for equal counts at different pcs), or "ahead", which is fatal.
rr_prog_point_compare(current, recorded) ==
    IF current.count < recorded.count THEN "before"
    ELSE IF current.count > recorded.count THEN "ahead"
    ELSE IF \/ current.pc = recorded.pc
            \/ current.pc = 0 /\ current.count = 0 THEN "equal"
    ELSE "before"

\* get_next_entry's refill of an empty queue.
Refilled(log, q, point) ==
    IF IsEmpty(q) THEN rr_fill_queue(log, q, point) ELSE q

\* What get_next_entry does with the head of the (refilled) queue q: "take" it,
\* leave it and answer "none" (NULL), or die because the CPU is "ahead".
NextEntry(log, q, point, kind, site, check_callsite) ==
    IF IsEmpty(q) THEN "none"
    ELSE LET e == log[q.head] IN
         IF e.kind # kind \/ (check_callsite /\ e.site # site) THEN "none"
         ELSE IF e.point = ZeroPoint THEN "take"
         ELSE LET c == rr_prog_point_compare(point, e.point) IN
              IF c = "equal" THEN "take"
              ELSE IF c = "ahead" THEN "ahead" ELSE "none"

Pop(q) == [q EXCEPT !.head = @ + 1]

\* The CPU has reached the end of the log.
rr_replay_finished(log, q, point) ==
    /\ rr_log_is_empty(log, q)
    /\ log[q.head].kind = "LAST"
    /\ point.count >= log[q.head].point.count

(***************************************************************************)
(* Properties of a queue and a log that the specifications use.            *)
(***************************************************************************)

Queues == [head : Nat \ {0}, pos : Nat, num : Word]

\* The queue is a stretch of the log, and only its last entry can be one the
\* CPU must stop at.
QueueOK(log, q) ==
    /\ q \in Queues
    /\ q.pos <= Len(log)
    /\ q.head <= q.pos + 1
    /\ \A i \in q.head .. q.pos - 1 : ~Boundary(log[i])

\* At count c, the countdown is the distance to the last entry read, which is
\* one the CPU must stop at.
CountsDown(log, q, c) ==
    /\ q.pos > 0
    /\ Boundary(log[q.pos])
    /\ c + q.num = log[q.pos].point.count

\* rr_fill_queue never gives up on a queue that has grown too long.
NeverCutOff(log) ==
    \A i \in 0 .. Len(log) : i + RR_MAX_QUEUE_LEN < Len(log) =>
        \E j \in i + 1 .. i + RR_MAX_QUEUE_LEN + 1 : Boundary(log[j])

=============================================================================
