----------------------- MODULE RecordReplayTimeProofs -----------------------
(***************************************************************************)
(* A replay stops in time (Theorem GuestStopsInTime), provided its log     *)
(* never makes rr_fill_queue give up: then the countdown to the next       *)
(* boundary is exact, and no block runs past an entry of the log.          *)
(***************************************************************************)
EXTENDS RecordReplayProofs

(***************************************************************************)
(* Stopping in time.  The facts below are about states of a replay whose   *)
(* log never makes rr_fill_queue give up.                                  *)
(***************************************************************************)

\* Counts of entries of the log, and their order.
LEMMA LogMonotone ==
    ASSUME IInv, NEW i \in 1 .. Len(log), NEW j \in 1 .. Len(log), i <= j
    PROVE  /\ log[i].point.count \in Nat /\ log[j].point.count \in Nat
           /\ log[i].point.count <= log[j].point.count
<1>1. log[i] \in Entries /\ log[j] \in Entries
  BY DEF IInv, TypeOK
<1>2. log[i].point.count \in Nat /\ log[j].point.count \in Nat
  BY <1>1, SMTT(30) DEF Entries, RR_prog_point
<1>3. i < j => log[i].point.count <= log[j].point.count
  BY DEF IInv, LogInv, LogOrdered
<1> QED
  BY <1>2, <1>3

\* Setting the point to a count not beyond the boundary keeps the countdown.
LEMMA AdvancedCountsDown ==
    ASSUME IInv, CountsDown(log, q, rr_prog_point.count),
           NEW c \in rr_prog_point.count .. Len(Program),
           c <= log[q.pos].point.count
    PROVE  CountsDown(log, Advanced(c), c)
<1>1. /\ q.pos \in Nat /\ q.num \in Nat /\ rr_prog_point.count \in Nat /\ c \in Nat
      /\ q.pos > 0 /\ q.pos <= Len(log) /\ Len(log) \in Nat
  BY LogAssumption, ProgramLength, SMTT(30)
  DEF IInv, TypeOK, QueueInv, QueueOK, Queues, Word, RR_prog_point, CountsDown
<1>2. /\ Advanced(c).pos = q.pos
      /\ Advanced(c).num = Minus(q.num, c - rr_prog_point.count)
  BY AdvancedOK
<1>3. log[q.pos].point.count \in Nat
  BY <1>1, LogMonotone
<1> QED
  BY <1>1, <1>2, <1>3, SMTT(30) DEF CountsDown, Minus

\* An entry further down the log is a later stop.
LEMMA LaterStop ==
    ASSUME IInv, NEW r, QueueOK(log, r), r.pos >= q.pos, q.pos > 0
    PROVE  /\ log[q.pos].point.count \in Nat /\ log[r.pos].point.count \in Nat
           /\ log[q.pos].point.count <= log[r.pos].point.count
<1>1. /\ q.pos \in Nat /\ r.pos \in Nat /\ r.pos <= Len(log) /\ Len(log) \in Nat
  BY DEF IInv, TypeOK, QueueOK, Queues
<1> QED
  BY <1>1, LogMonotone, SMTT(30)

\* A replay in good order: what StopsInTime says of every stage.
InTime ==
    /\ IInv /\ rr_in_replay /\ NeverCutOff(log)
    /\ CountsDown(log, q, rr_prog_point.count)
    /\ icount <= log[q.pos].point.count

\* Filling a queue that has come to its end.
LEMMA FillInTime ==
    ASSUME InTime, NEW r, QueueOK(log, r), IsEmpty(r), r.pos >= q.pos,
           CountsDown(log, r, icount)
    PROVE  CountsDown(log, rr_fill_queue(log, r, Here), icount)
<1>1. IInv /\ NeverCutOff(log) /\ q.pos > 0
  BY DEF InTime, CountsDown
<1>2. /\ Len(log) \in Nat /\ Len(log) > 0 /\ Boundary(log[Len(log)])
      /\ q.pos \in Nat /\ r.pos \in Nat /\ icount \in Nat
  BY ProgramLength, SMTT(30)
     DEF InTime, IInv, TypeOK, LogInv, rr_in_record, rr_in_replay, Boundary,
     QueueOK, Queues
<1>3. Here.count = icount /\ Here.count \in Word
  BY <1>1, HereOK
<1>4. \A k \in r.pos + 1 .. Len(log) : Here.count <= log[k].point.count
  <2> TAKE k \in r.pos + 1 .. Len(log)
  <2>1. q.pos \in 1 .. Len(log) /\ k \in 1 .. Len(log) /\ q.pos <= k
    BY <1>1, <1>2
  <2>2. /\ log[q.pos].point.count \in Nat /\ log[k].point.count \in Nat
        /\ log[q.pos].point.count <= log[k].point.count
    BY <1>1, <2>1, LogMonotone, SMTT(30)
  <2> QED
    BY <1>2, <1>3, <2>2, SMTT(30) DEF InTime
<1>5. CountsDown(log, rr_fill_queue(log, r, Here), Here.count)
  BY <1>1, <1>2, <1>3, <1>4, LogCounted, FillCountsDown, SMTT(30)
<1> QED
  BY <1>3, <1>5

\* The queue get_next_entry looks at counts down to a stop not before ours.
LEMMA QueueInTime ==
    ASSUME InTime
    PROVE  /\ CountsDown(log, Queue, icount)
           /\ log[q.pos].point.count <= log[Queue.pos].point.count
           /\ icount <= log[Queue.pos].point.count
<1> DEFINE a == Advanced(icount)
<1>1. IInv /\ icount \in rr_prog_point.count .. Len(Program) /\ icount \in Nat
  BY HereOK, ProgramLength, SMTT(30) DEF InTime, IInv, TypeOK
<1>2. QueueOK(log, a) /\ a.pos = q.pos
  BY <1>1, AdvancedOK
<1>3. CountsDown(log, a, icount)
  BY <1>1, AdvancedCountsDown DEF InTime
<1>4. CountsDown(log, Queue, icount)
  <2>1. CASE IsEmpty(a)
    <3>1. Queue = rr_fill_queue(log, a, Here)
      BY <2>1 DEF Queue, Refilled
    <3>2. a.pos >= q.pos
      BY <1>1, <1>2 DEF QueueOK, Queues
    <3> HIDE DEF a
    <3> QED
      BY <1>2, <1>3, <2>1, <3>1, <3>2, FillInTime
  <2>2. CASE ~IsEmpty(a)
    BY <1>3, <2>2, SMTT(30) DEF Queue, Refilled
  <2> QED
    BY <2>1, <2>2
<1>5. /\ log[q.pos].point.count \in Nat /\ log[Queue.pos].point.count \in Nat
      /\ log[q.pos].point.count <= log[Queue.pos].point.count
  BY <1>1, QueueLemma, LaterStop DEF InTime, CountsDown
<1> QED
  BY <1>1, <1>4, <1>5 DEF InTime

\* A queue with a stop at or after ours that is exact at the guest's count.
Later(r) ==
    /\ CountsDown(log, r, icount)
    /\ log[q.pos].point.count \in Nat /\ log[r.pos].point.count \in Nat
    /\ log[q.pos].point.count <= log[r.pos].point.count

\* Handing out an entry, and the refill that may follow.
LEMMA TakenInTime ==
    ASSUME InTime, NEW kind \in RR_log_entry_kind \ {"LAST"}, NEW site, NEW check,
           get_next_entry(kind, site, check) = "take"
    PROVE  /\ Later(Pop(Queue))
           /\ IsEmpty(Pop(Queue)) => Later(rr_fill_queue(log, Pop(Queue), Here))
<1>1. IInv /\ rr_in_replay /\ q.pos > 0
  BY DEF InTime, CountsDown
<1>2. /\ QueueOK(log, Pop(Queue))
      /\ Pop(Queue).pos = Queue.pos /\ Pop(Queue).num = Queue.num
  BY <1>1, TakeLemma
<1>3. Queue.pos >= q.pos /\ CountsDown(log, Queue, icount)
  BY <1>1, QueueLemma, QueueInTime
<1>4. CountsDown(log, Pop(Queue), icount)
  BY <1>2, <1>3, SMTT(30) DEF CountsDown
<1>5. Later(Pop(Queue))
  BY <1>1, <1>2, <1>3, <1>4, LaterStop DEF Later
<1>6. ASSUME IsEmpty(Pop(Queue)) PROVE Later(rr_fill_queue(log, Pop(Queue), Here))
  <2> DEFINE r == rr_fill_queue(log, Pop(Queue), Here)
  <2>1. QueueOK(log, r) /\ r.pos >= Queue.pos
    BY <1>1, <1>6, RefillLemma
  <2>2. CountsDown(log, r, icount)
    BY <1>2, <1>3, <1>4, <1>6, FillInTime
  <2>3. r.pos >= q.pos
    <3>1. r.pos \in Nat /\ Queue.pos \in Nat /\ q.pos \in Nat
      BY <1>1, <1>2, <2>1, SMTT(30) DEF QueueOK, Queues, IInv, TypeOK
    <3> QED
      BY <1>3, <2>1, <3>1, SMTT(30)
  <2> HIDE DEF r
  <2>4. Later(r)
    BY <1>1, <2>1, <2>2, <2>3, LaterStop, SMTT(30) DEF Later
  <2> QED
    BY <2>4 DEF r
<1> QED
  BY <1>5, <1>6

\* Looking without taking.
LEMMA PeekInTime == InTime => Later(Queue)
<1> SUFFICES ASSUME InTime PROVE Later(Queue)
  OBVIOUS
<1>1. IInv /\ q.pos > 0
  BY DEF InTime, CountsDown
<1>2. QueueOK(log, Queue) /\ Queue.pos >= q.pos /\ CountsDown(log, Queue, icount)
  BY <1>1, QueueLemma, QueueInTime
<1> QED
  BY <1>1, <1>2, LaterStop DEF Later

\* Replaying a DMA write.
LEMMA SkippedInTime ==
    ASSUME InTime, NEW site, ReplaySkippedCall(site)
    PROVE  Later(q')
<1>1. /\ Later(Pop(Queue))
      /\ IsEmpty(Pop(Queue)) => Later(rr_fill_queue(log, Pop(Queue), Here))
  BY TakenInTime, ZenonT(30) DEF ReplaySkippedCall, RR_log_entry_kind
<1> QED
  BY <1>1 DEF ReplaySkippedCall

\* Reading the interrupt request.
LEMMA InterruptInTime ==
    ASSUME InTime, NEW site, rr_interrupt_request(site)
    PROVE  Later(q') /\ rr_prog_point' = Here /\ UNCHANGED log
<1>1. rr_in_replay /\ ~rr_in_record
  BY DEF InTime, rr_in_record, rr_in_replay
<1>2. CASE get_next_entry("INTERRUPT_REQUEST", site, TRUE) = "take"
  <2>1. IsEmpty(Pop(Queue)) => Later(rr_fill_queue(log, Pop(Queue), Here))
    BY <1>2, TakenInTime, ZenonT(30) DEF RR_log_entry_kind
  <2> QED
    BY <1>1, <1>2, <2>1, ZenonT(30) DEF rr_interrupt_request
<1>3. CASE get_next_entry("INTERRUPT_REQUEST", site, TRUE) # "take"
  BY <1>1, <1>3, PeekInTime, ZenonT(30) DEF rr_interrupt_request
<1> QED
  BY <1>2, <1>3, ZenonT(30)

\* The value of a device access; the program point is already the guest's.
LEMMA DeviceInTime ==
    ASSUME InTime, cpu = "device", DeviceValue
    PROVE  Later(q') /\ UNCHANGED log
<1>1. rr_in_replay /\ ~rr_in_record
  BY DEF InTime, rr_in_record, rr_in_replay
<1>2. CASE q' = Queue /\ UNCHANGED log
  BY <1>2, PeekInTime
<1>3. CASE /\ get_next_entry("INPUT", rr_skipped_callsite_location, FALSE) = "take"
           /\ q' = Pop(Queue) /\ UNCHANGED log
  BY <1>3, TakenInTime, ZenonT(30) DEF RR_log_entry_kind
<1> QED
  BY <1>1, <1>2, <1>3, ZenonT(30) DEF DeviceValue

\* StopsInTime after a step that sets the point to the guest's count and leaves
\* the guest alone, and does not run a block.
LEMMA StopsLater ==
    ASSUME InTime, Later(q'), UNCHANGED log, UNCHANGED icount,
           rr_prog_point'.count = icount,
           cpu' # "run", cpu' = "device" => rr_skipped_callsite_location' = "CPU_EXEC_2"
    PROVE  StopsInTime'
<1>1. icount \in Nat /\ icount <= log[q.pos].point.count
  BY ProgramLength, SMTT(30) DEF InTime, IInv, TypeOK
<1>2. icount <= log[q'.pos].point.count
  BY <1>1 DEF Later
<1>3. CountsDown(log', q', rr_prog_point'.count)
  BY DEF Later
<1> QED
  BY <1>2, <1>3, SMTT(30) DEF StopsInTime

\* Every step of a replay keeps it in time.
LEMMA StopsStep ==
    ASSUME IInv, StopsInTime, Next, NeverCutOff(log), rr_in_replay
    PROVE  StopsInTime'
<1> USE DEF logvars, guest, loopvars, iovars, history
<1> DEFINE stop == log[q.pos].point.count
<1>1. InTime
  BY DEF InTime, StopsInTime
<1>2. /\ icount \in rr_prog_point.count .. Len(Program)
      /\ Here.count = icount /\ icount \in Nat /\ icount <= stop
      /\ left \in Nat
  <2>1. icount \in Nat /\ left \in Nat
    BY ProgramLength, SMTT(30) DEF IInv, TypeOK
  <2> QED
    BY <1>1, <2>1, HereOK, SMTT(30) DEF InTime
<1>3. /\ cpu = "run" => left > 0 /\ icount + left <= stop
      /\ cpu = "device" /\ rr_skipped_callsite_location # "CPU_EXEC_2" =>
             left > 0 /\ icount + left <= stop + 1
      /\ cpu = "device" => rr_prog_point.count = icount
  BY SMTT(30) DEF StopsInTime, IInv, CpuInv
<1>4. /\ rr_prog_point.count \in Nat /\ rr_prog_point.count <= icount
      /\ Len(Program) \in Nat /\ stop \in Nat /\ q.num \in Nat
      /\ stop = rr_prog_point.count + q.num
      /\ cpu = "run" => icount + left <= Len(Program)
  <2>1. QueueOK(log, q) /\ q.pos > 0 /\ q.pos >= q.pos
    BY <1>1 DEF InTime, CountsDown, IInv, QueueInv, QueueOK, Queues
  <2>2. stop \in Nat
    BY <2>1, LaterStop
  <2>3. q.num \in Nat
    BY LogAssumption, SMTT(30) DEF IInv, TypeOK, Queues, Word
  <2> QED
    BY <1>1, <2>2, <2>3, ProgramLength, SMTT(30)
       DEF InTime, CountsDown, IInv, TypeOK, CpuInv, RR_prog_point
<1>5. ASSUME NEW c \in rr_prog_point.count .. Len(Program), c <= stop
      PROVE  CountsDown(log, Advanced(c), c) /\ Advanced(c).pos = q.pos
  BY <1>1, <1>5, AdvancedCountsDown, AdvancedOK, SMTT(30) DEF InTime
<1>6. Later(Advanced(icount))
  BY <1>2, <1>4, <1>5, SMTT(30) DEF Later
<1>7. CASE CpuEnter \/ CpuFinishReplay
  BY <1>1, <1>2, <1>6, <1>7, StopsLater, SMTT(30)
     DEF CpuEnter, CpuFinishReplay, rr_set_program_point
<1>8. CASE CpuTop
  <2>1. Later(q') /\ rr_prog_point' = Here
    BY <1>1, <1>8, SkippedInTime, PeekInTime, ZenonT(30)
       DEF CpuTop, rr_in_record, rr_in_replay
  <2> QED
    BY <1>1, <1>2, <1>8, <2>1, StopsLater, ZenonT(30)
    DEF CpuTop, ReplaySkippedCall, rr_in_record, rr_in_replay
<1>9. CASE CpuCheckInterrupt
  BY <1>1, <1>2, <1>9, InterruptInTime, StopsLater DEF CpuCheckInterrupt
<1>10. CASE CpuRecheckInterrupt
  BY <1>1, <1>2, <1>10, InterruptInTime, StopsLater DEF CpuRecheckInterrupt
<1>11. CASE CpuAcknowledge
  BY <1>1, <1>2, <1>6, <1>11, StopsLater, SMTT(30) DEF CpuAcknowledge, OpenWindow
<1>12. CASE CpuCheckExit
  <2>1. CASE exit_request
    BY <1>1, <1>2, <1>6, <1>12, <2>1, StopsLater, SMTT(30)
       DEF CpuCheckExit, rr_set_program_point
  <2>2. CASE ~exit_request
    BY <1>12, <2>2, SMTT(30) DEF CpuCheckExit, StopsInTime, rr_in_replay
  <2> QED
    BY <2>1, <2>2
<1>13. CASE CpuExec
  <2>1. CASE q.num > 0 /\ ~exit_request
    <3>1. PICK n \in 1 .. MaxTB : left' = BlockLength(n)
      BY <1>13, <2>1, SMTT(30) DEF CpuExec
    <3>2. rr_prog_point.count = icount /\ MaxTB \in Nat
      BY <1>13, GuestAssumption, SMTT(30) DEF CpuExec, IInv, CpuInv
    <3>3. left' \in Nat /\ icount + left' <= stop
      BY <1>2, <1>4, <3>1, <3>2, SMTT(30) DEF BlockLength
    <3>4. /\ q' = Advanced(icount) /\ rr_prog_point' = Here /\ cpu' = "run"
          /\ UNCHANGED <<log, icount, rr_mode>>
      BY <1>13, <2>1, SMTT(30) DEF CpuExec, rr_set_program_point
    <3>5. CountsDown(log', q', rr_prog_point'.count) /\ q'.pos = q.pos
      BY <1>2, <1>5, <3>4, SMTT(30)
    <3> QED
      BY <1>2, <3>3, <3>4, <3>5, SMTT(30) DEF StopsInTime
  <2>2. CASE ~(q.num > 0 /\ ~exit_request)
    BY <1>13, <2>2, SMTT(30) DEF CpuExec, StopsInTime, rr_in_replay
  <2> QED
    BY <2>1, <2>2, SMTT(30)
<1>14. CASE CpuCompute
  <2>1. /\ icount' = icount + 1 /\ left' = left - 1 /\ cpu' \in {"top", "run"}
        /\ UNCHANGED <<log, q, rr_prog_point, rr_mode>>
    BY <1>14, SMTT(30) DEF CpuCompute, InsnDone
  <2>2. icount' <= stop /\ icount' + left' <= stop
    BY <1>2, <1>3, <1>4, <1>14, <2>1, SMTT(30) DEF CpuCompute
  <2> QED
    BY <1>1, <2>1, <2>2 DEF StopsInTime, InTime
<1>15. CASE CpuHalt \/ CpuAccessDevice
  <2>1. /\ icount' = icount + 1 /\ q' = Advanced(icount + 1)
        /\ rr_prog_point'.count = icount + 1 /\ UNCHANGED <<log, rr_mode>>
        /\ CpuHalt => cpu' = "idle"
        /\ CpuAccessDevice => cpu' = "device" /\ left' = left
    BY <1>15, SMTT(30) DEF CpuHalt, CpuAccessDevice, OpenWindow
  <2>2. /\ icount + 1 \in rr_prog_point.count .. Len(Program) /\ icount + 1 <= stop
        /\ icount + left <= stop
    BY <1>2, <1>3, <1>4, <1>15, SMTT(30) DEF CpuHalt, CpuAccessDevice
  <2>3. CountsDown(log', q', rr_prog_point'.count) /\ q'.pos = q.pos
    <3>1. CountsDown(log, Advanced(icount + 1), icount + 1) /\ Advanced(icount + 1).pos = q.pos
      BY <1>5, <2>2
    <3>2. log' = log /\ q' = Advanced(icount + 1) /\ rr_prog_point'.count = icount + 1
      BY <2>1
    <3> QED
      BY ONLY <3>1, <3>2, SMTT(30)
  <2>4. CASE CpuHalt
    BY <2>1, <2>2, <2>3, <2>4, SMTT(30) DEF StopsInTime
  <2>5. CASE CpuAccessDevice
    <3>1. icount' + left' <= stop + 1 /\ icount' <= stop
      BY <1>2, <1>4, <2>1, <2>2, <2>5, SMTT(30)
    <3>2. cpu' = "device" /\ UNCHANGED log
      BY <2>1, <2>5
    <3> QED
      BY ONLY <2>3, <3>1, <3>2, SMTT(30) DEF StopsInTime
  <2> QED
    BY <1>15, <2>4, <2>5, SMTT(30)
<1>16. CASE CpuReplayDeviceCall
  <2>1. Later(q') /\ rr_prog_point' = Here
    BY <1>1, <1>16, SkippedInTime, SMTT(30) DEF CpuReplayDeviceCall
  <2>2. UNCHANGED <<log, rr_mode, icount, left, cpu, rr_skipped_callsite_location>>
    BY <1>16, SMTT(30) DEF CpuReplayDeviceCall, ReplaySkippedCall
  <2>3. CountsDown(log', q', rr_prog_point'.count)
    BY <1>2, <2>1, <2>2, SMTT(30) DEF Later
  <2>4. icount' <= log'[q'.pos].point.count
    BY <1>2, <2>1, <2>2, SMTT(30) DEF Later
  <2>5. cpu' = "device" /\ rr_skipped_callsite_location' # "CPU_EXEC_2" =>
            icount' + left' <= log'[q'.pos].point.count + 1
    BY <1>2, <1>3, <2>1, <2>2, SMTT(30) DEF Later
  <2>6. cpu' # "run"
    BY <1>16 DEF CpuReplayDeviceCall
  <2> QED
    BY <2>3, <2>4, <2>5, <2>6, SMTT(30) DEF StopsInTime
<1>17. CASE CpuDeviceDone
  <2>1. Later(q') /\ UNCHANGED <<log, rr_prog_point, icount, rr_mode>>
    BY <1>1, <1>17, DeviceInTime, SMTT(30) DEF CpuDeviceDone
  <2>2. CountsDown(log', q', rr_prog_point'.count)
    BY <1>3, <1>17, <2>1, SMTT(30) DEF CpuDeviceDone, Later
  <2>3. icount' <= log'[q'.pos].point.count
    BY <1>2, <2>1 DEF Later
  <2>4. /\ cpu' = "run" => /\ rr_skipped_callsite_location # "CPU_EXEC_2"
                           /\ left' = left - 1
        /\ cpu' # "device"
    BY <1>17, SMTT(30) DEF CpuDeviceDone, InsnDone
  <2>5. cpu' = "run" => icount' + left' <= log'[q'.pos].point.count
    <3>1. cpu = "device"
      BY <1>17 DEF CpuDeviceDone
    <3>2. stop \in Nat /\ stop <= log'[q'.pos].point.count /\ log'[q'.pos].point.count \in Nat
      BY <2>1 DEF Later
    <3> QED
      BY <1>2, <1>3, <2>1, <2>4, <3>1, <3>2, SMTT(30)
  <2> QED
    BY <2>2, <2>3, <2>4, <2>5 DEF StopsInTime
<1>18. CASE CpuDies \/ IORequest \/ IOUnlock
  BY <1>18, ZenonT(30) DEF CpuDies, Dies, IORequest, IOUnlock, StopsInTime, rr_in_replay
<1>19. CASE IOLock
  BY <1>19, ZenonT(30) DEF IOLock, StopsInTime, rr_in_replay
<1>20. CASE DeviceStep \/ EndRecord \/ BeginReplay
  BY <1>20 DEF DeviceStep, DeviceDMA, DeviceInterrupt, DeviceRuns, EndRecord, BeginReplay,
     rr_in_record, rr_in_replay
<1>21. CASE EndReplay
  BY <1>21, ZenonT(30) DEF EndReplay, StopsInTime, rr_in_replay
<1> QED
  BY <1>7, <1>8, <1>9, <1>10, <1>11, <1>12, <1>13, <1>14, <1>15, <1>16, <1>17, <1>18, SMTT(30),
     <1>19, <1>20, <1>21 DEF Next, CpuStep, IOStep

\* A replay begins in time.
LEMMA StopsBegin ==
    ASSUME IInv, Next, NeverCutOff(log), ~rr_in_replay
    PROVE  StopsInTime'
<1>1. CASE ~BeginReplay
  <2>1. UNCHANGED rr_mode \/ rr_mode' = "OFF"
    BY <1>1, ZenonT(60)
       DEF Next, CpuStep, CpuEnter, CpuTop, CpuCheckInterrupt, CpuAcknowledge,
       CpuRecheckInterrupt, CpuCheckExit, CpuFinishReplay, CpuExec, CpuCompute,
       CpuHalt, CpuAccessDevice, CpuReplayDeviceCall, CpuDeviceDone, CpuDies, Dies,
       DeviceStep, DeviceDMA, DeviceInterrupt, IOStep, IORequest, IOLock, IOUnlock,
       EndRecord, EndReplay, logvars
  <2> QED
    BY <2>1, SMTT(30) DEF StopsInTime, rr_in_replay
<1>2. CASE BeginReplay
  <2> DEFINE r == [head |-> 1, pos |-> 0, num |-> q.num]
  <2>1. /\ q \in Queues /\ Len(log) \in Nat /\ Len(log) > 0
        /\ Boundary(log[Len(log)]) /\ cpu = "idle"
    <3>1. rr_mode = "OFF" /\ ~rr_in_record
      BY <1>2 DEF BeginReplay, rr_in_record
    <3>2. q \in Queues /\ Len(log) \in Nat
      BY DEF IInv, TypeOK
    <3>3. Len(log) > 0 /\ Boundary(log[Len(log)])
      BY <3>1 DEF IInv, LogInv, Boundary
    <3>4. cpu = "idle"
      BY <3>1 DEF IInv, CpuInv
    <3> QED
      BY <3>2, <3>3, <3>4
  <2>2. r \in Queues /\ r.head = 1 /\ r.pos = 0
    BY <2>1 DEF Queues
  <2>3. q' = rr_fill_queue(log, r, ZeroPoint)
    BY <1>2 DEF BeginReplay
  <2> HIDE DEF r
  <2>4. QueueOK(log, r) /\ IsEmpty(r)
    BY <2>1, <2>2 DEF QueueOK, IsEmpty
  <2>5. ZeroPoint.count \in Word /\ ZeroPoint.count = 0
    BY LogAssumption DEF ZeroPoint, Word
  <2>6. \A k \in 1 .. Len(log) : log[k].point.count \in Nat
    BY LogMonotone
  <2>7. \A k \in r.pos + 1 .. Len(log) : ZeroPoint.count <= log[k].point.count
    BY <2>1, <2>2, <2>5, <2>6, SMTT(30)
  <2>8. CountsDown(log, q', 0)
    <3>1. Counted(log)
      BY LogCounted
    <3> QED
      BY <2>1, <2>2, <2>3, <2>4, <2>5, <2>7, <3>1, FillCountsDown, SMTT(30)
  <2>9. QueueOK(log, q')
    BY <2>3, <2>4, <2>5, LogCounted, FillProperties, SMTT(30)
  <2>10. 0 <= log[q'.pos].point.count
    <3>1. q'.pos \in 1 .. Len(log)
      BY <2>8, <2>9 DEF CountsDown, QueueOK, Queues
    <3> QED
      BY <2>6, <3>1
  <2>11. /\ icount' = 0 /\ rr_prog_point' = ZeroPoint /\ cpu' = "idle" /\ UNCHANGED log
    BY <1>2, <2>1 DEF BeginReplay, rr_reset_state
  <2> QED
    BY <2>5, <2>8, <2>10, <2>11, SMTT(30) DEF StopsInTime
<1> QED
  BY <1>1, <1>2

\* As long as no stretch of the log without a boundary is longer than
\* RR_MAX_QUEUE_LEN, rr_fill_queue, rr_set_prog_point and the translator's cut
\* keep the countdown exact, and the guest never runs past the next interrupt,
\* main-loop call or end of the log.
THEOREM GuestStopsInTime == Spec /\ []NeverCutOff(log) => []StopsInTime
<1>1. Init => StopsInTime
  BY DEF Init, StopsInTime, rr_in_replay
<1>2. IInv /\ NeverCutOff(log) /\ StopsInTime /\ [Next]_vars => StopsInTime'
  <2> SUFFICES ASSUME IInv, NeverCutOff(log), StopsInTime, [Next]_vars
               PROVE  StopsInTime'
    OBVIOUS
  <2>1. CASE Next
    BY <2>1, StopsStep, StopsBegin, SMTT(30)
  <2>2. CASE UNCHANGED vars
    BY <2>2 DEF vars, logvars, guest, loopvars, StopsInTime, rr_in_replay
  <2> QED
    BY <2>1, <2>2
<1> QED
  BY <1>1, <1>2, Invariance, PTL DEF Spec

=============================================================================
