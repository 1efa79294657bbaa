------------------------- MODULE RecordReplayProofs -------------------------
(***************************************************************************)
(* Proofs about RecordReplay, for every guest program, every queue length, *)
(* every number of devices' events and of I/O thread rounds.               *)
(*                                                                         *)
(* IInv is inductive (Theorem Invariance); from it follow the types, the   *)
(* order of the log, the two assertions on the queue and the ownership of  *)
(* the recording window.                                                   *)
(***************************************************************************)
EXTENDS RecordReplayStepProofs

(***************************************************************************)
(* The invariant is inductive.                                             *)
(***************************************************************************)

\* Before the recording the log is empty and the queue holds nothing.
LEMMA InitIInv == Init => IInv
<1> SUFFICES ASSUME Init PROVE IInv
  OBVIOUS
<1>1. ZeroPoint \in RR_prog_point /\ ZeroPoint.count = 0
  BY DEF ZeroPoint, RR_prog_point
<1>2. q \in Queues /\ q.head = 1 /\ q.pos = 0
  BY LogAssumption DEF Init, Queues, Word
<1>3. Len(log) = 0 /\ log \in Seq(Entries)
  BY DEF Init
<1>4. TypeOK
  <2>1. 0 \in Data /\ Len(Program) \in Nat /\ LoopTries \in Nat \ {0}
    BY GuestAssumption
  <2>2. <<>> \in Seq(Events \X Nat \X Nat \X Data)
    OBVIOUS
  <2>3. cpu \in Stages /\ rr_skipped_callsite_location \in RR_callsite_id
    BY DEF Init, Stages, RR_callsite_id
  <2>4. fatal \in Deaths \cup {"none"}
    BY DEF Init
  <2>5. /\ icount \in 0 .. Len(Program) /\ acc \in Data /\ mem \in Data
        /\ tries \in Nat \ {0}
        /\ trace \in Seq(Events \X Nat \X Nat \X Data)
        /\ recorded \in Seq(Events \X Nat \X Nat \X Data)
    BY <2>1, <2>2 DEF Init
  <2> QED
    BY <1>1, <1>2, <1>3, <2>3, <2>4, <2>5, ZenonT(30) DEF Init, TypeOK
<1>5. LogInv
  BY <1>3 DEF Init, LogInv, LogOrdered, rr_in_record
<1>6. QueueInv
  BY <1>2, <1>3 DEF Init, QueueInv, QueueOK, rr_in_replay
<1>7. CpuInv
  BY <1>1 DEF Init, CpuInv
<1> QED
  BY <1>4, <1>5, <1>6, <1>7 DEF IInv

\* Steps of the devices and of the I/O thread.
LEMMA IOThreadStep ==
    ASSUME IInv, DeviceStep \/ IOStep
    PROVE  IInv'
<1> USE DEF logvars, guest, loopvars, iovars, history
<1>1. TypeOK /\ LogInv /\ QueueInv /\ CpuInv
  BY DEF IInv
<1>2. Len(Program) \in Nat /\ Data \subseteq Nat /\ 0 \in Data
  BY GuestAssumption
<1>3. /\ Len(Program) \in Nat /\ Data \subseteq Nat /\ 0 \in Data
      /\ icount \in Nat /\ eip \in Nat /\ rounds \in Nat /\ devs \in Nat
      /\ rr_prog_point \in RR_prog_point /\ rr_prog_point.count \in Nat
      /\ rr_prog_point.count \in rr_prog_point.count .. Len(Program)
      /\ rr_skipped_callsite_location \in RR_callsite_id
      /\ Len(log) \in Nat
  BY <1>2, <1>1, SMTT(30) DEF TypeOK, RR_prog_point, CpuInv
<1>4. ASSUME UNCHANGED <<log, rr_mode, rr_prog_point, q>> PROVE LogInv' /\ QueueInv'
  <2>1. LogInv'
    BY <1>3, <1>4, LogFrame
  <2>2. QueueInv'
    BY <1>1, <1>4, QueueFrame DEF QueueInv, rr_in_replay
  <2> QED
    BY <2>1, <2>2
<1>5. ZeroPoint \in RR_prog_point /\ ZeroPoint.count = 0
  BY DEF ZeroPoint, RR_prog_point
<1>6. ASSUME rr_reset_state
       PROVE  /\ rr_prog_point' \in RR_prog_point /\ rr_record_in_progress' \in BOOLEAN
              /\ rr_skipped_callsite_location' \in RR_callsite_id
              /\ icount' \in 0 .. Len(Program)
  <2>1. rr_record_in_progress' \in BOOLEAN
    BY <1>6, Zenon DEF rr_reset_state
  <2>2. rr_prog_point' \in RR_prog_point
    BY <1>5, <1>6 DEF rr_reset_state
  <2>3. rr_skipped_callsite_location' \in RR_callsite_id
    BY <1>6 DEF rr_reset_state, RR_callsite_id
  <2>4. icount' \in 0 .. Len(Program)
    BY <1>2, <1>6 DEF rr_reset_state
  <2> QED
    BY <2>1, <2>2, <2>3, <2>4
<1>7. CASE DeviceDMA
  <2>1. mem' \in Data /\ mem' \in Nat /\ rr_in_record /\ UNCHANGED rr_mode
    BY <1>3, <1>7 DEF DeviceDMA, DeviceRuns
  <2>2. log' \in Seq(Entries) /\ LogInv' /\ QueueInv'
    <3>1. CASE rr_record_in_progress
      <4>1. /\ log' \in Seq(Entries) /\ LogInv'
            /\ \A r : QueueOK(log, r) => QueueOK(log', r)
        BY <1>3, <1>7, <2>1, <3>1, LogAppend, SMTT(30)
           DEF DeviceDMA, RR_log_entry_kind, rr_in_record
      <4> QED
        BY <1>1, <1>7, <2>1, <4>1, SMTT(30)
        DEF DeviceDMA, QueueInv, QueueOK, rr_in_record, rr_in_replay
    <3>2. CASE ~rr_record_in_progress
      BY <1>1, <1>4, <1>7, <3>2, SMTT(30) DEF DeviceDMA, TypeOK
    <3> QED
      BY <3>1, <3>2, SMTT(30)
  <2>3. trace' \in Seq(Events \X Nat \X Nat \X Data)
    <3>1. /\ "dma" \in Events /\ Sees("dma", mem')
          /\ icount' \in Nat /\ eip' \in Nat
      BY <1>3, <1>7, SMTT(30) DEF DeviceDMA, Events
    <3> QED
      BY <1>1, <2>1, <3>1, SeesType
  <2>4. TypeOK'
    BY <1>1, <1>3, <1>7, <2>1, <2>2, <2>3, SMTT(30) DEF DeviceDMA, TypeOK
  <2>5. CpuInv'
    BY <1>1, <1>7 DEF DeviceDMA, CpuInv
  <2> QED
    BY <2>2, <2>4, <2>5 DEF IInv
<1>8. CASE DeviceInterrupt
  <2>1. TypeOK'
    BY <1>1, <1>3, <1>8 DEF DeviceInterrupt, TypeOK
  <2>2. CpuInv'
    BY <1>1, <1>8 DEF DeviceInterrupt, CpuInv
  <2> QED
    BY <1>4, <1>8, <2>1, <2>2, SMTT(30) DEF DeviceInterrupt, IInv
<1>9. CASE IORequest
  <2>1. TypeOK'
    BY <1>1, <1>3, <1>9 DEF IORequest, TypeOK
  <2>2. CpuInv'
    BY <1>1, <1>9 DEF IORequest, CpuInv
  <2> QED
    BY <1>4, <1>9, <2>1, <2>2, SMTT(30) DEF IORequest, IInv
<1>10. CASE IOLock
  <2>1. TypeOK'
    BY <1>1, <1>10, SMTT(30) DEF IOLock, TypeOK, rr_in_record, RR_callsite_id
  <2>2. CpuInv'
    BY <1>1, <1>10, SMTT(30) DEF IOLock, CpuInv
  <2> QED
    BY <1>4, <1>10, <2>1, <2>2, SMTT(30) DEF IOLock, IInv
<1>11. CASE IOUnlock
  <2>1. TypeOK'
    BY <1>1, <1>11, ZenonT(30) DEF IOUnlock, CloseWindow, TypeOK
  <2>2. CpuInv'
    BY <1>1, <1>11 DEF IOUnlock, CpuInv
  <2> QED
    BY <1>4, <1>11, <2>1, <2>2, SMTT(30) DEF IOUnlock, IInv
<1>12. CASE EndRecord
  <2>1. /\ rr_in_record /\ ~rr_in_record' /\ ~rr_in_replay'
        /\ rr_write_item("LAST", "LAST", rr_prog_point, 0)
    BY <1>12 DEF EndRecord, EndOfLog, rr_in_record, rr_in_replay
  <2>2. /\ log' \in Seq(Entries) /\ LogInv'
        /\ \A r : QueueOK(log, r) => QueueOK(log', r)
    BY <1>3, <2>1, LogAppend DEF RR_log_entry_kind, RR_callsite_id
  <2>3. QueueInv'
    BY <1>1, <1>12, <2>1, <2>2, SMTT(30) DEF EndRecord, QueueInv, QueueOK
  <2>4. TypeOK'
    BY <1>1, <1>12, <1>6, <2>2, SMTT(30) DEF EndRecord, TypeOK
  <2>5. CpuInv'
    BY <1>1, <1>5, <1>12 DEF EndRecord, rr_reset_state, CpuInv
  <2> QED
    BY <2>2, <2>3, <2>4, <2>5 DEF IInv
<1>13. CASE BeginReplay
  <2> DEFINE r == [head |-> 1, pos |-> 0, num |-> q.num]
  <2>1. q \in Queues /\ Len(log) > 0 /\ log[Len(log)].kind = "LAST"
    BY <1>1, <1>13, SMTT(30) DEF BeginReplay, TypeOK, LogInv, rr_in_record
  <2>2. r \in Queues /\ r.head = 1 /\ r.pos = 0
    BY <2>1 DEF Queues
  <2>3. q' = rr_fill_queue(log, r, ZeroPoint)
    BY <1>13 DEF BeginReplay
  <2> HIDE DEF r
  <2>4. QueueOK(log, r) /\ IsEmpty(r)
    BY <1>3, <2>2, SMTT(30) DEF QueueOK, IsEmpty
  <2>5. ZeroPoint.count \in Word
    BY <1>5, LogAssumption, SMTT(30) DEF Word
  <2>6. QueueOK(log, q') /\ q'.head = 1
    BY <2>2, <2>3, <2>4, <2>5, LogCounted, FillProperties, SMTT(30)
  <2>7. QueueInv'
    BY <1>3, <1>13, <2>1, <2>6, QueueFrame, SMTT(30) DEF BeginReplay
  <2>8. LogInv'
    BY <1>1, <1>13, <2>1, SMTT(30) DEF BeginReplay, LogInv, LogOrdered, rr_in_record
  <2>9. q' \in Queues /\ <<>> \in Seq(Events \X Nat \X Nat \X Data)
    BY <2>6, SMTT(30) DEF QueueOK
  <2>10. TypeOK'
    BY <1>1, <1>3, <1>13, <1>6, <2>9, ZenonT(30) DEF BeginReplay, TypeOK
  <2>11. CpuInv'
    BY <1>1, <1>5, <1>13 DEF BeginReplay, rr_reset_state, CpuInv
  <2> QED
    BY <2>7, <2>8, <2>10, <2>11, SMTT(30) DEF IInv
<1>14. CASE EndReplay
  <2>1. q \in Queues /\ QueueOK(log, q)
    BY <1>1 DEF TypeOK, QueueInv
  <2>2. q' \in Queues /\ q'.head = q.pos + 1 /\ q'.pos = q.pos
    BY <1>14, <2>1 DEF EndReplay, Queues
  <2>3. QueueOK(log, q')
    BY <2>1, <2>2 DEF QueueOK, Queues
  <2>4. QueueInv'
    BY <1>14, <2>3, QueueFrame, SMTT(30) DEF EndReplay, rr_in_replay
  <2>5. LogInv'
    BY <1>1, <1>14 DEF EndReplay, LogInv, LogOrdered, rr_in_record, rr_in_replay
  <2>6. TypeOK'
    BY <1>1, <1>14, <2>2, ZenonT(30) DEF EndReplay, TypeOK
  <2>7. CpuInv'
    BY <1>1, <1>14 DEF EndReplay, CpuInv
  <2> QED
    BY <2>4, <2>5, <2>6, <2>7 DEF IInv
<1> QED
  BY <1>7, <1>8, <1>9, <1>10, <1>11, <1>12, <1>13, <1>14 DEF DeviceStep, IOStep

\* Every step of either thread, and of the monitor, preserves the invariant.
LEMMA NextIInv == IInv /\ [Next]_vars => IInv'
<1> SUFFICES ASSUME IInv, [Next]_vars PROVE IInv'
  OBVIOUS
<1>1. CASE Next
  BY <1>1, CpuLoopStep, CpuBlockStep, IOThreadStep DEF Next, CpuStep
<1>2. CASE UNCHANGED vars
  <2>1. TypeOK'
    BY <1>2 DEF IInv, TypeOK, vars, logvars, guest, loopvars, iovars, history
  <2>2. LogInv' /\ QueueInv'
    BY <1>2 DEF IInv, LogInv, LogOrdered, QueueInv, vars, logvars, guest, rr_in_record,
       rr_in_replay
  <2>3. CpuInv'
    BY <1>2 DEF IInv, CpuInv, vars, logvars, guest, loopvars, iovars
  <2> QED
    BY <2>1, <2>2, <2>3 DEF IInv
<1> QED
  BY <1>1, <1>2

\* The inductive invariant holds in every state of every recording and replay:
\* log, queue and the loop of cpu_exec agree.
THEOREM Invariance == Spec => []IInv
BY InitIInv, NextIInv, PTL DEF Spec

\* The types of the record/replay state (rr_log.c, cpu-exec.c), among them that
\* the countdown stays an unsigned word and no count passes the program's end.
THEOREM TypeCorrectness == Spec => []TypeOK
<1>1. IInv => TypeOK
  BY DEF IInv
<1> QED
  BY <1>1, Invariance, PTL

\* The log that rr_write_item builds is ordered by instruction count, and its
\* end marker is its last entry.
THEOREM LogIsOrdered == Spec => []LogOrdered
<1>1. IInv => LogOrdered
  BY DEF IInv, LogInv
<1> QED
  BY <1>1, Invariance, PTL

(***************************************************************************)
(* The queue and the recording window.                                     *)
(***************************************************************************)

\* The assertion of rr_fill_queue (rr_log.c) that the queue is empty never
\* fails, and rr_replay_finished never dereferences the head of an empty one.
THEOREM QueueIsSound == Spec => []QueueSound
<1>1. Init => QueueSound
  BY DEF Init, QueueSound
<1>2. IInv /\ QueueSound /\ [Next]_vars => QueueSound'
  <2> SUFFICES ASSUME IInv, QueueSound, [Next]_vars PROVE QueueSound'
    OBVIOUS
  <2>1. CASE UNCHANGED fatal
    BY <2>1, Zenon DEF QueueSound
  <2>2. CASE CpuDies
    <3>1. ASSUME NEW site \in {"CPU_EXEC_1", "CPU_EXEC_4"}, rr_in_replay,
                 get_next_entry("INTERRUPT_REQUEST", site, TRUE) = "take"
          PROVE  IsEmpty(Pop(Queue))
      BY <3>1, TakeLemma, ZenonT(30) DEF RR_log_entry_kind
    <3>2. rr_in_replay => ~(rr_log_is_empty(log, q) /\ IsEmpty(q))
      BY DEF IInv, TypeOK, QueueInv, QueueOK, Queues, rr_log_is_empty, IsEmpty
    <3> QED
      BY <2>2, <3>1, <3>2, ZenonT(30) DEF CpuDies, Dies, QueueSound
  <2>3. CASE Next /\ ~CpuDies
    <3>1. UNCHANGED fatal
      BY <2>3, ZenonT(30)
         DEF Next, CpuStep, CpuEnter, CpuTop, CpuCheckInterrupt, CpuAcknowledge,
         CpuRecheckInterrupt, CpuCheckExit, CpuFinishReplay, CpuExec, CpuCompute,
         CpuHalt, CpuAccessDevice, CpuReplayDeviceCall, CpuDeviceDone, DeviceStep,
         DeviceDMA, DeviceInterrupt, IOStep, IORequest, IOLock, IOUnlock, EndRecord,
         BeginReplay, EndReplay
    <3> QED
      BY <2>1, <3>1
  <2> QED
    BY <2>1, <2>2, <2>3 DEF vars
<1> QED
  BY <1>1, <1>2, Invariance, PTL DEF Spec

\* While recording, a window of rr_record_in_progress is open exactly while
\* device code runs, in the thread that holds the mutex and under its call site.
THEOREM WindowIsOwned == Spec => []WindowOwned
<1> USE DEF logvars, guest, loopvars, iovars, history
<1>1. Init => WindowOwned
  BY DEF Init, WindowOwned
<1>2. IInv /\ WindowOwned /\ [Next]_vars => WindowOwned'
  <2> SUFFICES ASSUME IInv, WindowOwned, [Next]_vars PROVE WindowOwned'
    OBVIOUS
  <2> USE DEF WindowOwned, rr_in_record, rr_in_replay
  <2>1. /\ cpu # "idle" => io # "in"
        /\ cpu = "device" => rr_skipped_callsite_location # "MAIN_LOOP_WAIT"
        /\ rr_record_in_progress \in BOOLEAN
    BY SMTT(30) DEF IInv, CpuInv, TypeOK
  <2>2. CASE CpuEnter
    BY <2>1, <2>2, SMTT(30) DEF CpuEnter
  <2>3. CASE CpuTop
    BY <2>1, <2>3, ZenonT(30) DEF CpuTop
  <2>4. CASE CpuCheckInterrupt
    BY <2>1, <2>4 DEF CpuCheckInterrupt, rr_interrupt_request
  <2>5. CASE CpuAcknowledge
    BY <2>1, <2>5, ZenonT(30) DEF CpuAcknowledge, OpenWindow
  <2>6. CASE CpuRecheckInterrupt
    BY <2>1, <2>6 DEF CpuRecheckInterrupt, rr_interrupt_request
  <2>7. CASE CpuCheckExit \/ CpuFinishReplay \/ CpuExec
    BY <2>1, <2>7, SMTT(30) DEF CpuCheckExit, CpuFinishReplay, CpuExec
  <2>8. CASE CpuCompute \/ CpuHalt
    BY <2>1, <2>8, SMTT(30) DEF CpuCompute, InsnDone, CpuHalt
  <2>9. CASE CpuAccessDevice
    BY <2>1, <2>9, ZenonT(30) DEF CpuAccessDevice, OpenWindow
  <2>10. CASE CpuReplayDeviceCall \/ CpuDies
    BY <2>1, <2>10, ZenonT(30) DEF CpuReplayDeviceCall, CpuDies, Dies
  <2>11. CASE CpuDeviceDone
    BY <2>1, <2>11 DEF CpuDeviceDone, CloseWindow, InsnDone
  <2>12. CASE DeviceStep
    BY <2>1, <2>12, SMTT(30) DEF DeviceStep, DeviceDMA, DeviceInterrupt
  <2>13. CASE IORequest \/ IOLock \/ IOUnlock
    BY <2>1, <2>13, ZenonT(30) DEF IORequest, IOLock, IOUnlock, CloseWindow
  <2>14. CASE EndRecord \/ BeginReplay \/ EndReplay
    BY <2>14 DEF EndRecord, BeginReplay, EndReplay
  <2>15. CASE UNCHANGED vars
    BY <2>15 DEF vars
  <2> QED
    BY <2>2, <2>3, <2>4, <2>5, <2>6, <2>7, <2>8, <2>9, <2>10, <2>11, <2>12, <2>13,
       <2>14, <2>15, ZenonT(30) DEF Next, CpuStep, IOStep
<1> QED
  BY <1>1, <1>2, Invariance, PTL DEF Spec

=============================================================================
