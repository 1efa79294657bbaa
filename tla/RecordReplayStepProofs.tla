----------------------- MODULE RecordReplayStepProofs -----------------------
(***************************************************************************)
(* The steps of the CPU thread (cpu_exec, qemu/cpu-exec.c) preserve the    *)
(* inductive invariant of RecordReplay.                                    *)
(***************************************************************************)
EXTENDS RecordReplayLemmas

\* Steps of the CPU thread up to the execution of a block.
LEMMA CpuLoopStep ==
    ASSUME IInv,
           \/ CpuEnter \/ CpuTop \/ CpuCheckInterrupt \/ CpuAcknowledge
           \/ CpuRecheckInterrupt \/ CpuCheckExit \/ CpuFinishReplay \/ CpuExec
    PROVE  IInv'
<1> USE DEF logvars, guest, loopvars, iovars, history
<1>1. TypeOK /\ LogInv /\ QueueInv /\ CpuInv
  BY DEF IInv
<1>2. /\ icount \in rr_prog_point.count .. Len(Program)
      /\ Here \in RR_prog_point /\ Here.count = icount
      /\ icount \in Nat /\ rr_prog_point.count \in Nat /\ Len(Program) \in Nat
  <2>1. icount \in Nat /\ rr_prog_point.count \in Nat
    BY ProgramLength DEF IInv, TypeOK, RR_prog_point
  <2> QED
    BY <2>1, HereOK, ProgramLength
<1>3. CASE CpuEnter
  <2>1. q' \in Queues /\ QueueInv'
    BY <1>2, <1>3, SetPoint DEF CpuEnter, rr_set_program_point
  <2>2. LogInv'
    BY <1>2, <1>3, LogFrame, SMTT(30) DEF CpuEnter, rr_set_program_point
  <2>3. TypeOK'
    BY <1>1, <1>2, <1>3, <2>1, GuestAssumption, ZenonT(30)
    DEF CpuEnter, rr_set_program_point, TypeOK, Stages
  <2>4. CpuInv'
    BY <1>1, <1>2, <1>3 DEF CpuEnter, rr_set_program_point, CpuInv
  <2> QED
    BY <2>1, <2>2, <2>3, <2>4 DEF IInv
<1>4. CASE CpuTop
  <2>1. CASE rr_in_record /\ cpu' = "interrupt" /\ UNCHANGED <<guest, logvars>>
    <3>1. LogInv'
      BY <1>2, <2>1, LogFrame
    <3>2. QueueInv'
      BY <1>1, <2>1, QueueFrame, SMTT(30) DEF QueueInv, rr_in_replay
    <3>3. TypeOK'
      BY <1>1, <1>4, <2>1, SMTT(30) DEF CpuTop, TypeOK, Stages
    <3>4. CpuInv'
      BY <1>1, <1>4, <2>1 DEF CpuTop, CpuInv
    <3> QED
      BY <3>1, <3>2, <3>3, <3>4 DEF IInv
  <2>2. CASE /\ rr_in_replay /\ rr_prog_point' = Here
             /\ rr_skipped_callsite_location' = "MAIN_LOOP_WAIT"
             /\ UNCHANGED <<rr_mode, log, rr_record_in_progress, rr_end_replay_requested>>
             /\ ReplaySkippedCall("MAIN_LOOP_WAIT") /\ cpu' = "top"
    <3>1. /\ q' \in Queues /\ QueueInv'
          /\ mem' \in Data /\ trace' \in Seq(Events \X Nat \X Nat \X Data)
      BY <2>2, SkippedCall
    <3>2. LogInv'
      BY <1>2, <2>2, LogFrame, SMTT(30)
    <3>3. TypeOK'
      <4>1. UNCHANGED <<icount, eip, acc, halted>>
        BY <2>2 DEF ReplaySkippedCall
      <4>2. UNCHANGED <<interrupt_request, exit_request, loopvars, iovars, history, fatal>>
        BY <1>4 DEF CpuTop
      <4>3. /\ rr_mode' = rr_mode /\ log' = log /\ cpu' = "top"
            /\ rr_record_in_progress' = rr_record_in_progress
            /\ rr_end_replay_requested' = rr_end_replay_requested
            /\ rr_prog_point' \in RR_prog_point
            /\ rr_skipped_callsite_location' = "MAIN_LOOP_WAIT"
        BY <1>2, <2>2
      <4>4. TypeOK
        BY <1>1, SMTT(30)
      <4> QED
        BY ONLY <3>1, <4>1, <4>2, <4>3, <4>4, SMTT(30)
           DEF TypeOK, Stages, RR_callsite_id, loopvars, iovars, history
    <3>4. CpuInv'
      BY <1>1, <1>2, <1>4, <2>2, SMTT(30) DEF CpuTop, ReplaySkippedCall, CpuInv
    <3> QED
      BY <3>1, <3>2, <3>3, <3>4 DEF IInv
  <2>3. CASE /\ rr_in_replay /\ rr_prog_point' = Here
             /\ rr_skipped_callsite_location' = "MAIN_LOOP_WAIT"
             /\ UNCHANGED <<rr_mode, log, rr_record_in_progress, rr_end_replay_requested>>
             /\ q' = Queue /\ cpu' = "interrupt" /\ UNCHANGED guest
    <3>1. q' \in Queues /\ QueueInv'
      BY <2>3, PeekQueue
    <3>2. LogInv'
      BY <1>2, <2>3, LogFrame, SMTT(30)
    <3>3. TypeOK'
      BY <1>1, <1>2, <1>4, <2>3, <3>1, SMTT(30) DEF CpuTop, TypeOK, Stages, RR_callsite_id
    <3>4. CpuInv'
      BY <1>1, <1>2, <1>4, <2>3, SMTT(30) DEF CpuTop, CpuInv
    <3> QED
      BY <3>1, <3>2, <3>3, <3>4 DEF IInv
  <2> QED
    BY <1>4, <2>1, <2>2, <2>3, ZenonT(30) DEF CpuTop
<1>5. CASE CpuCheckInterrupt
  <2>1. /\ log' \in Seq(Entries) /\ q' \in Queues
        /\ rr_prog_point' \in RR_prog_point /\ rr_prog_point'.count = icount
        /\ rr_skipped_callsite_location' = "CPU_EXEC_1"
        /\ interrupt_request' \in BOOLEAN /\ LogInv' /\ QueueInv'
    BY <1>5, InterruptRequest, SMTT(30) DEF CpuCheckInterrupt, RR_callsite_id
  <2>2. TypeOK'
    BY <1>1, <1>5, <2>1, SMTT(30) DEF CpuCheckInterrupt, TypeOK, Stages, RR_callsite_id
  <2>3. CpuInv'
    BY <1>1, <1>2, <1>5, <2>1, SMTT(30) DEF CpuCheckInterrupt, CpuInv
  <2> QED
    BY <2>1, <2>2, <2>3, SMTT(30) DEF IInv
<1>6. CASE CpuAcknowledge
  <2>1. q' \in Queues /\ QueueInv'
    BY <1>2, <1>6, SetPoint, SMTT(30) DEF CpuAcknowledge, OpenWindow
  <2>2. LogInv'
    BY <1>2, <1>6, LogFrame, SMTT(30) DEF CpuAcknowledge, OpenWindow
  <2>3. TypeOK'
    BY <1>1, <1>2, <1>6, <2>1, ZenonT(30)
    DEF CpuAcknowledge, OpenWindow, TypeOK, Stages, RR_callsite_id, rr_in_record
  <2>4. CpuInv'
    BY <1>1, <1>2, <1>6 DEF CpuAcknowledge, OpenWindow, CpuInv
  <2> QED
    BY <2>1, <2>2, <2>3, <2>4 DEF IInv
<1>7. CASE CpuRecheckInterrupt
  <2>1. /\ log' \in Seq(Entries) /\ q' \in Queues
        /\ rr_prog_point' \in RR_prog_point /\ rr_prog_point'.count = icount
        /\ rr_skipped_callsite_location' = "CPU_EXEC_4"
        /\ interrupt_request' \in BOOLEAN /\ LogInv' /\ QueueInv'
    BY <1>7, InterruptRequest DEF CpuRecheckInterrupt, RR_callsite_id
  <2>2. TypeOK'
    BY <1>1, <1>7, <2>1 DEF CpuRecheckInterrupt, TypeOK, Stages, RR_callsite_id
  <2>3. CpuInv'
    BY <1>1, <1>2, <1>7, <2>1 DEF CpuRecheckInterrupt, CpuInv
  <2> QED
    BY <2>1, <2>2, <2>3 DEF IInv
<1>8. CASE CpuCheckExit
  <2>1. q' \in Queues /\ QueueInv'
    <3>1. CASE exit_request
      BY <1>2, <1>8, <3>1, SetPoint, SMTT(30) DEF CpuCheckExit, rr_set_program_point
    <3>2. CASE ~exit_request
      BY <1>1, <1>8, <3>2, QueueFrame, SMTT(30)
         DEF CpuCheckExit, QueueInv, TypeOK, rr_in_replay
    <3> QED
      BY <3>1, <3>2, SMTT(30)
  <2>2. LogInv'
    BY <1>2, <1>8, LogFrame, SMTT(30) DEF CpuCheckExit, rr_set_program_point
  <2>3. TypeOK'
    <3>1. rr_prog_point' \in RR_prog_point /\ cpu' \in Stages
      BY <1>1, <1>2, <1>8 DEF CpuCheckExit, rr_set_program_point, TypeOK, Stages
    <3>2. exit_request' \in BOOLEAN
      BY <1>1, <1>8, Zenon DEF CpuCheckExit, TypeOK
    <3> QED
      BY <1>1, <1>8, <2>1, <3>1, <3>2, SMTT(30)
         DEF CpuCheckExit, rr_set_program_point, TypeOK
  <2>4. CpuInv'
    BY <1>1, <1>2, <1>8, SMTT(30) DEF CpuCheckExit, rr_set_program_point, CpuInv
  <2> QED
    BY <2>1, <2>2, <2>3, <2>4 DEF IInv
<1>9. CASE CpuFinishReplay
  <2>1. q' \in Queues /\ QueueInv'
    BY <1>2, <1>9, SetPoint, SMTT(30) DEF CpuFinishReplay, rr_set_program_point
  <2>2. LogInv'
    BY <1>2, <1>9, LogFrame, SMTT(30) DEF CpuFinishReplay, rr_set_program_point
  <2>3. TypeOK'
    BY <1>1, <1>2, <1>9, <2>1, SMTT(30)
       DEF CpuFinishReplay, rr_set_program_point, TypeOK, Stages
  <2>4. CpuInv'
    BY <1>1, <1>2, <1>9, SMTT(30) DEF CpuFinishReplay, rr_set_program_point, CpuInv
  <2> QED
    BY <2>1, <2>2, <2>3, <2>4 DEF IInv
<1>10. CASE CpuExec
  <2>1. q' \in Queues /\ QueueInv'
    <3>1. CASE (rr_in_replay => q.num > 0) /\ ~exit_request
      BY <1>2, <1>10, <3>1, SetPoint, SMTT(30) DEF CpuExec, rr_set_program_point
    <3>2. CASE ~((rr_in_replay => q.num > 0) /\ ~exit_request)
      BY <1>1, <1>10, <3>2, QueueFrame, SMTT(30)
         DEF CpuExec, QueueInv, TypeOK, rr_in_replay
    <3> QED
      BY <3>1, <3>2, SMTT(30)
  <2>2. LogInv'
    BY <1>2, <1>10, LogFrame, SMTT(30) DEF CpuExec, rr_set_program_point
  <2>3. q.num \in Nat
    BY <1>1, LogAssumption, SMTT(30) DEF TypeOK, Queues, Word
  <2>4. tries' \in Nat \ {0} /\ saved_prog_point' \in RR_prog_point
    <3>1. LoopTries \in Nat \ {0}
      BY GuestAssumption
    <3> QED
      BY <1>1, <1>10, <3>1, SMTT(30) DEF CpuExec, TriesLeft, TypeOK
  <2>5. /\ left' \in Nat /\ rr_prog_point' \in RR_prog_point
        /\ cpu' = "run" => left' > 0 /\ icount + left' <= Len(Program)
        /\ cpu' \in {"run", "top"}
        /\ rr_prog_point'.count <= icount
    <3>1. CASE (rr_in_replay => q.num > 0) /\ ~exit_request
      <4>1. PICK n \in 1 .. MaxTB : left' = BlockLength(n) /\ icount + left' <= Len(Program)
        BY <1>10, <3>1, SMTT(30) DEF CpuExec
      <4>2. MaxTB \in Nat
        BY GuestAssumption
      <4>3. left' \in Nat /\ left' > 0
        BY <2>3, <3>1, <4>1, <4>2, SMTT(30) DEF BlockLength
      <4>4. rr_prog_point' = Here /\ cpu' = "run"
        BY <1>10, <3>1, SMTT(30) DEF CpuExec, rr_set_program_point
      <4> QED
        BY <1>2, <4>1, <4>3, <4>4, SMTT(30)
    <3>2. CASE ~((rr_in_replay => q.num > 0) /\ ~exit_request)
      BY <1>1, <1>2, <1>10, <3>2, SMTT(30) DEF CpuExec, TypeOK
    <3> QED
      BY <3>1, <3>2, SMTT(30)
  <2>6. TypeOK'
    BY <1>1, <1>10, <2>1, <2>4, <2>5, SMTT(30) DEF CpuExec, TypeOK, Stages
  <2>7. CpuInv'
    BY <1>1, <1>10, <2>5 DEF CpuExec, CpuInv
  <2> QED
    BY <2>1, <2>2, <2>6, <2>7 DEF IInv
<1> QED
  BY <1>3, <1>4, <1>5, <1>6, <1>7, <1>8, <1>9, <1>10, SMTT(30)

\* Steps of the CPU thread inside a block and inside a device access, and the
\* ways a replay dies.
LEMMA CpuBlockStep ==
    ASSUME IInv,
           \/ CpuCompute \/ CpuHalt \/ CpuAccessDevice \/ CpuReplayDeviceCall
           \/ CpuDeviceDone \/ CpuDies
    PROVE  IInv'
<1> USE DEF logvars, guest, loopvars, iovars, history
<1>1. TypeOK /\ LogInv /\ QueueInv /\ CpuInv
  BY SMTT(30) DEF IInv
<1>2. /\ icount \in rr_prog_point.count .. Len(Program)
      /\ Here \in RR_prog_point /\ Here.count = icount
      /\ icount \in Nat /\ rr_prog_point.count \in Nat /\ Len(Program) \in Nat
      /\ eip \in Nat /\ left \in Nat
  BY <1>1, HereOK, GuestAssumption DEF TypeOK, RR_prog_point
<1>3. Insn \subseteq Events
  BY DEF Insn, Events
<1>4. cpu = "run" => icount + 1 \in rr_prog_point.count .. Len(Program)
  BY <1>1, <1>2 DEF CpuInv
<1>5. CASE CpuCompute
  <2>1. LogInv'
    BY <1>2, <1>5, LogFrame, SMTT(30) DEF CpuCompute
  <2>2. QueueInv'
    BY <1>1, <1>5, QueueFrame, SMTT(30) DEF CpuCompute, QueueInv, rr_in_replay
  <2>3. acc' \in Data
    BY <1>1, <1>5 DEF CpuCompute, TypeOK
  <2>4. trace' \in Seq(Events \X Nat \X Nat \X Data)
    <3>1. NextInsn \in Events /\ Sees(NextInsn, acc')
      BY <1>5, <1>3, SMTT(30) DEF CpuCompute, InsnDone, Insn
    <3>2. icount' \in Nat /\ eip' \in Nat
      BY <1>2, <1>5, SMTT(30) DEF CpuCompute, InsnDone
    <3> QED
      BY <1>1, <2>3, <3>1, <3>2, SeesType, SMTT(30)
  <2>5. TypeOK'
    BY <1>1, <1>2, <1>4, <1>5, <2>3, <2>4, SMTT(30)
       DEF CpuCompute, InsnDone, TypeOK, CpuInv, Stages
  <2>6. CpuInv'
    BY <1>1, <1>2, <1>5 DEF CpuCompute, InsnDone, CpuInv
  <2> QED
    BY <2>1, <2>2, <2>5, <2>6, SMTT(30) DEF IInv
<1>6. CASE CpuHalt
  <2>1. q' \in Queues /\ QueueInv'
    BY <1>4, <1>6, SetPoint, SMTT(30) DEF CpuHalt
  <2>2. rr_prog_point' \in RR_prog_point /\ rr_prog_point'.count = icount + 1
    BY <1>2, <1>6, SMTT(30) DEF CpuHalt, RR_prog_point
  <2>3. LogInv'
    BY <1>2, <1>6, <2>2, LogFrame DEF CpuHalt
  <2>4. trace' \in Seq(Events \X Nat \X Nat \X Data)
    <3>1. "hlt" \in Events /\ Sees("hlt", acc) /\ acc \in Data
      BY <1>1, <1>6 DEF CpuHalt, Events, TypeOK
    <3>2. icount' \in Nat /\ eip' \in Nat
      BY <1>2, <1>6, SMTT(30) DEF CpuHalt
    <3> QED
      BY <1>1, <3>1, <3>2, SeesType, SMTT(30)
  <2>5. TypeOK'
    BY <1>1, <1>2, <1>4, <1>6, <2>1, <2>2, <2>4, SMTT(30) DEF CpuHalt, TypeOK, Stages
  <2>6. CpuInv'
    BY <1>1, <1>2, <1>6, <2>2, SMTT(30) DEF CpuHalt, CpuInv
  <2> QED
    BY <2>1, <2>3, <2>5, <2>6, SMTT(30) DEF IInv
<1>7. CASE CpuAccessDevice
  <2>1. /\ rr_prog_point' \in RR_prog_point /\ rr_prog_point'.count = icount + 1
        /\ q' = Advanced(icount + 1)
    BY <1>2, <1>7 DEF CpuAccessDevice, OpenWindow, RR_prog_point
  <2>2. q' \in Queues /\ QueueInv'
    BY <1>4, <1>7, <2>1, SetPoint, SMTT(30) DEF CpuAccessDevice
  <2>3. LogInv'
    BY <1>2, <1>7, <2>1, LogFrame, SMTT(30) DEF CpuAccessDevice
  <2>4. TypeOK'
    <3>1. /\ UNCHANGED <<rr_mode, log, rr_end_replay_requested, eip, acc, mem,
                         halted, trace, interrupt_request, exit_request,
                         loopvars, iovars, history, fatal>>
          /\ cpu' = "device" /\ rr_record_in_progress' = rr_in_record
          /\ rr_skipped_callsite_location' \in {"IO_READ", "IO_WRITE"}
      BY <1>7, SMTT(30) DEF CpuAccessDevice, OpenWindow
    <3>2. icount' \in 0 .. Len(Program)
      BY <1>2, <1>4, <1>7 DEF CpuAccessDevice
    <3>3. /\ rr_record_in_progress' \in BOOLEAN
          /\ rr_skipped_callsite_location' \in RR_callsite_id /\ cpu' \in Stages
      BY <3>1, SMTT(30) DEF rr_in_record, RR_callsite_id, Stages
    <3> QED
      BY <1>1, <2>1, <2>2, <3>1, <3>2, <3>3, SMTT(30) DEF TypeOK
  <2>5. CpuInv'
    BY <1>1, <1>2, <1>7, <2>1, SMTT(30) DEF CpuAccessDevice, OpenWindow, CpuInv
  <2> QED
    BY <2>2, <2>3, <2>4, <2>5 DEF IInv
<1>8. CASE CpuReplayDeviceCall
  <2>1. /\ q' \in Queues /\ QueueInv'
        /\ mem' \in Data /\ trace' \in Seq(Events \X Nat \X Nat \X Data)
    BY <1>8, SkippedCall DEF CpuReplayDeviceCall
  <2>2. LogInv'
    BY <1>2, <1>8, LogFrame, SMTT(30) DEF CpuReplayDeviceCall
  <2>3. TypeOK'
    <3>1. UNCHANGED <<rr_mode, log, rr_record_in_progress,
                      rr_skipped_callsite_location, rr_end_replay_requested,
                      icount, eip, acc, halted, interrupt_request, exit_request,
                      cpu, loopvars, iovars, history, fatal>>
      BY <1>8 DEF CpuReplayDeviceCall, ReplaySkippedCall
    <3>2. rr_prog_point' \in RR_prog_point
      BY <1>2, <1>8, SMTT(30) DEF CpuReplayDeviceCall
    <3> QED
      BY <1>1, <2>1, <3>1, <3>2, SMTT(30) DEF TypeOK
  <2>4. CpuInv'
    BY <1>1, <1>2, <1>8 DEF CpuReplayDeviceCall, ReplaySkippedCall, CpuInv
  <2> QED
    BY <2>1, <2>2, <2>3, <2>4 DEF IInv
<1>9. CASE CpuDeviceDone
  <2>1. /\ log' \in Seq(Entries) /\ q' \in Queues /\ acc' \in Data
        /\ LogInv' /\ QueueInv'
    BY <1>9, DeviceValueLemma, SMTT(30) DEF CpuDeviceDone
  <2>2. eip' = eip + 1 /\ icount' = icount
    BY <1>9 DEF CpuDeviceDone, InsnDone
  <2>3. trace' \in Seq(Events \X Nat \X Nat \X Data)
    <3>1. PICK k \in Events : Sees(k, acc')
      BY <1>9, SMTT(30) DEF CpuDeviceDone, InsnDone, Events
    <3> QED
      BY <1>1, <1>2, <2>1, <2>2, <3>1, SeesType, SMTT(30)
  <2>4. /\ left' \in Nat /\ cpu' \in Stages
        /\ cpu' = "run" => left' > 0 /\ icount + left' <= Len(Program)
        /\ cpu' \in {"interrupt4", "top", "run"}
    BY <1>1, <1>2, <1>9, SMTT(30) DEF CpuDeviceDone, InsnDone, CpuInv, Stages
  <2>5. TypeOK'
    <3>1. /\ rr_record_in_progress' = FALSE
          /\ UNCHANGED <<rr_mode, rr_prog_point, rr_skipped_callsite_location,
                         rr_end_replay_requested, mem, halted, interrupt_request,
                         exit_request, tries, saved_prog_point, iovars, history, fatal>>
      BY <1>9 DEF CpuDeviceDone, CloseWindow
    <3>2. /\ icount' \in 0 .. Len(Program) /\ eip' \in Nat
          /\ left' \in Nat /\ cpu' \in Stages
      BY <1>1, <1>2, <2>2, <2>4 DEF TypeOK
    <3>3. log' \in Seq(Entries) /\ q' \in Queues /\ acc' \in Data
      BY <2>1, SMTT(30)
    <3> QED
      BY <1>1, <2>3, <3>1, <3>2, <3>3, ZenonT(30) DEF TypeOK
  <2>6. CpuInv'
    BY <1>1, <1>2, <1>9, <2>2, <2>4 DEF CpuDeviceDone, CpuInv
  <2> QED
    BY <2>1, <2>5, <2>6, SMTT(30) DEF IInv
<1>10. CASE CpuDies
  <2>1. /\ UNCHANGED <<logvars, guest, interrupt_request, exit_request, cpu,
                       loopvars, iovars, history>>
        /\ fatal' \in Deaths
    BY <1>10, ZenonT(30) DEF CpuDies, Dies, Deaths
  <2>2. LogInv'
    BY <1>2, <2>1, LogFrame
  <2>3. QueueInv'
    BY <1>1, <2>1, QueueFrame, SMTT(30) DEF QueueInv, rr_in_replay
  <2>4. TypeOK'
    BY <1>1, <2>1, SMTT(30) DEF TypeOK
  <2>5. CpuInv'
    BY <1>1, <2>1 DEF CpuInv
  <2> QED
    BY <2>2, <2>3, <2>4, <2>5 DEF IInv
<1> QED
  BY <1>5, <1>6, <1>7, <1>8, <1>9, <1>10, SMTT(30)

=============================================================================
