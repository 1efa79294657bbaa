----------------------------- MODULE RecordReplay -----------------------------
(***************************************************************************)
(* One recording of a whole guest, then its replay: the CPU thread         *)
(* (cpu_exec in qemu/cpu-exec.c, entered from tcg_exec_all in qemu/cpus.c) *)
(* and the I/O thread (main_loop_wait in qemu/main-loop.c, called from     *)
(* main_loop in qemu/vl.c) take turns under the global mutex and share the *)
(* nondeterminism log of module RRLog.                                     *)
(*                                                                         *)
(* The guest is a program of Len(Program) dynamic instructions.  What the  *)
(* n-th instruction is may depend on the accumulator, so a wrong input     *)
(* sends a replay down another path.  "ld" reads memory, which devices     *)
(* write by DMA; "in" and "out" reach a device; "hlt" waits for an         *)
(* interrupt.  eip numbers the dynamic positions of the guest: it moves on *)
(* after every instruction and with every interrupt taken.                 *)
(*                                                                         *)
(* How many instructions a translation block holds is left open in both    *)
(* modes: it depends on the translator's buffers, hence on the             *)
(* instrumentation plugins add at replay, and record chains blocks while   *)
(* replay does not.                                                        *)
(***************************************************************************)
EXTENDS RRLog

CONSTANTS
    Program,     \* Program[n][acc] : kind of the n-th instruction
    Masked,      \* instruction counts at which the guest has interrupts off
    Data,        \* values devices produce
    MaxTB,       \* longest translation block
    LoopTries,   \* rr_loop_tries: 20 in the code
    MaxDev,      \* bound: device events (DMA, interrupt) in a recording
    MaxRec,      \* bound: I/O thread rounds in a recording
    MaxRep       \* bound: I/O thread rounds in a replay before it finished

Insn == {"nop", "ld", "in", "out", "hlt"}

ASSUME GuestAssumption ==
    /\ 0 \in Data /\ Data \subseteq Nat
    /\ Program \in Seq([Data -> Insn])
    /\ Masked \subseteq Nat
    /\ {MaxTB, MaxDev, MaxRec, MaxRep} \subseteq Nat
    /\ LoopTries \in Nat \ {0}
    /\ WordSize > Len(Program) + 1

VARIABLES
    rr_mode,                       \* "RECORD", "OFF", "REPLAY"
    log,                           \* the log file
    q,                             \* the replay queue and its countdown
    rr_prog_point,
    rr_record_in_progress,
    rr_skipped_callsite_location,
    rr_end_replay_requested,
    icount, eip, acc, mem, halted, \* guest: CPUState and memory
    interrupt_request,             \* env->interrupt_request
    exit_request,                  \* env->exit_request
    cpu,                           \* where the CPU thread is
    left,                          \* instructions left in the running block
    tries, saved_prog_point,       \* the replay loop detector of cpu_exec
    io,                            \* where the I/O thread is
    rounds, devs,                  \* use of the bounds
    trace,                         \* what the guest has seen so far
    recorded,                      \* the trace of the finished recording
    replayed,                      \* a replay of it has ended
    fatal                          \* why the process died

logvars  == <<rr_mode, log, q, rr_prog_point, rr_record_in_progress,
              rr_skipped_callsite_location, rr_end_replay_requested>>
guest    == <<icount, eip, acc, mem, halted, trace>>
loopvars == <<left, tries, saved_prog_point>>
iovars   == <<io, rounds, devs>>
history  == <<recorded, replayed>>
vars == <<logvars, guest, interrupt_request, exit_request, cpu, loopvars,
          iovars, history, fatal>>

rr_in_record == rr_mode = "RECORD"
rr_in_replay == rr_mode = "REPLAY"

(***************************************************************************)
(* Pieces of steps.                                                        *)
(***************************************************************************)

\* The guest's current point.
Here == [count |-> icount, pc |-> eip]

\* rr_set_prog_point, as far as the countdown is concerned.
Advanced_stuck(c) == q
Advanced(c) == [q EXCEPT !.num = Minus(@, c - rr_prog_point.count)]

rr_set_program_point ==
    rr_prog_point' = Here /\ q' = Advanced(icount)

\* rr_write_item: append an entry to the file.
rr_write_item(kind, site, point, val) ==
    log' = Append(log, Entry(kind, site, point, val))

\* The guest sees an event (an instruction, an interrupt, a DMA transfer).
Sees(kind, val) == trace' = Append(trace, <<kind, icount', eip', val>>)

\* rr_assert(0), abort() or a NULL dereference: the process ends here.
Dies(why) ==
    /\ fatal' = why
    /\ UNCHANGED <<logvars, guest, interrupt_request, exit_request, cpu,
                   loopvars, iovars, history>>

\* The queue get_next_entry looks at once the program point is up to date, and
\* its answer.
Queue == Refilled(log, Advanced(icount), Here)
get_next_entry(kind, site, check_callsite) ==
    NextEntry(log, Queue, Here, kind, site, check_callsite)

\* cpu_has_work: an interrupt the guest lets through is pending.
cpu_has_work == interrupt_request /\ icount \notin Masked

\* Device code may run: on the CPU thread inside an I/O instruction or an
\* interrupt acknowledge, on the I/O thread inside main_loop_wait.
DeviceRuns == rr_in_record /\ (cpu = "device" \/ io = "in")

(***************************************************************************)
(* The CPU thread.  cpu is "idle" outside cpu_exec, where the thread waits *)
(* for the mutex or for work; the other values are the stages of one       *)
(* iteration of cpu_exec's inner loop.                                     *)
(***************************************************************************)

\* The thread need not wait in qemu_tcg_wait_io_event, and cpu_exec does not
\* return at once: the guest is not halted or has work, or the interrupt that
\* ends its halt is due in the log.
Runnable_waits == ~halted \/ cpu_has_work
Runnable == ~halted \/ cpu_has_work \/ (rr_in_replay /\ q.num = 0)

\* qemu_tcg_wait_io_event returns, tcg_exec_all calls cpu_exec.
CpuEnter ==
    /\ cpu = "idle" /\ io = "away" /\ rr_mode # "OFF"
    /\ Runnable
    /\ halted' = FALSE
    /\ saved_prog_point' = rr_prog_point /\ tries' = LoopTries
    /\ rr_set_program_point
    /\ cpu' = "top"
    /\ UNCHANGED <<rr_mode, log, rr_record_in_progress,
                   rr_skipped_callsite_location, rr_end_replay_requested,
                   icount, eip, acc, mem, trace, interrupt_request,
                   exit_request, left, iovars, history, fatal>>

\* A skipped call (here: a DMA write) is handed to the guest from the log.
\* Only the main loop's call site refills the queue at once.
ReplaySkippedCall(site) ==
    /\ get_next_entry("SKIPPED_CALL", site, FALSE) = "take"
    /\ LET popped == Pop(Queue) IN
       q' = IF site = "MAIN_LOOP_WAIT" /\ IsEmpty(popped)
            THEN rr_fill_queue(log, popped, Here) ELSE popped
    /\ mem' = log[Queue.head].val
    /\ UNCHANGED <<icount, eip, acc, halted>>
    /\ Sees("dma", mem')

\* Top of the inner loop; in replay the I/O thread's calls are replayed here,
\* one per step, until the head of the queue is something else.
CpuTop ==
    /\ cpu = "top"
    /\ \/ rr_in_record /\ cpu' = "interrupt" /\ UNCHANGED <<guest, logvars>>
       \/ /\ rr_in_replay
          /\ rr_skipped_callsite_location' = "MAIN_LOOP_WAIT"
          /\ rr_prog_point' = Here
          /\ \/ ReplaySkippedCall("MAIN_LOOP_WAIT") /\ cpu' = "top"
             \/ /\ get_next_entry("SKIPPED_CALL", "MAIN_LOOP_WAIT", FALSE) = "none"
                /\ q' = Queue /\ cpu' = "interrupt"
                /\ UNCHANGED guest
          /\ UNCHANGED <<rr_mode, log, rr_record_in_progress,
                         rr_end_replay_requested>>
    /\ UNCHANGED <<interrupt_request, exit_request, loopvars, iovars, history,
                   fatal>>

\* rr_interrupt_request at a call site: record logs a pending request, replay
\* takes the request from the log (none logged: none pending) and refills.
rr_interrupt_request(site) ==
    /\ rr_skipped_callsite_location' = site
    /\ rr_prog_point' = Here
    /\ \/ /\ rr_in_record
          /\ q' = Advanced(icount)
          /\ IF interrupt_request
             THEN rr_write_item("INTERRUPT_REQUEST", site, Here, 1)
             ELSE UNCHANGED log
          /\ UNCHANGED interrupt_request
       \/ /\ rr_in_replay
          /\ get_next_entry("INTERRUPT_REQUEST", site, TRUE) = "take"
          /\ IsEmpty(Pop(Queue))
          /\ q' = rr_fill_queue(log, Pop(Queue), Here)
          /\ interrupt_request' = TRUE
          /\ UNCHANGED log
       \/ /\ rr_in_replay
          /\ get_next_entry("INTERRUPT_REQUEST", site, TRUE) = "none"
          /\ q' = Queue
          /\ interrupt_request' = FALSE
          /\ UNCHANGED log

\* Read the interrupt request (call site CPU_EXEC_1) and see what it asks for.
CpuCheckInterrupt ==
    /\ cpu = "interrupt"
    /\ rr_interrupt_request("CPU_EXEC_1")
    /\ cpu' = IF ~interrupt_request' THEN "exit"
              ELSE IF icount \in Masked THEN "interrupt4" ELSE "acknowledge"
    /\ UNCHANGED <<rr_mode, rr_record_in_progress, rr_end_replay_requested,
                   guest, exit_request, loopvars, iovars, history, fatal>>

\* RR_DO_RECORD_OR_REPLAY opens: point p and call site are set, and in record
\* the window in which device activity is logged begins.
OpenWindow(site, p) ==
    /\ rr_skipped_callsite_location' = site
    /\ rr_prog_point' = p
    /\ q' = Advanced(p.count)
    /\ rr_record_in_progress' = rr_in_record
    /\ cpu' = "device"

\* The hard interrupt is accepted; the PIC is about to be asked for its number.
CpuAcknowledge ==
    /\ cpu = "acknowledge"
    /\ interrupt_request' = FALSE
    /\ OpenWindow("CPU_EXEC_2", Here)
    /\ UNCHANGED <<rr_mode, log, rr_end_replay_requested, guest, exit_request,
                   loopvars, iovars, history, fatal>>

\* After the interrupt was handled the request is read again.
CpuRecheckInterrupt ==
    /\ cpu = "interrupt4"
    /\ rr_interrupt_request("CPU_EXEC_4")
    /\ cpu' = "exit"
    /\ UNCHANGED <<rr_mode, rr_record_in_progress, rr_end_replay_requested,
                   guest, exit_request, loopvars, iovars, history, fatal>>

\* Leave cpu_exec if the thread was kicked.
CpuCheckExit ==
    /\ cpu = "exit"
    /\ \/ exit_request /\ cpu' = "idle" /\ rr_set_program_point
       \/ ~exit_request /\ cpu' = "exec" /\ UNCHANGED <<rr_prog_point, q>>
    /\ exit_request' = FALSE
    /\ UNCHANGED <<rr_mode, log, rr_record_in_progress,
                   rr_skipped_callsite_location, rr_end_replay_requested,
                   guest, interrupt_request, loopvars, iovars, history, fatal>>

\* The end of the log was reached: ask the main loop to end the replay, and
\* go round (the outer loop sets the program point) until it does.
CpuFinishReplay ==
    /\ cpu = "exec" /\ rr_in_replay
    /\ ~(rr_log_is_empty(log, q) /\ IsEmpty(q))
    /\ rr_replay_finished(log, q, rr_prog_point)
    /\ rr_end_replay_requested' = TRUE
    /\ rr_set_program_point
    /\ cpu' = "top"
    /\ UNCHANGED <<rr_mode, log, rr_record_in_progress,
                   rr_skipped_callsite_location, guest, interrupt_request,
                   exit_request, loopvars, iovars, history, fatal>>

\* The value of rr_loop_tries after this iteration's check.
TriesLeft == IF rr_prog_point = saved_prog_point THEN tries - 1 ELSE LoopTries

\* How much of a block of n instructions is translated.
BlockLength_uncut(n) == n
BlockLength(n) == IF rr_in_replay /\ n > q.num THEN q.num ELSE n

\* Find a block of n instructions and run it, unless the countdown is at zero
\* (replay) or the thread was kicked.  In replay a block longer than the
\* countdown is retranslated to end with it.
CpuExec ==
    /\ cpu = "exec"
    /\ IF rr_in_replay
       THEN /\ ~(rr_log_is_empty(log, q) /\ IsEmpty(q))
            /\ ~rr_replay_finished(log, q, rr_prog_point)
            /\ TriesLeft # 0
            /\ tries' = TriesLeft /\ saved_prog_point' = rr_prog_point
       ELSE UNCHANGED <<tries, saved_prog_point>>
    /\ IF (rr_in_replay => q.num > 0) /\ ~exit_request
       THEN /\ \E n \in 1 .. MaxTB :
                 /\ left' = BlockLength(n)
                 /\ icount + left' <= Len(Program)
            /\ rr_set_program_point
            /\ cpu' = "run"
       ELSE /\ cpu' = "top"
            /\ UNCHANGED <<left, q, rr_prog_point>>
    /\ UNCHANGED <<rr_mode, log, rr_record_in_progress,
                   rr_skipped_callsite_location, rr_end_replay_requested,
                   guest, interrupt_request, exit_request, iovars, history,
                   fatal>>

\* The instruction about to run, and what its execution counts as.
NextInsn == Program[icount + 1][acc]

\* One instruction of the block is complete; the block may be, too.
InsnDone(k) ==
    /\ eip' = eip + 1
    /\ left' = left - 1
    /\ cpu' = IF left = 1 THEN "top" ELSE "run"
    /\ Sees(k, acc')

\* An instruction without outside effects.
CpuCompute ==
    /\ cpu = "run" /\ NextInsn \in {"nop", "ld"}
    /\ icount' = icount + 1
    /\ acc' = IF NextInsn = "ld" THEN mem ELSE acc
    /\ InsnDone(NextInsn)
    /\ UNCHANGED <<logvars, mem, halted, interrupt_request, exit_request, tries,
                   saved_prog_point, iovars, history, fatal>>

\* hlt leaves cpu_exec with EXCP_HLT, by way of the outer loop.
CpuHalt ==
    /\ cpu = "run" /\ NextInsn = "hlt"
    /\ icount' = icount + 1 /\ eip' = eip + 1
    /\ halted' = TRUE /\ left' = 0
    /\ rr_prog_point' = [count |-> icount', pc |-> eip']
    /\ q' = Advanced(icount')
    /\ cpu' = "idle"
    /\ Sees("hlt", acc)
    /\ UNCHANGED <<rr_mode, log, rr_record_in_progress,
                   rr_skipped_callsite_location, rr_end_replay_requested, acc,
                   mem, interrupt_request, exit_request, tries,
                   saved_prog_point, iovars, history, fatal>>

\* An instruction that reaches a device: RR_DO_RECORD_OR_REPLAY opens.
CpuAccessDevice ==
    /\ cpu = "run" /\ NextInsn \in {"in", "out"}
    /\ icount' = icount + 1
    /\ OpenWindow(IF NextInsn = "in" THEN "IO_READ" ELSE "IO_WRITE",
                  [count |-> icount + 1, pc |-> eip])
    /\ UNCHANGED <<rr_mode, log, rr_end_replay_requested, eip, acc, mem, halted,
                   trace, interrupt_request, exit_request, loopvars, iovars,
                   history, fatal>>

\* In replay, a device access first replays the calls recorded inside it.
CpuReplayDeviceCall ==
    /\ cpu = "device" /\ rr_in_replay
    /\ ReplaySkippedCall(rr_skipped_callsite_location)
    /\ rr_prog_point' = Here
    /\ UNCHANGED <<rr_mode, log, rr_record_in_progress,
                   rr_skipped_callsite_location, rr_end_replay_requested,
                   interrupt_request, exit_request, cpu, loopvars, iovars,
                   history, fatal>>

\* The access's own value: chosen by the device and logged in record, read
\* from the log in replay.  A write has none.
DeviceValue ==
    LET site == rr_skipped_callsite_location IN
    \/ /\ site = "IO_WRITE"
       /\ q' = IF rr_in_replay THEN Queue ELSE q
       /\ UNCHANGED <<acc, log>>
    \/ /\ site # "IO_WRITE" /\ rr_in_record
       /\ \E v \in Data : acc' = v
       /\ rr_write_item("INPUT", site, rr_prog_point, acc')
       /\ UNCHANGED q
    \/ /\ site # "IO_WRITE" /\ rr_in_replay
       /\ get_next_entry("INPUT", site, FALSE) = "take"
       /\ log[Queue.head].site = site
       /\ acc' = log[Queue.head].val
       /\ q' = Pop(Queue)
       /\ UNCHANGED log

\* The window of the recording closes.
CloseWindow_longjmp == UNCHANGED rr_record_in_progress
CloseWindow == rr_record_in_progress' = FALSE

\* RR_DO_RECORD_OR_REPLAY closes; the instruction completes, or the guest
\* enters its interrupt handler.
CpuDeviceDone ==
    /\ cpu = "device"
    /\ rr_in_replay =>
          get_next_entry("SKIPPED_CALL", rr_skipped_callsite_location, FALSE) = "none"
    /\ DeviceValue
    /\ CloseWindow
    /\ UNCHANGED icount
    /\ \/ /\ rr_skipped_callsite_location = "CPU_EXEC_2"
          /\ eip' = eip + 1 /\ cpu' = "interrupt4"
          /\ Sees("irq", acc')
          /\ UNCHANGED left
       \/ /\ rr_skipped_callsite_location # "CPU_EXEC_2"
          /\ InsnDone(IF rr_skipped_callsite_location = "IO_READ" THEN "in" ELSE "out")
    /\ UNCHANGED <<rr_mode, rr_prog_point, rr_skipped_callsite_location,
                   rr_end_replay_requested, mem, halted, interrupt_request,
                   exit_request, tries, saved_prog_point, iovars, history, fatal>>

\* The ways a replay ends in abort() or a crash.
CpuDies ==
    /\ rr_in_replay
    /\ \/ /\ cpu = "top"
          /\ get_next_entry("SKIPPED_CALL", "MAIN_LOOP_WAIT", FALSE) = "ahead"
          /\ Dies("ahead of log")
       \/ /\ cpu \in {"interrupt", "interrupt4"}
          /\ LET a == get_next_entry("INTERRUPT_REQUEST",
                          IF cpu = "interrupt" THEN "CPU_EXEC_1" ELSE "CPU_EXEC_4", TRUE)
             IN  \/ a = "ahead" /\ Dies("ahead of log")
                 \/ a = "take" /\ ~IsEmpty(Pop(Queue)) /\ Dies("queue not empty")
       \/ /\ cpu = "device"
          /\ get_next_entry("SKIPPED_CALL", rr_skipped_callsite_location, FALSE) = "ahead"
          /\ Dies("ahead of log")
       \/ /\ cpu = "device" /\ rr_skipped_callsite_location # "IO_WRITE"
          /\ get_next_entry("SKIPPED_CALL", rr_skipped_callsite_location, FALSE) = "none"
          /\ LET a == get_next_entry("INPUT", rr_skipped_callsite_location, FALSE)
             IN  \/ a = "ahead" /\ Dies("ahead of log")
                 \/ a = "none" /\ Dies("no input")
                 \/ /\ a = "take"
                    /\ log[Queue.head].site # rr_skipped_callsite_location
                    /\ Dies("wrong call site")
       \/ /\ cpu = "exec" /\ rr_log_is_empty(log, q) /\ IsEmpty(q)
          /\ Dies("NULL queue head")
       \/ /\ cpu = "exec" /\ ~(rr_log_is_empty(log, q) /\ IsEmpty(q))
          /\ ~rr_replay_finished(log, q, rr_prog_point) /\ TriesLeft = 0
          /\ Dies("infinite loop")

(***************************************************************************)
(* Devices, and the I/O thread.                                            *)
(***************************************************************************)

\* A device writes guest memory (cpu_physical_memory_rw); logged only while a
\* window is open.
DeviceDMA ==
    /\ DeviceRuns /\ devs < MaxDev
    /\ devs' = devs + 1
    /\ \E v \in Data : mem' = v
    /\ IF rr_record_in_progress
       THEN rr_write_item("SKIPPED_CALL", rr_skipped_callsite_location,
                          rr_prog_point, mem')
       ELSE UNCHANGED log
    /\ UNCHANGED <<icount, eip, acc, halted>>
    /\ Sees("dma", mem')
    /\ UNCHANGED <<rr_mode, q, rr_prog_point, rr_record_in_progress,
                   rr_skipped_callsite_location, rr_end_replay_requested,
                   interrupt_request, exit_request, cpu, loopvars, io, rounds,
                   history, fatal>>

\* A device raises its interrupt line (cpu_interrupt).
DeviceInterrupt ==
    /\ DeviceRuns /\ devs < MaxDev /\ ~interrupt_request
    /\ devs' = devs + 1
    /\ interrupt_request' = TRUE
    /\ UNCHANGED <<logvars, guest, exit_request, cpu, loopvars, io, rounds,
                   history, fatal>>

\* select() returned: ask for the mutex, and kick the CPU thread if it has it.
IORequest ==
    /\ io = "away" /\ rr_mode # "OFF"
    /\ \/ rounds < IF rr_in_record THEN MaxRec ELSE MaxRep
       \/ rr_end_replay_requested
    /\ rounds' = IF rr_end_replay_requested THEN rounds ELSE rounds + 1
    /\ io' = "want"
    /\ exit_request' = (exit_request \/ cpu # "idle")
    /\ UNCHANGED <<logvars, guest, interrupt_request, cpu, loopvars, devs,
                   history, fatal>>

\* The mutex is free: main_loop_wait runs its handlers, as one window of the
\* recording.  rr_set_program_point does nothing off the CPU thread.
IOLock ==
    /\ io = "want" /\ cpu = "idle"
    /\ io' = "in"
    /\ rr_record_in_progress' = rr_in_record
    /\ rr_skipped_callsite_location' =
          IF rr_in_record THEN "MAIN_LOOP_WAIT" ELSE rr_skipped_callsite_location
    /\ UNCHANGED <<rr_mode, log, q, rr_prog_point, rr_end_replay_requested, guest,
                   interrupt_request, exit_request, cpu, loopvars, rounds, devs,
                   history, fatal>>

\* main_loop_wait is over and nothing is to begin or to end.
IOUnlock ==
    /\ io = "in" /\ rr_mode # "OFF" /\ ~rr_end_replay_requested
    /\ io' = "away"
    /\ CloseWindow
    /\ UNCHANGED <<rr_mode, log, q, rr_prog_point, rr_skipped_callsite_location,
                   rr_end_replay_requested, guest, interrupt_request,
                   exit_request, cpu, loopvars, rounds, devs, history, fatal>>

\* rr_reset_state, the log's share of it; it also zeroes icount.
rr_reset_state ==
    /\ rr_prog_point' = ZeroPoint
    /\ rr_record_in_progress' = FALSE
    /\ rr_skipped_callsite_location' = "none"
    /\ icount' = 0

\* Where rr_record_end_of_log puts the end marker.
EndOfLog_reset == ZeroPoint
EndOfLog == rr_prog_point

\* The user ends the recording; main_loop writes the end marker at the last
\* point the CPU thread set, and closes the file.
EndRecord ==
    /\ io = "in" /\ rr_in_record
    /\ rr_write_item("LAST", "LAST", EndOfLog, 0)
    /\ rr_mode' = "OFF"
    /\ rr_reset_state
    /\ recorded' = trace
    /\ UNCHANGED <<q, rr_end_replay_requested, eip, acc, mem, halted, trace,
                   interrupt_request, exit_request, cpu, loopvars, iovars,
                   replayed, fatal>>

\* The snapshot is loaded, the log opened, the queue filled.
BeginReplay ==
    /\ io = "in" /\ rr_mode = "OFF" /\ ~replayed
    /\ eip' = 1 /\ acc' = 0 /\ mem' = 0 /\ halted' = FALSE /\ trace' = <<>>
    /\ interrupt_request' = FALSE
    /\ rr_reset_state
    /\ rr_mode' = "REPLAY"
    /\ q' = rr_fill_queue(log, [head |-> 1, pos |-> 0, num |-> q.num], ZeroPoint)
    /\ io' = "away" /\ rounds' = 0
    /\ UNCHANGED <<log, rr_end_replay_requested, exit_request, cpu, loopvars,
                   devs, history, fatal>>

\* main_loop honours the request to end the replay; the queue is freed.
EndReplay ==
    /\ io = "in" /\ rr_in_replay /\ rr_end_replay_requested
    /\ rr_mode' = "OFF" /\ rr_end_replay_requested' = FALSE
    /\ q' = [q EXCEPT !.head = q.pos + 1]
    /\ replayed' = TRUE
    /\ UNCHANGED <<log, rr_prog_point, rr_record_in_progress,
                   rr_skipped_callsite_location, guest, interrupt_request,
                   exit_request, cpu, loopvars, iovars, recorded, fatal>>

(***************************************************************************)
(* The specification.  Recording starts with the CPU thread outside        *)
(* cpu_exec, right after the snapshot was taken.                           *)
(***************************************************************************)

Init ==
    /\ rr_mode = "RECORD" /\ log = <<>>
    /\ q = [head |-> 1, pos |-> 0, num |-> 0]
    /\ rr_prog_point = ZeroPoint
    /\ rr_record_in_progress = FALSE
    /\ rr_skipped_callsite_location = "none"
    /\ rr_end_replay_requested = FALSE
    /\ icount = 0 /\ eip = 1 /\ acc = 0 /\ mem = 0 /\ halted = FALSE
    /\ trace = <<>>
    /\ interrupt_request = FALSE /\ exit_request = FALSE
    /\ cpu = "idle" /\ left = 0
    /\ tries = LoopTries /\ saved_prog_point = ZeroPoint
    /\ io = "away" /\ rounds = 0 /\ devs = 0
    /\ recorded = <<>> /\ replayed = FALSE
    /\ fatal = "none"

CpuStep ==
    \/ CpuEnter \/ CpuTop \/ CpuCheckInterrupt \/ CpuAcknowledge
    \/ CpuRecheckInterrupt \/ CpuCheckExit \/ CpuFinishReplay \/ CpuExec
    \/ CpuCompute \/ CpuHalt \/ CpuAccessDevice \/ CpuReplayDeviceCall
    \/ CpuDeviceDone \/ CpuDies

DeviceStep == DeviceDMA \/ DeviceInterrupt

IOStep ==
    \/ IORequest \/ IOLock \/ IOUnlock \/ EndRecord \/ BeginReplay \/ EndReplay

Next == fatal = "none" /\ (CpuStep \/ DeviceStep \/ IOStep)

(***************************************************************************)
(* Fairness: both threads keep running, and a wait for the mutex ends once *)
(* the other thread has let go of it.  Devices owe nothing.                *)
(***************************************************************************)
Spec == Init /\ [][Next]_vars
FairSpec == Spec /\ WF_vars(Next /\ CpuStep) /\ WF_vars(Next /\ IOStep)

(***************************************************************************)
(* Properties.                                                             *)
(***************************************************************************)

Events == {"nop", "ld", "in", "out", "hlt", "irq", "dma"}

Stages == {"idle", "top", "interrupt", "acknowledge", "device", "interrupt4",
           "exit", "exec", "run"}

Deaths == {"ahead of log", "queue not empty", "no input", "wrong call site",
           "NULL queue head", "infinite loop"}

Entries == [kind : RR_log_entry_kind, site : RR_callsite_id,
            point : RR_prog_point, val : Nat]

\* Every variable of the record/replay state has its type.
TypeOK ==
    /\ rr_mode \in {"RECORD", "OFF", "REPLAY"}
    /\ log \in Seq(Entries)
    /\ q \in Queues
    /\ rr_prog_point \in RR_prog_point
    /\ rr_record_in_progress \in BOOLEAN
    /\ rr_skipped_callsite_location \in RR_callsite_id
    /\ rr_end_replay_requested \in BOOLEAN
    /\ icount \in 0 .. Len(Program) /\ eip \in Nat
    /\ acc \in Data /\ mem \in Data
    /\ halted \in BOOLEAN
    /\ trace \in Seq(Events \X Nat \X Nat \X Data)
    /\ interrupt_request \in BOOLEAN /\ exit_request \in BOOLEAN
    /\ cpu \in Stages /\ left \in Nat
    /\ tries \in Nat \ {0} /\ saved_prog_point \in RR_prog_point
    /\ io \in {"away", "want", "in"} /\ rounds \in Nat /\ devs \in Nat
    /\ recorded \in Seq(Events \X Nat \X Nat \X Data)
    /\ replayed \in BOOLEAN
    /\ fatal \in Deaths \cup {"none"}

\* No replay of a complete recording dies: it is never ahead of the log, finds
\* every input it asks for, and is never taken for an infinite loop.
ReplaySurvives == fatal = "none"

\* The countdown is exactly the distance to the last entry read from the file,
\* an entry the CPU must stop at (rr_fill_queue and rr_set_prog_point together),
\* and neither the guest nor the block it is running goes beyond that entry.
StopsInTime ==
    rr_in_replay =>
        /\ CountsDown(log, q, rr_prog_point.count)
        /\ icount <= log[q.pos].point.count
        /\ cpu = "run" => icount + left <= log[q.pos].point.count
        /\ cpu = "device" /\ rr_skipped_callsite_location # "CPU_EXEC_2" =>
              icount + left <= log[q.pos].point.count + 1

\* The assertion of rr_fill_queue that the queue is empty holds at every call,
\* and rr_replay_finished never looks at the head of an empty queue.
QueueSound == fatal \notin {"queue not empty", "NULL queue head"}

\* The counts of the log never go back, and nothing follows the end marker.
LogOrdered ==
    \A i, j \in 1 .. Len(log) : i < j =>
        /\ log[i].point.count <= log[j].point.count
        /\ log[i].kind # "LAST"

\* A recording window is open in exactly one thread, the one that has the
\* mutex, under that thread's call site, and whenever device code runs.
WindowOwned ==
    rr_in_record =>
        /\ rr_record_in_progress <=> (cpu = "device" \/ io = "in")
        /\ ~(cpu # "idle" /\ io = "in")
        /\ rr_record_in_progress =>
              (io = "in") = (rr_skipped_callsite_location = "MAIN_LOOP_WAIT")

\* A replay is never ahead of the entry at the head of its queue: the
\* contention of rr_prog_point_compare (rr_log_all.h).  It holds while no
\* stretch of the log makes rr_fill_queue give up (ReplaySurvives,
\* GuestStopsInTime); a longer stretch leaves the CPU without a countdown.
NeverAhead == fatal # "ahead of log"

(***************************************************************************)
(* The inductive invariant behind the safety properties.                   *)
(***************************************************************************)

\* The log: counts within the program, values of the right type; a recording
\* has no end marker yet and has not passed its own point, a finished one ends
\* with the marker.
LogInv ==
    /\ \A i \in 1 .. Len(log) :
          /\ log[i].point.count <= Len(Program)
          /\ log[i].kind \in {"INPUT", "SKIPPED_CALL"} => log[i].val \in Data
    /\ LogOrdered
    /\ rr_in_record => \A i \in 1 .. Len(log) :
          log[i].point.count <= rr_prog_point.count /\ log[i].kind # "LAST"
    /\ ~rr_in_record => Len(log) > 0 /\ log[Len(log)].kind = "LAST"

\* The queue; the end marker is never handed out.
QueueInv ==
    /\ QueueOK(log, q)
    /\ rr_in_replay => q.head <= Len(log)

\* The CPU thread: how the program point, the block and the call site agree
\* with the stage of the loop, and that it and the I/O thread exclude each
\* other.
CpuInv ==
    /\ rr_prog_point.count <= icount
    /\ cpu \in {"device", "exit", "exec"} => rr_prog_point.count = icount
    /\ cpu = "run" => left > 0 /\ icount + left <= Len(Program)
    /\ cpu = "device" =>
          /\ rr_skipped_callsite_location \in {"IO_READ", "IO_WRITE", "CPU_EXEC_2"}
          /\ rr_skipped_callsite_location # "CPU_EXEC_2" =>
                left > 0 /\ icount + left <= Len(Program) + 1
    /\ cpu # "idle" => io # "in"
    /\ rr_mode = "OFF" => cpu = "idle" /\ io = "in"

IInv == TypeOK /\ LogInv /\ QueueInv /\ CpuInv
=============================================================================
