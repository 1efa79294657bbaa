------------------------------ MODULE RRSession ------------------------------
(***************************************************************************)
(* Record and replay sessions: the monitor commands of qemu/rr_log.c set   *)
(* request flags, and main_loop in qemu/vl.c acts on them after each       *)
(* main_loop_wait.                                                         *)
(*                                                                         *)
(* The I/O thread waits in select() without the global mutex; that is when *)
(* the CPU thread runs.  It then takes the mutex and keeps it while the    *)
(* handlers run and main_loop looks at the flags.  Each monitor is read    *)
(* one byte per round (monitor_can_read), so it runs at most one command a *)
(* round; a machine can have several monitors.                             *)
(*                                                                         *)
(* A recording is two files, a snapshot and a log.  Recordings are         *)
(* numbered, so that a snapshot and a log that belong together can be told *)
(* from two that do not.                                                   *)
(***************************************************************************)
EXTENDS Naturals

CONSTANTS
    Names,          \* names of recordings
    NoName,         \* no name
    Monitors,       \* monitors of the machine
    MaxSessions     \* bound: recordings begun

ASSUME SessionAssumption ==
    /\ NoName \notin Names
    /\ MaxSessions \in Nat

VARIABLES
    rr_mode,
    requested,      \* the rr_..._requested flags, rr_requested_name, shutdown
    rr_nondet_log,  \* the open log
    queue,          \* the replay queue is not empty
    timers,         \* the alarm timer is running
    running,        \* RUN_STATE_RUNNING
    at,             \* where the I/O thread is
    ready,          \* monitors that may still run a command this round
    snapshot,       \* <name>-rr-snp: its recording, 0 if there is none to load
    file,           \* <name>-rr-nondet.log
    loaded,         \* recording whose snapshot the replay loaded, or 0
    sessions,       \* recordings begun
    first,          \* recordings begun before this process
    clean,          \* history: in this process no session was asked for while
                    \* another was on or asked for, and no file failed
    fatal           \* the assertion that ended the process

session == <<rr_mode, rr_nondet_log, queue, timers, loaded>>
disk == <<snapshot, file, sessions>>
vars == <<session, disk, requested, running, at, ready, first, clean, fatal>>

NoLog == [name |-> NoName, type |-> "OFF"]
NoFile == [id |-> 0, complete |-> FALSE]
NoRequest == [record |-> 0, replay |-> FALSE, end_record |-> FALSE,
              end_replay |-> FALSE, shutdown |-> FALSE, name |-> NoName]

rr_in_record == rr_mode = "RECORD"
rr_in_replay == rr_mode = "REPLAY"

\* No session is on or asked for.
Idle == rr_mode = "OFF" /\ requested.record = 0 /\ ~requested.replay

\* There is room for one more recording.
Room == requested.record # 0 \/ sessions < MaxSessions

(***************************************************************************)
(* Monitor commands, run by main_loop_wait's handlers.                     *)
(***************************************************************************)

\* begin_record (1) and begin_record_from (2).
qmp_begin_record(n, how) ==
    /\ Room
    /\ requested' = [requested EXCEPT !.record = how, !.name = n]
    /\ clean' = (clean /\ Idle)
    /\ UNCHANGED running

qmp_begin_replay(n) ==
    /\ requested' = [requested EXCEPT !.replay = TRUE, !.name = n]
    /\ clean' = (clean /\ Idle)
    /\ UNCHANGED running

qmp_end_record ==
    /\ running' = FALSE
    /\ requested' = [requested EXCEPT !.end_record = TRUE]
    /\ UNCHANGED clean

qmp_end_replay ==
    /\ running' = FALSE
    /\ requested' = [requested EXCEPT !.end_replay = TRUE]
    /\ UNCHANGED clean

qmp_stop == running' = FALSE /\ UNCHANGED <<requested, clean>>
do_cont == running' = TRUE /\ UNCHANGED <<requested, clean>>

qmp_quit ==
    /\ requested' = [requested EXCEPT !.shutdown = TRUE]
    /\ UNCHANGED <<running, clean>>

MonitorCommand(m) ==
    /\ at = "handlers" /\ m \in ready
    /\ ready' = ready \ {m}
    /\ \/ \E n \in Names, how \in {1, 2} : qmp_begin_record(n, how)
       \/ \E n \in Names : qmp_begin_replay(n)
       \/ qmp_end_record
       \/ qmp_end_replay
       \/ qmp_stop
       \/ do_cont
       \/ qmp_quit
    /\ UNCHANGED <<session, disk, at, first, fatal>>

\* The CPU thread asks for the end of a replay: the log is at its end, or a
\* plugin calls panda_end_replay.
panda_end_replay ==
    /\ at = "select" /\ running
    /\ requested' = [requested EXCEPT !.end_replay = TRUE]
    /\ UNCHANGED <<session, disk, running, at, ready, first, clean, fatal>>

(***************************************************************************)
(* main_loop.                                                              *)
(***************************************************************************)

\* select() returned and the mutex was taken; then the handlers are done.
main_loop_wait ==
    /\ \/ at = "select" /\ at' = "handlers" /\ ready' = Monitors
       \/ at = "handlers" /\ at' = "begin_record" /\ ready' = {}
    /\ UNCHANGED <<session, disk, requested, running, first, clean, fatal>>

\* do_savevm_rr: the file cannot be opened, or the write fails half way.
do_savevm_rr_once(n, id) ==
    /\ snapshot' = IF snapshot[n] = 0 THEN [snapshot EXCEPT ![n] = id] ELSE snapshot
    /\ UNCHANGED clean
do_savevm_rr(n, id) ==
    \/ snapshot' = [snapshot EXCEPT ![n] = id] /\ UNCHANGED clean
    \/ UNCHANGED snapshot /\ clean' = FALSE
    \/ snapshot' = [snapshot EXCEPT ![n] = 0] /\ clean' = FALSE

\* rr_create_record_log: the file is emptied; a log that was open stays open
\* and is forgotten.
rr_create_record_log(n, id) ==
    \/ /\ file' = [file EXCEPT ![n] = [id |-> id, complete |-> FALSE]]
       /\ rr_nondet_log' = [name |-> n, type |-> "RECORD"]
       /\ rr_mode' = "RECORD"
       /\ UNCHANGED fatal
    \/ fatal' = "log not opened" /\ UNCHANGED <<file, rr_nondet_log, rr_mode>>

\* The result of the snapshot is returned, and ignored by main_loop.
rr_do_begin_record ==
    /\ do_savevm_rr(requested.name, sessions + 1)
    /\ rr_create_record_log(requested.name, sessions + 1)
    /\ sessions' = sessions + 1
    /\ UNCHANGED <<queue, timers, loaded>>

BeginRecord ==
    /\ at = "begin_record"
    /\ \/ requested.record # 0 /\ rr_do_begin_record
       \/ requested.record = 0 /\ UNCHANGED <<session, disk, clean, fatal>>
    /\ at' = IF fatal' = "none" THEN "begin_replay" ELSE "gone"
    /\ requested' = [requested EXCEPT !.record = 0]
    /\ UNCHANGED <<running, ready, first>>

\* rr_create_replay_log asserts that there is a file with a header.  What
\* stdio has written of a log that was not closed is not known.
rr_create_replay_log(n) ==
    /\ file[n] # NoFile
    /\ rr_nondet_log' = [name |-> n, type |-> "REPLAY"]
    /\ rr_mode' = "REPLAY"

NoReplayLog(n) ==
    /\ ~file[n].complete
    /\ fatal' = "log not opened"
    /\ UNCHANGED <<rr_nondet_log, rr_mode, queue>>

\* rr_fill_queue, as rr_do_begin_replay calls it, asserts that the queue is
\* empty.  A log without end marker may have no entry to put in it.
FirstFill(n) ==
    \/ queue /\ fatal' = "queue not empty" /\ UNCHANGED queue
    \/ ~queue /\ queue' = TRUE /\ UNCHANGED fatal
    \/ ~queue /\ ~file[n].complete /\ UNCHANGED <<queue, fatal>>

\* A snapshot that cannot be loaded is ignored.
rr_do_begin_replay(n) ==
    /\ loaded' = snapshot[n]
    /\ \/ rr_create_replay_log(n) /\ FirstFill(n)
       \/ NoReplayLog(n)

BeginReplay ==
    /\ at = "begin_replay"
    /\ \/ requested.replay /\ rr_do_begin_replay(requested.name)
                           /\ timers' = FALSE
       \/ ~requested.replay /\ UNCHANGED <<session, fatal>>
    /\ at' = IF fatal' = "none" THEN "end_record" ELSE "gone"
    /\ requested' = [requested EXCEPT !.replay = FALSE]
    /\ UNCHANGED <<disk, running, ready, first, clean>>

\* rr_do_end_record: end marker, close, mode.
rr_do_end_record ==
    /\ file' = [file EXCEPT ![rr_nondet_log.name].complete = TRUE]
    /\ rr_nondet_log' = NoLog
    /\ rr_mode' = "OFF"
    /\ UNCHANGED <<queue, timers, loaded, snapshot, sessions>>

\* The flag is looked at, and cleared, only while a recording is on.
EndRecord ==
    /\ at = "end_record" /\ at' = "end_replay"
    /\ \/ /\ requested.end_record /\ rr_in_record
          /\ rr_do_end_record
          /\ requested' = [requested EXCEPT !.end_record = FALSE]
          /\ running' = TRUE
       \/ /\ ~(requested.end_record /\ rr_in_record)
          /\ UNCHANGED <<session, disk, requested, running>>
    /\ UNCHANGED <<ready, first, clean, fatal>>

\* init_timer_alarm and rr_do_end_replay: the queue is freed, the log closed.
rr_do_end_replay_timerless ==
    /\ queue' = FALSE
    /\ rr_nondet_log' = NoLog
    /\ rr_mode' = "OFF"
    /\ UNCHANGED <<timers, loaded>>
rr_do_end_replay ==
    /\ timers' = TRUE
    /\ queue' = FALSE
    /\ rr_nondet_log' = NoLog
    /\ rr_mode' = "OFF"
    /\ UNCHANGED loaded

\* After the flags main_loop looks whether it is to exit.
EndReplay_running ==
    /\ at = "end_replay"
    /\ at' = IF requested.shutdown THEN "exit" ELSE "select"
    /\ \/ /\ requested.end_replay /\ rr_in_replay /\ running
          /\ rr_do_end_replay
          /\ requested' = [requested EXCEPT !.end_replay = FALSE]
          /\ running' = FALSE
       \/ /\ ~(requested.end_replay /\ rr_in_replay /\ running)
          /\ UNCHANGED <<session, requested, running>>
    /\ UNCHANGED <<disk, ready, first, clean, fatal>>
EndReplay ==
    /\ at = "end_replay"
    /\ at' = IF requested.shutdown THEN "exit" ELSE "select"
    /\ \/ /\ requested.end_replay /\ rr_in_replay
          /\ rr_do_end_replay
          /\ requested' = [requested EXCEPT !.end_replay = FALSE]
          /\ running' = FALSE
       \/ /\ ~(requested.end_replay /\ rr_in_replay)
          /\ UNCHANGED <<session, requested, running>>
    /\ UNCHANGED <<disk, ready, first, clean, fatal>>

\* main, after main_loop: a session that is on is ended.
Exit_recording ==
    /\ at = "exit" /\ at' = "gone"
    /\ \/ /\ rr_in_replay /\ rr_do_end_replay
          /\ requested' = [requested EXCEPT !.end_replay = FALSE]
          /\ UNCHANGED disk
       \/ ~rr_in_replay /\ UNCHANGED <<session, disk, requested>>
    /\ running' = FALSE
    /\ UNCHANGED <<ready, first, clean, fatal>>
Exit ==
    /\ at = "exit" /\ at' = "gone"
    /\ \/ /\ rr_in_replay /\ rr_do_end_replay
          /\ requested' = [requested EXCEPT !.end_replay = FALSE]
          /\ UNCHANGED disk
       \/ /\ rr_in_record /\ rr_do_end_record
          /\ requested' = [requested EXCEPT !.end_record = FALSE]
       \/ rr_mode = "OFF" /\ UNCHANGED <<session, disk, requested>>
    /\ running' = FALSE
    /\ UNCHANGED <<ready, first, clean, fatal>>

MainLoop ==
    main_loop_wait \/ BeginRecord \/ BeginReplay \/ EndRecord \/ EndReplay \/ Exit

(***************************************************************************)
(* Processes.                                                              *)
(***************************************************************************)

\* A new process.  At most one of -record-from and -replay gives a command
\* before main_loop; -S leaves the guest stopped.
Start ==
    /\ rr_mode' = "OFF" /\ rr_nondet_log' = NoLog
    /\ queue' = FALSE /\ timers' = TRUE /\ loaded' = 0
    /\ at' = "select" /\ ready' = {}
    /\ running' \in BOOLEAN
    /\ first' = sessions'
    /\ fatal' = "none" /\ clean' = TRUE
    /\ \E n \in Names, record \in {0, 2}, replay \in BOOLEAN :
          /\ record = 2 => sessions' < MaxSessions
          /\ ~(record = 2 /\ replay)
          /\ requested' = [NoRequest EXCEPT !.record = record, !.replay = replay,
                                            !.name = IF record = 2 \/ replay THEN n ELSE NoName]

\* The process has ended, and the user starts another one.
Restart == at = "gone" /\ UNCHANGED disk /\ Start

\* The process is killed; in rr_do_begin_record that can be while or after the
\* snapshot is written and before the log is opened.
Kill ==
    /\ at # "gone"
    /\ \/ UNCHANGED disk
       \/ /\ at = "begin_record" /\ requested.record # 0
          /\ sessions' = sessions + 1
          /\ \E id \in {0, sessions + 1} :
                snapshot' = [snapshot EXCEPT ![requested.name] = id]
          /\ UNCHANGED file
    /\ Start

Init ==
    /\ rr_mode = "OFF" /\ rr_nondet_log = NoLog
    /\ queue = FALSE /\ timers = TRUE /\ loaded = 0
    /\ at = "select" /\ ready = {}
    /\ running = TRUE
    /\ requested = NoRequest
    /\ snapshot = [n \in Names |-> 0]
    /\ file = [n \in Names |-> NoFile]
    /\ sessions = 0 /\ first = 0
    /\ clean = TRUE
    /\ fatal = "none"

Next ==
    \/ \E m \in Monitors : MonitorCommand(m)
    \/ panda_end_replay
    \/ MainLoop
    \/ Restart
    \/ Kill

Spec == Init /\ [][Next]_vars

\* main_loop_wait returns within its timeout, and nothing in main_loop blocks.
FairSpec == Spec /\ WF_vars(MainLoop)

(***************************************************************************)
(* Properties.                                                             *)
(***************************************************************************)

Request == [record : 0..2, replay : BOOLEAN, end_record : BOOLEAN,
            end_replay : BOOLEAN, shutdown : BOOLEAN, name : Names \cup {NoName}]
Log == [name : Names, type : {"RECORD", "REPLAY"}] \cup {NoLog}
File(last) == [id : 0..last, complete : BOOLEAN]

\* Every variable has its type.
TypeOK ==
    /\ rr_mode \in {"OFF", "RECORD", "REPLAY"}
    /\ requested \in Request
    /\ rr_nondet_log \in Log
    /\ queue \in BOOLEAN /\ timers \in BOOLEAN /\ running \in BOOLEAN
    /\ at \in {"select", "handlers", "begin_record", "begin_replay", "end_record",
               "end_replay", "exit", "gone"}
    /\ ready \subseteq Monitors
    /\ snapshot \in [Names -> 0..sessions]
    /\ file \in [Names -> File(sessions)]
    /\ loaded \in 0..sessions
    /\ sessions \in Nat /\ first \in 0..sessions
    /\ clean \in BOOLEAN
    /\ fatal \in {"none", "log not opened", "queue not empty"}

\* The types hold, and the open log is of the mode's kind.  While sessions are
\* asked for one at a time and files can be written, the other state that
\* main_loop switches separately agrees with rr_mode: only a replay has queue
\* entries, and the alarm timer is stopped exactly while replaying.
\* rr_fill_queue's assertion that the queue is empty never fails when
\* a replay begins: the end of the replay before has freed it.  (It fails when a
\* replay is begun during a replay.)
SessionConsistent ==
    /\ TypeOK
    /\ rr_nondet_log.type = rr_mode
    /\ clean => fatal # "queue not empty"
    /\ clean /\ fatal = "none" =>
        /\ queue => rr_in_replay
        /\ timers = ~rr_in_replay

\* Every log this process has written, except the one it is writing, has its
\* end marker: however the recording ended (end_record or quit), a replay of it
\* finds its end.  (A begin_record given during a recording forgets its log.)
RecordingsComplete ==
    clean => \A n \in Names :
        file[n].id > first /\ ~file[n].complete =>
            rr_in_record /\ rr_nondet_log.name = n /\ at # "gone"

\* The snapshot and the log of every recording of this process belong
\* together: rr_do_begin_record replaces both files or the process is gone.
\* (That a snapshot could not be written is not noticed.)
RecordingsPaired ==
    clean /\ fatal = "none" =>
        \A n \in Names : file[n].id > first => snapshot[n] = file[n].id

\* The three are inductive with this: a process that failed an assertion is
\* gone, a session that is asked for has a name, and a process that is clean
\* has at most one session on or asked for.
Requests ==
    /\ fatal # "none" => at = "gone"
    /\ requested.record # 0 \/ requested.replay => requested.name \in Names
    /\ clean => /\ rr_mode # "OFF" => requested.record = 0 /\ ~requested.replay
                /\ requested.record # 0 => ~requested.replay

SessionInv ==
    SessionConsistent /\ RecordingsComplete /\ RecordingsPaired /\ Requests

\* A session whose end was asked for, by a command or by the CPU thread at the
\* end of the log, is over eventually, if the process does not end before.
EndHonoured ==
    /\ (rr_in_replay /\ requested.end_replay) ~> (~rr_in_replay \/ at = "gone")
    /\ (rr_in_record /\ requested.end_record) ~> (~rr_in_record \/ at = "gone")
=============================================================================
