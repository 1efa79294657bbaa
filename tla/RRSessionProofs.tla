-------------------------- MODULE RRSessionProofs ---------------------------
(***************************************************************************)
(* Proofs about RRSession, for every set of names, every number of         *)
(* monitors and of recordings.                                             *)
(*                                                                         *)
(* SessionInv is inductive.  What SessionConsistent, RecordingsComplete    *)
(* and RecordingsPaired say of a process that is clean holds because such  *)
(* a process never has a second session asked for while one is on          *)
(* (Requests): a log is created only when none is open.                    *)
(***************************************************************************)
EXTENDS RRSession, TLAPS

\* The requests of the monitor and of the command line.
LEMMA RequestType ==
    ASSUME TypeOK
    PROVE  /\ requested.record \in 0..2 /\ requested.replay \in BOOLEAN
           /\ requested.end_record \in BOOLEAN /\ requested.end_replay \in BOOLEAN
           /\ requested.shutdown \in BOOLEAN
           /\ requested.name \in Names \cup {NoName}
BY Zenon DEF TypeOK, Request

\* Clearing or setting one of them.
LEMMA RequestExcept ==
    ASSUME requested \in Request
    PROVE  /\ \A r \in 0..2, n \in Names :
                 [requested EXCEPT !.record = r, !.name = n] \in Request
           /\ \A b \in BOOLEAN, n \in Names :
                 [requested EXCEPT !.replay = b, !.name = n] \in Request
           /\ [requested EXCEPT !.record = 0] \in Request
           /\ [requested EXCEPT !.replay = FALSE] \in Request
           /\ \A b \in BOOLEAN : /\ [requested EXCEPT !.end_record = b] \in Request
                                 /\ [requested EXCEPT !.end_replay = b] \in Request
                                 /\ [requested EXCEPT !.shutdown = b] \in Request
<1>1. \A r \in 0..2, n \in Names :
         [requested EXCEPT !.record = r, !.name = n] \in Request
  BY Zenon DEF Request
<1>2. \A b \in BOOLEAN, n \in Names :
         [requested EXCEPT !.replay = b, !.name = n] \in Request
  BY Zenon DEF Request
<1>3. [requested EXCEPT !.record = 0] \in Request
  BY DEF Request
<1>4. [requested EXCEPT !.replay = FALSE] \in Request
  BY Zenon DEF Request
<1>5. \A b \in BOOLEAN : [requested EXCEPT !.end_record = b] \in Request
  BY DEF Request
<1>6. \A b \in BOOLEAN : [requested EXCEPT !.end_replay = b] \in Request
  BY DEF Request
<1>7. \A b \in BOOLEAN : [requested EXCEPT !.shutdown = b] \in Request
  BY DEF Request
<1> QED
  BY <1>1, <1>2, <1>3, <1>4, <1>5, <1>6, <1>7, Zenon

\* A file of an earlier recording is one of all.
LEMMA FileGrows ==
    ASSUME NEW last \in Nat
    PROVE  File(last) \subseteq File(last + 1)
BY DEF File

\* Before the first command nothing is recorded.
LEMMA InitSession == Init => SessionInv
<1> SUFFICES ASSUME Init PROVE SessionInv
  OBVIOUS
<1>1. TypeOK
  <2>1. NoRequest \in Request
    BY SMT DEF NoRequest, Request
  <2>2. NoLog \in Log /\ NoFile \in File(0)
    BY DEF NoLog, Log, NoFile, File
  <2>3. snapshot \in [Names -> 0..sessions] /\ file \in [Names -> File(sessions)]
    BY <2>2 DEF Init
  <2>4. queue \in BOOLEAN /\ timers \in BOOLEAN /\ running \in BOOLEAN /\ clean \in BOOLEAN
    BY Zenon DEF Init
  <2>5. loaded \in 0..sessions /\ sessions \in Nat /\ first \in 0..sessions
    BY DEF Init
  <2> QED
    BY <2>1, <2>2, <2>3, <2>4, <2>5 DEF Init, TypeOK
<1>2. SessionConsistent
  BY <1>1, Zenon DEF Init, SessionConsistent, NoLog, rr_in_replay
<1>3. RecordingsComplete /\ RecordingsPaired
  BY DEF Init, RecordingsComplete, RecordingsPaired, NoFile
<1>4. Requests
  BY DEF Init, Requests, NoRequest
<1> QED
  BY <1>2, <1>3, <1>4 DEF SessionInv

\* A monitor command changes requests only; one that asks for a session while
\* another is on or asked for ends the clean history.
LEMMA CommandStep ==
    ASSUME SessionInv, NEW m \in Monitors, MonitorCommand(m)
    PROVE  SessionInv'
<1> USE DEF session, disk
<1>1. TypeOK
  BY Zenon DEF SessionInv, SessionConsistent
<1>2. /\ TypeOK' /\ at = "handlers"
      /\ UNCHANGED <<session, disk, at, first, fatal>>
      /\ clean' => clean
  <2>0. requested \in Request /\ running \in BOOLEAN /\ clean \in BOOLEAN
    BY <1>1, Zenon DEF TypeOK
  <2> DEFINE Typed == /\ requested' \in Request /\ running' \in BOOLEAN
                      /\ clean' \in BOOLEAN /\ (clean' => clean)
  <2>1. ASSUME \E n \in Names, how \in {1, 2} : qmp_begin_record(n, how) PROVE Typed
    <3>1. PICK n \in Names, how \in {1, 2} : qmp_begin_record(n, how)
      BY <2>1
    <3>2. /\ requested' = [requested EXCEPT !.record = how, !.name = n]
          /\ how \in 0..2 /\ running' = running
      BY <3>1 DEF qmp_begin_record
    <3>3. clean' \in BOOLEAN /\ (clean' => clean)
      BY <3>1, Zenon DEF qmp_begin_record
    <3>4. requested' \in Request
      BY <2>0, <3>2, RequestExcept, Zenon
    <3> QED
      BY <2>0, <3>2, <3>3, <3>4
  <2>2. ASSUME \E n \in Names : qmp_begin_replay(n) PROVE Typed
    BY <2>0, <2>2, RequestExcept, Zenon DEF qmp_begin_replay
  <2>3. ASSUME qmp_end_record \/ qmp_end_replay \/ qmp_quit PROVE Typed
    <3>1. \A b \in BOOLEAN : /\ [requested EXCEPT !.end_record = b] \in Request
                             /\ [requested EXCEPT !.end_replay = b] \in Request
                             /\ [requested EXCEPT !.shutdown = b] \in Request
      BY <2>0, RequestExcept, Zenon
    <3>2. requested' \in Request
      BY <2>3, <3>1, Zenon DEF qmp_end_record, qmp_end_replay, qmp_quit
    <3>3. running' \in BOOLEAN /\ clean' = clean
      BY <2>0, <2>3, Zenon DEF qmp_end_record, qmp_end_replay, qmp_quit
    <3> QED
      BY <2>0, <3>2, <3>3
  <2>4. ASSUME qmp_stop \/ do_cont PROVE Typed
    <3>1. running' \in BOOLEAN /\ requested' = requested /\ clean' = clean
      BY <2>4, Zenon DEF qmp_stop, do_cont
    <3> QED
      BY <2>0, <3>1
  <2>5. Typed
    BY <2>1, <2>2, <2>3, <2>4 DEF MonitorCommand
  <2> QED
    BY <1>1, <2>5, Zenon DEF TypeOK, MonitorCommand
<1>3. SessionConsistent'
  BY <1>2, Zenon DEF SessionInv, SessionConsistent, rr_in_replay
<1>4. RecordingsComplete' /\ RecordingsPaired'
  BY <1>2 DEF SessionInv, RecordingsComplete, RecordingsPaired, rr_in_record
<1>5. Requests'
  <2>1. requested.record \in 0..2 /\ requested.replay \in BOOLEAN
    BY <1>1, RequestType
  <2>2. CASE \E n \in Names, how \in {1, 2} : qmp_begin_record(n, how)
    BY <1>1, <1>2, <2>1, <2>2, Zenon DEF SessionInv, Requests, qmp_begin_record, Idle, TypeOK, Request
  <2>3. CASE \E n \in Names : qmp_begin_replay(n)
    BY <1>1, <1>2, <2>1, <2>3, Zenon DEF SessionInv, Requests, qmp_begin_replay, Idle, TypeOK, Request
  <2>4. CASE qmp_end_record \/ qmp_end_replay \/ qmp_stop \/ do_cont \/ qmp_quit
    BY <1>1, <1>2, <2>1, <2>4, Zenon DEF SessionInv, Requests, TypeOK, Request, qmp_end_record,
          qmp_end_replay, qmp_stop, do_cont, qmp_quit
  <2> QED
    BY <2>2, <2>3, <2>4 DEF MonitorCommand
<1> QED
  BY <1>3, <1>4, <1>5 DEF SessionInv

\* The steps of main_loop that only look at the flags, and the CPU thread's
\* request.
LEMMA QuietStep ==
    ASSUME SessionInv, panda_end_replay \/ main_loop_wait
    PROVE  SessionInv'
<1> USE DEF session, disk
<1>1. TypeOK
  BY Zenon DEF SessionInv, SessionConsistent
<1>2. /\ TypeOK' /\ at # "gone" /\ at' # "gone"
      /\ UNCHANGED <<session, disk, first, fatal, clean>>
      /\ requested'.record = requested.record /\ requested'.replay = requested.replay
      /\ requested'.name = requested.name
  <2>1. requested' \in Request
    BY <1>1, RequestExcept, Zenon DEF TypeOK, panda_end_replay, main_loop_wait
  <2>2. /\ at \in {"select", "handlers"} /\ at' \in {"select", "handlers", "begin_record"}
        /\ UNCHANGED <<session, disk, first, fatal, clean, running>>
        /\ ready' \in {ready, Monitors, {}}
    BY DEF panda_end_replay, main_loop_wait
  <2>3. /\ requested'.record = requested.record /\ requested'.replay = requested.replay
        /\ requested'.name = requested.name
    BY <1>1 DEF TypeOK, Request, panda_end_replay, main_loop_wait
  <2>4. TypeOK'
    BY <1>1, <2>1, <2>2 DEF TypeOK
  <2> QED
    BY <2>2, <2>3, <2>4, Zenon
<1>3. SessionConsistent'
  BY <1>2, Zenon DEF SessionInv, SessionConsistent, rr_in_replay
<1>4. RecordingsComplete' /\ RecordingsPaired'
  BY <1>2 DEF SessionInv, RecordingsComplete, RecordingsPaired, rr_in_record
<1>5. Requests'
  BY <1>2 DEF SessionInv, Requests
<1> QED
  BY <1>3, <1>4, <1>5 DEF SessionInv

\* main_loop begins a recording: in a clean process no log is open, and the
\* new log and its snapshot carry the same number.
LEMMA BeginRecordStep ==
    ASSUME SessionInv, BeginRecord
    PROVE  SessionInv'
<1> USE DEF session, disk
<1>1. TypeOK
  BY Zenon DEF SessionInv, SessionConsistent
<1>2. CASE requested.record = 0
  <2>1. /\ UNCHANGED <<session, disk, clean, fatal, running, ready, first>>
        /\ requested' = [requested EXCEPT !.record = 0] /\ at = "begin_record"
        /\ fatal = "none" /\ at' = "begin_replay"
    BY <1>2 DEF BeginRecord, SessionInv, Requests
  <2>2. TypeOK'
    BY <1>1, <2>1, RequestExcept, Zenon DEF TypeOK
  <2>3. SessionConsistent'
    BY <2>1, <2>2 DEF SessionInv, SessionConsistent, rr_in_replay
  <2>4. RecordingsComplete' /\ RecordingsPaired'
    BY <2>1 DEF SessionInv, RecordingsComplete, RecordingsPaired, rr_in_record
  <2>5. Requests'
    BY <1>1, <2>1 DEF SessionInv, Requests, TypeOK, Request
  <2> QED
    BY <2>3, <2>4, <2>5 DEF SessionInv
<1>3. CASE requested.record # 0
  <2> DEFINE n == requested.name  id == sessions + 1
  <2>1. /\ n \in Names /\ sessions \in Nat /\ first \in 0..sessions /\ fatal = "none"
        /\ clean => rr_mode = "OFF" /\ ~requested.replay
    BY <1>1, <1>3, Zenon DEF BeginRecord, SessionInv, Requests, TypeOK
  <2>2. /\ do_savevm_rr(n, id) /\ rr_create_record_log(n, id) /\ sessions' = id
        /\ UNCHANGED <<queue, timers, loaded, running, ready, first>>
        /\ requested' = [requested EXCEPT !.record = 0]
        /\ at' = IF fatal' = "none" THEN "begin_replay" ELSE "gone"
    BY <1>3 DEF BeginRecord, rr_do_begin_record
  <2>3. /\ snapshot' \in [Names -> 0..id]
        /\ clean' \in BOOLEAN
        /\ clean' => clean /\ snapshot' = [snapshot EXCEPT ![n] = id]
    <3>1. snapshot \in [Names -> 0..id] /\ clean \in BOOLEAN
      BY <1>1, <2>1 DEF TypeOK
    <3>2. /\ [snapshot EXCEPT ![n] = id] \in [Names -> 0..id]
          /\ [snapshot EXCEPT ![n] = 0] \in [Names -> 0..id]
      BY <2>1, <3>1
    <3>3. snapshot' \in [Names -> 0..id]
      BY <2>2, <3>1, <3>2 DEF do_savevm_rr
    <3>4. /\ clean' \in BOOLEAN
          /\ clean' => clean /\ snapshot' = [snapshot EXCEPT ![n] = id]
      <4>1. \/ clean' = clean /\ snapshot' = [snapshot EXCEPT ![n] = id]
            \/ clean' = FALSE
        BY <2>2 DEF do_savevm_rr
      <4>2. CASE clean' = clean /\ snapshot' = [snapshot EXCEPT ![n] = id]
        BY <3>1, <4>2, Zenon
      <4>3. CASE clean' = FALSE
        BY <4>3, Zenon
      <4> QED
        BY <4>1, <4>2, <4>3, Zenon
    <3> QED
      BY <3>3, <3>4
  <2>4. CASE fatal' # "none"
    <3>1. /\ fatal' = "log not opened" /\ at' = "gone"
          /\ UNCHANGED <<file, rr_nondet_log, rr_mode>>
      BY <2>1, <2>2, <2>4, Zenon DEF rr_create_record_log
    <3>2. TypeOK'
      <4>1. requested' \in Request /\ file' \in [Names -> File(sessions')]
        BY <1>1, <2>1, <2>2, <3>1, RequestExcept, FileGrows, Zenon DEF TypeOK
      <4>2. loaded' \in 0..sessions' /\ sessions' \in Nat /\ first' \in 0..sessions'
        BY <1>1, <2>1, <2>2 DEF TypeOK
      <4> QED
        BY <1>1, <2>2, <2>3, <3>1, <4>1, <4>2, Zenon DEF TypeOK
    <3>3. SessionConsistent'
      BY <3>1, <3>2, Zenon DEF SessionInv, SessionConsistent
    <3>4. RecordingsComplete' /\ RecordingsPaired'
      BY <2>1, <2>2, <2>3, <3>1, Zenon
         DEF SessionInv, RecordingsComplete, RecordingsPaired, rr_in_record
    <3>5. Requests'
      BY <1>1, <2>1, <2>2, <2>3, <3>1, Zenon DEF SessionInv, Requests, TypeOK, Request
    <3> QED
      BY <3>3, <3>4, <3>5 DEF SessionInv
  <2>5. CASE fatal' = "none"
    <3>1. /\ fatal' = fatal /\ at' = "begin_replay"
          /\ file' = [file EXCEPT ![n] = [id |-> id, complete |-> FALSE]]
          /\ rr_nondet_log' = [name |-> n, type |-> "RECORD"]
          /\ rr_mode' = "RECORD"
      BY <2>1, <2>2, <2>5 DEF rr_create_record_log
    <3>2. TypeOK'
      <4>1. requested' \in Request /\ rr_nondet_log' \in Log
        BY <1>1, <2>1, <2>2, <3>1, RequestExcept, Zenon DEF TypeOK, Log
      <4>2. [id |-> id, complete |-> FALSE] \in File(id)
        BY <2>1 DEF File
      <4>3. file' \in [Names -> File(sessions')]
        BY <1>1, <2>1, <2>2, <3>1, <4>2, FileGrows DEF TypeOK
      <4>4. loaded' \in 0..sessions' /\ sessions' \in Nat /\ first' \in 0..sessions'
        BY <1>1, <2>1, <2>2 DEF TypeOK
      <4> QED
        BY <1>1, <2>1, <2>2, <2>3, <3>1, <4>1, <4>3, <4>4 DEF TypeOK
    <3>3. SessionConsistent'
      BY <2>1, <2>2, <2>3, <3>1, <3>2 DEF SessionInv, SessionConsistent, rr_in_replay
    <3>4. ASSUME clean' PROVE \A k \in Names \ {n} : file'[k] = file[k] /\ snapshot'[k] = snapshot[k]
      BY <1>1, <2>3, <3>1, <3>4, Zenon DEF TypeOK
    <3>5. ASSUME clean' PROVE file'[n].id = id /\ snapshot'[n] = id
      BY <1>1, <2>1, <2>3, <3>1, <3>5 DEF TypeOK
    <3>6. RecordingsComplete'
      BY <2>1, <2>2, <2>3, <3>1, <3>4 DEF SessionInv, RecordingsComplete, rr_in_record
    <3>7. RecordingsPaired'
      BY <2>1, <2>2, <2>3, <3>1, <3>4, <3>5 DEF SessionInv, RecordingsPaired
    <3>8. Requests'
      BY <1>1, <2>1, <2>2, <2>3, <3>1 DEF SessionInv, Requests, TypeOK, Request
    <3> QED
      BY <3>3, <3>6, <3>7, <3>8 DEF SessionInv
  <2> QED
    BY <2>4, <2>5
<1> QED
  BY <1>2, <1>3

\* main_loop begins a replay: in a clean process the replay before has freed
\* the queue, and no recording is being written.
LEMMA BeginReplayStep ==
    ASSUME SessionInv, BeginReplay
    PROVE  SessionInv'
<1> USE DEF session, disk
<1>1. TypeOK
  BY Zenon DEF SessionInv, SessionConsistent
<1>2. /\ at = "begin_replay" /\ fatal = "none"
      /\ UNCHANGED <<disk, running, ready, first, clean>>
      /\ requested' = [requested EXCEPT !.replay = FALSE] /\ requested' \in Request
      /\ at' = IF fatal' = "none" THEN "end_record" ELSE "gone"
  <2>1. requested \in Request
    BY <1>1, Zenon DEF TypeOK
  <2> QED
    BY <2>1, RequestExcept, Zenon DEF BeginReplay, SessionInv, Requests
<1>3. CASE ~requested.replay
  <2>1. UNCHANGED <<session, fatal>> /\ at' = "end_record"
    BY <1>2, <1>3 DEF BeginReplay
  <2>2. TypeOK'
    BY <1>1, <1>2, <2>1 DEF TypeOK
  <2>3. SessionConsistent'
    BY <1>2, <2>1, <2>2 DEF SessionInv, SessionConsistent, rr_in_replay
  <2>4. RecordingsComplete' /\ RecordingsPaired'
    BY <1>2, <2>1 DEF SessionInv, RecordingsComplete, RecordingsPaired, rr_in_record
  <2>5. Requests'
    BY <1>1, <1>2, <2>1 DEF SessionInv, Requests, TypeOK, Request
  <2> QED
    BY <2>3, <2>4, <2>5 DEF SessionInv
<1>4. CASE requested.replay
  <2> DEFINE n == requested.name
  <2>1. /\ n \in Names
        /\ clean => rr_mode = "OFF" /\ requested.record = 0 /\ ~queue
    BY <1>1, <1>2, <1>4
       DEF SessionInv, Requests, SessionConsistent, TypeOK, Request, rr_in_replay
  <2>2. /\ loaded' = snapshot[n] /\ timers' = FALSE
        /\ \/ rr_create_replay_log(n) /\ FirstFill(n)
           \/ NoReplayLog(n)
    BY <1>4 DEF BeginReplay, rr_do_begin_replay
  <2>3. loaded' \in 0..sessions'
    BY <1>1, <1>2, <2>1, <2>2 DEF TypeOK
  <2>4. ASSUME NoReplayLog(n) PROVE SessionInv'
    <3>1. /\ fatal' = "log not opened" /\ at' = "gone"
          /\ UNCHANGED <<rr_nondet_log, rr_mode, queue>>
      BY <1>2, <2>4, Zenon DEF NoReplayLog
    <3>2. TypeOK'
      BY <1>1, <1>2, <2>2, <2>3, <3>1, Zenon DEF TypeOK
    <3>3. SessionConsistent'
      BY <3>1, <3>2, Zenon DEF SessionInv, SessionConsistent
    <3>4. RecordingsComplete' /\ RecordingsPaired'
      BY <1>2, <2>1, <3>1, Zenon DEF SessionInv, RecordingsComplete, RecordingsPaired, rr_in_record
    <3>5. Requests'
      BY <1>1, <1>2, <2>1, <3>1, Zenon DEF SessionInv, Requests, TypeOK, Request
    <3> QED
      BY <3>3, <3>4, <3>5 DEF SessionInv
  <2>5. ASSUME rr_create_replay_log(n), FirstFill(n) PROVE SessionInv'
    <3>1. rr_nondet_log' = [name |-> n, type |-> "REPLAY"] /\ rr_mode' = "REPLAY"
      BY <2>5 DEF rr_create_replay_log
    <3>2. /\ queue' \in BOOLEAN /\ fatal' \in {"none", "queue not empty"}
          /\ clean => fatal' = "none"
      BY <1>1, <1>2, <2>1, <2>5, Zenon DEF FirstFill, TypeOK
    <3>3. rr_nondet_log' \in Log
      BY <2>1, <3>1 DEF Log
    <3>4. TypeOK'
      BY <1>1, <1>2, <2>2, <2>3, <3>1, <3>2, <3>3, Zenon DEF TypeOK
    <3>5. SessionConsistent'
      BY <1>2, <2>2, <3>1, <3>2, <3>4, Zenon DEF SessionInv, SessionConsistent, rr_in_replay
    <3>6. RecordingsComplete' /\ RecordingsPaired'
      BY <1>2, <2>1, <3>1, <3>2, Zenon DEF SessionInv, RecordingsComplete, RecordingsPaired, rr_in_record
    <3>7. Requests'
      BY <1>1, <1>2, <2>1, <3>1, <3>2, Zenon DEF SessionInv, Requests, TypeOK, Request
    <3> QED
      BY <3>5, <3>6, <3>7 DEF SessionInv
  <2> QED
    BY <2>2, <2>4, <2>5
<1> QED
  BY <1>3, <1>4

\* The end of a recording writes the end marker of the log that is open; in a
\* clean process that is the only one without.
LEMMA EndedRecord ==
    ASSUME SessionInv, rr_in_record, rr_do_end_record, at # "gone",
           UNCHANGED <<first, clean, fatal>>, at' \in {"end_replay", "gone"},
           requested' = [requested EXCEPT !.end_record = FALSE], ready' = ready,
           running' \in BOOLEAN
    PROVE  SessionInv'
<1>1. TypeOK
  BY Zenon DEF SessionInv, SessionConsistent
<1>2. requested \in Request /\ requested' \in Request
  <2>1. requested \in Request
    BY <1>1, Zenon DEF TypeOK
  <2> QED
    BY <2>1, RequestExcept, Zenon
<1>3. /\ rr_nondet_log \in Log /\ rr_nondet_log.type = "RECORD"
      /\ rr_nondet_log.name \in Names
  <2>1. rr_nondet_log \in Log /\ rr_nondet_log.type = "RECORD"
    BY <1>1, Zenon DEF SessionInv, SessionConsistent, TypeOK, rr_in_record
  <2>2. rr_nondet_log # NoLog
    BY <2>1 DEF NoLog
  <2> QED
    BY <2>1, <2>2 DEF Log
<1> DEFINE n == rr_nondet_log.name
<1>4. /\ file' = [file EXCEPT ![n].complete = TRUE]
      /\ rr_nondet_log' = NoLog /\ rr_mode' = "OFF"
      /\ UNCHANGED <<queue, timers, loaded, snapshot, sessions>>
  BY DEF rr_do_end_record
<1>5. /\ file \in [Names -> File(sessions)] /\ file' \in [Names -> File(sessions)]
      /\ \A k \in Names : file'[k].id = file[k].id
      /\ \A k \in Names \ {n} : file'[k] = file[k]
      /\ file'[n].complete = TRUE
  <2>1. file \in [Names -> File(sessions)]
    BY <1>1, Zenon DEF TypeOK
  <2>2. [file[n] EXCEPT !.complete = TRUE] \in File(sessions)
    BY <1>3, <2>1, Zenon DEF File
  <2>3. file' = [file EXCEPT ![n] = [file[n] EXCEPT !.complete = TRUE]]
    BY <1>4
  <2> HIDE DEF n
  <2>4. n \in Names
    BY <1>3 DEF n
  <2> QED
    BY <2>1, <2>2, <2>3, <2>4 DEF File
<1>6. TypeOK'
  BY <1>1, <1>2, <1>4, <1>5, Zenon DEF TypeOK, Log
<1>7. SessionConsistent'
  BY <1>4, <1>6, Zenon DEF SessionInv, SessionConsistent, rr_in_replay, rr_in_record, NoLog
<1>8. RecordingsComplete'
  BY <1>4, <1>5 DEF SessionInv, RecordingsComplete
<1>9. RecordingsPaired'
  BY <1>4, <1>5 DEF SessionInv, RecordingsPaired
<1>10. Requests'
  <2>1. /\ requested'.record = requested.record /\ requested'.replay = requested.replay
        /\ requested'.name = requested.name
    BY <1>2 DEF Request
  <2> QED
    BY <1>4, <2>1 DEF SessionInv, Requests
<1> QED
  BY <1>7, <1>8, <1>9, <1>10 DEF SessionInv

\* The end of a replay frees the queue, closes the log and starts the alarm
\* timer.
LEMMA EndedReplay ==
    ASSUME SessionInv, rr_in_replay, rr_do_end_replay, at # "gone",
           UNCHANGED <<disk, first, clean, fatal>>, at' \in {"select", "exit", "gone"},
           requested' = [requested EXCEPT !.end_replay = FALSE], ready' = ready,
           running' \in BOOLEAN
    PROVE  SessionInv'
<1> USE DEF disk
<1>1. TypeOK
  BY Zenon DEF SessionInv, SessionConsistent
<1>2. requested \in Request /\ requested' \in Request
  <2>1. requested \in Request
    BY <1>1, Zenon DEF TypeOK
  <2> QED
    BY <2>1, RequestExcept, Zenon
<1>3. /\ timers' = TRUE /\ queue' = FALSE /\ rr_nondet_log' = NoLog /\ rr_mode' = "OFF"
      /\ UNCHANGED loaded
  BY DEF rr_do_end_replay
<1>4. TypeOK'
  BY <1>1, <1>2, <1>3, Zenon DEF TypeOK, Log
<1>5. SessionConsistent'
  BY <1>3, <1>4, Zenon DEF SessionInv, SessionConsistent, rr_in_replay, NoLog
<1>6. RecordingsComplete' /\ RecordingsPaired'
  BY <1>3 DEF SessionInv, RecordingsComplete, RecordingsPaired, rr_in_record, rr_in_replay
<1>7. Requests'
  <2>1. /\ requested'.record = requested.record /\ requested'.replay = requested.replay
        /\ requested'.name = requested.name
    BY <1>2 DEF Request
  <2> QED
    BY <1>3, <2>1 DEF SessionInv, Requests
<1> QED
  BY <1>5, <1>6, <1>7 DEF SessionInv

\* A step that ends nothing.
LEMMA NothingEnds ==
    ASSUME SessionInv, at # "gone", UNCHANGED <<session, disk, requested, ready, first, clean, fatal>>,
           at' \in {"select", "end_replay", "exit"} \/ (at' = "gone" /\ rr_mode # "RECORD"),
           running' \in BOOLEAN
    PROVE  SessionInv'
<1> USE DEF session, disk
<1>1. TypeOK'
  BY Zenon DEF SessionInv, SessionConsistent, TypeOK
<1>2. SessionConsistent'
  BY <1>1, Zenon DEF SessionInv, SessionConsistent, rr_in_replay
<1>3. RecordingsComplete' /\ RecordingsPaired'
  BY DEF SessionInv, RecordingsComplete, RecordingsPaired, rr_in_record
<1>4. Requests'
  BY DEF SessionInv, Requests
<1> QED
  BY <1>2, <1>3, <1>4 DEF SessionInv

\* The last steps of main_loop and what main does after it.
LEMMA EndStep ==
    ASSUME SessionInv, EndRecord \/ EndReplay \/ Exit
    PROVE  SessionInv'
<1>1. at # "gone" /\ UNCHANGED <<ready, first, clean, fatal>>
  BY DEF EndRecord, EndReplay, Exit
<1>2. rr_mode \in {"OFF", "RECORD", "REPLAY"} /\ running \in BOOLEAN
  BY Zenon DEF SessionInv, SessionConsistent, TypeOK
<1>3. CASE EndRecord
  <2>1. CASE requested.end_record /\ rr_in_record
    BY <1>1, <1>3, <2>1, EndedRecord DEF EndRecord
  <2>2. CASE ~(requested.end_record /\ rr_in_record)
    BY <1>1, <1>2, <1>3, <2>2, NothingEnds DEF EndRecord
  <2> QED
    BY <2>1, <2>2
<1>4. CASE EndReplay
  <2>1. CASE requested.end_replay /\ rr_in_replay
    BY <1>1, <1>4, <2>1, EndedReplay, Zenon DEF EndReplay
  <2>2. CASE ~(requested.end_replay /\ rr_in_replay)
    BY <1>1, <1>2, <1>4, <2>2, NothingEnds DEF EndReplay
  <2> QED
    BY <2>1, <2>2
<1>5. CASE Exit
  <2>1. CASE rr_in_replay
    BY <1>1, <1>5, <2>1, EndedReplay, Zenon DEF Exit, rr_in_record, rr_in_replay
  <2>2. CASE rr_in_record
    BY <1>1, <1>5, <2>2, EndedRecord, Zenon DEF Exit, rr_in_record, rr_in_replay
  <2>3. CASE rr_mode = "OFF"
    BY <1>1, <1>5, <2>3, NothingEnds, Zenon DEF Exit, rr_in_record, rr_in_replay
  <2> QED
    BY <1>2, <2>1, <2>2, <2>3 DEF rr_in_record, rr_in_replay
<1> QED
  BY <1>3, <1>4, <1>5

\* A new process starts with nothing open; the files of the processes before
\* it have numbers up to first.
LEMMA StartStep ==
    ASSUME SessionInv, Restart \/ Kill
    PROVE  SessionInv'
<1> USE DEF disk
<1>1. TypeOK
  BY Zenon DEF SessionInv, SessionConsistent
<1>2. /\ Start /\ sessions' \in Nat
      /\ snapshot' \in [Names -> 0..sessions'] /\ file' \in [Names -> File(sessions')]
  <2>0. /\ sessions \in Nat /\ snapshot \in [Names -> 0..sessions]
        /\ file \in [Names -> File(sessions)]
    BY <1>1, Zenon DEF TypeOK
  <2>1. CASE UNCHANGED disk
    BY <2>0, <2>1 DEF Restart, Kill
  <2>2. CASE /\ sessions' = sessions + 1 /\ UNCHANGED file
             /\ \E id \in {0, sessions + 1} :
                   snapshot' = [snapshot EXCEPT ![requested.name] = id]
    <3>1. file' \in [Names -> File(sessions')]
      BY <2>0, <2>2, FileGrows
    <3>2. PICK id \in {0, sessions + 1} : snapshot' = [snapshot EXCEPT ![requested.name] = id]
      BY <2>2, Zenon
    <3>3. id \in 0..sessions' /\ snapshot \in [Names -> 0..sessions']
      BY <2>0, <2>2
    <3>4. snapshot' \in [Names -> 0..sessions']
      BY <3>2, <3>3, Zenon
    <3> QED
      BY <2>0, <2>2, <3>1, <3>4 DEF Restart, Kill
  <2> QED
    BY <2>1, <2>2 DEF Restart, Kill
<1>3. \A n \in Names : file'[n].id <= sessions' /\ file'[n].id \in Nat
  BY <1>2 DEF File
<1>4. /\ first' = sessions' /\ rr_mode' = "OFF" /\ rr_nondet_log' = NoLog /\ fatal' = "none"
      /\ queue' = FALSE /\ timers' = TRUE
  BY <1>2 DEF Start
<1>5. PICK n \in Names, record \in {0, 2}, replay \in BOOLEAN :
         /\ ~(record = 2 /\ replay)
         /\ requested' = [NoRequest EXCEPT !.record = record, !.replay = replay,
                                           !.name = IF record = 2 \/ replay THEN n ELSE NoName]
  BY <1>2, Zenon DEF Start
<1> DEFINE name == IF record = 2 \/ replay THEN n ELSE NoName
<1>6. /\ requested' \in Request
      /\ requested'.record = record /\ requested'.replay = replay
      /\ record = 2 \/ replay => requested'.name = n
  <2>1. name \in Names \cup {NoName}
    OBVIOUS
  <2>2. requested' = [record |-> record, replay |-> replay, end_record |-> FALSE,
                      end_replay |-> FALSE, shutdown |-> FALSE, name |-> name]
    BY <1>5, Zenon DEF NoRequest
  <2>3. record = 2 \/ replay => name = n
    OBVIOUS
  <2> HIDE DEF name
  <2>4. requested' \in Request
    BY <2>1, <2>2 DEF Request
  <2> QED
    BY <2>2, <2>3, <2>4
<1>7. TypeOK'
  <2>1. NoLog \in Log
    BY DEF Log
  <2>2. loaded' \in 0..sessions' /\ first' \in 0..sessions'
    BY <1>2 DEF Start
  <2>3. queue' \in BOOLEAN /\ timers' \in BOOLEAN /\ running' \in BOOLEAN /\ clean' \in BOOLEAN
    BY <1>2, Zenon DEF Start
  <2>4. ready' \subseteq Monitors /\ at' = "select"
    BY <1>2 DEF Start
  <2> QED
    BY <1>2, <1>4, <1>6, <2>1, <2>2, <2>3, <2>4 DEF TypeOK
<1>8. SessionConsistent'
  BY <1>4, <1>7, Zenon DEF SessionConsistent, NoLog, rr_in_replay
<1>9. RecordingsComplete' /\ RecordingsPaired'
  BY <1>2, <1>3, <1>4 DEF RecordingsComplete, RecordingsPaired
<1>10. Requests'
  BY <1>4, <1>5, <1>6 DEF Requests
<1> QED
  BY <1>8, <1>9, <1>10 DEF SessionInv

\* Steps that change nothing.
LEMMA SessionStutters == SessionInv /\ UNCHANGED vars => SessionInv'
<1> SUFFICES ASSUME SessionInv, UNCHANGED vars PROVE SessionInv'
  OBVIOUS
<1> USE DEF vars, session, disk
<1>1. SessionConsistent'
  BY Zenon DEF SessionInv, SessionConsistent, TypeOK, rr_in_replay
<1>2. RecordingsComplete' /\ RecordingsPaired'
  BY DEF SessionInv, RecordingsComplete, RecordingsPaired, rr_in_record
<1>3. Requests'
  BY DEF SessionInv, Requests
<1> QED
  BY <1>1, <1>2, <1>3 DEF SessionInv

(***************************************************************************)
(* The theorems.                                                           *)
(***************************************************************************)

\* SessionInv is an invariant: every handler of the monitor, every part of
\* main_loop, the end of the process and its start preserve it.
THEOREM SessionInvariance == Spec => []SessionInv
<1>1. SessionInv /\ [Next]_vars => SessionInv'
  <2> SUFFICES ASSUME SessionInv, [Next]_vars PROVE SessionInv'
    OBVIOUS
  <2>1. CASE \E m \in Monitors : MonitorCommand(m)
    BY <2>1, CommandStep
  <2>2. CASE panda_end_replay \/ main_loop_wait
    BY <2>2, QuietStep
  <2>3. CASE BeginRecord
    BY <2>3, BeginRecordStep
  <2>4. CASE BeginReplay
    BY <2>4, BeginReplayStep
  <2>5. CASE EndRecord \/ EndReplay \/ Exit
    BY <2>5, EndStep
  <2>6. CASE Restart \/ Kill
    BY <2>6, StartStep
  <2>7. CASE UNCHANGED vars
    BY <2>7, SessionStutters
  <2> QED
    BY <2>1, <2>2, <2>3, <2>4, <2>5, <2>6, <2>7 DEF Next, MainLoop
<1> QED
  BY <1>1, InitSession, PTL DEF Spec

\* The mode, the open log, the queue and the alarm timer, which main_loop
\* switches in separate statements, agree in every state of a process that was
\* asked for one session at a time; the log and the mode agree in every
\* process.  rr_fill_queue never finds the queue filled.
THEOREM SessionsAreConsistent == Spec => []SessionConsistent
<1>1. SessionInv => SessionConsistent
  BY DEF SessionInv
<1> QED
  BY <1>1, SessionInvariance, PTL

\* However a recording ends (end_record, quit), main_loop or main writes the end
\* marker of its log before the process is gone or another log is created.
THEOREM RecordingsAreComplete == Spec => []RecordingsComplete
<1>1. SessionInv => RecordingsComplete
  BY DEF SessionInv
<1> QED
  BY <1>1, SessionInvariance, PTL

\* rr_do_begin_record never leaves a log of this process beside a snapshot of
\* another recording.
THEOREM RecordingsArePaired == Spec => []RecordingsPaired
<1>1. SessionInv => RecordingsPaired
  BY DEF SessionInv
<1> QED
  BY <1>1, SessionInvariance, PTL

=============================================================================
