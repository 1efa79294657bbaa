------------------------------ MODULE PosixAio ------------------------------
(***************************************************************************)
(* Asynchronous file I/O by worker threads (posix-aio-compat.c), with the  *)
(* waiting loops of aio.c and the bottom half that creates threads         *)
(* (async.c).                                                              *)
(*                                                                         *)
(* Worker threads run concurrently with the thread that holds the global   *)
(* mutex, called the main thread here; only it submits, cancels and        *)
(* completes.  Everything between mutex_lock(&lock) and mutex_unlock is    *)
(* one step.  A control block (qemu_paiocb) comes from a pool and is used  *)
(* again after qemu_aio_release.                                           *)
(*                                                                         *)
(* Left out: what a request reads or writes, and its result; failures of   *)
(* pthread_create and of the mutex operations, which abort.                *)
(***************************************************************************)
EXTENDS Integers, Sequences, FiniteSetsExt

CONSTANTS
  Acbs,          \* the pool of control blocks
  Threads,       \* names for worker threads
  max_threads,
  MaxSubmits,    \* bound: requests submitted
  None

ASSUME PosixAioConstants ==
  /\ max_threads \in Nat \ {0} /\ MaxSubmits \in Nat
  /\ IsFiniteSet(Threads) /\ Cardinality(Threads) = max_threads
  /\ None \notin Acbs \cup Threads

VARIABLES
  acb,              \* ret, active and submission number of each control block
  request_list,     \* requests no worker has taken
  first_aio,        \* requests that are neither completed nor cancelled
  cur_threads, idle_threads, new_threads, pending_threads,
  scheduled,        \* new_thread_bh is scheduled
  pipe,             \* bytes in the notification pipe
  thread,           \* where each worker is, and its request
  main,             \* where the main thread is
  fate              \* what became of each submission

counters == <<cur_threads, idle_threads, new_threads, pending_threads>>
vars == <<acb, request_list, first_aio, counters, scheduled, pipe, thread, main, fate>>

Submissions == 1 .. MaxSubmits
Free == [ret |-> "free", active |-> FALSE, sub |-> 0]
Dead == [pc |-> "none", acb |-> None]

\* QTAILQ_REMOVE, and the unlinking of a request from first_aio.
Remove(list, a) ==
  LET i == CHOOSE i \in 1 .. Len(list) : list[i] = a
  IN  SubSeq(list, 1, i - 1) \o SubSeq(list, i + 1, Len(list))

\* The innermost call under way, and the calls around it.
Last(stack) == stack[Len(stack)]
Front(stack) == SubSeq(stack, 1, Len(stack) - 1)

\* main.pc: "loop" and "callback" (code of others runs), "signal" (in qemu_paio_submit),
\* "cancel" (in paio_cancel's wait), "scan" (in posix_aio_process_queue, at first_aio[scan];
\* result is its result so far), "create" (in do_spawn_thread), "bh", "select" and "check"
\* (in qemu_aio_flush); then is where "scan" and "create" lead.  A callback may call
\* qemu_aio_flush, whose callbacks may again: stack holds the calls under way.
AtLoop == [pc |-> "loop", acb |-> None, scan |-> 1, result |-> FALSE, then |-> "loop",
           stack |-> <<>>]

Init ==
  /\ acb = [a \in Acbs |-> Free]
  /\ request_list = <<>> /\ first_aio = <<>>
  /\ cur_threads = 0 /\ idle_threads = 0 /\ new_threads = 0 /\ pending_threads = 0
  /\ scheduled = FALSE /\ pipe = 0
  /\ thread = [t \in Threads |-> Dead]
  /\ main = AtLoop
  /\ fate = [s \in Submissions |-> "new"]

----------------------------------------------------------------------------
(* Worker threads.                                                         *)

\* aio_thread: the first section.
ThreadStarts(t) ==
  /\ thread[t].pc = "created"
  /\ pending_threads' = pending_threads - 1
  /\ thread' = [thread EXCEPT ![t].pc = "spawn"]
  /\ UNCHANGED <<acb, request_list, first_aio, cur_threads, idle_threads, new_threads,
                 scheduled, pipe, main, fate>>

\* do_spawn_thread, up to the mutex_unlock.
do_spawn_thread ==
  /\ new_threads' = IF new_threads = 0 THEN 0 ELSE new_threads - 1
  /\ pending_threads' = IF new_threads = 0 THEN pending_threads ELSE pending_threads + 1
  /\ UNCHANGED <<cur_threads, idle_threads>>

ThreadSpawns(t) ==
  /\ thread[t].pc = "spawn"
  /\ do_spawn_thread
  /\ thread' = [thread EXCEPT ![t].pc = IF new_threads = 0 THEN "lock" ELSE "create"]
  /\ UNCHANGED <<acb, request_list, first_aio, scheduled, pipe, main, fate>>

\* thread_create; the name the new thread gets does not matter.
NewThread == CHOOSE t \in Threads : thread[t].pc = "none"

ThreadCreates(t) ==
  /\ thread[t].pc = "create"
  /\ thread' = [thread EXCEPT ![t].pc = "lock", ![NewThread].pc = "created"]
  /\ UNCHANGED <<acb, request_list, first_aio, counters, scheduled, pipe, main, fate>>

TakesRequest_idle(t, idle) ==
  LET a == Head(request_list)
  IN  /\ request_list # <<>>
      /\ request_list' = Tail(request_list)
      /\ acb' = [acb EXCEPT ![a].active = TRUE]
      /\ thread' = [thread EXCEPT ![t] = [pc |-> "work", acb |-> a]]
      /\ UNCHANGED <<first_aio, counters, scheduled, pipe, main, fate>>

\* The section that takes the first request, from the head of the loop or after
\* cond_timedwait; idle says whether the thread leaves idle_threads.
TakesRequest(t, idle) ==
  LET a == Head(request_list)
  IN  /\ request_list # <<>>
      /\ request_list' = Tail(request_list)
      /\ acb' = [acb EXCEPT ![a].active = TRUE]
      /\ thread' = [thread EXCEPT ![t] = [pc |-> "work", acb |-> a]]
      /\ idle_threads' = idle_threads - idle
      /\ UNCHANGED <<first_aio, cur_threads, new_threads, pending_threads, scheduled, pipe,
                     main, fate>>

ThreadLocks(t) ==
  /\ thread[t].pc = "lock"
  /\ \/ TakesRequest(t, 0)
     \/ /\ request_list = <<>>
        /\ idle_threads' = idle_threads + 1
        /\ thread' = [thread EXCEPT ![t].pc = "wait"]
        /\ UNCHANGED <<acb, request_list, first_aio, cur_threads, new_threads,
                       pending_threads, scheduled, pipe, main, fate>>

\* cond_timedwait returns unsignalled: the ten seconds are over, or spuriously.
ThreadTimesOut(t) ==
  /\ thread[t].pc = "wait"
  /\ \E pc \in {"timedout", "woken"} : thread' = [thread EXCEPT ![t].pc = pc]
  /\ UNCHANGED <<acb, request_list, first_aio, counters, scheduled, pipe, main, fate>>

ThreadTimedOut_leaves(t) ==
  /\ thread[t].pc = "timedout"
  /\ idle_threads' = idle_threads - 1 /\ cur_threads' = cur_threads - 1
  /\ thread' = [thread EXCEPT ![t] = Dead]
  /\ UNCHANGED <<acb, request_list, first_aio, new_threads, pending_threads,
                 scheduled, pipe, main, fate>>

ThreadTimedOut(t) ==
  /\ thread[t].pc = "timedout"
  /\ \/ TakesRequest(t, 1)
     \/ /\ request_list = <<>>
        /\ idle_threads' = idle_threads - 1 /\ cur_threads' = cur_threads - 1
        /\ thread' = [thread EXCEPT ![t] = Dead]
        /\ UNCHANGED <<acb, request_list, first_aio, new_threads, pending_threads,
                       scheduled, pipe, main, fate>>

\* Signalled; another worker may have taken the request already.
ThreadWoken(t) ==
  /\ thread[t].pc = "woken"
  /\ \/ TakesRequest(t, 1)
     \/ /\ request_list = <<>>
        /\ thread' = [thread EXCEPT ![t].pc = "wait"]
        /\ UNCHANGED <<acb, request_list, first_aio, counters, scheduled, pipe, main, fate>>

\* handle_aiocb_*, then aiocb->ret = ret under the lock.
ThreadWorks(t) ==
  /\ thread[t].pc = "work"
  /\ acb' = [acb EXCEPT ![thread[t].acb].ret = "done"]
  /\ thread' = [thread EXCEPT ![t] = [pc |-> "notify", acb |-> None]]
  /\ UNCHANGED <<request_list, first_aio, counters, scheduled, pipe, main, fate>>

\* posix_aio_notify_event; a full pipe (here: one byte) loses the write.
ThreadNotifies(t) ==
  /\ thread[t].pc = "notify"
  /\ pipe' = 1
  /\ thread' = [thread EXCEPT ![t].pc = "lock"]
  /\ UNCHANGED <<acb, request_list, first_aio, counters, scheduled, main, fate>>

----------------------------------------------------------------------------
(* The main thread.                                                        *)

\* Code outside this component runs: a device, the monitor, or a callback.
Outside == main.pc \in {"loop", "callback"}
Back(stack) == IF stack = <<>> THEN "loop" ELSE "callback"
Return == [main EXCEPT !.pc = Back(main.stack), !.acb = None]
GoTo(pc) == [main EXCEPT !.pc = pc, !.scan = 1, !.result = FALSE, !.then = "loop"]
Scan(then) == [main EXCEPT !.pc = "scan", !.scan = 1, !.result = FALSE, !.then = then]

NextSubmission == {s \in Submissions : fate[s] = "new"}

spawn_thread ==
  /\ cur_threads' = cur_threads + 1 /\ new_threads' = new_threads + 1
  /\ scheduled' = (scheduled \/ pending_threads = 0)

NeedsThread == idle_threads = 0 /\ cur_threads < max_threads

\* paio_submit and qemu_paio_submit up to the mutex_unlock.
Submit(a) ==
  /\ Outside /\ acb[a].ret = "free" /\ NextSubmission # {}
  /\ LET s == Min(NextSubmission)
     IN  /\ acb' = [acb EXCEPT ![a] = [ret |-> "EINPROGRESS", active |-> FALSE, sub |-> s]]
         /\ fate' = [fate EXCEPT ![s] = "pending"]
  /\ first_aio' = <<a>> \o first_aio
  /\ request_list' = Append(request_list, a)
  /\ IF NeedsThread THEN spawn_thread ELSE UNCHANGED <<cur_threads, new_threads, scheduled>>
  /\ main' = [main EXCEPT !.pc = "signal"]
  /\ UNCHANGED <<idle_threads, pending_threads, pipe, thread>>

\* cond_signal: one waiting worker, if there is one.
Signal ==
  /\ main.pc = "signal"
  /\ LET waiting == {t \in Threads : thread[t].pc = "wait"}
     IN  IF waiting = {} THEN UNCHANGED thread
         ELSE \E t \in waiting : thread' = [thread EXCEPT ![t].pc = "woken"]
  /\ main' = Return
  /\ UNCHANGED <<acb, request_list, first_aio, counters, scheduled, pipe, fate>>

\* paio_cancel: the section.
Cancel(a) ==
  /\ Outside /\ a \in Range(first_aio)
  /\ \/ /\ ~acb[a].active
        /\ request_list' = Remove(request_list, a)
        /\ first_aio' = Remove(first_aio, a)
        /\ fate' = [fate EXCEPT ![acb[a].sub] = "cancelled"]
        /\ acb' = [acb EXCEPT ![a] = Free]
        /\ main' = main
     \/ /\ acb[a].active
        /\ main' = [main EXCEPT !.pc = "cancel", !.acb = a]
        /\ UNCHANGED <<acb, request_list, first_aio, fate>>
  /\ UNCHANGED <<counters, scheduled, pipe, thread>>

CancelWaited_atonce ==
  /\ main.pc = "cancel"
  /\ first_aio' = Remove(first_aio, main.acb)
  /\ fate' = [fate EXCEPT ![acb[main.acb].sub] = "cancelled"]
  /\ acb' = [acb EXCEPT ![main.acb] = Free]
  /\ main' = Return
  /\ UNCHANGED <<request_list, counters, scheduled, pipe, thread>>

\* paio_cancel: the worker has finished the request; paio_remove releases it.
CancelWaited ==
  /\ main.pc = "cancel" /\ acb[main.acb].ret # "EINPROGRESS"
  /\ first_aio' = Remove(first_aio, main.acb)
  /\ fate' = [fate EXCEPT ![acb[main.acb].sub] = "cancelled"]
  /\ acb' = [acb EXCEPT ![main.acb] = Free]
  /\ main' = Return
  /\ UNCHANGED <<request_list, counters, scheduled, pipe, thread>>

\* qemu_bh_poll runs spawn_thread_bh_fn.
RunBH(then) ==
  /\ scheduled /\ scheduled' = FALSE
  /\ do_spawn_thread
  /\ main' = IF new_threads = 0 THEN GoTo(then)
             ELSE [main EXCEPT !.pc = "create", !.then = then]
  /\ UNCHANGED <<acb, request_list, first_aio, pipe, thread, fate>>

LoopRunsBH == main.pc = "loop" /\ RunBH("loop")

MainCreates ==
  /\ main.pc = "create"
  /\ thread' = [thread EXCEPT ![NewThread].pc = "created"]
  /\ main' = GoTo(main.then)
  /\ UNCHANGED <<acb, request_list, first_aio, counters, scheduled, pipe, fate>>

\* posix_aio_read, from the main loop or from qemu_aio_wait: the pipe is emptied, then
\* the queue processed.
ReadPipe(pc, then) ==
  /\ main.pc = pc /\ pipe > 0
  /\ pipe' = 0
  /\ main' = Scan(then)
  /\ UNCHANGED <<acb, request_list, first_aio, counters, scheduled, thread, fate>>

\* posix_aio_process_queue: the request it looks at is in progress ...
PassesOver ==
  /\ main.pc = "scan" /\ main.scan <= Len(first_aio)
  /\ acb[first_aio[main.scan]].ret = "EINPROGRESS"
  /\ main' = [main EXCEPT !.scan = @ + 1]
  /\ UNCHANGED <<acb, request_list, first_aio, counters, scheduled, pipe, thread, fate>>

\* ... or finished: it is unlinked and its callback called.
CallsBack ==
  /\ main.pc = "scan" /\ main.scan <= Len(first_aio)
  /\ LET a == first_aio[main.scan]
     IN  /\ acb[a].ret # "EINPROGRESS"
         /\ first_aio' = Remove(first_aio, a)
         /\ fate' = [fate EXCEPT ![acb[a].sub] = "called"]
         /\ main' = [GoTo("callback") EXCEPT
                       !.stack = Append(@, [acb |-> a, then |-> main.then])]
  /\ UNCHANGED <<acb, request_list, counters, scheduled, pipe, thread>>

\* The callback returns; the request is released and the scan starts again.
CallbackReturns ==
  /\ main.pc = "callback"
  /\ acb' = [acb EXCEPT ![Last(main.stack).acb] = Free]
  /\ main' = [Scan(Last(main.stack).then) EXCEPT !.result = TRUE, !.stack = Front(@)]
  /\ UNCHANGED <<request_list, first_aio, counters, scheduled, pipe, thread, fate>>

\* The end of the queue.  qemu_aio_wait goes on to select unless something was done
\* or nothing is under way.
ProcessEnds ==
  /\ main.pc = "scan" /\ main.scan > Len(first_aio)
  /\ main' = GoTo(IF main.then = "select" /\ (main.result \/ first_aio = <<>>)
                    THEN "check" ELSE main.then)
  /\ UNCHANGED <<acb, request_list, first_aio, counters, scheduled, pipe, thread, fate>>

\* qemu_aio_flush, called from outside; with no request and no bottom half it returns
\* at once and changes nothing.
FlushBegins ==
  /\ Outside /\ (first_aio # <<>> \/ scheduled)
  /\ main' = [main EXCEPT !.pc = "bh", !.stack = Append(@, [acb |-> None, then |-> "check"])]
  /\ UNCHANGED <<acb, request_list, first_aio, counters, scheduled, pipe, thread, fate>>

FlushPolls_nobh ==
  /\ main.pc = "bh"
  /\ main' = Scan("select")
  /\ UNCHANGED <<acb, request_list, first_aio, counters, scheduled, pipe, thread, fate>>

\* qemu_aio_wait polls the bottom halves first, then the queue.
FlushPolls ==
  /\ main.pc = "bh"
  /\ \/ RunBH("check")
     \/ /\ ~scheduled
        /\ main' = Scan("select")
        /\ UNCHANGED <<acb, request_list, first_aio, counters, scheduled, pipe, thread, fate>>

\* The loop condition of qemu_aio_flush.
FlushChecks ==
  /\ main.pc = "check"
  /\ main' = IF first_aio # <<>> \/ scheduled THEN [main EXCEPT !.pc = "bh"]
             ELSE [main EXCEPT !.pc = Back(Front(main.stack)), !.stack = Front(@)]
  /\ UNCHANGED <<acb, request_list, first_aio, counters, scheduled, pipe, thread, fate>>

----------------------------------------------------------------------------
ThreadSteps(t) ==
  \/ ThreadStarts(t) \/ ThreadSpawns(t) \/ ThreadCreates(t) \/ ThreadLocks(t)
  \/ ThreadTimedOut(t) \/ ThreadWoken(t) \/ ThreadWorks(t) \/ ThreadNotifies(t)

\* What the main thread does by itself, without a decision of its callers.
MainSteps ==
  \/ Signal \/ CancelWaited \/ LoopRunsBH \/ MainCreates
  \/ ReadPipe("loop", "loop") \/ ReadPipe("select", "check")
  \/ PassesOver \/ CallsBack \/ CallbackReturns \/ ProcessEnds
  \/ FlushPolls \/ FlushChecks

Next ==
  \/ \E t \in Threads : ThreadSteps(t) \/ ThreadTimesOut(t)
  \/ MainSteps
  \/ \E a \in Acbs : Submit(a) \/ Cancel(a)
  \/ FlushBegins

Spec == Init /\ [][Next]_vars

\* Every thread is scheduled, every system call returns, and the main loop
\* comes back to its bottom halves and to its file descriptors.
Fairness ==
  /\ \A t \in Threads : WF_vars(ThreadSteps(t))
  /\ WF_vars(MainSteps)
  /\ WF_vars(LoopRunsBH) /\ WF_vars(ReadPipe("loop", "loop"))

FairSpec == Spec /\ Fairness

----------------------------------------------------------------------------
(* Properties.                                                             *)

Request == [ret : {"free", "EINPROGRESS", "done"}, active : BOOLEAN, sub : 0 .. MaxSubmits]
Frame == [acb : Acbs \cup {None}, then : {"loop", "select", "check"}]
Worker == [pc : {"none", "created", "spawn", "create", "lock", "wait", "timedout", "woken",
                 "work", "notify"},
           acb : Acbs \cup {None}]
Main == [pc : {"loop", "signal", "create", "scan", "callback", "cancel", "bh", "check",
               "select"},
         acb : Acbs \cup {None}, scan : Nat \ {0}, result : BOOLEAN,
         then : {"loop", "select", "check"}, stack : Seq(Frame)]

\* The types, and the limit on threads.
TypeOK ==
  /\ acb \in [Acbs -> Request]
  /\ request_list \in Seq(Acbs) /\ first_aio \in Seq(Acbs)
  /\ cur_threads \in 0 .. max_threads /\ idle_threads \in 0 .. max_threads
  /\ new_threads \in 0 .. max_threads /\ pending_threads \in 0 .. max_threads
  /\ scheduled \in BOOLEAN /\ pipe \in 0 .. 1
  /\ thread \in [Threads -> Worker] /\ main \in Main
  /\ fate \in [Submissions -> {"new", "pending", "called", "cancelled"}]

\* The service the block layer sees: each request is called back once or cancelled,
\* nothing happens to it afterwards, and no request is left pending for ever, whatever
\* workers come and go (submit, cancel and process_queue against aio_thread).
Promise == INSTANCE AsyncIO
ServesEveryRequest == Promise!Spec

\* A worker only touches requests that are still allocated and its own: a request in
\* its hands is never released, or reused for another submission, before its result is
\* stored (paio_cancel waits for it, process_queue passes it over).
WorkOnOwnRequest ==
  \A t \in Threads : thread[t].pc = "work" =>
    LET a == thread[t].acb
    IN  /\ a \in Range(first_aio) /\ acb[a].active /\ acb[a].ret = "EINPROGRESS"
        /\ a \notin Range(request_list)
        /\ \A u \in Threads \ {t} : thread[u].pc = "work" => thread[u].acb # a

\* The calls under way: a callback was called by the main loop's scan or by that of a
\* flush, a flush by the main loop or by a callback; and what runs now was called so.
InFlush(stack) == stack # <<>> /\ Last(stack).acb = None

Nested(stack) ==
  \A i \in 1 .. Len(stack) :
     IF stack[i].acb = None THEN i > 1 => stack[i - 1].acb # None
     ELSE IF stack[i].then = "loop" THEN i = 1
     ELSE i > 1 /\ stack[i - 1].acb = None

CallsNest ==
  /\ Nested(main.stack)
  /\ main.pc = "loop" => main.stack = <<>>
  /\ main.pc = "callback" => main.stack # <<>> /\ ~InFlush(main.stack)
  /\ main.pc \in {"signal", "cancel"} => ~InFlush(main.stack)
  /\ main.pc \in {"bh", "check", "select"} => InFlush(main.stack)
  /\ main.pc \in {"scan", "create"} =>
       IF main.then = "loop" THEN main.stack = <<>> ELSE InFlush(main.stack)

\* A request of first_aio is pending, in the hands of a worker or done, or waits in
\* request_list; one whose callback runs is in no list; no two stand for one
\* submission.  With this WorkOnOwnRequest is inductive.
RequestInv ==
  /\ WorkOnOwnRequest /\ CallsNest
  /\ IsInjective(request_list) /\ IsInjective(first_aio)
  /\ Range(request_list) \subseteq Range(first_aio)
  /\ \A a \in Range(first_aio) :
        /\ acb[a].ret # "free" /\ acb[a].sub \in Submissions /\ fate[acb[a].sub] = "pending"
        /\ acb[a].active <=> a \notin Range(request_list)
        /\ ~acb[a].active => acb[a].ret = "EINPROGRESS"
        /\ \A b \in Range(first_aio) : acb[a].sub = acb[b].sub => a = b
  /\ \A i \in 1 .. Len(main.stack) : main.stack[i].acb # None =>
        /\ main.stack[i].acb \notin Range(first_aio)
        /\ acb[main.stack[i].acb].ret = "done"
        /\ \A j \in 1 .. Len(main.stack) : main.stack[i].acb = main.stack[j].acb => i = j
  /\ main.pc = "cancel" => main.acb \in Range(first_aio) /\ acb[main.acb].active

\* The threads in some stage, and those that are being created.
Count(stages) == Cardinality({t \in Threads : thread[t].pc \in stages})
Creating == Count({"create"}) + IF main.pc = "create" THEN 1 ELSE 0
Existing == {"created", "spawn", "create", "lock", "wait", "timedout", "woken", "work", "notify"}

\* The types hold, there are never more than max_threads threads, and the counters are
\* exact: cur_threads is what exists, is being created or is owed; pending_threads and
\* idle_threads are the threads in those stages.  They decide whether qemu_paio_submit
\* asks for a thread and who creates it.  The threads owed (new_threads) are always
\* somebody's debt: the bottom half is scheduled, or a thread that has not yet looked
\* for it is on its way.
ThreadsAccounted ==
  /\ TypeOK
  /\ cur_threads = new_threads + Creating + Count(Existing)
  /\ pending_threads = Creating + Count({"created"})
  /\ idle_threads = Count({"wait", "timedout", "woken"})
  /\ new_threads > 0 =>
       scheduled \/ main.pc = "create" \/ Count({"created", "spawn", "create"}) > 0

\* qemu_aio_flush returns: its wait in select always ends, although the workers finish
\* requests, and threads come and go, behind its back.
Flushing == \E i \in 1 .. Len(main.stack) : main.stack[i].acb = None
FlushEnds == Flushing ~> ~Flushing
=============================================================================
