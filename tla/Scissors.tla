------------------------------ MODULE Scissors ------------------------------
(***************************************************************************)
(* The scissors plugin (panda_plugins/scissors/scissors.c): while a        *)
(* recording is replayed, it saves a snapshot in the middle and writes a   *)
(* new log, so that the snapshot and the new log replay the part between   *)
(* the instructions start_count and end_count.                             *)
(*                                                                         *)
(* The replay is reduced to what the plugin sees of it: the instruction    *)
(* count before each block, and the replay queue of RRLog, from which the  *)
(* guest has taken every entry up to that count (module RecordReplay       *)
(* models how).  The plugin copies what is left in the queue, then what    *)
(* the replay has not read of the file yet.                                *)
(***************************************************************************)
EXTENDS RRLog, FiniteSets, SequencesExt

CONSTANTS
  Shapes,        \* kind, site and value of the entries of the log
  MaxEntries,    \* bound: entries before the last
  MaxCount,      \* bound: instructions recorded
  MaxTB,         \* instructions in the longest block
  Garbage        \* what an uninitialised buffer holds

ASSUME ScissorsConstants ==
  /\ MaxEntries \in Nat /\ MaxCount \in Nat /\ MaxTB \in Nat \ {0}
  /\ Shapes \subseteq [kind : RR_log_entry_kind \ {"LAST"}, site : RR_callsite_id,
                       val : {"input", "CPU_MEM_RW", "CPU_MEM_UNMAP"}]

VARIABLES
  log,                        \* the log that is replayed
  start_count, end_count,     \* the plugin's arguments
  count,                      \* rr_prog_point.guest_instr_count
  q,                          \* the replay queue
  ending,                     \* rr_end_replay_requested, then "ended"
  snipping, done,
  actual_start_count,
  newlog, header,             \* the new log, and the point at its beginning
  cut                         \* the queue when the snapshot was saved

plugin == <<snipping, done, actual_start_count, newlog, header, cut>>
vars == <<log, start_count, end_count, count, q, ending, plugin>>

Point(c) == [count |-> c, pc |-> 0]

\* The logs of recordings: counts never decrease, and the last entry is the end marker.
Logs ==
  UNION { { [i \in 1 .. n + 1 |->
               IF i <= n THEN Entry(s[i].kind, s[i].site, Point(c[i]), s[i].val)
                         ELSE Entry("LAST", "LAST", Point(c[i]), "input")]
            : s \in [1 .. n -> Shapes],
              c \in {f \in [1 .. n + 1 -> 1 .. MaxCount] :
                       \A i \in 1 .. n : f[i] <= f[i + 1]} }
          : n \in 0 .. MaxEntries }

EmptyQueue == [head |-> 1, pos |-> 0, num |-> 0]

Init ==
  /\ log \in Logs /\ NeverCutOff(log)
  /\ start_count \in 0 .. MaxCount /\ end_count \in start_count .. MaxCount + 1
  /\ count = 0 /\ q = rr_fill_queue(log, EmptyQueue, ZeroPoint)
  /\ ending = "no"
  /\ snipping = FALSE /\ done = FALSE /\ actual_start_count = 0
  /\ newlog = <<>> /\ header = ZeroPoint /\ cut = EmptyQueue

----------------------------------------------------------------------------
(* The replay.                                                             *)

\* The guest takes an entry recorded at its count; get_next_entry fills an empty queue.
Consumes ==
  /\ ending = "no"
  /\ log[q.head].point.count <= count /\ log[q.head].kind # "LAST"
  /\ q' = Refilled(log, Pop(q), Point(count))
  /\ UNCHANGED <<log, start_count, end_count, count, ending, plugin>>

----------------------------------------------------------------------------
(* The plugin.                                                             *)

Shift(e, start) == [e EXCEPT !.point.count = Minus(@, start)]

\* write_entry allocates a new buffer for the data of a CPU_MEM_RW call, and writes that.
write_entry(e, start) ==
  LET s == Shift(e, start)
  IN  IF e.val = "CPU_MEM_RW" THEN [s EXCEPT !.val = Garbage] ELSE s

\* The first entry from i to n that is not before end_count, or n + 1.
Stop(i, n) ==
  CHOOSE k \in i .. n + 1 : /\ \A j \in i .. k - 1 : log[j].point.count < end_count
                            /\ k = n + 1 \/ log[k].point.count >= end_count

\* What before_block_exec copies from the queue, and from the file: there an entry at
\* end_count is the last one copied, and one past end_count is read and not copied.
FromQueue_all == SubSeq(log, q.head, q.pos)
FromQueue == SubSeq(log, q.head, Stop(q.head, q.pos) - 1)

FromFile ==
  LET k == Stop(q.pos + 1, Len(log))
  IN  IF end_count = 0 THEN <<>>
      ELSE SubSeq(log, q.pos + 1,
                  IF k <= Len(log) /\ log[k].point.count = end_count THEN k ELSE k - 1)

\* copy_entry is called at the end of the file: its assertion ends the replay with abort.
PastEnd == end_count > 0 /\ Stop(q.pos + 1, Len(log)) > Len(log)

Copied(start) ==
  [i \in 1 .. Len(FromQueue) |-> write_entry(FromQueue[i], start)]
  \o [i \in 1 .. Len(FromFile) |-> Shift(FromFile[i], start)]

\* end_snip: the end marker, and the point at the beginning of the file.
End(start) == Entry("LAST", "LAST", Point(Minus(count, start)), "input")

end_snip_header(l, start) ==
  /\ newlog' = Append(l, End(start))
  /\ header' = Point(count) /\ done' = TRUE

end_snip(l, start) ==
  /\ newlog' = Append(l, End(start))
  /\ header' = End(start).point /\ done' = TRUE

\* before_block_exec, and the block of n instructions that follows.
StartsHere(n) == ~snipping /\ count + n > start_count

before_block_exec(n) ==
  LET starts == StartsHere(n)
      start == IF starts THEN count ELSE actual_start_count
      l == IF starts THEN Copied(start) ELSE newlog
      ends == (snipping \/ starts) /\ ~done /\ count > end_count
  IN  /\ ~(starts /\ PastEnd)
      /\ actual_start_count' = start
      /\ snipping' = (snipping \/ starts)
      /\ cut' = IF starts THEN q ELSE cut
      /\ IF ends THEN end_snip(l, start) /\ ending' = "requested"
                 ELSE newlog' = l /\ UNCHANGED <<header, done, ending>>

\* A block that is about to be executed: cpu_exec has it translated again when it is
\* longer than the countdown.
AtBlock(n) == ending = "no" /\ log[q.head].point.count > count /\ n <= q.num

Block(n) ==
  /\ AtBlock(n)
  /\ before_block_exec(n)
  /\ count' = count + n /\ q' = [q EXCEPT !.num = @ - n]
  /\ UNCHANGED <<log, start_count, end_count>>

Aborts(n) ==
  /\ AtBlock(n) /\ StartsHere(n) /\ PastEnd
  /\ ending' = "aborted"
  /\ newlog' = Copied(count) /\ actual_start_count' = count
  /\ UNCHANGED <<log, start_count, end_count, count, q, snipping, done, header, cut>>

ReplayEnds_open ==
  /\ \/ ending = "requested"
     \/ ending = "no" /\ log[q.head].kind = "LAST" /\ count >= log[q.head].point.count
  /\ ending' = "ended"
  /\ UNCHANGED <<log, start_count, end_count, count, q, plugin>>

\* The replay ends, at the end of its log or as the plugin asked, and the plugins are
\* unloaded (uninit_plugin).
ReplayEnds ==
  /\ \/ ending = "requested"
     \/ ending = "no" /\ log[q.head].kind = "LAST" /\ count >= log[q.head].point.count
  /\ ending' = "ended"
  /\ IF snipping /\ ~done THEN end_snip(newlog, actual_start_count)
                          ELSE UNCHANGED <<newlog, header, done>>
  /\ UNCHANGED <<log, start_count, end_count, count, q, snipping, actual_start_count, cut>>

Next == Consumes \/ ReplayEnds \/ \E n \in 1 .. MaxTB : Block(n) \/ Aborts(n)

Spec == Init /\ [][Next]_vars /\ WF_vars(Next)

----------------------------------------------------------------------------
(* Properties.                                                             *)

\* Every variable has its type.
TypeOK ==
  /\ count \in 0 .. MaxCount /\ q \in Queues
  /\ ending \in {"no", "requested", "ended", "aborted"}
  /\ snipping \in BOOLEAN /\ done \in BOOLEAN
  /\ actual_start_count \in 0 .. MaxCount
  /\ \A i \in 1 .. Len(newlog) : newlog[i].point.count \in 0 .. MaxCount

Body == IF done THEN Front(newlog) ELSE newlog

\* The end asked for lies before the end of the recording, and is not the count of an
\* entry.
EndGiven ==
  /\ end_count < log[Len(log)].point.count
  /\ \A i \in 1 .. Len(log) : log[i].point.count # end_count

SameEvent(e, f, start) ==
  /\ e.kind = f.kind /\ e.site = f.site
  /\ e.point = [f.point EXCEPT !.count = @ - start]

\* The types hold.  The snapshot is taken before the block with instruction start_count
\* runs, but not before an earlier block than that.  The new log is the old one from the first entry
\* the guest had not taken then, without a gap and in order, up to end_count: although
\* its first part comes from the queue and the rest from the file.
CutIsWhole ==
  /\ TypeOK
  /\ snipping => actual_start_count <= start_count /\ start_count < actual_start_count + MaxTB
  /\ snipping /\ EndGiven =>
       /\ \A i \in 1 .. Len(Body) :
            SameEvent(Body[i], log[cut.head + i - 1], actual_start_count)
       /\ cut.head + Len(Body) <= Len(log)
       /\ log[cut.head + Len(Body)].point.count > end_count

\* A finished log is in the form rr_do_end_record gives one: the point at its
\* beginning is that of its end marker, which no entry is after, so that replay
\* reports its progress and knows its end.
WellEnded ==
  done /\ EndGiven =>
       /\ header = Last(newlog).point /\ Last(newlog).kind = "LAST"
       /\ \A i \in 1 .. Len(newlog) - 1 : /\ newlog[i].point.count <= newlog[i + 1].point.count
                                          /\ newlog[i].kind # "LAST"

\* A cut that has begun is completed, by the end asked for or at the end of the replay.
CutCompleted == snipping ~> done
=============================================================================
