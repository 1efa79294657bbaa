------------------------------- MODULE Qcow2 -------------------------------
(***************************************************************************)
(* The qcow2 image driver: the cache of metadata tables with its flush     *)
(* dependencies (block/qcow2-cache.c), cluster allocation and reference    *)
(* counts (qcow2-refcount.c), the two-level cluster map                    *)
(* (qcow2-cluster.c) and the coroutine request handlers (qcow2.c), over a  *)
(* host file whose writes stay volatile until the file is flushed.         *)
(*                                                                         *)
(* A request runs in critical sections of s->lock.  One section is one     *)
(* action: it computes the new in-memory state and the sequence io of the  *)
(* file writes and flushes it issues; DiskStep carries those out one at a  *)
(* time, and the section's request owns the lock until the last of them.   *)
(* A crash may come between any two, and then every file object holds one  *)
(* of the contents written to it since the last flush.                     *)
(*                                                                         *)
(* Not here: internal snapshots, so every entry has QCOW_OFLAG_COPIED;     *)
(* compressed clusters, encryption, backing files, growing the L1 and      *)
(* refcount tables; failing metadata writes; requests of more than one     *)
(* cluster.                                                                *)
(***************************************************************************)
EXTENDS Integers, Sequences, FiniteSets, FiniteSetsExt, SequencesExt

CONSTANTS
  Requests,     \* coroutines that may be in the driver at the same time
  NBlocks,      \* guest clusters, numbered from 0
  L2Size,       \* entries of an L2 table
  NClusters,    \* host clusters that can be allocated, numbered from 1
  RefSize,      \* entries of a refcount block
  CacheSize,    \* L2_CACHE_SIZE
  ReadShapes, WriteShapes,  \* bound: the parts of a cluster that requests cover
  MaxOps,       \* bound: guest operations
  MaxCrashes,   \* bound: crashes
  None

ASSUME Qcow2Constants ==
  /\ NBlocks \in Nat \ {0} /\ L2Size \in Nat \ {0} /\ RefSize \in Nat \ {0}
  /\ NClusters \in Nat \ {0} /\ CacheSize \in Nat \ {0}
  /\ MaxOps \in Nat /\ MaxCrashes \in Nat
  /\ None \notin Requests

Blocks == 0 .. NBlocks - 1
Sectors == {1, 2}                 \* a cluster: one sector before the other
Places == Blocks \X Sectors
Clusters == 1 .. NClusters
L1Index(b) == b \div L2Size
L2Index(b) == b % L2Size
L1Range == 0 .. L1Index(NBlocks - 1)
RefBlock(c) == c \div RefSize
Offsets == 0 .. NClusters         \* 0 in a table: unallocated

L1Tables == [L1Range -> Offsets]
L2Tables == [0 .. L2Size - 1 -> Offsets]
EmptyL2 == [i \in 0 .. L2Size - 1 |-> 0]
RefBlocks == RefBlock(1) .. RefBlock(NClusters)
CountsOf(k) == {c \in Clusters : RefBlock(c) = k}

\* The objects of the file that are written as a whole.
L1Obj == <<"l1", 0, 0>>
L2Obj(c) == <<"l2", c, 0>>
RbObj(k) == <<"rb", k, 0>>
DataObj(c, s) == <<"data", c, s>>
Objects == {L1Obj} \cup {L2Obj(c) : c \in Clusters} \cup {RbObj(k) : k \in RefBlocks}
             \cup {DataObj(c, s) : c \in Clusters, s \in Sectors}

VARIABLES
  mode,      \* "up", "closing", "closed" or "crashed"
  wt,        \* writethrough caches, and a file opened with O_DSYNC
  m,         \* BDRVQcowState: L1 table, caches, free_cluster_index, issued io
  owner,     \* the request whose critical section still does file I/O, or None
  req,       \* the coroutines
  disk,      \* contents of the file, as the host's page cache has them
  old,       \* contents each object may have after a power failure
  guest,     \* what the guest knows each sector to hold
  unflushed, \* sectors touched since the last completed guest flush
  ops,       \* guest operations so far
  crashes,
  leaky      \* a crash or a failed write may have left unreferenced clusters

vars == <<mode, wt, m, owner, req, disk, old, guest, unflushed, ops, crashes, leaky>>

IdleReq == [pc |-> "idle", op |-> None, b |-> 0, secs |-> {}, val |-> 0, off |-> 0,
            l2 |-> 0, meta |-> FALSE, on |-> None, cover |-> {}, got |-> <<>>]

----------------------------------------------------------------------------
(* The file below the driver.                                              *)

bdrv_pwrite(st, obj, v) == [st EXCEPT !.io = Append(@, [obj |-> obj, val |-> v])]
bdrv_flush(st) == [st EXCEPT !.io = Append(@, [obj |-> None, val |-> 0])]
bdrv_pwrite_sync(st, obj, v) == bdrv_flush(bdrv_pwrite(st, obj, v))

\* A read sees the writes that this critical section has already issued.
bdrv_pread(st, obj) ==
  LET mine == SelectSeq(st.io, LAMBDA e : e.obj = obj)
  IN  IF mine = <<>> THEN disk[obj] ELSE Last(mine).val

----------------------------------------------------------------------------
(* qcow2-cache.c.  st.l2 and st.rb are the two caches: ent holds the       *)
(* cached tables by offset.                                                *)

Obj(c, o) == IF c = "l2" THEN L2Obj(o) ELSE RbObj(o)

\* qcow2_cache_entry_flush of a cache that depends on no other.
EntryWrite(st, c, o) ==
  LET st1 == IF st[c].depends_on_flush
               THEN [bdrv_flush(st) EXCEPT ![c].depends_on_flush = FALSE] ELSE st
  IN  IF ~st[c].ent[o].dirty THEN st
      ELSE [bdrv_pwrite(st1, Obj(c, o), st[c].ent[o].table)
              EXCEPT ![c].ent[o].dirty = FALSE]

\* qcow2_cache_flush of a cache that depends on no other.
FlushLeaf(st, c) ==
  bdrv_flush(FoldSet(LAMBDA o, acc : EntryWrite(acc, c, o), st, DOMAIN st[c].ent))

qcow2_cache_flush_dependency(st, c) ==
  [FlushLeaf(st, st[c].depends)
     EXCEPT ![c].depends = None, ![c].depends_on_flush = FALSE]

qcow2_cache_entry_flush(st, c, o) ==
  IF st[c].ent[o].dirty /\ st[c].depends # None
    THEN EntryWrite(qcow2_cache_flush_dependency(st, c), c, o)
    ELSE EntryWrite(st, c, o)

qcow2_cache_flush(st, c) ==
  bdrv_flush(FoldSet(LAMBDA o, acc : qcow2_cache_entry_flush(acc, c, o), st,
                     DOMAIN st[c].ent))

qcow2_cache_set_dependency(st, c, d) ==
  LET st1 == IF st[d].depends # None THEN qcow2_cache_flush_dependency(st, d) ELSE st
  IN  [st1 EXCEPT ![c].depends = d]

qcow2_cache_depends_on_flush(st, c) == [st EXCEPT ![c].depends_on_flush = TRUE]

mark_dirty(st, c, o) == [st EXCEPT ![c].ent[o].dirty = TRUE]

\* find_entry_to_replace: an entry nobody holds, whichever the hit counts favour;
\* abort() when there is none.
Replaceable(st) == {o \in DOMAIN st.l2.ent : st.l2.ent[o].ref = 0}

\* qcow2_cache_do_get on the L2 cache; table is what a miss is filled with.
do_get(st, o, table) ==
  LET Evict == CHOOSE e \in Replaceable(st) : TRUE
      full == Cardinality(DOMAIN st.l2.ent) = CacheSize
      st1 == IF full THEN qcow2_cache_entry_flush(st, "l2", Evict) ELSE st
      keep == IF full THEN DOMAIN st.l2.ent \ {Evict} ELSE DOMAIN st.l2.ent
      entry == [table |-> table, dirty |-> FALSE, ref |-> 1]
  IN  CASE o \in DOMAIN st.l2.ent -> [st EXCEPT !.l2.ent[o].ref = @ + 1]
        [] o \notin DOMAIN st.l2.ent /\ full /\ Replaceable(st) = {} ->
             [st EXCEPT !.abort = TRUE]
        [] OTHER ->
             [st1 EXCEPT !.l2.ent = (o :> entry) @@ Restrict(@, keep)]

qcow2_cache_get(st, o) == do_get(st, o, bdrv_pread(st, L2Obj(o)))
qcow2_cache_get_empty(st, o) == do_get(st, o, EmptyL2)

qcow2_cache_put(st, c, o) ==
  LET st1 == [st EXCEPT ![c].ent[o].ref = @ - 1]
  IN  IF wt THEN qcow2_cache_entry_flush(st1, c, o) ELSE st1

----------------------------------------------------------------------------
(* qcow2-refcount.c.  Every refcount block fits in its cache.              *)

get_refcount(st, c) == st.rb.ent[RefBlock(c)].table[c]

update_refcount_unordered(st, c, addend) ==
  LET k == RefBlock(c)
      n == get_refcount(st, c) + addend
      st2 == [mark_dirty(st, "rb", k) EXCEPT !.rb.ent[k].table[c] = n,
                !.rb.ent[k].ref = @ + 1,
                !.free = IF n = 0 /\ c < @ THEN c ELSE @]
  IN  qcow2_cache_put(st2, "rb", k)

update_refcount(st, c, addend) ==
  LET k == RefBlock(c)
      n == get_refcount(st, c) + addend
      st1 == IF addend < 0 THEN qcow2_cache_set_dependency(st, "rb", "l2") ELSE st
      st2 == [mark_dirty(st1, "rb", k) EXCEPT !.rb.ent[k].table[c] = n,
                !.rb.ent[k].ref = @ + 1,
                !.free = IF n = 0 /\ c < @ THEN c ELSE @]
  IN  qcow2_cache_put(st2, "rb", k)

FreeFrom(st) == {c \in Clusters : c >= st.free /\ get_refcount(st, c) = 0}

\* alloc_clusters_noref: the cluster it settles on.
alloc_clusters_noref(st) == Min(FreeFrom(st))

qcow2_alloc_clusters(st) ==
  LET c == alloc_clusters_noref(st)
  IN  update_refcount([st EXCEPT !.free = c + 1], c, 1)

qcow2_free_clusters(st, c) == update_refcount(st, c, -1)

----------------------------------------------------------------------------
(* qcow2-cluster.c.                                                        *)

l2_allocate(st, t) ==
  LET c == alloc_clusters_noref(st)
      st1 == qcow2_cache_flush(qcow2_alloc_clusters(st), "rb")
      st2 == qcow2_cache_get_empty(st1, c)
      st3 == [qcow2_cache_flush(mark_dirty(st2, "l2", c), "l2") EXCEPT !.l1[t] = c]
  IN  IF st2.abort THEN st2 ELSE bdrv_pwrite_sync(st3, L1Obj, st3.l1)

get_cluster_table(st, b) ==
  LET t == L1Index(b)
  IN  IF st.l1[t] # 0 THEN qcow2_cache_get(st, st.l1[t]) ELSE l2_allocate(st, t)

\* The entry of block b in the L2 table at o, which the caller holds.
Entry(st, o, b) == st.l2.ent[o].table[L2Index(b)]
SetEntry(st, o, b, c) ==
  [mark_dirty(st, "l2", o) EXCEPT !.l2.ent[o].table[L2Index(b)] = c]

\* qcow2_get_cluster_offset: the state after the lookup, and what it finds.
LookedUp(st, b) ==
  LET o == st.l1[L1Index(b)]
      st1 == qcow2_cache_get(st, o)
  IN  IF o = 0 THEN st ELSE IF st1.abort THEN st1 ELSE qcow2_cache_put(st1, "l2", o)

qcow2_get_cluster_offset(st, b) ==
  LET o == st.l1[L1Index(b)]
  IN  CASE o = 0 -> 0
        [] o \in DOMAIN st.l2.ent -> Entry(st, o, b)
        [] OTHER -> bdrv_pread(st, L2Obj(o))[L2Index(b)]

\* qcow2_read of one sector: zeroes where nothing is allocated.
qcow2_read(st, b, s) ==
  LET c == qcow2_get_cluster_offset(st, b)
  IN  IF c = 0 THEN 0 ELSE disk[DataObj(c, s)]

copy_sectors_none(st, r) == st

\* copy_sectors of the sectors that the request at r does not write.
copy_sectors(st, r) ==
  LET copied == Sectors \ req[r].secs
      st1 == IF copied = {} THEN st ELSE LookedUp(st, req[r].b)
  IN  FoldSet(LAMBDA s, acc :
                bdrv_pwrite(acc, DataObj(req[r].off, s), qcow2_read(st, req[r].b, s)),
              st1, copied)

qcow2_alloc_cluster_link_l2(st, r) ==
  LET b == req[r].b
      st1 == copy_sectors(st, r)
      st2 == IF req[r].secs # Sectors THEN qcow2_cache_depends_on_flush(st1, "l2")
             ELSE st1
      st3 == get_cluster_table(qcow2_cache_set_dependency(st2, "l2", "rb"), b)
      o == st3.l1[L1Index(b)]
      was == Entry(st3, o, b)
      st4 == qcow2_cache_put(SetEntry(st3, o, b, req[r].off), "l2", o)
  IN  IF st3.abort THEN st3
      ELSE IF was # 0 THEN qcow2_free_clusters(st4, was) ELSE st4

\* discard_single_l2 of one cluster.
discard_single_l2(st, b) ==
  LET st1 == get_cluster_table(st, b)
      o == st1.l1[L1Index(b)]
      was == Entry(st1, o, b)
      st2 == qcow2_free_clusters(SetEntry(st1, o, b, 0), was)
  IN  IF st1.abort THEN st1
      ELSE qcow2_cache_put(IF was = 0 THEN st1 ELSE st2, "l2", o)

----------------------------------------------------------------------------
(* qcow2_open, and the state it builds from the file.                      *)

Opened(f) ==
  [l1 |-> f[L1Obj],
   l2 |-> [ent |-> <<>>, depends |-> None, depends_on_flush |-> FALSE],
   rb |-> [ent |-> [k \in RefBlocks |->
             [table |-> f[RbObj(k)], dirty |-> FALSE, ref |-> 0]],
           depends |-> None, depends_on_flush |-> FALSE],
   free |-> 1, io |-> <<>>, abort |-> FALSE]

\* An image in which the guest has written block 0 and nothing else: its L2 table is
\* in cluster 1 and its data in cluster 2.
Image ==
  [x \in Objects |->
     CASE x[1] = "l1" -> [t \in L1Range |-> IF t = 0 THEN 1 ELSE 0]
       [] x[1] = "l2" -> [i \in 0 .. L2Size - 1 |-> IF x[2] = 1 /\ i = 0 THEN 2 ELSE 0]
       [] x[1] = "rb" -> [c \in CountsOf(x[2]) |-> IF c <= 2 THEN 1 ELSE 0]
       [] OTHER -> IF x[2] = 2 THEN MaxOps + 1 ELSE 0]

Init ==
  /\ mode = "up" /\ wt \in BOOLEAN
  /\ disk = Image /\ old = [x \in Objects |-> {Image[x]}]
  /\ m = Opened(Image)
  /\ owner = None /\ req = [r \in Requests |-> IdleReq]
  /\ guest = [p \in Places |-> IF p[1] = 0 THEN MaxOps + 1 ELSE 0] /\ unflushed = {}
  /\ ops = 0 /\ crashes = 0 /\ leaky = FALSE

----------------------------------------------------------------------------
(* Critical sections and file I/O.                                         *)

Locked == mode = "up" /\ owner = None /\ ~m.abort

\* r's section leaves the state st behind; r owns the lock while it has I/O.
Section(r, st) ==
  /\ m' = st
  /\ owner' = IF st.io = <<>> THEN None ELSE r

Unlocked(r) == mode = "up" /\ owner # r /\ ~m.abort

Landed(d, o, obj, v) ==
  /\ d = [disk EXCEPT ![obj] = v]
  /\ o = [old EXCEPT ![obj] = IF wt THEN {v} ELSE @ \cup {v}]

Synced == [x \in Objects |-> {disk[x]}]

DiskStep ==
  /\ m.io # <<>> /\ mode \in {"up", "closing"}
  /\ LET e == Head(m.io)
     IN  IF e.obj = None THEN old' = Synced /\ UNCHANGED disk
         ELSE Landed(disk', old', e.obj, e.val)
  /\ m' = [m EXCEPT !.io = Tail(@)]
  /\ owner' = IF Len(m.io) = 1 THEN None ELSE owner
  /\ mode' = IF mode = "closing" /\ Len(m.io) = 1 THEN "closed" ELSE mode
  /\ UNCHANGED <<wt, req, guest, unflushed, ops, crashes, leaky>>

----------------------------------------------------------------------------
(* The request handlers of qcow2.c.                                        *)

InUse == UNION {{req[r].b} \X req[r].secs : r \in {q \in Requests : req[q].pc # "idle"}}

\* Request r enters its handler and gets s->lock; until then it has done nothing.
\* A guest never has two requests under way for the same sector.
Enters(r, b, secs) ==
  /\ Locked /\ ops < MaxOps
  /\ req[r].pc = "idle"
  /\ ({b} \X secs) \cap InUse = {}
  /\ ops' = ops + 1
  /\ UNCHANGED <<mode, wt, disk, old, guest, crashes, leaky>>

Request(op, b, secs) ==
  [IdleReq EXCEPT !.op = op, !.b = b, !.secs = secs, !.val = ops + 1]

\* A write or a discard of the sectors mine: no flush under way covers them.
Uncovered(mine) == [q \in Requests |-> [req[q] EXCEPT !.cover = @ \ mine]]

Idle(r) == [req EXCEPT ![r] = IdleReq]

\* qcow2_co_readv: the lookup under the lock, then the data without it.
ReadLookup(r, b, secs) ==
  /\ Enters(r, b, secs)
  /\ Section(r, LookedUp(m, b))
  /\ req' = [req EXCEPT ![r] = [Request("read", b, secs) EXCEPT
                                  !.pc = "data", !.off = qcow2_get_cluster_offset(m, b)]]
  /\ UNCHANGED unflushed

ReadData(r) ==
  /\ Unlocked(r) /\ req[r].pc = "data" /\ req[r].op = "read"
  /\ req' = [req EXCEPT ![r].pc = "done",
       ![r].got = [s \in req[r].secs |->
                     IF req[r].off = 0 THEN 0 ELSE disk[DataObj(req[r].off, s)]]]
  /\ UNCHANGED <<mode, wt, m, owner, disk, old, guest, unflushed, ops, crashes, leaky>>

\* The allocations under way that a request for block b runs into, and has to
\* wait for: the test takes a range that ends where b starts for an overlap.
cluster_allocs == {q \in Requests : req[q].meta}
Conflicts_none(b) == {}
Conflicts(b) ==
  {q \in cluster_allocs : LET old_start == req[q].b
                          IN  b + 1 >= old_start /\ b <= old_start + 1 /\ b >= old_start}

\* qcow2_alloc_cluster_offset from the label again on, for the request now that
\* holds the L2 table at o in the state st: the states it may leave, and what
\* becomes of the request.
AllocClusterOffset(now, st, o) ==
  LET c == Entry(st, o, now.b)
  IN  IF c # 0
        THEN {[st |-> qcow2_cache_put(st, "l2", o),
               now |-> [now EXCEPT !.pc = "data", !.off = c]]}
      ELSE IF Conflicts(now.b) # {}
        THEN {[st |-> st, now |-> [now EXCEPT !.pc = "queued", !.l2 = o, !.on = q]] :
                q \in Conflicts(now.b)}
      ELSE {[st |-> qcow2_cache_put(qcow2_alloc_clusters(st), "l2", o),
             now |-> [now EXCEPT !.pc = "data", !.off = alloc_clusters_noref(st),
                                 !.meta = TRUE]]}

\* Bound: two free clusters, for the data and for a new L2 table.
Room == Cardinality(FreeFrom(m)) >= 2

\* qcow2_co_writev up to the data, or to the queue of an allocation under way.
WriteStart(r, b, secs) ==
  /\ Enters(r, b, secs) /\ Room
  /\ LET st == get_cluster_table(m, b)
         now == Request("write", b, secs)
         mine == {b} \X secs
     IN  \E x \in IF st.abort THEN {[st |-> st, now |-> now]}
                  ELSE AllocClusterOffset(now, st, st.l1[L1Index(b)]) :
           /\ Section(r, x.st)
           /\ unflushed' = unflushed \cup mine
           /\ req' = [Uncovered(mine) EXCEPT ![r] = x.now]

\* Woken from dependent_requests, with the lock again.
WriteAgain(r) ==
  /\ Locked /\ req[r].pc = "again" /\ Room
  /\ \E x \in AllocClusterOffset(req[r], m, req[r].l2) :
       /\ Section(r, x.st)
       /\ req' = [req EXCEPT ![r] = x.now]
  /\ UNCHANGED <<mode, wt, disk, old, guest, unflushed, ops, crashes, leaky>>

\* bdrv_co_writev of the data, without the lock.
WriteData(r) ==
  /\ Unlocked(r) /\ req[r].pc = "data" /\ req[r].op = "write"
  /\ LET mine == {DataObj(req[r].off, s) : s \in req[r].secs}
     IN  /\ disk' = [x \in Objects |-> IF x \in mine THEN req[r].val ELSE disk[x]]
         /\ old' = [x \in Objects |->
              IF x \notin mine THEN old[x]
              ELSE IF wt THEN {req[r].val} ELSE old[x] \cup {req[r].val}]
  /\ req' = [req EXCEPT ![r].pc = "written"]
  /\ UNCHANGED <<mode, wt, m, owner, guest, unflushed, ops, crashes, leaky>>

\* run_dependent_requests: off the list, and everyone queued on r is woken.
run_dependent_requests(r, rest) ==
  [q \in Requests |->
     IF q = r THEN rest
     ELSE IF req[q].pc = "queued" /\ req[q].on = r
       THEN [req[q] EXCEPT !.pc = "again", !.on = None] ELSE req[q]]

WriteFails_asleep(r) ==
  /\ Locked /\ req[r].pc = "data" /\ req[r].op = "write"
  /\ req' = Idle(r)
  /\ leaky' = (leaky \/ req[r].meta)
  /\ UNCHANGED <<mode, wt, m, owner, disk, old, guest, unflushed, ops, crashes>>

\* bdrv_co_writev fails: the request ends at fail:, nothing is linked.
WriteFails(r) ==
  /\ Locked /\ req[r].pc = "data" /\ req[r].op = "write"
  /\ req' = run_dependent_requests(r, IdleReq)
  /\ leaky' = (leaky \/ req[r].meta)
  /\ UNCHANGED <<mode, wt, m, owner, disk, old, guest, unflushed, ops, crashes>>

WriteLink(r) ==
  /\ Locked /\ req[r].pc = "written"
  /\ Section(r, IF req[r].meta THEN qcow2_alloc_cluster_link_l2(m, r) ELSE m)
  /\ req' = run_dependent_requests(r, [req[r] EXCEPT !.pc = "done", !.meta = FALSE])
  /\ UNCHANGED <<mode, wt, disk, old, guest, unflushed, ops, crashes, leaky>>

\* qcow2_co_discard.
Discard(r, b) ==
  /\ Enters(r, b, Sectors) /\ Room
  /\ Section(r, discard_single_l2(m, b))
  /\ unflushed' = unflushed \cup ({b} \X Sectors)
  /\ req' = [Uncovered({b} \X Sectors)
               EXCEPT ![r] = [Request("discard", b, Sectors) EXCEPT !.pc = "done"]]

FlushToOs_refcounts(r) ==
  /\ Enters(r, 0, {})
  /\ Section(r, qcow2_cache_flush(m, "rb"))
  /\ req' = [req EXCEPT ![r] = [Request("flush", 0, {}) EXCEPT
                                  !.pc = "data", !.cover = Places \ InUse]]
  /\ UNCHANGED unflushed

\* qcow2_co_flush_to_os, then qcow2_co_flush_to_disk without the lock.  The
\* flush answers for the requests that were complete when it began.
FlushToOs(r) ==
  /\ Enters(r, 0, {})
  /\ Section(r, qcow2_cache_flush(qcow2_cache_flush(m, "l2"), "rb"))
  /\ req' = [req EXCEPT ![r] = [Request("flush", 0, {}) EXCEPT
                                  !.pc = "data", !.cover = Places \ InUse]]
  /\ UNCHANGED unflushed

FlushToDisk(r) ==
  /\ Unlocked(r) /\ req[r].pc = "data" /\ req[r].op = "flush"
  /\ old' = Synced
  /\ unflushed' = unflushed \ req[r].cover
  /\ req' = Idle(r)
  /\ UNCHANGED <<mode, wt, m, owner, disk, guest, ops, crashes, leaky>>

\* The answer reaches the guest.
Complete(r) ==
  /\ Unlocked(r) /\ req[r].pc = "done"
  /\ LET mine == {req[r].b} \X req[r].secs
     IN  /\ guest' = [p \in Places |->
              IF p \notin mine \/ req[r].op = "read" THEN guest[p]
              ELSE IF req[r].op = "write" THEN req[r].val ELSE 0]
         /\ unflushed' = IF wt THEN unflushed \ mine ELSE unflushed
  /\ req' = Idle(r)
  /\ UNCHANGED <<mode, wt, m, owner, disk, old, ops, crashes, leaky>>

----------------------------------------------------------------------------
(* Closing, opening, and power failure.                                    *)

Close_l2only ==
  /\ mode = "up" /\ owner = None /\ ~m.abort /\ ops < MaxOps
  /\ \A r \in Requests : req[r].pc = "idle"
  /\ mode' = "closing" /\ ops' = ops + 1
  /\ m' = qcow2_cache_flush(m, "l2")
  /\ UNCHANGED <<wt, owner, req, disk, old, guest, unflushed, crashes, leaky>>

\* qcow2_close; bdrv_close waits for the requests first.
Close ==
  /\ mode = "up" /\ owner = None /\ ~m.abort /\ ops < MaxOps
  /\ \A r \in Requests : req[r].pc = "idle"
  /\ mode' = "closing" /\ ops' = ops + 1
  /\ m' = qcow2_cache_flush(qcow2_cache_flush(m, "l2"), "rb")
  /\ UNCHANGED <<wt, owner, req, disk, old, guest, unflushed, crashes, leaky>>

Images ==
  FoldSet(LAMBDA x, acc : {[f EXCEPT ![x] = v] : f \in acc, v \in old[x]},
          {disk}, {x \in Objects : Cardinality(old[x]) > 1})

\* Bound: at most one guest operation after a crash.
Crash ==
  /\ mode \in {"up", "closing"} /\ crashes < MaxCrashes
  /\ \E f \in Images : disk' = f /\ old' = [x \in Objects |-> {f[x]}]
  /\ mode' = "crashed" /\ crashes' = crashes + 1 /\ leaky' = TRUE
  /\ m' = [m EXCEPT !.io = <<>>] /\ owner' = None
  /\ req' = [r \in Requests |-> IdleReq]
  /\ ops' = Max({ops, MaxOps - 1})
  /\ UNCHANGED <<wt, guest, unflushed>>

\* qcow2_open.  The guest of a restarted machine learns what its disk holds.
Open ==
  /\ mode \in {"closed", "crashed"}
  /\ m' = Opened(disk) /\ mode' = "up"
  /\ guest' = [p \in Places |-> qcow2_read(Opened(disk), p[1], p[2])]
  /\ unflushed' = {}
  /\ UNCHANGED <<wt, owner, req, disk, old, ops, crashes, leaky>>

----------------------------------------------------------------------------
Steps(r) ==
  \/ ReadData(r)
  \/ WriteAgain(r) \/ WriteData(r) \/ WriteFails(r) \/ WriteLink(r)
  \/ FlushToDisk(r) \/ Complete(r)

Enter(r) ==
  \/ \E b \in Blocks, secs \in ReadShapes : ReadLookup(r, b, secs)
  \/ \E b \in Blocks, secs \in WriteShapes : WriteStart(r, b, secs)
  \/ \E b \in Blocks : Discard(r, b)
  \/ FlushToOs(r)

Next ==
  \/ \E r \in Requests : Enter(r) \/ Steps(r)
  \/ DiskStep \/ Close \/ Crash \/ Open

Spec == Init /\ [][Next]_vars

----------------------------------------------------------------------------
(* Properties.                                                             *)

\* The types of the driver's state: reference counts are never negative, and a
\* table in a cache is never put back more often than it was taken.
TypeOK ==
  /\ mode \in {"up", "closing", "closed", "crashed"} /\ wt \in BOOLEAN
  /\ m.l1 \in L1Tables /\ m.free \in 1 .. NClusters + 1 /\ m.abort \in BOOLEAN
  /\ \A o \in DOMAIN m.l2.ent :
       o \in Clusters /\ m.l2.ent[o] \in [table : L2Tables, dirty : BOOLEAN, ref : Nat]
  /\ \A k \in RefBlocks : m.rb.ent[k].ref = 0
                          /\ m.rb.ent[k].table \in [CountsOf(k) -> 0 .. 1]
  /\ m.l2.depends \in {None, "rb"} /\ m.rb.depends \in {None, "l2"}
  /\ owner \in Requests \cup {None}
  /\ \A r \in Requests :
       /\ req[r].pc \in {"idle", "queued", "again", "data", "written", "done"}
       /\ req[r].off \in Offsets /\ req[r].l2 \in Offsets
       /\ req[r].on \in Requests \cup {None} /\ req[r].cover \subseteq Places
  /\ \A x \in Objects : disk[x] \in old[x]
  /\ guest \in [Places -> 0 .. MaxOps + 1] /\ unflushed \subseteq Places

\* References to cluster c in a file f: from the L1 table, and from the L2
\* tables that the L1 table reaches.
References(f, c) ==
  Cardinality({t \in L1Range : f[L1Obj][t] = c})
    + Cardinality({b \in Blocks : LET o == f[L1Obj][L1Index(b)]
                                  IN  o # 0 /\ f[L2Obj(o)][L2Index(b)] = c})
RefcountOf(f, c) == f[RbObj(RefBlock(c))][c]

\* Whenever the power fails, no cluster has more references in the file than its
\* reference count: the order that the cache dependencies impose on refcount and
\* L2 writes (qcow2_cache_set_dependency) leaves at worst leaked clusters.
NoCorruption ==
  mode = "crashed" => \A c \in Clusters : References(disk, c) <= RefcountOf(disk, c)

\* What the guest flushed survives: after a crash, every sector it has not touched
\* since its last completed flush (or, with a writethrough cache, since the last
\* answer it got) reads as before.  This includes the sectors that a write to the
\* other half of their cluster moves (copy_sectors, qcow2_cache_depends_on_flush).
FlushedSurvives ==
  mode = "crashed" =>
    \A p \in Places \ unflushed : qcow2_read(Opened(disk), p[1], p[2]) = guest[p]

\* A read returns the data of the last write, whichever requests ran between its
\* lookup and its data transfer: qcow2_co_readv drops s->lock between the two.
ReadsLastWrite ==
  \A r \in Requests : req[r].pc = "done" /\ req[r].op = "read" =>
    \A s \in req[r].secs : req[r].got[s] = guest[<<req[r].b, s>>]

\* The types hold.  Two requests never write into the same new cluster, and none into
\* a cluster that a table already references: each allocation under way owns its
\* cluster.
OwnCluster ==
  /\ TypeOK
  /\ \A r \in cluster_allocs :
       /\ \A q \in cluster_allocs \ {r} : req[q].off # req[r].off /\ req[q].b # req[r].b
       /\ get_refcount(m, req[r].off) = 1
       /\ \A b \in Blocks : qcow2_get_cluster_offset(m, b) # req[r].off

\* A clean close leaves an exact image: as long as no write failed and no crash
\* came before, every reference count equals the number of references.
CleanClose ==
  mode = "closed" /\ ~leaky =>
    \A c \in Clusters : References(disk, c) = RefcountOf(disk, c)

\* Nothing waits in a circle or for nothing: the two caches never depend on each other,
\* so that flushing one ends; and a request queued behind an allocation is woken when
\* that allocation is linked or fails (run_dependent_requests), while the one it waits
\* for never waits itself.
NobodyStuck ==
  /\ m.l2.depends = None \/ m.rb.depends = None
  /\ \A r \in Requests : req[r].pc = "queued" =>
       req[r].on \in cluster_allocs /\ req[req[r].on].pc \in {"data", "written"}
=============================================================================
