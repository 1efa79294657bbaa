------------------------------- MODULE TBCache -------------------------------
(***************************************************************************)
(* The cache of translated blocks: qemu/exec.c translates, links and       *)
(* invalidates blocks and keeps the pages that hold code protected;        *)
(* qemu/cpu-exec.c looks blocks up and chains them; the guest runs them.   *)
(*                                                                         *)
(* Guest memory is pages of PageSize words.  A block is a run of words     *)
(* that may cross into the next virtual page.  What a word contains is     *)
(* left out: a block is stale once a word it was translated from has been  *)
(* written.  The record cache holds the data structures, and each function *)
(* of exec.c is an operator from cache to cache.                           *)
(*                                                                         *)
(* There is one virtual CPU, and everything runs in its thread or with the *)
(* CPU stopped, except the signal that asks it to leave the generated code *)
(* (cpu_exit).  Instruction counting (icount) is off, so cpu_exec_nocache, *)
(* cpu_io_recompile and tb_free are never called.  The dirty flags other   *)
(* than CODE_DIRTY_FLAG stay set.                                          *)
(***************************************************************************)
EXTENDS Integers, FiniteSets, SequencesExt, TLC

CONSTANTS
    PageSize,
    Maps,                   \* Maps[v]: physical pages virtual page v may map to
    Entries,                \* addresses blocks can begin at
    Jump,                   \* Jump[a]: target of the jump that can be at address a
    code_gen_max_blocks,
    SMC_BITMAP_USE_THRESHOLD,
    Modes,                  \* how the machine may be run: see Mode
    None

VPages == DOMAIN Maps
PPages == UNION {Maps[v] : v \in VPages}
Offsets == 0 .. PageSize - 1
Slots == 1 .. code_gen_max_blocks
VPage(a) == a \div PageSize

\* replay: rr_mode is RR_REPLAY; chaining: panda_tb_chaining; invalidates: a
\* plugin's before_block_exec_invalidate_opt asks for retranslations; flushes: a
\* plugin calls panda_do_flush_tb.
Mode == [replay : BOOLEAN, chaining : BOOLEAN, invalidates : BOOLEAN,
         flushes : BOOLEAN]

ASSUME TBCacheAssumption ==
    /\ PageSize \in Nat \ {0} /\ code_gen_max_blocks \in Nat \ {0}
    /\ SMC_BITMAP_USE_THRESHOLD \in Nat \ {0}
    /\ Modes \subseteq Mode

VARIABLES
    mode,
    pt,             \* the guest's page table
    seen,           \* history: what v was mapped to since its last TLB flush
    cache,
    cpu

vars == <<mode, pt, seen, cache, cpu>>

(***************************************************************************)
(* Blocks.  jmp[t] is the block the generated code of block t jumps to,    *)
(* and listed has the blocks that are in the list of jumps of the block    *)
(* they jump to (jmp_next is set).  Blocks that are invalidated stay in    *)
(* tbs until the next flush.  stale (history) has the blocks whose code    *)
(* was written since they were translated and that can still be found.     *)
(***************************************************************************)
Block == [pc : Entries, size : 1 .. 2 * PageSize, page : Seq(PPages),
          one : BOOLEAN]

\* Words of physical memory a block was translated from.
Words(b) == {<<b.page[1 + VPage(a) - VPage(b.pc)], a % PageSize>> :
                a \in b.pc .. b.pc + b.size - 1}

\* Target of the direct jump that ends the block, None if it has none: only
\* jumps into a page of the block itself are direct.
gen_goto_tb(b) ==
    LET last == b.pc + b.size - 1 IN
    IF last \in DOMAIN Jump /\ VPage(Jump[last]) \in {VPage(b.pc), VPage(last)}
    THEN Jump[last] ELSE None

Linked(c) == ToSet(c.tb_phys_hash)
PageTbs(c, p) == {t \in Linked(c) : \E i \in DOMAIN c.tbs[t].page : c.tbs[t].page[i] = p}

\* tlb[v] is the physical page in the entry of virtual page v, and fast has the
\* pages whose entry lets stores pass.  A miss reads the page table.
tlb_set_page(c, v) ==
    IF c.tlb[v] # None THEN c
    ELSE [c EXCEPT !.tlb = v :> pt[v] @@ @,
                   !.fast = IF c.dirty[pt[v]] THEN @ \cup {v} ELSE @]

(***************************************************************************)
(* Removing blocks.                                                        *)
(***************************************************************************)
invalidate_page_bitmap(c, P) ==
    [c EXCEPT !.code_bitmap = [p \in P |-> None] @@ @,
              !.code_write_count = [p \in P |-> 0] @@ @]

tb_flush(c) ==
    [invalidate_page_bitmap(c, PPages) EXCEPT
              !.nb_tbs = 0, !.tb_phys_hash = <<>>, !.tbs = [t \in Slots |-> None],
              !.jmp = [t \in Slots |-> None], !.listed = {}, !.stale = {},
              !.tb_jmp_cache = [a \in Entries |-> None]]

\* Mutant: blocks that jump to an invalidated block keep jumping.
Jumping_none(c, t) == {}

\* The blocks in the list of jumps to block t.
Jumping(c, t) == {s \in c.listed : c.jmp[s] = t}

\* The blocks of S are reset to leave the generated code at their end.
tb_reset_jump(c, S) ==
    [c EXCEPT !.listed = @ \ S,
              !.jmp = [t \in Slots |-> IF t \in S THEN None ELSE c.jmp[t]]]

\* The block leaves the list of jumps it is in, though its own code keeps jumping;
\* blocks that jump to it are reset.
tb_phys_invalidate(c, t) ==
    LET b == c.tbs[t]
        c1 == tb_reset_jump([c EXCEPT !.listed = @ \ {t}], Jumping(c, t) \ {t})
        c2 == invalidate_page_bitmap(c1, ToSet(b.page))
    IN  [c2 EXCEPT !.stale = @ \ {t}, !.tb_phys_hash = SelectSeq(@, LAMBDA s : s # t),
                   !.tb_invalidated_flag = TRUE,
                   !.tb_jmp_cache = IF @[b.pc] = t THEN b.pc :> None @@ @ ELSE @]

build_page_bitmap(c, p) ==
    {w[2] : w \in {w \in UNION {Words(c.tbs[t]) : t \in PageTbs(c, p)} : w[1] = p}}

\* Mutant: the reset does not follow the jumps.
Chain_one(c, t) == {t}

\* The blocks that can be reached from t by jumps that are in a list.
Chain(c, t) ==
    LET reach[n \in 0 .. code_gen_max_blocks] ==
            IF n = 0 THEN {t}
            ELSE reach[n - 1] \cup {c.jmp[s] : s \in reach[n - 1] \cap c.listed}
    IN  reach[code_gen_max_blocks]

tb_reset_jump_recursive(c, t) == tb_reset_jump(c, Chain(c, t) \cap c.listed)

\* For the block that was entered, if there is one.
cpu_unlink_tb(c, t) == IF t = None THEN c ELSE tb_reset_jump_recursive(c, t)

\* The blocks of a set in the order of the page's list, the one linked last first.
first_tb(S) == SelectSeq([i \in Slots |-> code_gen_max_blocks + 1 - i], LAMBDA t : t \in S)

\* Mutant: the part of a block in its second page is forgotten.
Hit_first(c, w) ==
    first_tb({t \in Linked(c) : /\ w \in Words(c.tbs[t])
                                /\ w[1] = c.tbs[t].page[1]
                                /\ w[2] >= c.tbs[t].pc % PageSize})

\* The blocks a write of word w hits.
Hit(c, w) == first_tb({t \in Linked(c) : w \in Words(c.tbs[t])})

\* A write of word w, by the CPU (is_cpu_write_access) or not.  unlink is the
\* block that was entered if an interrupt is pending, else None: the signal may
\* have come while current_tb was hidden.
tb_invalidate_phys_page_range(c, w, is_cpu, unlink) ==
    LET p == w[1]
        writes == IF c.code_bitmap[p] # None THEN c.code_write_count[p]
                  ELSE Min({c.code_write_count[p] + 1, SMC_BITMAP_USE_THRESHOLD})
        build == /\ is_cpu /\ c.code_bitmap[p] = None
                 /\ writes = SMC_BITMAP_USE_THRESHOLD
        c1 == [c EXCEPT !.code_write_count = p :> writes @@ @,
                        !.code_bitmap = IF build THEN p :> build_page_bitmap(c, p) @@ @
                                        ELSE @]
        Discard(d, t) == cpu_unlink_tb(tb_phys_invalidate(d, t), unlink)
        c2 == FoldLeft(Discard, c1, Hit(c, w))
    IN  IF PageTbs(c2, p) # {} THEN c2
        ELSE [invalidate_page_bitmap(c2, {p}) EXCEPT
                  !.dirty = IF is_cpu THEN p :> TRUE @@ @ ELSE @]

\* With a bitmap, only writes to words that hold code are looked at.
tb_invalidate_phys_page_fast(c, w, unlink) ==
    IF c.code_bitmap[w[1]] # None /\ w[2] \notin c.code_bitmap[w[1]] THEN c
    ELSE tb_invalidate_phys_page_range(c, w, TRUE, unlink)

(***************************************************************************)
(* Translating and finding blocks.                                         *)
(***************************************************************************)

\* Mutant: a bitmap that was built before stays.
tb_link_page_bitmap(c, t) ==
    LET first == {p \in ToSet(c.tbs[t].page) : PageTbs(c, p) = {}}
    IN  [c EXCEPT !.dirty = [p \in first |-> FALSE] @@ @,
                  !.fast = {v \in c.fast : c.tlb[v] \notin first},
                  !.jmp = t :> None @@ @, !.listed = @ \ {t},
                  !.tb_phys_hash = <<t>> \o @]

\* Block t is put in the list of each of its pages.  The first block of a page
\* protects it: every writable entry of the TLB is made slow.  The
\* block jumps nowhere yet.
tb_link_page(c, t) ==
    LET pages == ToSet(c.tbs[t].page)
        first == {p \in pages : PageTbs(c, p) = {}}
    IN  [invalidate_page_bitmap(c, pages) EXCEPT
                  !.dirty = [p \in first |-> FALSE] @@ @,
                  !.fast = {v \in c.fast : c.tlb[v] \notin first},
                  !.jmp = t :> None @@ @, !.listed = @ \ {t},
                  !.tb_phys_hash = <<t>> \o @]

tb_alloc(c) ==
    IF c.nb_tbs >= code_gen_max_blocks
    THEN [tb_flush(c) EXCEPT !.nb_tbs = 1, !.tb_invalidated_flag = TRUE]
    ELSE [c EXCEPT !.nb_tbs = @ + 1]

\* The block is what nb_tbs then counts to.
tb_gen_code(c, pc, size, one) ==
    LET last == VPage(pc + size - 1)
        c1 == tlb_set_page(tb_alloc(tlb_set_page(c, VPage(pc))), last)
        page == [i \in 1 .. 1 + last - VPage(pc) |-> c1.tlb[VPage(pc) + i - 1]]
        b == [pc |-> pc, size |-> size, page |-> page, one |-> one]
    IN  tb_link_page([c1 EXCEPT !.tbs = c1.nb_tbs :> b @@ @], c1.nb_tbs)

\* Sizes of a block at pc: the translator goes on to a jump, but in a replay it
\* stops at the countdown.
Sizes(pc, count) ==
    {n \in 1 .. PageSize : \/ pc + n - 1 \in DOMAIN Jump /\ (count > 0 => n <= count)
                           \/ n = count}

\* The physical pages of a block are compared with the TLB, which the
\* comparison fills.
tb_find_slow(c, pc, count) ==
    LET c1 == [tlb_set_page(c, VPage(pc)) EXCEPT !.tb_invalidated_flag = FALSE]
        Candidate(t) == c1.tbs[t].pc = pc /\ c1.tbs[t].page[1] = c1.tlb[VPage(pc)]
        Spans(t) == Len(c1.tbs[t].page) = 2
        c2 == IF \E t \in Linked(c1) : Candidate(t) /\ Spans(t)
              THEN tlb_set_page(c1, VPage(pc) + 1) ELSE c1
        found == SelectSeq(c2.tb_phys_hash, LAMBDA t : Candidate(t) /\
                    (Spans(t) => c2.tbs[t].page[2] = c2.tlb[VPage(pc) + 1]))
    IN  IF found # <<>>
        THEN {[c2 EXCEPT !.tb_phys_hash = <<found[1]>> \o
                             SelectSeq(@, LAMBDA t : t # found[1]),
                         !.tb_jmp_cache = pc :> found[1] @@ @]}
        ELSE {LET c3 == tb_gen_code(c2, pc, n, FALSE)
              IN  [c3 EXCEPT !.tb_jmp_cache = pc :> c3.nb_tbs @@ @] :
                 n \in Sizes(pc, count)}

\* The caches a lookup can lead to; the block found is in tb_jmp_cache.
tb_find_fast(c, pc, count) ==
    IF c.tb_jmp_cache[pc] # None THEN {c} ELSE tb_find_slow(c, pc, count)

(***************************************************************************)
(* The CPU loop.  It looks a block up, is ready to enter it, and runs      *)
(* generated code until a block returns.  cpu.tb is the block it runs,     *)
(* which jumps change; current_tb is the one it entered, until something   *)
(* clears it.  cut says that a block was invalidated since then.  pc is    *)
(* None where the guest may be anywhere: the lookup chooses.               *)
(***************************************************************************)
Idle == [at |-> "find", pc |-> None, tb |-> None, current_tb |-> None,
         next_tb |-> None, exit_request |-> FALSE, count |-> 0, cut |-> FALSE]

\* Back to the top of the loop.
Return(pc, next_tb) ==
    cpu' = [Idle EXCEPT !.pc = pc, !.next_tb = next_tb,
                        !.exit_request = cpu.exit_request]

\* Mutant: the word before the block is invalidated.
invalidate_single_tb_before(c, pc) ==
    tb_invalidate_phys_page_range(c, <<pt[VPage(pc)], (pc - 1) % PageSize>>, FALSE, None)

\* A byte of the block at pc is invalidated, found by walking the page table.
invalidate_single_tb(c, pc) ==
    tb_invalidate_phys_page_range(c, <<pt[VPage(pc)], pc % PageSize>>, FALSE, None)

tb_add_jump(c, t, next) ==
    IF t \in c.listed THEN c
    ELSE [c EXCEPT !.jmp = t :> next @@ @, !.listed = @ \cup {t}]

\* When the TB spans two pages, we cannot safely do a direct jump.
Chainable(c, next_tb, t) ==
    /\ ~mode.replay /\ mode.chaining
    /\ next_tb # None /\ Len(c.tbs[t].page) = 1

\* count is rr_num_instr_before_next_interrupt.
Find(pc, flush, ask, count) ==
    LET c0 == IF flush THEN [tb_flush(cache) EXCEPT !.tb_invalidated_flag = TRUE]
              ELSE cache
    IN  \E c1 \in tb_find_fast(c0, pc, count) :
        LET again == \/ ask
                     \/ count > 0 /\ c1.tbs[c1.tb_jmp_cache[pc]].size > count
        IN  \E c2 \in IF again THEN tb_find_fast(invalidate_single_tb(c1, pc), pc, count)
                      ELSE {c1} :
            LET t == c2.tb_jmp_cache[pc]
                next_tb == IF c2.tb_invalidated_flag THEN None ELSE cpu.next_tb
                c3 == [c2 EXCEPT !.tb_invalidated_flag = FALSE]
            IN  /\ cache' = IF Chainable(c3, next_tb, t)
                            THEN tb_add_jump(c3, next_tb, t) ELSE c3
                /\ cpu' = [cpu EXCEPT !.at = "ready", !.pc = pc, !.tb = t, !.current_tb = t,
                                      !.next_tb = next_tb, !.count = count]

FindBlock ==
    /\ cpu.at = "find" /\ ~cpu.exit_request
    /\ \E pc \in IF cpu.pc = None THEN Entries ELSE {cpu.pc},
          flush \in {FALSE, mode.flushes}, ask \in {FALSE, mode.invalidates},
          count \in IF mode.replay THEN 0 .. PageSize ELSE {0} :
          Find(pc, flush, ask, count)
    /\ UNCHANGED <<mode, pt, seen>>

\* Generated code is not entered when the CPU is to leave, nor in a replay when
\* the next instruction belongs after an interrupt.
EnterBlock ==
    /\ cpu.at = "ready"
    /\ LET enter == ~cpu.exit_request /\ (mode.replay => cpu.count > 0) IN
       \/ ~enter /\ Return(cpu.pc, cpu.next_tb)
       \/ enter /\ cpu' = [cpu EXCEPT !.at = "run", !.pc = None, !.next_tb = None]
    /\ UNCHANGED <<mode, pt, seen, cache>>

\* An interrupt is delivered, or cpu_exec is left and entered again.
LeaveLoop ==
    /\ cpu.at = "find"
    /\ cpu' = Idle
    /\ UNCHANGED <<mode, pt, seen, cache>>

\* The signal that makes the CPU leave the generated code.
cpu_exit ==
    /\ ~cpu.exit_request
    /\ cpu' = [cpu EXCEPT !.exit_request = TRUE, !.current_tb = None]
    /\ cache' = cpu_unlink_tb(cache, cpu.current_tb)
    /\ UNCHANGED <<mode, pt, seen>>

\* A device raises an interrupt, called by the block.
cpu_interrupt ==
    /\ cpu.at = "run"
    /\ cpu' = [cpu EXCEPT !.current_tb = None]
    /\ cache' = cpu_unlink_tb(cache, cpu.current_tb)
    /\ UNCHANGED <<mode, pt, seen>>

(***************************************************************************)
(* What a block does.                                                      *)
(***************************************************************************)
Running == cpu.at = "run"

\* The direct jump at the end of the block: straight to the next block, or back
\* to the loop to look it up.
GotoTb ==
    /\ Running
    /\ LET target == gen_goto_tb(cache.tbs[cpu.tb])
           next == cache.jmp[cpu.tb]
       IN  /\ target # None
           /\ \/ next # None /\ cpu' = [cpu EXCEPT !.tb = next]
              \/ next = None /\ Return(target, cpu.tb)
    /\ UNCHANGED <<mode, pt, seen, cache>>

\* Any other end: an indirect jump, a jump to another page, an exception.
ExitTb ==
    /\ Running
    /\ Return(None, None)
    /\ UNCHANGED <<mode, pt, seen, cache>>

\* The word is written: blocks translated from it that are left are stale.
Written(c, w) ==
    [c EXCEPT !.stale = @ \cup {t \in Linked(c) : w \in Words(c.tbs[t])}]

\* Whether an interrupt is pending matters only when a block is hit, and a block
\* was entered.
Pending(c, w) == {FALSE, cpu.current_tb # None /\ ~c.dirty[w[1]] /\ Hit(c, w) # <<>>}
ToUnlink(pending) == IF pending THEN cpu.current_tb ELSE None
CpuAfter(c, c1, pending) ==
    [cpu EXCEPT !.cut = @ \/ (Running /\ c.tb_phys_hash # c1.tb_phys_hash),
                !.current_tb = IF pending THEN None ELSE @]

\* A store through a slow entry of the TLB.  A store into the block that does it
\* is not done: the block is invalidated, a block of just this instruction is
\* translated and the CPU goes back to run that.
notdirty_mem_write(c, v, w, pending) ==
    LET c1 == IF c.dirty[w[1]] THEN c
              ELSE tb_invalidate_phys_page_fast(c, w, ToUnlink(pending))
        b == c.tbs[cpu.tb]
    IN  IF cpu.tb \in Linked(c) \ Linked(c1) /\ ~b.one
        THEN \E pc \in Entries \cap b.pc .. b.pc + b.size - 1 :
                /\ cache' = tb_gen_code(c1, pc, 1, TRUE)
                /\ Return(pc, None)
        ELSE /\ cache' = [Written(c1, w) EXCEPT
                              !.fast = IF c1.dirty[w[1]] THEN @ \cup {v} ELSE @]
             /\ cpu' = CpuAfter(c, c1, pending)

Store(v, o) ==
    /\ Running
    /\ LET c == tlb_set_page(cache, v)
           w == <<c.tlb[v], o>>
       IN  \/ v \in c.fast /\ cache' = Written(c, w) /\ UNCHANGED cpu
           \/ /\ v \notin c.fast
              /\ \E pending \in Pending(c, w) : notdirty_mem_write(c, v, w, pending)
    /\ UNCHANGED <<mode, pt, seen>>

\* A device writes memory, called by the block or with the CPU out of its loop.
cpu_physical_memory_rw(w) ==
    /\ Running \/ (cpu.at = "find" /\ cpu.next_tb = None)
    /\ \E pending \in Pending(cache, w) :
          LET c == IF cache.dirty[w[1]] THEN cache
                   ELSE tb_invalidate_phys_page_range(cache, w, FALSE, ToUnlink(pending))
          IN  /\ cache' = Written(c, w)
              /\ cpu' = CpuAfter(cache, c, pending)
    /\ UNCHANGED <<mode, pt, seen>>

\* The guest writes an entry of its page table.
Remap(v) ==
    /\ Running
    /\ \E p \in Maps[v] : /\ pt' = [pt EXCEPT ![v] = p]
                          /\ seen' = [seen EXCEPT ![v] = @ \cup {p}]
    /\ UNCHANGED <<mode, cache, cpu>>

\* The instructions that flush the TLB end their block.
tlb_flush ==
    /\ Running
    /\ cache' = [cache EXCEPT !.tlb = [v \in VPages |-> None], !.fast = {},
                              !.tb_jmp_cache = [a \in Entries |-> None]]
    /\ seen' = [v \in VPages |-> {pt[v]}]
    /\ Return(None, None)
    /\ UNCHANGED <<mode, pt>>

\* Mutant: blocks of the page before are kept.
tlb_flush_jmp_cache_page(jmp_cache, v) ==
    [a \in Entries |-> IF VPage(a) = v THEN None ELSE jmp_cache[a]]

\* Blocks that begin in the page before may reach into page v.
tlb_flush_jmp_cache(jmp_cache, v) ==
    [a \in Entries |-> IF VPage(a) \in {v - 1, v} THEN None ELSE jmp_cache[a]]

tlb_flush_page(v) ==
    /\ Running
    /\ cache' = [cache EXCEPT !.tlb = v :> None @@ @, !.fast = @ \ {v},
                   !.tb_jmp_cache = tlb_flush_jmp_cache(cache.tb_jmp_cache, v)]
    /\ seen' = [seen EXCEPT ![v] = {pt[v]}]
    /\ Return(None, None)
    /\ UNCHANGED <<mode, pt>>

Init ==
    /\ mode \in Modes
    /\ pt \in [VPages -> PPages] /\ \A v \in VPages : pt[v] \in Maps[v]
    /\ seen = [v \in VPages |-> {pt[v]}]
    /\ cache = [tbs |-> [t \in Slots |-> None], nb_tbs |-> 0, tb_phys_hash |-> <<>>,
                tb_jmp_cache |-> [a \in Entries |-> None],
                code_bitmap |-> [p \in PPages |-> None],
                code_write_count |-> [p \in PPages |-> 0],
                jmp |-> [t \in Slots |-> None], listed |-> {}, stale |-> {},
                dirty |-> [p \in PPages |-> TRUE], tlb |-> [v \in VPages |-> None], fast |-> {},
                tb_invalidated_flag |-> FALSE]
    /\ cpu = Idle

Next ==
    \/ FindBlock
    \/ EnterBlock
    \/ LeaveLoop
    \/ cpu_exit
    \/ cpu_interrupt
    \/ GotoTb
    \/ ExitTb
    \/ \E v \in VPages : \/ \E o \in Offsets : Store(v, o)
                         \/ Remap(v)
                         \/ tlb_flush_page(v)
    \/ tlb_flush
    \/ \E w \in PPages \X Offsets : cpu_physical_memory_rw(w)

Spec == Init /\ [][Next]_vars

(***************************************************************************)
(* Properties.                                                             *)
(***************************************************************************)

\* Every variable has its type, and tbs never holds more than
\* code_gen_max_blocks blocks.
TypeOK ==
    /\ mode \in Modes
    /\ pt \in [VPages -> PPages] /\ seen \in [VPages -> SUBSET PPages]
    /\ cache.nb_tbs \in 0 .. code_gen_max_blocks
    /\ \A t \in Slots : cache.tbs[t] # None <=> t <= cache.nb_tbs
    /\ \A t \in 1 .. cache.nb_tbs : cache.tbs[t] \in Block
    /\ cache.jmp \in [Slots -> Slots \cup {None}]
    /\ cache.listed \subseteq {t \in Slots : cache.jmp[t] # None}
    /\ cache.stale \subseteq Linked(cache)
    /\ Linked(cache) \subseteq 1 .. cache.nb_tbs /\ IsInjective(cache.tb_phys_hash)
    /\ cache.tb_jmp_cache \in [Entries -> Linked(cache) \cup {None}]
    /\ \A p \in PPages : cache.code_bitmap[p] \in SUBSET Offsets \cup {None}
    /\ cache.code_write_count \in [PPages -> 0 .. SMC_BITMAP_USE_THRESHOLD]
    /\ cache.dirty \in [PPages -> BOOLEAN] /\ cache.tb_invalidated_flag \in BOOLEAN
    /\ cache.tlb \in [VPages -> PPages \cup {None}]
    /\ cache.fast \subseteq {v \in VPages : cache.tlb[v] # None}
    /\ cpu \in [at : {"find", "ready", "run"}, pc : Entries \cup {None},
                tb : Slots \cup {None}, current_tb : Slots \cup {None},
                next_tb : Slots \cup {None}, exit_request : BOOLEAN,
                count : 0 .. PageSize, cut : BOOLEAN]

\* The types hold, and no lookup leads to a translation of code that has been written
\* since, by the guest or by a device: tb_find_slow and tb_jmp_cache hold no such block, and
\* the block the CPU is about to enter is one of theirs.
NoStaleBlock ==
    /\ TypeOK
    /\ cache.stale = {}
    /\ cpu.at = "ready" => cpu.tb \in Linked(cache)

\* The CPU runs a block only in the place it was translated for: each of its
\* physical pages is one its virtual page was mapped to since the guest last
\* flushed that page from the TLB, also after jumps from block to block.
MappingCurrent ==
    cpu.at # "find" =>
        LET b == cache.tbs[cpu.tb] IN
        \A i \in DOMAIN b.page : b.page[i] \in seen[VPage(b.pc) + i - 1]

\* Stores to words that hold translated code reach tb_invalidate_phys_page_range:
\* the page's dirty flag is clear, no entry of the TLB lets a store pass, and a
\* bitmap has the bits of every block.
StoresSeen ==
    \A t \in Linked(cache) : \A w \in Words(cache.tbs[t]) :
        /\ ~cache.dirty[w[1]]
        /\ \A v \in cache.fast : cache.tlb[v] # w[1]
        /\ cache.code_bitmap[w[1]] # None => w[2] \in cache.code_bitmap[w[1]]

\* Generated code of a block that can be found jumps only to a block that can be
\* found too, that begins at the jump's target, in the same physical page.
ChainsRight ==
    \A t \in Linked(cache) :
        cache.jmp[t] # None =>
            /\ cache.jmp[t] \in Linked(cache) /\ t \in cache.listed
            /\ LET b == cache.tbs[t]
                   n == cache.tbs[cache.jmp[t]]
               IN  /\ n.pc = gen_goto_tb(b)
                   /\ n.page = <<b.page[1 + VPage(n.pc) - VPage(b.pc)]>>

\* In a replay no block is entered that is longer than the countdown to the next
\* interrupt: one that is too long is invalidated and translated anew.  (The
\* guest has flushed the TLB since it last mapped the page, for the block is
\* found by the TLB and invalidated by the page table.)
ReplayFits ==
    mode.replay /\ Running =>
        LET b == cache.tbs[cpu.tb] IN
        Cardinality(seen[VPage(b.pc)]) = 1 => b.size <= cpu.count

\* After cpu_exit or cpu_interrupt the CPU finishes its block and returns to its
\* loop: the jump of the block it runs has been reset, however far it has jumped
\* from the block it entered.  (No block was invalidated on the way.)
Unlinked ==
    Running /\ (cpu.exit_request \/ cpu.current_tb = None) /\ ~cpu.cut =>
        cache.jmp[cpu.tb] = None
=============================================================================
