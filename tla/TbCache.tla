------------------------------- MODULE TbCache -------------------------------
(***************************************************************************)
(* The cache of translated blocks (TBs): allocation and flush, the         *)
(* physical hash table, the per-page lists with their write bitmaps, the   *)
(* virtual jump cache, direct block chaining, and the write protection of  *)
(* code pages through the software TLB.                                    *)
(*                                                                         *)
(*   exec.c      tb_alloc ... tb_reset_jump_recursive, tlb_*, notdirty_*   *)
(*   exec-all.h  tb_add_jump                                               *)
(*   cpu-exec.c  tb_find_fast, tb_find_slow, the loop around them          *)
(*                                                                         *)
(* One vCPU of an ARM target (no precise self-modifying code), instruction *)
(* counting off.  A page is PageSize cells; a TB starts at a cell and      *)
(* covers that cell, or, when it starts at the last cell of a page, may    *)
(* span into the first cell of the next virtual page.  What a cell holds   *)
(* is abstracted to whether it was written after the TB was translated.    *)
(*                                                                         *)
(* Memory is written by the guest's stores and by devices.  Left out is    *)
(* cpu_physical_memory_write_rom, by which ROM images are put back at a    *)
(* reset and the debugger writes: it invalidates no block.                 *)
(***************************************************************************)
EXTENDS Integers

CONSTANTS
  NbVPages,   \* virtual pages 0 .. NbVPages - 1
  PPages,     \* physical (RAM) pages
  PageSize,   \* cells per page
  MaxBlocks,  \* code_gen_max_blocks
  Exits,      \* the patchable exits of a TB: 0 and 1 in the code
  Branch,     \* Branch[pc, n]: the static destination of exit n of code at pc
  Maps,       \* the page tables the guest installs
  DmaRanges,  \* the parts of a page one device write covers
  Threshold   \* SMC_BITMAP_USE_THRESHOLD

VPages == 0 .. NbVPages - 1
Offsets == 0 .. PageSize - 1
VCells == VPages \X Offsets
PCells == PPages \X Offsets
Slots == 0 .. MaxBlocks - 1
NoTb == -1
NoPage == "none"
NoBitmap == {-1}
NoExit == <<NoTb, NoTb>>
Sources == Slots \X Exits

ASSUME CacheAssumption ==
  /\ NbVPages \in Nat \ {0}
  /\ PageSize \in Nat \ {0}
  /\ MaxBlocks \in Nat \ {0}
  /\ Threshold \in Nat \ {0}
  /\ NoPage \notin PPages
  /\ PPages # {}
  /\ Maps \subseteq [VPages -> PPages]
  /\ DmaRanges \subseteq SUBSET Offsets
  /\ Branch \in [VCells \X Exits -> VCells]

\* The fields of a TranslationBlock the cache looks at; page and page2 are
\* page_addr[0] and page_addr[1].
Blocks == [pc : VCells, page : PPages \cup {NoPage}, page2 : PPages \cup {NoPage}]
NoBlock == [pc |-> <<0, 0>>, page |-> NoPage, page2 |-> NoPage]

VARIABLES
  nb,        \* nb_tbs
  tbs,       \* tbs[]
  hash,      \* the TBs in tb_phys_hash
  pages,     \* pages[p]: first_tb list of p, as the set of its (TB, n) entries
  bitmap,    \* code_bitmap of a page, NoBitmap when NULL
  writes,    \* code_write_count
  jcache,    \* tb_jmp_cache
  jmp,       \* where the patchable exit in the generated code leads
  list,      \* the TB on whose jmp_first list an exit is (jmp_next not NULL)
  dirty,     \* CODE_DIRTY_FLAG of a page: set when writes need no check
  tlb,       \* write entry of a virtual page: "none", "notdirty" or "fast"
  map,       \* the guest's page table
  flag,      \* tb_invalidated_flag
  stage,     \* "loop": looking for a TB, "exec": in generated code, "crashed"
  pc,        \* where the guest is
  cur,       \* the TB being executed
  next,      \* next_tb: the exit through which the last TB left
  current,   \* env->current_tb
  stale,     \* history: TBs with a cell written since translation
  quiet      \* history: nothing invalidated since the loop entered a TB

tables == <<nb, tbs, hash, pages, bitmap, writes, jcache>>
chains == <<jmp, list>>
memory == <<dirty, tlb, map>>
cpu == <<flag, stage, pc, cur, next, current>>
vars == <<nb, tbs, hash, pages, bitmap, writes, jcache, jmp, list, dirty, tlb,
          map, flag, stage, pc, cur, next, current, stale, quiet>>

-----------------------------------------------------------------------------
Page(c) == c[1]
Offset(c) == c[2]

\* Mutant: the second page of a spanning TB is searched like the first
CoveredFirstPage(e) == {Offset(tbs[e[1]].pc)}

\* Entry (s, n) of a page list covers these cells of that page
Covered(e) == IF e[2] = 0 THEN {Offset(tbs[e[1]].pc)} ELSE {0}

\* Every physical cell a TB was translated from
Cells(s) ==
  {<<tbs[s].page, Offset(tbs[s].pc)>>} \cup
  (IF tbs[s].page2 = NoPage THEN {} ELSE {<<tbs[s].page2, 0>>})

\* A TB whose page(s) are where the guest's page table puts them now
Mapped(s) ==
  /\ tbs[s].page = map[Page(tbs[s].pc)]
  /\ tbs[s].page2 # NoPage => tbs[s].page2 = map[Page(tbs[s].pc) + 1]

Init ==
  /\ nb = 0
  /\ tbs = [s \in Slots |-> NoBlock]
  /\ hash = {}
  /\ pages = [p \in PPages |-> {}]
  /\ bitmap = [p \in PPages |-> NoBitmap]
  /\ writes = [p \in PPages |-> 0]
  /\ jcache = [c \in VCells |-> NoTb]
  /\ jmp = [x \in Sources |-> NoTb]
  /\ list = [x \in Sources |-> NoTb]
  /\ dirty = [p \in PPages |-> TRUE]
  /\ tlb = [v \in VPages |-> "none"]
  /\ map \in Maps
  /\ flag = FALSE
  /\ stage = "loop"
  /\ pc \in VCells
  /\ cur = NoTb
  /\ next = NoExit
  /\ current = NoTb
  /\ stale = {}
  /\ quiet = TRUE

-----------------------------------------------------------------------------

\* Whether cpu_exec patches the exit src to jump to the TB it found
MayChain(src, page2, l) == src # NoExit /\ page2 = NoPage /\ l[src] = NoTb

\* cpu_exec after tb_find_fast returned t: forget next_tb when some TB was
\* invalidated, chain the previous TB to t when t lies in one page (tb_add_jump),
\* then start t.  j, l are jmp and list as the search left them.
Enter(t, invalidated, page2, j, l) ==
  LET src == IF invalidated THEN NoExit ELSE next
      chain == MayChain(src, page2, l)
  IN  /\ jmp' = IF chain THEN [j EXCEPT ![src] = t] ELSE j
      /\ list' = IF chain THEN [l EXCEPT ![src] = t] ELSE l
      /\ flag' = FALSE
      /\ stage' = "exec"
      /\ cur' = t
      /\ current' = t
      /\ next' = NoExit
      /\ quiet' = TRUE
      /\ UNCHANGED pc

\* tb_find_fast: a hit in the virtual jump cache
FindFast ==
  /\ stage = "loop"
  /\ LET t == jcache[pc] IN
       /\ t # NoTb
       /\ tbs[t].pc = pc
       /\ Enter(t, flag, tbs[t].page2, jmp, list)
  /\ UNCHANGED <<tables, memory, stale>>

Misses == jcache[pc] # NoTb => tbs[jcache[pc]].pc # pc

\* Mutant: the second page is not compared
FoundFirstPage(t) ==
  t \in hash /\ tbs[t].pc = pc /\ tbs[t].page = map[Page(pc)]

\* A TB of the physical hash table for this code under this mapping
Found(t) == t \in hash /\ tbs[t].pc = pc /\ Mapped(t)

\* tb_find_slow: a hit in the physical hash table
FindSlow ==
  /\ stage = "loop"
  /\ Misses
  /\ \E t \in Slots :
       /\ Found(t)
       /\ jcache' = [jcache EXCEPT ![pc] = t]
       /\ Enter(t, FALSE, tbs[t].page2, jmp, list)
  /\ UNCHANGED <<nb, tbs, hash, pages, bitmap, writes, memory, stale>>

\* tb_alloc fails when the array is full; then tb_flush: every table emptied; the
\* generated code is overwritten from the start, so nothing of the old chains
\* can be reached
Full == nb >= MaxBlocks
Slot == IF Full THEN 0 ELSE nb
Kept(f, empty) == IF Full THEN [x \in DOMAIN f |-> empty] ELSE f

PageLists == Kept(pages, {})

\* invalidate_page_bitmap of the pages a new TB is linked into
Bitmaps(linked) ==
  [p \in PPages |-> IF p \in linked THEN NoBitmap ELSE Kept(bitmap, NoBitmap)[p]]

\* Mutant: page_already_protected is read after the TB was added
ShieldedNever(linked) == {}

\* The pages tb_alloc_page write-protects: those without a TB so far
Shielded(linked) == {p \in linked : PageLists[p] = {}}

\* tlb_protect_code: writes to these pages are checked from now on, under every
\* virtual address
Protect(shielded) ==
  /\ dirty' = [p \in PPages |-> dirty[p] /\ p \notin shielded]
  /\ tlb' = [v \in VPages |-> IF tlb[v] = "fast" /\ map[v] \in shielded
                               THEN "notdirty" ELSE tlb[v]]

\* tb_gen_code and tb_link_page for the code at pc, spanning two pages or not.
\* A first TB in a page turns on write protection.
GenCode(spans) ==
  LET t == Slot
      second == IF spans THEN map[Page(pc) + 1] ELSE NoPage
      linked == {map[Page(pc)]} \cup (IF spans THEN {second} ELSE {})
  IN  /\ nb' = t + 1
      /\ tbs' = [tbs EXCEPT ![t] = [pc |-> pc, page |-> map[Page(pc)], page2 |-> second]]
      /\ hash' = (IF Full THEN {} ELSE hash) \cup {t}
      /\ pages' = [p \in PPages |->
                     PageLists[p] \cup (IF p = map[Page(pc)] THEN {<<t, 0>>} ELSE {})
                       \cup (IF p = second THEN {<<t, 1>>} ELSE {})]
      /\ bitmap' = Bitmaps(linked)
      /\ writes' = [p \in PPages |-> IF p \in linked THEN 0 ELSE Kept(writes, 0)[p]]
      /\ jcache' = [Kept(jcache, NoTb) EXCEPT ![pc] = t]
      /\ Protect(Shielded(linked))
      /\ stale' = (IF Full THEN {} ELSE stale) \ {t}
      /\ Enter(t, Full, second,
               [x \in Sources |-> IF x[1] = t THEN NoTb ELSE Kept(jmp, NoTb)[x]],
               [x \in Sources |-> IF x[1] = t THEN NoTb ELSE Kept(list, NoTb)[x]])
      /\ UNCHANGED map

CanSpan == Offset(pc) = PageSize - 1 /\ Page(pc) + 1 \in VPages

FindGen ==
  /\ stage = "loop"
  /\ Misses
  /\ \A t \in Slots : ~Found(t)
  /\ \E spans \in (IF CanSpan THEN BOOLEAN ELSE {FALSE}) : GenCode(spans)

\* get_page_addr_code faults in tb_find_slow, before any TB is looked for
FindFault(handler) ==
  /\ stage = "loop"
  /\ Misses
  /\ flag' = FALSE
  /\ next' = NoExit
  /\ pc' = handler
  /\ UNCHANGED <<tables, chains, memory, stage, cur, current, stale, quiet>>

\* The translator faults on the guest's code: the slot stays taken, the TB is
\* not linked, and the exception restarts the loop somewhere else
GenFault(handler) ==
  /\ stage = "loop"
  /\ Misses
  /\ \A t \in Slots : ~Found(t)
  /\ nb' = Slot + 1
  /\ tbs' = [tbs EXCEPT ![Slot] = [NoBlock EXCEPT !.pc = pc]]
  /\ hash' = IF Full THEN {} ELSE hash
  /\ pages' = PageLists
  /\ bitmap' = Kept(bitmap, NoBitmap)
  /\ writes' = Kept(writes, 0)
  /\ jcache' = Kept(jcache, NoTb)
  /\ jmp' = Kept(jmp, NoTb)
  /\ list' = Kept(list, NoTb)
  /\ stale' = IF Full THEN {} ELSE stale
  /\ flag' = Full
  /\ next' = NoExit
  /\ pc' = handler
  /\ UNCHANGED <<memory, stage, cur, current, quiet>>

\* tb_flush on behalf of the debugger (cpu_single_step), outside cpu_exec
TbFlush ==
  /\ stage = "loop"
  /\ nb' = 0
  /\ hash' = {} /\ stale' = {}
  /\ pages' = [p \in PPages |-> {}]
  /\ bitmap' = [p \in PPages |-> NoBitmap]
  /\ writes' = [p \in PPages |-> 0]
  /\ jcache' = [c \in VCells |-> NoTb]
  /\ jmp' = [x \in Sources |-> NoTb]
  /\ list' = [x \in Sources |-> NoTb]
  /\ next' = NoExit
  /\ UNCHANGED <<tbs, memory, flag, stage, pc, cur, current, quiet>>

-----------------------------------------------------------------------------
\* Mutant: jmp_next of a reset exit is not cleared
UnchainKeepsNext(V) ==
  /\ jmp' = [x \in Sources |->
               IF list[x] \in V /\ (x[1] \in V => x[1] < list[x])
               THEN NoTb ELSE jmp[x]]
  /\ list' = [x \in Sources |-> IF x[1] \in V THEN NoTb ELSE list[x]]

\* Mutant: the jumps to a victim are left in place
UnchainKeepsJumps(V) ==
  /\ UNCHANGED jmp
  /\ list' = [x \in Sources |->
                IF x[1] \in V \/ list[x] \in V THEN NoTb ELSE list[x]]

\* tb_phys_invalidate of each TB of V, most recent first as the page list has
\* them.  An exit of a victim leaves the list it is on, but its code keeps the
\* jump; every exit still on the victim's own list is reset.
Unchain(V) ==
  /\ jmp' = [x \in Sources |->
               IF list[x] \in V /\ (x[1] \in V => x[1] < list[x])
               THEN NoTb ELSE jmp[x]]
  /\ list' = [x \in Sources |->
                IF x[1] \in V \/ list[x] \in V THEN NoTb ELSE list[x]]

\* build_page_bitmap
Built(p) == UNION {Covered(e) : e \in pages[p]}

Hit(p, offsets) == {e \in pages[p] : Covered(e) \cap offsets # {}}

\* tb_invalidate_phys_page_range.  A page that loses a TB loses its bitmap; a
\* page left without TBs loses its write protection if a CPU write did it.
InvalidateRange(p, offsets, cpuWrite) ==
  LET V == {e[1] : e \in Hit(p, offsets)}
      rest == [q \in PPages |-> {e \in pages[q] : e[1] \notin V}]
      count == IF bitmap[p] = NoBitmap /\ writes[p] < Threshold
               THEN writes[p] + 1 ELSE writes[p]
      build == bitmap[p] = NoBitmap /\ count >= Threshold /\ cpuWrite
      forgotten == {q \in PPages : rest[q] # pages[q] \/ (q = p /\ rest[p] = {})}
  IN  /\ hash' = hash \ V
      /\ pages' = rest
      /\ bitmap' = [q \in PPages |->
                      IF q \in forgotten THEN NoBitmap
                      ELSE IF q = p /\ build THEN Built(p)
                      ELSE bitmap[q]]
      /\ writes' = [q \in PPages |-> IF q \in forgotten THEN 0
                                      ELSE IF q = p THEN count ELSE writes[q]]
      /\ jcache' = [c \in VCells |-> IF jcache[c] \in V THEN NoTb ELSE jcache[c]]
      /\ Unchain(V)
      /\ dirty' = [dirty EXCEPT ![p] = @ \/ (cpuWrite /\ rest[p] = {})]
      /\ flag' = (flag \/ V # {})
      /\ quiet' = (quiet /\ V = {})
      /\ UNCHANGED <<nb, tbs>>

\* What a write to these cells makes of the TBs translated from them
Written(p, offsets) ==
  stale' = stale \cup {s \in hash : \E o \in offsets : <<p, o>> \in Cells(s)}

\* The write entry of the software TLB, filled by tlb_set_page on a miss
WriteEntry(v) ==
  IF tlb[v] # "none" THEN tlb[v] ELSE IF dirty[map[v]] THEN "fast" ELSE "notdirty"

\* A store through an unprotected entry, or through a protected one whose page
\* has lost its code meanwhile (notdirty_mem_write)
StoreUnchecked(v, o) ==
  /\ stage = "exec"
  /\ WriteEntry(v) = "fast" \/ dirty[map[v]]
  /\ Written(map[v], {o})
  /\ tlb' = [tlb EXCEPT ![v] = "fast"]
  /\ UNCHANGED <<tables, chains, dirty, map, cpu, quiet>>

\* A store to a code page whose bitmap shows no code there
StoreBitmapClear(v, o) ==
  /\ stage = "exec"
  /\ WriteEntry(v) = "notdirty" /\ ~dirty[map[v]]
  /\ bitmap[map[v]] # NoBitmap /\ o \notin bitmap[map[v]]
  /\ Written(map[v], {o})
  /\ tlb' = [tlb EXCEPT ![v] = "notdirty"]
  /\ UNCHANGED <<tables, chains, dirty, map, cpu, quiet>>

\* A store that may hit code: invalidate, write, and let later stores through
\* unchecked once no code is left in the page
StoreInvalidate(v, o) ==
  /\ stage = "exec"
  /\ WriteEntry(v) = "notdirty" /\ ~dirty[map[v]]
  /\ bitmap[map[v]] = NoBitmap \/ o \in bitmap[map[v]]
  /\ InvalidateRange(map[v], {o}, TRUE)
  /\ Written(map[v], {o})
  /\ tlb' = [tlb EXCEPT ![v] = IF dirty'[map[v]] THEN "fast" ELSE "notdirty"]
  /\ UNCHANGED <<map, stage, pc, cur, next, current>>

\* Device code runs in the main loop, where next_tb of cpu_exec is gone, or
\* within a memory-mapped access of the running TB
DeviceRuns == stage = "exec" \/ (stage = "loop" /\ next = NoExit)

\* cpu_physical_memory_rw by a device
DmaWrite(p, offsets) ==
  /\ DeviceRuns
  /\ Written(p, offsets)
  /\ \/ /\ dirty[p]
        /\ UNCHANGED <<tables, chains, memory, cpu, quiet>>
     \/ /\ ~dirty[p]
        /\ \A s \in hash : ~({<<s, 0>>, <<s, 1>>} \subseteq Hit(p, offsets))
        /\ InvalidateRange(p, offsets, FALSE)
        /\ UNCHANGED <<tlb, map, stage, pc, cur, next, current>>

\* The same when a TB is met twice on the page's list: both halves of a TB that
\* spans two virtual pages mapped to p.  The second tb_phys_invalidate does not
\* find it on its hash chain and follows the NULL at the end.
DmaWriteTwice(p, offsets) ==
  /\ DeviceRuns
  /\ ~dirty[p]
  /\ \E s \in hash : {<<s, 0>>, <<s, 1>>} \subseteq Hit(p, offsets)
  /\ stage' = "crashed"
  /\ UNCHANGED <<tables, chains, memory, flag, pc, cur, next, current, stale, quiet>>

-----------------------------------------------------------------------------
\* A patched exit: straight into the next TB
Jump(n) ==
  /\ stage = "exec"
  /\ jmp[<<cur, n>>] # NoTb
  /\ cur' = jmp[<<cur, n>>]
  /\ pc' = tbs[jmp[<<cur, n>>]].pc
  /\ UNCHANGED <<tables, chains, memory, flag, stage, next, current, stale, quiet>>

\* An exit that is not patched but could be: gen_goto_tb within the TB's page
ExitChainable(n) ==
  /\ stage = "exec"
  /\ jmp[<<cur, n>>] = NoTb
  /\ Page(Branch[<<tbs[cur].pc, n>>]) = Page(tbs[cur].pc)
  /\ stage' = "loop"
  /\ pc' = Branch[<<tbs[cur].pc, n>>]
  /\ next' = <<cur, n>>
  /\ cur' = NoTb /\ current' = NoTb
  /\ UNCHANGED <<tables, chains, memory, flag, stale, quiet>>

\* Every other way out returns 0 or longjmps: an indirect branch, a branch to
\* another page, an exception, an interrupt taken by the loop
ExitOther(dest) ==
  /\ stage = "exec"
  /\ stage' = "loop"
  /\ pc' = dest
  /\ next' = NoExit
  /\ cur' = NoTb /\ current' = NoTb
  /\ UNCHANGED <<tables, chains, memory, flag, stale, quiet>>

\* Mutant: only the TB the loop entered is unlinked
ReachableOne(t) == {t}

\* The exits of the TBs of C lead to TBs of C, as far as they are listed
Closed(C) == \A x \in Sources : x[1] \in C /\ list[x] # NoTb => list[x] \in C

\* The TBs tb_reset_jump_recursive visits: those on a path of listed exits, which
\* is to say those in every closed set that has t
Reachable(t) == {s \in Slots : \A C \in SUBSET Slots : t \in C /\ Closed(C) => s \in C}

\* cpu_unlink_tb, called by cpu_interrupt and cpu_exit while a TB runs
UnlinkTb ==
  /\ stage = "exec"
  /\ current # NoTb
  /\ LET R == {x \in Sources : x[1] \in Reachable(current) /\ list[x] # NoTb} IN
       /\ jmp' = [x \in Sources |-> IF x \in R THEN NoTb ELSE jmp[x]]
       /\ list' = [x \in Sources |-> IF x \in R THEN NoTb ELSE list[x]]
  /\ current' = NoTb
  /\ UNCHANGED <<tables, memory, flag, stage, pc, cur, next, stale, quiet>>

\* Mutant: only the entries of the page itself are dropped
FlushedCacheOnePage(v) ==
  [c \in VCells |-> IF Page(c) = v THEN NoTb ELSE jcache[c]]

\* tlb_flush_jmp_cache: TBs that start in the page before may span into v
FlushedCache(v) ==
  [c \in VCells |-> IF Page(c) \in {v - 1, v} THEN NoTb ELSE jcache[c]]

\* A guest instruction that changes the mapping of v and flushes its TLB entry
\* (tlb_flush_page); it ends its TB without a chainable exit
TlbFlushPage(v, m, dest) ==
  /\ stage = "exec"
  /\ \A w \in VPages \ {v} : m[w] = map[w]
  /\ map' = m
  /\ tlb' = [tlb EXCEPT ![v] = "none"]
  /\ jcache' = FlushedCache(v)
  /\ stage' = "loop"
  /\ pc' = dest
  /\ next' = NoExit
  /\ cur' = NoTb /\ current' = NoTb
  /\ UNCHANGED <<nb, tbs, hash, pages, bitmap, writes, chains, dirty, flag, stale, quiet>>

\* The same for the whole address space (tlb_flush)
TlbFlush(m, dest) ==
  /\ stage = "exec"
  /\ map' = m
  /\ tlb' = [v \in VPages |-> "none"]
  /\ jcache' = [c \in VCells |-> NoTb]
  /\ stage' = "loop"
  /\ pc' = dest
  /\ next' = NoExit
  /\ cur' = NoTb /\ current' = NoTb
  /\ UNCHANGED <<nb, tbs, hash, pages, bitmap, writes, chains, dirty, flag, stale, quiet>>

Next ==
  \/ FindFast
  \/ FindSlow
  \/ FindGen
  \/ \E c \in VCells : FindFault(c)
  \/ \E c \in VCells : GenFault(c)
  \/ TbFlush
  \/ \E c \in VCells : StoreUnchecked(Page(c), Offset(c))
  \/ \E c \in VCells : StoreBitmapClear(Page(c), Offset(c))
  \/ \E c \in VCells : StoreInvalidate(Page(c), Offset(c))
  \/ \E p \in PPages, offsets \in DmaRanges : DmaWrite(p, offsets)
  \/ \E p \in PPages, offsets \in DmaRanges : DmaWriteTwice(p, offsets)
  \/ \E n \in Exits : Jump(n)
  \/ \E n \in Exits : ExitChainable(n)
  \/ \E c \in VCells : ExitOther(c)
  \/ UnlinkTb
  \/ \E v \in VPages, m \in Maps, c \in VCells : TlbFlushPage(v, m, c)
  \/ \E m \in Maps, c \in VCells : TlbFlush(m, c)

Spec == Init /\ [][Next]_vars

-----------------------------------------------------------------------------

\* The tables hold what the code's types allow.
TypeOK ==
  /\ nb \in 0 .. MaxBlocks
  /\ tbs \in [Slots -> Blocks]
  /\ hash \subseteq Slots
  /\ pages \in [PPages -> SUBSET (Slots \X {0, 1})]
  /\ bitmap \in [PPages -> (SUBSET Offsets) \cup {NoBitmap}]
  /\ writes \in [PPages -> 0 .. Threshold]
  /\ jcache \in [VCells -> Slots \cup {NoTb}]
  /\ jmp \in [Sources -> Slots \cup {NoTb}]
  /\ list \in [Sources -> Slots \cup {NoTb}]
  /\ dirty \in [PPages -> BOOLEAN]
  /\ tlb \in [VPages -> {"none", "notdirty", "fast"}]
  /\ map \in [VPages -> PPages]
  /\ flag \in BOOLEAN
  /\ stage \in {"loop", "exec", "crashed"}
  /\ pc \in VCells
  /\ cur \in Slots \cup {NoTb}
  /\ next \in Sources \cup {NoExit}
  /\ current \in Slots \cup {NoTb}
  /\ stale \subseteq Slots
  /\ quiet \in BOOLEAN

\* Every TB that can be found matches the guest's memory: no store or device
\* write to its cells escaped the TLB check, the bitmap and the page lists.
FindableIsFresh == hash \cap stale = {}

\* A page with code on its list is write-protected in every TLB entry that maps
\* it, under every virtual alias.
CodeIsProtected ==
  \A p \in PPages : pages[p] # {} =>
    /\ ~dirty[p]
    /\ \A v \in VPages : map[v] = p => tlb[v] # "fast"

\* The jump cache holds only TBs the hash table still has, under their own pc,
\* and only while the guest's page table still puts them there.
JumpCacheIsCurrent ==
  \A c \in VCells : jcache[c] # NoTb =>
    jcache[c] \in hash /\ tbs[jcache[c]].pc = c /\ Mapped(jcache[c])

\* "we are now sure now that tb jumps to tb1" (tb_reset_jump_recursive2): the
\* list an exit is on is that of the TB its code jumps to.
ListMatchesCode == \A x \in Sources : list[x] # NoTb => list[x] = jmp[x]

\* A findable TB never jumps straight into one that was invalidated, nor out of
\* the reach of the list that would undo the jump.
NoJumpToInvalid ==
  \A x \in Sources : x[1] \in hash /\ jmp[x] # NoTb =>
    jmp[x] \in hash /\ list[x] = jmp[x]

\* A running TB is the code at pc under the current mapping, whether the loop, the
\* jump cache or a chain led to it, and also when it was invalidated meanwhile.
RunningIsMapped == stage = "exec" => tbs[cur].pc = pc /\ Mapped(cur)

\* "if the cpu is currently executing code, we must unlink it and all the
\* potentially executing TB" (cpu_unlink_tb), while nothing is invalidated: once
\* unlinked, the running TB returns to the loop at its next exit.
UnlinkStopsQuietCpu ==
  stage = "exec" /\ quiet /\ current = NoTb => \A n \in Exits : jmp[<<cur, n>>] = NoTb
=============================================================================
