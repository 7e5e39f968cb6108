---------------------------- MODULE TbCacheProofs ----------------------------
(***************************************************************************)
(* Safety of the cache of translated blocks and of what it charges, for    *)
(* any numbers of pages, cells, slots and exits, any branches, page tables *)
(* and device writes.                                                      *)
(***************************************************************************)
EXTENDS TbCharging, TLAPS

\* What refers to a slot refers to one handed out since the last flush, so that
\* tb_alloc never hands out a slot somebody still refers to.
SlotsInUse ==
  /\ \A s \in hash : s < nb
  /\ \A p \in PPages : \A e \in pages[p] : e[1] < nb
  /\ \A x \in Sources : jmp[x] # NoTb => x[1] < nb /\ jmp[x] < nb
  /\ stage = "exec" => cur \in Slots /\ cur < nb
  /\ next # NoExit => next[1] < nb

\* A TB of the hash table has its pages, and is on the list of each of them.
HashedIsListed ==
  \A s \in hash :
    /\ tbs[s].page \in PPages
    /\ <<s, 0>> \in pages[tbs[s].page]
    /\ tbs[s].page2 # NoPage =>
         /\ Page(tbs[s].pc) + 1 \in VPages
         /\ tbs[s].page2 \in PPages
         /\ <<s, 1>> \in pages[tbs[s].page2]

\* The bitmap of a page marks every cell its listed TBs were translated from.
BitmapCoversCode ==
  \A p \in PPages : bitmap[p] # NoBitmap => \A e \in pages[p] : Covered(e) \subseteq bitmap[p]

\* A jump stays in the virtual and the physical page of the TB it leaves, and
\* leads to a TB that does not span; this holds of the code of invalidated TBs,
\* too.  The exit that the loop may patch next is in the page of pc.
JumpKeepsPage ==
  \A x \in Sources : jmp[x] # NoTb =>
    /\ Page(tbs[jmp[x]].pc) = Page(tbs[x[1]].pc)
    /\ tbs[jmp[x]].page = tbs[x[1]].page
    /\ tbs[jmp[x]].page2 = NoPage

NextKeepsPage ==
  stage = "loop" /\ next # NoExit =>
    /\ Page(tbs[next[1]].pc) = Page(pc)
    /\ tbs[next[1]].page = map[Page(pc)]

\* While nothing was invalidated the running TB is one that cpu_unlink_tb reaches,
\* or has no jump left when it has been called.
QuietIsReached ==
  stage = "exec" /\ quiet =>
    /\ cur \in hash
    /\ current # NoTb => cur \in Reachable(current)
    /\ current = NoTb => \A n \in Exits : jmp[<<cur, n>>] = NoTb

\* The inductive invariant.
CacheInv ==
  /\ TypeOK /\ SlotsInUse
  /\ ListMatchesCode /\ NoJumpToInvalid /\ JumpCacheIsCurrent
  /\ CodeIsProtected /\ HashedIsListed /\ BitmapCoversCode /\ FindableIsFresh
  /\ JumpKeepsPage /\ NextKeepsPage /\ RunningIsMapped
  /\ QuietIsReached
-----------------------------------------------------------------------------
\* Facts about the constants and the operators.

LEMMA SlotFacts ==
  /\ NoTb \notin Slots /\ NoExit \notin Sources
  /\ Slots \subseteq Nat /\ 0 \in Slots
  /\ \A s \in Slots : s < MaxBlocks /\ s + 1 \in 0 .. MaxBlocks
  BY CacheAssumption DEF NoTb, Slots, NoExit, Sources

LEMMA CellFacts ==
  /\ \A c \in VCells : Page(c) \in VPages /\ Offset(c) \in Offsets
  /\ 0 \in Offsets /\ <<0, 0>> \in VCells
  BY CacheAssumption DEF VCells, VPages, Offsets, Page, Offset

LEMMA NoBlockType == NoBlock \in Blocks
  BY CellFacts, Zenon DEF NoBlock, Blocks

\* tb_alloc hands out a slot of the array, the next one unless it was full.
LEMMA SlotIsFree ==
  ASSUME TypeOK
  PROVE  Slot \in Slots /\ (~Full => Slot = nb) /\ (Full => Slot = 0)
  BY CacheAssumption DEF TypeOK, Slot, Full, Slots

\* What cpu_exec does to the chains when it starts t: it patches no exit, or the
\* one through which the last TB left, to a TB in a single page.
LEMMA EnterEffect ==
  ASSUME TypeOK, NEW t \in Slots, NEW invalidated, NEW page2,
         NEW j \in [Sources -> Slots \cup {NoTb}], NEW l \in [Sources -> Slots \cup {NoTb}],
         Enter(t, invalidated, page2, j, l)
  PROVE  /\ jmp' \in [Sources -> Slots \cup {NoTb}]
         /\ list' \in [Sources -> Slots \cup {NoTb}]
         /\ \A x \in Sources :
              \/ jmp'[x] = j[x] /\ list'[x] = l[x]
              \/ /\ x = next /\ ~invalidated /\ page2 = NoPage
                 /\ jmp'[x] = t /\ list'[x] = t
         /\ flag' = FALSE /\ stage' = "exec" /\ cur' = t /\ current' = t
         /\ next' = NoExit /\ quiet' = TRUE /\ pc' = pc
<1> DEFINE src == IF invalidated THEN NoExit ELSE next
           chain == MayChain(src, page2, l)
<1>1. /\ jmp' = IF chain THEN [j EXCEPT ![src] = t] ELSE j
      /\ list' = IF chain THEN [l EXCEPT ![src] = t] ELSE l
      /\ flag' = FALSE /\ stage' = "exec" /\ cur' = t /\ current' = t
      /\ next' = NoExit /\ quiet' = TRUE /\ pc' = pc
  BY Zenon DEF Enter
<1>2. chain => src = next /\ ~invalidated /\ page2 = NoPage /\ src \in Sources
  BY SlotFacts, Zenon DEF MayChain, TypeOK
<1> HIDE DEF src, chain
<1> QED
  BY <1>1, <1>2, Zenon

\* What tb_invalidate_phys_page_range does, V being the TBs it finds.
Removed(V, p, offsets) ==
  /\ \A e \in pages[p] : Covered(e) \cap offsets # {} => e[1] \in V
  /\ hash' = hash \ V
  /\ pages' = [q \in PPages |-> {e \in pages[q] : e[1] \notin V}]
  /\ bitmap' \in [PPages -> (SUBSET Offsets) \cup {NoBitmap}]
  /\ \A q \in PPages : \/ bitmap'[q] = NoBitmap \/ bitmap'[q] = bitmap[q]
                       \/ \A e \in pages[q] : Covered(e) \subseteq bitmap'[q]
  /\ writes' \in [PPages -> 0 .. Threshold]
  /\ jcache' = [c \in VCells |-> IF jcache[c] \in V THEN NoTb ELSE jcache[c]]
  /\ dirty' \in [PPages -> BOOLEAN]
  /\ \A q \in PPages : pages'[q] # {} => dirty'[q] = dirty[q]

Stopping(V) ==
  /\ flag' \in BOOLEAN /\ quiet' \in BOOLEAN
  /\ quiet' => quiet /\ V = {}
  /\ UNCHANGED <<nb, tbs>>

Invalidated(V, p, offsets) == Removed(V, p, offsets) /\ Unchain(V) /\ Stopping(V)

LEMMA InvalidateEffect ==
  ASSUME TypeOK, NEW p \in PPages, NEW offsets, NEW cpuWrite \in BOOLEAN,
         InvalidateRange(p, offsets, cpuWrite)
  PROVE  \E V \in SUBSET Slots : Invalidated(V, p, offsets)
<1> DEFINE V == {e[1] : e \in Hit(p, offsets)}
           rest == [q \in PPages |-> {e \in pages[q] : e[1] \notin V}]
           number == IF bitmap[p] = NoBitmap /\ writes[p] < Threshold
                      THEN writes[p] + 1 ELSE writes[p]
           build == bitmap[p] = NoBitmap /\ number >= Threshold /\ cpuWrite
           forgotten == {q \in PPages : rest[q] # pages[q] \/ (q = p /\ rest[p] = {})}
<1>1. /\ hash' = hash \ V
      /\ pages' = rest
      /\ bitmap' = [q \in PPages |->
                      IF q \in forgotten THEN NoBitmap
                      ELSE IF q = p /\ build THEN Built(p)
                      ELSE bitmap[q]]
      /\ writes' = [q \in PPages |-> IF q \in forgotten THEN 0
                                      ELSE IF q = p THEN number ELSE writes[q]]
      /\ jcache' = [c \in VCells |-> IF jcache[c] \in V THEN NoTb ELSE jcache[c]]
      /\ Unchain(V)
      /\ dirty' = [dirty EXCEPT ![p] = @ \/ (cpuWrite /\ rest[p] = {})]
      /\ flag' = (flag \/ V # {})
      /\ quiet' = (quiet /\ V = {})
      /\ UNCHANGED <<nb, tbs>>
  BY Zenon DEF InvalidateRange
<1>2. V \in SUBSET Slots
  BY DEF Hit, TypeOK
<1>3. \A e \in pages[p] : Covered(e) \cap offsets # {} => e[1] \in V
  BY Zenon DEF Hit
<1>4. Built(p) \in SUBSET Offsets
  <2>1. \A e \in pages[p] : e[1] \in Slots
    BY DEF TypeOK
  <2>2. \A e \in pages[p] : tbs[e[1]].pc \in VCells
    BY <2>1, Zenon DEF TypeOK, Blocks
  <2>3. \A e \in pages[p] : Covered(e) \subseteq Offsets
    BY <2>2, CellFacts, Zenon DEF Covered
  <2> QED
    BY <2>3, Zenon DEF Built
<1>5. \A e \in pages[p] : Covered(e) \subseteq Built(p)
  BY Zenon DEF Built
<1>6. number \in 0 .. Threshold
  BY CacheAssumption DEF TypeOK
<1>7. flag' \in BOOLEAN /\ quiet' \in BOOLEAN /\ (quiet' => quiet /\ V = {})
  <2> HIDE DEF V
  <2> QED
    BY <1>1, Zenon DEF TypeOK
<1> HIDE DEF V, number, build, forgotten
<1>8. bitmap' \in [PPages -> (SUBSET Offsets) \cup {NoBitmap}]
  <2>1. bitmap \in [PPages -> (SUBSET Offsets) \cup {NoBitmap}]
    BY Zenon DEF TypeOK
  <2> QED
    BY <1>1, <1>4, <2>1, Zenon
<1>9. writes' \in [PPages -> 0 .. Threshold]
  <2>1. writes \in [PPages -> 0 .. Threshold] /\ 0 \in 0 .. Threshold
    BY CacheAssumption DEF TypeOK
  <2> QED
    BY <1>1, <1>6, <2>1, Zenon
<1>10. \A q \in PPages : \/ bitmap'[q] = NoBitmap \/ bitmap'[q] = bitmap[q]
                         \/ \A e \in pages[q] : Covered(e) \subseteq bitmap'[q]
  BY <1>1, <1>5, Zenon
<1>11. dirty' \in [PPages -> BOOLEAN]
  BY <1>1, Zenon DEF TypeOK
<1>12. \A q \in PPages : pages'[q] # {} => dirty'[q] = dirty[q]
  BY <1>1, Zenon DEF TypeOK
<1>13. Invalidated(V, p, offsets)
  BY <1>1, <1>3, <1>7, <1>8, <1>9, <1>10, <1>11, <1>12, Zenon DEF Invalidated, Removed, Stopping
<1> QED
  BY <1>2, <1>13, Zenon

\* What tb_gen_code and tb_link_page do: the new TB t, with second as its second
\* page, joins what the tables had, or is alone in them after a flush.
Placed(t, second) ==
  /\ second # NoPage => Page(pc) + 1 \in VPages /\ second = map[Page(pc) + 1]
  /\ ~Full => t = nb
  /\ nb' = t + 1
  /\ tbs' = [tbs EXCEPT ![t] = [pc |-> pc, page |-> map[Page(pc)], page2 |-> second]]
  /\ hash' = (IF Full THEN {} ELSE hash) \cup {t}
  /\ stale' = (IF Full THEN {} ELSE stale) \ {t}
  /\ flag' = FALSE /\ stage' = "exec" /\ cur' = t /\ current' = t
  /\ next' = NoExit /\ quiet' = TRUE /\ pc' = pc /\ map' = map

Listed(t, second) ==
  /\ pages' \in [PPages -> SUBSET (Slots \X {0, 1})]
  /\ \A p \in PPages : \A e \in pages'[p] :
       \/ e[1] = t /\ p = IF e[2] = 0 THEN map[Page(pc)] ELSE second
       \/ ~Full /\ e \in pages[p]
  /\ ~Full => \A p \in PPages : pages[p] \subseteq pages'[p]
  /\ <<t, 0>> \in pages'[map[Page(pc)]]
  /\ second # NoPage => <<t, 1>> \in pages'[second]
  /\ bitmap' \in [PPages -> (SUBSET Offsets) \cup {NoBitmap}]
  /\ \A p \in PPages : bitmap'[p] # NoBitmap =>
       ~Full /\ bitmap'[p] = bitmap[p] /\ p # map[Page(pc)] /\ p # second
  /\ writes' \in [PPages -> 0 .. Threshold]
  /\ Protect({p \in {map[Page(pc)]} \cup ({second} \ {NoPage}) : Full \/ pages[p] = {}})

Chained(t, second) ==
  /\ jcache' \in [VCells -> Slots \cup {NoTb}]
  /\ jcache'[pc] = t
  /\ \A c \in VCells : c # pc =>
       jcache'[c] = NoTb \/ (~Full /\ jcache'[c] = jcache[c])
  /\ jmp' \in [Sources -> Slots \cup {NoTb}]
  /\ list' \in [Sources -> Slots \cup {NoTb}]
  /\ \A x \in Sources :
       \/ jmp'[x] = NoTb /\ list'[x] = NoTb
       \/ ~Full /\ x[1] # t /\ jmp'[x] = jmp[x] /\ list'[x] = list[x]
       \/ x = next /\ ~Full /\ second = NoPage /\ jmp'[x] = t /\ list'[x] = t

Generated(t, second) == Placed(t, second) /\ Listed(t, second) /\ Chained(t, second)

LEMMA GenEffect ==
  ASSUME TypeOK, NEW spans \in BOOLEAN, spans => CanSpan, GenCode(spans)
  PROVE  \E t \in Slots, second \in PPages \cup {NoPage} : Generated(t, second)
<1> DEFINE t == Slot
           first == map[Page(pc)]
           second == IF spans THEN map[Page(pc) + 1] ELSE NoPage
           linked == {first} \cup (IF spans THEN {second} ELSE {})
           j == [x \in Sources |-> IF x[1] = t THEN NoTb ELSE Kept(jmp, NoTb)[x]]
           l == [x \in Sources |-> IF x[1] = t THEN NoTb ELSE Kept(list, NoTb)[x]]
<1>1. /\ nb' = t + 1
      /\ tbs' = [tbs EXCEPT ![t] = [pc |-> pc, page |-> first, page2 |-> second]]
      /\ hash' = (IF Full THEN {} ELSE hash) \cup {t}
      /\ pages' = [p \in PPages |->
                     PageLists[p] \cup (IF p = first THEN {<<t, 0>>} ELSE {})
                       \cup (IF p = second THEN {<<t, 1>>} ELSE {})]
      /\ bitmap' = Bitmaps(linked)
      /\ writes' = [p \in PPages |-> IF p \in linked THEN 0 ELSE Kept(writes, 0)[p]]
      /\ jcache' = [Kept(jcache, NoTb) EXCEPT ![pc] = t]
      /\ Protect(Shielded(linked))
      /\ stale' = (IF Full THEN {} ELSE stale) \ {t}
      /\ Enter(t, Full, second, j, l)
      /\ UNCHANGED map
  BY Zenon DEF GenCode
<1>2. t \in Slots /\ (~Full => t = nb)
  BY SlotIsFree, Zenon
<1>3. first \in PPages
  BY CellFacts, Zenon DEF TypeOK
<1>4. /\ second \in PPages \cup {NoPage}
      /\ second # NoPage => Page(pc) + 1 \in VPages /\ second = map[Page(pc) + 1]
      /\ linked = {first} \cup ({second} \ {NoPage})
  BY CacheAssumption DEF TypeOK, CanSpan
<1>5. j \in [Sources -> Slots \cup {NoTb}] /\ l \in [Sources -> Slots \cup {NoTb}]
  BY Zenon DEF Kept, TypeOK
<1>6. \A x \in Sources : \/ j[x] = NoTb /\ l[x] = NoTb
                         \/ ~Full /\ x[1] # t /\ j[x] = jmp[x] /\ l[x] = list[x]
  BY Zenon DEF Kept, TypeOK
<1>7. /\ PageLists \in [PPages -> SUBSET (Slots \X {0, 1})]
      /\ \A p \in PPages : PageLists[p] = IF Full THEN {} ELSE pages[p]
  BY Zenon DEF PageLists, Kept, TypeOK
<1> HIDE DEF t, first, second, linked, j, l
<1>8. pages' \in [PPages -> SUBSET (Slots \X {0, 1})]
  BY <1>1, <1>2, <1>7
<1>9. /\ \A p \in PPages : \A e \in pages'[p] :
           \/ e[1] = t /\ p = IF e[2] = 0 THEN first ELSE second
           \/ ~Full /\ e \in pages[p]
      /\ ~Full => \A p \in PPages : pages[p] \subseteq pages'[p]
      /\ <<t, 0>> \in pages'[first]
      /\ second # NoPage => <<t, 1>> \in pages'[second]
  BY <1>1, <1>3, <1>4, <1>7
<1>10. /\ bitmap' \in [PPages -> (SUBSET Offsets) \cup {NoBitmap}]
       /\ \A p \in PPages : bitmap'[p] # NoBitmap =>
            ~Full /\ bitmap'[p] = bitmap[p] /\ p # first /\ p # second
  <2>1. bitmap \in [PPages -> (SUBSET Offsets) \cup {NoBitmap}]
    BY Zenon DEF TypeOK
  <2>2. bitmap' = [p \in PPages |-> IF p \in linked THEN NoBitmap
                                     ELSE Kept(bitmap, NoBitmap)[p]]
    BY <1>1, Zenon DEF Bitmaps
  <2>3. \A p \in PPages : Kept(bitmap, NoBitmap)[p] = IF Full THEN NoBitmap ELSE bitmap[p]
    BY <2>1, Zenon DEF Kept
  <2>4. \A p \in PPages : p = first \/ p = second => p \in linked
    BY <1>4, CacheAssumption, Zenon
  <2> QED
    BY <2>1, <2>2, <2>3, <2>4, Zenon
<1>11. writes' \in [PPages -> 0 .. Threshold]
  BY <1>1, CacheAssumption, SMTT(60) DEF Kept, TypeOK
<1>12. /\ jcache' \in [VCells -> Slots \cup {NoTb}]
       /\ jcache'[pc] = t
       /\ \A c \in VCells : c # pc =>
            jcache'[c] = NoTb \/ (~Full /\ jcache'[c] = jcache[c])
  BY <1>1, <1>2, Zenon DEF Kept, TypeOK
<1>13. Protect({p \in {first} \cup ({second} \ {NoPage}) : Full \/ pages[p] = {}})
  <2>1. Shielded(linked) = {p \in {first} \cup ({second} \ {NoPage}) : Full \/ pages[p] = {}}
    BY <1>3, <1>4, <1>7, Zenon DEF Shielded
  <2> QED
    BY <1>1, <2>1, Zenon
<1>14. /\ jmp' \in [Sources -> Slots \cup {NoTb}]
       /\ list' \in [Sources -> Slots \cup {NoTb}]
       /\ \A x \in Sources :
            \/ jmp'[x] = NoTb /\ list'[x] = NoTb
            \/ ~Full /\ x[1] # t /\ jmp'[x] = jmp[x] /\ list'[x] = list[x]
            \/ x = next /\ ~Full /\ second = NoPage /\ jmp'[x] = t /\ list'[x] = t
       /\ flag' = FALSE /\ stage' = "exec" /\ cur' = t /\ current' = t
       /\ next' = NoExit /\ quiet' = TRUE /\ pc' = pc
  <2>1. Enter(t, Full, second, j, l)
    BY <1>1, Zenon
  <2>2. /\ jmp' \in [Sources -> Slots \cup {NoTb}]
        /\ list' \in [Sources -> Slots \cup {NoTb}]
        /\ \A x \in Sources : \/ jmp'[x] = j[x] /\ list'[x] = l[x]
                              \/ /\ x = next /\ ~Full /\ second = NoPage
                                 /\ jmp'[x] = t /\ list'[x] = t
        /\ flag' = FALSE /\ stage' = "exec" /\ cur' = t /\ current' = t
        /\ next' = NoExit /\ quiet' = TRUE /\ pc' = pc
    BY <1>2, <1>5, <2>1, EnterEffect, Zenon
  <2> QED
    BY <1>6, <2>2, Zenon
<1>15. Generated(t, second)
  BY <1>1, <1>2, <1>4, <1>8, <1>9, <1>10, <1>11, <1>12, <1>13, <1>14, Zenon
  DEF first, Generated, Placed, Listed, Chained
<1> QED
  BY <1>2, <1>4, <1>15, Zenon

-----------------------------------------------------------------------------
\* The types.

LEMMA TypeStep == TypeOK /\ SlotsInUse /\ [Next]_vars => TypeOK'
<1> SUFFICES ASSUME TypeOK, SlotsInUse, [Next]_vars PROVE TypeOK'
  BY Zenon
<1> USE DEF tables, chains, memory, cpu
<1>1. CASE FindFast
  <2> DEFINE t == jcache[pc]
  <2>1. t \in Slots /\ Enter(t, flag, tbs[t].page2, jmp, list)
    BY <1>1, Zenon DEF FindFast, TypeOK
  <2> HIDE DEF t
  <2> QED
    BY <1>1, <2>1, EnterEffect, Zenon DEF FindFast, TypeOK
<1>2. CASE FindSlow
  <2> PICK t \in Slots : /\ jcache' = [jcache EXCEPT ![pc] = t]
                         /\ Enter(t, FALSE, tbs[t].page2, jmp, list)
    BY <1>2, Zenon DEF FindSlow
  <2> QED
    BY <1>2, EnterEffect, ZenonT(60) DEF FindSlow, TypeOK
<1>3. CASE FindGen
  <2> PICK spans \in BOOLEAN : (spans => CanSpan) /\ GenCode(spans)
    BY <1>3, Zenon DEF FindGen
  <2>1. PICK t \in Slots, second \in PPages \cup {NoPage} : Generated(t, second)
    BY GenEffect, Zenon
  <2>2. nb' \in 0 .. MaxBlocks
    BY <2>1, SlotFacts, Zenon DEF Generated, Placed, Listed, Chained
  <2>3. tbs' \in [Slots -> Blocks]
    BY <2>1, CellFacts, Zenon DEF TypeOK, Blocks, Generated, Placed, Listed, Chained
  <2>4. dirty' \in [PPages -> BOOLEAN] /\ tlb' \in [VPages -> {"none", "notdirty", "fast"}]
    BY <2>1, Zenon DEF TypeOK, Protect, Generated, Placed, Listed, Chained
  <2> QED
    BY <2>1, <2>2, <2>3, <2>4, Zenon DEF TypeOK, Generated, Placed, Listed, Chained
<1>4. CASE \E c \in VCells : FindFault(c)
  BY <1>4, Zenon DEF FindFault, TypeOK
<1>5. CASE \E c \in VCells : GenFault(c)
  <2> PICK c \in VCells : GenFault(c)
    BY <1>5, Zenon
  <2>1. nb' \in 0 .. MaxBlocks
    BY SlotFacts, SlotIsFree, Zenon DEF GenFault
  <2>2. tbs' \in [Slots -> Blocks]
    <3>1. [NoBlock EXCEPT !.pc = pc] \in Blocks
      BY NoBlockType, Zenon DEF TypeOK, Blocks
    <3> QED
      BY <3>1, SlotIsFree, Zenon DEF TypeOK, GenFault
  <2>3. /\ pages' \in [PPages -> SUBSET (Slots \X {0, 1})]
        /\ jcache' \in [VCells -> Slots \cup {NoTb}]
        /\ jmp' \in [Sources -> Slots \cup {NoTb}]
        /\ list' \in [Sources -> Slots \cup {NoTb}]
    BY Zenon DEF GenFault, PageLists, Kept, TypeOK
  <2>4. bitmap' \in [PPages -> (SUBSET Offsets) \cup {NoBitmap}]
    BY Zenon DEF GenFault, Kept, TypeOK
  <2>5. writes' \in [PPages -> 0 .. Threshold]
    BY CacheAssumption DEF GenFault, Kept, TypeOK
  <2>6. flag' \in BOOLEAN
    <3>1. CASE Full
      BY <3>1, Zenon DEF GenFault
    <3>2. CASE ~Full
      BY <3>2, CacheAssumption DEF GenFault, Full, TypeOK
    <3> QED
      BY <3>1, <3>2, Zenon
  <2> QED
    BY <2>1, <2>2, <2>3, <2>4, <2>5, <2>6, Zenon DEF GenFault, TypeOK
<1>6. CASE TbFlush
  <2>1. nb' \in 0 .. MaxBlocks /\ writes' \in [PPages -> 0 .. Threshold]
    BY <1>6, CacheAssumption DEF TbFlush
  <2> QED
    BY <1>6, <2>1, Zenon DEF TbFlush, TypeOK
<1>7. CASE \E c \in VCells : StoreUnchecked(Page(c), Offset(c))
  BY <1>7, ZenonT(60) DEF StoreUnchecked, Written, TypeOK
<1>8. CASE \E c \in VCells : StoreBitmapClear(Page(c), Offset(c))
  BY <1>8, ZenonT(60) DEF StoreBitmapClear, Written, TypeOK
<1>9. CASE \E c \in VCells : StoreInvalidate(Page(c), Offset(c))
  <2> PICK c \in VCells : StoreInvalidate(Page(c), Offset(c))
    BY <1>9, Zenon
  <2>1. map[Page(c)] \in PPages /\ InvalidateRange(map[Page(c)], {Offset(c)}, TRUE)
    BY CellFacts, Zenon DEF StoreInvalidate, TypeOK
  <2>2. PICK V \in SUBSET Slots : Invalidated(V, map[Page(c)], {Offset(c)})
    BY <2>1, InvalidateEffect, Zenon
  <2>3. jmp' \in [Sources -> Slots \cup {NoTb}] /\ list' \in [Sources -> Slots \cup {NoTb}]
    BY <2>2, Zenon DEF Unchain, TypeOK, Invalidated, Removed, Stopping
  <2> QED
    BY <2>2, <2>3, CellFacts, Zenon DEF StoreInvalidate, Written, TypeOK, Invalidated, Removed, Stopping
<1>10. CASE \E p \in PPages, offsets \in DmaRanges : DmaWrite(p, offsets)
  <2> PICK p \in PPages, offsets \in DmaRanges : DmaWrite(p, offsets)
    BY <1>10, Zenon
  <2>a. CASE dirty[p]
    BY <2>a, Zenon DEF DmaWrite, Written, TypeOK
  <2>b. CASE ~dirty[p]
    <3>1. InvalidateRange(p, offsets, FALSE)
      BY <2>b, Zenon DEF DmaWrite
    <3>2. PICK V \in SUBSET Slots : Invalidated(V, p, offsets)
      BY <3>1, InvalidateEffect, Zenon
    <3>3. jmp' \in [Sources -> Slots \cup {NoTb}] /\ list' \in [Sources -> Slots \cup {NoTb}]
      BY <3>2, Zenon DEF Unchain, TypeOK, Invalidated, Removed, Stopping
    <3> QED
      BY <2>b, <3>2, <3>3, Zenon DEF DmaWrite, Written, TypeOK, Invalidated, Removed, Stopping
  <2> QED
    BY <2>a, <2>b, Zenon DEF TypeOK
<1>11. CASE \E p \in PPages, offsets \in DmaRanges : DmaWriteTwice(p, offsets)
  BY <1>11, Zenon DEF DmaWriteTwice, TypeOK
<1>12. CASE \E n \in Exits : Jump(n)
  BY <1>12 DEF Jump, TypeOK, SlotsInUse, Blocks, Sources
<1>13. CASE \E n \in Exits : ExitChainable(n)
  BY <1>13, CacheAssumption DEF ExitChainable, TypeOK, SlotsInUse, Blocks, Sources
<1>14. CASE \E c \in VCells : ExitOther(c)
  BY <1>14, Zenon DEF ExitOther, TypeOK
<1>15. CASE UnlinkTb
  BY <1>15, Zenon DEF UnlinkTb, TypeOK
<1>16. CASE \E v \in VPages, m \in Maps, c \in VCells : TlbFlushPage(v, m, c)
  BY <1>16, CacheAssumption DEF TlbFlushPage, FlushedCache, TypeOK
<1>17. CASE \E m \in Maps, c \in VCells : TlbFlush(m, c)
  BY <1>17, CacheAssumption DEF TlbFlush, TypeOK
<1>18. CASE UNCHANGED vars
  BY <1>18, Zenon DEF vars, TypeOK
<1> QED
  BY <1>1, <1>2, <1>3, <1>4, <1>5, <1>6, <1>7, <1>8, <1>9, <1>10, <1>11, <1>12, <1>13, <1>14,
     <1>15, <1>16, <1>17, <1>18, Zenon DEF Next

-----------------------------------------------------------------------------
\* The kinds of steps, as the proofs below tell them apart.

\* The loop starts a TB that the jump cache or the hash table had.
Reused(t) ==
  /\ t \in hash /\ tbs[t].pc = pc /\ Mapped(t)
  /\ stage = "loop"
  /\ jcache' = [jcache EXCEPT ![pc] = t]
  /\ jmp' \in [Sources -> Slots \cup {NoTb}]
  /\ list' \in [Sources -> Slots \cup {NoTb}]
  /\ \A x \in Sources :
       \/ jmp'[x] = jmp[x] /\ list'[x] = list[x]
       \/ x = next /\ tbs[t].page2 = NoPage /\ jmp'[x] = t /\ list'[x] = t
  /\ stage' = "exec" /\ cur' = t /\ current' = t
  /\ next' = NoExit /\ quiet' = TRUE /\ pc' = pc
  /\ UNCHANGED <<nb, tbs, hash, pages, bitmap, writes, memory, stale>>

\* tb_flush, also by a translation that then faults.
Emptied ==
  /\ hash' = {} /\ stale' = {}
  /\ \A p \in PPages : pages'[p] = {} /\ bitmap'[p] = NoBitmap
  /\ \A c \in VCells : jcache'[c] = NoTb
  /\ \A x \in Sources : jmp'[x] = NoTb /\ list'[x] = NoTb
  /\ next' = NoExit /\ stage' = "loop" /\ UNCHANGED memory

\* A translation that faults after it took the next slot.
Aborted ==
  /\ nb \in Slots /\ nb' = nb + 1
  /\ \E b : tbs' = [tbs EXCEPT ![nb] = b]
  /\ next' = NoExit /\ stage' = "loop"
  /\ UNCHANGED <<hash, pages, bitmap, writes, jcache, jmp, list, memory, stale>>

\* A store or a device write that invalidates the TBs V.
Invalidating(V, p, offsets) ==
  /\ Invalidated(V, p, offsets) /\ Written(p, offsets)
  /\ \A v \in VPages : tlb'[v] = "fast" => tlb[v] = "fast" \/ pages'[map[v]] = {}
  /\ UNCHANGED <<map, stage, pc, cur, next, current>>

\* A change of the guest's page table, which ends the running TB.
Remapped ==
  \/ \E v \in VPages, m \in Maps, c \in VCells : TlbFlushPage(v, m, c)
  \/ \E m \in Maps, c \in VCells : TlbFlush(m, c)

\* A step that leaves the tables and the chains alone.
Elsewhere ==
  /\ UNCHANGED <<nb, tbs, hash, pages, bitmap, writes, jcache, jmp, list>>
  /\ \/ \E c \in VCells : FindFault(c)
     \/ \E c \in VCells : StoreUnchecked(Page(c), Offset(c))
     \/ \E c \in VCells : StoreBitmapClear(Page(c), Offset(c))
     \/ \E p \in PPages, offsets \in DmaRanges : DmaWrite(p, offsets) /\ dirty[p]
     \/ \E p \in PPages, offsets \in DmaRanges : DmaWriteTwice(p, offsets)
     \/ \E n \in Exits : Jump(n)
     \/ \E n \in Exits : ExitChainable(n)
     \/ \E c \in VCells : ExitOther(c)
     \/ UNCHANGED vars

LEMMA ReusedStep ==
  ASSUME TypeOK, NEW t \in Slots, NEW invalidated,
         t \in hash, tbs[t].pc = pc, Mapped(t), stage = "loop",
         jcache' = [jcache EXCEPT ![pc] = t],
         Enter(t, invalidated, tbs[t].page2, jmp, list),
         UNCHANGED <<nb, tbs, hash, pages, bitmap, writes, memory, stale>>
  PROVE  Reused(t)
<1>1. jmp \in [Sources -> Slots \cup {NoTb}] /\ list \in [Sources -> Slots \cup {NoTb}]
  BY Zenon DEF TypeOK
<1>2. /\ jmp' \in [Sources -> Slots \cup {NoTb}]
      /\ list' \in [Sources -> Slots \cup {NoTb}]
      /\ \A x \in Sources :
           \/ jmp'[x] = jmp[x] /\ list'[x] = list[x]
           \/ x = next /\ tbs[t].page2 = NoPage /\ jmp'[x] = t /\ list'[x] = t
      /\ stage' = "exec" /\ cur' = t /\ current' = t
      /\ next' = NoExit /\ quiet' = TRUE /\ pc' = pc
  <2> DEFINE page2 == tbs[t].page2
  <2>1. Enter(t, invalidated, page2, jmp, list)
    BY Zenon
  <2> HIDE DEF page2
  <2>2. /\ jmp' \in [Sources -> Slots \cup {NoTb}]
        /\ list' \in [Sources -> Slots \cup {NoTb}]
        /\ \A x \in Sources : \/ jmp'[x] = jmp[x] /\ list'[x] = list[x]
                              \/ /\ x = next /\ ~invalidated /\ page2 = NoPage
                                 /\ jmp'[x] = t /\ list'[x] = t
        /\ flag' = FALSE /\ stage' = "exec" /\ cur' = t /\ current' = t
        /\ next' = NoExit /\ quiet' = TRUE /\ pc' = pc
    BY <1>1, <2>1, EnterEffect, Zenon
  <2> QED
    BY <2>2, Zenon DEF page2
<1> QED
  BY <1>2, Zenon DEF Reused

AnyKind ==
  \/ \E t \in Slots : Reused(t)
  \/ \E t \in Slots, second \in PPages \cup {NoPage} :
       stage = "loop" /\ Generated(t, second)
  \/ Emptied
  \/ Aborted
  \/ \E V \in SUBSET Slots, p \in PPages, offsets \in SUBSET Offsets :
       Invalidating(V, p, offsets)
  \/ UnlinkTb
  \/ Remapped
  \/ Elsewhere

LEMMA KindOfStep ==
  ASSUME TypeOK, JumpCacheIsCurrent, [Next]_vars
  PROVE  AnyKind
<1> USE DEF tables, chains, memory, cpu
<1>1. CASE FindFast
  <2> DEFINE t == jcache[pc]
  <2>1. t \in Slots /\ t \in hash /\ tbs[t].pc = pc /\ Mapped(t)
    BY <1>1, Zenon DEF FindFast, TypeOK, JumpCacheIsCurrent
  <2>2. Enter(t, flag, tbs[t].page2, jmp, list)
    BY <1>1, Zenon DEF FindFast
  <2>3. jcache' = [jcache EXCEPT ![pc] = t]
    BY <1>1, Zenon DEF FindFast, TypeOK
  <2> HIDE DEF t
  <2>4. UNCHANGED <<nb, tbs, hash, pages, bitmap, writes, memory, stale>> /\ stage = "loop"
    BY <1>1, Zenon DEF FindFast
  <2>5. Reused(t)
    BY <2>1, <2>2, <2>3, <2>4, ReusedStep, Zenon
  <2> QED
    BY <2>1, <2>5, Zenon DEF AnyKind
<1>2. CASE FindSlow
  <2>1. PICK t \in Slots : /\ Found(t)
                           /\ jcache' = [jcache EXCEPT ![pc] = t]
                           /\ Enter(t, FALSE, tbs[t].page2, jmp, list)
    BY <1>2, Zenon DEF FindSlow
  <2>2. UNCHANGED <<nb, tbs, hash, pages, bitmap, writes, memory, stale>> /\ stage = "loop"
    BY <1>2, Zenon DEF FindSlow
  <2>3. Reused(t)
    BY <2>1, <2>2, ReusedStep, Zenon DEF Found
  <2> QED
    BY <2>3, Zenon DEF AnyKind
<1>3. CASE FindGen
  <2> PICK spans \in BOOLEAN : (spans => CanSpan) /\ GenCode(spans)
    BY <1>3, Zenon DEF FindGen
  <2>1. PICK t \in Slots, second \in PPages \cup {NoPage} : stage = "loop" /\ Generated(t, second)
    BY <1>3, GenEffect, Zenon DEF FindGen
  <2> QED
    BY <2>1, Zenon DEF AnyKind
<1>4. CASE \E c \in VCells : GenFault(c)
  <2> PICK c \in VCells : GenFault(c)
    BY <1>4, Zenon
  <2>1. CASE Full
    <3>1. Emptied
      BY <2>1, Zenon DEF GenFault, Emptied, PageLists, Kept, TypeOK
    <3> QED
      BY <3>1, Zenon DEF AnyKind
  <2>2. CASE ~Full
    <3>1. nb \in Slots /\ Slot = nb
      BY <2>2, SlotIsFree, Zenon
    <3>2. tbs' = [tbs EXCEPT ![nb] = [NoBlock EXCEPT !.pc = pc]]
      BY <3>1, Zenon DEF GenFault
    <3>3. Aborted
      BY <2>2, <3>1, <3>2, Zenon DEF GenFault, Aborted, PageLists, Kept
    <3> QED
      BY <3>3, Zenon DEF AnyKind
  <2> QED
    BY <2>1, <2>2, Zenon
<1>5. CASE TbFlush
  <2>1. Emptied
    BY <1>5, Zenon DEF TbFlush, Emptied
  <2> QED
    BY <2>1, Zenon DEF AnyKind
<1>6. CASE \E c \in VCells : StoreInvalidate(Page(c), Offset(c))
  <2>1. PICK c \in VCells : StoreInvalidate(Page(c), Offset(c))
    BY <1>6, Zenon
  <2> DEFINE p == map[Page(c)]
  <2>2. p \in PPages /\ {Offset(c)} \in SUBSET Offsets
    BY CellFacts, Zenon DEF TypeOK
  <2>3. PICK V \in SUBSET Slots : Invalidated(V, p, {Offset(c)})
    BY <2>1, <2>2, InvalidateEffect, Zenon DEF StoreInvalidate
  <2>4. ASSUME NEW v \in VPages, tlb'[v] = "fast"
        PROVE  tlb[v] = "fast" \/ pages'[map[v]] = {}
    <3>1. CASE v = Page(c)
      <4>1. dirty'[p]
        BY <2>1, <2>4, <3>1, Zenon DEF StoreInvalidate, TypeOK
      <4>2. ~dirty[p]
        BY <2>1, Zenon DEF StoreInvalidate
      <4> QED
        BY <2>2, <2>3, <3>1, <4>1, <4>2, Zenon DEF Invalidated, Removed, Stopping
    <3>2. CASE v # Page(c)
      BY <2>1, <2>4, <3>2, Zenon DEF StoreInvalidate, TypeOK
    <3> QED
      BY <3>1, <3>2, Zenon
  <2>5. Invalidating(V, p, {Offset(c)})
    BY <2>1, <2>3, <2>4, Zenon DEF Invalidating, StoreInvalidate
  <2> QED
    BY <2>2, <2>5, Zenon DEF AnyKind
<1>7. CASE \E p \in PPages, offsets \in DmaRanges : DmaWrite(p, offsets)
  <2> PICK p \in PPages, offsets \in DmaRanges : DmaWrite(p, offsets)
    BY <1>7, Zenon
  <2>1. CASE dirty[p]
    BY <2>1, Zenon DEF DmaWrite, Elsewhere, AnyKind
  <2>2. CASE ~dirty[p]
    <3>1. PICK V \in SUBSET Slots : Invalidated(V, p, offsets)
      BY <2>2, InvalidateEffect, Zenon DEF DmaWrite
    <3>2. Invalidating(V, p, offsets)
      BY <2>2, <3>1, Zenon DEF DmaWrite, Invalidating
    <3>3. offsets \in SUBSET Offsets
      BY CacheAssumption, Zenon
    <3> QED
      BY <3>2, <3>3, Zenon DEF AnyKind
  <2> QED
    BY <2>1, <2>2, Zenon
<1>8. CASE \/ \E c \in VCells : FindFault(c)
           \/ \E c \in VCells : StoreUnchecked(Page(c), Offset(c))
           \/ \E c \in VCells : StoreBitmapClear(Page(c), Offset(c))
           \/ \E p \in PPages, offsets \in DmaRanges : DmaWriteTwice(p, offsets)
           \/ \E n \in Exits : Jump(n)
           \/ \E n \in Exits : ExitChainable(n)
           \/ \E c \in VCells : ExitOther(c)
           \/ UNCHANGED vars
  <2>1. UNCHANGED <<nb, tbs, hash, pages, bitmap, writes, jcache, jmp, list>>
    BY <1>8, Zenon DEF FindFault, StoreUnchecked, StoreBitmapClear, DmaWriteTwice, Jump, ExitChainable,
                ExitOther, vars
  <2>2. Elsewhere
    BY <1>8, <2>1, Zenon DEF Elsewhere
  <2> QED
    BY <2>2, Zenon DEF AnyKind
<1> QED
  BY <1>1, <1>2, <1>3, <1>4, <1>5, <1>6, <1>7, <1>8, Zenon DEF Next, Remapped, AnyKind

-----------------------------------------------------------------------------
\* Every kind of step keeps the invariant.

LEMMA SlotsStep == ASSUME CacheInv, [Next]_vars PROVE SlotsInUse'
<1>a. /\ SlotsInUse /\ ListMatchesCode /\ NoJumpToInvalid /\ JumpCacheIsCurrent
      /\ CodeIsProtected /\ HashedIsListed /\ BitmapCoversCode /\ FindableIsFresh
      /\ JumpKeepsPage /\ NextKeepsPage /\ RunningIsMapped /\ QuietIsReached
  BY Zenon DEF CacheInv
<1>k. AnyKind
  BY KindOfStep, Zenon DEF CacheInv
<1>b. /\ nb \in 0 .. MaxBlocks
      /\ hash \subseteq Slots
      /\ pages \in [PPages -> SUBSET (Slots \X {0, 1})]
      /\ jmp \in [Sources -> Slots \cup {NoTb}]
      /\ cur \in Slots \cup {NoTb}
      /\ next \in Sources \cup {NoExit}
  BY Zenon DEF CacheInv, TypeOK
<1> USE <1>a, <1>b DEF SlotsInUse, chains, memory, tables, cpu
<1>1. CASE \E t \in Slots : Reused(t)
  BY <1>1, SlotFacts, SMTT(60) DEF Reused
<1>2. CASE \E t \in Slots, second \in PPages \cup {NoPage} :
            stage = "loop" /\ Generated(t, second)
  <2> PICK t \in Slots, second \in PPages \cup {NoPage} : Generated(t, second)
    BY <1>2, Zenon
  <2>1. \A s \in Slots : s \in Nat
    BY SlotFacts, Zenon
  <2>2. \A s \in hash' : s < nb'
    BY <2>1, SMTT(60) DEF Generated, Placed, Listed, Chained
  <2>3. \A p \in PPages : \A e \in pages'[p] : e[1] < nb'
    BY <2>1, SMTT(60) DEF Generated, Placed, Listed, Chained
  <2>4. \A x \in Sources : jmp'[x] # NoTb => x[1] < nb' /\ jmp'[x] < nb'
    <3> SUFFICES ASSUME NEW x \in Sources, jmp'[x] # NoTb
                 PROVE  x[1] < nb' /\ jmp'[x] < nb'
      BY Zenon
    <3>1. x[1] \in Nat /\ nb \in Nat
      BY <2>1, SMTT(60) DEF Sources
    <3>2. CASE ~Full /\ jmp'[x] = jmp[x]
      <4>1. jmp[x] \in Slots /\ x[1] < nb /\ jmp[x] < nb
        BY <3>2, Zenon
      <4> QED
        BY <2>1, <3>1, <3>2, <4>1, SMTT(60) DEF Generated, Placed, Listed, Chained
    <3>3. CASE ~Full /\ x = next /\ jmp'[x] = t
      <4>1. x[1] < nb
        BY <3>3, SlotFacts, Zenon
      <4> QED
        BY <2>1, <3>1, <3>3, <4>1, SMTT(60) DEF Generated, Placed, Listed, Chained
    <3> QED
      BY <3>2, <3>3, Zenon DEF Generated, Placed, Listed, Chained
  <2> QED
    BY <2>1, <2>2, <2>3, <2>4, Zenon DEF Generated, Placed, Listed, Chained
<1>3. CASE Emptied
  BY <1>3, Zenon DEF Emptied
<1>4. CASE Aborted
  <2>1. \A s \in Slots : s \in Nat /\ (s < nb => s < nb')
    BY <1>4, SlotFacts DEF Aborted
  <2>2. \A x \in Sources : x[1] \in Slots
    BY Zenon DEF Sources
  <2>3. \A s \in hash' : s < nb'
    BY <1>4, <2>1, Zenon DEF Aborted
  <2>4. \A p \in PPages : \A e \in pages'[p] : e[1] < nb'
    <3>1. \A p \in PPages : \A e \in pages[p] : e[1] \in Slots
      OBVIOUS
    <3> QED
      BY <1>4, <2>1, <3>1, Zenon DEF Aborted
  <2>5. \A x \in Sources : jmp'[x] # NoTb => x[1] < nb' /\ jmp'[x] < nb'
    BY <1>4, <2>1, <2>2, Zenon DEF Aborted
  <2> QED
    BY <1>4, <2>3, <2>4, <2>5, Zenon DEF Aborted
<1>5. CASE \E V \in SUBSET Slots, p \in PPages, offsets \in SUBSET Offsets :
            Invalidating(V, p, offsets)
  BY <1>5, SMTT(60) DEF Invalidating, Invalidated, Removed, Stopping, Unchain
<1>6. CASE UnlinkTb
  BY <1>6, Zenon DEF UnlinkTb
<1>7. CASE Remapped
  BY <1>7, Zenon DEF Remapped, TlbFlushPage, TlbFlush
<1>8. CASE Elsewhere
  <2>1. stage' = "exec" => cur' \in Slots /\ cur' < nb'
    BY <1>8, Zenon DEF Elsewhere, FindFault, StoreUnchecked, StoreBitmapClear, DmaWrite, DmaWriteTwice,
                Jump, ExitChainable, ExitOther, vars, Sources
  <2>2. next' # NoExit => next'[1] < nb'
    <3>1. CASE next' = next
      BY <1>8, <3>1, Zenon DEF Elsewhere
    <3>2. CASE stage = "exec" /\ \E n \in Exits : next' = <<cur, n>>
      BY <1>8, <3>2, SMTT(60) DEF Elsewhere
    <3> QED
      BY <1>8, <3>1, <3>2, Zenon
      DEF Elsewhere, FindFault, StoreUnchecked, StoreBitmapClear, DmaWrite, DmaWriteTwice,
          Jump, ExitChainable, ExitOther, vars
  <2> QED
    BY <1>8, <2>1, <2>2, Zenon DEF Elsewhere
<1> HIDE <1>a, <1>b
<1> QED
  BY <1>1, <1>2, <1>3, <1>4, <1>5, <1>6, <1>7, <1>8, <1>k, Zenon DEF AnyKind

LEMMA ListStep == ASSUME CacheInv, [Next]_vars PROVE ListMatchesCode'
<1>a. /\ SlotsInUse /\ ListMatchesCode /\ NoJumpToInvalid /\ JumpCacheIsCurrent
      /\ CodeIsProtected /\ HashedIsListed /\ BitmapCoversCode /\ FindableIsFresh
      /\ JumpKeepsPage /\ NextKeepsPage /\ RunningIsMapped /\ QuietIsReached
  BY Zenon DEF CacheInv
<1>k. AnyKind
  BY KindOfStep, Zenon DEF CacheInv
<1>b. /\ jmp \in [Sources -> Slots \cup {NoTb}]
      /\ list \in [Sources -> Slots \cup {NoTb}]
      /\ next \in Sources \cup {NoExit}
  BY Zenon DEF CacheInv, TypeOK
<1> USE <1>a, <1>b DEF ListMatchesCode, chains, memory, tables, cpu
<1>1. CASE \E t \in Slots : Reused(t)
  BY <1>1, Zenon DEF Reused
<1>2. CASE \E t \in Slots, second \in PPages \cup {NoPage} :
            stage = "loop" /\ Generated(t, second)
  BY <1>2, SMTT(60) DEF Generated, Placed, Listed, Chained
<1>3. CASE Emptied
  BY <1>3, Zenon DEF Emptied
<1>4. CASE Aborted
  BY <1>4, Zenon DEF Aborted
<1>5. CASE \E V \in SUBSET Slots, p \in PPages, offsets \in SUBSET Offsets :
            Invalidating(V, p, offsets)
  BY <1>5, SMTT(60) DEF Invalidating, Invalidated, Removed, Stopping, Unchain
<1>6. CASE UnlinkTb
  BY <1>6, Zenon DEF UnlinkTb
<1>7. CASE Remapped
  BY <1>7, Zenon DEF Remapped, TlbFlushPage, TlbFlush
<1>8. CASE Elsewhere
  BY <1>8, Zenon DEF Elsewhere
<1> HIDE <1>a, <1>b
<1> QED
  BY <1>1, <1>2, <1>3, <1>4, <1>5, <1>6, <1>7, <1>8, <1>k, Zenon DEF AnyKind

LEMMA NoJumpStep == ASSUME CacheInv, [Next]_vars PROVE NoJumpToInvalid'
<1>a. /\ SlotsInUse /\ ListMatchesCode /\ NoJumpToInvalid /\ JumpCacheIsCurrent
      /\ CodeIsProtected /\ HashedIsListed /\ BitmapCoversCode /\ FindableIsFresh
      /\ JumpKeepsPage /\ NextKeepsPage /\ RunningIsMapped /\ QuietIsReached
  BY Zenon DEF CacheInv
<1>k. AnyKind
  BY KindOfStep, Zenon DEF CacheInv
<1>b. /\ nb \in 0 .. MaxBlocks
      /\ hash \subseteq Slots
      /\ jmp \in [Sources -> Slots \cup {NoTb}]
      /\ list \in [Sources -> Slots \cup {NoTb}]
      /\ next \in Sources \cup {NoExit}
  BY Zenon DEF CacheInv, TypeOK
<1> USE <1>a, <1>b DEF NoJumpToInvalid, chains, memory, tables, cpu
<1>1. CASE \E t \in Slots : Reused(t)
  BY <1>1, Zenon DEF Reused
<1>2. CASE \E t \in Slots, second \in PPages \cup {NoPage} :
            stage = "loop" /\ Generated(t, second)
  BY <1>2, SMTT(60) DEF Generated, Placed, Listed, Chained, NoTb
<1>3. CASE Emptied
  BY <1>3, Zenon DEF Emptied
<1>4. CASE Aborted
  BY <1>4, Zenon DEF Aborted
<1>5. CASE \E V \in SUBSET Slots, p \in PPages, offsets \in SUBSET Offsets :
            Invalidating(V, p, offsets)
  BY <1>5, SMTT(60) DEF Invalidating, Invalidated, Removed, Stopping, Unchain
<1>6. CASE UnlinkTb
  BY <1>6, Zenon DEF UnlinkTb
<1>7. CASE Remapped
  BY <1>7, Zenon DEF Remapped, TlbFlushPage, TlbFlush
<1>8. CASE Elsewhere
  BY <1>8, Zenon DEF Elsewhere
<1> HIDE <1>a, <1>b
<1> QED
  BY <1>1, <1>2, <1>3, <1>4, <1>5, <1>6, <1>7, <1>8, <1>k, Zenon DEF AnyKind

LEMMA JumpCacheStep == ASSUME CacheInv, [Next]_vars PROVE JumpCacheIsCurrent'
<1>a. /\ SlotsInUse /\ ListMatchesCode /\ NoJumpToInvalid /\ JumpCacheIsCurrent
      /\ CodeIsProtected /\ HashedIsListed /\ BitmapCoversCode /\ FindableIsFresh
      /\ JumpKeepsPage /\ NextKeepsPage /\ RunningIsMapped /\ QuietIsReached
  BY Zenon DEF CacheInv
<1>k. AnyKind
  BY KindOfStep, Zenon DEF CacheInv
<1>b. /\ nb \in 0 .. MaxBlocks
      /\ tbs \in [Slots -> Blocks]
      /\ hash \subseteq Slots
      /\ jcache \in [VCells -> Slots \cup {NoTb}]
      /\ map \in [VPages -> PPages]
      /\ pc \in VCells
  BY Zenon DEF CacheInv, TypeOK
<1> USE <1>a, <1>b DEF JumpCacheIsCurrent, Mapped, chains, memory, tables, cpu
<1>1. CASE \E t \in Slots : Reused(t)
  BY <1>1, SMTT(60) DEF Reused
<1>2. CASE \E t \in Slots, second \in PPages \cup {NoPage} :
            stage = "loop" /\ Generated(t, second)
  <2> PICK t \in Slots, second \in PPages \cup {NoPage} : Generated(t, second)
    BY <1>2, Zenon
  <2> SUFFICES ASSUME NEW c \in VCells, jcache'[c] # NoTb
               PROVE  (jcache[c] \in hash /\ tbs[jcache[c]].pc = c /\ Mapped(jcache[c]))'
    BY Zenon
  <2>1. CASE c = pc
    BY <2>1, Zenon DEF Generated, Placed, Listed, Chained
  <2>2. CASE c # pc
    <3>1. ~Full /\ jcache'[c] = jcache[c] /\ jcache[c] \in hash /\ t = nb
      BY <2>2, Zenon DEF Generated, Placed, Listed, Chained
    <3>2. jcache[c] # t
      BY <3>1, SlotFacts, SMTT(60) DEF SlotsInUse
    <3> QED
      BY <3>1, <3>2, ZenonT(60) DEF Generated, Placed, Listed, Chained
  <2> QED
    BY <2>1, <2>2, Zenon
<1>3. CASE Emptied
  BY <1>3, Zenon DEF Emptied
<1>4. CASE Aborted
  BY <1>4, SlotFacts DEF Aborted, SlotsInUse
<1>5. CASE \E V \in SUBSET Slots, p \in PPages, offsets \in SUBSET Offsets :
            Invalidating(V, p, offsets)
  BY <1>5, SMTT(60) DEF Invalidating, Invalidated, Removed, Stopping
<1>6. CASE UnlinkTb
  BY <1>6, Zenon DEF UnlinkTb
<1>7. CASE Remapped
  <2>1. CASE \E v \in VPages, m \in Maps, c \in VCells : TlbFlushPage(v, m, c)
    <3> PICK v \in VPages, m \in Maps : /\ \A w \in VPages \ {v} : m[w] = map[w]
                                        /\ map' = m /\ jcache' = FlushedCache(v)
                                        /\ UNCHANGED <<hash, tbs>>
      BY <2>1, Zenon DEF TlbFlushPage
    <3> SUFFICES ASSUME NEW c \in VCells, jcache'[c] # NoTb
                 PROVE  (jcache[c] \in hash /\ tbs[jcache[c]].pc = c /\ Mapped(jcache[c]))'
      BY Zenon
    <3>1. jcache'[c] = jcache[c] /\ Page(c) # v - 1 /\ Page(c) # v
      BY Zenon DEF FlushedCache
    <3>2. Page(c) \in VPages /\ Page(c) \in Int /\ v \in Int
      BY CellFacts, CacheAssumption, SMTT(60) DEF VPages
    <3>3. jcache[c] \in hash /\ tbs[jcache[c]].pc = c /\ Mapped(jcache[c])
      BY <3>1, Zenon
    <3>4. tbs[jcache[c]].page2 # NoPage => Page(c) + 1 \in VPages /\ Page(c) + 1 # v
      <4>1. Page(c) + 1 # v
        BY <3>1, <3>2
      <4>2. tbs[jcache[c]].page2 # NoPage => Page(tbs[jcache[c]].pc) + 1 \in VPages
        BY <3>3, Zenon DEF HashedIsListed
      <4> QED
        BY <3>3, <4>1, <4>2, Zenon
    <3> QED
      BY <3>1, <3>2, <3>3, <3>4
  <2>2. CASE \E m \in Maps, c \in VCells : TlbFlush(m, c)
    BY <2>2, SMTT(60) DEF TlbFlush
  <2> QED
    BY <1>7, <2>1, <2>2, Zenon DEF Remapped
<1>8. CASE Elsewhere
  BY <1>8, ZenonT(60) DEF Elsewhere, FindFault, StoreUnchecked, StoreBitmapClear, DmaWrite, DmaWriteTwice,
              Jump, ExitChainable, ExitOther, vars
<1> HIDE <1>a, <1>b
<1> QED
  BY <1>1, <1>2, <1>3, <1>4, <1>5, <1>6, <1>7, <1>8, <1>k, Zenon DEF AnyKind

LEMMA ProtectStep == ASSUME CacheInv, [Next]_vars PROVE CodeIsProtected'
<1>a. /\ SlotsInUse /\ ListMatchesCode /\ NoJumpToInvalid /\ JumpCacheIsCurrent
      /\ CodeIsProtected /\ HashedIsListed /\ BitmapCoversCode /\ FindableIsFresh
      /\ JumpKeepsPage /\ NextKeepsPage /\ RunningIsMapped /\ QuietIsReached
  BY Zenon DEF CacheInv
<1>k. AnyKind
  BY KindOfStep, Zenon DEF CacheInv
<1>b. /\ pages \in [PPages -> SUBSET (Slots \X {0, 1})]
      /\ dirty \in [PPages -> BOOLEAN]
      /\ tlb \in [VPages -> {"none", "notdirty", "fast"}]
      /\ map \in [VPages -> PPages]
      /\ pc \in VCells
      /\ tbs \in [Slots -> Blocks]
  BY Zenon DEF CacheInv, TypeOK
<1> USE <1>a, <1>b DEF CodeIsProtected, chains, memory, tables, cpu
<1>1. CASE \E t \in Slots : Reused(t)
  BY <1>1, SMTT(60) DEF Reused
<1>2. CASE \E t \in Slots, second \in PPages \cup {NoPage} :
            stage = "loop" /\ Generated(t, second)
  <2>1. PICK t \in Slots, second \in PPages \cup {NoPage} : Generated(t, second)
    BY <1>2, Zenon
  <2> DEFINE shielded == {p \in {map[Page(pc)]} \cup ({second} \ {NoPage}) :
                            Full \/ pages[p] = {}}
  <2>2. Protect(shielded) /\ map' = map
    BY <2>1, Zenon DEF Generated, Placed, Listed, Chained
  <2> SUFFICES ASSUME NEW p \in PPages, pages'[p] # {}
               PROVE  /\ ~dirty'[p]
                      /\ \A v \in VPages : map'[v] = p => tlb'[v] # "fast"
    BY Zenon
  <2>3. CASE p \in shielded
    <3> HIDE DEF shielded
    <3> QED
      BY <2>2, <2>3, Zenon DEF Protect
  <2>4. CASE p \notin shielded
    <3>1. pages[p] # {}
      <4> PICK e \in pages'[p] : TRUE
        BY Zenon
      <4>1. CASE ~Full /\ e \in pages[p]
        BY <4>1, Zenon
      <4>2. CASE p = map[Page(pc)] \/ p = second
        BY <2>4, <4>2, CacheAssumption, Zenon
      <4> QED
        BY <2>1, <4>1, <4>2, Zenon DEF Generated, Placed, Listed, Chained
    <3>2. ~dirty[p] /\ \A v \in VPages : map[v] = p => tlb[v] # "fast"
      BY <3>1, Zenon
    <3> HIDE DEF shielded
    <3> QED
      BY <2>2, <3>2, Zenon DEF Protect
  <2> QED
    BY <2>3, <2>4, Zenon
<1>3. CASE Emptied
  BY <1>3, Zenon DEF Emptied
<1>4. CASE Aborted
  BY <1>4, Zenon DEF Aborted
<1>5. CASE \E V \in SUBSET Slots, p \in PPages, offsets \in SUBSET Offsets :
            Invalidating(V, p, offsets)
  <2> PICK V \in SUBSET Slots, p \in PPages, offsets \in SUBSET Offsets :
         Invalidating(V, p, offsets)
    BY <1>5, Zenon
  <2>1. \A q \in PPages : pages'[q] # {} => pages[q] # {} /\ dirty'[q] = dirty[q]
    BY Zenon DEF Invalidating, Invalidated, Removed, Stopping
  <2>2. map' = map /\ \A v \in VPages : tlb'[v] = "fast" => tlb[v] = "fast" \/ pages'[map[v]] = {}
    BY Zenon DEF Invalidating
  <2> QED
    BY <2>1, <2>2, Zenon
<1>6. CASE UnlinkTb
  BY <1>6, Zenon DEF UnlinkTb
<1>7. CASE Remapped
  BY <1>7, SMTT(60) DEF Remapped, TlbFlushPage, TlbFlush
<1>8. CASE Elsewhere
  <2>1. CASE UNCHANGED memory
    BY <1>8, <2>1, Zenon DEF Elsewhere
  <2>2. CASE \E c \in VCells : StoreUnchecked(Page(c), Offset(c))
    BY <1>8, <2>2, CellFacts, SMTT(60) DEF Elsewhere, StoreUnchecked, WriteEntry
  <2>3. CASE \E c \in VCells : StoreBitmapClear(Page(c), Offset(c))
    BY <1>8, <2>3, CellFacts, Zenon DEF Elsewhere, StoreBitmapClear
  <2> QED
    BY <1>8, <2>1, <2>2, <2>3, Zenon
    DEF Elsewhere, FindFault, DmaWrite, DmaWriteTwice, Jump, ExitChainable, ExitOther, vars
<1> HIDE <1>a, <1>b
<1> QED
  BY <1>1, <1>2, <1>3, <1>4, <1>5, <1>6, <1>7, <1>8, <1>k, Zenon DEF AnyKind

LEMMA ListedStep == ASSUME CacheInv, [Next]_vars PROVE HashedIsListed'
<1>a. /\ SlotsInUse /\ ListMatchesCode /\ NoJumpToInvalid /\ JumpCacheIsCurrent
      /\ CodeIsProtected /\ HashedIsListed /\ BitmapCoversCode /\ FindableIsFresh
      /\ JumpKeepsPage /\ NextKeepsPage /\ RunningIsMapped /\ QuietIsReached
  BY Zenon DEF CacheInv
<1>k. AnyKind
  BY KindOfStep, Zenon DEF CacheInv
<1>b. /\ nb \in 0 .. MaxBlocks
      /\ tbs \in [Slots -> Blocks]
      /\ hash \subseteq Slots
      /\ pages \in [PPages -> SUBSET (Slots \X {0, 1})]
      /\ map \in [VPages -> PPages]
      /\ pc \in VCells
  BY Zenon DEF CacheInv, TypeOK
<1> USE <1>a, <1>b DEF HashedIsListed, chains, memory, tables, cpu
<1>1. CASE \E t \in Slots : Reused(t)
  BY <1>1, Zenon DEF Reused
<1>2. CASE \E t \in Slots, second \in PPages \cup {NoPage} :
            stage = "loop" /\ Generated(t, second)
  <2>1. PICK t \in Slots, second \in PPages \cup {NoPage} : Generated(t, second)
    BY <1>2, Zenon
  <2> SUFFICES ASSUME NEW s \in hash'
               PROVE  (/\ tbs[s].page \in PPages
                       /\ <<s, 0>> \in pages[tbs[s].page]
                       /\ tbs[s].page2 # NoPage =>
                            /\ Page(tbs[s].pc) + 1 \in VPages
                            /\ tbs[s].page2 \in PPages
                            /\ <<s, 1>> \in pages[tbs[s].page2])'
    BY Zenon
  <2>2. CASE s = t
    <3>1. tbs'[s] = [pc |-> pc, page |-> map[Page(pc)], page2 |-> second]
      BY <2>1, <2>2, Zenon DEF Generated, Placed, Listed, Chained
    <3>2. map[Page(pc)] \in PPages
      BY CellFacts, Zenon
    <3> QED
      BY <2>1, <2>2, <3>1, <3>2, Zenon DEF Generated, Placed, Listed, Chained
  <2>3. CASE s # t
    <3>1. s \in hash /\ ~Full /\ s \in Slots
      BY <2>1, <2>3, Zenon DEF Generated, Placed, Listed, Chained
    <3>2. tbs'[s] = tbs[s]
      BY <2>1, <2>3, <3>1, Zenon DEF Generated, Placed, Listed, Chained
    <3>3. \A p \in PPages : pages[p] \subseteq pages'[p]
      BY <2>1, <3>1, Zenon DEF Generated, Placed, Listed, Chained
    <3> QED
      BY <3>1, <3>2, <3>3, Zenon
  <2> QED
    BY <2>2, <2>3, Zenon
<1>3. CASE Emptied
  BY <1>3, Zenon DEF Emptied
<1>4. CASE Aborted
  <2>1. \A s \in hash : s # nb
    BY <1>4, SlotFacts, SMTT(60) DEF SlotsInUse, Aborted
  <2>2. \A s \in hash : tbs'[s] = tbs[s]
    BY <1>4, <2>1, Zenon DEF Aborted
  <2> QED
    BY <1>4, <2>2, Zenon DEF Aborted
<1>5. CASE \E V \in SUBSET Slots, p \in PPages, offsets \in SUBSET Offsets :
            Invalidating(V, p, offsets)
  <2>1. PICK V \in SUBSET Slots, p \in PPages, offsets \in SUBSET Offsets :
          Invalidating(V, p, offsets)
    BY <1>5, Zenon
  <2>2. hash' = hash \ V /\ tbs' = tbs
    BY <2>1, Zenon DEF Invalidating, Invalidated, Removed, Stopping
  <2>3. \A q \in PPages, e \in Slots \X {0, 1} : e \in pages[q] /\ e[1] \notin V => e \in pages'[q]
    BY <2>1, Zenon DEF Invalidating, Invalidated, Removed, Stopping
  <2>4. \A s \in hash' : \A n \in {0, 1} :
          <<s, n>> \in Slots \X {0, 1} /\ <<s, n>>[1] \notin V
    BY <2>2, Zenon
  <2> QED
    BY <2>2, <2>3, <2>4, Zenon
<1>6. CASE UnlinkTb
  BY <1>6, Zenon DEF UnlinkTb
<1>7. CASE Remapped
  BY <1>7, Zenon DEF Remapped, TlbFlushPage, TlbFlush
<1>8. CASE Elsewhere
  BY <1>8, Zenon DEF Elsewhere
<1> HIDE <1>a, <1>b
<1> QED
  BY <1>1, <1>2, <1>3, <1>4, <1>5, <1>6, <1>7, <1>8, <1>k, Zenon DEF AnyKind

LEMMA BitmapStep == ASSUME CacheInv, [Next]_vars PROVE BitmapCoversCode'
<1>a. /\ SlotsInUse /\ ListMatchesCode /\ NoJumpToInvalid /\ JumpCacheIsCurrent
      /\ CodeIsProtected /\ HashedIsListed /\ BitmapCoversCode /\ FindableIsFresh
      /\ JumpKeepsPage /\ NextKeepsPage /\ RunningIsMapped /\ QuietIsReached
  BY Zenon DEF CacheInv
<1>k. AnyKind
  BY KindOfStep, Zenon DEF CacheInv
<1>b. /\ nb \in 0 .. MaxBlocks
      /\ tbs \in [Slots -> Blocks]
      /\ pages \in [PPages -> SUBSET (Slots \X {0, 1})]
      /\ bitmap \in [PPages -> (SUBSET Offsets) \cup {NoBitmap}]
      /\ pc \in VCells
      /\ map \in [VPages -> PPages]
  BY Zenon DEF CacheInv, TypeOK
<1> USE <1>a, <1>b DEF BitmapCoversCode, chains, memory, tables, cpu
<1>1. CASE \E t \in Slots : Reused(t)
  BY <1>1, SMTT(60) DEF Reused, Covered
<1>2. CASE \E t \in Slots, second \in PPages \cup {NoPage} :
            stage = "loop" /\ Generated(t, second)
  <2>1. PICK t \in Slots, second \in PPages \cup {NoPage} : Generated(t, second)
    BY <1>2, Zenon
  <2> SUFFICES ASSUME NEW p \in PPages, bitmap'[p] # NoBitmap, NEW e \in pages'[p]
               PROVE  Covered(e)' \subseteq bitmap'[p]
    BY Zenon
  <2>2. ~Full /\ bitmap'[p] = bitmap[p] /\ p # map[Page(pc)] /\ p # second /\ t = nb
    BY <2>1, Zenon DEF Generated, Placed, Listed, Chained
  <2>3. e \in pages[p]
    BY <2>1, <2>2, Zenon DEF Generated, Placed, Listed, Chained
  <2>4. e[1] \in Slots /\ e[1] # t
    BY <2>2, <2>3, SlotFacts, SMTT(60) DEF SlotsInUse
  <2>5. tbs'[e[1]] = tbs[e[1]]
    BY <2>1, <2>4, Zenon DEF Generated, Placed, Listed, Chained
  <2>6. Covered(e)' = Covered(e)
    BY <2>5, Zenon DEF Covered
  <2> QED
    BY <2>2, <2>3, <2>6, Zenon
<1>3. CASE Emptied
  BY <1>3, Zenon DEF Emptied
<1>4. CASE Aborted
  <2> SUFFICES ASSUME NEW p \in PPages, bitmap'[p] # NoBitmap, NEW e \in pages'[p]
               PROVE  Covered(e)' \subseteq bitmap'[p]
    BY Zenon
  <2>1. e \in pages[p] /\ bitmap'[p] = bitmap[p]
    BY <1>4, Zenon DEF Aborted
  <2>2. e[1] \in Slots /\ e[1] # nb
    BY <2>1, SlotFacts, SMTT(60) DEF SlotsInUse
  <2>3. tbs'[e[1]] = tbs[e[1]]
    BY <1>4, <2>2, Zenon DEF Aborted
  <2> QED
    BY <2>1, <2>3, Zenon DEF Covered
<1>5. CASE \E V \in SUBSET Slots, p \in PPages, offsets \in SUBSET Offsets :
            Invalidating(V, p, offsets)
  <2>1. PICK V \in SUBSET Slots, p \in PPages, offsets \in SUBSET Offsets :
          Invalidating(V, p, offsets)
    BY <1>5, Zenon
  <2>2. \A e : Covered(e)' = Covered(e)
    BY <2>1, Zenon DEF Invalidating, Invalidated, Removed, Stopping, Covered
  <2>3. \A q \in PPages : /\ pages'[q] \subseteq pages[q]
                          /\ \/ bitmap'[q] = NoBitmap \/ bitmap'[q] = bitmap[q]
                             \/ \A e \in pages[q] : Covered(e) \subseteq bitmap'[q]
    BY <2>1, Zenon DEF Invalidating, Invalidated, Removed, Stopping
  <2> QED
    BY <2>2, <2>3, Zenon
<1>6. CASE UnlinkTb
  BY <1>6, Zenon DEF UnlinkTb, Covered
<1>7. CASE Remapped
  BY <1>7, SMTT(60) DEF Remapped, TlbFlushPage, TlbFlush, Covered
<1>8. CASE Elsewhere
  BY <1>8, Zenon DEF Elsewhere, Covered
<1> HIDE <1>a, <1>b
<1> QED
  BY <1>1, <1>2, <1>3, <1>4, <1>5, <1>6, <1>7, <1>8, <1>k, Zenon DEF AnyKind

\* A cell of a findable TB is in a page that has code, and some entry of the list
\* of the page covers it.
LEMMA CellsAreListed ==
  ASSUME HashedIsListed, NEW s \in hash, NEW p, NEW o, <<p, o>> \in Cells(s)
  PROVE  p \in PPages /\ \E e \in pages[p] : e[1] = s /\ o \in Covered(e)
<1>1. CASE p = tbs[s].page /\ o = Offset(tbs[s].pc)
  <2>1. <<s, 0>> \in pages[p] /\ p \in PPages /\ o \in Covered(<<s, 0>>)
    BY <1>1, Zenon DEF HashedIsListed, Covered
  <2> QED
    BY <2>1, Zenon
<1>2. CASE tbs[s].page2 # NoPage /\ p = tbs[s].page2 /\ o = 0
  <2>1. <<s, 1>> \in pages[p] /\ p \in PPages /\ o \in Covered(<<s, 1>>)
    <3>1. Covered(<<s, 1>>) = {0}
      BY SMTT(60) DEF Covered
    <3> QED
      BY <1>2, <3>1, Zenon DEF HashedIsListed
  <2> QED
    BY <2>1, Zenon
<1> QED
  BY <1>1, <1>2, Zenon DEF Cells

LEMMA FreshStep == ASSUME CacheInv, [Next]_vars PROVE FindableIsFresh'
<1>a. /\ SlotsInUse /\ ListMatchesCode /\ NoJumpToInvalid /\ JumpCacheIsCurrent
      /\ CodeIsProtected /\ HashedIsListed /\ BitmapCoversCode /\ FindableIsFresh
      /\ JumpKeepsPage /\ NextKeepsPage /\ RunningIsMapped /\ QuietIsReached
  BY Zenon DEF CacheInv
<1>k. AnyKind
  BY KindOfStep, Zenon DEF CacheInv
<1>b. /\ nb \in 0 .. MaxBlocks
      /\ tbs \in [Slots -> Blocks]
      /\ hash \subseteq Slots
      /\ pages \in [PPages -> SUBSET (Slots \X {0, 1})]
      /\ stale \subseteq Slots
      /\ map \in [VPages -> PPages]
      /\ pc \in VCells
  BY Zenon DEF CacheInv, TypeOK
<1> USE <1>a, <1>b DEF FindableIsFresh, chains, memory, tables, cpu
<1>1. CASE \E t \in Slots : Reused(t)
  BY <1>1, Zenon DEF Reused
<1>2. CASE \E t \in Slots, second \in PPages \cup {NoPage} :
            stage = "loop" /\ Generated(t, second)
  BY <1>2, Zenon DEF Generated, Placed
<1>3. CASE Emptied
  BY <1>3, Zenon DEF Emptied
<1>4. CASE Aborted
  BY <1>4, Zenon DEF Aborted
<1>5. CASE \E V \in SUBSET Slots, p \in PPages, offsets \in SUBSET Offsets :
            Invalidating(V, p, offsets)
  <2>1. PICK V \in SUBSET Slots, p \in PPages, offsets \in SUBSET Offsets :
          Invalidating(V, p, offsets)
    BY <1>5, Zenon
  <2>2. /\ hash' = hash \ V
        /\ stale' = stale \cup {s \in hash : \E o \in offsets : <<p, o>> \in Cells(s)}
        /\ \A e \in pages[p] : Covered(e) \cap offsets # {} => e[1] \in V
    BY <2>1, Zenon DEF Invalidating, Invalidated, Removed, Written
  <2>3. ASSUME NEW s \in hash, NEW o \in offsets, <<p, o>> \in Cells(s) PROVE s \in V
    <3> PICK e \in pages[p] : e[1] = s /\ o \in Covered(e)
      BY <2>3, CellsAreListed, Zenon
    <3> QED
      BY <2>2, Zenon
  <2> QED
    BY <2>2, <2>3, Zenon
<1>6. CASE UnlinkTb
  BY <1>6, Zenon DEF UnlinkTb
<1>7. CASE Remapped
  BY <1>7, Zenon DEF Remapped, TlbFlushPage, TlbFlush
<1>8. CASE Elsewhere
  <2>1. CASE UNCHANGED stale
    BY <1>8, <2>1, Zenon DEF Elsewhere
  <2>2. ASSUME NEW p \in PPages, NEW offsets, Written(p, offsets),
               \A e \in pages[p], o \in offsets : o \notin Covered(e)
        PROVE  FindableIsFresh'
    <3>1. \A s \in hash, o \in offsets : <<p, o>> \notin Cells(s)
      BY <2>2, CellsAreListed, Zenon
    <3> QED
      BY <1>8, <2>2, <3>1, Zenon DEF Elsewhere, Written
  <2>3. CASE \E c \in VCells : StoreUnchecked(Page(c), Offset(c))
    <3> PICK c \in VCells : StoreUnchecked(Page(c), Offset(c))
      BY <2>3, Zenon
    <3>1. map[Page(c)] \in PPages /\ Page(c) \in VPages
      BY CellFacts, Zenon
    <3>2. pages[map[Page(c)]] = {}
      BY <3>1, Zenon DEF StoreUnchecked, WriteEntry, CodeIsProtected
    <3> QED
      BY <2>2, <3>1, <3>2, Zenon DEF StoreUnchecked
  <2>4. CASE \E c \in VCells : StoreBitmapClear(Page(c), Offset(c))
    <3> PICK c \in VCells : StoreBitmapClear(Page(c), Offset(c))
      BY <2>4, Zenon
    <3>1. map[Page(c)] \in PPages
      BY CellFacts, Zenon
    <3>2. \A e \in pages[map[Page(c)]] : Offset(c) \notin Covered(e)
      BY <3>1, Zenon DEF StoreBitmapClear, BitmapCoversCode
    <3> QED
      BY <2>2, <3>1, <3>2, Zenon DEF StoreBitmapClear
  <2>5. CASE \E p \in PPages, offsets \in DmaRanges : DmaWrite(p, offsets) /\ dirty[p]
    <3> PICK p \in PPages, offsets \in DmaRanges : DmaWrite(p, offsets) /\ dirty[p]
      BY <2>5, Zenon
    <3>1. pages[p] = {}
      BY Zenon DEF CodeIsProtected
    <3> QED
      BY <2>2, <3>1, Zenon DEF DmaWrite
  <2> QED
    BY <1>8, <2>1, <2>3, <2>4, <2>5, Zenon
    DEF Elsewhere, FindFault, DmaWriteTwice, Jump, ExitChainable, ExitOther, vars
<1> HIDE <1>a, <1>b
<1> QED
  BY <1>1, <1>2, <1>3, <1>4, <1>5, <1>6, <1>7, <1>8, <1>k, Zenon DEF AnyKind

LEMMA JumpPageStep == ASSUME CacheInv, [Next]_vars PROVE JumpKeepsPage'
<1>a. /\ SlotsInUse /\ ListMatchesCode /\ NoJumpToInvalid /\ JumpCacheIsCurrent
      /\ CodeIsProtected /\ HashedIsListed /\ BitmapCoversCode /\ FindableIsFresh
      /\ JumpKeepsPage /\ NextKeepsPage /\ RunningIsMapped /\ QuietIsReached
  BY Zenon DEF CacheInv
<1>k. AnyKind
  BY KindOfStep, Zenon DEF CacheInv
<1>b. /\ nb \in 0 .. MaxBlocks
      /\ tbs \in [Slots -> Blocks]
      /\ hash \subseteq Slots
      /\ jmp \in [Sources -> Slots \cup {NoTb}]
      /\ next \in Sources \cup {NoExit}
      /\ map \in [VPages -> PPages]
      /\ pc \in VCells
  BY Zenon DEF CacheInv, TypeOK
<1> USE <1>a, <1>b DEF JumpKeepsPage, chains, memory, tables, cpu
<1>1. CASE \E t \in Slots : Reused(t)
  <2>1. PICK t \in Slots : Reused(t)
    BY <1>1, Zenon
  <2> SUFFICES ASSUME NEW x \in Sources, jmp'[x] # NoTb
               PROVE  (/\ Page(tbs[jmp[x]].pc) = Page(tbs[x[1]].pc)
                       /\ tbs[jmp[x]].page = tbs[x[1]].page
                       /\ tbs[jmp[x]].page2 = NoPage)'
    BY Zenon
  <2>2. CASE jmp'[x] = jmp[x]
    BY <2>1, <2>2, Zenon DEF Reused
  <2>3. CASE x = next /\ tbs[t].page2 = NoPage /\ jmp'[x] = t
    BY <2>1, <2>3, SlotFacts, Zenon DEF Reused, NextKeepsPage, Mapped
  <2> QED
    BY <2>1, <2>2, <2>3, Zenon DEF Reused
<1>2. CASE \E t \in Slots, second \in PPages \cup {NoPage} :
            stage = "loop" /\ Generated(t, second)
  <2>1. PICK t \in Slots, second \in PPages \cup {NoPage} :
          stage = "loop" /\ Generated(t, second)
    BY <1>2, Zenon
  <2> SUFFICES ASSUME NEW x \in Sources, jmp'[x] # NoTb
               PROVE  (/\ Page(tbs[jmp[x]].pc) = Page(tbs[x[1]].pc)
                       /\ tbs[jmp[x]].page = tbs[x[1]].page
                       /\ tbs[jmp[x]].page2 = NoPage)'
    BY Zenon
  <2>2. x[1] \in Slots
    BY Zenon DEF Sources
  <2>3. CASE ~Full /\ jmp'[x] = jmp[x]
    <3>1. t = nb /\ jmp[x] \in Slots /\ jmp[x] # t /\ x[1] # t
      BY <2>1, <2>2, <2>3, SlotFacts, SMTT(60) DEF Generated, Placed, SlotsInUse
    <3>2. tbs'[jmp[x]] = tbs[jmp[x]] /\ tbs'[x[1]] = tbs[x[1]]
      BY <2>1, <2>2, <3>1, Zenon DEF Generated, Placed
    <3> QED
      BY <2>3, <3>2, Zenon
  <2>4. CASE ~Full /\ x = next /\ second = NoPage /\ jmp'[x] = t
    <3>1. next # NoExit
      BY <2>4, SlotFacts, Zenon
    <3>2. t = nb /\ x[1] # t
      BY <2>1, <2>2, <2>4, <3>1, SlotFacts, SMTT(60) DEF Generated, Placed, SlotsInUse
    <3>3. tbs'[x[1]] = tbs[x[1]]
      BY <2>1, <2>2, <3>2, Zenon DEF Generated, Placed
    <3>4. tbs'[t] = [pc |-> pc, page |-> map[Page(pc)], page2 |-> second]
      BY <2>1, Zenon DEF Generated, Placed
    <3> QED
      BY <2>1, <2>4, <3>1, <3>3, <3>4, SMTT(60) DEF NextKeepsPage
  <2> QED
    BY <2>1, <2>3, <2>4, Zenon DEF Generated, Placed, Chained
<1>3. CASE Emptied
  BY <1>3, Zenon DEF Emptied
<1>4. CASE Aborted
  <2> SUFFICES ASSUME NEW x \in Sources, jmp'[x] # NoTb
               PROVE  (/\ Page(tbs[jmp[x]].pc) = Page(tbs[x[1]].pc)
                       /\ tbs[jmp[x]].page = tbs[x[1]].page
                       /\ tbs[jmp[x]].page2 = NoPage)'
    BY Zenon
  <2>1. jmp'[x] = jmp[x] /\ jmp[x] \in Slots /\ x[1] \in Slots
    BY <1>4, Zenon DEF Aborted, Sources
  <2>2. jmp[x] # nb /\ x[1] # nb
    BY <2>1, SlotFacts, SMTT(60) DEF SlotsInUse
  <2>3. tbs'[jmp[x]] = tbs[jmp[x]] /\ tbs'[x[1]] = tbs[x[1]]
    BY <1>4, <2>1, <2>2, Zenon DEF Aborted
  <2> QED
    BY <2>1, <2>3, Zenon
<1>5. CASE \E V \in SUBSET Slots, p \in PPages, offsets \in SUBSET Offsets :
            Invalidating(V, p, offsets)
  BY <1>5 DEF Invalidating, Invalidated, Stopping, Unchain
<1>6. CASE UnlinkTb
  BY <1>6, Zenon DEF UnlinkTb
<1>7. CASE Remapped
  BY <1>7, Zenon DEF Remapped, TlbFlushPage, TlbFlush
<1>8. CASE Elsewhere
  BY <1>8, Zenon DEF Elsewhere
<1> HIDE <1>a, <1>b
<1> QED
  BY <1>1, <1>2, <1>3, <1>4, <1>5, <1>6, <1>7, <1>8, <1>k, Zenon DEF AnyKind

LEMMA NextPageStep == ASSUME CacheInv, [Next]_vars PROVE NextKeepsPage'
<1>a. /\ SlotsInUse /\ ListMatchesCode /\ NoJumpToInvalid /\ JumpCacheIsCurrent
      /\ CodeIsProtected /\ HashedIsListed /\ BitmapCoversCode /\ FindableIsFresh
      /\ JumpKeepsPage /\ NextKeepsPage /\ RunningIsMapped /\ QuietIsReached
  BY Zenon DEF CacheInv
<1>k. AnyKind
  BY KindOfStep, Zenon DEF CacheInv
<1>b. /\ nb \in 0 .. MaxBlocks
      /\ tbs \in [Slots -> Blocks]
      /\ next \in Sources \cup {NoExit}
      /\ pc \in VCells
      /\ cur \in Slots \cup {NoTb}
      /\ map \in [VPages -> PPages]
      /\ jmp \in [Sources -> Slots \cup {NoTb}]
  BY Zenon DEF CacheInv, TypeOK
<1> USE <1>a, <1>b DEF NextKeepsPage, chains, memory, tables, cpu
<1>1. CASE \E t \in Slots : Reused(t)
  BY <1>1, Zenon DEF Reused
<1>2. CASE \E t \in Slots, second \in PPages \cup {NoPage} :
            stage = "loop" /\ Generated(t, second)
  BY <1>2, Zenon DEF Generated, Placed
<1>3. CASE Emptied
  BY <1>3, Zenon DEF Emptied
<1>4. CASE Aborted
  BY <1>4, Zenon DEF Aborted
<1>5. CASE \E V \in SUBSET Slots, p \in PPages, offsets \in SUBSET Offsets :
            Invalidating(V, p, offsets)
  BY <1>5, Zenon DEF Invalidating, Invalidated, Stopping
<1>6. CASE UnlinkTb
  BY <1>6, Zenon DEF UnlinkTb
<1>7. CASE Remapped
  BY <1>7, Zenon DEF Remapped, TlbFlushPage, TlbFlush
<1>8. CASE Elsewhere
  <2>1. CASE \E n \in Exits : ExitChainable(n)
    <3> PICK n \in Exits : ExitChainable(n)
      BY <2>1, Zenon
    <3>1. tbs[cur].page = map[Page(tbs[cur].pc)]
      BY Zenon DEF ExitChainable, RunningIsMapped, Mapped
    <3>2. next' = <<cur, n>> /\ Page(pc') = Page(tbs[cur].pc) /\ tbs' = tbs /\ map' = map
      BY Zenon DEF ExitChainable
    <3> QED
      BY <3>1, <3>2, Zenon
  <2>2. CASE UNCHANGED <<tbs, map, pc, stage, next>> \/ next' = NoExit \/ stage' # "loop"
    BY <2>2, Zenon
  <2> QED
    BY <1>8, <2>1, <2>2, Zenon
    DEF Elsewhere, FindFault, StoreUnchecked, StoreBitmapClear, DmaWrite, DmaWriteTwice, Jump,
        ExitOther, vars
<1> HIDE <1>a, <1>b
<1> QED
  BY <1>1, <1>2, <1>3, <1>4, <1>5, <1>6, <1>7, <1>8, <1>k, Zenon DEF AnyKind

LEMMA RunningStep == ASSUME CacheInv, [Next]_vars PROVE RunningIsMapped'
<1>a. /\ SlotsInUse /\ ListMatchesCode /\ NoJumpToInvalid /\ JumpCacheIsCurrent
      /\ CodeIsProtected /\ HashedIsListed /\ BitmapCoversCode /\ FindableIsFresh
      /\ JumpKeepsPage /\ NextKeepsPage /\ RunningIsMapped /\ QuietIsReached
  BY Zenon DEF CacheInv
<1>k. AnyKind
  BY KindOfStep, Zenon DEF CacheInv
<1>b. /\ nb \in 0 .. MaxBlocks
      /\ tbs \in [Slots -> Blocks]
      /\ jmp \in [Sources -> Slots \cup {NoTb}]
      /\ cur \in Slots \cup {NoTb}
      /\ next \in Sources \cup {NoExit}
      /\ pc \in VCells
      /\ map \in [VPages -> PPages]
  BY Zenon DEF CacheInv, TypeOK
<1> USE <1>a, <1>b DEF RunningIsMapped, Mapped, chains, memory, tables, cpu
<1>1. CASE \E t \in Slots : Reused(t)
  BY <1>1, Zenon DEF Reused
<1>2. CASE \E t \in Slots, second \in PPages \cup {NoPage} :
            stage = "loop" /\ Generated(t, second)
  BY <1>2, SMTT(60) DEF Generated, Placed
<1>3. CASE Emptied
  BY <1>3, Zenon DEF Emptied
<1>4. CASE Aborted
  BY <1>4, Zenon DEF Aborted
<1>5. CASE \E V \in SUBSET Slots, p \in PPages, offsets \in SUBSET Offsets :
            Invalidating(V, p, offsets)
  BY <1>5, Zenon DEF Invalidating, Invalidated, Stopping
<1>6. CASE UnlinkTb
  BY <1>6, Zenon DEF UnlinkTb
<1>7. CASE Remapped
  BY <1>7, Zenon DEF Remapped, TlbFlushPage, TlbFlush
<1>8. CASE Elsewhere
  <2>1. CASE \E n \in Exits : Jump(n)
    <3> PICK n \in Exits : Jump(n)
      BY <2>1, Zenon
    <3>1. <<cur, n>> \in Sources /\ jmp[<<cur, n>>] # NoTb
      BY Zenon DEF Jump, SlotsInUse, Sources
    <3> DEFINE t == jmp[<<cur, n>>]
    <3>2. /\ Page(tbs[t].pc) = Page(tbs[cur].pc)
          /\ tbs[t].page = tbs[cur].page
          /\ tbs[t].page2 = NoPage
      BY <3>1, Zenon DEF JumpKeepsPage
    <3>3. tbs[cur].page = map[Page(tbs[cur].pc)]
      BY Zenon DEF Jump
    <3>4. cur' = t /\ pc' = tbs[t].pc /\ tbs' = tbs /\ map' = map
      BY Zenon DEF Jump
    <3> HIDE DEF t
    <3> QED
      BY <3>2, <3>3, <3>4, Zenon
  <2>2. CASE UNCHANGED <<tbs, map, pc, stage, cur>> \/ stage' # "exec"
    BY <2>2, Zenon
  <2> QED
    BY <1>8, <2>1, <2>2, Zenon
    DEF Elsewhere, FindFault, StoreUnchecked, StoreBitmapClear, DmaWrite, DmaWriteTwice,
        ExitChainable, ExitOther, vars
<1> HIDE <1>a, <1>b
<1> QED
  BY <1>1, <1>2, <1>3, <1>4, <1>5, <1>6, <1>7, <1>8, <1>k, Zenon DEF AnyKind

\* What tb_reset_jump_recursive reaches is closed under listed exits.
LEMMA ReachableIsClosed ==
  ASSUME NEW t, NEW x \in Sources, x[1] \in Reachable(t), list[x] # NoTb, list[x] \in Slots
  PROVE  list[x] \in Reachable(t)
<1>1. ASSUME NEW C \in SUBSET Slots, t \in C, Closed(C) PROVE list[x] \in C
  <2>1. x[1] \in C
    BY <1>1, Zenon DEF Reachable
  <2> QED
    BY <1>1, <2>1, Zenon DEF Closed
<1> QED
  BY <1>1, Zenon DEF Reachable

LEMMA QuietStep == ASSUME CacheInv, [Next]_vars PROVE QuietIsReached'
<1>a. /\ SlotsInUse /\ ListMatchesCode /\ NoJumpToInvalid /\ JumpCacheIsCurrent
      /\ CodeIsProtected /\ HashedIsListed /\ BitmapCoversCode /\ FindableIsFresh
      /\ JumpKeepsPage /\ NextKeepsPage /\ RunningIsMapped /\ QuietIsReached
  BY Zenon DEF CacheInv
<1>k. AnyKind
  BY KindOfStep, Zenon DEF CacheInv
<1>b. /\ nb \in 0 .. MaxBlocks
      /\ hash \subseteq Slots
      /\ jmp \in [Sources -> Slots \cup {NoTb}]
      /\ list \in [Sources -> Slots \cup {NoTb}]
      /\ cur \in Slots \cup {NoTb}
      /\ current \in Slots \cup {NoTb}
      /\ next \in Sources \cup {NoExit}
  BY Zenon DEF CacheInv, TypeOK
<1> USE <1>a, <1>b DEF QuietIsReached, chains, memory, tables, cpu
<1>1. CASE \E t \in Slots : Reused(t)
  <2>1. cur' \in Slots /\ cur' \in hash' /\ current' = cur' /\ current' # NoTb
    BY <1>1, SlotFacts, SMTT(60) DEF Reused
  <2>2. cur' \in Reachable(current)'
    BY <2>1, Zenon DEF Reachable
  <2> QED
    BY <2>1, <2>2, Zenon
<1>2. CASE \E t \in Slots, second \in PPages \cup {NoPage} :
            stage = "loop" /\ Generated(t, second)
  <2>1. cur' \in Slots /\ cur' \in hash' /\ current' = cur' /\ current' # NoTb
    BY <1>2, SlotFacts, Zenon DEF Generated, Placed
  <2>2. cur' \in Reachable(current)'
    BY <2>1, Zenon DEF Reachable
  <2> QED
    BY <2>1, <2>2, Zenon
<1>3. CASE Emptied
  BY <1>3, Zenon DEF Emptied
<1>4. CASE Aborted
  BY <1>4, Zenon DEF Aborted
<1>5. CASE \E V \in SUBSET Slots, p \in PPages, offsets \in SUBSET Offsets :
            Invalidating(V, p, offsets)
  <2>1. PICK V \in SUBSET Slots, p \in PPages, offsets \in SUBSET Offsets :
          Invalidating(V, p, offsets)
    BY <1>5, Zenon
  <2>2. CASE quiet'
    <3>1. quiet /\ V = {}
      BY <2>1, <2>2, Zenon DEF Invalidating, Invalidated, Stopping
    <3>2. list' = list /\ jmp' = jmp
      BY <2>1, <3>1, Zenon DEF Invalidating, Invalidated, Unchain
    <3>3. hash' = hash /\ stage' = stage /\ cur' = cur /\ current' = current
      BY <2>1, <3>1, Zenon DEF Invalidating, Invalidated, Removed
    <3>4. Reachable(current)' = Reachable(current)
      BY <3>2, <3>3, Zenon DEF Reachable, Closed
    <3> QED
      BY <3>1, <3>2, <3>3, <3>4, Zenon
  <2>3. CASE ~quiet'
    BY <2>3, Zenon
  <2> QED
    BY <2>2, <2>3, Zenon
<1>6. CASE UnlinkTb
  <2> SUFFICES ASSUME quiet
               PROVE  cur \in hash /\ \A n \in Exits : jmp'[<<cur, n>>] = NoTb
    BY <1>6, Zenon DEF UnlinkTb
  <2>1. cur \in hash /\ cur \in Reachable(current) /\ cur \in Slots
    BY <1>6, Zenon DEF UnlinkTb
  <2>2. ASSUME NEW n \in Exits PROVE jmp'[<<cur, n>>] = NoTb
    <3> DEFINE x == <<cur, n>>
    <3>1. x \in Sources /\ x[1] = cur
      BY <2>1, Zenon DEF Sources
    <3>2. jmp[x] # NoTb => list[x] # NoTb
      BY <2>1, <3>1, Zenon DEF NoJumpToInvalid
    <3> HIDE DEF x
    <3>3. jmp'[x] = IF x[1] \in Reachable(current) /\ list[x] # NoTb THEN NoTb ELSE jmp[x]
      BY <1>6, <3>1, Zenon DEF UnlinkTb
    <3>4. jmp'[x] = NoTb
      BY <2>1, <3>1, <3>2, <3>3, Zenon
    <3> QED
      BY <3>4, Zenon DEF x
  <2> QED
    BY <2>1, <2>2, Zenon
<1>7. CASE Remapped
  BY <1>7, Zenon DEF Remapped, TlbFlushPage, TlbFlush
<1>8. CASE Elsewhere
  <2>1. CASE \E n \in Exits : Jump(n)
    <3> SUFFICES ASSUME quiet
                 PROVE  cur' \in hash /\ current # NoTb /\ cur' \in Reachable(current)
      <4>1. Reachable(current)' = Reachable(current) /\ hash' = hash /\ current' = current
                /\ quiet' = quiet
        BY <1>8, <2>1, Zenon DEF Elsewhere, Jump, Reachable, Closed
      <4> QED
        BY <4>1, Zenon
    <3> PICK n \in Exits : Jump(n)
      BY <2>1, Zenon
    <3> DEFINE x == <<cur, n>>
    <3>1. cur \in hash /\ jmp[x] # NoTb /\ cur' = jmp[x] /\ x \in Sources /\ x[1] = cur
      BY Zenon DEF Jump, SlotsInUse, Sources
    <3>2. current # NoTb
      BY <3>1, Zenon DEF Jump
    <3> HIDE DEF x
    <3>3. jmp[x] \in hash /\ list[x] = jmp[x] /\ list[x] \in Slots
      BY <3>1, Zenon DEF NoJumpToInvalid
    <3>4. x[1] \in Reachable(current)
      BY <3>1, <3>2, <2>1, Zenon DEF Jump
    <3> QED
      BY <3>1, <3>2, <3>3, <3>4, ReachableIsClosed, Zenon
  <2>2. CASE UNCHANGED <<stage, quiet, cur, current>> \/ stage' # "exec"
    <3>1. Reachable(current)' = Reachable(current) \/ current' # current
      BY <1>8 DEF Elsewhere, Reachable, Closed
    <3> QED
      BY <1>8, <2>2, <3>1, Zenon DEF Elsewhere
  <2> QED
    BY <1>8, <2>1, <2>2, Zenon
    DEF Elsewhere, FindFault, StoreUnchecked, StoreBitmapClear, DmaWrite, DmaWriteTwice,
        ExitChainable, ExitOther, vars
<1> HIDE <1>a, <1>b
<1> QED
  BY <1>1, <1>2, <1>3, <1>4, <1>5, <1>6, <1>7, <1>8, <1>k, Zenon DEF AnyKind

-----------------------------------------------------------------------------
\* The theorems about the cache.

\* Every behaviour of the cache keeps the inductive invariant.
THEOREM CacheInvariant == Spec => []CacheInv
<1>1. Init => CacheInv
  <2> SUFFICES ASSUME Init PROVE CacheInv
    BY Zenon
  <2>1. TypeOK
    <3>1. nb \in 0 .. MaxBlocks /\ writes \in [PPages -> 0 .. Threshold]
      BY CacheAssumption DEF Init
    <3>2. tbs \in [Slots -> Blocks]
      BY NoBlockType, Zenon DEF Init
    <3> QED
      BY <3>1, <3>2, CacheAssumption, Zenon DEF Init, TypeOK
  <2>2. SlotsInUse /\ ListMatchesCode /\ NoJumpToInvalid /\ JumpCacheIsCurrent /\ CodeIsProtected
    BY Zenon DEF Init, SlotsInUse, ListMatchesCode, NoJumpToInvalid, JumpCacheIsCurrent, CodeIsProtected
  <2>3. HashedIsListed /\ BitmapCoversCode /\ FindableIsFresh /\ JumpKeepsPage
    BY Zenon DEF Init, HashedIsListed, BitmapCoversCode, FindableIsFresh, JumpKeepsPage
  <2>4. NextKeepsPage /\ RunningIsMapped /\ QuietIsReached
    BY Zenon DEF Init, NextKeepsPage, RunningIsMapped, QuietIsReached
  <2> QED
    BY <2>1, <2>2, <2>3, <2>4, Zenon DEF CacheInv
<1>2. CacheInv /\ [Next]_vars => CacheInv'
  <2> SUFFICES ASSUME CacheInv, [Next]_vars PROVE CacheInv'
    BY Zenon
  <2>1. TypeOK'
    BY TypeStep, Zenon DEF CacheInv
  <2> QED
    BY <2>1, SlotsStep, ListStep, NoJumpStep, JumpCacheStep, ProtectStep, ListedStep, BitmapStep,
       FreshStep, JumpPageStep, NextPageStep, RunningStep, QuietStep, Zenon DEF CacheInv
<1> QED
  BY <1>1, <1>2, PTL DEF Spec

\* No store, device write, flush or reuse of a slot leaves a TB in the hash table
\* that differs from the guest's memory (exec.c tb_invalidate_phys_page_range,
\* notdirty_mem_write).
THEOREM FindableStaysFresh == Spec => []FindableIsFresh
  BY CacheInvariant, PTL DEF CacheInv

\* Pages with code stay write-protected under every alias (exec.c tlb_protect_code,
\* tlb_set_dirty).
THEOREM CodeStaysProtected == Spec => []CodeIsProtected
  BY CacheInvariant, PTL DEF CacheInv

\* The jump cache never survives the mapping or the TB it was filled for (exec.c
\* tlb_flush_jmp_cache, tb_phys_invalidate).
THEOREM JumpCacheStaysCurrent == Spec => []JumpCacheIsCurrent
  BY CacheInvariant, PTL DEF CacheInv

\* Whatever runs is the code at pc under the current page table, also through
\* chains of any length and out of TBs that were invalidated (cpu-exec.c
\* cpu_exec, exec-all.h tb_add_jump).
THEOREM RunningStaysMapped == Spec => []RunningIsMapped
  BY CacheInvariant, PTL DEF CacheInv

\* The list an exit is on is that of the TB it jumps to, as
\* tb_reset_jump_recursive2 is "now sure" (exec.c).
THEOREM ListsMatchCode == Spec => []ListMatchesCode
  BY CacheInvariant, PTL DEF CacheInv

\* A findable TB never jumps into an invalidated one (exec.c tb_phys_invalidate,
\* tb_jmp_remove).
THEOREM NoDanglingJump == Spec => []NoJumpToInvalid
  BY CacheInvariant, PTL DEF CacheInv

\* cpu_unlink_tb stops the CPU at its next exit unless a TB was invalidated since
\* the loop was left, however long the chain it is in (exec.c cpu_unlink_tb).
THEOREM UnlinkReachesTheCpu == Spec => []UnlinkStopsQuietCpu
<1>1. CacheInv => UnlinkStopsQuietCpu
  BY Zenon DEF CacheInv, QuietIsReached, UnlinkStopsQuietCpu
<1> QED
  BY <1>1, CacheInvariant, PTL

-----------------------------------------------------------------------------
\* The cycles that the loop charges.

LEMMA ChargingStepIsCacheStep == [ChargingNext]_allVars => [Next]_vars
<1> SUFFICES ASSUME [ChargingNext]_allVars PROVE [Next]_vars
  BY Zenon
<1>1. CASE StartFound \/ StartTranslated
  BY <1>1, Zenon DEF StartFound, StartTranslated, Next
<1>2. CASE \E c \in VCells : TranslationFaults(c) \/ FaultInBlock(c)
  BY <1>2, Zenon DEF TranslationFaults, FaultInBlock, Next
<1>3. CASE \E n \in Exits : StartChained(n)
  BY <1>3, Zenon DEF StartChained, Next
<1>4. CASE Uncharged
  BY <1>4, Zenon DEF Uncharged, Next
<1>5. CASE UNCHANGED allVars
  BY <1>5, Zenon DEF allVars
<1> QED
  BY <1>1, <1>2, <1>3, <1>4, <1>5, Zenon DEF ChargingNext

\* Counting cycles changes nothing of what the cache does: what holds of the cache
\* holds of the cache with the counters (qemu-variability.c).
THEOREM ChargingImplementsCache == ChargingSpec => Spec
<1>1. ChargingInit => Init
  BY Zenon DEF ChargingInit
<1> QED
  BY <1>1, ChargingStepIsCacheStep, PTL DEF ChargingSpec, Spec

ChargingInv == CacheInv /\ ChargingTypeOK /\ CountCoversCode

\* A step that leaves the counters alone and puts no TB into the hash table.
LEMMA UncountedStep ==
  ASSUME CountCoversCode, count' = count, hash' \subseteq hash, \A s \in hash' : tbs'[s] = tbs[s]
  PROVE  CountCoversCode'
  BY Zenon DEF CountCoversCode

LEMMA CountStep ==
  ASSUME ChargingInv, [ChargingNext]_allVars
  PROVE  ChargingTypeOK' /\ CountCoversCode'
<1> USE DEF ChargingInv, CacheInv
<1>1. CASE StartFound
  <2>1. hash' = hash /\ tbs' = tbs /\ count' = count
    BY <1>1, Zenon DEF StartFound, FindFast, FindSlow, tables
  <2>2. cur' \in Slots
    BY <1>1, TypeStep, ChargingStepIsCacheStep, Zenon DEF StartFound, FindFast, FindSlow, Enter, TypeOK
  <2>3. ChargingTypeOK'
    <3>1. tbs[cur'].pc \in VCells
      BY <2>2, Zenon DEF TypeOK, Blocks
    <3>2. Cost[tbs[cur'].pc] \in Nat /\ count[cur'] \in Nat
      BY <2>2, <3>1, CostAssumption, MaxCyclesAssumption DEF ChargingTypeOK
    <3> QED
      BY <1>1, <3>2, MaxCyclesAssumption, SMTT(60) DEF StartFound, Charged, Started, Bounded, ChargingTypeOK
  <2> QED
    BY <2>1, <2>3, UncountedStep, Zenon
<1>2. CASE StartTranslated
  <2>1. PICK t \in Slots, second \in PPages \cup {NoPage} : Generated(t, second)
    <3> PICK spans \in BOOLEAN : (spans => CanSpan) /\ GenCode(spans)
      BY <1>2, Zenon DEF StartTranslated, FindGen
    <3> QED
      BY GenEffect, Zenon
  <2>2. /\ cur' = t /\ tbs'[t].pc = pc /\ pc \in VCells
        /\ \A s \in hash' : s = t \/ (s \in hash /\ s # t /\ tbs'[s] = tbs[s])
    BY <2>1, SlotFacts, Zenon DEF Generated, Placed, Listed, Chained, TypeOK, SlotsInUse
  <2>3. Cost[pc] \in Nat /\ \A s \in Slots : count[s] \in Nat
    BY <2>2, CostAssumption, MaxCyclesAssumption, SMTT(60) DEF ChargingTypeOK
  <2>4. count' = [count EXCEPT ![t] = @ + Cost[pc]]
    BY <1>2, <2>2, Zenon DEF StartTranslated, Translated
  <2>5. count'[t] = count[t] + Cost[pc] /\ \A s \in Slots \ {t} : count'[s] = count[s]
    BY <2>4, Zenon DEF ChargingTypeOK
  <2>6. ChargingTypeOK'
    BY <1>2, <2>2, <2>3, <2>4, <2>5, MaxCyclesAssumption, SMTT(60)
    DEF StartTranslated, Charged, Started, Bounded, ChargingTypeOK
  <2>7. CountCoversCode'
    <3> SUFFICES ASSUME NEW s \in hash' PROVE count'[s] >= Cost[tbs'[s].pc]
      BY Zenon DEF CountCoversCode
    <3>1. CASE s = t
      BY <2>2, <2>3, <2>5, <3>1, SMTT(60)
    <3>2. CASE s # t
      BY <2>2, <2>5, <3>2, Zenon DEF CountCoversCode, TypeOK
    <3> QED
      BY <3>1, <3>2, Zenon
  <2> QED
    BY <2>6, <2>7, Zenon
<1>3. CASE \E c \in VCells : TranslationFaults(c)
  <2>1. PICK c \in VCells : TranslationFaults(c)
    BY <1>3, Zenon
  <2>2. PICK part \in 0 .. Cost[pc] : count' = [count EXCEPT ![Slot] = @ + part]
    BY <2>1, Zenon DEF TranslationFaults
  <2>3. part \in Nat
    BY <2>2, CostAssumption DEF TypeOK
  <2>4. \A s \in Slots : count[s] \in Nat /\ count'[s] \in Nat /\ count'[s] >= count[s]
    BY <2>2, <2>3, MaxCyclesAssumption, SMTT(60) DEF ChargingTypeOK
  <2>5. ChargingTypeOK'
    <3>1. \A s \in Slots : count'[s] <= MaxCycles
      BY <2>1, Zenon DEF TranslationFaults, Bounded
    <3>2. \A s \in Slots : count'[s] \in 0 .. MaxCycles
      BY <3>1, <2>4, MaxCyclesAssumption
    <3>3. count' \in [Slots -> 0 .. MaxCycles]
      BY <2>2, <3>2, Zenon DEF ChargingTypeOK
    <3> QED
      BY <2>1, <3>3, Zenon DEF TranslationFaults, ChargingTypeOK
  <2>6. \A s \in hash' : s \in hash /\ s \in Slots /\ tbs'[s] = tbs[s]
    <3>1. CASE Full
      BY <2>1, <3>1, Zenon DEF TranslationFaults, GenFault
    <3>2. CASE ~Full
      BY <2>1, <3>2, SlotIsFree, SlotFacts, SMTT(60) DEF TranslationFaults, GenFault, TypeOK, SlotsInUse
    <3> QED
      BY <3>1, <3>2, Zenon
  <2>7. \A s \in hash : Cost[tbs[s].pc] \in Nat
    BY CostAssumption, Zenon DEF TypeOK, Blocks
  <2>8. CountCoversCode'
    BY <2>4, <2>6, <2>7, SMTT(60) DEF CountCoversCode
  <2> QED
    BY <2>5, <2>8, Zenon
<1>4. CASE \E n \in Exits : StartChained(n)
  <2>1. PICK n \in Exits : StartChained(n)
    BY <1>4, Zenon
  <2>2. hash' = hash /\ tbs' = tbs /\ count' = count
    BY <2>1, Zenon DEF StartChained, Jump, tables
  <2>3. cur' \in Slots
    BY <2>1, Zenon DEF StartChained, Jump, TypeOK, SlotsInUse, Sources
  <2>4. Cost[tbs[cur'].pc] \in Nat
    BY <2>3, CostAssumption, Zenon DEF TypeOK, Blocks
  <2>5. ChargingTypeOK'
    BY <2>1, <2>4, MaxCyclesAssumption DEF StartChained, Started, Bounded, ChargingTypeOK
  <2> QED
    BY <2>2, <2>5, UncountedStep, Zenon
<1>5. CASE \E c \in VCells : FaultInBlock(c)
  <2>1. PICK c \in VCells : FaultInBlock(c)
    BY <1>5, Zenon
  <2>2. hash' = hash /\ tbs' = tbs /\ cur \in Slots
    BY <2>1, Zenon DEF FaultInBlock, ExitOther, tables, SlotsInUse
  <2>3. count' = [count EXCEPT ![cur] = @ + Cost[tbs[cur].pc]]
    BY <2>1, Zenon DEF FaultInBlock, Translated
  <2>4. \A s \in Slots : Cost[tbs[s].pc] \in Nat
    BY CostAssumption, Zenon DEF TypeOK, Blocks
  <2>5. \A s \in Slots : count[s] \in Nat /\ count'[s] \in Nat /\ count'[s] >= count[s]
    BY <2>2, <2>3, <2>4, MaxCyclesAssumption, SMTT(60) DEF ChargingTypeOK
  <2>6. ChargingTypeOK'
    <3>1. \A s \in Slots : count'[s] <= MaxCycles
      BY <2>1, Zenon DEF FaultInBlock, Bounded
    <3>2. \A s \in Slots : count'[s] \in 0 .. MaxCycles
      BY <3>1, <2>5, MaxCyclesAssumption, SMTT(60)
    <3>3. count' \in [Slots -> 0 .. MaxCycles]
      BY <2>3, <3>2, Zenon DEF ChargingTypeOK
    <3> QED
      BY <2>1, <3>3, Zenon DEF FaultInBlock, ChargingTypeOK
  <2>7. CountCoversCode'
    BY <2>2, <2>4, <2>5, SMTT(60) DEF CountCoversCode, TypeOK
  <2> QED
    BY <2>6, <2>7, Zenon
<1>6. CASE Uncharged
  <2>1. UNCHANGED chargeVars /\ hash' \subseteq hash /\ tbs' = tbs
    BY <1>6, ZenonT(60) DEF Uncharged, FindFault, TbFlush, StoreUnchecked, StoreBitmapClear, StoreInvalidate,
                InvalidateRange, DmaWrite, ExitChainable, ExitOther, UnlinkTb, TlbFlushPage,
                TlbFlush, tables
  <2> QED
    BY <2>1, UncountedStep, Zenon DEF ChargingTypeOK, chargeVars
<1>7. CASE UNCHANGED allVars
  BY <1>7, Zenon DEF allVars, vars, chargeVars, ChargingTypeOK, CountCoversCode
<1> QED
  BY <1>1, <1>2, <1>3, <1>4, <1>5, <1>6, <1>7, Zenon DEF ChargingNext

LEMMA ChargingInvariant == ChargingSpec => []ChargingInv
<1>1. ChargingInit => ChargingTypeOK /\ CountCoversCode
  BY MaxCyclesAssumption DEF ChargingInit, Init, ChargingTypeOK, CountCoversCode
<1>2. CacheInv /\ (ChargingTypeOK /\ CountCoversCode) /\ [ChargingNext]_allVars
        => (ChargingTypeOK /\ CountCoversCode)'
  BY CountStep, Zenon DEF ChargingInv
<1>3. ChargingSpec => []CacheInv
  BY ChargingImplementsCache, CacheInvariant, PTL
<1> QED
  BY <1>1, <1>2, <1>3, PTL DEF ChargingSpec, ChargingInv

\* The counter of a findable TB covers its instructions, however its slot was used
\* before (target-arm/translate.c variability_counters_manip, exec.c tb_alloc).
THEOREM CountStaysEnough == ChargingSpec => []CountCoversCode
  BY ChargingInvariant, PTL DEF ChargingInv

\* Every block the loop starts is charged in full (cpu-exec.c cpu_exec,
\* qemu-variability.c increment_cycle_counters).
THEOREM LoopCharges == ChargingSpec => LoopStartIsCharged
<1>1. ChargingInv /\ ChargingInv' /\ [ChargingNext]_allVars
        => [stage = "loop" /\ stage' = "exec" => total' - total >= Cost[tbs'[cur'].pc]]_allVars
  <2> SUFFICES ASSUME ChargingInv, ChargingInv', ChargingNext, stage = "loop", stage' = "exec"
               PROVE  total' - total >= Cost[tbs'[cur'].pc]
    BY Zenon
  <2> USE DEF ChargingInv, CacheInv
  <2>1. cur' \in Slots /\ Cost[tbs'[cur'].pc] \in Nat
    BY CostAssumption, Zenon DEF TypeOK, Blocks, SlotsInUse
  <2>2. cur' \in hash' => count'[cur'] >= Cost[tbs'[cur'].pc] /\ count'[cur'] \in Nat
    <3>1. count' \in [Slots -> 0 .. MaxCycles]
      BY Zenon DEF ChargingTypeOK
    <3>2. count'[cur'] \in Nat
      BY <2>1, <3>1, MaxCyclesAssumption, SMTT(60)
    <3> QED
      BY <3>2, Zenon DEF CountCoversCode
  <2>3. total \in Nat
    BY MaxCyclesAssumption, SMTT(60) DEF ChargingTypeOK
  <2>4. CASE StartFound
    <3>1. cur' \in hash'
      BY <2>4, Zenon DEF StartFound, FindFast, FindSlow, Enter, Found, JumpCacheIsCurrent, TypeOK, tables
    <3>2. total' = total + count'[cur']
      BY <2>4, Zenon DEF StartFound, Charged
    <3> QED
      BY <2>1, <2>2, <2>3, <3>1, <3>2, SMTT(60)
  <2>5. CASE StartTranslated
    <3>1. cur' \in hash'
      BY <2>5, Zenon DEF StartTranslated, FindGen, GenCode, Enter
    <3>2. total' = total + count'[cur']
      BY <2>5, Zenon DEF StartTranslated, Charged
    <3> QED
      BY <2>1, <2>2, <2>3, <3>1, <3>2
  <2>6. CASE \/ \E c \in VCells : TranslationFaults(c) \/ FaultInBlock(c)
             \/ \E n \in Exits : StartChained(n)
    BY <2>6, Zenon DEF TranslationFaults, GenFault, FaultInBlock, ExitOther, StartChained, Jump
  <2>7. CASE Uncharged
    BY <2>7, Zenon DEF Uncharged, FindFault, TbFlush, StoreUnchecked, StoreBitmapClear, StoreInvalidate,
                DmaWrite, ExitChainable, ExitOther, UnlinkTb, TlbFlushPage, TlbFlush, cpu
  <2> QED
    BY <2>4, <2>5, <2>6, <2>7, Zenon DEF ChargingNext
<1> QED
  BY <1>1, ChargingInvariant, PTL DEF ChargingSpec, LoopStartIsCharged
=============================================================================
