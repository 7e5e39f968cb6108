-------------------------------- MODULE Qed ---------------------------------
(***************************************************************************)
(* The QED image format: guest requests that allocate clusters in an image *)
(* file, step by step and several at a time, the cache of L2 tables, the   *)
(* "need check" mark and the timer that takes it back, and crashes of the  *)
(* host between any two steps.                                             *)
(*                                                                         *)
(*   block/qed.c           requests, allocation, the mark, open and close  *)
(*   block/qed-cluster.c   looking up a position                           *)
(*   block/qed-table.c     reading and writing tables                      *)
(*   block/qed-l2-cache.c  cached L2 tables                                *)
(*   block/qed-check.c     the check and repair at open                    *)
(*                                                                         *)
(* Positions are in sectors, offsets in clusters: cluster 0 holds the      *)
(* header, cluster 1 the L1 table, 0 as an offset means unallocated.  A    *)
(* table lies in one sector.  A step of a request runs from one completed  *)
(* access to the file to the start of the next; the access takes effect    *)
(* when it completes, which a crash cannot tell from just before.          *)
(***************************************************************************)
EXTENDS Integers, Sequences, FiniteSets, FiniteSetsExt

CONSTANTS
  L1Size, L2Size,  \* entries of the tables
  Sects,           \* sectors of a cluster
  CacheSize,       \* MAX_L2_CACHE_SIZE
  Reqs,            \* QEDAIOCBs
  Images,          \* the images at first: <<whether there is a backing file, the
                   \* cache= option, how many empty L2 tables there are>>
  Extents,         \* what requests there are: <<read or write, first sector, one
                   \* after the last>>
  MaxRequests,     \* bound: requests of a run, each fault taking the place of one
  MaxCrashes,      \* bound: crashes of the host
  MaxErrors,       \* bound: accesses to the file that fail
  None

ASSUME SizeAssumption == {L1Size, L2Size, Sects, CacheSize} \subseteq Nat \ {0}

ASSUME RequestAssumption == IsFiniteSet(Reqs) /\ None \notin Nat

VARIABLES
  now, kept,   \* the file: its contents, and what a crash may leave of those
               \* written since the last flush
  backing,     \* bs->backing_hd
  cacheMode,   \* the cache= option of the drive
  up,          \* whether the image is open
  need,        \* QED_F_NEED_CHECK in s->header.features
  l1,          \* s->l1_table
  fileSize,    \* s->file_size
  queue,       \* s->allocating_write_reqs
  plugged,     \* s->allocating_write_reqs_plugged
  timer,       \* s->need_check_timer is running
  clearing,    \* what its callback waits for
  cache,       \* s->l2_cache.entries
  entry,       \* the CachedL2Tables
  req,         \* the requests
  left,        \* what the bounds still allow
  done, safe,  \* history: the last completed write of each sector, and what
               \* may be read of it after a crash
  failed, markLost, evicted
               \* history: an access failed; a crash lost the mark; a table
               \* left the cache while a request was using it

disk == <<now, kept>>
mode == <<backing, cacheMode>>
alloc == <<need, l1, fileSize, queue, plugged, timer, clearing>>
l2s == <<cache, entry>>
hist == <<done, safe, failed, markLost, evicted>>
vars == <<disk, mode, up, alloc, l2s, req, left, hist>>

MaxCluster == 1 + L1Size + 2 * MaxRequests
Clusters == 2 .. MaxCluster
Positions == 0 .. L1Size * L2Size * Sects - 1
Entries == 1 .. CacheSize + Cardinality(Reqs) + 1

-----------------------------------------------------------------------------
\* The file

Header == <<"header", 0, 0>>
L1Table == <<"l1", 0, 0>>
Length == <<"length", 0, 0>>
L2Table(c) == <<"l2", c, 0>>
Data(c, i) == <<"data", c, i>>

Places ==
  {Header, L1Table, Length} \cup {L2Table(c) : c \in Clusters}
    \cup {Data(c, i) : c \in Clusters, i \in 0 .. Sects - 1}

EmptyTable == [i \in 0 .. L2Size - 1 |-> 0]

\* The contents of a cluster that was never written; guest data are numbers
Blank(x) == IF x[1] = "l2" THEN EmptyTable ELSE 0

\* What a crash may leave at x
Kept(x) == IF x \in DOMAIN kept THEN kept[x] ELSE {now[x]}

\* bdrv_aio_writev on bs->file: in cache=writethrough it is on the disk when
\* it completes, in cache=writeback a crash may or may not keep it
Write(contents) ==
  LET places == DOMAIN contents
      end == Max({1} \cup {x[2] : x \in places}) + 1
  IN  /\ now' = [x \in Places |->
           IF x \in places THEN contents[x]
           ELSE IF x = Length /\ end > now[x] THEN end
           ELSE now[x]]
      /\ kept' = [x \in DOMAIN kept \cup
                      {y \in Places : cacheMode = "writeback" /\ now'[y] # now[y]} |->
                    Kept(x) \cup {now'[x]}]

\* bdrv_aio_flush on bs->file
Sync == kept' = <<>> /\ UNCHANGED now

\* A fault that the bounds allow
Fault(kind) ==
  /\ left[kind] > 0 /\ left.requests > 0
  /\ left' = [left EXCEPT ![kind] = @ - 1, !.requests = @ - 1]

-----------------------------------------------------------------------------
\* Looking up a position

Cluster(p) == p \div Sects
qed_l1_index(p) == Cluster(p) \div L2Size
qed_l2_index(p) == Cluster(p) % L2Size
qed_offset_into_cluster(p) == p % Sects

\* The code divides by the size of a cluster in bytes less one, which gives the
\* same up to that many clusters; here sizes are far below
qed_bytes_to_clusters(n) == (n + Sects - 1) \div Sects

\* What a reader finds at p through these tables in a file of this size; a
\* sector that is in no cluster reads as the backing file, or as zero
Unallocated == IF backing THEN -1 ELSE 0

View(l1table, l2table(_), size, p) ==
  LET t == l1table[qed_l1_index(p)]
      c == IF t = 0 \/ t >= size THEN 0 ELSE l2table(t)[qed_l2_index(p)]
  IN  IF c = 0 \/ c >= size THEN Unallocated
      ELSE now[Data(c, qed_offset_into_cluster(p))]

\* qed_find_cluster: the request stops at the end of its L2 table
Room(q) == Min({q.to - q.cur, (qed_l1_index(q.cur) + 1) * L2Size * Sects - q.cur})

\* qed_count_contiguous_clusters
Contiguous(tab, i, n) ==
  Max({m \in 1 .. n : i + m <= L2Size /\ \A k \in 1 .. m - 1 :
         tab[i + k] = IF tab[i] = 0 THEN 0 ELSE tab[i] + k})

\* The clusters and sectors of the file that the current part of a request
\* is written to
DataPlaces(q) ==
  {Data(q.cluster + Cluster(k), k % Sects) :
     k \in qed_offset_into_cluster(q.cur) .. qed_offset_into_cluster(q.cur) + q.len - 1}

\* The rest of the clusters it allocated
FillPlaces(q) ==
  {Data(c, i) : c \in q.cluster .. q.cluster + q.n - 1, i \in 0 .. Sects - 1} \ DataPlaces(q)

-----------------------------------------------------------------------------
\* The cache of L2 tables

NoEntry == [off |-> 0, tab |-> EmptyTable, ref |-> 0]

\* qed_unref_l2_cache_entry
Unref(ent, e) ==
  IF e = None THEN ent
  ELSE IF ent[e].ref = 1 THEN [ent EXCEPT ![e] = NoEntry]
  ELSE [ent EXCEPT ![e].ref = @ - 1]

\* qed_find_l2_cache_entry
InCache(ent, cch, off) == {e \in {cch[i] : i \in DOMAIN cch} : ent[e].off = off}

\* Mutant: the evicted entry is freed whoever uses it
CommittedFrees(ent, cch, e) ==
  IF InCache(ent, cch, ent[e].off) # {} THEN <<Unref(ent, e), cch>>
  ELSE IF Len(cch) >= CacheSize
         THEN <<[ent EXCEPT ![Head(cch)] = NoEntry], Append(Tail(cch), e)>>
         ELSE <<ent, Append(cch, e)>>

\* Mutant: the later of two loads of a table takes the place of the earlier
CommittedReplaces(ent, cch, e) ==
  LET old == InCache(ent, cch, ent[e].off)
      x == CHOOSE y \in old : TRUE
  IN  IF old # {} THEN <<Unref(ent, x), [i \in DOMAIN cch |-> IF cch[i] = x THEN e ELSE cch[i]]>>
      ELSE IF Len(cch) >= CacheSize
             THEN <<Unref(ent, Head(cch)), Append(Tail(cch), e)>>
             ELSE <<ent, Append(cch, e)>>

\* qed_commit_l2_cache_entry, which takes over the caller's reference
Committed(ent, cch, e) ==
  IF InCache(ent, cch, ent[e].off) # {} THEN <<Unref(ent, e), cch>>
  ELSE IF Len(cch) >= CacheSize
         THEN <<Unref(ent, Head(cch)), Append(Tail(cch), e)>>
         ELSE <<ent, Append(cch, e)>>

\* The commit and the search that follows it: entries, cache, entry found
CommitAndFind(ent, cch, e) ==
  LET c == Committed(ent, cch, e)
      f == CHOOSE x \in InCache(c[1], c[2], ent[e].off) : TRUE
  IN  <<[c[1] EXCEPT ![f].ref = @ + 1], c[2], f>>

\* A commit that takes an entry out of the cache which a request still uses
Evicts(ent, cch, e) ==
  /\ InCache(ent, cch, ent[e].off) = {}
  /\ Len(cch) >= CacheSize
  /\ ent[Head(cch)].ref > 1

Fresh(ent) == CHOOSE e \in Entries : ent[e].ref = 0

-----------------------------------------------------------------------------
\* Requests

NoReq ==
  [st |-> "idle", op |-> "read", from |-> 0, to |-> 0, cur |-> 0, len |-> 0,
   val |-> 0, cluster |-> 0, n |-> 0, found |-> "", l2 |-> None, ret |-> ""]

\* Part of the callback of the step before: qed_aio_next_io has been called
\* ("go"), or qed_find_cluster has its table ("look").  Nothing else runs.
Inside == {r \in Reqs : req[r].st \in {"go", "look"}}
Quiet == up = "open" /\ Inside = {}

Becomes(r, q) == req' = [req EXCEPT ![r] = q]
To(r, st) == [req[r] EXCEPT !.st = st]

\* The end of one part: qed_aio_next_io with no error
Advanced(r) == [req[r] EXCEPT !.st = "go", !.cur = @ + req[r].len, !.len = 0]

Ended(q, ret) ==
  [NoReq EXCEPT !.st = "bh", !.op = q.op, !.from = q.from, !.to = q.to, !.cur = q.to,
                !.val = q.val, !.ret = ret]

\* Mutant: only a request that succeeded wakes the next
EndWakesOnSuccess(r, ret, ent, q) ==
  LET first == queue # <<>> /\ Head(queue) = r
      rest == IF first THEN Tail(queue) ELSE queue
      next == IF first /\ rest # <<>> /\ ret = "ok" THEN {Head(rest)} ELSE {}
  IN  /\ entry' = Unref(ent, q.l2)
      /\ queue' = rest
      /\ req' = [x \in Reqs |-> IF x = r THEN Ended(q, ret)
                                ELSE IF x \in next THEN To(x, "go") ELSE req[x]]
      /\ timer' = (timer \/ (first /\ rest = <<>> /\ need))

\* qed_aio_complete: the next allocating write goes on, or the timer starts
End(r, ret, ent, q) ==
  LET first == queue # <<>> /\ Head(queue) = r
      rest == IF first THEN Tail(queue) ELSE queue
      next == IF first /\ rest # <<>> THEN {Head(rest)} ELSE {}
  IN  /\ entry' = Unref(ent, q.l2)
      /\ queue' = rest
      /\ req' = [x \in Reqs |-> IF x = r THEN Ended(q, ret)
                                ELSE IF x \in next THEN To(x, "go") ELSE req[x]]
      /\ timer' = (timer \/ (first /\ rest = <<>> /\ need))

\* Sectors that a write is under way to
InFlight == UNION {req[r].from .. req[r].to - 1 :
                     r \in {x \in Reqs : req[x].st # "idle" /\ req[x].op = "write"}}

\* qed_aio_setup.  A guest does not write a sector twice at the same time;
\* each write has a value of its own.
Submit(r, op, from, to) ==
  /\ Quiet
  /\ req[r].st = "idle"
  /\ left.requests > 0
  /\ left' = [left EXCEPT !.requests = @ - 1]
  /\ (from .. to - 1) \cap InFlight = {}
  /\ Becomes(r, [NoReq EXCEPT !.st = "go", !.op = op, !.from = from, !.cur = from,
                              !.to = to, !.val = left.requests])
  /\ safe' = [p \in Positions |->
       IF op = "write" /\ p \in from .. to - 1
         THEN safe[p] \cup {left.requests} ELSE safe[p]]
  /\ UNCHANGED <<disk, mode, up, alloc, l2s, done, failed, markLost, evicted>>

\* Where an allocating write starts writing, once the mark is set
FirstWrite(q) == IF FillPlaces(q) = {} THEN "data" ELSE "fill"

\* Mutant: the mark is left out
ShouldSetNeedCheckNever == FALSE

qed_should_set_need_check == ~backing /\ ~need

\* Mutant: a request that comes while the mark is taken back goes on
MustWaitUnplugged(r, q) == Head(q) # r

\* "wait for existing request to finish"
MustWait(r, q) == Head(q) # r \/ plugged

\* qed_aio_write_alloc
WriteAlloc(r, q) ==
  LET newQueue == IF queue # <<>> /\ Head(queue) = r THEN queue ELSE Append(queue, r)
      n == qed_bytes_to_clusters(qed_offset_into_cluster(q.cur) + q.len)
      a == [q EXCEPT !.n = n, !.cluster = fileSize]
  IN  /\ queue' = newQueue
      /\ timer' = (timer /\ queue # <<>>)
      /\ IF MustWait(r, newQueue)
           THEN Becomes(r, [q EXCEPT !.st = "queued", !.len = 0]) /\ UNCHANGED <<fileSize, need>>
           ELSE /\ fileSize' = fileSize + n
                /\ need' = (need \/ qed_should_set_need_check)
                /\ Becomes(r, [a EXCEPT !.st = IF qed_should_set_need_check
                                                 THEN "header" ELSE FirstWrite(a)])
      /\ UNCHANGED <<l1, plugged, clearing>>

\* qed_aio_write_data and qed_aio_read_data: what qed_find_cluster found
Found(r, found, cluster, len, q) ==
  LET f == [q EXCEPT !.found = found, !.cluster = cluster, !.len = len]
  IN  IF q.op = "write" /\ found # "found" THEN WriteAlloc(r, f)
      ELSE Becomes(r, [f EXCEPT !.st = IF q.op = "read" THEN "read" ELSE "data"]) /\ UNCHANGED alloc

\* qed_aio_next_io and qed_find_cluster, up to the cached L2 table
NextIo(r) ==
  LET q == req[r]
      off == l1[qed_l1_index(q.cur)]
      ent == Unref(entry, q.l2)
      hit == InCache(ent, cache, off)
  IN  /\ q.st = "go"
      /\ \/ /\ q.cur >= q.to \/ off >= fileSize
            /\ End(r, IF q.cur >= q.to THEN "ok" ELSE "error", entry, q)
            /\ UNCHANGED <<need, l1, fileSize, plugged, clearing>>
         \/ /\ q.cur < q.to /\ off = 0
            /\ Found(r, "l1", 0, Room(q), q)
            /\ UNCHANGED entry
         \/ /\ q.cur < q.to /\ off \in 1 .. fileSize - 1
            /\ \E e \in IF hit # {} THEN hit ELSE {Fresh(ent)} :
                 /\ entry' = [ent EXCEPT ![e].ref = @ + 1]
                 /\ Becomes(r, [q EXCEPT !.l2 = e, !.st = IF hit # {} THEN "look" ELSE "table"])
            /\ UNCHANGED alloc
      /\ UNCHANGED <<disk, mode, up, cache, left, hist>>

\* qed_find_cluster_cb.  Nothing in this code writes the entry for a cluster of
\* zeros, so QED_CLUSTER_ZERO is not found.
Look(r) ==
  LET q == req[r]
      i == qed_l2_index(q.cur)
      tab == entry[q.l2].tab
      n == Contiguous(tab, i, qed_bytes_to_clusters(qed_offset_into_cluster(q.cur) + Room(q)))
      len == Min({Room(q), n * Sects - qed_offset_into_cluster(q.cur)})
  IN  /\ q.st = "look"
      /\ \/ tab[i] = 0 /\ Found(r, "l2", 0, len, q) /\ UNCHANGED entry
         \/ tab[i] \in 1 .. fileSize - 1 /\ Found(r, "found", tab[i], len, q) /\ UNCHANGED entry
         \/ /\ tab[i] >= fileSize
            /\ End(r, "error", entry, q)
            /\ UNCHANGED <<need, l1, fileSize, plugged, clearing>>
      /\ UNCHANGED <<disk, mode, up, cache, left, hist>>

-----------------------------------------------------------------------------
\* Completed accesses to the file

\* qed_read_l2_table_cb
TableRead(r) ==
  LET q == req[r]
      off == l1[qed_l1_index(q.cur)]
      ent == [entry EXCEPT ![q.l2].off = off, ![q.l2].tab = now[L2Table(off)]]
      c == CommitAndFind(ent, cache, q.l2)
  IN  /\ q.st = "table"
      /\ entry' = c[1] /\ cache' = c[2]
      /\ Becomes(r, [q EXCEPT !.l2 = c[3], !.st = "look"])
      /\ evicted' = (evicted \/ Evicts(ent, cache, q.l2))
      /\ UNCHANGED <<disk, mode, up, alloc, left, done, safe, failed, markLost>>

ReadDone(r) ==
  /\ req[r].st = "read"
  /\ Becomes(r, Advanced(r))
  /\ UNCHANGED <<disk, mode, up, alloc, l2s, left, hist>>

\* qed_write_header, then qed_aio_write_prefill
HeaderWritten(r) ==
  /\ req[r].st = "header"
  /\ Write([x \in {Header} |-> need])
  /\ Becomes(r, To(r, FirstWrite(req[r])))
  /\ UNCHANGED <<mode, up, alloc, l2s, left, hist>>

\* qed_aio_write_prefill and _postfill: the rest of the cluster is copied
\* from the backing file, or zero
Filled(r) ==
  /\ req[r].st = "fill"
  /\ Write([x \in FillPlaces(req[r]) |-> Unallocated])
  /\ Becomes(r, To(r, "data"))
  /\ UNCHANGED <<mode, up, alloc, l2s, left, hist>>

\* qed_aio_write_l2_update, up to the write of the table
L2Update(r) ==
  LET q == req[r]
      first == qed_l2_index(q.cur)
      Linked(tab) == [i \in DOMAIN tab |->
        IF i \in first .. first + q.n - 1 THEN q.cluster + (i - first) ELSE tab[i]]
      ent == Unref(entry, q.l2)
      e == Fresh(ent)
  IN  IF q.found = "l1"
        THEN /\ entry' = [ent EXCEPT ![e] = [off |-> fileSize, tab |-> Linked(EmptyTable), ref |-> 1]]
             /\ fileSize' = fileSize + 1
             /\ Becomes(r, [q EXCEPT !.l2 = e, !.st = "newtable"])
        ELSE /\ entry' = [entry EXCEPT ![q.l2].tab = Linked(@)]
             /\ Becomes(r, To(r, "l2table"))
             /\ UNCHANGED fileSize

\* Mutant: the flush before the L2 update is left out
FlushFirstNever == FALSE

\* qed_aio_write_main: "the flush is necessary when a backing file is in use"
FlushFirst == backing

\* After qed_aio_write_main
DataWritten(r) ==
  /\ req[r].st = "data"
  /\ Write([x \in DataPlaces(req[r]) |-> req[r].val])
  /\ CASE req[r].found = "found" -> Becomes(r, Advanced(r)) /\ UNCHANGED <<entry, fileSize>>
       [] req[r].found # "found" /\ FlushFirst ->
            Becomes(r, To(r, "flush")) /\ UNCHANGED <<entry, fileSize>>
       [] OTHER -> L2Update(r)
  /\ UNCHANGED <<mode, up, need, l1, queue, plugged, timer, clearing, cache, left, hist>>

Flushed(r) ==
  /\ req[r].st = "flush"
  /\ Sync
  /\ L2Update(r)
  /\ UNCHANGED <<mode, up, need, l1, queue, plugged, timer, clearing, cache, left, hist>>

\* qed_write_l2_table of part of a table
L2TableWritten(r) ==
  /\ req[r].st = "l2table"
  /\ Write([x \in {L2Table(entry[req[r].l2].off)} |-> entry[req[r].l2].tab])
  /\ Becomes(r, Advanced(r))
  /\ UNCHANGED <<mode, up, alloc, l2s, left, hist>>

\* qed_write_table_cb: "We still need to flush first"
NewTableWritten(r) ==
  /\ req[r].st = "newtable"
  /\ Write([x \in {L2Table(entry[req[r].l2].off)} |-> entry[req[r].l2].tab])
  /\ Becomes(r, To(r, "tableflush"))
  /\ UNCHANGED <<mode, up, alloc, l2s, left, hist>>

\* qed_aio_write_l1_update
NewTableFlushed(r) ==
  /\ req[r].st = "tableflush"
  /\ Sync
  /\ l1' = [l1 EXCEPT ![qed_l1_index(req[r].cur)] = entry[req[r].l2].off]
  /\ Becomes(r, To(r, "l1table"))
  /\ UNCHANGED <<mode, up, need, fileSize, queue, plugged, timer, clearing, l2s, left, hist>>

\* qed_commit_l2_update
L1TableWritten(r) ==
  LET c == CommitAndFind(entry, cache, req[r].l2)
  IN  /\ req[r].st = "l1table"
      /\ Write([x \in {L1Table} |-> l1])
      /\ entry' = c[1] /\ cache' = c[2]
      /\ Becomes(r, [Advanced(r) EXCEPT !.l2 = c[3]])
      /\ evicted' = (evicted \/ Evicts(entry, cache, req[r].l2))
      /\ UNCHANGED <<mode, up, alloc, left, done, safe, failed, markLost>>

\* The result of writing the mark is not looked at, nor that of writing the
\* data if a flush comes next
Ignored(q) == q.st = "header" \/ (q.st = "data" /\ q.found # "found" /\ FlushFirst)

Waiting == {"table", "read", "header", "fill", "data", "flush", "l2table", "newtable",
            "tableflush", "l1table"}

\* An access of a request fails.  A table whose L1 entry could not be
\* written is committed all the same.
IoError(r) ==
  LET q == req[r]
      c == CommitAndFind(entry, cache, q.l2)
  IN  /\ Quiet
      /\ q.st \in Waiting
      /\ Fault("errors") /\ left.crashes = MaxCrashes
      /\ failed' = TRUE
      /\ IF Ignored(q)
           THEN /\ Becomes(r, To(r, IF q.st = "data" THEN "flush" ELSE FirstWrite(q)))
                /\ UNCHANGED <<queue, timer, l2s>>
         ELSE IF q.st = "l1table"
           THEN /\ End(r, "error", c[1], [q EXCEPT !.l2 = c[3]])
                /\ cache' = c[2]
         ELSE End(r, "error", entry, q) /\ UNCHANGED cache
      /\ UNCHANGED <<disk, mode, up, need, l1, fileSize, plugged, clearing, done, safe, markLost, evicted>>

-----------------------------------------------------------------------------
\* What the guest was told, as histories

\* The table a reader uses: the cached one, or the one in the file
L2InUse(c) ==
  LET hit == InCache(entry, cache, c)
  IN  IF hit # {} THEN entry[CHOOSE e \in hit : TRUE].tab ELSE now[L2Table(c)]

\* What a read of p gives while the image is open, and what it will give
\* once the image is opened
SeenOpen(p) == View(l1, L2InUse, fileSize, p)
SeenOnDisk(p) == View(now[L1Table], LAMBDA c : now[L2Table(c)], now[Length], p)
Seen(p) == IF up = "open" THEN SeenOpen(p) ELSE SeenOnDisk(p)

\* Sectors of the clusters that a request has linked to a table in memory and
\* not yet in the file
Linking ==
  {p \in Positions : \E r \in Reqs :
     /\ req[r].st \in {"l2table", "l1table"}
     /\ Cluster(p) \in Cluster(req[r].cur) .. Cluster(req[r].cur) + req[r].n - 1}

\* From now on the guest may rely on every write it knows of.  The one exception
\* is a write in place to a cluster that another request is linking: it is
\* acknowledged before the entry that leads to it is written, and a crash can
\* lose it.  The next promise, when the entry is in the file, includes it.
Promise ==
  safe' = [p \in Positions |-> IF p \in InFlight' \cup Linking' THEN safe[p] ELSE {done'[p]}]

\* qed_aio_complete_bh: the guest learns the result
CompleteBh(r) ==
  LET q == req[r]
      mine == IF q.op = "write" /\ q.ret = "ok" THEN q.from .. q.to - 1 ELSE {}
  IN  /\ Quiet
      /\ q.st = "bh"
      /\ Becomes(r, NoReq)
      /\ done' = [p \in Positions |-> IF p \in mine THEN q.val ELSE done[p]]
      /\ IF cacheMode = "writethrough" THEN Promise ELSE UNCHANGED safe
      /\ UNCHANGED <<disk, mode, up, alloc, l2s, left, failed, markLost, evicted>>

\* bdrv_qed_aio_flush for the guest
GuestFlush ==
  /\ Quiet
  /\ cacheMode = "writeback"
  /\ Sync
  /\ kept # <<>>
  /\ left.requests > 0
  /\ left' = [left EXCEPT !.requests = @ - 1]
  /\ UNCHANGED <<mode, up, alloc, l2s, req, done, failed, markLost, evicted>>
  /\ Promise

-----------------------------------------------------------------------------
\* The timer that takes back the mark

\* qed_need_check_timer_cb
TimerFires ==
  /\ Quiet
  /\ timer
  /\ timer' = FALSE
  /\ plugged' = TRUE
  /\ clearing' = "flush"
  /\ UNCHANGED <<disk, mode, up, need, l1, fileSize, queue, l2s, req, left, hist>>

\* qed_unplug_allocating_write_reqs
Unplug ==
  /\ plugged' = FALSE
  /\ clearing' = ""
  /\ req' = [r \in Reqs |-> IF queue # <<>> /\ Head(queue) = r THEN To(r, "go") ELSE req[r]]

\* qed_clear_need_check
TimerFlushed ==
  /\ Quiet
  /\ clearing = "flush"
  /\ Sync
  /\ need' = FALSE
  /\ clearing' = "header"
  /\ UNCHANGED <<mode, up, l1, fileSize, queue, plugged, timer, l2s, req, left, hist>>

TimerFlushFails ==
  /\ Quiet
  /\ clearing = "flush"
  /\ Fault("errors") /\ left.crashes = MaxCrashes
  /\ failed' = TRUE
  /\ Unplug
  /\ UNCHANGED <<disk, mode, up, need, l1, fileSize, queue, timer, l2s, done, safe, markLost, evicted>>

\* qed_flush_after_clear_need_check, which starts a flush and does not wait
\* for it
TimerHeaderWritten ==
  /\ Quiet
  /\ clearing = "header"
  /\ Write([x \in {Header} |-> need])
  /\ Unplug
  /\ UNCHANGED <<mode, up, need, l1, fileSize, queue, timer, l2s, left, hist>>

\* The result of writing the header is not looked at
TimerHeaderFails ==
  /\ Quiet
  /\ clearing = "header"
  /\ Fault("errors") /\ left.crashes = MaxCrashes
  /\ failed' = TRUE
  /\ Unplug
  /\ UNCHANGED <<disk, mode, up, need, l1, fileSize, queue, timer, l2s, done, safe, markLost, evicted>>

-----------------------------------------------------------------------------
\* Closing, crashing and opening

Forget ==
  /\ need' = FALSE
  /\ l1' = [i \in 0 .. L1Size - 1 |-> 0]
  /\ fileSize' = 0
  /\ queue' = <<>>
  /\ plugged' = FALSE
  /\ timer' = FALSE
  /\ clearing' = ""
  /\ cache' = <<>>
  /\ entry' = [e \in Entries |-> NoEntry]
  /\ req' = [r \in Reqs |-> NoReq]

\* bdrv_qed_close, once the requests have been waited for
Close ==
  /\ Quiet
  /\ \A r \in Reqs : req[r].st = "idle"
  /\ clearing = ""
  /\ up' = "closed"
  /\ now' = [now EXCEPT ![Header] = IF need THEN FALSE ELSE @]
  /\ kept' = [x \in {y \in {Header} : need /\ cacheMode = "writeback"} |-> BOOLEAN]
  /\ safe' = [p \in Positions |-> {done[p]}]
  /\ Forget
  /\ UNCHANGED <<mode, left, done, failed, markLost, evicted>>

\* What a crash may leave: of each place one of the contents it has had
\* since the last flush, and nothing beyond the end of the file
Remains ==
  LET Choose(x, files) == {[f EXCEPT ![x] = v] : f \in files, v \in kept[x]}
  IN  {[x \in Places |-> IF x[2] >= f[Length] THEN Blank(x) ELSE f[x]] :
         f \in FoldSet(Choose, {now}, DOMAIN kept)}

\* The host stops, at any moment; what is promised then is only of interest
\* if no access has failed
Crash ==
  /\ Fault("crashes") /\ ~failed
  /\ up' = "closed"
  /\ now' \in Remains
  /\ kept' = <<>>
  /\ markLost' = (markLost \/ (need /\ ~now'[Header]))
  /\ Forget
  /\ UNCHANGED <<mode, done, safe, failed, evicted>>

\* The tables as qed_check leaves them: no entry beyond the end of the file
Fixed(tab) == [i \in DOMAIN tab |-> IF tab[i] >= now[Length] THEN 0 ELSE tab[i]]

\* The L1 entries it follows
Reached == {i \in 0 .. L1Size - 1 : Fixed(now[L1Table])[i] # 0}

\* The last of their tables stay in the cache
CachedByCheck ==
  LET n == Min({Cardinality(Reached), CacheSize})
      off(e) == Fixed(now[L1Table])[
        CHOOSE i \in Reached : Cardinality({j \in Reached : j > i}) = n - e]
  IN  /\ cache' = [e \in 1 .. n |-> e]
      /\ entry' = [e \in Entries |->
           IF e <= n THEN [off |-> off(e), tab |-> Fixed(now[L2Table(off(e))]), ref |-> 1]
           ELSE NoEntry]

\* bdrv_qed_open: the tables are read, and repaired if the mark is set
OpenCheck ==
  /\ up = "closed"
  /\ need' = now[Header]
  /\ fileSize' = now[Length]
  /\ IF now[Header]
       THEN /\ l1' = Fixed(now[L1Table])
            /\ Write([x \in {L1Table} \cup {L2Table(Fixed(now[L1Table])[i]) : i \in Reached} |->
                        Fixed(now[x])])
            /\ CachedByCheck
            /\ up' = "checking"
       ELSE /\ l1' = now[L1Table]
            /\ up' = "open"
            /\ UNCHANGED <<disk, l2s>>
  /\ done' = [p \in Positions |-> SeenOnDisk(p)]
  /\ safe' = [p \in Positions |-> IF now[Header] THEN safe[p] ELSE {SeenOnDisk(p)}]
  /\ UNCHANGED <<mode, queue, plugged, timer, clearing, req, left, failed, markLost, evicted>>

\* "Clusters should only be referenced once": otherwise the mark stays
References(l1table) ==
  LET tables == {i \in DOMAIN l1table : l1table[i] # 0}
  IN  {<<l1table[i], <<i>>>> : i \in tables} \cup
      {x \in {<<now[L2Table(l1table[i])][j], <<i, j>>>> : i \in tables, j \in 0 .. L2Size - 1} :
         x[1] # 0}

SharesNone(refs) == \A a, b \in refs : a[1] = b[1] => a = b

\* The end of bdrv_qed_open after a check: flush, and take back the mark
OpenDone ==
  /\ up = "checking"
  /\ up' = "open"
  /\ IF SharesNone(References(l1))
       THEN /\ need' = FALSE
            /\ now' = [now EXCEPT ![Header] = FALSE]
            /\ kept' = [x \in {y \in {Header} : cacheMode = "writeback"} |-> BOOLEAN]
            /\ safe' = [p \in Positions |-> {done[p]}]
       ELSE UNCHANGED <<need, disk, safe>>
  /\ UNCHANGED <<mode, l1, fileSize, queue, plugged, timer, clearing, l2s, req, left,
                 done, failed, markLost, evicted>>

-----------------------------------------------------------------------------
\* qed_create, or an image in use whose first L2 tables are there
NewImage(tables) ==
  [x \in Places |->
     CASE x = Header -> FALSE
       [] x = L1Table -> [i \in 0 .. L1Size - 1 |-> IF i < tables THEN 2 + i ELSE 0]
       [] x = Length -> 2 + tables
       [] OTHER -> Blank(x)]

Init ==
  /\ \E i \in Images : backing = i[1] /\ cacheMode = i[2] /\ now = NewImage(i[3])
  /\ kept = <<>>
  /\ up = "closed"
  /\ need = FALSE
  /\ l1 = [i \in 0 .. L1Size - 1 |-> 0]
  /\ fileSize = 0
  /\ queue = <<>>
  /\ plugged = FALSE /\ timer = FALSE /\ clearing = ""
  /\ cache = <<>>
  /\ entry = [e \in Entries |-> NoEntry]
  /\ req = [r \in Reqs |-> NoReq]
  /\ left = [requests |-> MaxRequests, crashes |-> MaxCrashes, errors |-> MaxErrors]
  /\ done = [p \in Positions |-> Unallocated]
  /\ safe = [p \in Positions |-> {Unallocated}]
  /\ failed = FALSE /\ markLost = FALSE /\ evicted = FALSE

Completed(r) ==
  /\ Quiet
  /\ \/ TableRead(r) \/ ReadDone(r) \/ HeaderWritten(r) \/ Filled(r)
     \/ DataWritten(r) \/ Flushed(r) \/ L2TableWritten(r)
     \/ NewTableWritten(r) \/ NewTableFlushed(r) \/ L1TableWritten(r)

Goes(r) == NextIo(r) \/ Look(r) \/ Completed(r) \/ CompleteBh(r)

Timer == TimerFires \/ TimerFlushed \/ TimerHeaderWritten

Next ==
  \/ \E r \in Reqs, x \in Extents : Submit(r, x[1], x[2], x[3])
  \/ \E r \in Reqs : Goes(r) \/ IoError(r)
  \/ Timer \/ TimerFlushFails \/ TimerHeaderFails
  \/ GuestFlush
  \/ Close \/ Crash \/ OpenCheck \/ OpenDone

\* Accesses to the file end, and so do the callbacks
Spec ==
  /\ Init /\ [][Next]_vars
  /\ \A r \in Reqs : WF_vars(Goes(r))
  /\ WF_vars(TimerFlushed \/ TimerHeaderWritten)

-----------------------------------------------------------------------------

\* The types of the variables
TypeOK ==
  /\ need \in BOOLEAN /\ plugged \in BOOLEAN /\ timer \in BOOLEAN
  /\ fileSize \in 0 .. MaxCluster + 1
  /\ \A i \in DOMAIN queue : queue[i] \in Reqs
  /\ Len(cache) <= CacheSize
  /\ \A r \in Reqs : req[r].cur <= req[r].to /\ req[r].l2 \in Entries \cup {None}

\* The assertions of qed_need_check_timer_cb and
\* qed_plug_allocating_write_reqs: when the timer may fire no allocating
\* write is queued and no earlier callback is still at work
TimerWhenDrained == timer => queue = <<>> /\ ~plugged

\* Every reference to a cached L2 table is counted, through evictions, failed
\* accesses and two requests that load the same table
RefsCounted ==
  \A e \in Entries :
    entry[e].ref = Cardinality({r \in Reqs : req[r].l2 = e})
                   + (IF \E i \in DOMAIN cache : cache[i] = e THEN 1 ELSE 0)

\* What the properties below do not cover: an access that failed, since the
\* results of some are not looked at; a crash that loses the mark, which is
\* not flushed; a table evicted while a request is changing it
Untold == failed \/ markLost \/ evicted

\* Whatever a crash or an interleaving leaves, no cluster is referenced
\* twice, and an offset beyond the end of the file is found only under the
\* mark
TablesConsistent ==
  ~Untold =>
    LET refs == References(now[L1Table])
    IN  /\ SharesNone(refs)
        /\ now[Header] \/ \A x \in refs : x[1] < now[Length]

\* A sector that no write is under way to reads as the last write to it that
\* completed, through whatever tables are cached or in the file
ReadsSeeWrites ==
  (up = "open" /\ ~Untold) =>
    \A p \in Positions \ InFlight : SeenOpen(p) = done[p]

\* What was promised to be on the disk survives a crash: a completed write
\* in cache=writethrough, one that was followed by a flush in
\* cache=writeback, and the contents of the backing file around it.  Promised
\* is every write the guest was told of, except for one in place to a cluster
\* that another request is linking (qed_aio_write_inplace, Promise)
CrashSafe ==
  ~Untold => \A p \in Positions : Seen(p) \in safe[p]

\* Every request ends, also those queued behind an allocating write or held
\* back while the mark is taken back, and also if accesses fail
RequestsEnd == \A r \in Reqs : req[r].st # "idle" ~> req[r].st = "idle"
=============================================================================
