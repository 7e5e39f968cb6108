------------------------------ MODULE QedProofs -----------------------------
(***************************************************************************)
(* Proofs about Qed, for tables, clusters, caches and requests of any      *)
(* number and size.                                                        *)
(*                                                                         *)
(* That references to cached tables are counted right rests on the owners  *)
(* of tables that are being loaded or made: until such a table is in the   *)
(* cache nobody else has it (Owned), so putting it there hands over        *)
(* exactly one reference.  That the timer finds no allocating write rests  *)
(* on all of them waiting while the mark is taken back (Held).             *)
(***************************************************************************)
EXTENDS Qed, FiniteSetTheorems, TLAPS

-----------------------------------------------------------------------------
\* The cache as a sequence of different entries

Has(cch, e) == \E i \in DOMAIN cch : cch[i] = e

Different(cch) == \A i, j \in DOMAIN cch : cch[i] = cch[j] => i = j

Caches == {c \in Seq(Entries) : Len(c) <= CacheSize /\ Different(c)}

LEMMA NoneCached ==
  /\ <<>> \in Caches
  /\ \A e : ~Has(<<>>, e)
<1>1. <<>> \in Seq(Entries) /\ Len(<<>>) = 0 /\ DOMAIN <<>> = {}
  OBVIOUS
<1>2. 0 <= CacheSize
  BY SizeAssumption
<1> QED
  BY <1>1, <1>2, Zenon DEF Caches, Different, Has

LEMMA AppendHas ==
  ASSUME NEW c \in Seq(Entries), NEW e \in Entries
  PROVE  /\ Append(c, e) \in Seq(Entries)
         /\ Len(Append(c, e)) = Len(c) + 1
         /\ \A x : Has(Append(c, e), x) <=> (Has(c, x) \/ x = e)
         /\ (Different(c) /\ ~Has(c, e)) => Different(Append(c, e))
<1> DEFINE d == Append(c, e)
<1>1. /\ d \in Seq(Entries) /\ Len(c) \in Nat /\ Len(d) = Len(c) + 1
      /\ DOMAIN c = 1 .. Len(c) /\ DOMAIN d = 1 .. Len(c) + 1
      /\ \A i \in 1 .. Len(c) : d[i] = c[i]
      /\ d[Len(c) + 1] = e
  OBVIOUS
<1> HIDE DEF d
<1>2. ASSUME NEW x PROVE Has(d, x) <=> (Has(c, x) \/ x = e)
  <2>1. ASSUME Has(d, x), x # e PROVE Has(c, x)
    <3>1. PICK i \in 1 .. Len(c) + 1 : d[i] = x
      BY <1>1, <2>1, Zenon DEF Has
    <3>2. i \in 1 .. Len(c)
      BY <1>1, <2>1, <3>1
    <3> QED
      BY <1>1, <3>1, <3>2, Zenon DEF Has
  <2>2. ASSUME Has(c, x) PROVE Has(d, x)
    <3>1. PICK i \in 1 .. Len(c) : c[i] = x
      BY <1>1, <2>2, Zenon DEF Has
    <3>2. i \in 1 .. Len(c) + 1 /\ d[i] = x
      BY <1>1, <3>1
    <3> QED
      BY <1>1, <3>2, Zenon DEF Has
  <2>3. ASSUME x = e PROVE Has(d, x)
    <3>1. Len(c) + 1 \in 1 .. Len(c) + 1
      BY <1>1
    <3> QED
      BY <1>1, <2>3, <3>1, Zenon DEF Has
  <2> QED
    BY <2>1, <2>2, <2>3, Zenon
<1>3. ASSUME Different(c), ~Has(c, e), NEW i \in DOMAIN d, NEW j \in DOMAIN d, d[i] = d[j]
      PROVE  i = j
  <2>1. \A k \in 1 .. Len(c) : c[k] # e
    BY <1>1, <1>3, Zenon DEF Has
  <2>2. i \in 1 .. Len(c) + 1 /\ j \in 1 .. Len(c) + 1
    BY <1>1, Zenon
  <2>3. CASE i \in 1 .. Len(c) /\ j \in 1 .. Len(c)
    BY <1>1, <1>3, <2>3, Zenon DEF Different
  <2>4. CASE i = Len(c) + 1 \/ j = Len(c) + 1
    BY <1>1, <1>3, <2>1, <2>2, <2>4
  <2> QED
    BY <1>1, <2>2, <2>3, <2>4
<1> QED
  BY <1>1, <1>2, <1>3, Zenon DEF d, Different

LEMMA TailHas ==
  ASSUME NEW c \in Seq(Entries), c # <<>>, Different(c)
  PROVE  /\ Tail(c) \in Seq(Entries) /\ Different(Tail(c))
         /\ Len(Tail(c)) = Len(c) - 1
         /\ Head(c) \in Entries /\ Has(c, Head(c))
         /\ \A x : Has(Tail(c), x) <=> (Has(c, x) /\ x # Head(c))
<1> DEFINE d == Tail(c)
<1>1. /\ d \in Seq(Entries) /\ Len(c) \in Nat \ {0} /\ Len(d) = Len(c) - 1
      /\ DOMAIN c = 1 .. Len(c) /\ DOMAIN d = 1 .. Len(c) - 1
      /\ \A i \in 1 .. Len(c) - 1 : d[i] = c[i + 1]
      /\ Head(c) = c[1] /\ Head(c) \in Entries
  <2>1. Len(c) \in Nat \ {0} /\ d \in Seq(Entries) /\ Len(d) = Len(c) - 1
    OBVIOUS
  <2>2. DOMAIN c = 1 .. Len(c) /\ DOMAIN d = 1 .. Len(c) - 1
    BY <2>1
  <2>3. \A i \in 1 .. Len(c) - 1 : d[i] = c[i + 1]
    OBVIOUS
  <2>4. Head(c) = c[1] /\ Head(c) \in Entries
    OBVIOUS
  <2> QED
    BY <2>1, <2>2, <2>3, <2>4, Zenon
<1> HIDE DEF d
<1>2. 1 \in DOMAIN c
  BY <1>1
<1>3. ASSUME NEW x PROVE Has(d, x) <=> (Has(c, x) /\ x # Head(c))
  <2>1. ASSUME Has(d, x) PROVE Has(c, x) /\ x # Head(c)
    <3>1. PICK i \in 1 .. Len(c) - 1 : d[i] = x
      BY <1>1, <2>1, Zenon DEF Has
    <3>2. i + 1 \in 1 .. Len(c) /\ i + 1 # 1 /\ c[i + 1] = x
      BY <1>1, <3>1
    <3> QED
      BY <1>1, <1>2, <3>2, Zenon DEF Has, Different
  <2>2. ASSUME Has(c, x), x # Head(c) PROVE Has(d, x)
    <3>1. PICK i \in 1 .. Len(c) : c[i] = x
      BY <1>1, <2>2, Zenon DEF Has
    <3>2. i # 1
      BY <1>1, <2>2, <3>1, Zenon
    <3>3. i - 1 \in 1 .. Len(c) - 1 /\ (i - 1) + 1 = i
      BY <1>1, <3>1, <3>2
    <3>4. d[i - 1] = x
      BY <1>1, <3>1, <3>3, Zenon
    <3> QED
      BY <1>1, <3>3, <3>4, Zenon DEF Has
  <2> QED
    BY <2>1, <2>2, Zenon
<1>4. ASSUME NEW i \in DOMAIN d, NEW j \in DOMAIN d, d[i] = d[j] PROVE i = j
  <2>1. i \in 1 .. Len(c) - 1 /\ j \in 1 .. Len(c) - 1
    BY <1>1, Zenon
  <2>2. i + 1 \in DOMAIN c /\ j + 1 \in DOMAIN c /\ c[i + 1] = c[j + 1]
    BY <1>1, <1>4, <2>1
  <2>3. i + 1 = j + 1
    BY <2>2, Zenon DEF Different
  <2> QED
    BY <1>1, <2>1, <2>3
<1>5. Has(c, Head(c))
  BY <1>1, <1>2, Zenon DEF Has
<1> QED
  BY <1>1, <1>3, <1>4, <1>5, Zenon DEF d, Different

-----------------------------------------------------------------------------
\* Counting references: l gives the table each request has

Users == [Reqs -> Entries \cup {None}]

With(l, r, e) == [l EXCEPT ![r] = e]

Holders(l, e) == {r \in Reqs : l[r] = e}

Counted(ent, cch, l) ==
  \A e \in Entries :
    ent[e].ref = Cardinality(Holders(l, e)) + (IF Has(cch, e) THEN 1 ELSE 0)

WellFormed(ent) ==
  /\ DOMAIN ent = Entries
  /\ \A e \in Entries : DOMAIN ent[e] = {"off", "tab", "ref"}

LEMMA NoneIsNoEntry == None \notin Entries /\ Entries \subseteq Nat
<1>1. CacheSize \in Nat /\ Cardinality(Reqs) \in Nat
  BY SizeAssumption, RequestAssumption, FS_CardinalityType, Zenon
<1>2. Entries \subseteq Nat
  BY <1>1 DEF Entries
<1> QED
  BY <1>2, RequestAssumption, Zenon

LEMMA HoldersFinite ==
  ASSUME NEW l, NEW e
  PROVE  /\ IsFiniteSet(Holders(l, e)) /\ Cardinality(Holders(l, e)) \in Nat
         /\ Cardinality(Holders(l, e)) = 0 <=> Holders(l, e) = {}
<1>1. Holders(l, e) \in SUBSET Reqs
  BY Zenon DEF Holders
<1>2. IsFiniteSet(Holders(l, e))
  BY <1>1, RequestAssumption, FS_Subset, Zenon
<1> QED
  BY <1>2, FS_CardinalityType, FS_EmptySet, Zenon

LEMMA CountIsPositive ==
  ASSUME NEW ent, NEW cch, NEW l, Counted(ent, cch, l), NEW e \in Entries
  PROVE  /\ ent[e].ref \in Nat
         /\ Has(cch, e) => ent[e].ref >= 1
         /\ \A r \in Reqs : l[r] = e => ent[e].ref >= 1 /\ (Has(cch, e) => ent[e].ref >= 2)
<1> DEFINE n == Cardinality(Holders(l, e))
<1>1. ent[e].ref = n + (IF Has(cch, e) THEN 1 ELSE 0)
  BY Zenon DEF Counted
<1>2. n \in Nat /\ (n = 0 <=> Holders(l, e) = {})
  BY HoldersFinite, Zenon
<1>3. \A r \in Reqs : l[r] = e => n # 0
  BY <1>2, Zenon DEF Holders
<1> HIDE DEF n
<1> QED
  BY <1>1, <1>2, <1>3

LEMMA UnrefIs ==
  ASSUME NEW ent, WellFormed(ent), NEW e \in Entries, ent[e].ref \in Nat \ {0},
         NEW u, u = Unref(ent, e)
  PROVE  /\ WellFormed(u)
         /\ u[e].ref = ent[e].ref - 1
         /\ \A x \in Entries \ {e} : u[x] = ent[x]
         /\ ent[e].ref # 1 => u[e].off = ent[e].off /\ u[e].tab = ent[e].tab
<1>1. e # None
  BY NoneIsNoEntry, Zenon
<1>2. CASE ent[e].ref = 1
  <2>1. u = [ent EXCEPT ![e] = NoEntry]
    BY <1>1, <1>2, Zenon DEF Unref
  <2>2. NoEntry.ref = 0 /\ DOMAIN NoEntry = {"off", "tab", "ref"}
    BY Zenon DEF NoEntry
  <2> QED
    BY <1>2, <2>1, <2>2 DEF WellFormed
<1>3. CASE ent[e].ref # 1
  <2>1. u = [ent EXCEPT ![e].ref = ent[e].ref - 1]
    BY <1>1, <1>3, Zenon DEF Unref
  <2> QED
    BY <1>3, <2>1, Zenon DEF WellFormed
<1> QED
  BY <1>2, <1>3, Zenon

\* A request gives up its table
LEMMA Unholding ==
  ASSUME NEW ent, WellFormed(ent), NEW cch, NEW l \in Users, Counted(ent, cch, l),
         NEW r \in Reqs, NEW u, u = Unref(ent, l[r]), NEW k, k = With(l, r, None)
  PROVE  WellFormed(u) /\ k \in Users /\ k[r] = None /\ Counted(u, cch, k)
<1>0. k \in Users /\ k[r] = None
  BY NoneIsNoEntry, Zenon DEF Users, With
<1>1. CASE l[r] = None
  <2>1. u = ent /\ k = l
    BY <1>1, Zenon DEF Unref, Users, With
  <2> QED
    BY <1>0, <2>1, Zenon
<1>2. CASE l[r] # None
  <2>1. PICK e \in Entries : e = l[r]
    BY <1>2, Zenon DEF Users, With
  <2>2. ent[e].ref \in Nat \ {0}
    <3>1. ent[e].ref \in Nat /\ ent[e].ref >= 1
      BY <2>1, CountIsPositive, Zenon
    <3> QED
      BY <3>1
  <2>3. /\ WellFormed(u) /\ u[e].ref = ent[e].ref - 1
        /\ \A x \in Entries \ {e} : u[x] = ent[x]
    BY <2>1, <2>2, UnrefIs
  <2>4. ASSUME NEW x \in Entries
        PROVE  u[x].ref = Cardinality(Holders(k, x)) + (IF Has(cch, x) THEN 1 ELSE 0)
    <3>1. Holders(k, x) = Holders(l, x) \ {r}
      BY NoneIsNoEntry, Zenon DEF Holders, Users, With
    <3>2. /\ IsFiniteSet(Holders(l, x)) /\ Cardinality(Holders(l, x)) \in Nat
          /\ ent[x].ref = Cardinality(Holders(l, x)) + (IF Has(cch, x) THEN 1 ELSE 0)
      BY HoldersFinite, Zenon DEF Counted
    <3>3. Cardinality(Holders(k, x)) =
            IF r \in Holders(l, x) THEN Cardinality(Holders(l, x)) - 1
            ELSE Cardinality(Holders(l, x))
      BY <3>1, <3>2, FS_RemoveElement, Zenon
    <3>4. r \in Holders(l, x) <=> x = e
      BY <2>1, Zenon DEF Holders
    <3>5. u[x].ref = IF x = e THEN ent[x].ref - 1 ELSE ent[x].ref
      BY <2>3, Zenon
    <3> QED
      BY <3>2, <3>3, <3>4, <3>5
  <2> QED
    BY <1>0, <2>3, <2>4, Zenon DEF Counted
<1> QED
  BY <1>1, <1>2, Zenon

\* A request without a table takes one
LEMMA Holding ==
  ASSUME NEW ent, NEW cch, NEW l \in Users, Counted(ent, cch, l),
         NEW r \in Reqs, l[r] = None, NEW e \in Entries, NEW u,
         \A x \in Entries : u[x].ref = IF x = e THEN ent[x].ref + 1 ELSE ent[x].ref,
         NEW k, k = With(l, r, e)
  PROVE  k \in Users /\ k[r] = e /\ Counted(u, cch, k)
<1>1. k \in Users /\ k[r] = e
  BY Zenon DEF Users, With
<1>2. ASSUME NEW x \in Entries
      PROVE  u[x].ref = Cardinality(Holders(k, x)) + (IF Has(cch, x) THEN 1 ELSE 0)
  <2>1. Holders(k, x) = IF x = e THEN Holders(l, x) \cup {r} ELSE Holders(l, x)
    BY NoneIsNoEntry, Zenon DEF Holders, Users, With
  <2>2. r \notin Holders(l, x)
    BY NoneIsNoEntry, Zenon DEF Holders
  <2>3. /\ IsFiniteSet(Holders(l, x)) /\ Cardinality(Holders(l, x)) \in Nat
        /\ ent[x].ref = Cardinality(Holders(l, x)) + (IF Has(cch, x) THEN 1 ELSE 0)
    BY HoldersFinite, Zenon DEF Counted
  <2>4. Cardinality(Holders(l, x) \cup {r}) = Cardinality(Holders(l, x)) + 1
    BY <2>2, <2>3, FS_AddElement, Zenon
  <2> QED
    BY <2>1, <2>3, <2>4
<1> QED
  BY <1>1, <1>2, Zenon DEF Counted

Adds(cch, e, d) == \A x : Has(d, x) <=> (Has(cch, x) \/ x = e)

\* The cache takes over the reference of a request
LEMMA TakingOver ==
  ASSUME NEW ent, NEW cch, NEW d, NEW l \in Users, Counted(ent, cch, l),
         NEW r \in Reqs, NEW e \in Entries, l[r] = e, ~Has(cch, e),
         Adds(cch, e, d), NEW k, k = With(l, r, None)
  PROVE  k \in Users /\ k[r] = None /\ Counted(ent, d, k)
<1>1. k \in Users /\ k[r] = None
  BY Zenon DEF Users, With
<1>2. ASSUME NEW x \in Entries
      PROVE  ent[x].ref = Cardinality(Holders(k, x)) + (IF Has(d, x) THEN 1 ELSE 0)
  <2>1. Holders(k, x) = Holders(l, x) \ {r}
    BY NoneIsNoEntry, Zenon DEF Holders, Users, With
  <2>2. r \in Holders(l, x) <=> x = e
    BY Zenon DEF Holders
  <2>3. /\ IsFiniteSet(Holders(l, x)) /\ Cardinality(Holders(l, x)) \in Nat
        /\ ent[x].ref = Cardinality(Holders(l, x)) + (IF Has(cch, x) THEN 1 ELSE 0)
    BY HoldersFinite, Zenon DEF Counted
  <2>4. Cardinality(Holders(k, x)) =
          IF r \in Holders(l, x) THEN Cardinality(Holders(l, x)) - 1
          ELSE Cardinality(Holders(l, x))
    BY <2>1, <2>3, FS_RemoveElement, Zenon
  <2> QED
    BY <2>2, <2>3, <2>4 DEF Adds
<1> QED
  BY <1>1, <1>2, Zenon DEF Counted

\* The cache gives up an entry
LEMMA Evicting ==
  ASSUME NEW ent, WellFormed(ent), NEW cch, NEW d, NEW l \in Users, Counted(ent, cch, l),
         NEW h \in Entries, Has(cch, h),
         \A x : Has(d, x) <=> (Has(cch, x) /\ x # h),
         NEW u, u = Unref(ent, h)
  PROVE  WellFormed(u) /\ Counted(u, d, l)
<1>1. ent[h].ref \in Nat \ {0}
  <2>1. ent[h].ref \in Nat /\ ent[h].ref >= 1
    BY CountIsPositive, Zenon
  <2> QED
    BY <2>1
<1>2. /\ WellFormed(u) /\ u[h].ref = ent[h].ref - 1
      /\ \A x \in Entries \ {h} : u[x] = ent[x]
  BY <1>1, UnrefIs
<1>3. ASSUME NEW x \in Entries
      PROVE  u[x].ref = Cardinality(Holders(l, x)) + (IF Has(d, x) THEN 1 ELSE 0)
  <2>1. /\ Cardinality(Holders(l, x)) \in Nat
        /\ ent[x].ref = Cardinality(Holders(l, x)) + (IF Has(cch, x) THEN 1 ELSE 0)
    BY HoldersFinite, Zenon DEF Counted
  <2>2. u[x].ref = IF x = h THEN ent[x].ref - 1 ELSE ent[x].ref
    BY <1>2, Zenon
  <2> QED
    BY <2>1, <2>2
<1> QED
  BY <1>2, <1>3, Zenon DEF Counted

LEMMA CachedEntries ==
  ASSUME NEW c \in Seq(Entries)
  PROVE  /\ \A x : Has(c, x) => x \in Entries
         /\ \A ent, off, x : x \in InCache(ent, c, off) <=> (Has(c, x) /\ ent[x].off = off)
<1>1. \A i \in DOMAIN c : c[i] \in Entries
  OBVIOUS
<1> QED
  BY <1>1, Zenon DEF Has, InCache

Reffed(ent, e) == [ent EXCEPT ![e].ref = @ + 1]

LEMMA RefOneMore ==
  ASSUME NEW ent, WellFormed(ent), NEW e \in Entries, NEW u, u = Reffed(ent, e)
  PROVE  /\ WellFormed(u)
         /\ \A x \in Entries : u[x].ref = IF x = e THEN ent[x].ref + 1 ELSE ent[x].ref
         /\ \A x \in Entries : u[x].off = ent[x].off /\ u[x].tab = ent[x].tab
  BY Zenon DEF WellFormed, Reffed

\* qed_commit_l2_cache_entry and the search that follows: the request hands its
\* reference to the cache, or gives it up, and has one to what it finds
LEMMA Committing ==
  ASSUME NEW ent, WellFormed(ent), NEW cch \in Caches, NEW l \in Users,
         Counted(ent, cch, l), NEW r \in Reqs, NEW e \in Entries, l[r] = e, ~Has(cch, e),
         NEW c, c = CommitAndFind(ent, cch, e), NEW k, k = With(l, r, c[3])
  PROVE  /\ WellFormed(c[1]) /\ c[2] \in Caches /\ c[3] \in Entries
         /\ Has(c[2], c[3]) /\ \A x : Has(c[2], x) => (Has(cch, x) \/ x = e)
         /\ k \in Users /\ k[r] = c[3] /\ Counted(c[1], c[2], k)
<1> DEFINE off == ent[e].off
           d == Committed(ent, cch, e)
<1>0. PICK u, b, m : u = d[1] /\ b = d[2] /\ m = With(l, r, None)
  BY Zenon
<1> DEFINE f == CHOOSE x \in InCache(u, b, off) : TRUE
<1>1. cch \in Seq(Entries) /\ Len(cch) \in Nat /\ Len(cch) <= CacheSize /\ Different(cch)
  BY DEF Caches
<1>2. /\ WellFormed(u) /\ b \in Caches /\ m \in Users /\ m[r] = None
      /\ Counted(u, b, m) /\ InCache(u, b, off) # {}
      /\ \A x : Has(b, x) => (Has(cch, x) \/ x = e)
  <2>1. CASE InCache(ent, cch, off) # {}
    <3>1. u = Unref(ent, l[r]) /\ b = cch
      BY <1>0, <2>1, Zenon DEF Committed
    <3>2. WellFormed(u) /\ m \in Users /\ m[r] = None /\ Counted(u, cch, m)
      BY <1>0, <3>1, Unholding
    <3>3. PICK x : x \in InCache(ent, cch, off)
      BY <2>1, Zenon
    <3>4. Has(cch, x) /\ ent[x].off = off /\ x \in Entries /\ x # e
      BY <1>1, <3>3, CachedEntries
    <3>5. ent[e].ref \in Nat \ {0}
      <4>1. ent[e].ref \in Nat /\ ent[e].ref >= 1
        BY CountIsPositive, Zenon
      <4> QED
        BY <4>1
    <3>6. u[x] = ent[x]
      BY <3>1, <3>4, <3>5, UnrefIs
    <3>7. x \in InCache(u, cch, off)
      BY <1>1, <3>4, <3>6, CachedEntries
    <3> QED
      BY <3>1, <3>2, <3>7, Zenon
  <2>2. CASE InCache(ent, cch, off) = {} /\ Len(cch) >= CacheSize
    <3> DEFINE h == Head(cch)
               t == Tail(cch)
    <3>1. u = Unref(ent, h) /\ b = Append(t, e)
      BY <1>0, <2>2, Zenon DEF Committed
    <3>2. cch # <<>>
      <4>1. Len(cch) # 0 /\ Len(<<>>) = 0
        BY <1>1, <2>2, SizeAssumption
      <4> QED
        BY <4>1, Zenon
    <3>3. /\ t \in Seq(Entries) /\ Different(t) /\ Len(t) = Len(cch) - 1
          /\ h \in Entries /\ Has(cch, h)
          /\ \A x : Has(t, x) <=> (Has(cch, x) /\ x # h)
      BY <1>1, <3>2, TailHas, Zenon
    <3> HIDE DEF h, t
    <3>4. WellFormed(u) /\ Counted(u, t, l)
      BY <3>1, <3>3, Evicting, Zenon
    <3>5. ~Has(t, e) /\ e # h
      BY <3>3, Zenon
    <3>6. /\ b \in Seq(Entries) /\ Len(b) = Len(t) + 1 /\ Different(b)
          /\ \A x : Has(b, x) <=> (Has(t, x) \/ x = e)
      BY <3>1, <3>3, <3>5, AppendHas, Zenon
    <3>7. b \in Caches
      <4>1. Len(b) <= CacheSize
        BY <1>1, <3>3, <3>6
      <4> QED
        BY <3>6, <4>1, Zenon DEF Caches
    <3>8. m \in Users /\ m[r] = None /\ Counted(u, b, m)
      <4>1. Adds(t, e, b)
        BY <3>6, Zenon DEF Adds
      <4> QED
        BY <1>0, <3>4, <3>5, <4>1, TakingOver
    <3>9. u[e] = ent[e]
      <4>1. ent[h].ref \in Nat /\ ent[h].ref >= 1
        BY <3>3, CountIsPositive, Zenon
      <4>2. ent[h].ref \in Nat \ {0}
        BY <4>1
      <4> QED
        BY <3>1, <3>3, <3>5, <4>2, UnrefIs
    <3>10. e \in InCache(u, b, off)
      BY <3>6, <3>9, CachedEntries, Zenon
    <3> QED
      BY <3>3, <3>4, <3>6, <3>7, <3>8, <3>10, Zenon
  <2>3. CASE InCache(ent, cch, off) = {} /\ ~(Len(cch) >= CacheSize)
    <3>1. u = ent /\ b = Append(cch, e)
      BY <1>0, <2>3, Zenon DEF Committed
    <3>2. /\ b \in Seq(Entries) /\ Len(b) = Len(cch) + 1 /\ Different(b)
          /\ \A x : Has(b, x) <=> (Has(cch, x) \/ x = e)
      BY <1>1, <3>1, AppendHas, Zenon
    <3>3. b \in Caches
      <4>1. Len(b) <= CacheSize
        BY <1>1, <2>3, <3>2, SizeAssumption
      <4> QED
        BY <3>2, <4>1, Zenon DEF Caches
    <3>4. m \in Users /\ m[r] = None /\ Counted(u, b, m)
      <4>1. Adds(cch, e, b)
        BY <3>2, Zenon DEF Adds
      <4> QED
        BY <1>0, <3>1, <4>1, TakingOver
    <3>5. e \in InCache(u, b, off)
      BY <3>1, <3>2, CachedEntries, Zenon
    <3> QED
      BY <3>1, <3>2, <3>3, <3>4, <3>5, Zenon
  <2> QED
    BY <2>1, <2>2, <2>3, Zenon
<1>3. c[1] = Reffed(u, f) /\ c[2] = b /\ c[3] = f
  BY <1>0, Zenon DEF CommitAndFind, Reffed
<1>4. b \in Seq(Entries)
  BY <1>2, Zenon DEF Caches
<1> HIDE DEF d
<1>5. f \in InCache(u, b, off)
  BY <1>2, Zenon
<1>6. Has(b, f) /\ f \in Entries
  BY <1>4, <1>5, CachedEntries, Zenon
<1> HIDE DEF f
<1>7. /\ WellFormed(c[1])
      /\ \A x \in Entries : c[1][x].ref = IF x = f THEN u[x].ref + 1 ELSE u[x].ref
  BY <1>2, <1>3, <1>6, RefOneMore
<1>8. k = With(m, r, f)
  BY <1>0, <1>2, <1>3, Zenon DEF Users, With
<1>9. k \in Users /\ k[r] = f /\ Counted(c[1], b, k)
  BY <1>2, <1>6, <1>7, <1>8, Holding, SMTT(60)
<1> QED
  BY <1>2, <1>3, <1>6, <1>7, <1>9, Zenon

\* There is always an entry to load a table into
LEMMA FreshIsFree ==
  ASSUME NEW ent, NEW cch \in Caches, NEW l \in Users, Counted(ent, cch, l)
  PROVE  Fresh(ent) \in Entries /\ ent[Fresh(ent)].ref = 0
<1> DEFINE C == {cch[i] : i \in DOMAIN cch}
           L == {l[r] : r \in Reqs}
           g == [i \in DOMAIN cch |-> cch[i]]
           h == [r \in Reqs |-> l[r]]
<1>1. cch \in Seq(Entries) /\ Len(cch) \in Nat /\ Len(cch) <= CacheSize
      /\ CacheSize \in Nat /\ DOMAIN cch = 1 .. Len(cch)
  BY SizeAssumption DEF Caches
<1>2. IsFiniteSet(1 .. Len(cch)) /\ Cardinality(1 .. Len(cch)) = Len(cch)
  <2>1. 1 \in Int /\ Len(cch) \in Int
    BY <1>1
  <2>2. IsFiniteSet(1 .. Len(cch))
        /\ Cardinality(1 .. Len(cch)) = IF 1 > Len(cch) THEN 0 ELSE Len(cch) - 1 + 1
    BY <2>1, FS_Interval, Zenon
  <2> QED
    BY <1>1, <2>2
<1>3. IsFiniteSet(C) /\ Cardinality(C) <= Len(cch) /\ Cardinality(C) \in Nat
  <2>1. g \in Surjection(1 .. Len(cch), C)
    BY <1>1, Zenon DEF Surjection
  <2>2. IsFiniteSet(C) /\ Cardinality(C) <= Cardinality(1 .. Len(cch))
    BY <1>2, <2>1, FS_Surjection, Zenon
  <2> QED
    BY <1>2, <2>2, FS_CardinalityType, Zenon
<1>4. IsFiniteSet(L) /\ Cardinality(L) <= Cardinality(Reqs) /\ Cardinality(L) \in Nat
  <2>1. h \in Surjection(Reqs, L)
    BY Zenon DEF Surjection
  <2> QED
    BY <2>1, RequestAssumption, FS_Surjection, FS_CardinalityType, Zenon
<1>5. Cardinality(Reqs) \in Nat
  BY RequestAssumption, FS_CardinalityType, Zenon
<1> HIDE DEF C, L, g, h
<1>6. /\ IsFiniteSet(C \cup L) /\ Cardinality(C \cup L) \in Nat
      /\ Cardinality(C \cup L) <= CacheSize + Cardinality(Reqs)
  <2>1. /\ IsFiniteSet(C \cup L) /\ IsFiniteSet(C \cap L)
        /\ Cardinality(C \cup L) = Cardinality(C) + Cardinality(L) - Cardinality(C \cap L)
    <3>1. C \cap L \in SUBSET C
      BY Zenon
    <3> QED
      BY <1>3, <1>4, <3>1, FS_Union, FS_Subset, Zenon
  <2>2. Cardinality(C \cap L) \in Nat /\ Cardinality(C \cup L) \in Nat
    BY <2>1, FS_CardinalityType, Zenon
  <2> QED
    BY <1>1, <1>3, <1>4, <1>5, <2>1, <2>2
<1>7. /\ IsFiniteSet(Entries)
      /\ Cardinality(Entries) = CacheSize + Cardinality(Reqs) + 1
  <2> DEFINE n == CacheSize + Cardinality(Reqs) + 1
  <2>1. n \in Nat /\ Entries = 1 .. n
    BY <1>1, <1>5 DEF Entries
  <2> HIDE DEF n
  <2>2. IsFiniteSet(1 .. n) /\ Cardinality(1 .. n) = n
    BY <2>1, FS_Interval
  <2> QED
    BY <2>1, <2>2, Zenon DEF n
<1>8. ~(Entries \subseteq C \cup L)
  <2> SUFFICES ASSUME Entries \in SUBSET (C \cup L) PROVE FALSE
    BY Zenon
  <2>1. Cardinality(Entries) <= Cardinality(C \cup L)
    BY <1>6, FS_Subset, Zenon
  <2> QED
    BY <1>1, <1>5, <1>6, <1>7, <2>1
<1>9. PICK e \in Entries : e \notin C /\ e \notin L
  BY <1>8, Zenon
<1>10. Holders(l, e) = {} /\ ~Has(cch, e)
  BY <1>9, Zenon DEF Holders, Has, C, L
<1>11. ent[e].ref = 0
  BY <1>10, FS_EmptySet DEF Counted
<1> QED
  BY <1>11, Zenon DEF Fresh

-----------------------------------------------------------------------------
\* The references, step by step

Fields == {"st", "op", "from", "to", "cur", "len", "val", "cluster", "n", "found", "l2", "ret"}

Shaped == DOMAIN req = Reqs /\ \A r \in Reqs : DOMAIN req[r] = Fields

Uses == [r \in Reqs |-> req[r].l2]

\* While a request loads or makes a table, nobody else has it
Making == {"table", "newtable", "tableflush", "l1table"}

Owned ==
  \A r \in Reqs : req[r].st \in Making =>
    /\ req[r].l2 \in Entries /\ ~Has(cache, req[r].l2)
    /\ \A x \in Reqs \ {r} : req[x].l2 # req[r].l2

Unused == \A r \in Reqs : req[r].st \in {"idle", "bh"} => req[r].l2 = None

RefInv ==
  /\ Shaped /\ Uses \in Users
  /\ WellFormed(entry) /\ cache \in Caches
  /\ Counted(entry, cache, Uses)
  /\ Owned /\ Unused

\* A step of r: other requests go on, if anything
Step(r) ==
  /\ Shaped'
  /\ \A x \in Reqs \ {r} :
       req'[x].l2 = req[x].l2 /\ (req'[x].st = req[x].st \/ req'[x].st = "go")

LEMMA UsesChange ==
  ASSUME RefInv, NEW r \in Reqs, Step(r)
  PROVE  /\ Uses' = With(Uses, r, req'[r].l2)
         /\ \A x \in Reqs : Uses[x] = req[x].l2 /\ Uses'[x] = req'[x].l2
  BY Zenon DEF Step, Uses, With

\* What the requests other than r own stays theirs
LEMMA OthersOwn ==
  ASSUME RefInv, NEW r \in Reqs, Step(r),
         \A e : Has(cache', e) =>
           Has(cache, e) \/ (req[r].st \in Making /\ e = req[r].l2),
         \/ req'[r].l2 = None
         \/ req'[r].l2 = req[r].l2
         \/ Has(cache', req'[r].l2)
         \/ \A x \in Reqs \ {r} : req[x].l2 # req'[r].l2
  PROVE  \A x \in Reqs \ {r} : req'[x].st \in Making =>
           /\ req'[x].l2 \in Entries /\ ~Has(cache', req'[x].l2)
           /\ \A y \in Reqs \ {x} : req'[y].l2 # req'[x].l2
<1> SUFFICES ASSUME NEW x \in Reqs \ {r}, req'[x].st \in Making
             PROVE  /\ req'[x].l2 \in Entries /\ ~Has(cache', req'[x].l2)
                    /\ \A y \in Reqs \ {x} : req'[y].l2 # req'[x].l2
  BY Zenon
<1>1. req'[x].l2 = req[x].l2 /\ req[x].st \in Making
  BY Zenon DEF Step, Making
<1>2. /\ req[x].l2 \in Entries /\ ~Has(cache, req[x].l2)
      /\ \A y \in Reqs \ {x} : req[y].l2 # req[x].l2
  BY <1>1, Zenon DEF RefInv, Owned
<1>3. req[x].l2 # req[r].l2 /\ req[x].l2 # None
  BY <1>2, NoneIsNoEntry, Zenon
<1>4. ~Has(cache', req[x].l2)
  BY <1>2, <1>3, Zenon
<1>5. req'[r].l2 # req[x].l2
  BY <1>3, <1>4, Zenon
<1>6. ASSUME NEW y \in Reqs \ {x} PROVE req'[y].l2 # req'[x].l2
  BY <1>1, <1>2, <1>5, Zenon DEF Step
<1> QED
  BY <1>1, <1>2, <1>4, <1>6, Zenon

\* The request keeps its table
LEMMA Keeping ==
  ASSUME RefInv, NEW r \in Reqs, Step(r), WellFormed(entry'), cache' = cache,
         \A e \in Entries : entry'[e].ref = entry[e].ref,
         req'[r].l2 = req[r].l2,
         req'[r].st \in Making => req[r].st \in Making,
         req'[r].st \in {"idle", "bh"} => req[r].l2 = None
  PROVE  RefInv'
<1>1. Uses' = Uses
  BY UsesChange, Zenon DEF Uses, Step
<1>2. Counted(entry', cache', Uses')
  BY <1>1, Zenon DEF RefInv, Counted
<1>3. \A x \in Reqs \ {r} : req'[x].st \in Making =>
        /\ req'[x].l2 \in Entries /\ ~Has(cache', req'[x].l2)
        /\ \A y \in Reqs \ {x} : req'[y].l2 # req'[x].l2
  BY OthersOwn, Zenon
<1>4. Owned'
  BY <1>3 DEF RefInv, Owned, Step
<1>5. Unused'
  BY Zenon DEF RefInv, Unused, Step
<1>6. Uses' \in Users /\ cache' \in Caches /\ Shaped'
  BY <1>1, Zenon DEF RefInv, Step
<1> QED
  BY <1>2, <1>4, <1>5, <1>6, Zenon DEF RefInv

\* The request gives its table up
LEMMA Dropping ==
  ASSUME RefInv, NEW r \in Reqs, Step(r), cache' = cache,
         entry' = Unref(entry, req[r].l2),
         req'[r].l2 = None, req'[r].st \notin Making
  PROVE  RefInv'
<1>1. Uses' = With(Uses, r, None) /\ Uses[r] = req[r].l2
  BY UsesChange, Zenon
<1>2. WellFormed(entry') /\ Uses' \in Users /\ Counted(entry', cache', Uses')
  BY <1>1, Unholding DEF RefInv
<1>3. \A x \in Reqs \ {r} : req'[x].st \in Making =>
        /\ req'[x].l2 \in Entries /\ ~Has(cache', req'[x].l2)
        /\ \A y \in Reqs \ {x} : req'[y].l2 # req'[x].l2
  BY OthersOwn, Zenon
<1>4. Owned'
  BY <1>3, Zenon DEF Owned
<1>5. Unused'
  BY Zenon DEF RefInv, Unused, Step
<1> QED
  BY <1>2, <1>4, <1>5, Zenon DEF RefInv, Step

\* The request gives its table up for another, which is in the cache or is made
LEMMA Taking ==
  ASSUME RefInv, NEW r \in Reqs, Step(r), cache' = cache,
         NEW ent, ent = Unref(entry, req[r].l2), NEW e,
         Has(cache, e) \/ e = Fresh(ent),
         WellFormed(entry'),
         \A x \in Entries : entry'[x].ref = IF x = e THEN ent[x].ref + 1 ELSE ent[x].ref,
         req'[r].l2 = e,
         req'[r].st \in Making => ~Has(cache, e),
         req'[r].st \notin {"idle", "bh"}
  PROVE  RefInv'
<1>1. Uses' = With(Uses, r, e) /\ Uses[r] = req[r].l2
  BY UsesChange, Zenon
<1>2. PICK m : m = With(Uses, r, None)
  BY Zenon
<1>3. WellFormed(ent) /\ m \in Users /\ m[r] = None /\ Counted(ent, cache, m)
  BY <1>1, <1>2, Unholding DEF RefInv
<1>4. Fresh(ent) \in Entries /\ ent[Fresh(ent)].ref = 0
  BY <1>3, FreshIsFree, Zenon DEF RefInv
<1>5. e \in Entries
  <2>1. cache \in Seq(Entries)
    BY Zenon DEF RefInv, Caches
  <2> QED
    BY <1>4, <2>1, CachedEntries, Zenon
<1>6. With(Uses, r, e) = With(m, r, e)
  BY <1>2, Zenon DEF With
<1>7. Uses' \in Users /\ Counted(entry', cache', Uses')
  BY <1>1, <1>3, <1>5, <1>6, Holding
<1>8. Has(cache, e) \/ \A x \in Reqs \ {r} : req[x].l2 # e
  <2> SUFFICES ASSUME e = Fresh(ent), NEW x \in Reqs \ {r}, req[x].l2 = e PROVE FALSE
    BY Zenon
  <2>1. m[x] = e
    BY <1>2, UsesChange, Zenon DEF With, RefInv, Users
  <2>2. ent[e].ref >= 1
    BY <1>3, <1>5, <2>1, CountIsPositive
  <2> QED
    BY <1>4, <2>2
<1>9. \A x \in Reqs \ {r} : req'[x].st \in Making =>
        /\ req'[x].l2 \in Entries /\ ~Has(cache', req'[x].l2)
        /\ \A y \in Reqs \ {x} : req'[y].l2 # req'[x].l2
  BY <1>8, OthersOwn, Zenon
<1>10. ASSUME req'[r].st \in Making
       PROVE  /\ req'[r].l2 \in Entries /\ ~Has(cache', req'[r].l2)
              /\ \A y \in Reqs \ {r} : req'[y].l2 # req'[r].l2
  BY <1>5, <1>8, <1>10, Zenon DEF Step
<1>11. Owned'
  BY <1>9, <1>10, Zenon DEF Owned
<1>12. Unused'
  BY Zenon DEF RefInv, Unused, Step
<1> QED
  BY <1>7, <1>11, <1>12, Zenon DEF RefInv, Step

\* The request puts its table in the cache and has what it finds there
LEMMA Publishing ==
  ASSUME RefInv, NEW r \in Reqs, Step(r), req[r].st \in Making,
         NEW ent, WellFormed(ent), \A e \in Entries : ent[e].ref = entry[e].ref,
         NEW c, c = CommitAndFind(ent, cache, req[r].l2),
         cache' = c[2],
         \/ entry' = c[1] /\ req'[r].l2 = c[3] /\ req'[r].st \notin {"idle", "bh"}
         \/ entry' = Unref(c[1], c[3]) /\ req'[r].l2 = None,
         req'[r].st \notin Making
  PROVE  RefInv'
<1> DEFINE e == req[r].l2
<1>1. e \in Entries /\ ~Has(cache, e)
  BY Zenon DEF RefInv, Owned
<1>2. Counted(ent, cache, Uses) /\ Uses \in Users /\ cache \in Caches /\ Uses[r] = e
  BY UsesChange, Zenon DEF RefInv, Counted
<1>3. PICK k : k = With(Uses, r, c[3])
  BY Zenon
<1> HIDE DEF e
<1>4. /\ WellFormed(c[1]) /\ c[2] \in Caches /\ c[3] \in Entries
      /\ Has(c[2], c[3]) /\ \A x : Has(c[2], x) => (Has(cache, x) \/ x = e)
      /\ k \in Users /\ k[r] = c[3] /\ Counted(c[1], c[2], k)
  BY <1>1, <1>2, <1>3, Committing DEF e
<1>5. WellFormed(entry') /\ Uses' \in Users /\ Counted(entry', cache', Uses')
  <2>1. CASE entry' = c[1] /\ req'[r].l2 = c[3]
    <3>1. Uses' = k
      BY <1>3, <2>1, UsesChange, Zenon
    <3> QED
      BY <1>4, <2>1, <3>1, Zenon
  <2>2. CASE entry' = Unref(c[1], c[3]) /\ req'[r].l2 = None
    <3>1. Uses' = With(k, r, None)
      <4>1. Uses' = With(Uses, r, None)
        BY <2>2, UsesChange, Zenon
      <4>2. With(k, r, None) = With(Uses, r, None)
        BY <1>3, Zenon DEF With
      <4> QED
        BY <4>1, <4>2, Zenon
    <3> QED
      BY <1>4, <2>2, <3>1, Unholding
  <2> QED
    BY <2>1, <2>2, Zenon
<1>6. \A x \in Reqs \ {r} : req'[x].st \in Making =>
        /\ req'[x].l2 \in Entries /\ ~Has(cache', req'[x].l2)
        /\ \A y \in Reqs \ {x} : req'[y].l2 # req'[x].l2
  BY <1>4, OthersOwn, Zenon DEF e
<1>7. Owned'
  BY <1>6, Zenon DEF Owned
<1>8. Unused'
  BY Zenon DEF RefInv, Unused, Step
<1> QED
  BY <1>4, <1>5, <1>7, <1>8, Zenon DEF RefInv, Step

\* Nothing is in use: only the cache has references
Empty ==
  /\ Shaped /\ \A r \in Reqs : req[r].l2 = None /\ req[r].st \notin Making
  /\ WellFormed(entry) /\ cache \in Caches
  /\ \A e \in Entries : entry[e].ref = IF Has(cache, e) THEN 1 ELSE 0

LEMMA Resetting == Empty => RefInv
<1> SUFFICES ASSUME Empty PROVE RefInv
  BY Zenon
<1> USE DEF Empty
<1>1. Uses \in Users
  BY Zenon DEF Uses, Users
<1>2. ASSUME NEW e \in Entries PROVE Cardinality(Holders(Uses, e)) = 0
  <2>1. Holders(Uses, e) = {}
    BY NoneIsNoEntry, Zenon DEF Holders, Uses
  <2> QED
    BY <2>1, FS_EmptySet, Zenon
<1>3. Counted(entry, cache, Uses)
  BY <1>2 DEF Counted
<1>4. Owned /\ Unused
  BY Zenon DEF Owned, Unused
<1> QED
  BY <1>1, <1>3, <1>4, Zenon DEF RefInv

\* The operators that make requests
LEMMA RequestsAre ==
  /\ DOMAIN NoReq = Fields /\ NoReq.st = "idle" /\ NoReq.l2 = None
  /\ \A q, ret : /\ DOMAIN Ended(q, ret) = Fields
                 /\ Ended(q, ret).st = "bh" /\ Ended(q, ret).l2 = None
<1>1. DOMAIN NoReq = Fields /\ NoReq.st = "idle" /\ NoReq.l2 = None
  BY Zenon DEF NoReq, Fields
<1>2. ASSUME NEW q, NEW ret
      PROVE  /\ DOMAIN Ended(q, ret) = Fields
             /\ Ended(q, ret).st = "bh" /\ Ended(q, ret).l2 = None
  BY Zenon DEF Ended, NoReq, Fields
<1> QED
  BY <1>1, <1>2, Zenon

\* A step that changes the request r only
LEMMA Alone ==
  ASSUME RefInv, NEW r \in Reqs, NEW q, DOMAIN q = Fields, Becomes(r, q)
  PROVE  /\ Step(r) /\ req'[r] = q
         /\ \A x \in Reqs \ {r} : req'[x] = req[x]
  BY Zenon DEF RefInv, Shaped, Becomes, Step

\* qed_aio_complete
LEMMA Ending ==
  ASSUME RefInv, NEW r \in Reqs, NEW ret, NEW ent, NEW q, End(r, ret, ent, q)
  PROVE  /\ Step(r) /\ req'[r].l2 = None /\ req'[r].st = "bh"
         /\ entry' = Unref(ent, q.l2)
<1> DEFINE first == queue # <<>> /\ Head(queue) = r
           rest == IF first THEN Tail(queue) ELSE queue
           next == IF first /\ rest # <<>> THEN {Head(rest)} ELSE {}
<1>1. /\ entry' = Unref(ent, q.l2)
      /\ req' = [x \in Reqs |-> IF x = r THEN Ended(q, ret)
                                ELSE IF x \in next THEN To(x, "go") ELSE req[x]]
  BY Zenon DEF End
<1> HIDE DEF next
<1>2. req'[r] = Ended(q, ret) /\ DOMAIN req' = Reqs
  BY <1>1, Zenon
<1>3. ASSUME NEW x \in Reqs \ {r}
      PROVE  /\ req'[x].l2 = req[x].l2 /\ DOMAIN req'[x] = Fields
             /\ req'[x].st = req[x].st \/ req'[x].st = "go"
  <2>1. req'[x] = To(x, "go") \/ req'[x] = req[x]
    BY <1>1, Zenon
  <2>2. DOMAIN req[x] = Fields
    BY Zenon DEF RefInv, Shaped
  <2> QED
    BY <2>1, <2>2, Zenon DEF To, Fields
<1>4. Shaped'
  BY <1>2, <1>3, RequestsAre DEF Shaped
<1> QED
  BY <1>1, <1>2, <1>3, <1>4, RequestsAre, Zenon DEF Step

\* Requests are woken, if anything
LEMMA Waking ==
  ASSUME RefInv, Shaped', UNCHANGED <<entry, cache>>,
         \A x \in Reqs : req'[x].l2 = req[x].l2 /\ (req'[x].st = req[x].st \/ req'[x].st = "go")
  PROVE  RefInv'
<1>1. Uses' = Uses
  BY Zenon DEF Uses
<1>2. Owned'
  BY DEF RefInv, Owned, Making
<1>3. Unused'
  BY Zenon DEF RefInv, Unused
<1> QED
  BY <1>1, <1>2, <1>3, Zenon DEF RefInv

\* A request that only goes on to its next access
LEMMA GoingOn ==
  ASSUME RefInv, NEW r \in Reqs, NEW st, st \notin {"idle", "bh"},
         st \in Making => req[r].st \in Making,
         NEW q, DOMAIN q = Fields, q.l2 = req[r].l2, q.st = st, Becomes(r, q),
         UNCHANGED <<entry, cache>>
  PROVE  RefInv'
<1>1. Step(r) /\ req'[r] = q
  BY Alone, Zenon
<1>2. WellFormed(entry') /\ \A e \in Entries : entry'[e].ref = entry[e].ref
  BY Zenon DEF RefInv
<1> QED
  BY <1>1, <1>2, Keeping, Zenon

LEMMA Changed ==
  ASSUME RefInv, NEW r \in Reqs, NEW st
  PROVE  /\ DOMAIN To(r, st) = Fields /\ To(r, st).st = st /\ To(r, st).l2 = req[r].l2
         /\ DOMAIN Advanced(r) = Fields /\ Advanced(r).st = "go"
         /\ Advanced(r).l2 = req[r].l2
<1>1. DOMAIN req[r] = Fields
  BY Zenon DEF RefInv, Shaped
<1> QED
  BY <1>1, Zenon DEF To, Advanced, Fields

\* qed_aio_write_data and qed_aio_read_data leave the table with the request
LEMMA FoundGoesOn ==
  ASSUME NEW r, NEW found, NEW cluster, NEW len, NEW q, DOMAIN q = Fields,
         Found(r, found, cluster, len, q)
  PROVE  \E p : /\ Becomes(r, p) /\ DOMAIN p = Fields /\ p.l2 = q.l2
                /\ p.st \in {"queued", "header", "data", "fill", "read"}
<1> DEFINE f == [q EXCEPT !.found = found, !.cluster = cluster, !.len = len]
<1>1. DOMAIN f = Fields /\ f.l2 = q.l2
  BY Zenon DEF Fields
<1> HIDE DEF f
<1>2. CASE WriteAlloc(r, f)
  <2>1. PICK n, c : \/ Becomes(r, [f EXCEPT !.st = "queued", !.len = 0])
                    \/ Becomes(r, [[f EXCEPT !.n = n, !.cluster = c] EXCEPT !.st = "header"])
                    \/ Becomes(r, [[f EXCEPT !.n = n, !.cluster = c] EXCEPT !.st = "data"])
                    \/ Becomes(r, [[f EXCEPT !.n = n, !.cluster = c] EXCEPT !.st = "fill"])
    BY <1>2, Zenon DEF WriteAlloc, FirstWrite
  <2>2. LET p == [f EXCEPT !.st = "queued", !.len = 0]
        IN  DOMAIN p = Fields /\ p.l2 = q.l2 /\ p.st = "queued"
    BY <1>1, Zenon DEF Fields
  <2>3. \A st : LET p == [[f EXCEPT !.n = n, !.cluster = c] EXCEPT !.st = st]
                IN  DOMAIN p = Fields /\ p.l2 = q.l2 /\ p.st = st
    BY <1>1, Zenon DEF Fields
  <2> QED
    BY <2>1, <2>2, <2>3, ZenonT(60)
<1>3. CASE \E st \in {"read", "data"} : Becomes(r, [f EXCEPT !.st = st])
  <2>1. PICK st \in {"read", "data"} : Becomes(r, [f EXCEPT !.st = st])
    BY <1>3, Zenon
  <2>2. LET p == [f EXCEPT !.st = st]
        IN  DOMAIN p = Fields /\ p.l2 = q.l2 /\ p.st = st
    BY <1>1, Zenon DEF Fields
  <2> QED
    BY <2>1, <2>2, Zenon
<1> QED
  BY <1>2, <1>3, Zenon DEF Found, f

\* What a request gets when it loads or makes a table
LEMMA Freshly ==
  ASSUME RefInv, NEW r \in Reqs, NEW ent, ent = Unref(entry, req[r].l2)
  PROVE  /\ WellFormed(ent) /\ Fresh(ent) \in Entries /\ ent[Fresh(ent)].ref = 0
         /\ ~Has(cache, Fresh(ent))
<1>1. PICK m : m = With(Uses, r, None)
  BY Zenon
<1>2. Uses[r] = req[r].l2
  BY Zenon DEF Uses
<1>3. WellFormed(ent) /\ m \in Users /\ Counted(ent, cache, m)
  BY <1>1, <1>2, Unholding DEF RefInv
<1>4. Fresh(ent) \in Entries /\ ent[Fresh(ent)].ref = 0
  BY <1>3, FreshIsFree, Zenon DEF RefInv
<1>5. Has(cache, Fresh(ent)) => ent[Fresh(ent)].ref >= 1
  BY <1>3, <1>4, CountIsPositive, Zenon
<1> QED
  BY <1>3, <1>4, <1>5

LEMMA NextIoRefs ==
  ASSUME RefInv, NEW r \in Reqs, NextIo(r)
  PROVE  RefInv'
<1> DEFINE q == req[r]
           off == l1[qed_l1_index(q.cur)]
           ent == Unref(entry, q.l2)
           hit == InCache(ent, cache, off)
<1>1. cache' = cache /\ DOMAIN q = Fields /\ cache \in Seq(Entries)
  BY Zenon DEF NextIo, RefInv, Shaped, Caches
<1>2. CASE \E ret : End(r, ret, entry, q)
  <2>1. Step(r) /\ req'[r].l2 = None /\ req'[r].st = "bh" /\ entry' = Unref(entry, q.l2)
    BY <1>2, Ending, Zenon
  <2> QED
    BY <1>1, <2>1, Dropping, Zenon DEF Making
<1>3. CASE (\E found, cluster, len : Found(r, found, cluster, len, q)) /\ entry' = entry
  <2>1. PICK p : /\ Becomes(r, p) /\ DOMAIN p = Fields /\ p.l2 = q.l2
                 /\ p.st \in {"queued", "header", "data", "fill", "read"}
    BY <1>1, <1>3, FoundGoesOn
  <2> QED
    BY <1>1, <1>3, <2>1, GoingOn, Zenon DEF Making
<1>4. CASE \E e \in IF hit # {} THEN hit ELSE {Fresh(ent)} :
             /\ entry' = [ent EXCEPT ![e].ref = @ + 1]
             /\ Becomes(r, [q EXCEPT !.l2 = e, !.st = IF hit # {} THEN "look" ELSE "table"])
  <2>1. PICK e \in IF hit # {} THEN hit ELSE {Fresh(ent)} :
             /\ entry' = Reffed(ent, e)
             /\ Becomes(r, [q EXCEPT !.l2 = e, !.st = IF hit # {} THEN "look" ELSE "table"])
    BY <1>4, Zenon DEF Reffed
  <2>2. /\ WellFormed(ent) /\ Fresh(ent) \in Entries /\ ~Has(cache, Fresh(ent))
    BY Freshly, Zenon
  <2>3. /\ hit # {} => Has(cache, e)
        /\ hit = {} => e = Fresh(ent)
    BY <1>1, CachedEntries, Zenon
  <2> HIDE DEF hit, ent
  <2>4. e \in Entries
    BY <1>1, <2>2, <2>3, CachedEntries, Zenon
  <2>5. /\ WellFormed(entry')
        /\ \A x \in Entries : entry'[x].ref = IF x = e THEN ent[x].ref + 1 ELSE ent[x].ref
    BY <2>1, <2>2, <2>4, RefOneMore
  <2>6. PICK p : p = [q EXCEPT !.l2 = e, !.st = IF hit # {} THEN "look" ELSE "table"]
    BY Zenon
  <2>7. DOMAIN p = Fields /\ p.l2 = e /\ p.st = IF hit # {} THEN "look" ELSE "table"
    BY <1>1, <2>6, Zenon DEF Fields
  <2>8. Step(r) /\ req'[r] = p
    BY <2>1, <2>6, <2>7, Alone, Zenon
  <2>9. /\ Has(cache, e) \/ e = Fresh(ent)
        /\ req'[r].st \in Making => ~Has(cache, e)
        /\ req'[r].st \notin {"idle", "bh"} /\ req'[r].l2 = e
    BY <2>2, <2>3, <2>7, <2>8, Zenon DEF Making
  <2> QED
    BY <1>1, <2>5, <2>8, <2>9, Taking DEF ent
<1> QED
  BY <1>2, <1>3, <1>4, Zenon DEF NextIo

LEMMA LookRefs ==
  ASSUME RefInv, NEW r \in Reqs, Look(r)
  PROVE  RefInv'
<1> DEFINE q == req[r]
<1>1. cache' = cache /\ DOMAIN q = Fields
  BY Zenon DEF Look, RefInv, Shaped
<1>2. CASE \E ret : End(r, ret, entry, q)
  <2>1. Step(r) /\ req'[r].l2 = None /\ req'[r].st = "bh" /\ entry' = Unref(entry, q.l2)
    BY <1>2, Ending, Zenon
  <2> QED
    BY <1>1, <2>1, Dropping, Zenon DEF Making
<1>3. CASE (\E found, cluster, len : Found(r, found, cluster, len, q)) /\ entry' = entry
  <2>1. PICK p : /\ Becomes(r, p) /\ DOMAIN p = Fields /\ p.l2 = q.l2
                 /\ p.st \in {"queued", "header", "data", "fill", "read"}
    BY <1>1, <1>3, FoundGoesOn
  <2> QED
    BY <1>1, <1>3, <2>1, GoingOn, Zenon DEF Making
<1> QED
  BY <1>2, <1>3, Zenon DEF Look

LEMMA TableReadRefs ==
  ASSUME RefInv, NEW r \in Reqs, TableRead(r)
  PROVE  RefInv'
<1>1. PICK off, tab, ent, c :
        /\ ent = [entry EXCEPT ![req[r].l2].off = off, ![req[r].l2].tab = tab]
        /\ c = CommitAndFind(ent, cache, req[r].l2)
        /\ req[r].st = "table" /\ entry' = c[1] /\ cache' = c[2]
        /\ Becomes(r, [req[r] EXCEPT !.l2 = c[3], !.st = "look"])
  BY Zenon DEF TableRead
<1>2. WellFormed(entry) /\ DOMAIN req[r] = Fields
  BY Zenon DEF RefInv, Shaped
<1>3. WellFormed(ent) /\ \A e \in Entries : ent[e].ref = entry[e].ref
  BY <1>1, <1>2, Zenon DEF WellFormed
<1>4. PICK p : p = [req[r] EXCEPT !.l2 = c[3], !.st = "look"]
  BY Zenon
<1>5. DOMAIN p = Fields /\ p.l2 = c[3] /\ p.st = "look"
  BY <1>2, <1>4, Zenon DEF Fields
<1>6. Step(r) /\ req'[r] = p
  BY <1>1, <1>4, <1>5, Alone, Zenon
<1>7. /\ req[r].st \in Making /\ req'[r].st \notin Making
      /\ req'[r].st \notin {"idle", "bh"} /\ req'[r].l2 = c[3]
  BY <1>1, <1>5, <1>6, Zenon DEF Making
<1> QED
  BY <1>1, <1>3, <1>6, <1>7, Publishing, Zenon

LEMMA L1TableWrittenRefs ==
  ASSUME RefInv, NEW r \in Reqs, L1TableWritten(r)
  PROVE  RefInv'
<1>1. PICK c :
        /\ c = CommitAndFind(entry, cache, req[r].l2)
        /\ req[r].st = "l1table" /\ entry' = c[1] /\ cache' = c[2]
        /\ Becomes(r, [Advanced(r) EXCEPT !.l2 = c[3]])
  BY Zenon DEF L1TableWritten
<1>2. WellFormed(entry) /\ DOMAIN Advanced(r) = Fields /\ Advanced(r).st = "go"
  BY Changed, Zenon DEF RefInv
<1>3. PICK p : p = [Advanced(r) EXCEPT !.l2 = c[3]]
  BY Zenon
<1>4. DOMAIN p = Fields /\ p.l2 = c[3] /\ p.st = "go"
  BY <1>2, <1>3, Zenon DEF Fields
<1>5. Step(r) /\ req'[r] = p
  BY <1>1, <1>3, <1>4, Alone, Zenon
<1>6. /\ req[r].st \in Making /\ req'[r].st \notin Making
      /\ req'[r].st \notin {"idle", "bh"} /\ req'[r].l2 = c[3]
  BY <1>1, <1>4, <1>5, Zenon DEF Making
<1> QED
  BY <1>1, <1>2, <1>5, <1>6, Publishing, Zenon

\* qed_aio_write_l2_update
LEMMA L2UpdateRefs ==
  ASSUME RefInv, NEW r \in Reqs, L2Update(r), cache' = cache
  PROVE  RefInv'
<1>1. DOMAIN req[r] = Fields /\ WellFormed(entry)
  BY Zenon DEF RefInv, Shaped
<1>2. CASE req[r].found = "l1"
  <2>1. PICK ent, e, off, tab :
          /\ ent = Unref(entry, req[r].l2) /\ e = Fresh(ent)
          /\ entry' = [ent EXCEPT ![e] = [off |-> off, tab |-> tab, ref |-> 1]]
          /\ Becomes(r, [req[r] EXCEPT !.l2 = e, !.st = "newtable"])
    BY <1>2, Zenon DEF L2Update
  <2>2. /\ WellFormed(ent) /\ e \in Entries /\ ent[e].ref = 0 /\ ~Has(cache, e)
    BY <2>1, Freshly, Zenon
  <2>3. /\ WellFormed(entry')
        /\ \A x \in Entries : entry'[x].ref = IF x = e THEN ent[x].ref + 1 ELSE ent[x].ref
    BY <2>1, <2>2 DEF WellFormed
  <2>4. PICK p : p = [req[r] EXCEPT !.l2 = e, !.st = "newtable"]
    BY Zenon
  <2>5. DOMAIN p = Fields /\ p.l2 = e /\ p.st = "newtable"
    BY <1>1, <2>4, Zenon DEF Fields
  <2>6. Step(r) /\ req'[r] = p
    BY <2>1, <2>4, <2>5, Alone, Zenon
  <2>7. req'[r].l2 = e /\ req'[r].st \notin {"idle", "bh"}
    BY <2>5, <2>6, Zenon
  <2> QED
    BY <2>1, <2>2, <2>3, <2>6, <2>7, Taking
<1>3. CASE req[r].found # "l1"
  <2>1. PICK tab : /\ entry' = [entry EXCEPT ![req[r].l2].tab = tab]
                   /\ Becomes(r, To(r, "l2table"))
    BY <1>3, Zenon DEF L2Update
  <2>2. WellFormed(entry') /\ \A e \in Entries : entry'[e].ref = entry[e].ref
    BY <1>1, <2>1, Zenon DEF WellFormed
  <2>3. Step(r) /\ req'[r] = To(r, "l2table")
    BY <2>1, Changed, Alone, Zenon
  <2>4. req'[r].l2 = req[r].l2 /\ req'[r].st = "l2table"
    BY <2>3, Changed
  <2> QED
    BY <2>2, <2>3, <2>4, Keeping, Zenon DEF Making
<1> QED
  BY <1>2, <1>3, Zenon

LEMMA DataWrittenRefs ==
  ASSUME RefInv, NEW r \in Reqs, DataWritten(r) \/ Flushed(r)
  PROVE  RefInv'
<1>1. cache' = cache
  BY Zenon DEF DataWritten, Flushed
<1>2. CASE L2Update(r)
  BY <1>1, <1>2, L2UpdateRefs, Zenon
<1>3. CASE Becomes(r, Advanced(r)) /\ entry' = entry
  BY <1>1, <1>3, Changed, GoingOn, Zenon DEF Making
<1>4. CASE Becomes(r, To(r, "flush")) /\ entry' = entry
  <2>1. DOMAIN To(r, "flush") = Fields /\ To(r, "flush").st = "flush"
        /\ To(r, "flush").l2 = req[r].l2
    BY Changed, Zenon
  <2> QED
    BY <1>1, <1>4, <2>1, GoingOn, Zenon DEF Making
<1> QED
  BY <1>2, <1>3, <1>4, Zenon DEF DataWritten, Flushed

\* The other accesses: the request has the same table before and after
LEMMA AccessRefs ==
  ASSUME RefInv, NEW r \in Reqs,
         \/ ReadDone(r) \/ HeaderWritten(r) \/ Filled(r) \/ L2TableWritten(r)
         \/ NewTableWritten(r) \/ NewTableFlushed(r)
  PROVE  RefInv'
<1>1. entry' = entry /\ cache' = cache
  BY Zenon DEF ReadDone, HeaderWritten, Filled, L2TableWritten, NewTableWritten, NewTableFlushed, l2s
<1>2. CASE Becomes(r, Advanced(r))
  BY <1>1, <1>2, Changed, GoingOn, Zenon DEF Making
<1>3. ASSUME NEW st \in {"data", "fill", "tableflush", "l1table"}, Becomes(r, To(r, st)),
             st \in Making => req[r].st \in Making
      PROVE  RefInv'
  <2>1. DOMAIN To(r, st) = Fields /\ To(r, st).st = st /\ To(r, st).l2 = req[r].l2
    BY Changed, Zenon
  <2> QED
    BY <1>1, <1>3, <2>1, GoingOn, Zenon
<1>4. CASE ReadDone(r) \/ L2TableWritten(r)
  BY <1>2, <1>4, Zenon DEF ReadDone, L2TableWritten
<1>5. CASE HeaderWritten(r) \/ Filled(r)
  BY <1>3, <1>5, Zenon DEF HeaderWritten, Filled, FirstWrite, Making
<1>6. CASE NewTableWritten(r) \/ NewTableFlushed(r)
  BY <1>3, <1>6, Zenon DEF NewTableWritten, NewTableFlushed, Making
<1> QED
  BY <1>4, <1>5, <1>6, Zenon

LEMMA IoErrorRefs ==
  ASSUME RefInv, NEW r \in Reqs, IoError(r)
  PROVE  RefInv'
<1> DEFINE q == req[r]
<1>1. DOMAIN q = Fields /\ WellFormed(entry)
  BY Zenon DEF RefInv, Shaped
<1>2. CASE Ignored(q)
  <2>1. PICK st \in {"flush", "data", "fill"} : Becomes(r, To(r, st)) /\ UNCHANGED l2s
    BY <1>2, Zenon DEF IoError, FirstWrite
  <2>2. DOMAIN To(r, st) = Fields /\ To(r, st).st = st /\ To(r, st).l2 = req[r].l2
    BY Changed, Zenon
  <2> QED
    BY <2>1, <2>2, GoingOn, Zenon DEF Making, l2s
<1>3. CASE ~Ignored(q) /\ q.st = "l1table"
  <2>1. PICK c, p : /\ c = CommitAndFind(entry, cache, q.l2) /\ p = [q EXCEPT !.l2 = c[3]]
                    /\ End(r, "error", c[1], p) /\ cache' = c[2]
    BY <1>3, Zenon DEF IoError
  <2>2. p.l2 = c[3]
    BY <1>1, <2>1, Zenon DEF Fields
  <2>a. PICK ent : ent = c[1]
    BY Zenon
  <2>b. End(r, "error", ent, p)
    BY <2>1, <2>a, Zenon
  <2>c. Step(r) /\ req'[r].l2 = None /\ req'[r].st = "bh" /\ entry' = Unref(ent, p.l2)
    BY <2>b, Ending, Zenon
  <2>3. Step(r) /\ req'[r].l2 = None /\ req'[r].st = "bh" /\ entry' = Unref(c[1], c[3])
    BY <2>2, <2>a, <2>c, Zenon
  <2>4. req[r].st \in Making /\ req'[r].st \notin Making
    BY <1>3, <2>3, Zenon DEF Making
  <2> QED
    BY <1>1, <2>1, <2>3, <2>4, Publishing, Zenon
<1>4. CASE ~Ignored(q) /\ q.st # "l1table"
  <2>1. End(r, "error", entry, q) /\ cache' = cache
    BY <1>4, Zenon DEF IoError
  <2>2. Step(r) /\ req'[r].l2 = None /\ req'[r].st = "bh" /\ entry' = Unref(entry, q.l2)
    BY <2>1, Ending, Zenon
  <2> QED
    BY <2>1, <2>2, Dropping, Zenon DEF Making
<1> QED
  BY <1>2, <1>3, <1>4, Zenon

LEMMA SubmitRefs ==
  ASSUME RefInv, NEW r \in Reqs, NEW op, NEW from, NEW to, Submit(r, op, from, to)
  PROVE  RefInv'
<1>1. PICK v : Becomes(r, [NoReq EXCEPT !.st = "go", !.op = op, !.from = from, !.cur = from,
                                        !.to = to, !.val = v])
  BY Zenon DEF Submit
<1>2. PICK q : q = [NoReq EXCEPT !.st = "go", !.op = op, !.from = from, !.cur = from,
                                 !.to = to, !.val = v]
  BY Zenon
<1>3. DOMAIN q = Fields /\ q.st = "go" /\ q.l2 = None
  BY <1>2, RequestsAre, Zenon DEF Fields
<1>4. req[r].l2 = None
  BY Zenon DEF Submit, RefInv, Unused
<1>5. UNCHANGED <<entry, cache>>
  BY Zenon DEF Submit, l2s
<1> QED
  BY <1>1, <1>2, <1>3, <1>4, <1>5, GoingOn, Zenon DEF Making

LEMMA CompleteBhRefs ==
  ASSUME RefInv, NEW r \in Reqs, CompleteBh(r)
  PROVE  RefInv'
<1>1. Becomes(r, NoReq) /\ UNCHANGED <<entry, cache>> /\ req[r].st = "bh"
  BY Zenon DEF CompleteBh, l2s
<1>2. req[r].l2 = None
  BY <1>1, Zenon DEF RefInv, Unused
<1>3. Step(r) /\ req'[r] = NoReq
  BY <1>1, RequestsAre, Alone, Zenon
<1>4. req'[r].l2 = None /\ req'[r].st = "idle"
  BY <1>3, RequestsAre, Zenon
<1>5. entry' = Unref(entry, req[r].l2)
  BY <1>1, <1>2, Zenon DEF Unref
<1> QED
  BY <1>1, <1>3, <1>4, <1>5, Dropping, Zenon DEF Making

\* The timer, a flush of the guest and the end of opening change no reference
LEMMA TimerRefs ==
  ASSUME RefInv, Timer \/ TimerFlushFails \/ TimerHeaderFails \/ GuestFlush \/ OpenDone \/ UNCHANGED vars
  PROVE  RefInv'
<1>1. UNCHANGED <<entry, cache>>
  BY Zenon DEF Timer, TimerFires, TimerFlushed, TimerHeaderWritten, TimerFlushFails, TimerHeaderFails, GuestFlush,
         OpenDone, l2s, vars
<1>2. CASE req' = req
  <2>1. Shaped'
    BY <1>2, Zenon DEF RefInv, Shaped
  <2> QED
    BY <1>1, <1>2, <2>1, Waking, Zenon
<1>3. CASE Unplug
  <2>1. ASSUME NEW r \in Reqs
        PROVE  /\ DOMAIN req'[r] = Fields /\ req'[r].l2 = req[r].l2
               /\ req'[r].st = req[r].st \/ req'[r].st = "go"
    <3>1. req'[r] = req[r] \/ req'[r] = To(r, "go")
      BY <1>3, Zenon DEF Unplug
    <3>2. DOMAIN req[r] = Fields
      BY Zenon DEF RefInv, Shaped
    <3> QED
      BY <3>1, <3>2, Changed
  <2>2. DOMAIN req' = Reqs
    BY <1>3, Zenon DEF Unplug
  <2>3. Shaped'
    BY <2>1, <2>2, Zenon DEF Shaped
  <2> QED
    BY <1>1, <2>1, <2>3, Waking, Zenon
<1> QED
  BY <1>2, <1>3, Zenon DEF Timer, TimerFires, TimerFlushed, TimerHeaderWritten, TimerFlushFails, TimerHeaderFails,
                    GuestFlush, OpenDone, vars

LEMMA NoEntries ==
  /\ DOMAIN NoEntry = {"off", "tab", "ref"} /\ NoEntry.ref = 0
  BY Zenon DEF NoEntry

LEMMA InitRefs == Init => RefInv
<1> SUFFICES ASSUME Init PROVE Empty
  BY Resetting, Zenon
<1>1. req = [r \in Reqs |-> NoReq] /\ entry = [e \in Entries |-> NoEntry] /\ cache = <<>>
  BY Zenon DEF Init
<1> QED
  BY <1>1, NoEntries, NoneCached, RequestsAre, Zenon DEF Empty, Shaped, WellFormed, Making

LEMMA ForgetRefs == Forget => RefInv'
<1> SUFFICES ASSUME Forget PROVE Empty'
  <2>1. Empty' => RefInv'
    BY Resetting, PTL
  <2> QED
    BY <2>1, Zenon
<1>1. /\ req' = [r \in Reqs |-> NoReq] /\ entry' = [e \in Entries |-> NoEntry]
      /\ cache' = <<>>
  BY Zenon DEF Forget
<1> QED
  BY <1>1, NoEntries, NoneCached, RequestsAre, Zenon DEF Empty, Shaped, WellFormed, Making

\* Before an image is open there is no request
Shut ==
  up # "open" => (\A r \in Reqs : req[r].st = "idle")

LEMMA MinOfTwo ==
  ASSUME NEW a \in Nat, NEW b \in Nat
  PROVE  Min({a, b}) \in Nat /\ Min({a, b}) <= b
<1>1. \E x \in {a, b} : \A y \in {a, b} : x <= y
  <2>1. CASE a <= b
    BY <2>1
  <2>2. CASE b <= a
    BY <2>2
  <2> QED
    BY <2>1, <2>2
<1>2. Min({a, b}) \in {a, b} /\ \A y \in {a, b} : Min({a, b}) <= y
  BY <1>1, Zenon DEF Min
<1> QED
  BY <1>2, Zenon

LEMMA OpenCheckRefs ==
  ASSUME RefInv, Shut, OpenCheck
  PROVE  RefInv'
<1>1. req' = req /\ \A r \in Reqs : req[r].st = "idle" /\ req[r].l2 = None
  BY Zenon DEF OpenCheck, Shut, RefInv, Unused
<1>2. CASE UNCHANGED l2s
  <2>1. Shaped'
    BY <1>1, Zenon DEF RefInv, Shaped
  <2> QED
    BY <1>1, <1>2, <2>1, Waking, Zenon DEF l2s
<1>3. CASE CachedByCheck
  <2> SUFFICES Empty'
    <3>1. Empty' => RefInv'
      BY Resetting, PTL
    <3> QED
      BY <3>1, Zenon
  <2>1. Cardinality(Reached) \in Nat
    <3>1. 0 \in Int /\ L1Size - 1 \in Int
      BY SizeAssumption
    <3>2. IsFiniteSet(0 .. L1Size - 1)
      BY <3>1, FS_Interval, Zenon
    <3>3. IsFiniteSet(Reached)
      BY <3>2, FS_Subset, Zenon DEF Reached
    <3> QED
      BY <3>3, FS_CardinalityType, Zenon
  <2>2. CacheSize \in Nat /\ Cardinality(Reqs) \in Nat
    BY SizeAssumption, RequestAssumption, FS_CardinalityType, Zenon
  <2>3. PICK n : n = Min({Cardinality(Reached), CacheSize})
    BY Zenon
  <2>4. n \in Nat /\ n <= CacheSize
    BY <2>1, <2>2, <2>3, MinOfTwo, Zenon
  <2>5. 1 .. n \subseteq Entries
    BY <2>2, <2>4 DEF Entries
  <2>6. cache' = [e \in 1 .. n |-> e]
    BY <1>3, <2>3, Zenon DEF CachedByCheck
  <2>7. cache' \in Seq(Entries) /\ Len(cache') = n
    BY <2>4, <2>5, <2>6
  <2>8. Different(cache') /\ \A e \in Entries : Has(cache', e) <=> e <= n
    BY <2>2, <2>4, <2>6 DEF Different, Has, Entries
  <2>9. cache' \in Caches
    BY <2>4, <2>7, <2>8, Zenon DEF Caches
  <2>10. /\ DOMAIN entry' = Entries
         /\ \A e \in Entries : DOMAIN entry'[e] = {"off", "tab", "ref"}
         /\ \A e \in Entries : entry'[e].ref = IF e <= n THEN 1 ELSE 0
    BY <1>3, <2>3, NoEntries, Zenon DEF CachedByCheck
  <2>11. WellFormed(entry') /\ \A e \in Entries : entry'[e].ref = IF Has(cache', e) THEN 1 ELSE 0
    BY <2>8, <2>10, Zenon DEF WellFormed
  <2>12. Shaped' /\ \A r \in Reqs : req'[r].l2 = None /\ req'[r].st \notin Making
    BY <1>1, Zenon DEF RefInv, Shaped, Making
  <2> QED
    BY <2>9, <2>11, <2>12, Zenon DEF Empty
<1> QED
  BY <1>2, <1>3, Zenon DEF OpenCheck

LEMMA RefsKept == RefInv /\ Shut /\ [Next]_vars => RefInv'
<1> SUFFICES ASSUME RefInv, Shut, [Next]_vars PROVE RefInv'
  BY Zenon
<1>1. CASE \E r \in Reqs, x \in Extents : Submit(r, x[1], x[2], x[3])
  BY <1>1, SubmitRefs, Zenon
<1>2. CASE \E r \in Reqs : Goes(r) \/ IoError(r)
  <2>1. PICK r \in Reqs : Goes(r) \/ IoError(r)
    BY <1>2, Zenon
  <2>2. CASE NextIo(r) \/ Look(r)
    BY <2>2, NextIoRefs, LookRefs, Zenon
  <2>3. CASE Completed(r)
    BY <2>3, TableReadRefs, AccessRefs, DataWrittenRefs, L1TableWrittenRefs, Zenon DEF Completed
  <2>4. CASE CompleteBh(r) \/ IoError(r)
    BY <2>4, CompleteBhRefs, IoErrorRefs, Zenon
  <2> QED
    BY <2>1, <2>2, <2>3, <2>4, Zenon DEF Goes
<1>3. CASE Timer \/ TimerFlushFails \/ TimerHeaderFails \/ GuestFlush \/ OpenDone \/ UNCHANGED vars
  BY <1>3, TimerRefs, Zenon
<1>4. CASE Close \/ Crash
  BY <1>4, ForgetRefs, Zenon DEF Close, Crash
<1>5. CASE OpenCheck
  BY <1>5, OpenCheckRefs, Zenon
<1> QED
  BY <1>1, <1>2, <1>3, <1>4, <1>5, Zenon DEF Next

LEMMA ShutKept == Shut /\ [Next]_vars => Shut'
<1> SUFFICES ASSUME Shut, [Next]_vars PROVE Shut'
  BY Zenon
<1>1. CASE up = "open" /\ up' = up
  BY <1>1, Zenon DEF Shut
<1>2. CASE \E r \in Reqs, x \in Extents : Submit(r, x[1], x[2], x[3])
  BY <1>1, <1>2, Zenon DEF Submit, Quiet
<1>3. CASE \E r \in Reqs : Goes(r) \/ IoError(r)
  <2>1. PICK r \in Reqs : Goes(r) \/ IoError(r)
    BY <1>3, Zenon
  <2>2. CASE NextIo(r) \/ Look(r)
    <3>1. req[r].st # "idle" /\ up' = up
      BY <2>2, Zenon DEF NextIo, Look
    <3> QED
      BY <1>1, <3>1, Zenon DEF Shut
  <2>3. CASE Completed(r)
    BY <1>1, <2>3, Zenon DEF Completed, Quiet, TableRead, ReadDone, HeaderWritten, Filled, DataWritten,
       Flushed, L2TableWritten, NewTableWritten, NewTableFlushed, L1TableWritten
  <2>4. CASE CompleteBh(r) \/ IoError(r)
    BY <1>1, <2>4, Zenon DEF CompleteBh, IoError, Quiet
  <2> QED
    BY <2>1, <2>2, <2>3, <2>4, Zenon DEF Goes
<1>4. CASE Timer \/ TimerFlushFails \/ TimerHeaderFails \/ GuestFlush
  BY <1>1, <1>4, Zenon DEF Timer, TimerFires, TimerFlushed, TimerHeaderWritten, TimerFlushFails, TimerHeaderFails,
                    GuestFlush, Quiet
<1>5. CASE OpenCheck \/ OpenDone \/ UNCHANGED vars
  <2>1. req' = req /\ (up' # "open" => up # "open")
    BY <1>5, Zenon DEF OpenCheck, OpenDone, vars
  <2> QED
    BY <2>1, Zenon DEF Shut
<1>6. CASE Close \/ Crash
  <2>1. req' = [r \in Reqs |-> NoReq]
    BY <1>6, Zenon DEF Close, Crash, Forget
  <2> QED
    BY <2>1, RequestsAre, Zenon DEF Shut
<1> QED
  BY <1>2, <1>3, <1>4, <1>5, <1>6, Zenon DEF Next

\* The invariant of the references, for images that are opened, used, closed
\* or left by a crash in any order
THEOREM ReferencesInvariant == Spec => [](RefInv /\ Shut)
<1>1. Init => RefInv /\ Shut
  <2>1. Init => Shut
    BY RequestsAre, Zenon DEF Init, Shut
  <2> QED
    BY <2>1, InitRefs, Zenon
<1> QED
  BY <1>1, RefsKept, ShutKept, PTL DEF Spec

\* qed_unref_l2_cache_entry frees a table exactly when nobody has it: whatever
\* requests load, make, evict or give up tables in whatever order, the count
\* of each is the number of requests that have it and one for the cache
THEOREM ReferencesAreCounted == Spec => []RefsCounted
<1>1. RefInv => RefsCounted
  <2> SUFFICES ASSUME RefInv, NEW e \in Entries
               PROVE  entry[e].ref = Cardinality({r \in Reqs : req[r].l2 = e})
                        + (IF \E i \in DOMAIN cache : cache[i] = e THEN 1 ELSE 0)
    BY Zenon DEF RefsCounted
  <2>1. Holders(Uses, e) = {r \in Reqs : req[r].l2 = e}
    BY Zenon DEF Holders, Uses
  <2>2. entry[e].ref = Cardinality(Holders(Uses, e)) + (IF Has(cache, e) THEN 1 ELSE 0)
    BY Zenon DEF RefInv, Counted
  <2> QED
    BY <2>1, <2>2, Zenon DEF Has
<1> QED
  BY <1>1, ReferencesInvariant, PTL

-----------------------------------------------------------------------------
\* The queue of allocating writes

\* While the mark is taken back all of them wait
Held == plugged => \A i \in DOMAIN queue : req[queue[i]].st = "queued"

QueueInv == queue \in Seq(Reqs) /\ Held /\ TimerWhenDrained

\* A step of a request that is not waiting, and stays where it is in the queue
LEMMA QueueStays ==
  ASSUME RefInv, QueueInv, NEW r \in Reqs, req[r].st # "queued",
         NEW q, DOMAIN q = Fields, Becomes(r, q), UNCHANGED <<queue, plugged, timer>>
  PROVE  QueueInv'
<1>1. \A x \in Reqs \ {r} : req'[x] = req[x]
  BY Alone, Zenon
<1>2. Held'
  <2> SUFFICES ASSUME plugged, NEW i \in DOMAIN queue PROVE req'[queue[i]].st = "queued"
    BY Zenon DEF Held
  <2>1. req[queue[i]].st = "queued" /\ queue[i] \in Reqs
    BY DEF QueueInv, Held
  <2> QED
    BY <1>1, <2>1, Zenon
<1> QED
  BY <1>2, Zenon DEF QueueInv, TimerWhenDrained

\* qed_aio_complete
LEMMA QueueEnds ==
  ASSUME RefInv, QueueInv, NEW r \in Reqs, req[r].st # "queued",
         NEW ret, NEW ent, NEW q, End(r, ret, ent, q), UNCHANGED plugged
  PROVE  QueueInv'
<1> DEFINE first == queue # <<>> /\ Head(queue) = r
           rest == IF first THEN Tail(queue) ELSE queue
           next == IF first /\ rest # <<>> THEN {Head(rest)} ELSE {}
<1>1. /\ queue' = rest
      /\ req' = [x \in Reqs |-> IF x = r THEN Ended(q, ret)
                                ELSE IF x \in next THEN To(x, "go") ELSE req[x]]
      /\ timer' = (timer \/ (first /\ rest = <<>> /\ need))
  BY Zenon DEF End
<1>2. queue \in Seq(Reqs) /\ rest \in Seq(Reqs)
  BY DEF QueueInv
<1>3. ASSUME plugged PROVE \A i \in DOMAIN queue : queue[i] \in Reqs \ {r}
  BY <1>2, <1>3 DEF QueueInv, Held
<1>4. ASSUME plugged PROVE ~first
  <2>1. queue # <<>> => 1 \in DOMAIN queue /\ Head(queue) = queue[1]
    BY <1>2
  <2> QED
    BY <1>3, <1>4, <2>1, Zenon
<1>5. Held'
  <2> SUFFICES ASSUME plugged, NEW i \in DOMAIN queue' PROVE req'[queue'[i]].st = "queued"
    BY Zenon DEF Held
  <2>1. ~first /\ queue' = queue /\ next = {}
    BY <1>1, <1>4, Zenon
  <2>2. queue[i] \in Reqs \ {r} /\ req[queue[i]].st = "queued"
    BY <1>3, <2>1, Zenon DEF QueueInv, Held
  <2>3. req'[queue[i]] = req[queue[i]]
    BY <1>1, <2>1, <2>2, Zenon
  <2> QED
    BY <2>1, <2>2, <2>3, Zenon
<1>6. TimerWhenDrained'
  <2> SUFFICES ASSUME timer' PROVE queue' = <<>> /\ ~plugged
    BY Zenon DEF TimerWhenDrained
  <2>1. CASE timer
    BY <1>1, <2>1, Zenon DEF QueueInv, TimerWhenDrained
  <2>2. CASE first /\ rest = <<>>
    BY <1>1, <1>4, <2>2, Zenon
  <2> QED
    BY <1>1, <2>1, <2>2, Zenon
<1> QED
  BY <1>1, <1>2, <1>5, <1>6, Zenon DEF QueueInv

\* qed_aio_write_alloc: a request that comes while the queue is plugged waits
LEMMA QueueGrows ==
  ASSUME RefInv, QueueInv, NEW r \in Reqs, req[r].st # "queued",
         NEW q, DOMAIN q = Fields, WriteAlloc(r, q)
  PROVE  QueueInv'
<1>1. PICK newQueue : newQueue = IF queue # <<>> /\ Head(queue) = r THEN queue ELSE Append(queue, r)
  BY Zenon
<1>2. /\ queue' = newQueue /\ plugged' = plugged /\ timer' = (timer /\ queue # <<>>)
      /\ MustWait(r, newQueue) => Becomes(r, [q EXCEPT !.st = "queued", !.len = 0])
  BY <1>1, Zenon DEF WriteAlloc
<1>3. queue \in Seq(Reqs) /\ newQueue \in Seq(Reqs)
  BY <1>1 DEF QueueInv
<1>4. ~timer'
  BY <1>2, Zenon DEF QueueInv, TimerWhenDrained
<1>5. Held'
  <2> SUFFICES ASSUME plugged, NEW i \in DOMAIN newQueue PROVE req'[newQueue[i]].st = "queued"
    BY <1>2, Zenon DEF Held
  <2>1. PICK p : p = [q EXCEPT !.st = "queued", !.len = 0]
    BY Zenon
  <2>2. DOMAIN p = Fields /\ p.st = "queued" /\ Becomes(r, p)
    BY <1>2, <2>1, Zenon DEF MustWait, Fields
  <2>3. req'[r] = p /\ \A x \in Reqs \ {r} : req'[x] = req[x]
    BY <2>2, Alone, Zenon
  <2>4. \A x \in Reqs : req[x].st = "queued" => req'[x].st = "queued"
    BY <2>2, <2>3, Zenon
  <2>5. \A j \in DOMAIN queue : queue[j] \in Reqs /\ req[queue[j]].st = "queued"
    BY <1>3 DEF QueueInv, Held
  <2>6. newQueue[i] = r \/ \E j \in DOMAIN queue : newQueue[i] = queue[j]
    BY <1>1, <1>3
  <2> QED
    BY <2>2, <2>3, <2>4, <2>5, <2>6, Zenon
<1> QED
  BY <1>2, <1>3, <1>4, <1>5, Zenon DEF QueueInv, TimerWhenDrained

LEMMA QueueFound ==
  ASSUME RefInv, QueueInv, NEW r \in Reqs, req[r].st # "queued",
         NEW q, DOMAIN q = Fields, NEW found, NEW cluster, NEW len, Found(r, found, cluster, len, q)
  PROVE  QueueInv'
<1>1. PICK f : f = [q EXCEPT !.found = found, !.cluster = cluster, !.len = len]
  BY Zenon
<1>2. DOMAIN f = Fields
  BY <1>1, Zenon
<1>3. CASE WriteAlloc(r, f)
  BY <1>2, <1>3, QueueGrows, Zenon
<1>4. CASE UNCHANGED alloc /\ \E st : Becomes(r, [f EXCEPT !.st = st])
  <2>1. PICK st : Becomes(r, [f EXCEPT !.st = st])
    BY <1>4, Zenon
  <2>2. DOMAIN [f EXCEPT !.st = st] = Fields
    BY <1>2, Zenon
  <2>3. UNCHANGED <<queue, plugged, timer>>
    BY <1>4, Zenon DEF alloc
  <2> QED
    BY <2>1, <2>2, <2>3, QueueStays, Zenon
<1> QED
  BY <1>1, <1>3, <1>4, Zenon DEF Found

LEMMA NextIoQueue ==
  ASSUME RefInv, QueueInv, NEW r \in Reqs, NextIo(r) \/ Look(r)
  PROVE  QueueInv'
<1> DEFINE q == req[r]
<1>1. DOMAIN q = Fields /\ q.st # "queued"
  BY Zenon DEF RefInv, Shaped, NextIo, Look
<1>2. CASE (\E ret : End(r, ret, entry, q)) /\ UNCHANGED plugged
  BY <1>1, <1>2, QueueEnds, Zenon
<1>3. CASE \E found, cluster, len : Found(r, found, cluster, len, q)
  BY <1>1, <1>3, QueueFound, Zenon
<1>4. CASE UNCHANGED alloc /\ \E e, st : Becomes(r, [q EXCEPT !.l2 = e, !.st = st])
  <2>1. PICK e, st : Becomes(r, [q EXCEPT !.l2 = e, !.st = st])
    BY <1>4, Zenon
  <2>2. DOMAIN [q EXCEPT !.l2 = e, !.st = st] = Fields
    BY <1>1, Zenon
  <2>3. UNCHANGED <<queue, plugged, timer>>
    BY <1>4, Zenon DEF alloc
  <2> QED
    BY <1>1, <2>1, <2>2, <2>3, QueueStays, Zenon
<1>5. CASE NextIo(r)
  BY <1>2, <1>3, <1>4, <1>5, Zenon DEF NextIo
<1>6. CASE Look(r)
  BY <1>2, <1>3, <1>6, Zenon DEF Look
<1> QED
  BY <1>5, <1>6, Zenon

LEMMA AccessQueue ==
  ASSUME RefInv, QueueInv, NEW r \in Reqs, Completed(r) \/ CompleteBh(r)
  PROVE  QueueInv'
<1>1. req[r].st # "queued" /\ DOMAIN req[r] = Fields
  BY Zenon DEF RefInv, Shaped, Completed, CompleteBh, TableRead, ReadDone, HeaderWritten, Filled,
         DataWritten, Flushed, L2TableWritten, NewTableWritten, NewTableFlushed, L1TableWritten
<1>2. UNCHANGED <<queue, plugged, timer>>
  BY Zenon DEF Completed, CompleteBh, TableRead, ReadDone, HeaderWritten, Filled, DataWritten, Flushed,
         L2TableWritten, NewTableWritten, NewTableFlushed, L1TableWritten, alloc
<1>3. CASE \E q : Becomes(r, q) /\ DOMAIN q = Fields
  BY <1>1, <1>2, <1>3, QueueStays, Zenon
<1>4. ASSUME NEW st, Becomes(r, To(r, st)) PROVE QueueInv'
  BY <1>3, <1>4, Changed, Zenon
<1>5. ASSUME Becomes(r, Advanced(r)) PROVE QueueInv'
  BY <1>3, <1>5, Changed, Zenon
<1>6. ASSUME NEW e, NEW st, Becomes(r, [req[r] EXCEPT !.l2 = e, !.st = st]) PROVE QueueInv'
  <2>1. DOMAIN [req[r] EXCEPT !.l2 = e, !.st = st] = Fields
    BY <1>1, Zenon
  <2> QED
    BY <1>3, <1>6, <2>1, Zenon
<1>7. ASSUME L2Update(r) PROVE QueueInv'
  BY <1>4, <1>6, <1>7, Zenon DEF L2Update
<1>8. CASE TableRead(r) \/ ReadDone(r) \/ HeaderWritten(r) \/ Filled(r)
  BY <1>4, <1>5, <1>6, <1>8, Zenon DEF TableRead, ReadDone, HeaderWritten, Filled
<1>9. CASE DataWritten(r) \/ Flushed(r)
  BY <1>4, <1>5, <1>7, <1>9, Zenon DEF DataWritten, Flushed
<1>10. CASE L2TableWritten(r) \/ NewTableWritten(r) \/ NewTableFlushed(r)
  BY <1>4, <1>5, <1>10, Zenon DEF L2TableWritten, NewTableWritten, NewTableFlushed
<1>11. CASE L1TableWritten(r)
  <2>1. PICK e : Becomes(r, [Advanced(r) EXCEPT !.l2 = e])
    BY <1>11, Zenon DEF L1TableWritten
  <2>2. DOMAIN [Advanced(r) EXCEPT !.l2 = e] = Fields
    BY Changed, Zenon
  <2> QED
    BY <1>3, <2>1, <2>2, Zenon
<1>12. CASE CompleteBh(r)
  BY <1>3, <1>12, RequestsAre, Zenon DEF CompleteBh
<1> QED
  BY <1>8, <1>9, <1>10, <1>11, <1>12, Zenon DEF Completed

LEMMA IoErrorQueue ==
  ASSUME RefInv, QueueInv, NEW r \in Reqs, IoError(r)
  PROVE  QueueInv'
<1>1. req[r].st # "queued" /\ plugged' = plugged
  BY Zenon DEF IoError, Waiting
<1>2. CASE Ignored(req[r])
  <2>1. PICK st : Becomes(r, To(r, st)) /\ UNCHANGED <<queue, timer>>
    BY <1>2, Zenon DEF IoError
  <2> QED
    BY <1>1, <2>1, Changed, QueueStays, Zenon
<1>3. CASE ~Ignored(req[r])
  <2>1. PICK ent, q : End(r, "error", ent, q)
    BY <1>3, Zenon DEF IoError
  <2> QED
    BY <1>1, <2>1, QueueEnds, Zenon
<1> QED
  BY <1>2, <1>3, Zenon

LEMMA SubmitQueue ==
  ASSUME RefInv, QueueInv, NEW r \in Reqs, NEW op, NEW from, NEW to, Submit(r, op, from, to)
  PROVE  QueueInv'
<1>1. PICK v : Becomes(r, [NoReq EXCEPT !.st = "go", !.op = op, !.from = from, !.cur = from,
                                        !.to = to, !.val = v])
  BY Zenon DEF Submit
<1>2. PICK q : q = [NoReq EXCEPT !.st = "go", !.op = op, !.from = from, !.cur = from,
                                 !.to = to, !.val = v]
  BY Zenon
<1>3. DOMAIN q = Fields
  BY <1>2, RequestsAre, Zenon DEF Fields
<1>4. req[r].st # "queued" /\ UNCHANGED <<queue, plugged, timer>>
  BY Zenon DEF Submit, alloc
<1> QED
  BY <1>1, <1>2, <1>3, <1>4, QueueStays, Zenon

LEMMA QueueKept == RefInv /\ QueueInv /\ [Next]_vars => QueueInv'
<1> SUFFICES ASSUME RefInv, QueueInv, [Next]_vars PROVE QueueInv'
  BY Zenon
<1>1. CASE \E r \in Reqs, x \in Extents : Submit(r, x[1], x[2], x[3])
  BY <1>1, SubmitQueue, Zenon
<1>2. CASE \E r \in Reqs : Goes(r) \/ IoError(r)
  BY <1>2, NextIoQueue, AccessQueue, IoErrorQueue, Zenon DEF Goes
<1>3. CASE UNCHANGED <<queue, plugged, timer, req>>
  BY <1>3, Zenon DEF QueueInv, Held, TimerWhenDrained
<1>4. CASE TimerFlushed \/ GuestFlush \/ OpenCheck \/ OpenDone \/ UNCHANGED vars
  BY <1>3, <1>4, Zenon DEF TimerFlushed, GuestFlush, OpenCheck, OpenDone, vars, alloc
<1>5. CASE TimerFires
  <2>1. timer /\ ~timer' /\ queue' = queue
    BY <1>5, Zenon DEF TimerFires
  <2>2. queue = <<>> /\ DOMAIN queue = {}
    BY <2>1 DEF QueueInv, TimerWhenDrained
  <2> QED
    BY <2>1, <2>2, Zenon DEF QueueInv, Held, TimerWhenDrained
<1>6. CASE TimerHeaderWritten \/ TimerFlushFails \/ TimerHeaderFails
  <2>1. ~plugged' /\ UNCHANGED <<queue, timer>>
    BY <1>6, Zenon DEF TimerHeaderWritten, TimerFlushFails, TimerHeaderFails, Unplug
  <2> QED
    BY <2>1, Zenon DEF QueueInv, Held, TimerWhenDrained
<1>7. CASE Close \/ Crash
  <2>1. queue' = <<>> /\ ~plugged' /\ ~timer'
    BY <1>7, Zenon DEF Close, Crash, Forget
  <2> QED
    BY <2>1 DEF QueueInv, Held, TimerWhenDrained
<1> QED
  BY <1>1, <1>2, <1>4, <1>5, <1>6, <1>7, Zenon DEF Next, Timer

\* The assertions of qed_need_check_timer_cb and qed_plug_allocating_write_reqs
\* hold whenever the timer may fire: requests that end, fail or come while the
\* mark is taken back never leave it running with an allocating write queued
THEOREM TimerFindsQueueDrained == Spec => []TimerWhenDrained
<1>1. Init => QueueInv
  <2> SUFFICES ASSUME Init PROVE QueueInv
    BY Zenon
  <2>1. queue = <<>> /\ ~plugged /\ ~timer
    BY Zenon DEF Init
  <2> QED
    BY <2>1 DEF QueueInv, Held, TimerWhenDrained
<1>2. QueueInv => TimerWhenDrained
  BY Zenon DEF QueueInv
<1> QED
  BY <1>1, <1>2, ReferencesInvariant, QueueKept, PTL DEF Spec
=============================================================================
