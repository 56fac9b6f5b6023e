---------------------------- MODULE BlockCacheProofs ----------------------------
(***************************************************************************)
(* The cache with its disk is a store of blocks, and sync_all makes it     *)
(* durable, for any number of blocks, slots and nested accesses.           *)
(***************************************************************************)
EXTENDS BlockCache, SequencesExt, SequenceTheorems, WellFoundedInduction, FiniteSetTheorems, TLAPS

\* A set of numbers has a least element: induction over numbers is done with it.
LEMMA MinMember ==
  ASSUME NEW S \in SUBSET Nat, S # {}
  PROVE  Min(S) \in S /\ \A x \in S : Min(S) <= x
<1> DEFINE less == OpToRel(<, Nat)
<1>1. PICK x \in S : \A y \in S : ~(<<y, x>> \in less)
  BY NatLessThanWellFounded, WFMin, Zenon
<1>2. less = {ss \in Nat \X Nat : ss[1] < ss[2]}
  BY Zenon DEF OpToRel
<1> HIDE DEF less
<1>3. ASSUME NEW y \in S PROVE x <= y
  <2>1. x \in Nat /\ y \in Nat
    OBVIOUS
  <2>2. y < x => <<y, x>> \in less
    BY <1>2, <2>1
  <2> QED BY <1>1, <2>1, <2>2
<1> QED BY <1>3 DEF Min

\* A sequence without its i-th element.
LEMMA RemoveAtProperties ==
  ASSUME NEW S, NEW s \in Seq(S), NEW i \in DOMAIN s
  PROVE  /\ RemoveAt(s, i) \in Seq(S)
         /\ Len(RemoveAt(s, i)) = Len(s) - 1
         /\ \A j \in 1 .. Len(s) - 1 : RemoveAt(s, i)[j] = s[IF j < i THEN j ELSE j + 1]
<1> DEFINE a == SubSeq(s, 1, i - 1)
           b == SubSeq(s, i + 1, Len(s))
<1>1. i \in 1 .. Len(s) /\ Len(s) \in Nat
  OBVIOUS
<1>2. /\ a \in Seq(S) /\ Len(a) = i - 1
      /\ \A j \in 1 .. i - 1 : a[j] = s[j]
  BY <1>1, SubSeqProperties
<1>3. /\ b \in Seq(S) /\ Len(b) = Len(s) - i
      /\ \A j \in 1 .. Len(s) - i : b[j] = s[i + j]
  BY <1>1, SubSeqProperties
<1> HIDE DEF a, b
<1>4. /\ a \o b \in Seq(S) /\ Len(a \o b) = Len(s) - 1
      /\ \A j \in 1 .. Len(s) - 1 : (a \o b)[j] = IF j < i THEN a[j] ELSE b[j - (i - 1)]
  <2>1. Len(a) + Len(b) = Len(s) - 1
    BY <1>1, <1>2, <1>3
  <2>2. /\ a \o b \in Seq(S) /\ Len(a \o b) = Len(s) - 1
        /\ \A j \in 1 .. Len(s) - 1 : (a \o b)[j] = IF j <= Len(a) THEN a[j] ELSE b[j - Len(a)]
    <3>1. /\ a \o b \in Seq(S) /\ Len(a \o b) = Len(a) + Len(b)
          /\ \A j \in 1 .. Len(a) + Len(b) : (a \o b)[j] = IF j <= Len(a) THEN a[j] ELSE b[j - Len(a)]
      BY <1>2, <1>3, ConcatProperties
    <3> QED BY ONLY <2>1, <3>1
  <2>3. \A j \in Int : j <= Len(a) <=> j < i
    BY <1>1, <1>2
  <2> QED BY <1>2, <2>2, <2>3
<1>5. ASSUME NEW j \in 1 .. Len(s) - 1 PROVE (a \o b)[j] = s[IF j < i THEN j ELSE j + 1]
  <2>1. CASE j < i
    BY <1>1, <1>2, <1>4, <2>1
  <2>2. CASE ~(j < i)
    <3>1. j - (i - 1) \in 1 .. Len(s) - i
      BY <1>1, <2>2
    <3>2. b[j - (i - 1)] = s[i + (j - (i - 1))] /\ i + (j - (i - 1)) = j + 1
      BY <1>1, <1>3, <3>1
    <3> QED BY <1>4, <2>2, <3>2
  <2> QED BY <2>1, <2>2
<1> QED BY <1>4, <1>5 DEF RemoveAt, a, b


CachedBlock == [block : Blocks, data : Values, modified : BOOLEAN]

\* No two objects are of one block.
OneEach(obj) == \A o, p \in DOMAIN obj : obj[o].block = obj[p].block => o = p

\* A cache with disk d, objects obj, queue q and accesses h: the live objects are
\* those of the queue, each once, no two of one block; what is in use is in the
\* queue and locked once; an object that is not modified, and so is dropped without
\* a write, holds what the disk holds, and one that a closure may store into is
\* modified.
Good(d, obj, q, h) ==
  /\ d \in [Blocks -> Values] /\ obj \in [DOMAIN obj -> CachedBlock]
  /\ q \in Seq(DOMAIN obj) /\ h \in Seq([object : DOMAIN obj, modify : BOOLEAN])
  /\ \A o \in DOMAIN obj : \E i \in DOMAIN q : q[i] = o
  /\ \A i, j \in DOMAIN q : q[i] = q[j] => i = j
  /\ OneEach(obj)
  /\ \A i, j \in DOMAIN h : h[i].object = h[j].object => i = j
  /\ \A o \in DOMAIN obj : obj[o].modified \/ obj[o].data = d[obj[o].block]
  /\ \A i \in DOMAIN h : h[i].modify => obj[h[i].object].modified

\* The invariant.
CacheInv ==
  /\ Good(disk, object, queue, held)
  /\ DOMAIN object \subseteq Objects /\ Len(queue) <= CacheSize /\ Len(held) <= MaxNest
  /\ machine \in {"running", "panic", "spinning"}

\* The parts of the invariant that a proof needs most, in a usable form.
LEMMA InvFacts ==
  ASSUME CacheInv
  PROVE  /\ object \in [DOMAIN object -> [block : Blocks, data : Values, modified : BOOLEAN]]
         /\ queue \in Seq(DOMAIN object) /\ Len(queue) \in Nat /\ DOMAIN queue = 1 .. Len(queue)
         /\ held \in Seq([object : DOMAIN object, modify : BOOLEAN]) /\ DOMAIN held = 1 .. Len(held)
         /\ disk \in [Blocks -> Values]
         /\ \A o \in DOMAIN object : \E i \in DOMAIN queue : queue[i] = o
         /\ \A o \in DOMAIN object : object[o].block \in Blocks /\ object[o].data \in Values
         /\ OneEach(object)
  BY DEF CacheInv, Good, CachedBlock

----------------------------------------------------------------------------
\* What users read.

OneOf(obj, b) == CHOOSE o \in DOMAIN obj : obj[o].block = b

View(obj, d) ==
  [b \in Blocks |-> IF \E o \in DOMAIN obj : obj[o].block = b THEN obj[OneOf(obj, b)].data ELSE d[b]]

LEMMA ViewValue ==
  ASSUME NEW obj, NEW d, OneEach(obj)
  PROVE  /\ \A o \in DOMAIN obj : obj[o].block \in Blocks => View(obj, d)[obj[o].block] = obj[o].data
         /\ \A b \in Blocks : (\A o \in DOMAIN obj : obj[o].block # b) => View(obj, d)[b] = d[b]
<1>1. \A b : (\E o \in DOMAIN obj : obj[o].block = b) =>
              OneOf(obj, b) \in DOMAIN obj /\ obj[OneOf(obj, b)].block = b
  BY Zenon DEF OneOf
<1>2. ASSUME NEW o \in DOMAIN obj, obj[o].block \in Blocks
      PROVE  View(obj, d)[obj[o].block] = obj[o].data
  <2>1. OneOf(obj, obj[o].block) = o
    BY <1>1, <1>2 DEF OneEach
  <2> QED BY <1>2, <2>1 DEF View
<1>3. ASSUME NEW b \in Blocks, \A o \in DOMAIN obj : obj[o].block # b
      PROVE  View(obj, d)[b] = d[b]
  BY <1>3 DEF View
<1> QED BY <1>2, <1>3

LEMMA ShownIsView == Shown = View(object, disk)
  BY DEF Shown, View, OneOf

LEMMA ShownIsViewAfter == Shown' = View(object', disk')
  BY DEF Shown, View, OneOf

----------------------------------------------------------------------------
\* The copies of an Arc.

LEMMA StrongCountIs ==
  ASSUME CacheInv, NEW o \in DOMAIN object
  PROVE  StrongCount(o) = IF Locked(o) THEN 2 ELSE 1
<1>1. PICK j \in DOMAIN queue : queue[j] = o
  BY InvFacts
<1>2. {i \in DOMAIN queue : queue[i] = o} = {j}
  BY <1>1 DEF CacheInv, Good
<1>3. Cardinality({j}) = 1
  BY FS_Singleton
<1>4. CASE Locked(o)
  <2>1. PICK h \in DOMAIN held : held[h].object = o
    BY <1>4 DEF Locked
  <2>2. {i \in DOMAIN held : held[i].object = o} = {h}
    BY <2>1 DEF CacheInv, Good
  <2>3. Cardinality({h}) = 1
    BY FS_Singleton
  <2> QED BY <1>2, <1>3, <1>4, <2>2, <2>3 DEF StrongCount
<1>5. CASE ~Locked(o)
  <2>1. {i \in DOMAIN held : held[i].object = o} = {}
    BY <1>5 DEF Locked
  <2>2. Cardinality({}) = 0
    BY FS_EmptySet
  <2> QED BY <1>2, <1>3, <1>5, <2>1, <2>2, SMTT(30) DEF StrongCount
<1> QED BY <1>4, <1>5

----------------------------------------------------------------------------
\* block_cache_sync_all.

\* One round of the loop, from what the rounds before made of the disk.
Rounds(f) == [k \in 0 .. Len(queue) |-> IF k = 0 THEN disk ELSE SyncBlock(f[k - 1], queue[k])]

\* The first k blocks of the queue are written, the others are as they were.
After(k) ==
  [b \in Blocks |-> IF \E i \in 1 .. k : object[queue[i]].block = b THEN Shown[b] ELSE disk[b]]

LEMMA SyncedIsShown == ASSUME CacheInv PROVE Synced = Shown
<1>1. PICK f : f = CHOOSE g : g = Rounds(g)
  OBVIOUS
<1>2. Synced = f[Len(queue)]
  BY <1>1, Zenon DEF Synced, Rounds
<1>3. PICK F : F = [k \in 0 .. Len(queue) |-> After(k)]
  OBVIOUS
<1>s. /\ \A o \in DOMAIN object : Shown[object[o].block] = object[o].data
      /\ \A b \in Blocks : (\A o \in DOMAIN object : object[o].block # b) => Shown[b] = disk[b]
      /\ Shown = [b \in Blocks |-> Shown[b]]
  <2> QED BY InvFacts, ShownIsView, ViewValue DEF View
<1>4. After(0) = disk
  BY InvFacts DEF After
<1>5. ASSUME NEW k \in 1 .. Len(queue) PROVE After(k) = SyncBlock(After(k - 1), queue[k])
  <2>1. PICK o : o = queue[k]
    OBVIOUS
  <2>2. o \in DOMAIN object /\ object[o].block \in Blocks /\ Shown[object[o].block] = object[o].data
    BY <1>s, <2>1, InvFacts
  <2>3. \A b : (\E i \in 1 .. k : object[queue[i]].block = b)
               <=> (\E i \in 1 .. k - 1 : object[queue[i]].block = b) \/ b = object[o].block
    BY <2>1
  <2>4. CASE object[o].modified
    <3>1. SyncBlock(After(k - 1), o) = [After(k - 1) EXCEPT ![object[o].block] = object[o].data]
      BY <2>4 DEF SyncBlock
    <3> QED BY <2>1, <2>2, <2>3, <3>1 DEF After
  <2>5. CASE ~object[o].modified
    <3>1. SyncBlock(After(k - 1), o) = After(k - 1)
      BY <2>5 DEF SyncBlock
    <3>2. Shown[object[o].block] = disk[object[o].block]
      BY <2>2, <2>5 DEF CacheInv, Good
    <3> QED BY <2>1, <2>2, <2>3, <3>1, <3>2 DEF After
  <2> QED BY <2>4, <2>5
<1>6. F = Rounds(F)
  <2>1. \A k \in 0 .. Len(queue) :
          F[k] = IF k = 0 THEN disk ELSE SyncBlock(F[k - 1], queue[k])
    BY <1>3, <1>4, <1>5, InvFacts
  <2> QED BY <1>3, <2>1 DEF Rounds
<1>7. f = Rounds(f)
  BY <1>1, <1>6, Zenon
\* Both satisfy the equation: there is no first round in which they differ.
<1>8. \A k \in 0 .. Len(queue) : f[k] = F[k]
  <2>1. PICK bad : bad = {k \in 0 .. Len(queue) : f[k] # F[k]}
    OBVIOUS
  <2>2. SUFFICES ASSUME bad # {} PROVE FALSE
    BY <2>1
  <2>3. PICK m : m = Min(bad)
    OBVIOUS
  <2>4. m \in bad /\ \A k \in bad : m <= k
    <3>1. bad \in SUBSET Nat
      BY <2>1, InvFacts
    <3> QED BY <2>2, <2>3, <3>1, MinMember
  <2>5. m \in 0 .. Len(queue) /\ f[m] # F[m] /\ (m # 0 => f[m - 1] = F[m - 1])
    BY <2>1, <2>4, InvFacts
  <2>6. /\ f[m] = IF m = 0 THEN disk ELSE SyncBlock(f[m - 1], queue[m])
        /\ F[m] = IF m = 0 THEN disk ELSE SyncBlock(F[m - 1], queue[m])
    BY <1>6, <1>7, <2>5, Zenon DEF Rounds
  <2> QED BY <2>5, <2>6
<1>9. After(Len(queue)) = Shown
  <2>1. \A b \in Blocks : (\E i \in 1 .. Len(queue) : object[queue[i]].block = b) \/ Shown[b] = disk[b]
    BY <1>s, InvFacts
  <2> QED BY <1>s, <2>1 DEF After
<1> QED BY <1>2, <1>3, <1>8, <1>9, InvFacts, SMTT(30)

----------------------------------------------------------------------------
\* The moves of a cache.

\* The cache without object q[k], which nobody uses, written if it was modified.
Drops(d, obj, q, h, k, d2, obj2) ==
  /\ Good(d, obj, q, h) /\ k \in DOMAIN q /\ \A i \in DOMAIN h : h[i].object # q[k]
  /\ d2 = IF obj[q[k]].modified THEN [d EXCEPT ![obj[q[k]].block] = obj[q[k]].data] ELSE d
  /\ obj2 = [x \in DOMAIN obj \ {q[k]} |-> obj[x]]

Dropped(d, obj, q, h, k, d2, obj2) ==
  /\ Good(d2, obj2, RemoveAt(q, k), h) /\ View(obj2, d2) = View(obj, d)
  /\ d2 = d \/ \E b \in Blocks : d2 = [d EXCEPT ![b] = View(obj, d)[b]]

LEMMA DropGood ==
  ASSUME NEW d, NEW obj, NEW q, NEW h, NEW k, NEW d2, NEW obj2, Drops(d, obj, q, h, k, d2, obj2)
  PROVE  Dropped(d, obj, q, h, k, d2, obj2)
<1> USE DEF Drops
<1>1. PICK v : v = q[k]
  OBVIOUS
<1>2. /\ v \in DOMAIN obj /\ q \in Seq(DOMAIN obj) /\ DOMAIN q = 1 .. Len(q) /\ Len(q) \in Nat
      /\ obj[v] \in CachedBlock /\ obj[v].block \in Blocks /\ obj[v].data \in Values
  BY <1>1 DEF Good, CachedBlock
<1>3. /\ DOMAIN obj2 = DOMAIN obj \ {v} /\ \A o \in DOMAIN obj2 : obj2[o] = obj[o]
      /\ obj2 \in [DOMAIN obj2 -> CachedBlock]
  BY <1>1 DEF Good
<1>4. d2 \in [Blocks -> Values]
  BY <1>1, <1>2 DEF Good
<1>5. PICK r : r = RemoveAt(q, k)
  OBVIOUS
<1>6. /\ r \in Seq(DOMAIN obj) /\ Len(r) = Len(q) - 1 /\ DOMAIN r = 1 .. Len(q) - 1
      /\ \A j \in 1 .. Len(q) - 1 : r[j] = q[IF j < k THEN j ELSE j + 1]
  <2>1. /\ RemoveAt(q, k) \in Seq(DOMAIN obj) /\ Len(RemoveAt(q, k)) = Len(q) - 1
        /\ \A j \in 1 .. Len(q) - 1 : RemoveAt(q, k)[j] = q[IF j < k THEN j ELSE j + 1]
    BY <1>2, RemoveAtProperties
  <2>2. DOMAIN r = 1 .. Len(r)
    BY <1>5, <2>1
  <2> QED BY <1>5, <2>1, <2>2
<1>7. \A j \in DOMAIN r : r[j] # v
  BY <1>1, <1>2, <1>6, SMTT(30) DEF Good
<1>8. r \in Seq(DOMAIN obj2)
  <2>1. r \in [1 .. Len(r) -> DOMAIN obj2]
    BY <1>3, <1>6, <1>7
  <2> QED BY <1>6, <2>1
<1>9. ASSUME NEW i \in DOMAIN r, NEW j \in DOMAIN r, r[i] = r[j] PROVE i = j
  <2>1. PICK m, n : m = (IF i < k THEN i ELSE i + 1) /\ n = (IF j < k THEN j ELSE j + 1)
    OBVIOUS
  <2>2. m \in DOMAIN q /\ n \in DOMAIN q /\ q[m] = q[n]
    BY <1>2, <1>6, <1>9, <2>1
  <2>3. m = n
    BY <2>2 DEF Good
  <2> QED BY <1>2, <1>6, <2>1, <2>3
<1>10. ASSUME NEW o \in DOMAIN obj2 PROVE \E i \in DOMAIN r : r[i] = o
  <2>1. PICK j \in DOMAIN q : q[j] = o
    BY <1>3 DEF Good
  <2>2. j # k
    BY <1>1, <1>3, <2>1
  <2>3. CASE j < k
    BY <1>2, <1>6, <2>1, <2>3
  <2>4. CASE j > k
    <3>1. j - 1 \in DOMAIN r /\ r[j - 1] = q[j]
      BY <1>2, <1>6, <2>4
    <3> QED BY <2>1, <3>1
  <2> QED BY <1>2, <2>2, <2>3, <2>4
<1>11. OneEach(obj2)
  BY <1>3 DEF Good, OneEach
<1>12. h \in Seq([object : DOMAIN obj2, modify : BOOLEAN])
  <2>1. /\ Len(h) \in Nat /\ DOMAIN h = 1 .. Len(h)
        /\ h \in [1 .. Len(h) -> [object : DOMAIN obj, modify : BOOLEAN]]
    BY LenProperties DEF Good
  <2>2. \A i \in 1 .. Len(h) : h[i] \in [object : DOMAIN obj2, modify : BOOLEAN]
    BY <1>1, <1>3, <2>1
  <2>3. PICK S : S = [object : DOMAIN obj2, modify : BOOLEAN]
    OBVIOUS
  <2>4. h \in [1 .. Len(h) -> S]
    BY <2>1, <2>2, <2>3
  <2>5. h \in Seq(S)
    BY <2>1, <2>4
  <2> QED BY <2>3, <2>5
<1>13. \A o \in DOMAIN obj2 : obj2[o].modified \/ obj2[o].data = d2[obj2[o].block]
  BY <1>1, <1>2, <1>3 DEF Good, OneEach
<1>14. \A i \in DOMAIN h : h[i].object \in DOMAIN obj2 /\ (h[i].modify => obj2[h[i].object].modified)
  <2>1. ASSUME NEW i \in DOMAIN h PROVE h[i] \in [object : DOMAIN obj2, modify : BOOLEAN]
    <3>1. PICK S : S = [object : DOMAIN obj2, modify : BOOLEAN]
      OBVIOUS
    <3>2. h \in Seq(S)
      BY <1>12, <3>1
    <3>3. h[i] \in S
      BY <3>2
    <3> QED BY <3>1, <3>3
  <2> QED BY <1>3, <2>1 DEF Good
<1>15. Good(d2, obj2, r, h)
  BY <1>3, <1>4, <1>8, <1>9, <1>10, <1>11, <1>12, <1>13, <1>14 DEF Good
<1>v. /\ \A o \in DOMAIN obj2 : obj2[o].block \in Blocks =>
            View(obj2, d2)[obj2[o].block] = obj2[o].data
      /\ \A b \in Blocks : (\A o \in DOMAIN obj2 : obj2[o].block # b) => View(obj2, d2)[b] = d2[b]
  BY ONLY <1>11, ViewValue
<1>16. View(obj, d)[obj[v].block] = obj[v].data
  BY <1>2, ViewValue DEF Good
<1>17. View(obj2, d2) = View(obj, d)
  <2>1. ASSUME NEW b \in Blocks PROVE View(obj2, d2)[b] = View(obj, d)[b]
    <3>1. CASE b = obj[v].block
      <4>1. \A o \in DOMAIN obj2 : obj2[o].block # b
        BY <1>2, <1>3, <3>1 DEF Good, OneEach
      <4>2. View(obj2, d2)[b] = d2[b]
        BY <1>v, <4>1
      <4>3. d2[b] = obj[v].data
        BY <1>1, <1>2, <3>1 DEF Good
      <4> QED BY <1>16, <3>1, <4>2, <4>3
    <3>2. CASE b # obj[v].block /\ \E o \in DOMAIN obj : obj[o].block = b
      <4>1. PICK o \in DOMAIN obj : obj[o].block = b
        BY <3>2
      <4>2. o \in DOMAIN obj2 /\ obj2[o] = obj[o]
        BY <1>3, <3>2, <4>1
      <4>3. View(obj2, d2)[b] = obj2[o].data
        BY <1>v, <4>1, <4>2
      <4>4. View(obj, d)[b] = obj[o].data
        BY <4>1, ViewValue DEF Good
      <4> QED BY <4>2, <4>3, <4>4
    <3>3. CASE b # obj[v].block /\ ~\E o \in DOMAIN obj : obj[o].block = b
      <4>1. View(obj2, d2)[b] = d2[b]
        BY <1>v, <1>3, <3>3
      <4>2. View(obj, d)[b] = d[b]
        BY <3>3, ViewValue DEF Good
      <4>3. d2[b] = d[b]
        BY <1>1, <1>2, <3>3 DEF Good
      <4> QED BY <4>1, <4>2, <4>3
    <3> QED BY <3>1, <3>2, <3>3
  <2>2. View(obj2, d2) = [b \in Blocks |-> View(obj2, d2)[b]]
    BY DEF View
  <2>3. View(obj, d) = [b \in Blocks |-> View(obj, d)[b]]
    BY DEF View
  <2> QED BY <2>1, <2>2, <2>3
<1>18. d2 = d \/ \E b \in Blocks : d2 = [d EXCEPT ![b] = View(obj, d)[b]]
  BY <1>1, <1>2, <1>16
<1> QED BY <1>5, <1>15, <1>17, <1>18 DEF Dropped

\* Object v with block b, read from the disk, enters the queue and is in use.
Loads(d, obj, q, h, b, v, modify, obj2) ==
  /\ Good(d, obj, q, h)
  /\ b \in Blocks /\ v \notin DOMAIN obj /\ modify \in BOOLEAN
  /\ \A o \in DOMAIN obj : obj[o].block # b
  /\ \E cb \in CachedBlock :
       /\ cb.block = b /\ cb.data = d[b] /\ cb.modified = modify
       /\ obj2 = [o \in DOMAIN obj \cup {v} |-> IF o = v THEN cb ELSE obj[o]]

Loaded(d, obj, q, h, b, v, modify, obj2) ==
  /\ Good(d, obj2, Append(q, v), Append(h, Access(v, modify)))
  /\ View(obj2, d) = View(obj, d)
  /\ obj2[v].block = b /\ \A o \in DOMAIN obj : obj2[o].block = obj[o].block

LEMMA LoadGood ==
  ASSUME NEW d, NEW obj, NEW q, NEW h, NEW b, NEW v, NEW modify, NEW obj2,
         Loads(d, obj, q, h, b, v, modify, obj2)
  PROVE  Loaded(d, obj, q, h, b, v, modify, obj2)
<1>0. PICK cb \in CachedBlock :
        /\ Good(d, obj, q, h) /\ b \in Blocks /\ v \notin DOMAIN obj /\ modify \in BOOLEAN
        /\ \A o \in DOMAIN obj : obj[o].block # b
        /\ cb.block = b /\ cb.data = d[b] /\ cb.modified = modify
        /\ obj2 = [o \in DOMAIN obj \cup {v} |-> IF o = v THEN cb ELSE obj[o]]
  BY DEF Loads
<1> USE <1>0
<1>1. /\ DOMAIN obj2 = DOMAIN obj \cup {v} /\ obj2[v] = cb
      /\ \A o \in DOMAIN obj : o # v /\ obj2[o] = obj[o]
      /\ obj2 \in [DOMAIN obj2 -> CachedBlock]
  BY DEF Good
<1>2. PICK S, T : S = [object : DOMAIN obj, modify : BOOLEAN] /\ T = [object : DOMAIN obj2, modify : BOOLEAN]
  OBVIOUS
<1>3. S \subseteq T /\ Access(v, modify) \in T
  BY <1>1, <1>2 DEF Access
<1>4. q \in Seq(DOMAIN obj) /\ h \in Seq(S)
  BY <1>2 DEF Good
<1>5. /\ q \in Seq(DOMAIN obj2) /\ h \in Seq(T)
      /\ DOMAIN q = 1 .. Len(q) /\ Len(q) \in Nat /\ DOMAIN h = 1 .. Len(h) /\ Len(h) \in Nat
      /\ \A i \in DOMAIN h : h[i] \in S
  <2>1. DOMAIN obj \subseteq DOMAIN obj2
    BY <1>1
  <2> QED BY <1>3, <1>4, <2>1, SeqMonotonic
<1>6. PICK q2, h2, a : q2 = Append(q, v) /\ h2 = Append(h, a) /\ a = Access(v, modify)
  OBVIOUS
<1>7. /\ q2 \in Seq(DOMAIN obj2) /\ DOMAIN q2 = 1 .. Len(q) + 1 /\ q2[Len(q) + 1] = v
      /\ \A i \in DOMAIN q : q2[i] = q[i]
  BY <1>1, <1>5, <1>6
<1>8. /\ h2 \in Seq(T) /\ DOMAIN h2 = 1 .. Len(h) + 1 /\ h2[Len(h) + 1] = a
      /\ \A i \in DOMAIN h : h2[i] = h[i]
  BY <1>3, <1>5, <1>6
<1>9. a.object = v /\ a.modify = modify
  BY <1>6 DEF Access
<1>10. \A i \in DOMAIN h : h[i].object \in DOMAIN obj
  BY <1>2, <1>5
<1>11. \A i \in DOMAIN q : q[i] \in DOMAIN obj
  BY <1>4
<1>12. \A o \in DOMAIN obj2 : \E i \in DOMAIN q2 : q2[i] = o
  BY <1>1, <1>5, <1>7 DEF Good
<1>13. ASSUME NEW i \in DOMAIN q2, NEW j \in DOMAIN q2, q2[i] = q2[j] PROVE i = j
  <2>1. \A k \in DOMAIN q2 : k \in DOMAIN q \/ k = Len(q) + 1
    BY <1>5, <1>7
  <2>2. \A k \in DOMAIN q : q2[k] \in DOMAIN obj /\ q2[k] # v
    BY <1>7, <1>11
  <2>3. CASE i \in DOMAIN q /\ j \in DOMAIN q
    BY <1>7, <1>13, <2>3 DEF Good
  <2> QED BY <1>7, <1>13, <2>1, <2>2, <2>3
<1>14. OneEach(obj2)
  BY <1>1 DEF Good, OneEach
<1>15. ASSUME NEW i \in DOMAIN h2, NEW j \in DOMAIN h2, h2[i].object = h2[j].object PROVE i = j
  <2>1. \A k \in DOMAIN h2 : k \in DOMAIN h \/ k = Len(h) + 1
    BY <1>5, <1>8
  <2>2. \A k \in DOMAIN h : h2[k].object \in DOMAIN obj /\ h2[k].object # v
    BY <1>8, <1>10
  <2>3. CASE i \in DOMAIN h /\ j \in DOMAIN h
    BY <1>8, <1>15, <2>3 DEF Good
  <2> QED BY <1>8, <1>9, <1>15, <2>1, <2>2, <2>3
<1>16. \A o \in DOMAIN obj2 : obj2[o].modified \/ obj2[o].data = d[obj2[o].block]
  BY <1>1 DEF Good
<1>17. \A i \in DOMAIN h2 : h2[i].modify => obj2[h2[i].object].modified
  <2>1. ASSUME NEW i \in DOMAIN h, h[i].modify PROVE obj2[h[i].object].modified
    BY <1>1, <1>10, <2>1 DEF Good
  <2>2. modify => obj2[v].modified
    BY <1>1
  <2>3. \A k \in DOMAIN h2 : k \in DOMAIN h \/ k = Len(h) + 1
    BY <1>5, <1>8
  <2> QED BY <1>8, <1>9, <2>1, <2>2, <2>3
<1>18. Good(d, obj2, q2, h2)
  <2>1. h2 \in Seq([object : DOMAIN obj2, modify : BOOLEAN])
    BY <1>2, <1>8
  <2>2. d \in [Blocks -> Values]
    BY DEF Good
  <2> QED BY <1>1, <1>7, <1>12, <1>13, <1>14, <1>15, <1>16, <1>17, <2>1, <2>2 DEF Good
<1>v. /\ \A o \in DOMAIN obj2 : obj2[o].block \in Blocks =>
            View(obj2, d)[obj2[o].block] = obj2[o].data
      /\ \A c \in Blocks : (\A o \in DOMAIN obj2 : obj2[o].block # c) => View(obj2, d)[c] = d[c]
  BY ONLY <1>14, ViewValue
<1>w. /\ \A o \in DOMAIN obj : obj[o].block \in Blocks => View(obj, d)[obj[o].block] = obj[o].data
      /\ \A c \in Blocks : (\A o \in DOMAIN obj : obj[o].block # c) => View(obj, d)[c] = d[c]
  BY ViewValue DEF Good
<1>19. ASSUME NEW c \in Blocks PROVE View(obj2, d)[c] = View(obj, d)[c]
  <2>1. CASE c = b
    BY <1>1, <1>v, <1>w, <2>1
  <2>2. CASE \E o \in DOMAIN obj : obj[o].block = c
    <3>1. PICK o \in DOMAIN obj : obj[o].block = c
      BY <2>2
    <3>2. o \in DOMAIN obj2 /\ obj2[o] = obj[o]
      BY <1>1
    <3>3. View(obj2, d)[c] = obj2[o].data
      BY <1>v, <3>1, <3>2
    <3>4. View(obj, d)[c] = obj[o].data
      BY <1>w, <3>1
    <3> QED BY <3>2, <3>3, <3>4
  <2>3. CASE c # b /\ \A o \in DOMAIN obj : obj[o].block # c
    <3>1. \A o \in DOMAIN obj2 : obj2[o].block # c
      BY <1>1, <2>3
    <3> QED BY <1>v, <1>w, <2>3, <3>1
  <2> QED BY <2>1, <2>2, <2>3
<1>20. View(obj2, d) = View(obj, d)
  <2>1. View(obj2, d) = [c \in Blocks |-> View(obj2, d)[c]]
    BY DEF View
  <2>2. View(obj, d) = [c \in Blocks |-> View(obj, d)[c]]
    BY DEF View
  <2> QED BY <1>19, <2>1, <2>2
<1>21. Good(d, obj2, Append(q, v), Append(h, Access(v, modify)))
  BY ONLY <1>6, <1>18
<1> QED BY <1>1, <1>20, <1>21 DEF Loaded

\* The blocks in use.
UsingOf(obj, h) == [i \in DOMAIN h |-> [block |-> obj[h[i].object].block, modify |-> h[i].modify]]

Uses == [block : Blocks, modify : BOOLEAN]

LEMMA UsingType ==
  ASSUME NEW d, NEW obj, NEW q, NEW h, Good(d, obj, q, h)
  PROVE  /\ UsingOf(obj, h) \in Seq(Uses) /\ Len(UsingOf(obj, h)) = Len(h) /\ Len(h) \in Nat
         /\ DOMAIN h = 1 .. Len(h)
         /\ \A i \in DOMAIN h : /\ h[i].object \in DOMAIN obj /\ h[i].modify \in BOOLEAN
                               /\ obj[h[i].object] \in CachedBlock
                               /\ UsingOf(obj, h)[i].block = obj[h[i].object].block
                               /\ UsingOf(obj, h)[i].modify = h[i].modify
<1>1. PICK S : S = [object : DOMAIN obj, modify : BOOLEAN]
  OBVIOUS
<1>2. h \in Seq(S)
  BY <1>1 DEF Good
<1>3. DOMAIN h = 1 .. Len(h) /\ Len(h) \in Nat /\ \A i \in DOMAIN h : h[i] \in S
  BY <1>2
<1>4. \A i \in DOMAIN h : /\ h[i].object \in DOMAIN obj /\ h[i].modify \in BOOLEAN
                        /\ obj[h[i].object] \in CachedBlock
  BY <1>1, <1>3 DEF Good
<1>5. PICK u : u = UsingOf(obj, h)
  OBVIOUS
<1>6. u \in [1 .. Len(h) -> Uses]
  BY <1>3, <1>4, <1>5 DEF UsingOf, Uses, CachedBlock
<1>7. u \in Seq(Uses) /\ Len(u) = Len(h)
  BY <1>3, <1>6
<1>8. \A i \in DOMAIN h : u[i].block = obj[h[i].object].block /\ u[i].modify = h[i].modify
  BY <1>5 DEF UsingOf
<1> QED BY <1>3, <1>4, <1>5, <1>7, <1>8

\* The same for the blocks in use.
Enters(d, obj, q, h, v, modify, d2, obj2, q2) ==
  /\ Good(d, obj, q, h) /\ Good(d2, obj2, q2, Append(h, Access(v, modify)))
  /\ \A o \in DOMAIN obj : (\E i \in DOMAIN h : h[i].object = o) => obj2[o].block = obj[o].block

OneMoreUse(obj, h, v, modify, obj2) ==
  UsingOf(obj2, Append(h, Access(v, modify)))
    = Append(UsingOf(obj, h), [block |-> obj2[v].block, modify |-> modify])

LEMMA EnterUsing ==
  ASSUME NEW d, NEW obj, NEW q, NEW h, NEW v, NEW modify, NEW d2, NEW obj2, NEW q2,
         Enters(d, obj, q, h, v, modify, d2, obj2, q2)
  PROVE  OneMoreUse(obj, h, v, modify, obj2)
<1> USE DEF Enters
<1>1. PICK a, h2 : a = Access(v, modify) /\ h2 = Append(h, a)
  OBVIOUS
<1>2. PICK u, u2 : u = UsingOf(obj, h) /\ u2 = UsingOf(obj2, h2)
  OBVIOUS
<1>3. PICK e : e = [block |-> obj2[v].block, modify |-> modify]
  OBVIOUS
<1>4. /\ u \in Seq(Uses) /\ Len(u) = Len(h) /\ Len(h) \in Nat /\ DOMAIN h = 1 .. Len(h)
      /\ \A i \in DOMAIN h : h[i].object \in DOMAIN obj
  BY <1>2, UsingType
<1>5. u2 \in Seq(Uses) /\ Len(u2) = Len(h2) /\ DOMAIN h2 = 1 .. Len(h2) /\ Len(h2) \in Nat
  <2>1. Good(d2, obj2, q2, h2)
    BY <1>1
  <2> QED BY <1>2, <2>1, UsingType
<1>6. /\ Len(h2) = Len(h) + 1 /\ h2[Len(h) + 1] = a /\ \A i \in 1 .. Len(h) : h2[i] = h[i]
  <2>1. PICK S : S = [object : DOMAIN obj, modify : BOOLEAN]
    OBVIOUS
  <2>2. h \in Seq(S)
    BY <2>1 DEF Good
  <2>3. h \in Seq(S \cup {a})
    BY <2>2, SeqMonotonic
  <2> QED BY <1>1, <2>3, AppendProperties
<1>7. ASSUME NEW i \in 1 .. Len(h) PROVE u2[i] = u[i]
  <2>1. i \in DOMAIN h /\ i \in DOMAIN h2 /\ h2[i] = h[i] /\ obj2[h[i].object].block = obj[h[i].object].block
    BY <1>4, <1>5, <1>6
  <2> QED BY <1>2, <2>1 DEF UsingOf
<1>8. u2[Len(h) + 1] = e
  <2>1. a.object = v /\ a.modify = modify /\ Len(h) + 1 \in DOMAIN h2
    BY <1>1, <1>4, <1>5, <1>6 DEF Access
  <2> QED BY <1>2, <1>3, <1>6, <2>1 DEF UsingOf
<1>9. e \in Uses
  <2>1. Len(h) + 1 \in 1 .. Len(u2)
    BY <1>4, <1>5, <1>6
  <2> QED BY <1>5, <1>8, <2>1
<1>10. Append(u, e) = u2
  <2>1. /\ Append(u, e) \in Seq(Uses) /\ Len(Append(u, e)) = Len(h) + 1
        /\ \A i \in 1 .. Len(h) : Append(u, e)[i] = u[i]
        /\ Append(u, e)[Len(h) + 1] = e
    BY <1>4, <1>9, AppendProperties
  <2>2. \A i \in 1 .. Len(h) + 1 : Append(u, e)[i] = u2[i]
    BY <1>4, <1>7, <1>8, <2>1
  <2> QED BY <1>5, <1>6, <2>1, <2>2, SeqEqual
<1> QED BY <1>1, <1>2, <1>3, <1>10 DEF OneMoreUse

\* A load keeps the cache good, shows its users what they saw, and is one more use.
Entered(d, obj, q, h, b, v, modify, obj2) ==
  /\ Good(d, obj2, Append(q, v), Append(h, Access(v, modify)))
  /\ View(obj2, d) = View(obj, d)
  /\ UsingOf(obj2, Append(h, Access(v, modify)))
       = Append(UsingOf(obj, h), [block |-> b, modify |-> modify])

LEMMA LoadEnters ==
  ASSUME NEW d, NEW obj, NEW q, NEW h, NEW b, NEW v, NEW modify, NEW obj2,
         Loads(d, obj, q, h, b, v, modify, obj2)
  PROVE  Entered(d, obj, q, h, b, v, modify, obj2)
<1>1. Loaded(d, obj, q, h, b, v, modify, obj2)
  BY LoadGood, Zenon
<1>2. Enters(d, obj, q, h, v, modify, d, obj2, Append(q, v))
  BY <1>1, Zenon DEF Loads, Loaded, Enters
<1>3. OneMoreUse(obj, h, v, modify, obj2)
  BY <1>2, EnterUsing, Zenon
<1> QED BY <1>1, <1>3, Zenon DEF Entered, Loaded, OneMoreUse

----------------------------------------------------------------------------
\* The actions.

\* Every step keeps the invariant and is a step of the store, or none.
Follows == CacheInv' /\ [Plain!Next]_(Plain!vars)

\* Entering a block, from what the step does to the cache and to its users' view.
LEMMA EnterFollows ==
  ASSUME CacheInv, NEW b \in Blocks, NEW modify \in BOOLEAN, CacheInv', Shown' = Shown,
         UsingOf(object', held') = Append(UsingOf(object, held), [block |-> b, modify |-> modify]),
         disk' = disk \/ \E c \in Blocks : disk' = [disk EXCEPT ![c] = Shown[c]]
  PROVE  Follows
<1>1. Plain!Enter(b, modify)
  BY DEF Plain!Enter, Plain!WriteBack, UsingOf
<1> QED BY <1>1 DEF Follows, Plain!Next

\* A step that changes nothing a user can tell.
LEMMA StutterFollows ==
  ASSUME CacheInv', Shown' = Shown, disk' = disk,
         UsingOf(object', held') = UsingOf(object, held)
  PROVE  Follows
  BY DEF Follows, Plain!vars, UsingOf

LEMMA CacheGood ==
  ASSUME CacheInv
  PROVE  Good(disk, object, queue, held) /\ Shown = View(object, disk)
  BY ShownIsView DEF CacheInv

\* Users cannot tell whether a block is marked.
LEMMA ViewKept ==
  ASSUME NEW obj, NEW obj2, NEW d, OneEach(obj), DOMAIN obj2 = DOMAIN obj,
         \A o \in DOMAIN obj : /\ obj[o].block \in Blocks /\ obj2[o].block = obj[o].block
                              /\ obj2[o].data = obj[o].data
  PROVE  OneEach(obj2) /\ View(obj2, d) = View(obj, d)
<1>1. OneEach(obj2)
  BY DEF OneEach
<1>v. /\ \A o \in DOMAIN obj2 : obj2[o].block \in Blocks => View(obj2, d)[obj2[o].block] = obj2[o].data
      /\ \A c \in Blocks : (\A o \in DOMAIN obj2 : obj2[o].block # c) => View(obj2, d)[c] = d[c]
  BY ONLY <1>1, ViewValue
<1>w. /\ \A o \in DOMAIN obj : obj[o].block \in Blocks => View(obj, d)[obj[o].block] = obj[o].data
      /\ \A c \in Blocks : (\A o \in DOMAIN obj : obj[o].block # c) => View(obj, d)[c] = d[c]
  BY ViewValue
<1>2. ASSUME NEW c \in Blocks PROVE View(obj2, d)[c] = View(obj, d)[c]
  <2>1. CASE \E o \in DOMAIN obj : obj[o].block = c
    BY <1>v, <1>w, <2>1
  <2>2. CASE \A o \in DOMAIN obj : obj[o].block # c
    BY <1>v, <1>w, <2>2
  <2> QED BY <2>1, <2>2
<1>3. View(obj2, d) = [c \in Blocks |-> View(obj2, d)[c]] /\ View(obj, d) = [c \in Blocks |-> View(obj, d)[c]]
  BY DEF View
<1> QED BY <1>1, <1>2, <1>3

\* One more use of an object of the queue.
IsMore(obj, h, o, m, h2) ==
  /\ h2 \in Seq([object : DOMAIN obj, modify : BOOLEAN])
  /\ Len(h2) = Len(h) + 1 /\ Len(h) \in Nat
  /\ \A i \in 1 .. Len(h) : h2[i] = h[i]
  /\ h2[Len(h) + 1].object = o /\ h2[Len(h) + 1].modify = m
  /\ DOMAIN h = 1 .. Len(h) /\ DOMAIN h2 = 1 .. Len(h) + 1

LEMMA HeldMore ==
  ASSUME NEW obj, NEW h \in Seq([object : DOMAIN obj, modify : BOOLEAN]), NEW o \in DOMAIN obj, NEW m \in BOOLEAN
  PROVE  IsMore(obj, h, o, m, Append(h, Access(o, m)))
<1>1. PICK S, a : S = [object : DOMAIN obj, modify : BOOLEAN] /\ a = Access(o, m)
  OBVIOUS
<1>2. a \in S /\ a.object = o /\ a.modify = m
  BY <1>1 DEF Access
<1>3. h \in Seq(S)
  BY <1>1
<1>4. PICK h2 : h2 = Append(h, a)
  OBVIOUS
<1>5. /\ h2 \in Seq(S) /\ Len(h2) = Len(h) + 1 /\ Len(h) \in Nat
      /\ \A i \in 1 .. Len(h) : h2[i] = h[i]
      /\ h2[Len(h) + 1] = a
      /\ DOMAIN h = 1 .. Len(h) /\ DOMAIN h2 = 1 .. Len(h) + 1
  BY ONLY <1>2, <1>3, <1>4, AppendProperties
<1> QED BY <1>1, <1>2, <1>4, <1>5 DEF IsMore

LEMMA MarkIs ==
  ASSUME NEW cb \in CachedBlock, NEW modify \in BOOLEAN
  PROVE  /\ Mark(cb, modify) \in CachedBlock /\ Mark(cb, modify).block = cb.block
         /\ Mark(cb, modify).data = cb.data /\ Mark(cb, modify).modified = (cb.modified \/ modify)
  BY DEF Mark, CachedBlock

LEMMA HeldFacts ==
  ASSUME CacheInv
  PROVE  \A i \in DOMAIN held : /\ held[i].object \in DOMAIN object /\ held[i].modify \in BOOLEAN
                                /\ held[i].modify => object[held[i].object].modified
<1>1. PICK S : S = [object : DOMAIN object, modify : BOOLEAN]
  OBVIOUS
<1>2. held \in Seq(S)
  BY <1>1 DEF CacheInv, Good
<1>3. \A i \in DOMAIN held : held[i] \in S
  BY <1>2
<1> QED BY <1>1, <1>3 DEF CacheInv, Good

LEMMA HitFollows ==
  ASSUME CacheInv, NEW b \in Blocks, NEW modify \in BOOLEAN, Hit(b, modify)
  PROVE  Follows
<1>1. PICK o : o = queue[Min(Cached(b))]
  OBVIOUS
<1>2. /\ object' = [object EXCEPT ![o] = Mark(@, modify)] /\ held' = Append(held, Access(o, modify))
      /\ disk' = disk /\ queue' = queue /\ machine' = machine /\ Len(held) < MaxNest
      /\ \A i \in DOMAIN held : held[i].object # o
  BY <1>1 DEF Hit, Locked
<1>3. o \in DOMAIN object /\ object[o].block = b
  <2>1. Min(Cached(b)) \in Cached(b)
    <3>1. Cached(b) \in SUBSET Nat /\ Cached(b) # {}
      BY InvFacts DEF Cached, Hit
    <3> QED BY <3>1, MinMember
  <2> QED BY <1>1, <2>1, InvFacts DEF Cached
<1>4. PICK h2, u : h2 = Append(held, Access(o, modify)) /\ u = DOMAIN object
  OBVIOUS
<1>5. /\ h2 \in Seq([object : DOMAIN object, modify : BOOLEAN])
      /\ Len(h2) = Len(held) + 1 /\ Len(held) \in Nat
      /\ \A i \in 1 .. Len(held) : h2[i] = held[i]
      /\ h2[Len(held) + 1].object = o /\ h2[Len(held) + 1].modify = modify
      /\ DOMAIN held = 1 .. Len(held) /\ DOMAIN h2 = 1 .. Len(held) + 1
  <2>1. held \in Seq([object : DOMAIN object, modify : BOOLEAN])
    BY InvFacts
  <2>2. IsMore(object, held, o, modify, Append(held, Access(o, modify)))
    BY <1>3, <2>1, HeldMore, Zenon
  <2> QED BY <1>4, <2>2, Zenon DEF IsMore
<1>6. PICK obj2 : obj2 = object'
  OBVIOUS
<1>7. /\ DOMAIN obj2 = DOMAIN object
      /\ \A x \in DOMAIN object : /\ obj2[x] \in CachedBlock /\ obj2[x].block = object[x].block
                                  /\ obj2[x].data = object[x].data
                                  /\ object[x].modified => obj2[x].modified
      /\ modify => obj2[o].modified
      /\ obj2 = [x \in DOMAIN obj2 |-> obj2[x]]
  <2>1. \A x \in DOMAIN object : object[x] \in CachedBlock
    BY InvFacts DEF CachedBlock
  <2>2. /\ Mark(object[o], modify) \in CachedBlock /\ Mark(object[o], modify).block = object[o].block
        /\ Mark(object[o], modify).data = object[o].data
        /\ (object[o].modified => Mark(object[o], modify).modified)
        /\ (modify => Mark(object[o], modify).modified)
    BY <1>3, <2>1, MarkIs
  <2>3. /\ DOMAIN obj2 = DOMAIN object /\ obj2[o] = Mark(object[o], modify)
        /\ \A x \in DOMAIN object : x # o => obj2[x] = object[x]
        /\ obj2 = [x \in DOMAIN obj2 |-> obj2[x]]
    BY <1>2, <1>3, <1>6
  <2> QED BY <2>1, <2>2, <2>3
<1>8. OneEach(obj2) /\ View(obj2, disk) = View(object, disk)
  BY <1>7, InvFacts, ViewKept
<1>9. Good(disk, obj2, queue, h2)
  <2>1. obj2 \in [DOMAIN obj2 -> CachedBlock] /\ h2 \in Seq([object : DOMAIN obj2, modify : BOOLEAN])
    BY <1>5, <1>7
  <2>2. \A i, j \in DOMAIN h2 : h2[i].object = h2[j].object => i = j
    <3>1. \A i, j \in DOMAIN held : held[i].object = held[j].object => i = j
      BY DEF CacheInv, Good
    <3> QED BY <1>2, <1>5, <3>1
  <2>3. \A x \in DOMAIN obj2 : obj2[x].modified \/ obj2[x].data = disk[obj2[x].block]
    BY <1>7 DEF CacheInv, Good
  <2>4. \A i \in DOMAIN h2 : h2[i].modify => obj2[h2[i].object].modified
    <3>1. \A i \in DOMAIN held : /\ held[i].object \in DOMAIN object /\ held[i].modify \in BOOLEAN
                                 /\ held[i].modify => object[held[i].object].modified
      BY HeldFacts
    <3>2. \A i \in DOMAIN h2 : i \in DOMAIN held \/ i = Len(held) + 1
      BY <1>5
    <3> QED BY <1>3, <1>5, <1>7, <3>1, <3>2
  <2>5. /\ disk \in [Blocks -> Values] /\ queue \in Seq(DOMAIN obj2)
        /\ \A x \in DOMAIN obj2 : \E i \in DOMAIN queue : queue[i] = x
        /\ \A i, j \in DOMAIN queue : queue[i] = queue[j] => i = j
    BY <1>7 DEF CacheInv, Good
  <2> QED BY <1>8, <2>1, <2>2, <2>3, <2>4, <2>5 DEF Good
<1>10. UsingOf(object', held') = Append(UsingOf(object, held), [block |-> b, modify |-> modify])
  <2>1. Enters(disk, object, queue, held, o, modify, disk, obj2, queue)
    BY <1>4, <1>7, <1>9, CacheGood DEF Enters
  <2>2. OneMoreUse(object, held, o, modify, obj2)
    BY <2>1, EnterUsing, Zenon
  <2> QED BY <1>2, <1>3, <1>6, <1>7, <2>2 DEF OneMoreUse
<1>11. CacheInv'
  <2>1. Good(disk', object', queue', held')
    BY <1>2, <1>4, <1>6, <1>9
  <2>2. DOMAIN object' \subseteq Objects
    BY <1>6, <1>7 DEF CacheInv
  <2>3. Len(held') <= MaxNest /\ Len(queue') <= CacheSize
    BY <1>2, <1>4, <1>5, BoundAssumption DEF CacheInv
  <2> QED BY <1>2, <2>1, <2>2, <2>3 DEF CacheInv
<1>12. Shown' = Shown
  BY <1>2, <1>6, <1>8, ShownIsView, ShownIsViewAfter
<1> QED BY <1>2, <1>10, <1>11, <1>12, EnterFollows

LEMMA IntervalSize ==
  ASSUME NEW n \in Nat
  PROVE  IsFiniteSet(1 .. n) /\ Cardinality(1 .. n) = n
<1>1. \A a, b \in Int : /\ IsFiniteSet(a .. b)
                        /\ Cardinality(a .. b) = IF a > b THEN 0 ELSE b - a + 1
  BY FS_Interval
<1>2. IsFiniteSet(1 .. n) /\ Cardinality(1 .. n) = IF 1 > n THEN 0 ELSE n - 1 + 1
  BY <1>1
<1> QED BY <1>2

\* Some slot is left for a new object.
LEMMA SlotLeft ==
  ASSUME CacheInv, Len(held) < MaxNest
  PROVE  Min(Objects \ DOMAIN object) \in Objects \ DOMAIN object
<1>1. Objects \ DOMAIN object # {}
  <2>1. SUFFICES ASSUME Objects \subseteq DOMAIN object PROVE FALSE
    OBVIOUS
  <2>2. /\ CacheSize \in Nat /\ MaxNest \in Nat /\ MaxNest > 0 /\ Len(queue) \in Nat
        /\ Len(queue) <= CacheSize /\ DOMAIN queue = 1 .. Len(queue)
    BY BoundAssumption, InvFacts DEF CacheInv
  <2>3. IsFiniteSet(1 .. Len(queue)) /\ Cardinality(1 .. Len(queue)) = Len(queue)
    BY <2>2, IntervalSize
  <2>4. IsFiniteSet(Objects) /\ Cardinality(Objects) = CacheSize + MaxNest
    BY <2>2, IntervalSize DEF Objects
  <2>5. queue \in Surjection(1 .. Len(queue), DOMAIN object)
    BY <2>2, InvFacts DEF Surjection
  <2>6. IsFiniteSet(DOMAIN object) /\ Cardinality(DOMAIN object) <= Len(queue)
    BY <2>3, <2>5, FS_Surjection
  <2>7. Cardinality(Objects) <= Cardinality(DOMAIN object) /\ Cardinality(DOMAIN object) \in Nat
    BY <2>1, <2>6, FS_Subset, FS_CardinalityType
  <2> QED BY <2>2, <2>4, <2>6, <2>7
<1>2. Objects \ DOMAIN object \in SUBSET Nat
  BY BoundAssumption DEF Objects
<1> QED BY <1>1, <1>2, MinMember

LEMMA MissFollows ==
  ASSUME CacheInv, NEW b \in Blocks, NEW modify \in BOOLEAN, Miss(b, modify)
  PROVE  Follows
<1>1. PICK v, cb : v = Min(Objects \ DOMAIN object)
                   /\ cb = Mark([block |-> b, data |-> disk[b], modified |-> FALSE], modify)
  OBVIOUS
<1>2. /\ object' = [o \in DOMAIN object \cup {v} |-> IF o = v THEN cb ELSE object[o]]
      /\ held' = Append(held, Access(v, modify)) /\ disk' = disk /\ queue' = Append(queue, v)
      /\ machine' = machine /\ Len(held) < MaxNest /\ Cached(b) = {} /\ Len(queue) # CacheSize
  BY <1>1 DEF Miss, Load, Full
<1>3. /\ cb \in CachedBlock /\ cb.block = b /\ cb.data = disk[b] /\ cb.modified = modify
  <2>1. [block |-> b, data |-> disk[b], modified |-> FALSE] \in CachedBlock
    BY InvFacts DEF CachedBlock
  <2> QED BY <1>1, <2>1, MarkIs
<1>4. v \in Objects \ DOMAIN object
  BY <1>1, <1>2, SlotLeft
<1>5. \A o \in DOMAIN object : object[o].block # b
  BY <1>2, InvFacts DEF Cached
<1>6. Good(disk, object, queue, held) /\ Shown = View(object, disk)
  BY CacheGood
<1>7. /\ Good(disk', object', queue', held') /\ View(object', disk') = View(object, disk)
      /\ UsingOf(object', held') = Append(UsingOf(object, held), [block |-> b, modify |-> modify])
  <2>1. Loads(disk, object, queue, held, b, v, modify, object')
    BY <1>2, <1>3, <1>4, <1>5, <1>6 DEF Loads
  <2>2. Entered(disk, object, queue, held, b, v, modify, object')
    BY <2>1, LoadEnters, Zenon
  <2> QED BY <1>2, <2>2, Zenon DEF Entered
<1>8. CacheInv'
  <2>1. Len(held') <= MaxNest /\ Len(queue') <= CacheSize
    BY <1>2, <1>4, BoundAssumption DEF CacheInv, Good
  <2>2. DOMAIN object' \subseteq Objects
    BY <1>2, <1>4 DEF CacheInv
  <2> QED BY <1>2, <1>7, <2>1, <2>2 DEF CacheInv
<1> QED BY <1>2, <1>6, <1>7, <1>8, EnterFollows, ShownIsViewAfter

LEMMA ReplaceFollows ==
  ASSUME CacheInv, NEW b \in Blocks, NEW modify \in BOOLEAN, Replace(b, modify)
  PROVE  Follows
<1>1. PICK v, cb, k : /\ v = Min(Objects \ DOMAIN object) /\ k = Min(Victims)
                      /\ cb = Mark([block |-> b, data |-> DiskAfter(queue[k])[b], modified |-> FALSE], modify)
  OBVIOUS
<1>2. PICK d1, obj1 : d1 = DiskAfter(queue[k]) /\ obj1 = Released(queue[k])
  OBVIOUS
<1>3. /\ object' = [o \in DOMAIN obj1 \cup {v} |-> IF o = v THEN cb ELSE obj1[o]]
      /\ held' = Append(held, Access(v, modify)) /\ disk' = d1
      /\ queue' = Append(RemoveAt(queue, k), v) /\ machine' = machine
      /\ Len(held) < MaxNest /\ Cached(b) = {} /\ Victims # {}
  BY <1>1, <1>2 DEF Replace, Load
<1>4. k \in DOMAIN queue /\ StrongCount(queue[k]) = 1 /\ queue[k] \in DOMAIN object
  <2>1. Victims \in SUBSET Nat
    BY InvFacts DEF Victims
  <2>2. k \in Victims
    BY <1>1, <1>3, <2>1, MinMember
  <2> QED BY <2>2, InvFacts DEF Victims
<1>5. \A i \in DOMAIN held : held[i].object # queue[k]
  BY <1>4, StrongCountIs DEF Locked
<1>6. Dropped(disk, object, queue, held, k, d1, obj1)
  <2>1. obj1 = [x \in DOMAIN object \ {queue[k]} |-> object[x]]
    BY <1>2, <1>4 DEF Released
  <2>2. d1 = IF object[queue[k]].modified
             THEN [disk EXCEPT ![object[queue[k]].block] = object[queue[k]].data] ELSE disk
    BY <1>2, <1>4, Zenon DEF DiskAfter, SyncBlock
  <2>3. Drops(disk, object, queue, held, k, d1, obj1)
    BY <1>4, <1>5, <2>1, <2>2, CacheGood, Zenon DEF Drops
  <2> QED BY <2>3, DropGood, Zenon
<1>7. /\ DOMAIN obj1 \subseteq DOMAIN object /\ \A o \in DOMAIN obj1 : obj1[o] = object[o]
      /\ \A i \in DOMAIN held : held[i].object \in DOMAIN obj1
  BY <1>2, <1>4, <1>5, HeldFacts DEF Released
<1>8. v \in Objects /\ v \notin DOMAIN object
  BY <1>1, <1>3, SlotLeft
<1>9. \A o \in DOMAIN object : object[o].block # b
  BY <1>3, InvFacts DEF Cached
<1>10. Entered(d1, obj1, RemoveAt(queue, k), held, b, v, modify, object')
  <2>1. Good(d1, obj1, RemoveAt(queue, k), held)
    BY <1>6, Zenon DEF Dropped
  <2>2. d1[b] \in Values
    BY <2>1 DEF Good
  <2>3. /\ cb \in CachedBlock /\ cb.block = b /\ cb.data = d1[b] /\ cb.modified = modify
    <3>1. [block |-> b, data |-> d1[b], modified |-> FALSE] \in CachedBlock
      BY <2>2 DEF CachedBlock
    <3> QED BY <1>1, <1>2, <3>1, MarkIs
  <2>4. v \notin DOMAIN obj1 /\ \A o \in DOMAIN obj1 : obj1[o].block # b
    BY <1>7, <1>8, <1>9
  <2>5. Loads(d1, obj1, RemoveAt(queue, k), held, b, v, modify, object')
    BY <1>3, <2>1, <2>3, <2>4 DEF Loads
  <2> QED BY <2>5, LoadEnters, Zenon
<1>11. /\ Good(disk', object', queue', held')
       /\ View(object', disk') = View(obj1, d1)
       /\ UsingOf(object', held') = Append(UsingOf(obj1, held), [block |-> b, modify |-> modify])
  BY <1>3, <1>10, Zenon DEF Entered
<1>12. UsingOf(obj1, held) = UsingOf(object, held)
  BY <1>7 DEF UsingOf
<1>13. CacheInv'
  <2>1. DOMAIN object' \subseteq Objects
    BY <1>3, <1>7, <1>8 DEF CacheInv
  <2>2. Len(held') <= MaxNest /\ Len(queue') <= CacheSize
    <3>1. Len(held') = Len(held) + 1 /\ Len(held) \in Nat
      BY <1>3, InvFacts
    <3>2. Len(queue') = Len(queue)
      <4>1. RemoveAt(queue, k) \in Seq(DOMAIN object) /\ Len(RemoveAt(queue, k)) = Len(queue) - 1
        BY <1>4, InvFacts, RemoveAtProperties
      <4> QED BY <1>3, <4>1, InvFacts
    <3> QED BY <1>3, <3>1, <3>2, BoundAssumption DEF CacheInv
  <2> QED BY <1>3, <1>11, <2>1, <2>2 DEF CacheInv
<1>14. Shown' = Shown
  BY <1>6, <1>11, ShownIsView, ShownIsViewAfter, Zenon DEF Dropped
<1>15. disk' = disk \/ \E c \in Blocks : disk' = [disk EXCEPT ![c] = Shown[c]]
  BY <1>3, <1>6, ShownIsView, Zenon DEF Dropped
<1> QED BY <1>11, <1>12, <1>13, <1>14, <1>15, EnterFollows

\* The machine stops: nobody can tell.
LEMMA StopFollows ==
  ASSUME CacheInv, UNCHANGED <<disk, object, queue, held>>,
         machine' \in {"running", "panic", "spinning"}
  PROVE  Follows
<1>1. CacheInv'
  BY DEF CacheInv, Good, OneEach
<1>2. Shown' = Shown /\ UsingOf(object', held') = UsingOf(object, held)
  BY ShownIsView, ShownIsViewAfter
<1> QED BY <1>1, <1>2, StutterFollows

LEMMA StoreFollows ==
  ASSUME CacheInv, NEW v \in Values, Store(v)
  PROVE  Follows
<1>1. PICK n, o : n = Len(held) /\ o = held[n].object
  OBVIOUS
<1>2. /\ n \in DOMAIN held /\ held[n].modify /\ o \in DOMAIN object /\ object[o].modified
      /\ object' = [object EXCEPT ![o].data = v]
      /\ disk' = disk /\ queue' = queue /\ held' = held /\ machine' = machine
  <2>1. held # <<>> /\ Last(held) = held[n] /\ held[n].modify
    BY <1>1, Zenon DEF Store, Last
  <2>2. n \in DOMAIN held
    BY <1>1, <2>1, InvFacts
  <2>3. o \in DOMAIN object /\ object[o].modified
    BY <1>1, <2>1, <2>2, HeldFacts
  <2> QED BY <1>1, <2>1, <2>2, <2>3, Zenon DEF Store
<1>3. PICK obj2 : obj2 = object'
  OBVIOUS
<1>4. /\ DOMAIN obj2 = DOMAIN object
      /\ obj2[o].block = object[o].block /\ obj2[o].data = v /\ obj2[o].modified
      /\ \A x \in DOMAIN object : x # o => obj2[x] = object[x]
      /\ obj2 \in [DOMAIN obj2 -> CachedBlock]
  <2>1. object \in [DOMAIN object -> CachedBlock] /\ object[o] \in CachedBlock
    BY <1>2, InvFacts DEF CachedBlock
  <2>2. obj2 = [object EXCEPT ![o] = [object[o] EXCEPT !.data = v]]
    BY <1>2, <1>3
  <2>3. PICK cb : cb = [object[o] EXCEPT !.data = v]
    OBVIOUS
  <2>4. cb \in CachedBlock /\ cb.block = object[o].block /\ cb.data = v /\ cb.modified = object[o].modified
    BY <2>1, <2>3 DEF CachedBlock
  <2> QED BY <1>2, <2>1, <2>2, <2>3, <2>4
<1>5. OneEach(obj2)
  <2>1. \A x \in DOMAIN object : obj2[x].block = object[x].block
    BY <1>4
  <2>2. OneEach(object) /\ DOMAIN obj2 = DOMAIN object
    BY <1>4, InvFacts
  <2> QED BY <2>1, <2>2, Zenon DEF OneEach
<1>6. Good(disk, obj2, queue, held)
  <2>1. /\ disk \in [Blocks -> Values] /\ queue \in Seq(DOMAIN obj2)
        /\ held \in Seq([object : DOMAIN obj2, modify : BOOLEAN])
        /\ \A x \in DOMAIN obj2 : \E i \in DOMAIN queue : queue[i] = x
        /\ \A i, j \in DOMAIN queue : queue[i] = queue[j] => i = j
        /\ \A i, j \in DOMAIN held : held[i].object = held[j].object => i = j
    BY <1>4 DEF CacheInv, Good
  <2>2. \A x \in DOMAIN obj2 : obj2[x].modified \/ obj2[x].data = disk[obj2[x].block]
    BY <1>4 DEF CacheInv, Good
  <2>3. \A i \in DOMAIN held : held[i].modify => obj2[held[i].object].modified
    BY <1>4, HeldFacts
  <2> QED BY <1>4, <1>5, <2>1, <2>2, <2>3 DEF Good
<1>7. CacheInv'
  BY <1>2, <1>3, <1>4, <1>6 DEF CacheInv
<1>8. Shown' = [Shown EXCEPT ![object[o].block] = v]
  <2>v. /\ \A x \in DOMAIN obj2 : obj2[x].block \in Blocks => View(obj2, disk)[obj2[x].block] = obj2[x].data
        /\ \A c \in Blocks : (\A x \in DOMAIN obj2 : obj2[x].block # c) => View(obj2, disk)[c] = disk[c]
    BY ONLY <1>5, ViewValue
  <2>w. /\ \A x \in DOMAIN object : object[x].block \in Blocks => View(object, disk)[object[x].block] = object[x].data
        /\ \A c \in Blocks : (\A x \in DOMAIN object : object[x].block # c) => View(object, disk)[c] = disk[c]
    BY InvFacts, ViewValue
  <2>1. ASSUME NEW c \in Blocks
        PROVE  View(obj2, disk)[c] = IF c = object[o].block THEN v ELSE View(object, disk)[c]
    <3>1. CASE c = object[o].block
      BY <1>2, <1>4, <2>v, <3>1
    <3>2. CASE c # object[o].block /\ \E x \in DOMAIN object : object[x].block = c
      <4>1. PICK x \in DOMAIN object : object[x].block = c
        BY <3>2
      <4>2. x # o /\ x \in DOMAIN obj2 /\ obj2[x] = object[x]
        BY <1>4, <3>2, <4>1
      <4> QED BY <2>v, <2>w, <3>2, <4>1, <4>2
    <3>3. CASE c # object[o].block /\ \A x \in DOMAIN object : object[x].block # c
      <4>1. \A x \in DOMAIN obj2 : obj2[x].block # c
        BY <1>4, <3>3
      <4> QED BY <2>v, <2>w, <3>3, <4>1
    <3> QED BY <3>1, <3>2, <3>3
  <2>2. /\ View(obj2, disk) = [c \in Blocks |-> View(obj2, disk)[c]]
        /\ View(object, disk) = [c \in Blocks |-> View(object, disk)[c]]
    BY DEF View
  <2>3. View(obj2, disk) = [View(object, disk) EXCEPT ![object[o].block] = v]
    BY <2>1, <2>2
  <2> QED BY <1>2, <1>3, <2>3, ShownIsView, ShownIsViewAfter
<1>9. PICK u : u = UsingOf(object, held)
  OBVIOUS
<1>10. UsingOf(object', held') = u
  BY <1>2, <1>3, <1>4, <1>9, HeldFacts DEF UsingOf
<1>11. u # <<>> /\ Len(u) = n /\ u[n].modify /\ u[n].block = object[o].block
  <2>1. Len(u) = Len(held) /\ Len(held) \in Nat
    BY <1>9, CacheGood, UsingType
  <2>2. u[n] = [block |-> object[o].block, modify |-> held[n].modify]
    BY <1>1, <1>2, <1>9 DEF UsingOf
  <2>3. u[n].modify = held[n].modify /\ u[n].block = object[o].block
    BY <2>2
  <2>4. Len(held) > 0
    BY <1>1, <1>2, InvFacts
  <2> QED BY <1>1, <1>2, <2>1, <2>3, <2>4
<1>12. Plain!Write(v)
  BY <1>2, <1>8, <1>9, <1>10, <1>11 DEF Plain!Write, UsingOf
<1> QED BY <1>7, <1>12 DEF Follows, Plain!Next

\* Nothing is dropped at the end of a use: the queue still has its copy.
LEMMA LeaveFollows ==
  ASSUME CacheInv, Leave
  PROVE  Follows
<1>1. PICK n : n = Len(held)
  OBVIOUS
<1>2. /\ n \in Nat /\ n > 0 /\ DOMAIN held = 1 .. n /\ n <= MaxNest
      /\ Last(held).object \in DOMAIN object /\ Locked(Last(held).object)
  <2>1. held # <<>> /\ n \in Nat /\ DOMAIN held = 1 .. n /\ Last(held) = held[n] /\ n <= MaxNest
    BY <1>1, InvFacts DEF Leave, Last, CacheInv
  <2>2. n > 0
    BY <1>1, <2>1, InvFacts
  <2>3. held[n].object \in DOMAIN object
    BY <2>1, <2>2, HeldFacts
  <2> QED BY <2>1, <2>2, <2>3 DEF Locked
<1>3. StrongCount(Last(held).object) # 1
  BY <1>2, StrongCountIs
<1>4. PICK h : h = SubSeq(held, 1, n - 1)
  OBVIOUS
<1>5. object' = object /\ disk' = disk /\ queue' = queue /\ machine' = machine /\ held' = h
  <2>1. object' = [x \in DOMAIN object |-> object[x]]
    BY <1>3 DEF Leave, Released
  <2>2. object' = object
    BY <2>1, InvFacts
  <2> QED BY <1>1, <1>3, <1>4, <2>2 DEF Leave, DiskAfter, Front
<1>6. /\ h \in Seq([object : DOMAIN object, modify : BOOLEAN]) /\ Len(h) = n - 1 /\ DOMAIN h = 1 .. n - 1
      /\ \A i \in 1 .. n - 1 : h[i] = held[i]
  <2>1. PICK S : S = [object : DOMAIN object, modify : BOOLEAN]
    OBVIOUS
  <2>2. held \in Seq(S)
    BY <2>1, InvFacts
  <2>3. h \in Seq(S) /\ Len(h) = n - 1 /\ \A i \in 1 .. n - 1 : h[i] = held[i]
    BY <1>1, <1>2, <1>4, <2>2, SubSeqProperties
  <2> QED BY <1>2, <2>1, <2>3
<1>7. Good(disk, object, queue, h)
  <2>1. \A i \in DOMAIN h : i \in DOMAIN held /\ h[i] = held[i]
    BY <1>2, <1>6
  <2> QED BY <1>6, <2>1 DEF CacheInv, Good
<1>8. CacheInv'
  BY <1>2, <1>5, <1>6, <1>7, BoundAssumption DEF CacheInv
<1>9. Shown' = Shown
  BY <1>5, ShownIsView, ShownIsViewAfter
<1>10. PICK u : u = UsingOf(object, held)
  OBVIOUS
<1>11. /\ u \in Seq(Uses) /\ Len(u) = n /\ \A i \in 1 .. n : u[i] = UsingOf(object, held)[i]
  BY <1>1, <1>10, CacheGood, UsingType
<1>12. UsingOf(object, h) = SubSeq(u, 1, n - 1)
  <2>1. PICK w : w = UsingOf(object, h)
    OBVIOUS
  <2>2. w \in Seq(Uses) /\ Len(w) = n - 1
    BY <1>6, <1>7, <2>1, UsingType
  <2>3. /\ SubSeq(u, 1, n - 1) \in Seq(Uses) /\ Len(SubSeq(u, 1, n - 1)) = n - 1
        /\ \A i \in 1 .. n - 1 : SubSeq(u, 1, n - 1)[i] = u[i]
    BY <1>2, <1>11, SubSeqProperties
  <2>4. \A i \in 1 .. n - 1 : w[i] = u[i]
    BY <1>2, <1>6, <1>10, <2>1 DEF UsingOf
  <2> QED BY <2>1, <2>2, <2>3, <2>4, SeqEqual
<1>13. u # <<>>
  BY <1>2, <1>11
<1>14. Plain!Leave
  BY <1>5, <1>9, <1>10, <1>11, <1>12, <1>13 DEF Plain!Leave, UsingOf
<1> QED BY <1>8, <1>14 DEF Follows, Plain!Next

LEMMA SyncAllFollows ==
  ASSUME CacheInv, SyncAll
  PROVE  Follows
<1>1. /\ held = <<>> /\ held' = <<>> /\ queue' = queue /\ machine' = machine /\ disk' = Shown
      /\ object' = [o \in DOMAIN object |-> [object[o] EXCEPT !.modified = FALSE]]
  BY SyncedIsShown DEF SyncAll
<1>2. PICK obj2 : obj2 = object'
  OBVIOUS
<1>3. /\ DOMAIN obj2 = DOMAIN object /\ obj2 \in [DOMAIN obj2 -> CachedBlock]
      /\ \A o \in DOMAIN object : obj2[o].block = object[o].block /\ obj2[o].data = object[o].data
  <2>1. ASSUME NEW o \in DOMAIN object
        PROVE  /\ obj2[o] \in CachedBlock /\ obj2[o].block = object[o].block
               /\ obj2[o].data = object[o].data
    <3>1. PICK cb : cb = object[o]
      OBVIOUS
    <3>2. cb \in CachedBlock
      BY <3>1, InvFacts DEF CachedBlock
    <3>3. obj2[o] = [cb EXCEPT !.modified = FALSE]
      BY <1>1, <1>2, <3>1
    <3> QED BY <3>1, <3>2, <3>3 DEF CachedBlock
  <2>2. DOMAIN obj2 = DOMAIN object /\ obj2 = [o \in DOMAIN obj2 |-> obj2[o]]
    BY <1>1, <1>2
  <2> QED BY <2>1, <2>2
<1>4. OneEach(obj2)
  BY <1>3, InvFacts DEF OneEach
<1>w. /\ \A o \in DOMAIN object : Shown[object[o].block] = object[o].data
      /\ Shown = [b \in Blocks |-> Shown[b]]
  BY InvFacts, ShownIsView, ViewValue DEF View
<1>v. /\ \A o \in DOMAIN obj2 : obj2[o].block \in Blocks => View(obj2, Shown)[obj2[o].block] = obj2[o].data
      /\ \A c \in Blocks : (\A o \in DOMAIN obj2 : obj2[o].block # c) => View(obj2, Shown)[c] = Shown[c]
  BY ONLY <1>4, ViewValue
<1>5. Shown \in [Blocks -> Values]
  <2>1. ASSUME NEW b \in Blocks PROVE Shown[b] \in Values
    <3>1. CASE \E o \in DOMAIN object : object[o].block = b
      BY <1>w, <3>1, InvFacts
    <3>2. CASE \A o \in DOMAIN object : object[o].block # b
      <4>1. Shown[b] = disk[b]
        BY <3>2, InvFacts, ShownIsView, ViewValue
      <4> QED BY <4>1, InvFacts
    <3> QED BY <3>1, <3>2
  <2> QED BY <1>w, <2>1
<1>6. View(obj2, Shown) = Shown
  <2>1. \A c \in Blocks : View(obj2, Shown)[c] = Shown[c]
    <3>1. ASSUME NEW c \in Blocks PROVE View(obj2, Shown)[c] = Shown[c]
      <4>1. CASE \E o \in DOMAIN object : object[o].block = c
        <5>1. PICK o \in DOMAIN object : object[o].block = c
          BY <4>1
        <5> QED BY <1>3, <1>v, <1>w, <5>1
      <4>2. CASE \A o \in DOMAIN object : object[o].block # c
        BY <1>3, <1>v, <4>2
      <4> QED BY <4>1, <4>2
    <3> QED BY <3>1
  <2>2. View(obj2, Shown) = [c \in Blocks |-> View(obj2, Shown)[c]]
    BY DEF View
  <2> QED BY <1>w, <2>1, <2>2
<1>7. Good(Shown, obj2, queue, held)
  <2>1. /\ queue \in Seq(DOMAIN obj2) /\ held \in Seq([object : DOMAIN obj2, modify : BOOLEAN])
        /\ \A o \in DOMAIN obj2 : \E i \in DOMAIN queue : queue[i] = o
        /\ \A i, j \in DOMAIN queue : queue[i] = queue[j] => i = j
        /\ \A i, j \in DOMAIN held : held[i].object = held[j].object => i = j
    BY <1>3 DEF CacheInv, Good
  <2>2. \A o \in DOMAIN obj2 : obj2[o].data = Shown[obj2[o].block]
    BY <1>3, <1>w
  <2>3. DOMAIN held = {}
    BY <1>1
  <2> QED BY <1>3, <1>4, <1>5, <2>1, <2>2, <2>3 DEF Good
<1>8. CacheInv'
  BY <1>1, <1>2, <1>3, <1>7 DEF CacheInv
<1>9. Shown' = Shown
  BY <1>1, <1>2, <1>6, ShownIsViewAfter
<1>10. UsingOf(object, held) = <<>> /\ UsingOf(object', held') = <<>>
  BY <1>1 DEF UsingOf
<1>11. Plain!Sync
  BY <1>1, <1>9, <1>10 DEF Plain!Sync, UsingOf
<1> QED BY <1>8, <1>11 DEF Follows, Plain!Next

LEMMA PowerCutFollows ==
  ASSUME CacheInv, PowerCut
  PROVE  Follows
<1>1. object' = <<>> /\ queue' = <<>> /\ held' = <<>> /\ disk' = disk /\ machine' = "running"
  BY DEF PowerCut
<1>2. CacheInv'
  BY <1>1, InvFacts, BoundAssumption DEF CacheInv, Good, OneEach
<1>3. Shown' = disk
  BY <1>1, InvFacts, ShownIsViewAfter DEF View
<1>4. UsingOf(object', held') = <<>>
  BY <1>1 DEF UsingOf
<1>5. Plain!PowerCut
  BY <1>1, <1>3, <1>4 DEF Plain!PowerCut, UsingOf
<1> QED BY <1>2, <1>5 DEF Follows, Plain!Next

----------------------------------------------------------------------------
\* The theorems.

LEMMA InitGood == Init => CacheInv /\ Plain!Init
<1> SUFFICES ASSUME Init PROVE CacheInv /\ Plain!Init
  OBVIOUS
<1>1. object = <<>> /\ queue = <<>> /\ held = <<>> /\ disk \in [Blocks -> Values] /\ machine = "running"
  BY DEF Init
<1>2. CacheInv
  BY <1>1, BoundAssumption DEF CacheInv, Good, OneEach
<1>3. Shown = disk
  BY <1>1, ShownIsView DEF View
<1>4. UsingOf(object, held) = <<>>
  BY <1>1 DEF UsingOf
<1> QED BY <1>1, <1>2, <1>3, <1>4 DEF Plain!Init, UsingOf

LEMMA StepFollows ==
  ASSUME CacheInv, [Next]_vars
  PROVE  Follows
<1>1. ASSUME NEW b \in Blocks, NEW modify \in BOOLEAN,
             Hit(b, modify) \/ Miss(b, modify) \/ Replace(b, modify)
      PROVE  Follows
  BY <1>1, HitFollows, MissFollows, ReplaceFollows
<1>2. ASSUME NEW b \in Blocks, Spin(b) \/ RunOut(b) PROVE Follows
  BY <1>2, StopFollows DEF Spin, RunOut
<1>3. ASSUME NEW v \in Values, Store(v) PROVE Follows
  BY <1>3, StoreFollows
<1>4. CASE UNCHANGED vars
  BY <1>4, StopFollows DEF vars, CacheInv
<1> QED BY <1>1, <1>2, <1>3, <1>4, LeaveFollows, SyncAllFollows, PowerCutFollows DEF Next

\* Whatever is cached, replaced, read again, synced or lost when the power goes,
\* users of get_block_cache, BlockCache::drop and block_cache_sync_all see a plain
\* store of blocks.
THEOREM StoreKept == Spec => StoreOfBlocks
<1>1. CacheInv /\ [Next]_vars => CacheInv'
  BY StepFollows DEF Follows
<1>2. CacheInv /\ [Next]_vars => [Plain!Next]_(Plain!vars)
  BY StepFollows DEF Follows
<1> QED BY <1>1, <1>2, InitGood, PTL DEF Spec, StoreOfBlocks, Plain!Spec

\* block_cache_sync_all leaves on the disk what users read.
THEOREM SyncIsDurable == Spec => SyncMakesDurable
<1>1. CacheInv /\ [Next]_vars => CacheInv'
  BY StepFollows DEF Follows
<1>2. CacheInv => [SyncAll => disk' = Shown]_vars
  BY SyncedIsShown DEF SyncAll
<1> QED BY <1>1, <1>2, InitGood, PTL DEF Spec, SyncMakesDurable
=============================================================================
