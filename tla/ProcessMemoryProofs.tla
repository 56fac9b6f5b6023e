--------------------------- MODULE ProcessMemoryProofs --------------------------
(***************************************************************************)
(* Theorems about ProcessMemory, for any number of processes, any heap,    *)
(* any number of root entries, and any programs.                           *)
(***************************************************************************)
EXTENDS ProcessMemory, SequencesExt, SequenceTheorems, WellFoundedInduction, FiniteSetTheorems, TLAPS

\* A set of numbers has a least element: induction over numbers is done with it.
LEMMA MinMember ==
  ASSUME NEW S \in SUBSET Nat, S # {}
  PROVE  Min(S) \in S /\ \A x \in S : Min(S) <= x
<1> DEFINE less == OpToRel(<, Nat)
<1>1. PICK x \in S : \A y \in S : ~(<<y, x>> \in less)
  BY NatLessThanWellFounded, WFMin, Zenon
<1>2. less = {ss \in Nat \X Nat : ss[1] < ss[2]}
  BY Zenon DEF OpToRel
<1> HIDE DEF less
<1>3. ASSUME NEW y \in S PROVE x <= y
  <2>1. x \in Nat /\ y \in Nat
    OBVIOUS
  <2>2. y < x => <<y, x>> \in less
    BY <1>2, <2>1
  <2> QED BY <1>1, <2>1, <2>2
<1> QED BY <1>3 DEF Min


----------------------------------------------------------------------------
\* The inductive invariant, of a memory m and of spaces in it.

Leaf(m, root, i) == m.table[root][i].ppn

IsMemory(m) ==
  /\ DOMAIN m = {"next", "table", "page", "fault"}
  /\ m.next \in Nat
  /\ \A f \in DOMAIN m.table : f \in Nat /\ f < m.next
  /\ \A f \in DOMAIN m.page : f \in Nat /\ f < m.next /\ m.page[f] # "unmapped"

IsTree(m, root) ==
  /\ root \in DOMAIN m.table
  /\ \A i \in DOMAIN m.table[root] : Leaf(m, root, i) \in DOMAIN m.table \ {root}
  /\ \A i, j \in DOMAIN m.table[root] : Leaf(m, root, i) = Leaf(m, root, j) => i = j

IsUser(m, root) ==
  /\ IsTree(m, root)
  /\ \A i \in DOMAIN m.table[root] \ {Roots - 1} :
       i \in 0 .. UserRoots - 1 /\ "OWNED" \in m.table[root][i].flags
  /\ \A v \in UserVpns : HasEntry(m, root, v) =>
       "U" \in Entry(m, root, v).flags /\ Translate(m, root, v) \in DOMAIN m.page
  /\ \A v, w \in UserVpns :
       /\ HasEntry(m, root, v) /\ HasEntry(m, root, w)
       /\ Translate(m, root, v) = Translate(m, root, w)
       => v = w

\* A range of pages that a program may have.
IsArea(area) ==
  area \in [start : Nat, end : Nat] /\ area.start < area.end /\ area.end <= StackTop

AreasRight(m, root, areas) ==
  /\ areas \in Seq([start : Nat, end : Nat])
  /\ \A k \in DOMAIN areas : IsArea(areas[k])
  /\ \A v \in UserVpns : HasEntry(m, root, v) <=> \E k \in DOMAIN areas : v \in Pages(areas[k])
  /\ \A j, k \in DOMAIN areas : \A v \in Pages(areas[j]) : v \in Pages(areas[k]) => j = k
  /\ \A k \in DOMAIN areas : \A v \in Pages(areas[k]) :
       Translate(m, root, v) = Translate(m, root, areas[k].start) + v - areas[k].start

StacksRight(m, root, threads) ==
  /\ threads \subseteq StackVpns
  /\ \A v \in UserVpns : v + 1 \in threads \cup {StackTop - 2} => ~HasEntry(m, root, v)
  /\ \A v \in UserVpns : HasEntry(m, root, v) /\ v % Width = 0 /\ v - 1 \in StackVpns => HasEntry(m, root, v - 1)

KernelRight(m, k) ==
  /\ IsTree(m, k.root)
  /\ HasEntry(m, k.root, PortalVpn)
  /\ Entry(m, k.root, PortalVpn) = [ppn |-> PortalFrame, flags |-> {"G", "X", "W", "R"}]

OwnTables(m, root) == {root} \cup {Leaf(m, root, i) : i \in DOMAIN m.table[root] \ {Roots - 1}}
KernelTables(m, k) == {k.root, Leaf(m, k.root, Roots - 1)}
OwnFrames(m, root) == {Translate(m, root, v) : v \in {w \in UserVpns : HasEntry(m, root, w)}}

PortalRight(m, root, k) ==
  /\ Roots - 1 \in DOMAIN m.table[root]
  /\ m.table[root][Roots - 1] = m.table[k.root][Roots - 1]
  /\ OwnTables(m, root) \cap KernelTables(m, k) = {}

ApartFrom(m, a, b) ==
  OwnTables(m, a) \cap OwnTables(m, b) = {} /\ OwnFrames(m, a) \cap OwnFrames(m, b) = {}

SpaceRight(m, k, s, threads) ==
  /\ s.root # 0
  /\ IsUser(m, s.root)
  /\ AreasRight(m, s.root, s.areas)
  /\ PortalRight(m, s.root, k)
  /\ StacksRight(m, s.root, threads)

SpacesRight(m, k, sp, sk) ==
  /\ IsMemory(m) /\ KernelRight(m, k)
  /\ sp \in [Procs -> [root : Nat, areas : Seq([start : Nat, end : Nat])]] /\ DOMAIN sk = Procs
  /\ \A p \in Procs : sp[p] # NoSpace => SpaceRight(m, k, sp[p], sk[p])
  /\ \A p, q \in Procs : sp[p] # NoSpace /\ sp[q] # NoSpace /\ p # q =>
       ApartFrom(m, sp[p].root, sp[q].root)

MemoryInv == SpacesRight(mem, kernel, spaces, stacks) /\ PanicNeedsFullRoots

----------------------------------------------------------------------------
\* Pages and root entries.

\* A page number is its root entry and its slot.
LEMMA PageNumbers ==
  ASSUME NEW v \in Int
  PROVE  /\ RootIndex(v) \in Int /\ Slot(v) \in 0 .. Width - 1
         /\ v = RootIndex(v) * Width + Slot(v)
BY WidthAssumption DEF RootIndex, Slot

\* Two pages with one root entry and one slot are one page.
LEMMA SamePage ==
  ASSUME NEW v \in Int, NEW w \in Int, RootIndex(v) = RootIndex(w), Slot(v) = Slot(w)
  PROVE  v = w
BY PageNumbers, Zenon

\* A number of whole root entries below another.
LEMMA WholeEntries ==
  ASSUME NEW a \in Int, NEW b \in Int, a < b
  PROVE  a * Width + Width <= b * Width
<1>1. Width \in Nat /\ b - a - 1 \in Nat
  BY WidthAssumption
<1>2. (b - a - 1) * Width >= 0
  BY <1>1
<1>3. (b - a - 1) * Width = b * Width - a * Width - Width
  BY <1>1
<1> QED BY <1>1, <1>2, <1>3

\* The root entry and slot of a page are the only ones it can be written with.
LEMMA RootIndexOf ==
  ASSUME NEW i \in Int, NEW s \in 0 .. Width - 1
  PROVE  RootIndex(i * Width + s) = i /\ Slot(i * Width + s) = s
<1> DEFINE v == i * Width + s
           j == RootIndex(v)
<1>1. Width \in Nat /\ v \in Int /\ i * Width \in Int /\ j * Width \in Int
  BY WidthAssumption, PageNumbers
<1>2. j \in Int /\ Slot(v) \in 0 .. Width - 1 /\ v = j * Width + Slot(v)
  BY <1>1, PageNumbers
<1>3. ~(i < j)
  <2>1. i < j => i * Width + Width <= j * Width
    BY <1>2, WholeEntries
  <2> HIDE DEF j
  <2> QED BY <1>1, <1>2, <2>1
<1>4. ~(j < i)
  <2>1. j < i => j * Width + Width <= i * Width
    BY <1>2, WholeEntries
  <2> HIDE DEF j
  <2> QED BY <1>1, <1>2, <2>1
<1>5. i = j
  <2> HIDE DEF j
  <2> QED BY <1>2, <1>3, <1>4
<1> HIDE DEF j
<1> QED BY <1>1, <1>2, <1>5 DEF j

\* Programs have the first root entries, the portal the last.
LEMMA UserPages ==
  /\ StackTop \in Nat /\ StackTop >= Width /\ Width >= 4
  /\ \A v \in UserVpns : v \in Nat /\ RootIndex(v) \in 0 .. UserRoots - 1 /\ RootIndex(v) # Roots - 1
  /\ PortalVpn \in Nat /\ PortalVpn \notin UserVpns
  /\ RootIndex(PortalVpn) = Roots - 1 /\ Roots - 1 \notin 0 .. UserRoots - 1
<1>1. Width \in Nat /\ Width >= 4 /\ UserRoots \in Nat /\ UserRoots > 0 /\ Roots \in Nat /\ UserRoots < Roots
  BY WidthAssumption, StackAssumption, RootAssumption
<1>2. StackTop \in Nat /\ StackTop >= Width
  <2>1. 0 * Width + Width <= UserRoots * Width
    BY <1>1, WholeEntries
  <2> QED BY <1>1, <2>1 DEF StackTop
<1>3. ASSUME NEW v \in UserVpns PROVE v \in Nat /\ RootIndex(v) \in 0 .. UserRoots - 1
  <2>1. v \in Nat /\ v < UserRoots * Width
    BY <1>2 DEF UserVpns, StackTop
  <2>2. RootIndex(v) \in Int /\ Slot(v) \in 0 .. Width - 1 /\ v = RootIndex(v) * Width + Slot(v)
    BY <2>1, PageNumbers
  <2>3. RootIndex(v) < 0 => RootIndex(v) * Width + Width <= 0 * Width
    BY <2>2, WholeEntries
  <2>4. UserRoots < RootIndex(v) + 1 => UserRoots * Width + Width <= (RootIndex(v) + 1) * Width
    BY <1>1, <2>2, WholeEntries
  <2>5. (RootIndex(v) + 1) * Width = RootIndex(v) * Width + Width /\ RootIndex(v) * Width \in Int
    BY <1>1, <2>2
  <2>6. UserRoots * Width \in Int
    BY <1>1
  <2>7. ~(RootIndex(v) < 0)
    BY <1>1, <2>1, <2>2, <2>3, <2>5
  <2>8. ~(UserRoots < RootIndex(v) + 1)
    BY <1>1, <2>1, <2>2, <2>4, <2>5, <2>6
  <2> QED BY <1>1, <2>1, <2>2, <2>7, <2>8
<1>4. /\ PortalVpn = (Roots - 1) * Width + (Width - 1) /\ PortalVpn >= StackTop
      /\ PortalVpn \in Nat
  <2>1. UserRoots * Width + Width <= Roots * Width
    BY <1>1, WholeEntries
  <2>2. Roots * Width = (Roots - 1) * Width + Width /\ Roots * Width \in Int
    BY <1>1
  <2> QED BY <1>1, <1>2, <2>1, <2>2 DEF StackTop, PortalVpn
<1>5. RootIndex(PortalVpn) = Roots - 1
  <2>1. Roots - 1 \in Int /\ Width - 1 \in 0 .. Width - 1
    BY <1>1
  <2>2. RootIndex((Roots - 1) * Width + (Width - 1)) = Roots - 1
    BY <2>1, RootIndexOf
  <2> QED BY <1>4, <2>2, Zenon
<1> QED BY <1>1, <1>2, <1>3, <1>4, <1>5 DEF UserVpns

----------------------------------------------------------------------------
\* Allocation.

\* alloc_zeroed of a table hands out a new, empty one.
LEMMA AllocTableDoes ==
  ASSUME NEW m, IsMemory(m), Ok(AllocTable(m))
  PROVE  LET r == AllocTable(m)
         IN /\ Ok(m) /\ IsMemory(r) /\ r.page = m.page /\ r.next > m.next
            /\ m.next \notin DOMAIN m.table
            /\ DOMAIN r.table = DOMAIN m.table \cup {m.next}
            /\ DOMAIN r.table[m.next] = {}
            /\ \A f \in DOMAIN m.table : r.table[f] = m.table[f]
<1> DEFINE r == AllocTable(m)
<1>1. CASE ~Room(m, 1)
  BY <1>1 DEF AllocTable, Failed, Ok, IsMemory
<1>2. CASE Room(m, 1)
  <2>1. r = [m EXCEPT !.next = @ + 2, !.table = Over([f \in {m.next} |-> <<>>], @)]
    BY <1>2 DEF AllocTable
  <2>2. r.next = m.next + 2 /\ r.page = m.page /\ r.fault = m.fault /\ DOMAIN r = DOMAIN m
        /\ r.table = Over([f \in {m.next} |-> <<>>], m.table)
    BY <2>1 DEF IsMemory
  <2>3. m.next \in Nat /\ m.next \notin DOMAIN m.table
    BY DEF IsMemory
  <2>4. /\ DOMAIN r.table = DOMAIN m.table \cup {m.next}
        /\ r.table[m.next] = <<>>
        /\ \A f \in DOMAIN m.table : r.table[f] = m.table[f]
    BY <2>2, <2>3 DEF Over
  <2> HIDE DEF r
  <2>5. IsMemory(r)
    BY <2>2, <2>3, <2>4 DEF IsMemory
  <2>6. Ok(m)
    BY <2>2 DEF Ok, r
  <2> QED BY <2>2, <2>3, <2>4, <2>5, <2>6 DEF r
<1> QED BY <1>1, <1>2

\* The pages are new and have the contents they were filled with.
LEMMA AllocPagesDoes ==
  ASSUME NEW m, IsMemory(m), NEW contents, Len(contents) \in Nat,
         \A k \in 1 .. Len(contents) : contents[k] # "unmapped",
         Ok(AllocPages(m, contents))
  PROVE  LET r == AllocPages(m, contents)
         IN /\ Ok(m) /\ IsMemory(r) /\ r.table = m.table /\ r.next > m.next
            /\ \A f \in DOMAIN m.page : f \in DOMAIN r.page /\ r.page[f] = m.page[f]
            /\ \A k \in 1 .. Len(contents) :
                 m.next + k - 1 \in DOMAIN r.page /\ r.page[m.next + k - 1] = contents[k]
<1> DEFINE r == AllocPages(m, contents)
           n == Len(contents)
           new == [f \in m.next .. m.next + n - 1 |-> contents[f - m.next + 1]]
<1>0. n \in Nat
  OBVIOUS
<1>1. CASE ~Room(m, n)
  BY <1>1 DEF AllocPages, Failed, Ok, IsMemory
<1>2. CASE Room(m, n)
  <2>1. r = [m EXCEPT !.next = @ + n + 1, !.page = Over(new, @)]
    BY <1>2 DEF AllocPages
  <2>2. r.next = m.next + n + 1 /\ r.table = m.table /\ r.fault = m.fault /\ DOMAIN r = DOMAIN m
        /\ r.page = Over(new, m.page)
    <3> HIDE DEF n, new
    <3> QED BY <2>1 DEF IsMemory
  <2>3. m.next \in Nat /\ \A f \in DOMAIN m.page : f \in Nat /\ f < m.next /\ m.page[f] # "unmapped"
    BY DEF IsMemory
  <2>4. /\ DOMAIN r.page = DOMAIN m.page \cup (m.next .. m.next + n - 1)
        /\ \A f \in m.next .. m.next + n - 1 : r.page[f] = contents[f - m.next + 1]
        /\ \A f \in DOMAIN m.page : f \notin m.next .. m.next + n - 1 => r.page[f] = m.page[f]
    BY <2>2 DEF Over
  <2> HIDE DEF r, n, new
  <2>5. \A f \in DOMAIN m.page : r.page[f] = m.page[f]
    BY <1>0, <2>3, <2>4
  <2>6. \A k \in 1 .. n : m.next + k - 1 \in m.next .. m.next + n - 1 /\ (m.next + k - 1) - m.next + 1 = k
    BY <1>0, <2>3
  <2>7. \A k \in 1 .. n : m.next + k - 1 \in DOMAIN r.page /\ r.page[m.next + k - 1] = contents[k]
    BY <2>4, <2>6
  <2>8. ASSUME NEW f \in DOMAIN r.page PROVE f \in Nat /\ f < r.next /\ r.page[f] # "unmapped"
    <3>1. CASE f \in DOMAIN m.page
      BY <1>0, <2>2, <2>3, <2>5, <3>1
    <3>2. CASE f \in m.next .. m.next + n - 1
      <4>1. f - m.next + 1 \in 1 .. n /\ f \in Nat /\ f < r.next
        BY <1>0, <2>2, <2>3, <3>2
      <4> QED BY <2>4, <3>2, <4>1 DEF n
    <3> QED BY <2>4, <3>1, <3>2
  <2>9. IsMemory(r)
    BY <1>0, <2>2, <2>3, <2>8 DEF IsMemory
  <2>10. Ok(m)
    BY <2>2 DEF Ok, r
  <2>11. r.next > m.next
    BY <1>0, <2>2, <2>3
  <2>12. \A f \in DOMAIN m.page : f \in DOMAIN r.page
    BY <2>4
  <2> QED BY <2>2, <2>5, <2>7, <2>9, <2>10, <2>11, <2>12, Zenon DEF r, n
<1> QED BY <1>1, <1>2

----------------------------------------------------------------------------
\* The tables the mapper makes.

\* How many of a finite set of numbers are below one of its members.
LEMMA CountBelow ==
  ASSUME NEW S \in SUBSET Int, IsFiniteSet(S)
  PROVE  LET Below(i) == Cardinality({k \in S : k < i})
         IN /\ Cardinality(S) \in Nat
            /\ \A i \in S : Below(i) \in Nat /\ Below(i) < Cardinality(S)
            /\ \A i, j \in S : Below(i) = Below(j) => i = j
<1> DEFINE below(i) == {k \in S : k < i}
<1>1. ASSUME NEW T \in SUBSET S, NEW U \in SUBSET T, U # T
      PROVE  Cardinality(U) \in Nat /\ Cardinality(T) \in Nat /\ Cardinality(U) < Cardinality(T)
  <2>1. IsFiniteSet(T)
    BY FS_Subset
  <2>2. IsFiniteSet(U) /\ Cardinality(U) <= Cardinality(T) /\ Cardinality(U) # Cardinality(T)
    BY <1>1, <2>1, FS_Subset
  <2> QED BY <2>1, <2>2, FS_CardinalityType
<1>2. ASSUME NEW i \in S PROVE Cardinality(below(i)) \in Nat /\ Cardinality(below(i)) < Cardinality(S)
  <2>1. S \in SUBSET S /\ below(i) \in SUBSET S /\ below(i) # S
    OBVIOUS
  <2> QED BY <1>1, <2>1
<1>3. ASSUME NEW i \in S, NEW j \in S, i < j PROVE Cardinality(below(i)) < Cardinality(below(j))
  <2>1. i \in Int /\ j \in Int /\ \A k \in S : k \in Int
    OBVIOUS
  <2>2. i \in below(j) /\ i \notin below(i)
    BY <1>3, <2>1
  <2>3. \A k \in S : k < i => k < j
    BY <1>3, <2>1
  <2>4. below(j) \in SUBSET S /\ below(i) \in SUBSET below(j)
    BY <2>3
  <2> QED BY <1>1, <2>2, <2>4
<1>4. ASSUME NEW i \in S, NEW j \in S, Cardinality(below(i)) = Cardinality(below(j)) PROVE i = j
  <2>1. i \in Int /\ j \in Int /\ Cardinality(below(i)) \in Nat
    BY <1>2
  <2> HIDE DEF below
  <2>2. ~(i < j) /\ ~(j < i)
    BY <1>3, <1>4, <2>1
  <2> QED BY <2>1, <2>2
<1> QED BY <1>2, <1>4, FS_CardinalityType

\* A range of pages lies under finitely many root entries.
LEMMA RootIndexesFinite ==
  ASSUME NEW area, area.start \in Int, area.end \in Int
  PROVE  /\ RootIndexes(area) \subseteq Int /\ IsFiniteSet(RootIndexes(area))
         /\ Pages(area) \subseteq Int
<1> DEFINE f == [v \in Pages(area) |-> RootIndex(v)]
<1>1. Pages(area) \subseteq Int /\ IsFiniteSet(Pages(area))
  <2>1. area.end - 1 \in Int
    OBVIOUS
  <2>2. IsFiniteSet(area.start .. area.end - 1)
    BY <2>1, FS_Interval
  <2> QED BY <2>2 DEF Pages
<1>2. RootIndexes(area) \subseteq Int
  BY <1>1, PageNumbers DEF RootIndexes
<1>3. f \in Surjection(Pages(area), RootIndexes(area))
  BY DEF Surjection, RootIndexes
<1>4. IsFiniteSet(RootIndexes(area))
  BY <1>1, <1>3, FS_Surjection
<1> QED BY <1>1, <1>2, <1>4

\* Each root entry of an area has a table of its own: the ones missing are new.
LEMMA TablesUnder ==
  ASSUME NEW m, IsMemory(m), NEW root, IsTree(m, root),
         NEW area, area.start \in Int, area.end \in Int
  PROVE  LET Under(i) == TableUnder(m, root, area, i)
             missing == Missing(m, root, area)
             next == m.next + 2 * Cardinality(missing)
         IN /\ next \in Nat /\ next >= m.next
            /\ \A i \in DOMAIN m.table[root] : Under(i) = Leaf(m, root, i) /\ i \notin missing
            /\ \A i \in missing : Under(i) \in Nat /\ Under(i) >= m.next /\ Under(i) < next
            /\ \A i, j \in DOMAIN m.table[root] \cup RootIndexes(area) : Under(i) = Under(j) => i = j
<1> DEFINE Under(i) == TableUnder(m, root, area, i)
           missing == Missing(m, root, area)
           Below(i) == Cardinality({k \in missing : k < i})
<1>1. missing \in SUBSET Int /\ IsFiniteSet(missing)
  BY RootIndexesFinite, FS_Subset DEF Missing
<1>2. /\ Cardinality(missing) \in Nat
      /\ \A i \in missing : Below(i) \in Nat /\ Below(i) < Cardinality(missing)
      /\ \A i, j \in missing : Below(i) = Below(j) => i = j
  <2> HIDE DEF missing
  <2> QED BY <1>1, CountBelow
<1>3. m.next \in Nat /\ \A f \in DOMAIN m.table : f \in Nat /\ f < m.next
  BY DEF IsMemory
<1>4. \A i \in missing : Under(i) = m.next + 2 * Below(i) /\ i \notin DOMAIN m.table[root]
  BY DEF TableUnder, Missing
<1>5. \A i \in DOMAIN m.table[root] : Under(i) = Leaf(m, root, i) /\ i \notin missing
  BY DEF TableUnder, Missing, Leaf
<1>6. DOMAIN m.table[root] \cup RootIndexes(area) = DOMAIN m.table[root] \cup missing
  BY DEF Missing
<1> HIDE DEF Under, Below, missing
<1>7. \A i \in missing : Under(i) \in Nat /\ Under(i) >= m.next
                         /\ Under(i) < m.next + 2 * Cardinality(missing)
  BY <1>2, <1>3, <1>4
<1>8. \A i \in DOMAIN m.table[root] : Under(i) \in Nat /\ Under(i) < m.next
  BY <1>3, <1>5 DEF IsTree
<1>9. \A i, j \in missing : Under(i) = Under(j) => i = j
  <2>1. \A i, j \in missing : Under(i) = Under(j) => Below(i) = Below(j)
    BY <1>2, <1>3, <1>4
  <2> QED BY <1>2, <2>1
<1>10. \A i, j \in DOMAIN m.table[root] : Under(i) = Under(j) => i = j
  BY <1>5 DEF IsTree
<1>11. \A i \in missing, j \in DOMAIN m.table[root] : Under(i) # Under(j)
  BY <1>3, <1>7, <1>8
<1>12. \A i, j \in DOMAIN m.table[root] \cup RootIndexes(area) : Under(i) = Under(j) => i = j
  BY <1>6, <1>9, <1>10, <1>11
<1> QED BY <1>2, <1>3, <1>5, <1>7, <1>12 DEF Under, missing

----------------------------------------------------------------------------
\* The mapper.

\* The tables the mapper leaves: the root has the missing entries, the tables
\* under it the area's, and no other table changes.
LEMMA MapperTables ==
  ASSUME NEW m, IsMemory(m), NEW root, IsTree(m, root),
         NEW area, area.start \in Int, area.end \in Int, NEW pbase, NEW flags
  PROVE  LET r == Mapper(m, root, area, pbase, flags)
             Under(i) == TableUnder(m, root, area, i)
             missing == Missing(m, root, area)
         IN /\ DOMAIN r = DOMAIN m /\ r.page = m.page
            /\ r.next = m.next + 2 * Cardinality(missing)
            /\ DOMAIN r.table = DOMAIN m.table \cup {Under(i) : i \in RootIndexes(area)}
            /\ DOMAIN r.table[root] = DOMAIN m.table[root] \cup RootIndexes(area)
            /\ \A i \in DOMAIN m.table[root] : r.table[root][i] = m.table[root][i]
            /\ \A i \in missing : r.table[root][i] = [ppn |-> Under(i), flags |-> {"OWNED"}]
            /\ \A i \in RootIndexes(area) :
                 r.table[Under(i)] = Over(AreaEntries(area, i, pbase, flags),
                                          IF i \in missing THEN <<>> ELSE m.table[Under(i)])
            /\ \A f \in DOMAIN m.table :
                 f # root /\ (\A i \in RootIndexes(area) : f # Under(i)) => r.table[f] = m.table[f]
<1> DEFINE r == Mapper(m, root, area, pbase, flags)
           Under(i) == TableUnder(m, root, area, i)
           missing == Missing(m, root, area)
           I == RootIndexes(area)
           New(i) == Over(AreaEntries(area, i, pbase, flags),
                          IF i \in missing THEN <<>> ELSE m.table[Under(i)])
           Choice(f) == CHOOSE k \in I : Under(k) = f
           tables == [f \in {Under(i) : i \in I} |->
                        Over(AreaEntries(area, Choice(f), pbase, flags),
                             IF Choice(f) \in missing THEN <<>> ELSE m.table[f])]
           toplevel == Over([i \in missing |-> [ppn |-> Under(i), flags |-> {"OWNED"}]], m.table[root])
           fault == IF missing = {} \/ Room(m, 2 * Cardinality(missing) - 1) THEN "none" ELSE "heap"
<1>1. r = [m EXCEPT !.next = @ + 2 * Cardinality(missing),
                    !.table = Over([f \in {root} |-> toplevel], Over(tables, @)),
                    !.fault = fault]
  BY DEF Mapper
<1>2. \A i, j \in I : Under(i) = Under(j) => i = j
  BY TablesUnder
<1>3. \A i \in I : Under(i) # root
  <2>1. \A i \in missing : Under(i) \in Nat /\ Under(i) >= m.next
    BY TablesUnder
  <2>2. \A i \in DOMAIN m.table[root] : Under(i) # root
    BY TablesUnder DEF IsTree
  <2>3. root \in Nat /\ root < m.next /\ m.next \in Nat
    BY DEF IsMemory, IsTree
  <2>4. \A i \in I : i \in missing \/ i \in DOMAIN m.table[root]
    BY DEF Missing
  <2> QED BY <2>1, <2>2, <2>3, <2>4
<1>4. root \in DOMAIN m.table
  BY DEF IsTree
<1>5. \A i \in I : Choice(Under(i)) = i
  BY <1>2
<1>6. DOMAIN tables = {Under(i) : i \in I} /\ \A i \in I : tables[Under(i)] = New(i)
  <2> HIDE DEF Under, Choice, missing
  <2> QED BY <1>5
<1>7. /\ DOMAIN toplevel = DOMAIN m.table[root] \cup I
      /\ \A i \in DOMAIN m.table[root] : toplevel[i] = m.table[root][i]
      /\ \A i \in missing : toplevel[i] = [ppn |-> Under(i), flags |-> {"OWNED"}]
  BY DEF Over, Missing
<1> HIDE DEF tables, toplevel, fault, Under, missing, I, New
<1>8. /\ DOMAIN r = DOMAIN m /\ r.page = m.page
      /\ r.next = m.next + 2 * Cardinality(missing)
      /\ r.table = Over([f \in {root} |-> toplevel], Over(tables, m.table))
  BY <1>1 DEF IsMemory
<1> HIDE DEF r
<1>9. DOMAIN r.table = DOMAIN m.table \cup {Under(i) : i \in I}
  BY <1>4, <1>6, <1>8 DEF Over
<1>10. r.table[root] = toplevel
  BY <1>8 DEF Over
<1>11. \A i \in I : r.table[Under(i)] = New(i)
  BY <1>3, <1>6, <1>8 DEF Over
<1>12. \A f \in DOMAIN m.table : f # root /\ (\A i \in I : f # Under(i)) => r.table[f] = m.table[f]
  BY <1>6, <1>8 DEF Over
<1> QED BY <1>7, <1>8, <1>9, <1>10, <1>11, <1>12, Zenon DEF r, New, Under, missing, I

\* The mapper adds the pages of the area and changes no other entry: it fails
\* otherwise.
LEMMA MapperDoes ==
  ASSUME NEW m, IsMemory(m), NEW root, IsTree(m, root),
         NEW area, area.start \in Int, area.end \in Int, NEW pbase \in Int, NEW flags,
         \A v \in Pages(area) : ~HasEntry(m, root, v)
  PROVE  LET r == Mapper(m, root, area, pbase, flags)
         IN /\ IsMemory(r) /\ IsTree(r, root) /\ r.page = m.page /\ r.next >= m.next
            /\ DOMAIN r.table[root] = DOMAIN m.table[root] \cup RootIndexes(area)
            /\ \A i \in DOMAIN m.table[root] : r.table[root][i] = m.table[root][i]
            /\ \A i \in RootIndexes(area) \ DOMAIN m.table[root] :
                 r.table[root][i].flags = {"OWNED"} /\ Leaf(r, root, i) >= m.next
            /\ \A f \in DOMAIN m.table :
                 /\ f \in DOMAIN r.table
                 /\ f # root /\ (\A i \in RootIndexes(area) \cap DOMAIN m.table[root] : f # Leaf(m, root, i))
                    => r.table[f] = m.table[f]
            /\ \A v \in Int : HasEntry(r, root, v) <=> HasEntry(m, root, v) \/ v \in Pages(area)
            /\ \A v \in Pages(area) :
                 Entry(r, root, v) = [ppn |-> pbase + v - area.start, flags |-> flags]
            /\ \A v \in Int : HasEntry(m, root, v) => Entry(r, root, v) = Entry(m, root, v)
<1> DEFINE r == Mapper(m, root, area, pbase, flags)
           Under(i) == TableUnder(m, root, area, i)
           missing == Missing(m, root, area)
           I == RootIndexes(area)
           D == DOMAIN m.table[root]
<1>1. /\ r.next \in Nat /\ r.next >= m.next
      /\ \A i \in D : Under(i) = Leaf(m, root, i) /\ i \notin missing
      /\ \A i \in missing : Under(i) \in Nat /\ Under(i) >= m.next /\ Under(i) < r.next
      /\ \A i, j \in D \cup I : Under(i) = Under(j) => i = j
  BY TablesUnder, MapperTables
<1>2. /\ DOMAIN r = DOMAIN m /\ r.page = m.page
      /\ DOMAIN r.table = DOMAIN m.table \cup {Under(i) : i \in I}
      /\ DOMAIN r.table[root] = D \cup I
      /\ \A i \in D : r.table[root][i] = m.table[root][i]
      /\ \A i \in missing : r.table[root][i] = [ppn |-> Under(i), flags |-> {"OWNED"}]
      /\ \A i \in I :
           r.table[Under(i)] = Over(AreaEntries(area, i, pbase, flags),
                                    IF i \in missing THEN <<>> ELSE m.table[Under(i)])
      /\ \A f \in DOMAIN m.table :
           f # root /\ (\A i \in I : f # Under(i)) => r.table[f] = m.table[f]
  BY MapperTables
<1>3. I \ D = missing /\ I \subseteq Int /\ Pages(area) \subseteq Int
      /\ \A v \in Pages(area) : RootIndex(v) \in I
  BY RootIndexesFinite DEF Missing, RootIndexes
<1>4. /\ m.next \in Nat /\ DOMAIN m = {"next", "table", "page", "fault"}
      /\ \A f \in DOMAIN m.table : f \in Nat /\ f < m.next
      /\ \A f \in DOMAIN m.page : f \in Nat /\ f < m.next /\ m.page[f] # "unmapped"
  BY DEF IsMemory
<1>5. /\ root \in DOMAIN m.table
      /\ \A i \in D : Under(i) \in DOMAIN m.table \ {root}
  BY <1>1 DEF IsTree
<1>7. DOMAIN m.table[root] = D /\ RootIndexes(area) = I
  OBVIOUS
<1> HIDE DEF r, Under, missing, I, D
<1>6. \A i \in D \cup I : Leaf(r, root, i) = Under(i)
  <2>1. ASSUME NEW i \in D PROVE Leaf(r, root, i) = Under(i)
    BY <1>1, <1>2 DEF Leaf
  <2>2. ASSUME NEW i \in missing PROVE Leaf(r, root, i) = Under(i)
    <3>1. r.table[root][i] = [ppn |-> Under(i), flags |-> {"OWNED"}]
      BY <1>2
    <3> QED BY <3>1 DEF Leaf
  <2> QED BY <1>3, <2>1, <2>2
<1>8. IsMemory(r)
  <2>1. ASSUME NEW f \in DOMAIN r.table PROVE f \in Nat /\ f < r.next
    <3>1. CASE f \in DOMAIN m.table
      BY <1>1, <1>4, <3>1
    <3>2. CASE f \in {Under(i) : i \in missing}
      BY <1>1, <3>2
    <3>3. f \in DOMAIN m.table \cup {Under(i) : i \in missing}
      BY <1>2, <1>3, <1>5
    <3> QED BY <3>1, <3>2, <3>3
  <2>2. \A f \in DOMAIN r.page : f \in Nat /\ f < r.next /\ r.page[f] # "unmapped"
    BY <1>1, <1>2, <1>4
  <2> QED BY <1>1, <1>2, <1>4, <2>1, <2>2 DEF IsMemory
<1>9. IsTree(r, root)
  <2>1. \A i \in D \cup I : Under(i) \in DOMAIN r.table /\ Under(i) # root
    <3>1. \A i \in D : Under(i) \in DOMAIN r.table /\ Under(i) # root
      BY <1>2, <1>5
    <3>2. \A i \in I : Under(i) \in DOMAIN r.table
      BY <1>2
    <3>3. root \in Nat /\ root < m.next
      BY <1>4, <1>5
    <3>4. \A i \in missing : Under(i) # root
      BY <1>1, <1>4, <3>3
    <3> QED BY <1>3, <3>1, <3>2, <3>4
  <2>2. root \in DOMAIN r.table
    BY <1>2, <1>5
  <2>3. \A i, j \in D \cup I : Leaf(r, root, i) = Leaf(r, root, j) => i = j
    BY <1>1, <1>6
  <2> QED BY <1>2, <1>6, <2>1, <2>2, <2>3 DEF IsTree
<1>10. \A i \in I \ D : r.table[root][i].flags = {"OWNED"} /\ Leaf(r, root, i) >= m.next
  <2>1. ASSUME NEW i \in missing PROVE r.table[root][i].flags = {"OWNED"} /\ Leaf(r, root, i) >= m.next
    <3>1. r.table[root][i] = [ppn |-> Under(i), flags |-> {"OWNED"}] /\ Under(i) >= m.next
      BY <1>1, <1>2
    <3>2. [ppn |-> Under(i), flags |-> {"OWNED"}].flags = {"OWNED"}
          /\ [ppn |-> Under(i), flags |-> {"OWNED"}].ppn = Under(i)
      OBVIOUS
    <3> QED BY <3>1, <3>2, Zenon DEF Leaf
  <2> QED BY <1>3, <2>1
<1>11. ASSUME NEW f \in DOMAIN m.table
       PROVE  /\ f \in DOMAIN r.table
              /\ f # root /\ (\A i \in I \cap D : f # Leaf(m, root, i)) => r.table[f] = m.table[f]
  <2>1. f \in DOMAIN r.table
    BY <1>2
  <2>2. \A i \in missing : f # Under(i)
    BY <1>1, <1>4
  <2>3. (\A i \in I \cap D : f # Leaf(m, root, i)) => \A i \in I : f # Under(i)
    BY <1>1, <1>3, <2>2
  <2> QED BY <1>2, <2>1, <2>3
<1>12. ASSUME NEW v \in Int
       PROVE  /\ HasEntry(r, root, v) <=> HasEntry(m, root, v) \/ v \in Pages(area)
              /\ v \in Pages(area) =>
                   Entry(r, root, v) = [ppn |-> pbase + v - area.start, flags |-> flags]
              /\ HasEntry(m, root, v) => Entry(r, root, v) = Entry(m, root, v)
  <2> DEFINE i == RootIndex(v)
             s == Slot(v)
             slots == {Slot(w) : w \in {u \in Pages(area) : RootIndex(u) = i}}
  <2>1. /\ i \in D => (HasEntry(m, root, v) <=> s \in DOMAIN m.table[Under(i)])
        /\ i \in D => Entry(m, root, v) = m.table[Under(i)][s]
        /\ HasEntry(m, root, v) => i \in D
    BY <1>1, <1>7 DEF HasEntry, Entry, Leaf
  <2>2. /\ i \in D \cup I => (HasEntry(r, root, v) <=> s \in DOMAIN r.table[Under(i)])
        /\ i \in D \cup I => Entry(r, root, v) = r.table[Under(i)][s]
        /\ HasEntry(r, root, v) => i \in D \cup I
    BY <1>2, <1>6 DEF HasEntry, Entry, Leaf
  <2>3. v \in Pages(area) => i \in I
    BY <1>3
  <2>4. CASE i \notin D \cup I
    BY <2>1, <2>2, <2>3, <2>4
  <2>5. CASE i \in D \ I
    <3>1. Under(i) \in DOMAIN m.table \ {root} /\ \A k \in I : Under(k) # Under(i)
      BY <1>1, <1>5, <2>5
    <3>2. r.table[Under(i)] = m.table[Under(i)]
      BY <1>2, <3>1
    <3> QED BY <2>1, <2>2, <2>3, <2>5, <3>2
  <2>6. CASE i \in I
    <3>1. s \in slots <=> v \in Pages(area)
      <4>1. s \in slots => v \in Pages(area)
        <5>1. ASSUME NEW w \in Pages(area), RootIndex(w) = i, Slot(w) = s PROVE w = v
          BY <1>3, <5>1, SamePage
        <5> QED BY <5>1
      <4> QED BY <4>1
    <3>2. /\ DOMAIN AreaEntries(area, i, pbase, flags) = slots
          /\ s \in slots => AreaEntries(area, i, pbase, flags)[s]
                              = [ppn |-> pbase + i * Width + s - area.start, flags |-> flags]
      BY DEF AreaEntries
    <3>3. i * Width + s = v /\ i * Width \in Int /\ s \in Int
      <4>1. RootIndex(v) \in Int /\ Slot(v) \in Int /\ v = RootIndex(v) * Width + Slot(v)
        BY PageNumbers
      <4>2. RootIndex(v) * Width \in Int
        BY <4>1, WidthAssumption
      <4> QED BY <4>1, <4>2, Zenon
    <3>4. pbase + i * Width + s - area.start = pbase + v - area.start
      <4> HIDE DEF i, s
      <4>1. ASSUME NEW x \in Int, x + s = v PROVE pbase + x + s - area.start = pbase + v - area.start
        BY <3>3, <4>1
      <4> QED BY <3>3, <4>1
    <3> HIDE DEF i, s, slots
    <3>5. /\ DOMAIN r.table[Under(i)]
               = slots \cup IF i \in missing THEN {} ELSE DOMAIN m.table[Under(i)]
          /\ s \in slots => r.table[Under(i)][s] = AreaEntries(area, i, pbase, flags)[s]
          /\ s \notin slots /\ i \notin missing /\ s \in DOMAIN m.table[Under(i)]
               => r.table[Under(i)][s] = m.table[Under(i)][s]
      <4> DEFINE new == AreaEntries(area, i, pbase, flags)
      <4>1. CASE i \in missing
        <5>1. r.table[Under(i)] = Over(new, <<>>)
          BY <1>2, <2>6, <4>1, Zenon
        <5> HIDE DEF new
        <5>2. DOMAIN Over(new, <<>>) = DOMAIN new /\ \A x \in DOMAIN new : Over(new, <<>>)[x] = new[x]
          BY DEF Over
        <5> QED BY <3>2, <4>1, <5>1, <5>2 DEF new
      <4>2. CASE i \notin missing
        <5>1. r.table[Under(i)] = Over(new, m.table[Under(i)])
          BY <1>2, <2>6, <4>2, Zenon
        <5> DEFINE old == m.table[Under(i)]
        <5> HIDE DEF new, old
        <5>2. /\ DOMAIN Over(new, old) = DOMAIN new \cup DOMAIN old
              /\ \A x \in DOMAIN new : Over(new, old)[x] = new[x]
              /\ \A x \in DOMAIN old : x \notin DOMAIN new => Over(new, old)[x] = old[x]
          BY DEF Over
        <5> QED BY <3>2, <4>2, <5>1, <5>2 DEF new, old
      <4> QED BY <4>1, <4>2
    <3>6. i \in missing <=> i \notin D
      BY <1>3, <2>6
    <3>7. HasEntry(m, root, v) => v \notin Pages(area)
      OBVIOUS
    <3>8. HasEntry(r, root, v) <=> HasEntry(m, root, v) \/ v \in Pages(area)
      BY <2>1, <2>2, <2>6, <3>1, <3>5, <3>6
    <3>9. v \in Pages(area) => Entry(r, root, v) = [ppn |-> pbase + v - area.start, flags |-> flags]
      BY <2>2, <2>6, <3>1, <3>2, <3>4, <3>5
    <3>10. HasEntry(m, root, v) => Entry(r, root, v) = Entry(m, root, v)
      BY <2>1, <2>2, <2>6, <3>1, <3>5, <3>6, <3>7
    <3> QED BY <3>8, <3>9, <3>10
  <2> QED BY <2>4, <2>5, <2>6
<1> QED BY <1>1, <1>2, <1>3, <1>7, <1>8, <1>9, <1>10, <1>11, <1>12 DEF r

----------------------------------------------------------------------------
\* A space that grows by an area in new frames.

\* Memory m is still there in r, but for what the tables T have become.
Kept(m, r, T) ==
  /\ r.next >= m.next
  /\ \A f \in DOMAIN m.table : f \in DOMAIN r.table /\ (f \notin T => r.table[f] = m.table[f])
  /\ \A f \in DOMAIN m.page : f \in DOMAIN r.page /\ r.page[f] = m.page[f]

\* The space at root has grown by an area with these contents.
Grown(m, r, root, area, contents) ==
  /\ IsMemory(r) /\ IsUser(r, root) /\ Kept(m, r, OwnTables(m, root))
  /\ DOMAIN r.table[root] = DOMAIN m.table[root] \cup RootIndexes(area)
  /\ \A i \in DOMAIN m.table[root] : r.table[root][i] = m.table[root][i]
  /\ \A f \in OwnTables(r, root) : f \in OwnTables(m, root) \/ f >= m.next
  /\ \A v \in UserVpns : HasEntry(r, root, v) <=> HasEntry(m, root, v) \/ v \in Pages(area)
  /\ \A v \in UserVpns : HasEntry(m, root, v) => Entry(r, root, v) = Entry(m, root, v)
  /\ \A v \in Pages(area) : /\ ~HasEntry(m, root, v)
                            /\ Translate(r, root, v) = m.next + v - area.start
                            /\ r.page[m.next + v - area.start] = contents[v - area.start + 1]

\* What such a range covers.
LEMMA AreaPages ==
  ASSUME NEW area, IsArea(area)
  PROVE  /\ area.start \in Nat /\ area.end \in Nat
         /\ Pages(area) # {} /\ Pages(area) \subseteq UserVpns
         /\ \A v \in Pages(area) : v \in Nat /\ v - area.start \in Nat
                                   /\ v - area.start + 1 \in 1 .. area.end - area.start
         /\ RootIndexes(area) \subseteq 0 .. UserRoots - 1
<1>1. area.start \in Nat /\ area.end \in Nat /\ area.start < area.end /\ area.end <= StackTop
  BY DEF IsArea
<1>2. StackTop \in Nat
  BY UserPages
<1>3. Pages(area) # {} /\ Pages(area) \subseteq UserVpns
  <2>1. area.start \in Pages(area)
    BY <1>1 DEF Pages
  <2> QED BY <1>1, <1>2, <2>1 DEF Pages, UserVpns
<1>4. \A v \in Pages(area) : v \in Nat /\ v - area.start \in Nat
                             /\ v - area.start + 1 \in 1 .. area.end - area.start
  BY <1>1 DEF Pages
<1>5. RootIndexes(area) \subseteq 0 .. UserRoots - 1
  BY <1>3, UserPages DEF RootIndexes
<1> QED BY <1>1, <1>3, <1>4, <1>5

\* map_extern of new frames leaves a space of programs, or there is a fault.
LEMMA MapNewDoes ==
  ASSUME NEW st, IsMemory(st.mem), IsUser(st.mem, st.space.root),
         NEW area, IsArea(area), NEW contents, NEW flags, "U" \in flags,
         Len(contents) = area.end - area.start,
         \A k \in 1 .. Len(contents) : contents[k] # "unmapped",
         Ok(MapNew(st, area, contents, flags).mem)
  PROVE  /\ Ok(st.mem)
         /\ Grown(st.mem, MapNew(st, area, contents, flags).mem, st.space.root, area, contents)
<1> DEFINE root == st.space.root
           m == st.mem
           n == AllocPages(m, contents)
           r == MapNew(st, area, contents, flags).mem
<1>1. ~MapperFails(n, root, area) /\ r = Mapper(n, root, area, m.next, flags)
  BY DEF MapNew, MapExtern, WithMemory, Failed, Ok
<1>2. Ok(n) /\ \A v \in Pages(area) : ~HasEntry(n, root, v)
  BY <1>1 DEF MapperFails
<1>3. /\ area.start \in Nat /\ area.end \in Nat /\ Pages(area) \subseteq UserVpns
      /\ \A v \in Pages(area) : v \in Nat /\ v - area.start + 1 \in 1 .. Len(contents)
      /\ RootIndexes(area) \subseteq 0 .. UserRoots - 1
      /\ Len(contents) \in Nat
  <2>1. area.end - area.start \in Nat
    BY AreaPages DEF IsArea
  <2> QED BY <2>1, AreaPages
<1>4. /\ Ok(m) /\ IsMemory(n) /\ n.table = m.table /\ n.next > m.next
      /\ \A f \in DOMAIN m.page : f \in DOMAIN n.page /\ n.page[f] = m.page[f]
      /\ \A k \in 1 .. Len(contents) :
           m.next + k - 1 \in DOMAIN n.page /\ n.page[m.next + k - 1] = contents[k]
  BY <1>2, <1>3, AllocPagesDoes
<1>5. IsTree(m, root) /\ IsTree(n, root)
  BY <1>4 DEF IsUser, IsTree, Leaf
<1>6. /\ \A v \in Int : HasEntry(n, root, v) <=> HasEntry(m, root, v)
      /\ \A v \in Int : Entry(n, root, v) = Entry(m, root, v)
  BY <1>4 DEF HasEntry, Entry
<1>7. m.next \in Int /\ m.next \in Nat /\ n.next \in Nat
  BY <1>4 DEF IsMemory
<1> HIDE DEF r, n
<1>8. /\ IsMemory(r) /\ IsTree(r, root) /\ r.page = n.page /\ r.next >= n.next
      /\ DOMAIN r.table[root] = DOMAIN n.table[root] \cup RootIndexes(area)
      /\ \A i \in DOMAIN n.table[root] : r.table[root][i] = n.table[root][i]
      /\ \A i \in RootIndexes(area) \ DOMAIN n.table[root] :
           r.table[root][i].flags = {"OWNED"} /\ Leaf(r, root, i) >= n.next
      /\ \A f \in DOMAIN n.table :
           /\ f \in DOMAIN r.table
           /\ f # root /\ (\A i \in RootIndexes(area) \cap DOMAIN n.table[root] : f # Leaf(n, root, i))
              => r.table[f] = n.table[f]
      /\ \A v \in Int : HasEntry(r, root, v) <=> HasEntry(n, root, v) \/ v \in Pages(area)
      /\ \A v \in Pages(area) :
           Entry(r, root, v) = [ppn |-> m.next + v - area.start, flags |-> flags]
      /\ \A v \in Int : HasEntry(n, root, v) => Entry(r, root, v) = Entry(n, root, v)
  <2> HIDE DEF m, root
  <2>1. area.start \in Int /\ area.end \in Int
    BY <1>3
  <2> QED BY <1>1, <1>2, <1>4, <1>5, <1>7, <2>1, MapperDoes
<1>9. UserVpns \subseteq Int /\ Roots - 1 \notin RootIndexes(area)
  BY <1>3, UserPages
<1> DEFINE new(v) == m.next + v - area.start
<1>10. \A v \in Pages(area) :
         /\ Translate(r, root, v) = new(v)
         /\ "U" \in Entry(r, root, v).flags
         /\ new(v) \in DOMAIN r.page /\ r.page[new(v)] = contents[v - area.start + 1]
         /\ new(v) >= m.next
  <2>1. \A v \in Pages(area) : m.next + (v - area.start + 1) - 1 = new(v) /\ new(v) >= m.next
    <3>1. \A v \in Pages(area) : v >= area.start
      BY <1>3 DEF Pages
    <3> QED BY <1>3, <1>7, <3>1
  <2>2. \A v \in Pages(area) : Entry(r, root, v).ppn = new(v) /\ Entry(r, root, v).flags = flags
    <3>1. ASSUME NEW v \in Pages(area), NEW x, x = new(v)
          PROVE  Entry(r, root, v).ppn = x /\ Entry(r, root, v).flags = flags
      <4>1. Entry(r, root, v) = [ppn |-> x, flags |-> flags]
        BY <1>8, <3>1, Zenon
      <4>2. [ppn |-> x, flags |-> flags].ppn = x /\ [ppn |-> x, flags |-> flags].flags = flags
        OBVIOUS
      <4> QED BY <4>1, <4>2, Zenon
    <3> QED BY <3>1
  <2> HIDE DEF new, m
  <2> QED BY <1>3, <1>4, <1>8, <2>1, <2>2 DEF Translate
<1>11. \A v \in UserVpns :
         /\ HasEntry(r, root, v) <=> HasEntry(m, root, v) \/ v \in Pages(area)
         /\ HasEntry(m, root, v) => Entry(r, root, v) = Entry(m, root, v)
         /\ v \in Pages(area) => ~HasEntry(m, root, v)
  BY <1>2, <1>6, <1>8, <1>9
<1>12. \A v \in UserVpns : HasEntry(m, root, v) =>
         /\ Translate(r, root, v) = Translate(m, root, v)
         /\ "U" \in Entry(r, root, v).flags
         /\ Translate(r, root, v) \in DOMAIN r.page
         /\ Translate(r, root, v) \in Nat /\ Translate(r, root, v) < m.next
  BY <1>4, <1>8, <1>11 DEF Translate, IsUser, IsMemory
<1>13. Kept(m, r, OwnTables(m, root))
  <2>1. ASSUME NEW f \in DOMAIN m.table
        PROVE  f \in DOMAIN r.table /\ (f \notin OwnTables(m, root) => r.table[f] = m.table[f])
    <3>1. f \in DOMAIN n.table /\ n.table[f] = m.table[f] /\ \A i : Leaf(n, root, i) = Leaf(m, root, i)
      BY <1>4 DEF Leaf
    <3>2. f \notin OwnTables(m, root) =>
            f # root /\ \A i \in RootIndexes(area) \cap DOMAIN n.table[root] : f # Leaf(n, root, i)
      BY <1>4, <1>9, <3>1 DEF OwnTables
    <3> HIDE DEF m, root
    <3> QED BY <1>8, <3>1, <3>2
  <2>2. \A f \in DOMAIN m.page : f \in DOMAIN r.page /\ r.page[f] = m.page[f]
    BY <1>4, <1>8
  <2>3. r.next >= m.next
    <3>1. r.next \in Nat
      BY <1>8 DEF IsMemory
    <3> QED BY <1>4, <1>7, <1>8, <3>1
  <2> QED BY <2>1, <2>2, <2>3 DEF Kept
<1>14. IsUser(r, root)
  <2>1. ASSUME NEW i \in DOMAIN r.table[root], i # Roots - 1
        PROVE  i \in 0 .. UserRoots - 1 /\ "OWNED" \in r.table[root][i].flags
    <3>1. CASE i \in DOMAIN m.table[root]
      <4>1. r.table[root][i] = m.table[root][i]
        BY <1>4, <1>8, <3>1
      <4> QED BY <2>1, <3>1, <4>1 DEF IsUser
    <3>2. CASE i \in RootIndexes(area) \ DOMAIN m.table[root]
      <4>1. r.table[root][i].flags = {"OWNED"}
        BY <1>4, <1>8, <3>2
      <4> QED BY <1>3, <3>2, <4>1
    <3> QED BY <1>4, <1>8, <3>1, <3>2
  <2>2. \A v \in UserVpns : HasEntry(r, root, v) =>
          "U" \in Entry(r, root, v).flags /\ Translate(r, root, v) \in DOMAIN r.page
    BY <1>10, <1>11, <1>12
  <2>3. ASSUME NEW v \in UserVpns, NEW w \in UserVpns, HasEntry(r, root, v), HasEntry(r, root, w),
               Translate(r, root, v) = Translate(r, root, w)
        PROVE  v = w
    <3>1. CASE v \in Pages(area) /\ w \in Pages(area)
      <4>1. new(v) = new(w)
        BY <1>10, <2>3, <3>1
      <4> QED BY <1>3, <1>7, <3>1, <4>1
    <3>2. CASE HasEntry(m, root, v) /\ HasEntry(m, root, w)
      BY <1>12, <2>3, <3>2 DEF IsUser
    <3>3. CASE v \in Pages(area) /\ HasEntry(m, root, w)
      BY <1>7, <1>10, <1>12, <2>3, <3>3
    <3>4. CASE w \in Pages(area) /\ HasEntry(m, root, v)
      BY <1>7, <1>10, <1>12, <2>3, <3>4
    <3> QED BY <1>11, <2>3, <3>1, <3>2, <3>3, <3>4
  <2> QED BY <1>8, <2>1, <2>2, <2>3 DEF IsUser
<1>15. \A f \in OwnTables(r, root) : f \in OwnTables(m, root) \/ f >= m.next
  <2>1. ASSUME NEW i \in DOMAIN r.table[root] \ {Roots - 1}
        PROVE  Leaf(r, root, i) \in OwnTables(m, root) \/ Leaf(r, root, i) >= m.next
    <3>1. CASE i \in DOMAIN m.table[root]
      <4>1. Leaf(r, root, i) = Leaf(m, root, i)
        BY <1>4, <1>8, <3>1 DEF Leaf
      <4> QED BY <3>1, <4>1 DEF OwnTables
    <3>2. CASE i \in RootIndexes(area) \ DOMAIN m.table[root]
      <4>1. Leaf(r, root, i) >= n.next /\ Leaf(r, root, i) \in Nat
        BY <1>4, <1>8, <3>2 DEF IsTree, IsMemory
      <4> QED BY <1>4, <1>7, <4>1
    <3> QED BY <1>4, <1>8, <3>1, <3>2
  <2>2. root \in OwnTables(m, root)
    BY DEF OwnTables
  <2> QED BY <2>1, <2>2 DEF OwnTables
<1>16. /\ DOMAIN r.table[root] = DOMAIN m.table[root] \cup RootIndexes(area)
       /\ \A i \in DOMAIN m.table[root] : r.table[root][i] = m.table[root][i]
  BY <1>4, <1>8
<1>17. Grown(m, r, root, area, contents)
  BY <1>3, <1>8, <1>10, <1>11, <1>13, <1>14, <1>15, <1>16 DEF Grown
<1> QED BY <1>4, <1>17 DEF r

\* Without a fault before, and with pages not mapped yet, only the heap can fail.
LEMMA OnlyHeapFails ==
  ASSUME NEW st, st.mem.fault \in {"none", "heap"},
         NEW area, NEW contents, NEW flags,
         Ok(st.mem) =>
           /\ IsMemory(st.mem) /\ IsUser(st.mem, st.space.root) /\ IsArea(area)
           /\ \A v \in Pages(area) : ~HasEntry(st.mem, st.space.root, v)
  PROVE  MapNew(st, area, contents, flags).mem.fault \in {"none", "heap"}
<1> DEFINE root == st.space.root
           m == st.mem
           n == AllocPages(m, contents)
           r == MapNew(st, area, contents, flags).mem
<1>1. r = IF MapperFails(n, root, area) THEN Failed(n, "assertion") ELSE Mapper(n, root, area, m.next, flags)
  BY DEF MapNew, MapExtern, WithMemory
<1>2. n.fault \in {"none", "heap"} /\ (Ok(n) => Ok(m))
  BY DEF AllocPages, Failed, Ok
<1>3. CASE ~Ok(n)
  <2>1. MapperFails(n, root, area) /\ Failed(n, "assertion") = n
    BY <1>3 DEF MapperFails, Failed
  <2> QED BY <1>1, <1>2, <2>1
<1>4. CASE Ok(n)
  <2>1. /\ IsMemory(m) /\ IsUser(m, root) /\ IsArea(area)
        /\ \A v \in Pages(area) : ~HasEntry(m, root, v)
    BY <1>2, <1>4
  <2>2. n.table = m.table
    BY <2>1 DEF AllocPages, Failed, IsMemory
  <2>3. \A v : HasEntry(n, root, v) <=> HasEntry(m, root, v)
    BY <2>2 DEF HasEntry
  <2>4. Pages(area) # {} /\ Roots - 1 \notin RootIndexes(area)
    BY <2>1, AreaPages, UserPages
  <2>5. \A i \in RootIndexes(area) \cap DOMAIN n.table[root] : "OWNED" \in n.table[root][i].flags
    BY <2>1, <2>2, <2>4 DEF IsUser
  <2>6. ~MapperFails(n, root, area)
    BY <1>4, <2>1, <2>3, <2>4, <2>5 DEF MapperFails
  <2>7. r = Mapper(n, root, area, m.next, flags)
    BY <1>1, <2>6
  <2>8. "fault" \in DOMAIN n
    BY <2>1 DEF AllocPages, Failed, IsMemory
  <2> HIDE DEF n, m, r
  <2>9. Mapper(n, root, area, m.next, flags).fault \in {"none", "heap"}
    BY <2>8 DEF Mapper
  <2> QED BY <2>7, <2>9 DEF r
<1> QED BY <1>3, <1>4

\* Two spaces show a program the same entries.
SameEntries(m, a, r, b) ==
  \A v \in UserVpns :
    /\ HasEntry(r, b, v) <=> HasEntry(m, a, v)
    /\ HasEntry(m, a, v) => Entry(r, b, v) = Entry(m, a, v)

\* Areas and stacks are right as far as the entries are the same.
LEMMA EntriesDecide ==
  ASSUME NEW m, NEW a, NEW r, NEW b, SameEntries(m, a, r, b)
  PROVE  /\ \A areas : AreasRight(m, a, areas) => AreasRight(r, b, areas)
         /\ \A threads : StacksRight(m, a, threads) => StacksRight(r, b, threads)
         /\ OwnFrames(r, b) = OwnFrames(m, a)
<1>1. \A v \in UserVpns : /\ HasEntry(r, b, v) <=> HasEntry(m, a, v)
                          /\ HasEntry(m, a, v) => Translate(r, b, v) = Translate(m, a, v)
  BY DEF SameEntries, Translate
<1>2. ASSUME NEW areas, AreasRight(m, a, areas)
      PROVE  AreasRight(r, b, areas)
  <2>1. ASSUME NEW k \in DOMAIN areas, NEW v \in Pages(areas[k])
        PROVE  Translate(r, b, v) = Translate(r, b, areas[k].start) + v - areas[k].start
    <3>1. IsArea(areas[k])
      BY <1>2 DEF AreasRight
    <3>2. v \in UserVpns /\ areas[k].start \in Pages(areas[k]) /\ areas[k].start \in UserVpns
      <4>1. areas[k].start \in Pages(areas[k])
        BY <3>1 DEF IsArea, Pages
      <4> QED BY <3>1, <4>1, AreaPages
    <3>3. HasEntry(m, a, v) /\ HasEntry(m, a, areas[k].start)
      BY <1>2, <3>2 DEF AreasRight
    <3> QED BY <1>1, <1>2, <3>2, <3>3 DEF AreasRight
  <2> QED BY <1>1, <1>2, <2>1 DEF AreasRight
<1>3. ASSUME NEW threads, StacksRight(m, a, threads)
      PROVE  StacksRight(r, b, threads)
  <2>1. StackVpns \subseteq UserVpns
    BY UserPages DEF StackVpns, UserVpns
  <2> QED BY <1>1, <1>3, <2>1 DEF StacksRight
<1>4. OwnFrames(r, b) = OwnFrames(m, a)
  BY <1>1 DEF OwnFrames
<1> QED BY <1>2, <1>3, <1>4

\* What an operation on other tables leaves of a space: all of it.
LEMMA SpaceKept ==
  ASSUME NEW m, NEW r, NEW T, Kept(m, r, T), IsMemory(m),
         NEW root, IsUser(m, root), OwnTables(m, root) \cap T = {}
  PROVE  /\ IsUser(r, root) /\ r.table[root] = m.table[root]
         /\ OwnTables(r, root) = OwnTables(m, root)
         /\ SameEntries(m, root, r, root)
         /\ \A v \in UserVpns : HasEntry(m, root, v) =>
              LET f == Translate(m, root, v)
              IN f \in DOMAIN m.page /\ f \in DOMAIN r.page /\ r.page[f] = m.page[f]
<1>1. r.table[root] = m.table[root] /\ root \in DOMAIN r.table
  BY DEF Kept, OwnTables, IsUser, IsTree
<1>2. \A i : Leaf(r, root, i) = Leaf(m, root, i)
  BY <1>1 DEF Leaf
<1>3. OwnTables(r, root) = OwnTables(m, root)
  BY <1>1, <1>2 DEF OwnTables
<1>4. ASSUME NEW v \in UserVpns
      PROVE  /\ HasEntry(r, root, v) <=> HasEntry(m, root, v)
             /\ HasEntry(m, root, v) => Entry(r, root, v) = Entry(m, root, v)
  <2> DEFINE i == RootIndex(v)
  <2>1. CASE i \in DOMAIN m.table[root]
    <3>1. Leaf(m, root, i) \in OwnTables(m, root) /\ Leaf(m, root, i) \in DOMAIN m.table
      BY <2>1, UserPages DEF OwnTables, IsUser, IsTree
    <3>2. r.table[Leaf(m, root, i)] = m.table[Leaf(m, root, i)]
      BY <3>1 DEF Kept
    <3> QED BY <1>1, <3>2 DEF HasEntry, Entry, Leaf
  <2>2. CASE i \notin DOMAIN m.table[root]
    BY <1>1, <2>2 DEF HasEntry
  <2> QED BY <2>1, <2>2
<1>5. SameEntries(m, root, r, root)
  BY <1>4 DEF SameEntries
<1>6. IsTree(r, root)
  <2>1. \A i \in DOMAIN m.table[root] : Leaf(m, root, i) \in DOMAIN r.table /\ Leaf(m, root, i) # root
    BY DEF IsUser, IsTree, Kept
  <2>2. \A i, j \in DOMAIN m.table[root] : Leaf(m, root, i) = Leaf(m, root, j) => i = j
    BY DEF IsUser, IsTree
  <2> QED BY <1>1, <1>2, <2>1, <2>2 DEF IsTree
<1>7. \A v \in UserVpns : HasEntry(m, root, v) =>
        /\ Translate(m, root, v) \in DOMAIN m.page /\ Translate(m, root, v) \in DOMAIN r.page
        /\ r.page[Translate(m, root, v)] = m.page[Translate(m, root, v)]
  BY DEF IsUser, Kept
<1>8. IsUser(r, root)
  <2>1. \A i \in DOMAIN r.table[root] \ {Roots - 1} :
          i \in 0 .. UserRoots - 1 /\ "OWNED" \in r.table[root][i].flags
    BY <1>1 DEF IsUser
  <2>2. \A v \in UserVpns : HasEntry(r, root, v) =>
          "U" \in Entry(r, root, v).flags /\ Translate(r, root, v) \in DOMAIN r.page
    BY <1>4, <1>7 DEF IsUser, Translate
  <2>3. \A v, w \in UserVpns :
          /\ HasEntry(r, root, v) /\ HasEntry(r, root, w)
          /\ Translate(r, root, v) = Translate(r, root, w)
          => v = w
    <3>1. \A v \in UserVpns : HasEntry(m, root, v) => Translate(r, root, v) = Translate(m, root, v)
      BY <1>4 DEF Translate
    <3> QED BY <1>4, <3>1 DEF IsUser
  <2> QED BY <1>6, <2>1, <2>2, <2>3 DEF IsUser
<1> QED BY <1>1, <1>3, <1>5, <1>7, <1>8

\* A grown space has one area more.
LEMMA AreasGrow ==
  ASSUME NEW m, NEW r, NEW root, NEW area, NEW contents, Grown(m, r, root, area, contents),
         IsArea(area), m.next \in Nat, NEW areas, AreasRight(m, root, areas)
  PROVE  AreasRight(r, root, Append(areas, area))
<1> DEFINE n == Len(areas) + 1
           more == Append(areas, area)
<1>1. area \in [start : Nat, end : Nat] /\ areas \in Seq([start : Nat, end : Nat])
  BY DEF IsArea, AreasRight
<1>2. /\ more \in Seq([start : Nat, end : Nat])
      /\ DOMAIN more = DOMAIN areas \cup {n} /\ n \notin DOMAIN areas
      /\ \A k \in DOMAIN areas : more[k] = areas[k]
      /\ more[n] = area
  BY <1>1
<1> HIDE DEF more, n
<1>3. \A k \in DOMAIN more : IsArea(more[k])
  BY <1>2 DEF AreasRight
<1>4. \A v \in UserVpns : HasEntry(r, root, v) <=> \E k \in DOMAIN more : v \in Pages(more[k])
  BY <1>2 DEF AreasRight, Grown
<1>5. \A k \in DOMAIN areas : \A v \in Pages(areas[k]) :
        v \in UserVpns /\ HasEntry(m, root, v) /\ v \notin Pages(area)
  <2>1. \A k \in DOMAIN areas : \A v \in Pages(areas[k]) : v \in UserVpns /\ HasEntry(m, root, v)
    BY AreaPages DEF AreasRight
  <2> QED BY <2>1 DEF Grown
<1>6. ASSUME NEW j \in DOMAIN more, NEW k \in DOMAIN more, NEW v \in Pages(more[j]), v \in Pages(more[k])
      PROVE  j = k
  <2>1. CASE j \in DOMAIN areas /\ k \in DOMAIN areas
    BY <1>2, <1>6, <2>1 DEF AreasRight
  <2>2. CASE j = n \/ k = n
    BY <1>2, <1>5, <1>6, <2>2
  <2> QED BY <1>2, <2>1, <2>2
<1>7. ASSUME NEW k \in DOMAIN more, NEW v \in Pages(more[k])
      PROVE  Translate(r, root, v) = Translate(r, root, more[k].start) + v - more[k].start
  <2> DEFINE start == more[k].start
  <2>1. start \in Pages(more[k]) /\ start \in Nat /\ v \in Nat
    <3>1. start \in Pages(more[k]) /\ start \in Nat
      BY <1>3 DEF IsArea, Pages
    <3> QED BY <1>3, <3>1, AreaPages
  <2>2. CASE k \in DOMAIN areas
    <3>1. more[k] = areas[k]
      BY <1>2, <2>2
    <3>2. /\ v \in UserVpns /\ HasEntry(m, root, v)
          /\ start \in UserVpns /\ HasEntry(m, root, start)
      BY <1>5, <2>1, <2>2, <3>1
    <3>3. Translate(r, root, v) = Translate(m, root, v) /\ Translate(r, root, start) = Translate(m, root, start)
      BY <3>2 DEF Grown, Translate
    <3>4. Translate(m, root, v) = Translate(m, root, start) + v - start
      BY <2>2, <3>1 DEF AreasRight
    <3> QED BY <3>3, <3>4
  <2>3. CASE k = n
    <3>1. /\ Translate(r, root, v) = m.next + v - start
          /\ Translate(r, root, start) = m.next + start - start
      BY <1>2, <2>1, <2>3 DEF Grown
    <3> HIDE DEF start
    <3> QED BY <2>1, <3>1 DEF start
  <2> QED BY <1>2, <2>2, <2>3
<1> QED BY <1>2, <1>3, <1>4, <1>6, <1>7 DEF AreasRight, more

----------------------------------------------------------------------------
\* Loops.  Each is a recursive function, and there is one: the loop's states.

\* from_elf loads one segment after another.
LEMMA LoadSteps ==
  ASSUME NEW st, NEW program, Len(program) \in Nat
  PROVE  \E run : /\ Load(st, program) = run[Len(program)]
                  /\ run[0] = st
                  /\ \A k \in 1 .. Len(program) : run[k] = LoadSegment(run[k - 1], program[k])
<1> DEFINE IsRun(f, n) ==
             f = [k \in 0 .. n |-> IF k = 0 THEN st ELSE LoadSegment(f[k - 1], program[k])]
           bad == {n \in Nat : ~\E f : IsRun(f, n)}
<1>1. bad = {}
  <2> SUFFICES ASSUME bad # {} PROVE FALSE
    OBVIOUS
  <2>1. PICK n \in bad : \A k \in bad : n <= k
    <3>1. bad \in SUBSET Nat
      OBVIOUS
    <3> HIDE DEF bad
    <3> QED BY <3>1, MinMember
  <2>2. n \in Nat /\ ~\E f : IsRun(f, n)
    OBVIOUS
  <2>3. n # 0
    <3>1. IsRun([k \in 0 .. 0 |-> st], 0)
      OBVIOUS
    <3> QED BY <2>2, <3>1
  <2>4. n - 1 \in Nat /\ n - 1 \notin bad
    <3> HIDE DEF bad
    <3> QED BY <2>1, <2>2, <2>3
  <2>5. PICK f : IsRun(f, n - 1)
    BY <2>4
  <2> DEFINE g == [k \in 0 .. n |-> IF k = n THEN LoadSegment(f[n - 1], program[n]) ELSE f[k]]
  <2>6. \A k \in 0 .. n - 1 : f[k] = IF k = 0 THEN st ELSE LoadSegment(f[k - 1], program[k])
    BY <2>5
  <2>7. \A k \in 0 .. n : g[k] = IF k = 0 THEN st ELSE LoadSegment(g[k - 1], program[k])
    <3>1. \A k \in 1 .. n : g[k - 1] = f[k - 1]
      BY <2>2
    <3>2. ASSUME NEW k \in 0 .. n PROVE g[k] = IF k = 0 THEN st ELSE LoadSegment(g[k - 1], program[k])
      <4>1. CASE k = n
        BY <2>2, <2>3, <3>1, <4>1
      <4>2. CASE k # n
        <5>1. k \in 0 .. n - 1 /\ g[k] = f[k]
          BY <2>2, <4>2
        <5>2. k # 0 => g[k - 1] = f[k - 1]
          BY <2>2, <3>1
        <5> HIDE DEF g
        <5> QED BY <2>6, <5>1, <5>2
      <4> QED BY <4>1, <4>2
    <3> QED BY <3>2
  <2>8. IsRun(g, n)
    <3>1. g = [k \in 0 .. n |-> g[k]]
      OBVIOUS
    <3> HIDE DEF g
    <3> QED BY <2>7, <3>1
  <2> QED BY <2>2, <2>8
<1>2. PICK run : run = (CHOOSE f : IsRun(f, Len(program))) /\ Load(st, program) = run[Len(program)]
  BY DEF Load
<1>3. IsRun(run, Len(program))
  <2>1. \E f : IsRun(f, Len(program))
    BY <1>1
  <2> QED BY <1>2, <2>1
<1> DEFINE n == Len(program)
<1>4. run[0] = st /\ \A k \in 1 .. n : run[k] = LoadSegment(run[k - 1], program[k])
  <2>1. run = [k \in 0 .. n |-> IF k = 0 THEN st ELSE LoadSegment(run[k - 1], program[k])]
    BY <1>3
  <2> HIDE DEF n
  <2>2. n \in Nat
    BY DEF n
  <2>3. 0 \in 0 .. n /\ \A k \in 1 .. n : k \in 0 .. n /\ k # 0
    BY <2>2
  <2> QED BY <2>1, <2>3
<1> QED BY <1>2, <1>4, Zenon

\* cloneself copies one area after another.
LEMMA CloneSteps ==
  ASSUME NEW st, NEW src, Len(src.areas) \in Nat
  PROVE  \E run : /\ CloneSelf(src, st) = run[Len(src.areas)]
                  /\ run[0] = st
                  /\ \A k \in 1 .. Len(src.areas) : run[k] = CloneArea(run[k - 1], src, src.areas[k])
<1> DEFINE IsRun(f, n) ==
             f = [k \in 0 .. n |-> IF k = 0 THEN st ELSE CloneArea(f[k - 1], src, src.areas[k])]
           bad == {n \in Nat : ~\E f : IsRun(f, n)}
<1>1. bad = {}
  <2> SUFFICES ASSUME bad # {} PROVE FALSE
    OBVIOUS
  <2>1. PICK n \in bad : \A k \in bad : n <= k
    <3>1. bad \in SUBSET Nat
      OBVIOUS
    <3> HIDE DEF bad
    <3> QED BY <3>1, MinMember
  <2>2. n \in Nat /\ ~\E f : IsRun(f, n)
    OBVIOUS
  <2>3. n # 0
    <3>1. IsRun([k \in 0 .. 0 |-> st], 0)
      OBVIOUS
    <3> QED BY <2>2, <3>1
  <2>4. n - 1 \in Nat /\ n - 1 \notin bad
    <3> HIDE DEF bad
    <3> QED BY <2>1, <2>2, <2>3
  <2>5. PICK f : IsRun(f, n - 1)
    BY <2>4
  <2> DEFINE g == [k \in 0 .. n |-> IF k = n THEN CloneArea(f[n - 1], src, src.areas[n]) ELSE f[k]]
  <2>6. \A k \in 0 .. n - 1 : f[k] = IF k = 0 THEN st ELSE CloneArea(f[k - 1], src, src.areas[k])
    BY <2>5
  <2>7. \A k \in 0 .. n : g[k] = IF k = 0 THEN st ELSE CloneArea(g[k - 1], src, src.areas[k])
    <3>1. \A k \in 1 .. n : g[k - 1] = f[k - 1]
      BY <2>2
    <3>2. ASSUME NEW k \in 0 .. n PROVE g[k] = IF k = 0 THEN st ELSE CloneArea(g[k - 1], src, src.areas[k])
      <4>1. CASE k = n
        BY <2>2, <2>3, <3>1, <4>1
      <4>2. CASE k # n
        <5>1. k \in 0 .. n - 1 /\ g[k] = f[k]
          BY <2>2, <4>2
        <5>2. k # 0 => g[k - 1] = f[k - 1]
          BY <2>2, <3>1
        <5> HIDE DEF g
        <5> QED BY <2>6, <5>1, <5>2
      <4> QED BY <4>1, <4>2
    <3> QED BY <3>2
  <2>8. IsRun(g, n)
    <3>1. g = [k \in 0 .. n |-> g[k]]
      OBVIOUS
    <3> HIDE DEF g
    <3> QED BY <2>7, <3>1
  <2> QED BY <2>2, <2>8
<1>2. PICK run : run = (CHOOSE f : IsRun(f, Len(src.areas))) /\ CloneSelf(src, st) = run[Len(src.areas)]
  BY DEF CloneSelf
<1>3. IsRun(run, Len(src.areas))
  <2>1. \E f : IsRun(f, Len(src.areas))
    BY <1>1
  <2> QED BY <1>2, <2>1
<1> DEFINE n == Len(src.areas)
<1>4. run[0] = st /\ \A k \in 1 .. n : run[k] = CloneArea(run[k - 1], src, src.areas[k])
  <2>1. run = [k \in 0 .. n |-> IF k = 0 THEN st ELSE CloneArea(run[k - 1], src, src.areas[k])]
    BY <1>3
  <2> HIDE DEF n
  <2>2. n \in Nat
    BY DEF n
  <2>3. 0 \in 0 .. n /\ \A k \in 1 .. n : k \in 0 .. n /\ k # 0
    BY <2>2
  <2> QED BY <2>1, <2>3
<1> QED BY <1>2, <1>4, Zenon

\* kernel_space maps one area after another.
LEMMA KernelSteps ==
  ASSUME Len(KernelAreas) \in Nat
  PROVE  \E run : /\ KernelSpace = run[Len(KernelAreas)]
                  /\ run[0] = NewSpace(AllocPages(EmptyMemory, <<Foreign>>))
                  /\ \A k \in 1 .. Len(KernelAreas) : run[k] = MapKernelArea(run[k - 1], KernelAreas[k])
<1> DEFINE IsRun(f, n) ==
             f = [k \in 0 .. n |-> IF k = 0 THEN NewSpace(AllocPages(EmptyMemory, <<Foreign>>)) ELSE MapKernelArea(f[k - 1], KernelAreas[k])]
           bad == {n \in Nat : ~\E f : IsRun(f, n)}
<1>1. bad = {}
  <2> SUFFICES ASSUME bad # {} PROVE FALSE
    OBVIOUS
  <2>1. PICK n \in bad : \A k \in bad : n <= k
    <3>1. bad \in SUBSET Nat
      OBVIOUS
    <3> HIDE DEF bad
    <3> QED BY <3>1, MinMember
  <2>2. n \in Nat /\ ~\E f : IsRun(f, n)
    OBVIOUS
  <2>3. n # 0
    <3>1. IsRun([k \in 0 .. 0 |-> NewSpace(AllocPages(EmptyMemory, <<Foreign>>))], 0)
      OBVIOUS
    <3> QED BY <2>2, <3>1
  <2>4. n - 1 \in Nat /\ n - 1 \notin bad
    <3> HIDE DEF bad
    <3> QED BY <2>1, <2>2, <2>3
  <2>5. PICK f : IsRun(f, n - 1)
    BY <2>4
  <2> DEFINE g == [k \in 0 .. n |-> IF k = n THEN MapKernelArea(f[n - 1], KernelAreas[n]) ELSE f[k]]
  <2>6. \A k \in 0 .. n - 1 : f[k] = IF k = 0 THEN NewSpace(AllocPages(EmptyMemory, <<Foreign>>)) ELSE MapKernelArea(f[k - 1], KernelAreas[k])
    BY <2>5
  <2>7. \A k \in 0 .. n : g[k] = IF k = 0 THEN NewSpace(AllocPages(EmptyMemory, <<Foreign>>)) ELSE MapKernelArea(g[k - 1], KernelAreas[k])
    <3>1. \A k \in 1 .. n : g[k - 1] = f[k - 1]
      BY <2>2
    <3>2. ASSUME NEW k \in 0 .. n PROVE g[k] = IF k = 0 THEN NewSpace(AllocPages(EmptyMemory, <<Foreign>>)) ELSE MapKernelArea(g[k - 1], KernelAreas[k])
      <4>1. CASE k = n
        BY <2>2, <2>3, <3>1, <4>1
      <4>2. CASE k # n
        <5>1. k \in 0 .. n - 1 /\ g[k] = f[k]
          BY <2>2, <4>2
        <5>2. k # 0 => g[k - 1] = f[k - 1]
          BY <2>2, <3>1
        <5> HIDE DEF g
        <5> QED BY <2>6, <5>1, <5>2
      <4> QED BY <4>1, <4>2
    <3> QED BY <3>2
  <2>8. IsRun(g, n)
    <3>1. g = [k \in 0 .. n |-> g[k]]
      OBVIOUS
    <3> HIDE DEF g
    <3> QED BY <2>7, <3>1
  <2> QED BY <2>2, <2>8
<1>2. PICK run : run = (CHOOSE f : IsRun(f, Len(KernelAreas))) /\ KernelSpace = run[Len(KernelAreas)]
  BY DEF KernelSpace
<1>3. IsRun(run, Len(KernelAreas))
  <2>1. \E f : IsRun(f, Len(KernelAreas))
    BY <1>1
  <2> QED BY <1>2, <2>1
<1> DEFINE n == Len(KernelAreas)
<1>4. run[0] = NewSpace(AllocPages(EmptyMemory, <<Foreign>>)) /\ \A k \in 1 .. n : run[k] = MapKernelArea(run[k - 1], KernelAreas[k])
  <2>1. run = [k \in 0 .. n |-> IF k = 0 THEN NewSpace(AllocPages(EmptyMemory, <<Foreign>>)) ELSE MapKernelArea(run[k - 1], KernelAreas[k])]
    BY <1>3
  <2> HIDE DEF n
  <2>2. n \in Nat
    BY DEF n
  <2>3. 0 \in 0 .. n /\ \A k \in 1 .. n : k \in 0 .. n /\ k # 0
    BY <2>2
  <2> QED BY <2>1, <2>3
<1> QED BY <1>2, <1>4, Zenon

----------------------------------------------------------------------------
\* A space that is built: by exec from a program, by fork from another space.

\* What a program sees of the space at root.
ViewOf(m, root) ==
  [v \in UserVpns |-> IF HasEntry(m, root, v) THEN m.page[Translate(m, root, v)] ELSE "unmapped"]

\* Since memory m0, st.space has been made, in frames of its own.
Built(m0, st) ==
  LET root == st.space.root
  IN /\ IsMemory(st.mem) /\ IsUser(st.mem, root) /\ Kept(m0, st.mem, {})
     /\ \A f \in OwnTables(st.mem, root) : f >= m0.next
     /\ \A f \in OwnFrames(st.mem, root) : f >= m0.next
     /\ AreasRight(st.mem, root, st.space.areas)
     /\ st.space = [root |-> root, areas |-> st.space.areas]
     /\ Roots - 1 \notin DOMAIN st.mem.table[root]

\* No page that is mapped shows as one that is not.
LEMMA ViewMapped ==
  ASSUME NEW m, IsMemory(m), NEW root, IsUser(m, root), NEW v \in UserVpns
  PROVE  HasEntry(m, root, v) <=> ViewOf(m, root)[v] # "unmapped"
BY DEF ViewOf, IsUser, IsMemory

\* The view of a space that has grown.
LEMMA ViewGrows ==
  ASSUME NEW m, NEW r, NEW root, NEW area, NEW contents, Grown(m, r, root, area, contents),
         IsUser(m, root), IsArea(area)
  PROVE  \A v \in UserVpns :
           ViewOf(r, root)[v] = IF v \in Pages(area) THEN contents[v - area.start + 1]
                                ELSE ViewOf(m, root)[v]
<1>1. ASSUME NEW v \in UserVpns, v \in Pages(area)
      PROVE  ViewOf(r, root)[v] = contents[v - area.start + 1]
  BY <1>1 DEF ViewOf, Grown
<1>2. ASSUME NEW v \in UserVpns, v \notin Pages(area)
      PROVE  ViewOf(r, root)[v] = ViewOf(m, root)[v]
  <2>1. CASE HasEntry(m, root, v)
    <3>1. Translate(r, root, v) = Translate(m, root, v) /\ Translate(m, root, v) \in DOMAIN m.page
      BY <2>1 DEF Grown, IsUser, Translate
    <3>2. r.page[Translate(m, root, v)] = m.page[Translate(m, root, v)]
      BY <3>1 DEF Grown, Kept
    <3> QED BY <2>1, <3>1, <3>2 DEF ViewOf, Grown
  <2>2. CASE ~HasEntry(m, root, v)
    BY <1>2, <2>2 DEF ViewOf, Grown
  <2> QED BY <2>1, <2>2
<1> QED BY <1>1, <1>2

\* A new space is empty.
LEMMA NewSpaceBuilt ==
  ASSUME NEW m, IsMemory(m), m.fault \in {"none", "heap"}
  PROVE  LET st == NewSpace(m)
         IN /\ st.mem.fault \in {"none", "heap"}
            /\ Ok(st.mem) => /\ Built(m, st)
                             /\ \A v \in UserVpns : ViewOf(st.mem, st.space.root)[v] = "unmapped"
<1> DEFINE st == NewSpace(m)
           r == AllocTable(m)
           root == m.next
<1>1. /\ st.mem = r /\ st.space.root = root /\ st.space.areas = <<>>
      /\ st.space = [root |-> st.space.root, areas |-> st.space.areas]
  BY DEF NewSpace
<1>2. r.fault \in {"none", "heap"}
  BY DEF AllocTable, Failed, Ok, IsMemory
<1>3. ASSUME Ok(r)
      PROVE  Built(m, st) /\ \A v \in UserVpns : ViewOf(r, root)[v] = "unmapped"
  <2>1. /\ IsMemory(r) /\ r.page = m.page /\ r.next > m.next
        /\ DOMAIN r.table = DOMAIN m.table \cup {root}
        /\ DOMAIN r.table[root] = {}
        /\ \A f \in DOMAIN m.table : r.table[f] = m.table[f]
    BY <1>3, AllocTableDoes
  <2> HIDE DEF r, root, st
  <2>2. \A v : ~HasEntry(r, root, v)
    BY <2>1 DEF HasEntry
  <2>3. IsTree(r, root)
    BY <2>1 DEF IsTree
  <2>4. IsUser(r, root)
    BY <2>1, <2>2, <2>3 DEF IsUser
  <2>5. Kept(m, r, {})
    <3>1. r.next \in Nat /\ m.next \in Nat
      BY <2>1 DEF IsMemory
    <3> QED BY <2>1, <3>1 DEF Kept
  <2>6. OwnTables(r, root) = {m.next} /\ OwnFrames(r, root) = {}
    BY <2>1, <2>2 DEF OwnTables, OwnFrames, root
  <2>7. AreasRight(r, root, <<>>)
    BY <2>2 DEF AreasRight
  <2>8. m.next \in Nat
    BY DEF IsMemory
  <2>9. Roots - 1 \notin DOMAIN r.table[root]
    BY <2>1
  <2>10. Built(m, st)
    BY <1>1, <2>1, <2>4, <2>5, <2>6, <2>7, <2>8, <2>9 DEF Built
  <2> QED BY <2>2, <2>10 DEF ViewOf
<1> QED BY <1>1, <1>2, <1>3

\* Building goes on with an area in new frames.
LEMMA BuiltGrows ==
  ASSUME NEW m0, IsMemory(m0), NEW st, Built(m0, st),
         NEW area, IsArea(area), NEW contents, NEW flags, "U" \in flags,
         Len(contents) = area.end - area.start,
         \A k \in 1 .. Len(contents) : contents[k] # "unmapped",
         Ok(MapNew(st, area, contents, flags).mem)
  PROVE  LET r == MapNew(st, area, contents, flags)
         IN /\ Built(m0, r) /\ r.space.root = st.space.root
            /\ Grown(st.mem, r.mem, st.space.root, area, contents)
<1> DEFINE r == MapNew(st, area, contents, flags)
           root == st.space.root
           m == st.mem
<1>1. /\ r.space.root = root /\ r.space.areas = Append(st.space.areas, area)
      /\ r.space = [root |-> r.space.root, areas |-> r.space.areas]
  BY DEF MapNew, MapExtern, WithMemory
<1>2. Grown(m, r.mem, root, area, contents)
  BY MapNewDoes DEF Built
<1>3. /\ IsMemory(m) /\ IsUser(m, root) /\ Kept(m0, m, {})
      /\ \A f \in OwnTables(m, root) : f >= m0.next
      /\ \A f \in OwnFrames(m, root) : f >= m0.next
      /\ AreasRight(m, root, st.space.areas)
      /\ Roots - 1 \notin DOMAIN m.table[root]
  BY DEF Built
<1>4. /\ m0.next \in Nat /\ m.next \in Nat /\ m.next >= m0.next
      /\ \A f \in DOMAIN m0.table : f \in Nat /\ f < m0.next
  BY <1>3 DEF Kept, IsMemory
<1> HIDE DEF r, m, root
<1>5. IsMemory(r.mem) /\ IsUser(r.mem, root)
  BY <1>2 DEF Grown
<1>6. Kept(m0, r.mem, {})
  <2>1. ASSUME NEW f \in DOMAIN m0.table
        PROVE  f \in DOMAIN r.mem.table /\ r.mem.table[f] = m0.table[f]
    <3>1. f \notin OwnTables(m, root)
      BY <1>3, <1>4
    <3> QED BY <1>2, <1>3, <3>1 DEF Kept, Grown
  <2>2. \A f \in DOMAIN m0.page : f \in DOMAIN r.mem.page /\ r.mem.page[f] = m0.page[f]
    BY <1>2, <1>3 DEF Kept, Grown
  <2>3. r.mem.next >= m0.next
    <3>1. r.mem.next \in Nat /\ r.mem.next >= m.next
      BY <1>2, <1>5 DEF IsMemory, Grown, Kept
    <3> QED BY <1>4, <3>1
  <2> QED BY <2>1, <2>2, <2>3 DEF Kept
<1>7. \A f \in OwnTables(r.mem, root) : f >= m0.next
  <2>1. \A f \in OwnTables(r.mem, root) : f \in Nat /\ (f \in OwnTables(m, root) \/ f >= m.next)
    BY <1>2, <1>5 DEF Grown, OwnTables, IsUser, IsTree, IsMemory
  <2> QED BY <1>3, <1>4, <2>1
<1>8. ASSUME NEW v \in UserVpns, HasEntry(r.mem, root, v)
      PROVE  Translate(r.mem, root, v) >= m0.next
  <2>1. CASE HasEntry(m, root, v)
    <3>1. Translate(r.mem, root, v) = Translate(m, root, v)
      BY <1>2, <2>1 DEF Grown, Translate
    <3> QED BY <1>3, <2>1, <3>1 DEF OwnFrames
  <2>2. CASE v \in Pages(area)
    <3>1. Translate(r.mem, root, v) = m.next + v - area.start /\ v >= area.start
          /\ v \in Nat /\ area.start \in Nat
      BY <1>2, <2>2, AreaPages DEF Grown, Pages
    <3> QED BY <1>4, <3>1
  <2> QED BY <1>2, <1>8, <2>1, <2>2 DEF Grown
<1>9. AreasRight(r.mem, root, r.space.areas)
  BY <1>1, <1>2, <1>3, <1>4, AreasGrow
<1>10. Roots - 1 \notin DOMAIN r.mem.table[root]
  BY <1>2, <1>3, AreaPages, UserPages DEF Grown
<1>11. Built(m0, r)
  BY <1>1, <1>5, <1>6, <1>7, <1>8, <1>9, <1>10 DEF Built, OwnFrames
<1> QED BY <1>1, <1>2, <1>11 DEF r, m, root

----------------------------------------------------------------------------
\* from_elf.

SegmentArea(segment) == Area(segment.start, segment.end)

\* What a program finds in a page of a segment.
SegmentShows(segment, v) ==
  IF v - segment.start < Len(segment.data) THEN segment.data[v - segment.start + 1] ELSE Zero

\* The first k segments are loaded and nothing else, or the heap was too small.
LoadedUpTo(m0, program, k, st) ==
  /\ st.mem.fault \in {"none", "heap"}
  /\ Ok(st.mem) =>
       LET view == ViewOf(st.mem, st.space.root)
       IN /\ Built(m0, st)
          /\ \A v \in UserVpns :
               (\A j \in 1 .. k : v \notin Pages(SegmentArea(program[j]))) => view[v] = "unmapped"
          /\ \A j \in 1 .. k : \A v \in Pages(SegmentArea(program[j])) :
               view[v] = SegmentShows(program[j], v)

\* What a linker script promises of a segment.
LEMMA Segments ==
  ASSUME NEW program \in Programs, NEW k \in 1 .. Len(program)
  PROVE  LET s == program[k]
         IN /\ Len(program) \in Nat
            /\ IsArea(SegmentArea(s)) /\ SegmentArea(s).start = s.start /\ SegmentArea(s).end = s.end
            /\ s.end < StackTop - 2
            /\ \A v \in Pages(SegmentArea(s)) : v % Width = 0 => v - 1 \notin StackVpns
            /\ Len(s.data) \in Nat /\ Len(s.data) <= s.end - s.start
            /\ \A i \in 1 .. Len(s.data) : s.data[i] # "unmapped"
            /\ \A j \in 1 .. Len(program) :
                 j # k => Pages(SegmentArea(program[j])) \cap Pages(SegmentArea(s)) = {}
<1> DEFINE s == program[k]
<1>1. /\ Len(program) \in Nat /\ DOMAIN program = 1 .. Len(program)
      /\ s.start \in Nat /\ s.end \in Nat /\ s.start < s.end /\ s.end < StackTop - 2
      /\ \A v \in Pages(SegmentArea(s)) : v % Width = 0 => v - 1 \notin StackVpns
      /\ Len(s.data) \in 0 .. s.end - s.start /\ DOMAIN s.data = 1 .. Len(s.data)
      /\ \A i \in DOMAIN s.data : s.data[i] # "unmapped"
      /\ \A j \in DOMAIN program : j # k => Pages(SegmentArea(program[j])) \cap Pages(SegmentArea(s)) = {}
  BY ProgramAssumption DEF SegmentArea, Area
<1>2. SegmentArea(s) \in [start : Nat, end : Nat] /\ SegmentArea(s).start = s.start /\ SegmentArea(s).end = s.end
  BY <1>1 DEF SegmentArea, Area
<1>3. IsArea(SegmentArea(s))
  <2>1. StackTop \in Nat
    BY UserPages
  <2> HIDE DEF s
  <2> QED BY <1>1, <1>2, <2>1 DEF IsArea
<1> QED BY <1>1, <1>2, <1>3

\* Loading a segment.
LEMMA SegmentLoaded ==
  ASSUME NEW m0, IsMemory(m0), NEW program \in Programs, NEW k \in 1 .. Len(program),
         NEW st, LoadedUpTo(m0, program, k - 1, st)
  PROVE  LoadedUpTo(m0, program, k, LoadSegment(st, program[k]))
<1> DEFINE s == program[k]
           area == SegmentArea(s)
           n == area.end - area.start
           contents == [i \in 1 .. n |-> IF i <= Len(s.data) THEN s.data[i] ELSE Zero]
           flags == ({"U"} \cup s.flags) \cup {"OWNED"}
           r == MapNew(st, area, contents, flags)
           root == st.space.root
<1>1. /\ IsArea(area) /\ area.start = s.start /\ area.end = s.end
      /\ Len(s.data) \in Nat /\ Len(s.data) <= s.end - s.start
      /\ \A i \in 1 .. Len(s.data) : s.data[i] # "unmapped"
      /\ k \in Nat /\ Len(program) \in Nat
      /\ \A j \in 1 .. Len(program) : j # k => Pages(SegmentArea(program[j])) \cap Pages(area) = {}
  <2>1. /\ IsArea(area) /\ area.start = s.start /\ area.end = s.end
        /\ Len(s.data) \in Nat /\ Len(s.data) <= s.end - s.start
        /\ \A i \in 1 .. Len(s.data) : s.data[i] # "unmapped"
        /\ Len(program) \in Nat
        /\ \A j \in 1 .. Len(program) : j # k => Pages(SegmentArea(program[j])) \cap Pages(area) = {}
    BY Segments, Zenon
  <2> HIDE DEF s, area
  <2>2. k \in Nat
    BY <2>1
  <2> QED BY <2>1, <2>2, Zenon
<1>2. LoadSegment(st, s) = r
  <2>1. Len(s.data) <= area.end - area.start
    BY <1>1
  <2> QED BY <2>1 DEF LoadSegment, Map, SegmentArea
<1>3. n \in Nat
  BY <1>1, AreaPages DEF IsArea
<1>4. /\ Len(contents) = n
      /\ \A i \in 1 .. n : contents[i] = IF i <= Len(s.data) THEN s.data[i] ELSE Zero
      /\ \A i \in 1 .. n : contents[i] # "unmapped"
  <2>1. \A i \in 1 .. n : i <= Len(s.data) => i \in 1 .. Len(s.data)
    BY <1>1, <1>3
  <2>2. Zero # "unmapped"
    BY ContentsAssumption
  <2> HIDE DEF n
  <2> QED BY <1>1, <1>3, <2>1, <2>2
<1>5. \A v \in Pages(area) : contents[v - area.start + 1] = SegmentShows(s, v)
  <2>1. ASSUME NEW v \in Pages(area)
        PROVE  /\ v - area.start + 1 \in 1 .. n
               /\ v - area.start + 1 <= Len(s.data) <=> v - s.start < Len(s.data)
    <3>1. v \in Nat /\ v - area.start + 1 \in 1 .. n
      BY <1>1, AreaPages
    <3>2. s.start \in Nat /\ s.start = area.start
      BY <1>1, AreaPages
    <3> HIDE DEF n, area, s
    <3> QED BY <1>1, <3>1, <3>2
  <2> HIDE DEF n, contents, area, s
  <2> QED BY <1>1, <1>4, <2>1 DEF SegmentShows
<1>6. Ok(st.mem) =>
        /\ Built(m0, st)
        /\ \A v \in UserVpns :
             (\A j \in 1 .. k - 1 : v \notin Pages(SegmentArea(program[j]))) => ViewOf(st.mem, root)[v] = "unmapped"
        /\ \A j \in 1 .. k - 1 : \A v \in Pages(SegmentArea(program[j])) :
             ViewOf(st.mem, root)[v] = SegmentShows(program[j], v)
  BY DEF LoadedUpTo
<1>7. \A j \in 1 .. k - 1 : j \in 1 .. Len(program) /\ j # k
  BY <1>1
<1>8. Pages(area) \subseteq UserVpns
  BY <1>1, AreaPages
<1>9. "U" \in flags
  OBVIOUS
<1> HIDE DEF area, n, contents, flags, r, root, s
<1>10. Ok(st.mem) => \A v \in Pages(area) : ~HasEntry(st.mem, root, v)
  <2>1. \A v \in Pages(area) : \A j \in 1 .. k - 1 : v \notin Pages(SegmentArea(program[j]))
    BY <1>1, <1>7
  <2> QED BY <1>6, <1>8, <2>1, ViewMapped DEF Built, root
<1>11. r.mem.fault \in {"none", "heap"}
  <2>1. Ok(st.mem) => IsMemory(st.mem) /\ IsUser(st.mem, root) /\ IsArea(area)
    BY <1>1, <1>6 DEF Built, root
  <2>2. st.mem.fault \in {"none", "heap"}
    BY DEF LoadedUpTo
  <2> QED BY <1>10, <2>1, <2>2, OnlyHeapFails DEF r, root
<1>12. ASSUME Ok(r.mem)
       PROVE  /\ Built(m0, r)
              /\ \A v \in UserVpns :
                   (\A j \in 1 .. k : v \notin Pages(SegmentArea(program[j])))
                     => ViewOf(r.mem, r.space.root)[v] = "unmapped"
              /\ \A j \in 1 .. k : \A v \in Pages(SegmentArea(program[j])) :
                   ViewOf(r.mem, r.space.root)[v] = SegmentShows(program[j], v)
  <2>1. Ok(st.mem)
    <3>1. r.mem = IF MapperFails(AllocPages(st.mem, contents), root, area)
                  THEN Failed(AllocPages(st.mem, contents), "assertion")
                  ELSE Mapper(AllocPages(st.mem, contents), root, area, st.mem.next, flags)
      BY DEF r, MapNew, MapExtern, WithMemory, root
    <3>2. Ok(AllocPages(st.mem, contents))
      BY <1>12, <3>1 DEF MapperFails, Failed, Ok
    <3> QED BY <3>2 DEF AllocPages, Failed, Ok
  <2>2. Built(m0, st)
    BY <1>6, <2>1
  <2>3. /\ Built(m0, r) /\ r.space.root = root
        /\ Grown(st.mem, r.mem, root, area, contents)
    <3>1. Len(contents) = area.end - area.start /\ \A i \in 1 .. Len(contents) : contents[i] # "unmapped"
      BY <1>4 DEF n
    <3> QED BY <1>1, <1>9, <1>12, <2>2, <3>1, BuiltGrows DEF r, root
  <2>4. \A v \in UserVpns :
          ViewOf(r.mem, root)[v] = IF v \in Pages(area) THEN contents[v - area.start + 1]
                                   ELSE ViewOf(st.mem, root)[v]
    BY <1>1, <2>2, <2>3, ViewGrows DEF Built, root
  <2>5. \A j \in 1 .. k : j \in 1 .. k - 1 \/ j = k
    BY <1>1
  <2>6. \A j \in 1 .. k - 1 : j \in 1 .. k
    BY <1>1
  <2>7. k \in 1 .. k
    BY <1>1
  <2>8. ASSUME NEW v \in UserVpns, \A j \in 1 .. k : v \notin Pages(SegmentArea(program[j]))
        PROVE  ViewOf(r.mem, root)[v] = "unmapped"
    BY <1>6, <2>1, <2>4, <2>6, <2>7, <2>8 DEF area, s
  <2>9. ASSUME NEW j \in 1 .. k, NEW v \in Pages(SegmentArea(program[j]))
        PROVE  ViewOf(r.mem, root)[v] = SegmentShows(program[j], v)
    <3>1. CASE j = k
      BY <1>5, <1>8, <2>4, <3>1 DEF area, s
    <3>2. CASE j \in 1 .. k - 1
      <4>1. v \notin Pages(area)
        BY <1>1, <1>7, <3>2
      <4>2. v \in UserVpns
        <5>1. IsArea(SegmentArea(program[j]))
          BY <1>7, <3>2, Segments
        <5> QED BY <5>1, AreaPages
      <4> QED BY <1>6, <2>1, <2>4, <3>2, <4>1, <4>2
    <3> QED BY <2>5, <3>1, <3>2
  <2> QED BY <2>3, <2>8, <2>9
<1>13. LoadedUpTo(m0, program, k, r)
  BY <1>11, <1>12 DEF LoadedUpTo
<1> QED BY <1>2, <1>13 DEF s

\* Loading a program.
LEMMA ProgramLoaded ==
  ASSUME NEW m0, IsMemory(m0), m0.fault \in {"none", "heap"}, NEW program \in Programs
  PROVE  LoadedUpTo(m0, program, Len(program), Load(NewSpace(m0), program))
<1> DEFINE n == Len(program)
<1>1. n \in Nat
  BY ProgramAssumption
<1>2. PICK run : /\ Load(NewSpace(m0), program) = run[n]
                 /\ run[0] = NewSpace(m0)
                 /\ \A k \in 1 .. n : run[k] = LoadSegment(run[k - 1], program[k])
  BY <1>1, LoadSteps
<1>3. LoadedUpTo(m0, program, 0, run[0])
  BY <1>2, NewSpaceBuilt DEF LoadedUpTo
<1>4. ASSUME NEW k \in 1 .. n, LoadedUpTo(m0, program, k - 1, run[k - 1])
      PROVE  LoadedUpTo(m0, program, k, run[k])
  BY <1>2, <1>4, SegmentLoaded
<1> DEFINE bad == {k \in 0 .. n : ~LoadedUpTo(m0, program, k, run[k])}
<1>5. bad = {}
  <2> SUFFICES ASSUME bad # {} PROVE FALSE
    OBVIOUS
  <2>1. PICK k \in bad : \A j \in bad : k <= j
    <3>1. bad \in SUBSET Nat
      BY <1>1
    <3> HIDE DEF bad
    <3> QED BY <3>1, MinMember
  <2>2. k \in 0 .. n /\ ~LoadedUpTo(m0, program, k, run[k])
    OBVIOUS
  <2> HIDE DEF n
  <2>3. k \in 1 .. n /\ k - 1 \in 0 .. n
    <3>1. k # 0
      BY <1>3, <2>2
    <3> QED BY <1>1, <2>2, <3>1
  <2>4. k - 1 \notin bad
    <3> HIDE DEF bad
    <3> QED BY <2>1, <2>3
  <2> QED BY <1>4, <2>2, <2>3, <2>4
<1> QED BY <1>1, <1>2, <1>5

----------------------------------------------------------------------------
\* A space that is ready: with the portal.

\* Since memory m0, st.space has been made, and has the portal of the kernel's k.
Complete(m0, k, st) ==
  LET root == st.space.root
  IN /\ IsMemory(st.mem) /\ IsUser(st.mem, root) /\ Kept(m0, st.mem, {})
     /\ \A f \in OwnTables(st.mem, root) : f >= m0.next
     /\ \A f \in OwnFrames(st.mem, root) : f >= m0.next
     /\ AreasRight(st.mem, root, st.space.areas)
     /\ st.space = [root |-> root, areas |-> st.space.areas]
     /\ PortalRight(st.mem, root, k)

\* What was there before includes the tables of the kernel's portal.
LEMMA KernelKept ==
  ASSUME NEW m, IsMemory(m), NEW k, KernelRight(m, k), NEW r, NEW T, Kept(m, r, T),
         KernelTables(m, k) \cap T = {}
  PROVE  /\ KernelTables(m, k) \subseteq DOMAIN m.table
         /\ Roots - 1 \in DOMAIN m.table[k.root]
         /\ r.table[k.root] = m.table[k.root] /\ KernelTables(r, k) = KernelTables(m, k)
         /\ HasEntry(r, k.root, PortalVpn) /\ Entry(r, k.root, PortalVpn) = Entry(m, k.root, PortalVpn)
<1>1. k.root \in DOMAIN m.table /\ Roots - 1 \in DOMAIN m.table[k.root]
  BY UserPages DEF KernelRight, IsTree, HasEntry
<1>2. Leaf(m, k.root, Roots - 1) \in DOMAIN m.table
  BY <1>1 DEF KernelRight, IsTree
<1>3. KernelTables(m, k) \subseteq DOMAIN m.table
  BY <1>1, <1>2 DEF KernelTables
<1>4. r.table[k.root] = m.table[k.root]
  BY <1>1 DEF Kept, KernelTables
<1>5. r.table[Leaf(m, k.root, Roots - 1)] = m.table[Leaf(m, k.root, Roots - 1)]
  BY <1>2 DEF Kept, KernelTables
<1>6. KernelTables(r, k) = KernelTables(m, k)
  BY <1>4 DEF KernelTables, Leaf
<1>7. /\ HasEntry(r, k.root, PortalVpn) <=> HasEntry(m, k.root, PortalVpn)
      /\ Entry(r, k.root, PortalVpn) = Entry(m, k.root, PortalVpn)
  BY <1>4, <1>5, UserPages DEF HasEntry, Entry, Leaf
<1> QED BY <1>1, <1>3, <1>4, <1>6, <1>7 DEF KernelRight

\* map_portal completes a space and changes nothing that a program sees.
LEMMA PortalMapped ==
  ASSUME NEW m0, IsMemory(m0), NEW k, KernelRight(m0, k), NEW st, Built(m0, st), Ok(st.mem)
  PROVE  LET r == MapPortal(st, k)
         IN /\ Ok(r.mem) /\ Complete(m0, k, r) /\ r.space = st.space
            /\ SameEntries(st.mem, st.space.root, r.mem, st.space.root)
            /\ ViewOf(r.mem, st.space.root) = ViewOf(st.mem, st.space.root)
<1> DEFINE m == st.mem
           root == st.space.root
           e == m.table[k.root][Roots - 1]
           n == SetEntry(m, root, Roots - 1, e)
           r == MapPortal(st, k)
<1>1. r.mem = n /\ r.space = st.space
  BY UserPages DEF MapPortal, WithMemory
<1>2. /\ IsMemory(m) /\ IsUser(m, root) /\ IsTree(m, root) /\ Kept(m0, m, {})
      /\ \A f \in OwnTables(m, root) : f >= m0.next
      /\ \A f \in OwnFrames(m, root) : f >= m0.next
      /\ AreasRight(m, root, st.space.areas)
      /\ st.space = [root |-> root, areas |-> st.space.areas]
      /\ Roots - 1 \notin DOMAIN m.table[root]
  BY DEF Built, IsUser
<1>3. /\ KernelTables(m0, k) \subseteq DOMAIN m0.table
      /\ Roots - 1 \in DOMAIN m0.table[k.root]
      /\ m.table[k.root] = m0.table[k.root] /\ KernelTables(m, k) = KernelTables(m0, k)
  BY <1>2, KernelKept
<1>4. /\ n.next = m.next /\ n.page = m.page /\ n.fault = m.fault /\ DOMAIN n = DOMAIN m
      /\ DOMAIN n.table = DOMAIN m.table
      /\ \A f \in DOMAIN m.table \ {root} : n.table[f] = m.table[f]
      /\ n.table[root] = Over([i \in {Roots - 1} |-> e], m.table[root])
  BY <1>2 DEF SetEntry, IsMemory, IsTree
<1>5. /\ DOMAIN n.table[root] = DOMAIN m.table[root] \cup {Roots - 1}
      /\ n.table[root][Roots - 1] = e
      /\ \A i \in DOMAIN m.table[root] : n.table[root][i] = m.table[root][i]
  BY <1>2, <1>4 DEF Over
<1> HIDE DEF n, e, r
<1>6. /\ m0.next \in Nat /\ \A f \in DOMAIN m0.table : f \in Nat /\ f < m0.next
      /\ \A f \in DOMAIN m0.table : f \in DOMAIN m.table
  BY <1>2 DEF IsMemory, Kept
<1>7. /\ k.root \in DOMAIN m0.table /\ e.ppn \in DOMAIN m0.table /\ root >= m0.next
      /\ e.ppn \in DOMAIN m.table \ {root}
      /\ k.root # root
  <2>1. e.ppn \in KernelTables(m, k) /\ k.root \in KernelTables(m, k)
    BY DEF KernelTables, Leaf, e
  <2>2. root >= m0.next
    BY <1>2 DEF OwnTables
  <2> QED BY <1>3, <1>6, <2>1, <2>2
<1>8. \A i \in DOMAIN m.table[root] : Leaf(n, root, i) = Leaf(m, root, i) /\ Leaf(m, root, i) # e.ppn
                                     /\ Leaf(m, root, i) \in DOMAIN m.table \ {root}
  <2>1. \A i \in DOMAIN m.table[root] : Leaf(m, root, i) >= m0.next
    BY <1>2 DEF OwnTables
  <2> QED BY <1>2, <1>5, <1>6, <1>7, <2>1 DEF IsTree, Leaf
<1>9. Leaf(n, root, Roots - 1) = e.ppn
  BY <1>5 DEF Leaf
<1>10. IsTree(n, root)
  <2>1. \A i, j \in DOMAIN m.table[root] : Leaf(n, root, i) = Leaf(n, root, j) => i = j
    BY <1>2, <1>8 DEF IsTree
  <2>2. \A i \in DOMAIN n.table[root] : i \in DOMAIN m.table[root] \/ i = Roots - 1
    BY <1>5
  <2> QED BY <1>2, <1>4, <1>7, <1>8, <1>9, <2>1, <2>2 DEF IsTree
<1>11. SameEntries(m, root, n, root)
  <2>1. ASSUME NEW v \in UserVpns
        PROVE  /\ HasEntry(n, root, v) <=> HasEntry(m, root, v)
               /\ HasEntry(m, root, v) => Entry(n, root, v) = Entry(m, root, v)
    <3>1. RootIndex(v) # Roots - 1
      BY UserPages
    <3>2. RootIndex(v) \in DOMAIN n.table[root] <=> RootIndex(v) \in DOMAIN m.table[root]
      BY <1>5, <3>1
    <3>3. ASSUME RootIndex(v) \in DOMAIN m.table[root]
          PROVE  /\ n.table[root][RootIndex(v)] = m.table[root][RootIndex(v)]
                 /\ n.table[m.table[root][RootIndex(v)].ppn] = m.table[m.table[root][RootIndex(v)].ppn]
      BY <1>4, <1>5, <1>8, <3>3 DEF Leaf
    <3> QED BY <3>2, <3>3 DEF HasEntry, Entry
  <2> QED BY <2>1 DEF SameEntries
<1>12. IsMemory(n)
  BY <1>2, <1>4 DEF IsMemory
<1>13. IsUser(n, root)
  <2>1. \A i \in DOMAIN n.table[root] \ {Roots - 1} :
          i \in 0 .. UserRoots - 1 /\ "OWNED" \in n.table[root][i].flags
    BY <1>2, <1>5 DEF IsUser
  <2>2. \A v \in UserVpns : HasEntry(n, root, v) =>
          "U" \in Entry(n, root, v).flags /\ Translate(n, root, v) \in DOMAIN n.page
    BY <1>2, <1>4, <1>11 DEF IsUser, SameEntries, Translate
  <2>3. \A v, w \in UserVpns :
          HasEntry(n, root, v) /\ HasEntry(n, root, w) /\ Translate(n, root, v) = Translate(n, root, w)
            => v = w
    BY <1>2, <1>11 DEF IsUser, SameEntries, Translate
  <2> QED BY <1>10, <2>1, <2>2, <2>3 DEF IsUser
<1>14. Kept(m0, n, {})
  <2>1. \A f \in DOMAIN m0.table : f # root
    BY <1>6, <1>7
  <2> QED BY <1>2, <1>4, <2>1 DEF Kept
<1>15. OwnTables(n, root) = OwnTables(m, root)
  BY <1>2, <1>5, <1>8 DEF OwnTables
<1>16. OwnFrames(n, root) = OwnFrames(m, root) /\ AreasRight(n, root, st.space.areas)
  BY <1>2, <1>11, EntriesDecide
<1>17. KernelTables(n, k) = KernelTables(m0, k) /\ n.table[k.root] = m0.table[k.root]
  BY <1>14, KernelKept
<1>18. PortalRight(n, root, k)
  <2>1. n.table[root][Roots - 1] = n.table[k.root][Roots - 1]
    BY <1>3, <1>5, <1>17 DEF e
  <2>2. \A f \in KernelTables(m0, k) : f \in Nat /\ f < m0.next
    BY <1>3, <1>6
  <2>3. OwnTables(n, root) \cap KernelTables(n, k) = {}
    BY <1>2, <1>6, <1>15, <1>17, <2>2
  <2> QED BY <1>5, <2>1, <2>3 DEF PortalRight
<1>19. Complete(m0, k, r)
  BY <1>1, <1>2, <1>12, <1>13, <1>14, <1>15, <1>16, <1>18 DEF Complete
<1>20. ViewOf(n, root) = ViewOf(m, root)
  BY <1>4, <1>11 DEF ViewOf, SameEntries, Translate
<1> QED BY <1>1, <1>4, <1>11, <1>19, <1>20 DEF r, Ok

\* What the image of a program holds: its segments and a stack.
LEMMA ImageShows ==
  ASSUME NEW program \in Programs, NEW v \in UserVpns
  PROVE  /\ v \in {StackTop - 2, StackTop - 1} => Image(program)[v] = Zero
         /\ v \notin {StackTop - 2, StackTop - 1} =>
              /\ \A j \in 1 .. Len(program) : v \in Pages(SegmentArea(program[j])) =>
                   Image(program)[v] = SegmentShows(program[j], v)
              /\ (\A j \in 1 .. Len(program) : v \notin Pages(SegmentArea(program[j]))) =>
                   Image(program)[v] = "unmapped"
<1> DEFINE of == {s \in ToSet(program) : v \in Pages(Area(s.start, s.end))}
           chosen == CHOOSE segment \in of : TRUE
<1>1. Image(program)[v] = IF v \in {StackTop - 2, StackTop - 1} THEN Zero
                          ELSE IF of = {} THEN "unmapped"
                          ELSE SegmentShows(chosen, v)
  BY Zenon DEF Image, SegmentShows
<1>2. ToSet(program) = {program[j] : j \in 1 .. Len(program)}
  BY ProgramAssumption DEF ToSet
<1>3. of = {s \in ToSet(program) : v \in Pages(SegmentArea(s))}
  BY DEF SegmentArea
<1> HIDE DEF of
<1>4. ASSUME NEW j \in 1 .. Len(program), v \in Pages(SegmentArea(program[j]))
      PROVE  of = {program[j]}
  <2>1. program[j] \in of
    BY <1>2, <1>3, <1>4
  <2>2. ASSUME NEW s \in of PROVE s = program[j]
    <3>1. PICK i \in 1 .. Len(program) : s = program[i] /\ v \in Pages(SegmentArea(program[i]))
      BY <1>2, <1>3
    <3>2. i # j => Pages(SegmentArea(program[i])) \cap Pages(SegmentArea(program[j])) = {}
      BY Segments, Zenon
    <3> QED BY <1>4, <3>1, <3>2
  <2> QED BY <2>1, <2>2
<1>5. \A j \in 1 .. Len(program) : v \in Pages(SegmentArea(program[j])) => chosen = program[j] /\ of # {}
  BY <1>4
<1>6. (\A j \in 1 .. Len(program) : v \notin Pages(SegmentArea(program[j]))) => of = {}
  BY <1>2, <1>3
<1> HIDE DEF chosen
<1> QED BY <1>1, <1>5, <1>6

\* The first stack: the last two pages of programs, in the middle of no root entry.
LEMMA FirstStack ==
  LET area == Stack(StackTop - 2)
  IN /\ IsArea(area) /\ area.start = StackTop - 2 /\ area.end - area.start = 2
     /\ \A v \in Int : v \in Pages(area) <=> v \in {StackTop - 2, StackTop - 1}
     /\ StackTop - 2 \in StackVpns
     /\ (StackTop - 2) % Width # 0 /\ (StackTop - 1) % Width # 0
<1> DEFINE area == Stack(StackTop - 2)
<1>1. StackTop \in Nat /\ StackTop >= 4 /\ Width \in Nat /\ Width >= 4 /\ UserRoots \in Nat
  BY UserPages, WidthAssumption, RootAssumption
<1>2. area.start = StackTop - 2 /\ area.end = StackTop /\ area \in [start : Nat, end : Nat]
  BY <1>1 DEF Stack, Area
<1>3. StackTop - 2 \in StackVpns
  BY <1>1 DEF StackVpns
<1>4. /\ StackTop - 2 = (UserRoots - 1) * Width + (Width - 2)
      /\ StackTop - 1 = (UserRoots - 1) * Width + (Width - 1)
  <2>1. (UserRoots - 1) * Width + Width = UserRoots * Width /\ (UserRoots - 1) * Width \in Int
    BY <1>1
  <2> QED BY <1>1, <2>1 DEF StackTop
<1>5. Slot((UserRoots - 1) * Width + (Width - 2)) = Width - 2
  <2>1. UserRoots - 1 \in Int /\ Width - 2 \in 0 .. Width - 1
    BY <1>1
  <2> QED BY <2>1, RootIndexOf
<1>6. Slot((UserRoots - 1) * Width + (Width - 1)) = Width - 1
  <2>1. UserRoots - 1 \in Int /\ Width - 1 \in 0 .. Width - 1
    BY <1>1
  <2> QED BY <2>1, RootIndexOf
<1>7. (StackTop - 2) % Width = Width - 2 /\ (StackTop - 1) % Width = Width - 1
  BY <1>4, <1>5, <1>6, Zenon DEF Slot
<1> HIDE DEF area
<1>8. IsArea(area)
  BY <1>1, <1>2 DEF IsArea
<1>9. \A v \in Int : v \in Pages(area) <=> v \in {StackTop - 2, StackTop - 1}
  BY <1>1, <1>2 DEF Pages
<1>10. area.end - area.start = 2
  BY <1>1, <1>2
<1>11. Width - 2 # 0 /\ Width - 1 # 0
  BY <1>1
<1> QED BY <1>2, <1>3, <1>7, <1>8, <1>9, <1>10, <1>11, Zenon DEF area

\* from_elf makes the program's image, with one stack, or the heap is too small.
LEMMA FromElfDoes ==
  ASSUME NEW m0, IsMemory(m0), m0.fault \in {"none", "heap"}, NEW k, KernelRight(m0, k),
         NEW program \in Programs
  PROVE  LET st == FromElf(m0, k, program)
         IN /\ st.mem.fault \in {"none", "heap"}
            /\ Ok(st.mem) => /\ Complete(m0, k, st)
                             /\ ViewOf(st.mem, st.space.root) = Image(program)
                             /\ StacksRight(st.mem, st.space.root, {StackTop - 2})
<1> DEFINE n == Len(program)
           loaded == Load(NewSpace(m0), program)
           area == Stack(StackTop - 2)
           contents == <<Zero, Zero>>
           built == NewStack(loaded, StackTop - 2)
           st == FromElf(m0, k, program)
           root == loaded.space.root
           InSegment(v) == \E j \in 1 .. n : v \in Pages(SegmentArea(program[j]))
<1>1. LoadedUpTo(m0, program, n, loaded)
  BY ProgramLoaded
<1>2. built = MapNew(loaded, area, contents, StackFlags) /\ st = MapPortal(built, k)
  BY DEF NewStack, FromElf
<1>3. /\ IsArea(area) /\ area.start = StackTop - 2 /\ area.end - area.start = 2
      /\ \A v \in Int : v \in Pages(area) <=> v \in {StackTop - 2, StackTop - 1}
      /\ StackTop - 2 \in StackVpns
      /\ (StackTop - 2) % Width # 0 /\ (StackTop - 1) % Width # 0
  BY FirstStack, Zenon
<1>4. \A v \in UserVpns : v \in Int
  BY UserPages
<1>5. StackTop \in Nat /\ StackTop >= 4
  <2>1. StackTop \in Nat /\ StackTop >= Width /\ Width >= 4 /\ Width \in Nat
    BY UserPages, WidthAssumption, Zenon
  <2> HIDE DEF area, contents, built, st, loaded, n
  <2> QED BY <2>1
<1>6. ASSUME NEW v \in UserVpns, InSegment(v)
      PROVE  v + 1 < StackTop - 2 /\ ~(v % Width = 0 /\ v - 1 \in StackVpns)
  <2>1. PICK j \in 1 .. n : v \in Pages(SegmentArea(program[j]))
    BY <1>6
  <2>2. /\ SegmentArea(program[j]).end < StackTop - 2
        /\ IsArea(SegmentArea(program[j]))
        /\ \A w \in Pages(SegmentArea(program[j])) : w % Width = 0 => w - 1 \notin StackVpns
    <3>1. SegmentArea(program[j]).end = program[j].end /\ program[j].end < StackTop - 2
      BY Segments, Zenon
    <3>2. /\ IsArea(SegmentArea(program[j]))
          /\ \A w \in Pages(SegmentArea(program[j])) : w % Width = 0 => w - 1 \notin StackVpns
      BY Segments, Zenon
    <3> QED BY <3>1, <3>2
  <2>3. v + 1 < StackTop - 2
    BY <1>4, <1>5, <2>1, <2>2 DEF Pages, IsArea
  <2> QED BY <2>1, <2>2, <2>3
<1> HIDE DEF area, contents, built, st, loaded, n
<1>7. Ok(loaded.mem) =>
        /\ Built(m0, loaded)
        /\ \A v \in UserVpns : ~InSegment(v) => ViewOf(loaded.mem, root)[v] = "unmapped"
        /\ \A j \in 1 .. n : \A v \in Pages(SegmentArea(program[j])) :
             ViewOf(loaded.mem, root)[v] = SegmentShows(program[j], v)
  BY <1>1 DEF LoadedUpTo
<1>8. Ok(loaded.mem) => \A v \in UserVpns : HasEntry(loaded.mem, root, v) => InSegment(v)
  BY <1>7, ViewMapped DEF Built
<1>9. Ok(loaded.mem) => \A v \in Pages(area) : ~HasEntry(loaded.mem, root, v)
  <2>1. \A v \in Pages(area) : v \in UserVpns /\ ~(v + 1 < StackTop - 2)
    BY <1>3, <1>4, <1>5, AreaPages
  <2> QED BY <1>6, <1>8, <2>1
<1>10. built.mem.fault \in {"none", "heap"}
  <2>1. Ok(loaded.mem) => IsMemory(loaded.mem) /\ IsUser(loaded.mem, root) /\ IsArea(area)
    BY <1>3, <1>7 DEF Built
  <2>2. loaded.mem.fault \in {"none", "heap"}
    BY <1>1 DEF LoadedUpTo
  <2> QED BY <1>2, <1>9, <2>1, <2>2, OnlyHeapFails
<1>11. ~Ok(built.mem) => st.mem = built.mem
  BY <1>2 DEF MapPortal
<1>12. ASSUME Ok(built.mem)
       PROVE  /\ Ok(st.mem) /\ Complete(m0, k, st)
              /\ ViewOf(st.mem, st.space.root) = Image(program)
              /\ StacksRight(st.mem, st.space.root, {StackTop - 2})
  <2>1. Ok(loaded.mem)
    <3>1. built.mem = IF MapperFails(AllocPages(loaded.mem, contents), root, area)
                      THEN Failed(AllocPages(loaded.mem, contents), "assertion")
                      ELSE Mapper(AllocPages(loaded.mem, contents), root, area, loaded.mem.next, StackFlags)
      BY <1>2 DEF MapNew, MapExtern, WithMemory
    <3>2. Ok(AllocPages(loaded.mem, contents))
      BY <1>12, <3>1 DEF MapperFails, Failed, Ok
    <3> QED BY <3>2 DEF AllocPages, Failed, Ok
  <2>2. "U" \in StackFlags /\ Len(contents) = area.end - area.start
        /\ \A i \in 1 .. Len(contents) : contents[i] = Zero /\ Zero # "unmapped"
    BY <1>3, ContentsAssumption DEF StackFlags, contents
  <2>3. Built(m0, loaded)
    BY <1>7, <2>1
  <2>4. Built(m0, built) /\ built.space.root = root
        /\ Grown(loaded.mem, built.mem, root, area, contents)
    BY <1>2, <1>3, <1>12, <2>2, <2>3, BuiltGrows
  <2>5. \A v \in UserVpns :
          /\ v \in Pages(area) => ViewOf(built.mem, root)[v] = Zero
          /\ v \notin Pages(area) => ViewOf(built.mem, root)[v] = ViewOf(loaded.mem, root)[v]
    <3>1. \A v \in UserVpns :
            ViewOf(built.mem, root)[v] = IF v \in Pages(area) THEN contents[v - area.start + 1]
                                         ELSE ViewOf(loaded.mem, root)[v]
      BY <1>3, <2>3, <2>4, ViewGrows DEF Built
    <3>2. \A v \in Pages(area) : v - area.start + 1 \in 1 .. Len(contents)
      BY <1>3, <2>2, AreaPages
    <3> QED BY <2>2, <3>1, <3>2
  <2>6. \A v \in UserVpns : HasEntry(built.mem, root, v) => InSegment(v) \/ v \in Pages(area)
    BY <1>8, <2>1, <2>4 DEF Grown
  <2>7. ViewOf(built.mem, root) = Image(program)
    <3>1. ASSUME NEW v \in UserVpns PROVE ViewOf(built.mem, root)[v] = Image(program)[v]
      <4>1. CASE v \in {StackTop - 2, StackTop - 1}
        BY <1>3, <1>4, <2>5, <4>1, ImageShows
      <4>2. CASE v \notin {StackTop - 2, StackTop - 1}
        <5>1. ViewOf(built.mem, root)[v] = ViewOf(loaded.mem, root)[v]
          BY <1>3, <1>4, <2>5, <4>2
        <5>2. /\ \A j \in 1 .. n : v \in Pages(SegmentArea(program[j])) =>
                   Image(program)[v] = SegmentShows(program[j], v)
              /\ ~InSegment(v) => Image(program)[v] = "unmapped"
          BY <4>2, ImageShows DEF n
        <5> QED BY <1>7, <2>1, <5>1, <5>2
      <4> QED BY <4>1, <4>2
    <3>2. ViewOf(built.mem, root) = [v \in UserVpns |-> ViewOf(built.mem, root)[v]]
      BY DEF ViewOf
    <3>3. Image(program) = [v \in UserVpns |-> Image(program)[v]]
      BY DEF Image
    <3> QED BY <3>1, <3>2, <3>3
  <2>8. StacksRight(built.mem, root, {StackTop - 2})
    <3>1. ASSUME NEW v \in UserVpns, v + 1 = StackTop - 2 PROVE ~HasEntry(built.mem, root, v)
      <4>1. v \notin Pages(area)
        BY <1>3, <1>4, <1>5, <3>1
      <4>2. ~InSegment(v)
        BY <1>4, <1>5, <1>6, <3>1
      <4> QED BY <2>6, <4>1, <4>2
    <3>2. ASSUME NEW v \in UserVpns, HasEntry(built.mem, root, v), v % Width = 0, v - 1 \in StackVpns
          PROVE  FALSE
      <4>1. ~InSegment(v)
        BY <1>6, <3>2
      <4>2. v \in {StackTop - 2, StackTop - 1}
        BY <1>3, <1>4, <2>6, <3>2, <4>1
      <4> QED BY <1>3, <3>2, <4>2
    <3>3. \A v \in UserVpns : v + 1 \in {StackTop - 2} \cup {StackTop - 2} => ~HasEntry(built.mem, root, v)
      BY <3>1
    <3> QED BY <1>3, <3>2, <3>3 DEF StacksRight
  <2>9. /\ Ok(st.mem) /\ Complete(m0, k, st) /\ st.space = built.space
        /\ SameEntries(built.mem, root, st.mem, root)
        /\ ViewOf(st.mem, root) = ViewOf(built.mem, root)
    BY <1>2, <1>12, <2>4, PortalMapped
  <2>10. StacksRight(st.mem, root, {StackTop - 2})
    BY <2>8, <2>9, EntriesDecide
  <2> QED BY <2>4, <2>7, <2>9, <2>10
<1>13. Ok(st.mem) => Ok(built.mem)
  BY <1>11
<1>14. st.mem.fault \in {"none", "heap"}
  BY <1>10, <1>11, <1>12 DEF Ok
<1> QED BY <1>12, <1>13, <1>14 DEF st

----------------------------------------------------------------------------
\* cloneself.

\* The first k areas are copied and nothing else, or the heap was too small.
ClonedUpTo(m0, src, k, st) ==
  /\ st.mem.fault \in {"none", "heap"}
  /\ Ok(st.mem) =>
       /\ Built(m0, st)
       /\ \A v \in UserVpns :
            ViewOf(st.mem, st.space.root)[v] =
              IF \E j \in 1 .. k : v \in Pages(src.areas[j]) THEN ViewOf(m0, src.root)[v] ELSE "unmapped"

\* Copying an area, the frames of which follow that of its first page.
LEMMA AreaCloned ==
  ASSUME NEW m0, IsMemory(m0), NEW src, IsUser(m0, src.root), AreasRight(m0, src.root, src.areas),
         NEW k \in 1 .. Len(src.areas), NEW st, ClonedUpTo(m0, src, k - 1, st)
  PROVE  ClonedUpTo(m0, src, k, CloneArea(st, src, src.areas[k]))
<1> DEFINE area == src.areas[k]
           r == CloneArea(st, src, area)
           pte == Entry(st.mem, src.root, area.start)
           n == area.end - area.start
           copy == [i \in 1 .. n |-> Contents(st.mem, pte.ppn + i - 1)]
           flags == pte.flags \cup {"OWNED"}
           root == st.space.root
           from == ViewOf(m0, src.root)
           Before(v) == \E j \in 1 .. k - 1 : v \in Pages(src.areas[j])
<1>1. /\ Len(src.areas) \in Nat /\ DOMAIN src.areas = 1 .. Len(src.areas)
      /\ IsArea(area) /\ k \in Nat
  BY DEF AreasRight
<1>2. /\ \A v \in Pages(area) : HasEntry(m0, src.root, v) /\ v \in UserVpns
      /\ \A v \in Pages(area) :
           Translate(m0, src.root, v) = Translate(m0, src.root, area.start) + v - area.start
      /\ \A j \in 1 .. k - 1 : \A v \in Pages(src.areas[j]) : v \notin Pages(area)
  <2>1. \A j \in 1 .. k - 1 : j \in DOMAIN src.areas /\ j # k
    BY <1>1
  <2>2. \A v \in Pages(area) : v \in UserVpns
    BY <1>1, AreaPages
  <2> QED BY <1>1, <2>1, <2>2 DEF AreasRight
<1>3. /\ area.start \in Pages(area) /\ area.start \in Nat /\ area.end \in Nat /\ n \in Nat
      /\ \A v \in Pages(area) : v \in Nat /\ v - area.start + 1 \in 1 .. n
      /\ \A i \in 1 .. n : area.start + i - 1 \in Pages(area)
  <2> HIDE DEF area
  <2>1. area.start \in Nat /\ area.end \in Nat /\ area.start < area.end
    BY <1>1 DEF IsArea
  <2> QED BY <2>1 DEF Pages
<1>4. ClonedUpTo(m0, src, k - 1, st) /\ st.mem.fault \in {"none", "heap"}
  BY DEF ClonedUpTo
<1>5. Ok(st.mem) =>
        /\ Built(m0, st)
        /\ \A v \in UserVpns : ViewOf(st.mem, root)[v] = IF Before(v) THEN from[v] ELSE "unmapped"
  BY DEF ClonedUpTo
<1> HIDE DEF area, from
<1>6. ASSUME Ok(st.mem)
      PROVE  /\ r = MapNew(st, area, copy, flags)
             /\ "U" \in flags /\ Len(copy) = n
             /\ \A i \in 1 .. n : copy[i] # "unmapped"
             /\ \A v \in Pages(area) : copy[v - area.start + 1] = from[v]
  <2>1. /\ IsMemory(st.mem) /\ Kept(m0, st.mem, {})
    BY <1>5, <1>6 DEF Built
  <2>2. /\ SameEntries(m0, src.root, st.mem, src.root)
        /\ \A v \in UserVpns : HasEntry(m0, src.root, v) =>
             LET f == Translate(m0, src.root, v)
             IN f \in DOMAIN m0.page /\ f \in DOMAIN st.mem.page /\ st.mem.page[f] = m0.page[f]
    <3>1. OwnTables(m0, src.root) \cap {} = {}
      OBVIOUS
    <3> QED BY <2>1, <3>1, SpaceKept
  <2>3. HasEntry(st.mem, src.root, area.start) /\ pte = Entry(m0, src.root, area.start)
    BY <1>2, <1>3, <2>2 DEF SameEntries
  <2>4. r = MapNew(st, area, copy, flags)
    BY <2>3 DEF CloneArea
  <2>5. "U" \in flags
    BY <1>2, <1>3, <2>3 DEF IsUser
  <2>6. ASSUME NEW v \in Pages(area)
        PROVE  /\ Contents(st.mem, pte.ppn + v - area.start) = from[v]
               /\ from[v] # "unmapped"
    <3>1. v \in UserVpns /\ HasEntry(m0, src.root, v)
      BY <1>2
    <3>2. Translate(m0, src.root, v) = pte.ppn + v - area.start
      BY <1>2, <2>3 DEF Translate
    <3>3. /\ pte.ppn + v - area.start \in DOMAIN st.mem.page
          /\ st.mem.page[pte.ppn + v - area.start] = m0.page[Translate(m0, src.root, v)]
      BY <2>2, <3>1, <3>2
    <3>4. from[v] = m0.page[Translate(m0, src.root, v)]
      BY <3>1 DEF from, ViewOf
    <3>5. from[v] # "unmapped"
      BY <3>1, ViewMapped DEF from
    <3> QED BY <3>3, <3>4, <3>5 DEF Contents
  <2>7. pte.ppn \in Int
    <3>1. Translate(m0, src.root, area.start) \in DOMAIN m0.page
      BY <1>2, <1>3 DEF IsUser
    <3> QED BY <2>3, <3>1 DEF IsMemory, Translate
  <2>8. \A v \in Pages(area) : copy[v - area.start + 1] = from[v]
    <3>1. ASSUME NEW v \in Pages(area) PROVE copy[v - area.start + 1] = from[v]
      <4>1. v \in Nat /\ v - area.start + 1 \in 1 .. n
        BY <1>3
      <4>2. copy[v - area.start + 1] = Contents(st.mem, pte.ppn + (v - area.start + 1) - 1)
        BY <4>1
      <4>3. pte.ppn + (v - area.start + 1) - 1 = pte.ppn + v - area.start
        <5> HIDE DEF pte
        <5> QED BY <1>3, <2>7, <4>1
      <4> QED BY <2>6, <4>2, <4>3
    <3> QED BY <3>1
  <2>9. \A i \in 1 .. n : copy[i] # "unmapped"
    <3>1. ASSUME NEW i \in 1 .. n PROVE copy[i] # "unmapped"
      <4>1. area.start + i - 1 \in Pages(area)
        BY <1>3
      <4>2. (area.start + i - 1) - area.start + 1 = i
        <5> HIDE DEF n
        <5> QED BY <1>3
      <4> QED BY <2>6, <2>8, <4>1, <4>2
    <3> QED BY <3>1
  <2>10. Len(copy) = n
    BY <1>3
  <2> QED BY <2>4, <2>5, <2>8, <2>9, <2>10
<1>7. ~Ok(st.mem) => r.mem.fault = st.mem.fault
  <2>1. ASSUME ~Ok(st.mem), NEW pages, NEW f PROVE MapNew(st, area, pages, f).mem.fault = st.mem.fault
    <3> DEFINE a == AllocPages(st.mem, pages)
    <3>1. MapNew(st, area, pages, f).mem = IF MapperFails(a, root, area) THEN Failed(a, "assertion")
                                           ELSE Mapper(a, root, area, st.mem.next, f)
      BY DEF MapNew, MapExtern, WithMemory
    <3>2. a.fault = st.mem.fault
      BY <2>1 DEF AllocPages, Failed, Ok
    <3>3. MapperFails(a, root, area) /\ Failed(a, "assertion") = a
      BY <2>1, <3>2 DEF MapperFails, Failed, Ok
    <3> QED BY <3>1, <3>2, <3>3
  <2>2. ~Ok(st.mem) => Fails(st).mem.fault = st.mem.fault
    BY DEF Fails, WithMemory, Failed
  <2> QED BY <2>1, <2>2 DEF CloneArea
<1> HIDE DEF r, copy, flags, pte, root
<1>8. Ok(st.mem) => \A v \in Pages(area) : ~HasEntry(st.mem, root, v)
  <2>1. \A v \in Pages(area) : ~Before(v)
    BY <1>2
  <2> HIDE DEF Before
  <2> QED BY <1>2, <1>5, <2>1, ViewMapped DEF Built, root
<1>9. r.mem.fault \in {"none", "heap"}
  <2>1. CASE Ok(st.mem)
    <3>1. IsMemory(st.mem) /\ IsUser(st.mem, root) /\ IsArea(area)
      BY <1>1, <1>5, <2>1 DEF Built, root
    <3> QED BY <1>4, <1>6, <1>8, <2>1, <3>1, OnlyHeapFails DEF root
  <2>2. CASE ~Ok(st.mem)
    BY <1>4, <1>7, <2>2
  <2> QED BY <2>1, <2>2
<1>10. ASSUME Ok(r.mem)
       PROVE  /\ Built(m0, r)
              /\ \A v \in UserVpns :
                   ViewOf(r.mem, r.space.root)[v] =
                     IF \E j \in 1 .. k : v \in Pages(src.areas[j]) THEN from[v] ELSE "unmapped"
  <2>1. Ok(st.mem)
    BY <1>7, <1>10 DEF Ok
  <2>2. Built(m0, r) /\ r.space.root = root /\ Grown(st.mem, r.mem, root, area, copy)
    <3>1. Built(m0, st)
      BY <1>5, <2>1
    <3>2. Len(copy) = area.end - area.start /\ \A i \in 1 .. Len(copy) : copy[i] # "unmapped"
      BY <1>6, <2>1 DEF n
    <3>3. r = MapNew(st, area, copy, flags) /\ "U" \in flags
      BY <1>6, <2>1
    <3>4. Ok(MapNew(st, area, copy, flags).mem)
      BY <1>10, <3>3
    <3> QED BY <1>1, <3>1, <3>2, <3>3, <3>4, BuiltGrows DEF root
  <2>3. \A v \in UserVpns :
          /\ v \in Pages(area) => ViewOf(r.mem, root)[v] = from[v]
          /\ v \notin Pages(area) => ViewOf(r.mem, root)[v] = ViewOf(st.mem, root)[v]
    <3>1. IsUser(st.mem, root)
      BY <1>5, <2>1 DEF Built, root
    <3>2. \A v \in UserVpns :
            ViewOf(r.mem, root)[v] = IF v \in Pages(area) THEN copy[v - area.start + 1]
                                     ELSE ViewOf(st.mem, root)[v]
      BY <1>1, <2>2, <3>1, ViewGrows
    <3> QED BY <1>6, <2>1, <3>2
  <2>4. \A v : (\E j \in 1 .. k : v \in Pages(src.areas[j])) <=> Before(v) \/ v \in Pages(area)
    <3>1. \A j \in 1 .. k : j \in 1 .. k - 1 \/ j = k
      BY <1>1
    <3>2. k \in 1 .. k /\ \A j \in 1 .. k - 1 : j \in 1 .. k
      BY <1>1
    <3> QED BY <3>1, <3>2 DEF area
  <2>5. \A v \in UserVpns : ViewOf(st.mem, root)[v] = IF Before(v) THEN from[v] ELSE "unmapped"
    BY <1>5, <2>1
  <2> HIDE DEF Before
  <2> QED BY <2>2, <2>3, <2>4, <2>5
<1>11. ClonedUpTo(m0, src, k, r)
  BY <1>9, <1>10 DEF ClonedUpTo, from
<1> QED BY <1>11 DEF r, area

\* fork makes a copy of a space, or the heap is too small.
LEMMA CloneDoes ==
  ASSUME NEW m0, IsMemory(m0), m0.fault \in {"none", "heap"}, NEW k, KernelRight(m0, k),
         NEW src, IsUser(m0, src.root), AreasRight(m0, src.root, src.areas),
         NEW threads, StacksRight(m0, src.root, threads)
  PROVE  LET st == MapPortal(CloneSelf(src, NewSpace(m0)), k)
         IN /\ st.mem.fault \in {"none", "heap"}
            /\ Ok(st.mem) => /\ Complete(m0, k, st)
                             /\ ViewOf(st.mem, st.space.root) = ViewOf(m0, src.root)
                             /\ StacksRight(st.mem, st.space.root, {StackTop - 2})
<1> DEFINE n == Len(src.areas)
           built == CloneSelf(src, NewSpace(m0))
           st == MapPortal(built, k)
           root == built.space.root
           from == ViewOf(m0, src.root)
<1>1. n \in Nat /\ DOMAIN src.areas = 1 .. n
  BY DEF AreasRight
<1>2. PICK run : /\ built = run[n]
                 /\ run[0] = NewSpace(m0)
                 /\ \A j \in 1 .. n : run[j] = CloneArea(run[j - 1], src, src.areas[j])
  BY <1>1, CloneSteps
<1>3. ClonedUpTo(m0, src, 0, run[0])
  BY <1>2, NewSpaceBuilt DEF ClonedUpTo
<1>4. ASSUME NEW j \in 1 .. n, ClonedUpTo(m0, src, j - 1, run[j - 1])
      PROVE  ClonedUpTo(m0, src, j, run[j])
  BY <1>2, <1>4, AreaCloned
<1> DEFINE bad == {j \in 0 .. n : ~ClonedUpTo(m0, src, j, run[j])}
<1>5. bad = {}
  <2> SUFFICES ASSUME bad # {} PROVE FALSE
    OBVIOUS
  <2>1. PICK j \in bad : \A i \in bad : j <= i
    <3>1. bad \in SUBSET Nat
      BY <1>1
    <3> HIDE DEF bad
    <3> QED BY <3>1, MinMember
  <2>2. j \in 0 .. n /\ ~ClonedUpTo(m0, src, j, run[j])
    OBVIOUS
  <2> HIDE DEF n
  <2>3. j \in 1 .. n /\ j - 1 \in 0 .. n
    <3>1. j # 0
      BY <1>3, <2>2
    <3> QED BY <1>1, <2>2, <3>1
  <2>4. j - 1 \notin bad
    <3> HIDE DEF bad
    <3> QED BY <2>1, <2>3
  <2> QED BY <1>4, <2>2, <2>3, <2>4
<1>6. ClonedUpTo(m0, src, n, built)
  BY <1>1, <1>2, <1>5
<1> HIDE DEF n, built, st, from
<1>7. ~Ok(built.mem) => st.mem = built.mem
  BY DEF MapPortal, st
<1>8. ASSUME Ok(built.mem)
      PROVE  /\ Ok(st.mem) /\ Complete(m0, k, st)
             /\ ViewOf(st.mem, st.space.root) = from
             /\ StacksRight(st.mem, st.space.root, {StackTop - 2})
  <2>1. Built(m0, built)
    BY <1>6, <1>8 DEF ClonedUpTo
  <2>2. \A v \in UserVpns : ViewOf(built.mem, root)[v] = from[v]
    <3>1. ASSUME NEW v \in UserVpns PROVE ViewOf(built.mem, root)[v] = from[v]
      <4>1. ViewOf(built.mem, root)[v] =
              IF \E j \in 1 .. n : v \in Pages(src.areas[j]) THEN from[v] ELSE "unmapped"
        BY <1>6, <1>8 DEF ClonedUpTo, from
      <4>2. (\E j \in 1 .. n : v \in Pages(src.areas[j])) <=> HasEntry(m0, src.root, v)
        BY <1>1 DEF AreasRight
      <4>3. ~HasEntry(m0, src.root, v) => from[v] = "unmapped"
        BY DEF from, ViewOf
      <4> QED BY <4>1, <4>2, <4>3
    <3> QED BY <3>1
  <2>3. ViewOf(built.mem, root) = from
    <3>1. ViewOf(built.mem, root) = [v \in UserVpns |-> ViewOf(built.mem, root)[v]]
      BY DEF ViewOf
    <3>2. from = [v \in UserVpns |-> from[v]]
      BY DEF from, ViewOf
    <3> QED BY <2>2, <3>1, <3>2
  <2>4. /\ Ok(st.mem) /\ Complete(m0, k, st) /\ st.space = built.space
        /\ ViewOf(st.mem, root) = ViewOf(built.mem, root)
    BY <1>8, <2>1, PortalMapped DEF st
  <2>5. \A v \in UserVpns : HasEntry(st.mem, root, v) <=> HasEntry(m0, src.root, v)
    <3>1. IsMemory(st.mem) /\ IsUser(st.mem, root)
      BY <2>4 DEF Complete
    <3>2. ASSUME NEW v \in UserVpns PROVE HasEntry(st.mem, root, v) <=> HasEntry(m0, src.root, v)
      <4>1. HasEntry(st.mem, root, v) <=> ViewOf(st.mem, root)[v] # "unmapped"
        BY <3>1, ViewMapped
      <4>2. HasEntry(m0, src.root, v) <=> from[v] # "unmapped"
        BY ViewMapped DEF from
      <4> QED BY <2>3, <2>4, <4>1, <4>2
    <3> QED BY <3>2
  <2>6. StacksRight(st.mem, root, {StackTop - 2})
    <3>1. StackTop - 2 \in StackVpns
      BY FirstStack, Zenon
    <3>2. \A v \in UserVpns : v + 1 \in {StackTop - 2} \cup {StackTop - 2} => ~HasEntry(st.mem, root, v)
      BY <2>5 DEF StacksRight
    <3>3. \A v \in UserVpns : v - 1 \in StackVpns => v - 1 \in UserVpns
      BY UserPages DEF StackVpns, UserVpns
    <3>4. \A v \in UserVpns : HasEntry(st.mem, root, v) /\ v % Width = 0 /\ v - 1 \in StackVpns
            => HasEntry(st.mem, root, v - 1)
      BY <2>5, <3>3 DEF StacksRight
    <3> QED BY <3>1, <3>2, <3>4 DEF StacksRight
  <2> QED BY <2>3, <2>4, <2>6
<1>9. st.mem.fault \in {"none", "heap"}
  BY <1>6, <1>7, <1>8 DEF ClonedUpTo, Ok
<1> QED BY <1>7, <1>8, <1>9 DEF st, built, from, Ok

----------------------------------------------------------------------------
\* thread_create.

\* The page below one in the middle of a root entry is under the same entry.
LEMMA PageBefore ==
  ASSUME NEW v \in Int, v % Width # 0
  PROVE  RootIndex(v - 1) = RootIndex(v)
<1>1. RootIndex(v) \in Int /\ Slot(v) \in 0 .. Width - 1 /\ v = RootIndex(v) * Width + Slot(v)
  BY PageNumbers
<1>2. Slot(v) - 1 \in 0 .. Width - 1 /\ Width \in Nat
  BY <1>1, WidthAssumption DEF Slot
<1>3. v - 1 = RootIndex(v) * Width + (Slot(v) - 1)
  <2>1. RootIndex(v) * Width \in Int
    BY <1>1, <1>2
  <2> QED BY <1>1, <1>2, <2>1
<1>4. RootIndex(RootIndex(v) * Width + (Slot(v) - 1)) = RootIndex(v)
  BY <1>1, <1>2, RootIndexOf
<1> QED BY <1>3, <1>4, Zenon

\* The pages the search tries: two for each stack and one between, at least one
\* under each root entry, and none at its start but with another above.
LEMMA StackSearch ==
  /\ \A v \in StackVpns : /\ v \in UserVpns /\ v + 1 \in UserVpns
                          /\ IsArea(Stack(v)) /\ Stack(v).start = v /\ Stack(v).end - Stack(v).start = 2
                          /\ \A w \in Int : w \in Pages(Stack(v)) <=> w \in {v, v + 1}
  /\ \A v, w \in StackVpns : v # w => v + 2 < w \/ w + 2 < v
  /\ \A i \in 0 .. UserRoots - 1 : \E v \in StackVpns : RootIndex(v) = i
  /\ \A v \in StackVpns : v % Width = 0 => v + 3 \in StackVpns /\ RootIndex(v + 3) = RootIndex(v)
<1>1. StackTop \in Nat /\ StackTop >= 4 /\ Width \in Nat /\ Width >= 4 /\ UserRoots \in Nat
  <2>1. StackTop \in Nat /\ StackTop >= Width /\ Width >= 4 /\ Width \in Nat /\ UserRoots \in Nat
    BY UserPages, WidthAssumption, RootAssumption, Zenon
  <2> QED BY <2>1
<1>2. ASSUME NEW v \in StackVpns
      PROVE  /\ v \in UserVpns /\ v + 1 \in UserVpns
             /\ IsArea(Stack(v)) /\ Stack(v).start = v /\ Stack(v).end - Stack(v).start = 2
             /\ \A w \in Int : w \in Pages(Stack(v)) <=> w \in {v, v + 1}
  <2>1. v \in Nat /\ v + 2 <= StackTop
    BY <1>1 DEF StackVpns
  <2>2. Stack(v).start = v /\ Stack(v).end = v + 2 /\ Stack(v) \in [start : Nat, end : Nat]
    BY <2>1 DEF Stack, Area
  <2>3. IsArea(Stack(v))
    BY <1>1, <2>1, <2>2 DEF IsArea
  <2>4. \A w \in Int : w \in Pages(Stack(v)) <=> w \in {v, v + 1}
    BY <2>1, <2>2 DEF Pages
  <2>5. v \in UserVpns /\ v + 1 \in UserVpns
    BY <1>1, <2>1 DEF UserVpns
  <2> QED BY <2>1, <2>2, <2>3, <2>4, <2>5
<1>3. ASSUME NEW v \in StackVpns, NEW w \in StackVpns, v # w PROVE v + 2 < w \/ w + 2 < v
  BY <1>1, <1>3 DEF StackVpns
<1>4. ASSUME NEW i \in 0 .. UserRoots - 1 PROVE \E v \in StackVpns : RootIndex(v) = i
  <2>1. i * Width + Width <= UserRoots * Width /\ i * Width \in Int /\ i * Width >= 0
    <3>1. i < UserRoots /\ i \in Int /\ UserRoots \in Int
      BY <1>1
    <3>2. i * Width + Width <= UserRoots * Width
      BY <3>1, WholeEntries
    <3>3. i * Width \in Int /\ i * Width >= 0
      <4>1. CASE i = 0
        BY <1>1, <4>1
      <4>2. CASE i # 0
        <5>1. 0 < i /\ 0 \in Int
          BY <4>2
        <5>2. 0 * Width + Width <= i * Width
          BY <3>1, <5>1, WholeEntries
        <5>3. 0 * Width = 0 /\ i * Width \in Int
          BY <1>1
        <5> QED BY <1>1, <5>2, <5>3
      <4> QED BY <4>1, <4>2
    <3> QED BY <3>2, <3>3
  <2>2. PICK s \in {0, 1, 2} : i * Width + s \in StackVpns
    <3>1. \A a \in Int : a >= 0 /\ a + 4 <= StackTop => \E s \in {0, 1, 2} : a + s \in StackVpns
      <4>1. ASSUME NEW a \in Int, a >= 0, a + 4 <= StackTop PROVE \E s \in {0, 1, 2} : a + s \in StackVpns
        <5>1. \/ (StackTop - 2 - a) % 3 = 0
              \/ (StackTop - 2 - (a + 1)) % 3 = 0
              \/ (StackTop - 2 - (a + 2)) % 3 = 0
          BY <1>1
        <5>2. a + 0 = a /\ a \in 0 .. StackTop - 2 /\ a + 1 \in 0 .. StackTop - 2 /\ a + 2 \in 0 .. StackTop - 2
          BY <1>1, <4>1
        <5> QED BY <5>1, <5>2 DEF StackVpns
      <4> QED BY <4>1
    <3>2. i * Width + 4 <= StackTop
      BY <1>1, <2>1 DEF StackTop
    <3> QED BY <2>1, <3>1, <3>2
  <2>3. i \in Int /\ s \in 0 .. Width - 1
    BY <1>1
  <2>4. RootIndex(i * Width + s) = i
    BY <2>3, RootIndexOf
  <2> QED BY <2>2, <2>4
<1>5. ASSUME NEW v \in StackVpns, v % Width = 0
      PROVE  v + 3 \in StackVpns /\ RootIndex(v + 3) = RootIndex(v)
  <2>1. v # StackTop - 2
    BY <1>5, FirstStack, Zenon
  <2>2. v \in Nat /\ v + 3 \in StackVpns
    BY <1>1, <2>1 DEF StackVpns
  <2>3. RootIndex(v) \in Int /\ v = RootIndex(v) * Width + 0
    <3>1. RootIndex(v) \in Int /\ v = RootIndex(v) * Width + Slot(v) /\ Slot(v) = 0
      BY <1>5, <2>2, PageNumbers DEF Slot
    <3> QED BY <3>1
  <2>4. v + 3 = RootIndex(v) * Width + 3
    <3>1. RootIndex(v) * Width \in Int
      BY <1>1, <2>3
    <3> QED BY <2>2, <2>3, <3>1
  <2>5. 3 \in 0 .. Width - 1
    BY <1>1
  <2>6. RootIndex(RootIndex(v) * Width + 3) = RootIndex(v)
    BY <2>3, <2>5, RootIndexOf
  <2> QED BY <2>2, <2>4, <2>6, Zenon
<1> QED BY <1>2, <1>3, <1>4, <1>5

\* A new thread's stack, at the highest page under a root entry that is free.
LEMMA StackDoes ==
  ASSUME NEW m, IsMemory(m), Ok(m), NEW s, IsUser(m, s.root), AreasRight(m, s.root, s.areas),
         NEW threads, StacksRight(m, s.root, threads),
         NEW v \in StackVpns, RootIndex(v) \notin DOMAIN m.table[s.root],
         \A w \in StackVpns : RootIndex(w) \notin DOMAIN m.table[s.root] => w <= v
  PROVE  LET st == NewStack([mem |-> m, space |-> s], v)
         IN /\ st.mem.fault \in {"none", "heap"}
            /\ Ok(st.mem) => /\ st.space.root = s.root
                             /\ Grown(m, st.mem, s.root, Stack(v), <<Zero, Zero>>)
                             /\ AreasRight(st.mem, s.root, st.space.areas)
                             /\ StacksRight(st.mem, s.root, threads \cup {v})
<1> DEFINE root == s.root
           area == Stack(v)
           contents == <<Zero, Zero>>
           before == [mem |-> m, space |-> s]
           st == NewStack(before, v)
<1>1. st = MapNew(before, area, contents, StackFlags) /\ before.mem = m /\ before.space = s
  BY DEF NewStack
<1>2. /\ v \in UserVpns /\ v + 1 \in UserVpns /\ v \in Nat
      /\ IsArea(area) /\ area.start = v /\ area.end - area.start = 2
      /\ \A w \in Int : w \in Pages(area) <=> w \in {v, v + 1}
      /\ \A w \in UserVpns : w \in Int
  BY StackSearch, UserPages
<1>3. ~HasEntry(m, root, v) /\ \A w : RootIndex(w) = RootIndex(v) => ~HasEntry(m, root, w)
  BY DEF HasEntry
<1>4. ~HasEntry(m, root, v + 1)
  <2>1. CASE (v + 1) % Width = 0
    <3>1. (v + 1) - 1 = v
      BY <1>2
    <3> QED BY <1>2, <1>3, <2>1, <3>1 DEF StacksRight
  <2>2. CASE (v + 1) % Width # 0
    <3>1. v + 1 \in Int /\ (v + 1) - 1 = v
      BY <1>2
    <3>2. RootIndex((v + 1) - 1) = RootIndex(v + 1)
      BY <2>2, <3>1, PageBefore
    <3> QED BY <1>3, <3>1, <3>2
  <2> QED BY <2>1, <2>2
<1>5. v - 1 \in UserVpns => ~HasEntry(m, root, v - 1)
  <2>1. v % Width # 0
    <3>1. v % Width = 0 => v + 3 \in StackVpns /\ RootIndex(v + 3) = RootIndex(v)
      BY StackSearch
    <3> QED BY <1>2, <3>1
  <2>2. RootIndex(v - 1) = RootIndex(v)
    BY <1>2, <2>1, PageBefore
  <2> QED BY <1>3, <2>2
<1> HIDE DEF area, contents, before, st
<1>6. \A w \in Pages(area) : ~HasEntry(m, root, w)
  <2>1. \A w \in Pages(area) : w \in {v, v + 1}
    BY <1>2, AreaPages
  <2> QED BY <1>3, <1>4, <2>1
<1>7. st.mem.fault \in {"none", "heap"}
  BY <1>1, <1>2, <1>6, OnlyHeapFails DEF Ok
<1>8. ASSUME Ok(st.mem)
      PROVE  /\ st.space.root = root
             /\ Grown(m, st.mem, root, area, contents)
             /\ AreasRight(st.mem, root, st.space.areas)
             /\ StacksRight(st.mem, root, threads \cup {v})
  <2>1. "U" \in StackFlags /\ Len(contents) = area.end - area.start
        /\ \A i \in 1 .. Len(contents) : contents[i] # "unmapped"
    BY <1>2, ContentsAssumption DEF StackFlags, contents
  <2>2. Grown(m, st.mem, root, area, contents)
    BY <1>1, <1>2, <1>8, <2>1, MapNewDoes
  <2>3. st.space.root = root /\ st.space.areas = Append(s.areas, area)
    BY <1>1 DEF MapNew, MapExtern, WithMemory
  <2>4. AreasRight(st.mem, root, st.space.areas)
    <3>1. m.next \in Nat
      BY DEF IsMemory
    <3> QED BY <1>2, <2>2, <2>3, <3>1, AreasGrow
  <2>5. \A w \in UserVpns : HasEntry(st.mem, root, w) <=> HasEntry(m, root, w) \/ w \in {v, v + 1}
    BY <1>2, <2>2 DEF Grown
  <2>6. threads \subseteq StackVpns /\ StackTop - 2 \in StackVpns
    BY FirstStack, Zenon DEF StacksRight
  <2>7. ASSUME NEW w \in UserVpns, w + 1 \in (threads \cup {v}) \cup {StackTop - 2}
        PROVE  ~HasEntry(st.mem, root, w)
    <3>1. w + 1 \in StackVpns
      BY <2>6, <2>7
    <3>2. w \notin {v, v + 1}
      <4>1. w + 1 # v => w + 1 + 2 < v \/ v + 2 < w + 1
        BY <3>1, StackSearch
      <4> QED BY <1>2, <4>1
    <3>3. ~HasEntry(m, root, w)
      <4>1. CASE w + 1 = v
        <5>1. w = v - 1
          BY <1>2, <4>1
        <5> QED BY <1>5, <5>1
      <4>2. CASE w + 1 \in threads \cup {StackTop - 2}
        BY <4>2 DEF StacksRight
      <4> QED BY <2>7, <4>1, <4>2
    <3> QED BY <2>5, <3>2, <3>3
  <2>8. ASSUME NEW w \in UserVpns, HasEntry(st.mem, root, w), w % Width = 0, w - 1 \in StackVpns
        PROVE  HasEntry(st.mem, root, w - 1)
    <3>1. w - 1 \in UserVpns
      BY <2>8, StackSearch
    <3>2. CASE HasEntry(m, root, w)
      <4>1. HasEntry(m, root, w - 1)
        BY <2>8, <3>2 DEF StacksRight
      <4> QED BY <2>5, <3>1, <4>1
    <3>3. CASE w = v
      <4>1. w - 1 # v => w - 1 + 2 < v \/ v + 2 < w - 1
        BY <2>8, StackSearch
      <4> QED BY <1>2, <3>3, <4>1
    <3>4. CASE w = v + 1
      <4>1. w - 1 = v
        BY <1>2, <3>4
      <4> QED BY <2>5, <3>1, <4>1
    <3> QED BY <2>5, <2>8, <3>2, <3>3, <3>4
  <2>9. StacksRight(st.mem, root, threads \cup {v})
    BY <2>6, <2>7, <2>8 DEF StacksRight
  <2> QED BY <2>2, <2>3, <2>4, <2>9
<1> QED BY <1>7, <1>8 DEF st, before, area, contents

----------------------------------------------------------------------------
\* unmap.

\* A sequence of sequences is flattened one after another.
LEMMA FlattenSteps ==
  ASSUME NEW seqs, Len(seqs) \in Nat \ {0}
  PROVE  \E run : /\ FlattenSeq(seqs) = run[Len(seqs)]
                  /\ run[1] = seqs[1]
                  /\ \A k \in 2 .. Len(seqs) : run[k] = run[k - 1] \o seqs[k]
<1> DEFINE IsRun(f, n) == f = [k \in 1 .. n |-> IF k = 1 THEN seqs[k] ELSE f[k - 1] \o seqs[k]]
           bad == {n \in Nat : ~\E f : IsRun(f, n)}
<1>1. bad = {}
  <2> SUFFICES ASSUME bad # {} PROVE FALSE
    OBVIOUS
  <2>1. PICK n \in bad : \A k \in bad : n <= k
    <3>1. bad \in SUBSET Nat
      OBVIOUS
    <3> HIDE DEF bad
    <3> QED BY <3>1, MinMember
  <2>2. n \in Nat /\ ~\E f : IsRun(f, n)
    OBVIOUS
  <2>3. n # 0
    <3>1. IsRun([k \in 1 .. 0 |-> k], 0)
      OBVIOUS
    <3> QED BY <2>2, <3>1
  <2>4. n - 1 \in Nat /\ n - 1 \notin bad
    <3> HIDE DEF bad
    <3> QED BY <2>1, <2>2, <2>3
  <2>5. PICK f : IsRun(f, n - 1)
    BY <2>4
  <2> DEFINE last == IF n = 1 THEN seqs[1] ELSE f[n - 1] \o seqs[n]
             g == [k \in 1 .. n |-> IF k = n THEN last ELSE f[k]]
  <2>6. \A k \in 1 .. n - 1 : f[k] = IF k = 1 THEN seqs[k] ELSE f[k - 1] \o seqs[k]
    BY <2>5
  <2>7. \A k \in 1 .. n : g[k] = IF k = 1 THEN seqs[k] ELSE g[k - 1] \o seqs[k]
    <3>1. \A k \in 2 .. n : g[k - 1] = f[k - 1]
      BY <2>2
    <3>2. ASSUME NEW k \in 1 .. n PROVE g[k] = IF k = 1 THEN seqs[k] ELSE g[k - 1] \o seqs[k]
      <4>1. CASE k = n
        <5>1. g[k] = last
          BY <2>2, <2>3, <4>1
        <5>2. k # 1 => g[k - 1] = f[k - 1]
          BY <2>2, <3>1
        <5> HIDE DEF g
        <5> QED BY <4>1, <5>1, <5>2
      <4>2. CASE k # n
        <5>1. k \in 1 .. n - 1 /\ g[k] = f[k]
          BY <2>2, <4>2
        <5>2. k # 1 => g[k - 1] = f[k - 1]
          BY <2>2, <3>1
        <5> HIDE DEF g, last
        <5> QED BY <2>6, <5>1, <5>2
      <4> QED BY <4>1, <4>2
    <3> QED BY <3>2
  <2>8. IsRun(g, n)
    <3>1. g = [k \in 1 .. n |-> g[k]]
      OBVIOUS
    <3> HIDE DEF g
    <3> QED BY <2>7, <3>1
  <2> QED BY <2>2, <2>8
<1>2. PICK run : run = (CHOOSE f : IsRun(f, Len(seqs))) /\ FlattenSeq(seqs) = run[Len(seqs)]
  BY DEF FlattenSeq
<1>3. IsRun(run, Len(seqs))
  <2>1. \E f : IsRun(f, Len(seqs))
    BY <1>1
  <2> QED BY <1>2, <2>1
<1> DEFINE n == Len(seqs)
<1>4. run[1] = seqs[1] /\ \A k \in 2 .. n : run[k] = run[k - 1] \o seqs[k]
  <2>1. run = [k \in 1 .. n |-> IF k = 1 THEN seqs[k] ELSE run[k - 1] \o seqs[k]]
    BY <1>3
  <2> HIDE DEF n
  <2>2. n \in Nat \ {0}
    BY DEF n
  <2>3. 1 \in 1 .. n /\ \A k \in 2 .. n : k \in 1 .. n /\ k # 1
    BY <2>2
  <2> QED BY <2>1, <2>3
<1> QED BY <1>2, <1>4, Zenon

\* Disjoint areas cover a set of pages.
Covers(areas, pages) ==
  /\ areas \in Seq([start : Nat, end : Nat])
  /\ \A k \in DOMAIN areas : IsArea(areas[k])
  /\ \A v : v \in pages <=> \E k \in DOMAIN areas : v \in Pages(areas[k])
  /\ \A j, k \in DOMAIN areas : \A v \in Pages(areas[j]) : v \in Pages(areas[k]) => j = k

\* Areas that cover disjoint sets cover both.
LEMMA CoversJoin ==
  ASSUME NEW a, NEW b, NEW V, NEW W, Covers(a, V), Covers(b, W), V \cap W = {}
  PROVE  Covers(a \o b, V \cup W)
<1> DEFINE c == a \o b
<1>1. /\ c \in Seq([start : Nat, end : Nat]) /\ Len(a) \in Nat /\ Len(b) \in Nat
      /\ DOMAIN a = 1 .. Len(a) /\ DOMAIN b = 1 .. Len(b) /\ DOMAIN c = 1 .. (Len(a) + Len(b))
      /\ \A i \in 1 .. (Len(a) + Len(b)) : c[i] = IF i <= Len(a) THEN a[i] ELSE b[i - Len(a)]
  BY DEF Covers
<1> HIDE DEF c
<1>2. ASSUME NEW i \in DOMAIN c
      PROVE  \/ i \in DOMAIN a /\ c[i] = a[i]
             \/ i - Len(a) \in DOMAIN b /\ c[i] = b[i - Len(a)] /\ i > Len(a)
  BY <1>1
<1>3. /\ \A i \in DOMAIN a : i \in DOMAIN c /\ c[i] = a[i]
      /\ \A i \in DOMAIN b : i + Len(a) \in DOMAIN c /\ c[i + Len(a)] = b[i]
  <2>1. ASSUME NEW i \in DOMAIN a PROVE i \in DOMAIN c /\ c[i] = a[i]
    BY <1>1
  <2>2. ASSUME NEW i \in DOMAIN b PROVE i + Len(a) \in DOMAIN c /\ c[i + Len(a)] = b[i]
    <3>1. /\ i + Len(a) \in 1 .. (Len(a) + Len(b)) /\ ~(i + Len(a) <= Len(a))
          /\ (i + Len(a)) - Len(a) = i
      BY <1>1
    <3> QED BY <1>1, <3>1
  <2> QED BY <2>1, <2>2
<1>4. \A i \in DOMAIN c : IsArea(c[i])
  BY <1>2 DEF Covers
<1>5. \A v : v \in V \cup W <=> \E k \in DOMAIN c : v \in Pages(c[k])
  BY <1>2, <1>3 DEF Covers
<1>6. ASSUME NEW i \in DOMAIN c, NEW j \in DOMAIN c, NEW v \in Pages(c[i]), v \in Pages(c[j])
      PROVE  i = j
  <2>1. CASE i \in DOMAIN a /\ c[i] = a[i]
    <3>1. v \in V
      BY <2>1, <1>6 DEF Covers
    <3>2. j \in DOMAIN a /\ c[j] = a[j]
      BY <1>2, <1>6, <3>1 DEF Covers
    <3> QED BY <1>6, <2>1, <3>2 DEF Covers
  <2>2. CASE i - Len(a) \in DOMAIN b /\ c[i] = b[i - Len(a)]
    <3>1. v \in W
      BY <2>2, <1>6 DEF Covers
    <3>2. j - Len(a) \in DOMAIN b /\ c[j] = b[j - Len(a)]
      BY <1>2, <1>6, <3>1 DEF Covers
    <3>3. i - Len(a) = j - Len(a)
      BY <1>6, <2>2, <3>2 DEF Covers
    <3> QED BY <1>1, <3>3
  <2> QED BY <1>2, <2>1, <2>2
<1> QED BY <1>1, <1>4, <1>5, <1>6 DEF Covers, c

\* One area covers its pages, none covers nothing.
LEMMA CoversOne ==
  /\ Covers(<<>>, {})
  /\ \A area : IsArea(area) => Covers(<<area>>, Pages(area))
<1>1. Covers(<<>>, {})
  BY DEF Covers
<1>2. ASSUME NEW area, IsArea(area) PROVE Covers(<<area>>, Pages(area))
  <2>1. area \in [start : Nat, end : Nat]
    BY <1>2 DEF IsArea
  <2>2. <<area>> \in Seq([start : Nat, end : Nat]) /\ DOMAIN <<area>> = {1} /\ <<area>>[1] = area
    BY <2>1
  <2> QED BY <1>2, <2>2 DEF Covers
<1> QED BY <1>1, <1>2

\* What is left of an area covers its pages outside the range.
LEMMA CutCovers ==
  ASSUME NEW area, IsArea(area), NEW range \in [start : Nat, end : Nat], range.start <= range.end
  PROVE  /\ Covers(Cut(area, range), Pages(area) \ Pages(range))
         /\ \A j \in DOMAIN Cut(area, range) : Pages(Cut(area, range)[j]) \subseteq Pages(area)
<1> DEFINE head == IF area.start < range.start THEN <<Area(area.start, range.start)>> ELSE <<>>
           tail == IF area.end > range.end THEN <<Area(range.end, area.end)>> ELSE <<>>
           V == {v \in Pages(area) : v < range.start}
           W == {v \in Pages(area) : v >= range.end}
<1>1. /\ area.start \in Nat /\ area.end \in Nat /\ area.start < area.end /\ area.end <= StackTop
      /\ StackTop \in Nat /\ range.start \in Nat /\ range.end \in Nat
  BY UserPages DEF IsArea
<1>2. CASE area.end <= range.start \/ area.start >= range.end
  <2>1. Cut(area, range) = <<area>>
    BY <1>2 DEF Cut
  <2>2. Pages(area) \ Pages(range) = Pages(area)
    BY <1>1, <1>2 DEF Pages
  <2>3. DOMAIN <<area>> = {1} /\ <<area>>[1] = area
    OBVIOUS
  <2> QED BY <2>1, <2>2, <2>3, CoversOne
<1>3. CASE ~(area.end <= range.start \/ area.start >= range.end)
  <2>1. Cut(area, range) = head \o tail
    BY <1>3, Zenon DEF Cut
  <2>2. Covers(head, V)
    <3>1. CASE area.start < range.start
      <4> DEFINE a == Area(area.start, range.start)
      <4>1. a.start = area.start /\ a.end = range.start /\ a \in [start : Nat, end : Nat]
        BY <1>1 DEF Area
      <4>2. head = <<a>>
        BY <3>1
      <4> HIDE DEF a, head
      <4>3. IsArea(a)
        BY <1>1, <1>3, <3>1, <4>1 DEF IsArea
      <4>4. Pages(a) = V
        BY <1>1, <1>3, <4>1 DEF Pages
      <4> QED BY <4>2, <4>3, <4>4, CoversOne
    <3>2. CASE ~(area.start < range.start)
      <4>1. V = {}
        BY <1>1, <3>2 DEF Pages
      <4>2. head = <<>>
        BY <3>2
      <4> HIDE DEF head, V
      <4> QED BY <4>1, <4>2, CoversOne
    <3> QED BY <3>1, <3>2
  <2>3. Covers(tail, W)
    <3>1. CASE area.end > range.end
      <4> DEFINE a == Area(range.end, area.end)
      <4>1. a.start = range.end /\ a.end = area.end /\ a \in [start : Nat, end : Nat]
        BY <1>1 DEF Area
      <4>2. tail = <<a>>
        BY <3>1
      <4> HIDE DEF a, tail
      <4>3. IsArea(a)
        BY <1>1, <3>1, <4>1 DEF IsArea
      <4>4. Pages(a) = W
        BY <1>1, <1>3, <4>1 DEF Pages
      <4> QED BY <4>2, <4>3, <4>4, CoversOne
    <3>2. CASE ~(area.end > range.end)
      <4>1. W = {}
        BY <1>1, <3>2 DEF Pages
      <4>2. tail = <<>>
        BY <3>2
      <4> HIDE DEF tail, W
      <4> QED BY <4>1, <4>2, CoversOne
    <3> QED BY <3>1, <3>2
  <2>4. V \cap W = {} /\ V \cup W = Pages(area) \ Pages(range)
    BY <1>1 DEF Pages
  <2> HIDE DEF V, W, head, tail
  <2>5. Covers(head \o tail, Pages(area) \ Pages(range))
    BY <2>2, <2>3, <2>4, CoversJoin
  <2>6. \A j \in DOMAIN (head \o tail) : Pages((head \o tail)[j]) \subseteq Pages(area)
    BY <2>5 DEF Covers
  <2> QED BY <2>1, <2>5, <2>6
<1> QED BY <1>2, <1>3

\* What is left of the areas of a space covers its pages outside the range, each
\* within one of the areas there were.
LEMMA AreasCut ==
  ASSUME NEW areas, NEW pages, Covers(areas, pages),
         NEW range \in [start : Nat, end : Nat], range.start <= range.end
  PROVE  LET left == FlattenSeq([i \in DOMAIN areas |-> Cut(areas[i], range)])
         IN /\ Covers(left, pages \ Pages(range))
            /\ \A j \in DOMAIN left : \E i \in DOMAIN areas : Pages(left[j]) \subseteq Pages(areas[i])
<1> DEFINE cuts == [i \in DOMAIN areas |-> Cut(areas[i], range)]
           n == Len(areas)
           First(k) == {v \in pages : \E i \in 1 .. k : v \in Pages(areas[i])}
           Good(k, left) ==
             /\ Covers(left, First(k) \ Pages(range))
             /\ \A j \in DOMAIN left : \E i \in DOMAIN areas : Pages(left[j]) \subseteq Pages(areas[i])
<1>1. /\ n \in Nat /\ DOMAIN areas = 1 .. n /\ \A i \in 1 .. n : IsArea(areas[i])
      /\ \A v : v \in pages <=> \E i \in 1 .. n : v \in Pages(areas[i])
      /\ \A i, j \in 1 .. n : \A v \in Pages(areas[i]) : v \in Pages(areas[j]) => i = j
  <2>1. n \in Nat /\ DOMAIN areas = 1 .. n
    BY DEF Covers
  <2> HIDE DEF n
  <2> QED BY <2>1 DEF Covers
<1>2. Len(cuts) = n /\ \A i \in 1 .. n : cuts[i] = Cut(areas[i], range)
  BY <1>1
<1>3. First(n) = pages
  <2> HIDE DEF n
  <2> QED BY <1>1
<1> HIDE DEF cuts, n
<1>4. ASSUME NEW k \in 1 .. n
      PROVE  /\ Covers(cuts[k], Pages(areas[k]) \ Pages(range))
             /\ \A j \in DOMAIN cuts[k] : Pages(cuts[k][j]) \subseteq Pages(areas[k])
  BY <1>1, <1>2, CutCovers
<1>5. CASE n = 0
  <2>1. FlattenSeq(cuts) = cuts
    BY <1>2, <1>5 DEF FlattenSeq
  <2>2. cuts = <<>>
    BY <1>1, <1>5 DEF cuts
  <2>3. pages = {}
    BY <1>1, <1>5
  <2>4. pages \ Pages(range) = {} /\ DOMAIN cuts = {}
    BY <1>1, <1>5, <2>3 DEF cuts
  <2> QED BY <2>1, <2>2, <2>4, CoversOne DEF cuts
<1>6. CASE n # 0
  <2>1. PICK run : /\ FlattenSeq(cuts) = run[n]
                   /\ run[1] = cuts[1]
                   /\ \A k \in 2 .. n : run[k] = run[k - 1] \o cuts[k]
    <3>1. Len(cuts) \in Nat \ {0}
      BY <1>1, <1>2, <1>6
    <3> QED BY <1>2, <3>1, FlattenSteps
  <2>2. Good(1, run[1])
    <3>1. 1 \in 1 .. n
      BY <1>1, <1>6
    <3>2. First(1) \ Pages(range) = Pages(areas[1]) \ Pages(range)
      <4>1. 1 .. 1 = {1}
        OBVIOUS
      <4> QED BY <1>1, <3>1, <4>1
    <3> HIDE DEF First
    <3>3. Covers(run[1], First(1) \ Pages(range))
      BY <1>4, <2>1, <3>1, <3>2
    <3>4. \A j \in DOMAIN run[1] : \E i \in DOMAIN areas : Pages(run[1][j]) \subseteq Pages(areas[i])
      BY <1>1, <1>4, <2>1, <3>1
    <3> QED BY <3>3, <3>4
  <2>3. ASSUME NEW k \in 2 .. n, Good(k - 1, run[k - 1]) PROVE Good(k, run[k])
    <3>1. k \in 1 .. n /\ k - 1 \in 1 .. n /\ run[k] = run[k - 1] \o cuts[k]
      <4>1. n \in Nat
        BY <1>1
      <4>2. k \in 1 .. n /\ k - 1 \in 1 .. n
        BY <4>1
      <4> QED BY <2>1, <4>2
    <3> DEFINE V == First(k - 1) \ Pages(range)
               W == Pages(areas[k]) \ Pages(range)
    <3>2. V \cap W = {}
      <4>1. \A i \in 1 .. k - 1 : i \in 1 .. n /\ i # k
        BY <1>1
      <4> QED BY <1>1, <3>1, <4>1
    <3>3. V \cup W = First(k) \ Pages(range)
      <4>1. \A i \in 1 .. k : i \in 1 .. k - 1 \/ i = k
        BY <1>1
      <4>2. k \in 1 .. k /\ \A i \in 1 .. k - 1 : i \in 1 .. k
        BY <1>1
      <4> QED BY <1>1, <3>1, <4>1, <4>2
    <3>4. Covers(run[k - 1], V) /\ Covers(cuts[k], W)
      BY <1>4, <2>3, <3>1
    <3> HIDE DEF V, W, First
    <3>5. Covers(run[k], First(k) \ Pages(range))
      BY <3>1, <3>2, <3>3, <3>4, CoversJoin
    <3>6. \A j \in DOMAIN run[k] : \E i \in DOMAIN areas : Pages(run[k][j]) \subseteq Pages(areas[i])
      <4>1. /\ run[k - 1] \in Seq([start : Nat, end : Nat]) /\ cuts[k] \in Seq([start : Nat, end : Nat])
        BY <3>4 DEF Covers
      <4>2. \A j \in DOMAIN run[k] : \/ j \in DOMAIN run[k - 1] /\ run[k][j] = run[k - 1][j]
                                     \/ \E i \in DOMAIN cuts[k] : run[k][j] = cuts[k][i]
        <5> DEFINE a == run[k - 1]
                   b == cuts[k]
        <5>1. a \in Seq([start : Nat, end : Nat]) /\ b \in Seq([start : Nat, end : Nat])
          BY <4>1
        <5> HIDE DEF a, b
        <5>2. /\ Len(a) \in Nat /\ Len(b) \in Nat /\ DOMAIN a = 1 .. Len(a) /\ DOMAIN b = 1 .. Len(b)
              /\ DOMAIN (a \o b) = 1 .. (Len(a) + Len(b))
              /\ \A i \in 1 .. (Len(a) + Len(b)) : (a \o b)[i] = IF i <= Len(a) THEN a[i] ELSE b[i - Len(a)]
          BY <5>1
        <5>3. ASSUME NEW j \in DOMAIN (a \o b)
              PROVE  \/ j \in DOMAIN a /\ (a \o b)[j] = a[j]
                     \/ j - Len(a) \in DOMAIN b /\ (a \o b)[j] = b[j - Len(a)]
          BY <5>2
        <5> QED BY <3>1, <5>3 DEF a, b
      <4>3. \A j \in DOMAIN run[k - 1] : \E i \in DOMAIN areas : Pages(run[k - 1][j]) \subseteq Pages(areas[i])
        BY <2>3
      <4>4. \A j \in DOMAIN cuts[k] : Pages(cuts[k][j]) \subseteq Pages(areas[k]) /\ k \in DOMAIN areas
        BY <1>1, <1>4, <3>1
      <4> QED BY <4>2, <4>3, <4>4
    <3> QED BY <3>5, <3>6
  <2> DEFINE bad == {k \in 1 .. n : ~Good(k, run[k])}
  <2>4. bad = {}
    <3> SUFFICES ASSUME bad # {} PROVE FALSE
      OBVIOUS
    <3> HIDE DEF Good
    <3>1. PICK k \in bad : \A j \in bad : k <= j
      <4>1. bad \in SUBSET Nat
        BY <1>1
      <4> HIDE DEF bad
      <4> QED BY <4>1, MinMember
    <3>2. k \in 1 .. n /\ ~Good(k, run[k])
      OBVIOUS
    <3>3. k \in 2 .. n /\ k - 1 \in 1 .. n
      <4>1. k # 1
        BY <2>2, <3>2
      <4> QED BY <1>1, <3>2, <4>1
    <3>4. k - 1 \notin bad
      <4> HIDE DEF bad
      <4> QED BY <3>1, <3>3
    <3> QED BY <2>3, <3>2, <3>3, <3>4
  <2>5. Good(n, run[n])
    <3> HIDE DEF Good
    <3> QED BY <1>1, <1>6, <2>4
  <2> HIDE DEF First
  <2> QED BY <1>3, <2>1, <2>5 DEF cuts
<1> QED BY <1>1, <1>5, <1>6

\* unmap takes the pages of the range out of a space and leaves all others.
LEMMA UnmapDoes ==
  ASSUME NEW m, IsMemory(m), NEW s, IsUser(m, s.root), AreasRight(m, s.root, s.areas),
         NEW threads, StacksRight(m, s.root, threads), NEW range \in UnmapRanges
  PROVE  LET r == Unmap([mem |-> m, space |-> s], range).mem
             left == Unmap([mem |-> m, space |-> s], range).space
         IN /\ r.fault = m.fault /\ left.root = s.root
            /\ IsMemory(r) /\ IsUser(r, s.root) /\ Kept(m, r, OwnTables(m, s.root))
            /\ r.table[s.root] = m.table[s.root] /\ r.page = m.page
            /\ \A v \in UserVpns : /\ HasEntry(r, s.root, v) <=> HasEntry(m, s.root, v) /\ v \notin Pages(range)
                                   /\ HasEntry(r, s.root, v) => Entry(r, s.root, v) = Entry(m, s.root, v)
            /\ AreasRight(r, s.root, left.areas)
            /\ StacksRight(r, s.root, threads)
<1> DEFINE root == s.root
           st == [mem |-> m, space |-> s]
           r == Unmap(st, range).mem
           left == Unmap(st, range).space
           tables == {m.table[root][i].ppn : i \in RootIndexes(range) \cap DOMAIN m.table[root]}
           Cleared(f) == {Slot(v) : v \in {w \in Pages(range) :
                            HasEntry(m, root, w) /\ m.table[root][RootIndex(w)].ppn = f}}
<1>1. /\ range.start \in Nat /\ range.end \in Nat /\ range.start <= range.end /\ range.end <= StackTop
      /\ range \in [start : Nat, end : Nat]
      /\ \A v \in Pages(range) \cap StackVpns : (v + 1) % Width = 0 => v + 1 \in Pages(range)
  BY UnmapAssumption
<1>2. Pages(range) \subseteq UserVpns /\ \A v \in UserVpns : v \in Int
  BY <1>1, UserPages DEF Pages, UserVpns
<1>3. /\ left.root = root
      /\ left.areas = FlattenSeq([i \in DOMAIN s.areas |-> Cut(s.areas[i], range)])
  BY DEF Unmap
<1>4. r = [m EXCEPT !.table =
             Over([f \in tables |-> Restrict(m.table[f], DOMAIN m.table[f] \ Cleared(f))], m.table)]
  <2>1. st.mem = m /\ st.space = s
    OBVIOUS
  <2> QED BY <2>1, Zenon DEF Unmap
<1> HIDE DEF st, r, left
<1>5. /\ IsTree(m, root) /\ root \in DOMAIN m.table
      /\ \A i \in DOMAIN m.table[root] : Leaf(m, root, i) \in DOMAIN m.table \ {root}
      /\ \A i, j \in DOMAIN m.table[root] : Leaf(m, root, i) = Leaf(m, root, j) => i = j
  BY DEF IsUser, IsTree
<1>6. tables = {Leaf(m, root, i) : i \in RootIndexes(range) \cap DOMAIN m.table[root]}
  BY DEF Leaf
<1>7. RootIndexes(range) \subseteq 0 .. UserRoots - 1 /\ Roots - 1 \notin RootIndexes(range)
  BY <1>2, UserPages DEF RootIndexes
<1> HIDE DEF tables, Cleared
<1>8. tables \subseteq DOMAIN m.table \ {root} /\ tables \subseteq OwnTables(m, root)
  BY <1>5, <1>6, <1>7 DEF OwnTables
<1>9. /\ r.next = m.next /\ r.page = m.page /\ r.fault = m.fault /\ DOMAIN r = DOMAIN m
      /\ r.table = Over([f \in tables |-> Restrict(m.table[f], DOMAIN m.table[f] \ Cleared(f))], m.table)
  BY <1>4 DEF IsMemory
<1>10. /\ DOMAIN r.table = DOMAIN m.table
       /\ \A f \in tables : /\ DOMAIN r.table[f] = DOMAIN m.table[f] \ Cleared(f)
                            /\ \A x \in DOMAIN r.table[f] : r.table[f][x] = m.table[f][x]
       /\ \A f \in DOMAIN m.table \ tables : r.table[f] = m.table[f]
  BY <1>8, <1>9 DEF Over, Restrict
<1>11. r.table[root] = m.table[root]
  BY <1>5, <1>8, <1>10
<1>12. ASSUME NEW v \in UserVpns
       PROVE  /\ HasEntry(r, root, v) <=> HasEntry(m, root, v) /\ v \notin Pages(range)
              /\ HasEntry(r, root, v) => Entry(r, root, v) = Entry(m, root, v)
  <2> DEFINE f == Leaf(m, root, RootIndex(v))
  <2>1. CASE RootIndex(v) \in DOMAIN m.table[root] /\ f \in tables
    <3>1. Slot(v) \in Cleared(f) <=> HasEntry(m, root, v) /\ v \in Pages(range)
      <4>1. ASSUME Slot(v) \in Cleared(f) PROVE HasEntry(m, root, v) /\ v \in Pages(range)
        <5>1. PICK w \in Pages(range) : HasEntry(m, root, w) /\ Leaf(m, root, RootIndex(w)) = f /\ Slot(w) = Slot(v)
          BY <4>1 DEF Cleared, Leaf
        <5>2. RootIndex(w) = RootIndex(v)
          BY <1>5, <2>1, <5>1 DEF HasEntry
        <5>3. w = v
          BY <1>2, <5>1, <5>2, SamePage
        <5> QED BY <5>1, <5>3
      <4>2. ASSUME HasEntry(m, root, v), v \in Pages(range) PROVE Slot(v) \in Cleared(f)
        BY <4>2 DEF Cleared, Leaf
      <4> QED BY <4>1, <4>2
    <3>2. HasEntry(m, root, v) <=> Slot(v) \in DOMAIN m.table[f]
      BY <2>1 DEF HasEntry, Leaf
    <3>3. HasEntry(r, root, v) <=> Slot(v) \in DOMAIN r.table[f]
      BY <1>11, <2>1 DEF HasEntry, Leaf
    <3>4. Entry(r, root, v) = r.table[f][Slot(v)] /\ Entry(m, root, v) = m.table[f][Slot(v)]
      BY <1>11 DEF Entry, Leaf
    <3> HIDE DEF f
    <3> QED BY <1>10, <2>1, <3>1, <3>2, <3>3, <3>4
  <2>2. CASE ~(RootIndex(v) \in DOMAIN m.table[root] /\ f \in tables)
    <3>1. HasEntry(m, root, v) => v \notin Pages(range)
      BY <1>6, <2>2 DEF HasEntry, RootIndexes
    <3>2. RootIndex(v) \in DOMAIN m.table[root] => r.table[f] = m.table[f]
      BY <1>5, <1>10, <2>2
    <3>3. HasEntry(r, root, v) <=> HasEntry(m, root, v)
      BY <1>11, <3>2 DEF HasEntry, Leaf
    <3>4. HasEntry(m, root, v) => Entry(r, root, v) = Entry(m, root, v)
      BY <1>11, <3>2 DEF HasEntry, Entry, Leaf
    <3> QED BY <3>1, <3>3, <3>4
  <2> QED BY <2>1, <2>2
<1>13. IsMemory(r)
  BY <1>9, <1>10 DEF IsMemory
<1>14. IsUser(r, root)
  <2>1. IsTree(r, root)
    BY <1>5, <1>10, <1>11 DEF IsTree, Leaf
  <2>2. \A i \in DOMAIN r.table[root] \ {Roots - 1} :
          i \in 0 .. UserRoots - 1 /\ "OWNED" \in r.table[root][i].flags
    BY <1>11 DEF IsUser
  <2>3. \A v \in UserVpns : HasEntry(r, root, v) =>
          "U" \in Entry(r, root, v).flags /\ Translate(r, root, v) \in DOMAIN r.page
    BY <1>9, <1>12 DEF IsUser, Translate
  <2>4. \A v, w \in UserVpns :
          HasEntry(r, root, v) /\ HasEntry(r, root, w) /\ Translate(r, root, v) = Translate(r, root, w) => v = w
    BY <1>12 DEF IsUser, Translate
  <2> QED BY <2>1, <2>2, <2>3, <2>4 DEF IsUser
<1>15. Kept(m, r, OwnTables(m, root))
  <2>1. r.next >= m.next
    BY <1>9 DEF IsMemory
  <2> QED BY <1>8, <1>9, <1>10, <2>1 DEF Kept
<1> DEFINE pages == {v \in UserVpns : HasEntry(m, root, v)}
<1>16. Covers(s.areas, pages)
  <2>1. \A k \in DOMAIN s.areas : \A v \in Pages(s.areas[k]) : v \in UserVpns
    BY AreaPages DEF AreasRight
  <2> QED BY <2>1 DEF Covers, AreasRight
<1>17. /\ Covers(left.areas, pages \ Pages(range))
       /\ \A j \in DOMAIN left.areas : \E i \in DOMAIN s.areas : Pages(left.areas[j]) \subseteq Pages(s.areas[i])
  BY <1>1, <1>3, <1>16, AreasCut
<1>18. AreasRight(r, root, left.areas)
  <2>1. \A v \in UserVpns : HasEntry(r, root, v) <=> \E k \in DOMAIN left.areas : v \in Pages(left.areas[k])
    BY <1>12, <1>17 DEF Covers
  <2>2. ASSUME NEW k \in DOMAIN left.areas, NEW v \in Pages(left.areas[k])
        PROVE  Translate(r, root, v) = Translate(r, root, left.areas[k].start) + v - left.areas[k].start
    <3> DEFINE a == left.areas[k]
    <3>1. IsArea(a)
      BY <1>17 DEF Covers
    <3>2. a.start \in Pages(a) /\ a.start \in Nat /\ v \in UserVpns /\ a.start \in UserVpns /\ v \in Nat
      <4> HIDE DEF a
      <4>1. a.start \in Nat /\ a.start \in Pages(a)
        BY <3>1 DEF IsArea, Pages
      <4> QED BY <3>1, <4>1, AreaPages DEF a
    <3>3. PICK i \in DOMAIN s.areas : v \in Pages(s.areas[i]) /\ a.start \in Pages(s.areas[i])
      BY <1>17, <2>2, <3>2
    <3>4. /\ HasEntry(r, root, v) /\ HasEntry(r, root, a.start)
      BY <2>1, <2>2, <3>2
    <3>5. /\ Translate(r, root, v) = Translate(m, root, v)
          /\ Translate(r, root, a.start) = Translate(m, root, a.start)
      BY <1>12, <3>2, <3>4 DEF Translate
    <3> DEFINE base == Translate(m, root, s.areas[i].start)
    <3>6. /\ Translate(m, root, v) = base + v - s.areas[i].start
          /\ Translate(m, root, a.start) = base + a.start - s.areas[i].start
      BY <3>3 DEF AreasRight
    <3>7. base \in Int /\ s.areas[i].start \in Nat
      <4>1. IsArea(s.areas[i])
        BY DEF AreasRight
      <4>2. s.areas[i].start \in Nat /\ s.areas[i].start \in Pages(s.areas[i])
        BY <4>1 DEF IsArea, Pages
      <4>3. s.areas[i].start \in UserVpns
        BY <4>1, <4>2, AreaPages
      <4>4. HasEntry(m, root, s.areas[i].start)
        BY <4>2, <4>3 DEF AreasRight
      <4>5. base \in DOMAIN m.page
        BY <4>3, <4>4 DEF IsUser
      <4> QED BY <4>2, <4>5 DEF IsMemory
    <3> HIDE DEF base, a
    <3> QED BY <3>2, <3>5, <3>6, <3>7 DEF a
  <2> QED BY <1>17, <2>1, <2>2 DEF Covers, AreasRight
<1>19. StacksRight(r, root, threads)
  <2>1. \A v \in UserVpns : v + 1 \in threads \cup {StackTop - 2} => ~HasEntry(r, root, v)
    BY <1>12 DEF StacksRight
  <2>2. ASSUME NEW v \in UserVpns, HasEntry(r, root, v), v % Width = 0, v - 1 \in StackVpns
        PROVE  HasEntry(r, root, v - 1)
    <3>1. v - 1 \in UserVpns /\ v \in Int /\ (v - 1) + 1 = v
      BY <1>2, <2>2, StackSearch
    <3>2. HasEntry(m, root, v) /\ v \notin Pages(range)
      BY <1>12, <2>2
    <3>3. HasEntry(m, root, v - 1)
      BY <2>2, <3>2 DEF StacksRight
    <3>4. v - 1 \notin Pages(range)
      BY <1>1, <2>2, <3>1, <3>2
    <3> QED BY <1>12, <3>1, <3>3, <3>4
  <2>3. threads \subseteq StackVpns
    BY DEF StacksRight
  <2> QED BY <2>1, <2>2, <2>3 DEF StacksRight
<1> QED BY <1>3, <1>9, <1>11, <1>12, <1>13, <1>14, <1>15, <1>18, <1>19 DEF r, left, st

----------------------------------------------------------------------------
\* Boot.

\* The areas of the kernel: the portal is the sixth.
LEMMA KernelAreasAre ==
  /\ Len(KernelAreas) \in Nat /\ Len(KernelAreas) >= 6
  /\ \A k \in 1 .. Len(KernelAreas) :
       /\ KernelAreas[k].area.start \in Int /\ KernelAreas[k].area.end \in Int
       /\ KernelAreas[k].pbase \in Int
  /\ KernelAreas[6] = [area |-> Area(PortalVpn, PortalVpn + 1), pbase |-> PortalFrame,
                       flags |-> {"G", "X", "W", "R"}]
  /\ HeapStart \in Nat
<1> DEFINE T == [area : [start : Int, end : Int], pbase : Int, flags : SUBSET {"G", "X", "W", "R"}]
           Identity(area, flags) == [area |-> area, pbase |-> area.start, flags |-> flags]
           portal == [area |-> Area(PortalVpn, PortalVpn + 1), pbase |-> PortalFrame,
                      flags |-> {"G", "X", "W", "R"}]
           a == [r \in DOMAIN Regions |->
                  Identity(Area(Floor(Regions[r].start), Ceil(Regions[r].end)), Regions[r].flags)]
           b == <<Identity(Area(HeapStart, HeapEnd), {"W", "R"}), portal>>
           c == [d \in DOMAIN Mmio |-> Identity(Mmio[d], {"W", "R"})]
<1>1. KernelAreas = (a \o b) \o c
  BY Zenon DEF KernelAreas
<1>2. \A area \in [start : Int, end : Int] : \A flags \in SUBSET {"G", "X", "W", "R"} :
        Identity(area, flags) \in T
  OBVIOUS
<1>3. \A address \in Nat : Floor(address) \in Nat /\ Ceil(address) \in Int
  BY PageAssumption DEF Floor, Ceil
<1>4. HeapStart \in Nat
  BY <1>3, LayoutAssumption DEF HeapStart
<1> HIDE DEF Identity
<1>5. a \in Seq(T) /\ Len(a) = 4
  <2>1. Regions \in Seq([start : Nat, end : Nat, flags : SUBSET {"G", "X", "W", "R"}]) /\ Len(Regions) = 4
    BY LayoutAssumption DEF Regions
  <2> HIDE DEF T
  <2>2. DOMAIN Regions = 1 .. 4
    BY <2>1
  <2>3. \A r \in DOMAIN Regions :
          Identity(Area(Floor(Regions[r].start), Ceil(Regions[r].end)), Regions[r].flags) \in T
    <3>1. ASSUME NEW r \in DOMAIN Regions
          PROVE  Identity(Area(Floor(Regions[r].start), Ceil(Regions[r].end)), Regions[r].flags) \in T
      <4>1. Regions[r] \in [start : Nat, end : Nat, flags : SUBSET {"G", "X", "W", "R"}]
        <5> DEFINE S == [start : Nat, end : Nat, flags : SUBSET {"G", "X", "W", "R"}]
        <5>1. Regions \in Seq(S)
          BY <2>1
        <5> HIDE DEF S
        <5>2. Regions[r] \in S
          BY <5>1
        <5> QED BY <5>2 DEF S
      <4>2. Area(Floor(Regions[r].start), Ceil(Regions[r].end)) \in [start : Int, end : Int]
        BY <1>3, <4>1 DEF Area
      <4>3. Regions[r].flags \in SUBSET {"G", "X", "W", "R"}
        BY <4>1
      <4> QED BY <1>2, <4>2, <4>3
    <3> QED BY <3>1
  <2> QED BY <2>2, <2>3
<1>6. b \in Seq(T) /\ Len(b) = 2 /\ b[2] = portal
  <2>1. Identity(Area(HeapStart, HeapEnd), {"W", "R"}) \in T
    <3>1. Area(HeapStart, HeapEnd) \in [start : Int, end : Int]
      BY <1>4, HeapEndAssumption DEF Area
    <3>2. {"W", "R"} \in SUBSET {"G", "X", "W", "R"}
      OBVIOUS
    <3> QED BY <1>2, <3>1, <3>2
  <2>2. portal \in T
    <3>1. Area(PortalVpn, PortalVpn + 1) \in [start : Int, end : Int] /\ PortalFrame \in Int
      BY <1>4, UserPages DEF Area, PortalFrame
    <3> QED BY <3>1
  <2> HIDE DEF portal, T
  <2> QED BY <2>1, <2>2
<1>7. c \in Seq(T)
  <2>1. Mmio \in Seq([start : Nat, end : Nat])
    BY LayoutAssumption
  <2>2. \A d \in DOMAIN Mmio : Identity(Mmio[d], {"W", "R"}) \in T
    <3>1. \A d \in DOMAIN Mmio : Mmio[d] \in [start : Int, end : Int]
      <4> DEFINE S == [start : Nat, end : Nat]
      <4>1. Mmio \in Seq(S)
        BY <2>1
      <4>2. \A x \in S : x \in [start : Int, end : Int]
        OBVIOUS
      <4> HIDE DEF S
      <4>3. \A d \in DOMAIN Mmio : Mmio[d] \in S
        BY <4>1
      <4> QED BY <4>2, <4>3
    <3>2. {"W", "R"} \in SUBSET {"G", "X", "W", "R"}
      OBVIOUS
    <3> HIDE DEF T
    <3> QED BY <1>2, <3>1, <3>2
  <2>3. Len(Mmio) \in Nat /\ DOMAIN Mmio = 1 .. Len(Mmio)
    BY <2>1
  <2> HIDE DEF T
  <2> QED BY <2>2, <2>3
<1> HIDE DEF a, b, c, portal
<1>8. /\ KernelAreas \in Seq(T) /\ Len(KernelAreas) = 6 + Len(c) /\ Len(c) \in Nat
      /\ KernelAreas[6] = portal
  <2> HIDE DEF T
  <2>1. /\ a \o b \in Seq(T) /\ Len(a \o b) = 6 /\ (a \o b)[6] = b[2]
    <3>1. a \in Seq(T) /\ b \in Seq(T)
      BY <1>5, <1>6
    <3>2. /\ a \o b \in Seq(T) /\ Len(a \o b) = Len(a) + Len(b)
          /\ \A i \in 1 .. (Len(a) + Len(b)) : (a \o b)[i] = IF i <= Len(a) THEN a[i] ELSE b[i - Len(a)]
      BY <3>1
    <3> QED BY <1>5, <1>6, <3>2
  <2> DEFINE d == a \o b
  <2> HIDE DEF d
  <2>2. /\ d \o c \in Seq(T) /\ Len(d \o c) = 6 + Len(c) /\ Len(c) \in Nat /\ (d \o c)[6] = d[6]
    BY <1>7, <2>1 DEF d
  <2> QED BY <1>1, <1>6, <2>1, <2>2 DEF d
<1>9. \A k \in 1 .. Len(KernelAreas) : KernelAreas[k] \in T
  <2>1. KernelAreas \in Seq(T)
    BY <1>8
  <2> HIDE DEF T
  <2> QED BY <2>1
<1>10. Len(KernelAreas) \in Nat /\ Len(KernelAreas) >= 6
  BY <1>8
<1>11. \A x \in T : x.area.start \in Int /\ x.area.end \in Int /\ x.pbase \in Int
  OBVIOUS
<1> HIDE DEF T
<1> QED BY <1>4, <1>8, <1>9, <1>10, <1>11 DEF portal

\* kernel_space makes the portal, or fails.
LEMMA KernelBoots ==
  /\ IsMemory(KernelSpace.mem) /\ Ok(KernelSpace.mem)
  /\ KernelRight(KernelSpace.mem, KernelSpace.space)
<1> DEFINE n == Len(KernelAreas)
           Mapped0(k, st) ==
             Ok(st.mem) =>
               /\ IsMemory(st.mem) /\ IsTree(st.mem, st.space.root)
               /\ k >= 6 => /\ HasEntry(st.mem, st.space.root, PortalVpn)
                            /\ Entry(st.mem, st.space.root, PortalVpn)
                                 = [ppn |-> PortalFrame, flags |-> {"G", "X", "W", "R"}]
<1>1. n \in Nat /\ n >= 6
  BY KernelAreasAre
<1>2. PICK run : /\ KernelSpace = run[n]
                 /\ run[0] = NewSpace(AllocPages(EmptyMemory, <<Foreign>>))
                 /\ \A k \in 1 .. n : run[k] = MapKernelArea(run[k - 1], KernelAreas[k])
  BY <1>1, KernelSteps
<1>3. Mapped0(0, run[0])
  <2> DEFINE m == AllocPages(EmptyMemory, <<Foreign>>)
  <2>1. IsMemory(EmptyMemory) /\ Ok(EmptyMemory)
    BY KernelAreasAre DEF IsMemory, EmptyMemory, Ok
  <2>2. run[0].mem = AllocTable(m) /\ run[0].space.root = m.next
    BY <1>2 DEF NewSpace
  <2>3. Ok(m) => IsMemory(m)
    <3>1. Len(<<Foreign>>) \in Nat /\ \A k \in 1 .. Len(<<Foreign>>) : <<Foreign>>[k] # "unmapped"
      BY ContentsAssumption
    <3> QED BY <2>1, <3>1, AllocPagesDoes
  <2> HIDE DEF m
  <2>4. ASSUME Ok(AllocTable(m)) PROVE IsMemory(AllocTable(m)) /\ IsTree(AllocTable(m), m.next)
    <3>1. Ok(m)
      BY <2>4 DEF AllocTable, Failed, Ok
    <3>2. /\ IsMemory(AllocTable(m)) /\ m.next \in DOMAIN AllocTable(m).table
          /\ DOMAIN AllocTable(m).table[m.next] = {}
      BY <2>3, <2>4, <3>1, AllocTableDoes
    <3> QED BY <3>2 DEF IsTree
  <2>5. ~(0 >= 6)
    OBVIOUS
  <2> QED BY <2>2, <2>4, <2>5
<1>4. ASSUME NEW k \in 1 .. n, Mapped0(k - 1, run[k - 1])
      PROVE  Mapped0(k, run[k])
  <2> DEFINE area == KernelAreas[k].area
             pbase == KernelAreas[k].pbase
             flags == KernelAreas[k].flags
             m == run[k - 1].mem
             root == run[k - 1].space.root
             r == run[k].mem
  <2>1. /\ r = IF MapperFails(m, root, area) THEN Failed(m, "assertion") ELSE Mapper(m, root, area, pbase, flags)
        /\ run[k].space.root = root
    <3>1. \A st, a : /\ MapKernelArea(st, a).mem =
                           IF MapperFails(st.mem, st.space.root, a.area) THEN Failed(st.mem, "assertion")
                           ELSE Mapper(st.mem, st.space.root, a.area, a.pbase, a.flags)
                     /\ MapKernelArea(st, a).space.root = st.space.root
      BY DEF MapKernelArea, MapExtern
    <3>2. run[k] = MapKernelArea(run[k - 1], KernelAreas[k])
      BY <1>2
    <3> QED BY <3>1, <3>2, Zenon
  <2>2. ASSUME Ok(r)
        PROVE  /\ IsMemory(r) /\ IsTree(r, root)
               /\ k >= 6 => /\ HasEntry(r, root, PortalVpn)
                            /\ Entry(r, root, PortalVpn) = [ppn |-> PortalFrame, flags |-> {"G", "X", "W", "R"}]
    <3>1. ~MapperFails(m, root, area)
      <4> HIDE DEF m, root, area, pbase, flags, r
      <4>1. ~Ok(Failed(m, "assertion"))
        BY DEF Failed, Ok
      <4> QED BY <2>1, <2>2, <4>1
    <3>2. r = Mapper(m, root, area, pbase, flags)
      BY <2>1, <3>1
    <3>3. Ok(m) /\ \A v \in Pages(area) : ~HasEntry(m, root, v)
      BY <3>1 DEF MapperFails
    <3>4. area.start \in Int /\ area.end \in Int /\ pbase \in Int
      BY KernelAreasAre
    <3>5. /\ IsMemory(m) /\ IsTree(m, root)
          /\ k - 1 >= 6 => /\ HasEntry(m, root, PortalVpn)
                           /\ Entry(m, root, PortalVpn) = [ppn |-> PortalFrame, flags |-> {"G", "X", "W", "R"}]
      BY <1>4, <3>3
    <3>6. /\ IsMemory(r) /\ IsTree(r, root)
          /\ \A v \in Int : HasEntry(r, root, v) <=> HasEntry(m, root, v) \/ v \in Pages(area)
          /\ \A v \in Pages(area) : Entry(r, root, v) = [ppn |-> pbase + v - area.start, flags |-> flags]
          /\ \A v \in Int : HasEntry(m, root, v) => Entry(r, root, v) = Entry(m, root, v)
      <4> HIDE DEF m, root, area, pbase, flags, r
      <4> QED BY <3>2, <3>3, <3>4, <3>5, MapperDoes
    <3>7. PortalVpn \in Int
      BY UserPages
    <3>8. CASE k = 6
      <4>1. area = Area(PortalVpn, PortalVpn + 1) /\ pbase = PortalFrame /\ flags = {"G", "X", "W", "R"}
        BY <3>8, KernelAreasAre
      <4>2. area.start = PortalVpn /\ area.end = PortalVpn + 1
        BY <4>1 DEF Area
      <4>3. PortalVpn \in Pages(area)
        BY <3>7, <4>2 DEF Pages
      <4>4. pbase + PortalVpn - area.start = PortalFrame
        <5>1. PortalFrame \in Int
          BY <3>4, <4>1
        <5> HIDE DEF pbase, area
        <5> QED BY <3>7, <4>1, <4>2, <5>1
      <4> HIDE DEF m, root, area, pbase, flags, r
      <4> QED BY <3>6, <3>7, <4>1, <4>3, <4>4
    <3>9. CASE k # 6
      <4>1. k >= 6 => k - 1 >= 6
        BY <3>9
      <4> HIDE DEF m, root, area, pbase, flags, r
      <4> QED BY <3>5, <3>6, <3>7, <4>1
    <3> QED BY <3>8, <3>9
  <2> HIDE DEF r
  <2> QED BY <2>1, <2>2 DEF r
<1> DEFINE bad == {k \in 0 .. n : ~Mapped0(k, run[k])}
<1> HIDE DEF Mapped0
<1>5. bad = {}
  <2> SUFFICES ASSUME bad # {} PROVE FALSE
    OBVIOUS
  <2>1. PICK k \in bad : \A j \in bad : k <= j
    <3>1. bad \in SUBSET Nat
      BY <1>1
    <3> HIDE DEF bad
    <3> QED BY <3>1, MinMember
  <2>2. k \in 0 .. n /\ ~Mapped0(k, run[k])
    OBVIOUS
  <2> HIDE DEF n
  <2>3. k \in 1 .. n /\ k - 1 \in 0 .. n
    <3>1. k # 0
      BY <1>3, <2>2
    <3> QED BY <1>1, <2>2, <3>1
  <2>4. k - 1 \notin bad
    <3> HIDE DEF bad
    <3> QED BY <2>1, <2>3
  <2> QED BY <1>4, <2>2, <2>3, <2>4
<1>6. Mapped0(n, KernelSpace)
  <2> HIDE DEF n
  <2> QED BY <1>1, <1>2, <1>5
<1> QED BY <1>1, <1>6, BootAssumption DEF Mapped0, KernelRight

----------------------------------------------------------------------------
\* Steps: one space is replaced, removed or stored to, and the others stay.

\* What a process sees of the space s.
ViewIn(m, s) == IF s # NoSpace THEN ViewOf(m, s.root) ELSE [v \in UserVpns |-> "unmapped"]

\* The tables and frames of a space are there.
LEMMA OwnAreThere ==
  ASSUME NEW m, IsMemory(m), NEW root, IsUser(m, root)
  PROVE  /\ \A f \in OwnTables(m, root) : f \in DOMAIN m.table /\ f \in Nat /\ f < m.next
         /\ \A f \in OwnFrames(m, root) : f \in DOMAIN m.page /\ f \in Nat /\ f < m.next
<1>1. OwnTables(m, root) \subseteq DOMAIN m.table
  BY DEF OwnTables, IsUser, IsTree
<1>2. OwnFrames(m, root) \subseteq DOMAIN m.page
  BY DEF OwnFrames, IsUser
<1> QED BY <1>1, <1>2 DEF IsMemory

\* What changes the tables T, none of them its own or the kernel's, leaves a
\* space and what its process sees.
LEMMA OtherSpace ==
  ASSUME NEW m, NEW r, NEW T, Kept(m, r, T), IsMemory(m), NEW k, KernelRight(m, k),
         KernelTables(m, k) \cap T = {},
         NEW s, NEW threads, SpaceRight(m, k, s, threads), OwnTables(m, s.root) \cap T = {}
  PROVE  /\ SpaceRight(r, k, s, threads)
         /\ OwnTables(r, s.root) = OwnTables(m, s.root)
         /\ OwnFrames(r, s.root) = OwnFrames(m, s.root)
         /\ ViewIn(r, s) = ViewIn(m, s)
<1>1. /\ s.root # 0 /\ IsUser(m, s.root) /\ AreasRight(m, s.root, s.areas)
      /\ PortalRight(m, s.root, k) /\ StacksRight(m, s.root, threads)
  BY DEF SpaceRight
<1>2. /\ IsUser(r, s.root) /\ r.table[s.root] = m.table[s.root]
      /\ OwnTables(r, s.root) = OwnTables(m, s.root)
      /\ SameEntries(m, s.root, r, s.root)
      /\ \A v \in UserVpns : HasEntry(m, s.root, v) =>
           LET f == Translate(m, s.root, v)
           IN f \in DOMAIN m.page /\ f \in DOMAIN r.page /\ r.page[f] = m.page[f]
  BY <1>1, SpaceKept
<1>3. /\ AreasRight(r, s.root, s.areas) /\ StacksRight(r, s.root, threads)
      /\ OwnFrames(r, s.root) = OwnFrames(m, s.root)
  BY <1>1, <1>2, EntriesDecide
<1>4. r.table[k.root] = m.table[k.root] /\ KernelTables(r, k) = KernelTables(m, k)
  BY KernelKept
<1>5. PortalRight(r, s.root, k)
  BY <1>1, <1>2, <1>4 DEF PortalRight
<1>6. ViewOf(r, s.root) = ViewOf(m, s.root)
  BY <1>2 DEF ViewOf, SameEntries, Translate
<1> QED BY <1>1, <1>2, <1>3, <1>5, <1>6 DEF SpaceRight, ViewIn

\* The space st.space, in the memory st.mem, may take the place of the space old in
\* memory m: its tables are new or among T, the tables of old, if they changed, and
\* its frames are new or those of old.
Fits(m, k, old, st, threads, T) ==
  /\ IsMemory(st.mem) /\ SpaceRight(st.mem, k, st.space, threads) /\ Kept(m, st.mem, T)
  /\ T = {} \/ (old # NoSpace /\ T = OwnTables(m, old.root))
  /\ st.space \in [root : Nat, areas : Seq([start : Nat, end : Nat])]
  /\ \A f \in OwnTables(st.mem, st.space.root) : f \in T \/ f >= m.next
  /\ \A f \in OwnFrames(st.mem, st.space.root) :
       (old # NoSpace /\ f \in OwnFrames(m, old.root)) \/ f >= m.next

\* Process p has got the space st.space, and the others see what they saw.
Replaced(m, k, sp, sk, p, st, threads) ==
  /\ SpacesRight(st.mem, k, [sp EXCEPT ![p] = st.space], [sk EXCEPT ![p] = threads])
  /\ \A q \in Procs \ {p} : ViewIn(st.mem, sp[q]) = ViewIn(m, sp[q])

\* One process gets such a space.
LEMMA SpaceReplaced ==
  ASSUME NEW m, NEW k, NEW sp, NEW sk, SpacesRight(m, k, sp, sk), NEW p \in Procs,
         NEW st, NEW threads, NEW T, Fits(m, k, sp[p], st, threads, T)
  PROVE  Replaced(m, k, sp, sk, p, st, threads)
<1> DEFINE r == st.mem
           s == st.space
           sp2 == [sp EXCEPT ![p] = s]
           sk2 == [sk EXCEPT ![p] = threads]
<1>0. /\ IsMemory(st.mem) /\ SpaceRight(st.mem, k, st.space, threads) /\ Kept(m, st.mem, T)
      /\ T = {} \/ (sp[p] # NoSpace /\ T = OwnTables(m, sp[p].root))
      /\ st.space \in [root : Nat, areas : Seq([start : Nat, end : Nat])]
      /\ \A f \in OwnTables(st.mem, st.space.root) : f \in T \/ f >= m.next
      /\ \A f \in OwnFrames(st.mem, st.space.root) :
           (sp[p] # NoSpace /\ f \in OwnFrames(m, sp[p].root)) \/ f >= m.next
  BY DEF Fits
<1>1. /\ IsMemory(m) /\ KernelRight(m, k)
      /\ sp \in [Procs -> [root : Nat, areas : Seq([start : Nat, end : Nat])]] /\ DOMAIN sk = Procs
      /\ \A q \in Procs : sp[q] # NoSpace => SpaceRight(m, k, sp[q], sk[q])
      /\ \A a, b \in Procs : sp[a] # NoSpace /\ sp[b] # NoSpace /\ a # b =>
           ApartFrom(m, sp[a].root, sp[b].root)
  BY DEF SpacesRight
<1>2. /\ DOMAIN sp2 = Procs /\ sp2[p] = s /\ \A q \in Procs \ {p} : sp2[q] = sp[q]
      /\ DOMAIN sk2 = Procs /\ sk2[p] = threads /\ \A q \in Procs \ {p} : sk2[q] = sk[q]
      /\ sp2 \in [Procs -> [root : Nat, areas : Seq([start : Nat, end : Nat])]]
  BY <1>0, <1>1
<1>3. KernelTables(m, k) \cap T = {}
  <2>1. sp[p] # NoSpace => OwnTables(m, sp[p].root) \cap KernelTables(m, k) = {}
    BY <1>1 DEF SpaceRight, PortalRight
  <2> QED BY <1>0, <2>1
<1>4. \A q \in Procs \ {p} : sp[q] # NoSpace => OwnTables(m, sp[q].root) \cap T = {}
  BY <1>0, <1>1 DEF ApartFrom
<1> HIDE DEF r, s, sp2, sk2
<1>5. Kept(m, r, T) /\ IsMemory(r) /\ SpaceRight(r, k, s, threads)
  BY <1>0 DEF r, s
<1>6. ASSUME NEW q \in Procs \ {p}, sp[q] # NoSpace
      PROVE  /\ SpaceRight(r, k, sp[q], sk[q])
             /\ OwnTables(r, sp[q].root) = OwnTables(m, sp[q].root)
             /\ OwnFrames(r, sp[q].root) = OwnFrames(m, sp[q].root)
             /\ ViewIn(r, sp[q]) = ViewIn(m, sp[q])
  <2>1. SpaceRight(m, k, sp[q], sk[q]) /\ OwnTables(m, sp[q].root) \cap T = {}
    BY <1>1, <1>4, <1>6
  <2>2. IsMemory(m) /\ KernelRight(m, k)
    BY <1>1
  <2> QED BY <1>3, <1>5, <2>1, <2>2, OtherSpace
<1>7. KernelRight(r, k)
  <2>1. /\ r.table[k.root] = m.table[k.root] /\ KernelTables(m, k) \subseteq DOMAIN m.table
        /\ HasEntry(r, k.root, PortalVpn)
        /\ Entry(r, k.root, PortalVpn) = Entry(m, k.root, PortalVpn)
    BY <1>1, <1>3, <1>5, KernelKept
  <2>2. IsTree(r, k.root)
    <3>1. k.root \in DOMAIN m.table /\ DOMAIN m.table \subseteq DOMAIN r.table
      BY <1>1, <1>5 DEF KernelRight, IsTree, Kept
    <3> QED BY <1>1, <2>1, <3>1 DEF KernelRight, IsTree, Leaf
  <2> QED BY <1>1, <2>1, <2>2 DEF KernelRight
<1>8. ASSUME NEW q \in Procs \ {p}, sp[q] # NoSpace
      PROVE  ApartFrom(r, s.root, sp[q].root) /\ ApartFrom(r, sp[q].root, s.root)
  <2>1. IsUser(m, sp[q].root)
    BY <1>1, <1>8 DEF SpaceRight
  <2>2. /\ \A f \in OwnTables(m, sp[q].root) : f \in Nat /\ f < m.next
        /\ \A f \in OwnFrames(m, sp[q].root) : f \in Nat /\ f < m.next
    BY <1>1, <2>1, OwnAreThere
  <2>3. m.next \in Nat
    BY <1>1 DEF IsMemory
  <2>4. \A f \in OwnTables(r, s.root) : f \in Nat /\ (f \in T \/ f >= m.next)
    <3>1. IsUser(r, s.root)
      BY <1>5 DEF SpaceRight
    <3> QED BY <1>0, <1>5, <3>1, OwnAreThere DEF r, s
  <2>5. \A f \in OwnFrames(r, s.root) :
          f \in Nat /\ ((sp[p] # NoSpace /\ f \in OwnFrames(m, sp[p].root)) \/ f >= m.next)
    <3>1. IsUser(r, s.root)
      BY <1>5 DEF SpaceRight
    <3> QED BY <1>0, <1>5, <3>1, OwnAreThere DEF r, s
  <2>6. OwnTables(r, s.root) \cap OwnTables(r, sp[q].root) = {}
    <3>1. ASSUME NEW f \in OwnTables(r, s.root), f \in OwnTables(m, sp[q].root) PROVE FALSE
      <4>1. f \notin T
        BY <1>4, <1>8, <3>1
      <4>2. f \in Nat /\ f >= m.next /\ f < m.next
        BY <2>2, <2>4, <3>1, <4>1
      <4> QED BY <2>3, <4>2
    <3> QED BY <1>6, <1>8, <3>1
  <2>7. OwnFrames(r, s.root) \cap OwnFrames(r, sp[q].root) = {}
    <3>1. ASSUME NEW f \in OwnFrames(r, s.root), f \in OwnFrames(m, sp[q].root) PROVE FALSE
      <4>1. sp[p] # NoSpace => f \notin OwnFrames(m, sp[p].root)
        BY <1>1, <1>8, <3>1 DEF ApartFrom
      <4>2. f \in Nat /\ f >= m.next /\ f < m.next
        BY <2>2, <2>5, <3>1, <4>1
      <4> QED BY <2>3, <4>2
    <3> QED BY <1>6, <1>8, <3>1
  <2> QED BY <2>6, <2>7 DEF ApartFrom
<1>9. \A q \in Procs : sp2[q] # NoSpace => SpaceRight(r, k, sp2[q], sk2[q])
  BY <1>2, <1>5, <1>6
<1>10. ASSUME NEW a \in Procs, NEW b \in Procs, sp2[a] # NoSpace, sp2[b] # NoSpace, a # b
       PROVE  ApartFrom(r, sp2[a].root, sp2[b].root)
  <2>1. CASE a = p
    BY <1>2, <1>8, <1>10, <2>1
  <2>2. CASE b = p
    BY <1>2, <1>8, <1>10, <2>2
  <2>3. CASE a # p /\ b # p
    BY <1>1, <1>2, <1>6, <1>10, <2>3 DEF ApartFrom
  <2> QED BY <2>1, <2>2, <2>3
<1>11. SpacesRight(r, k, sp2, sk2)
  BY <1>2, <1>5, <1>7, <1>9, <1>10 DEF SpacesRight
<1>12. \A q \in Procs \ {p} : ViewIn(r, sp[q]) = ViewIn(m, sp[q])
  BY <1>6 DEF ViewIn
<1> QED BY <1>11, <1>12 DEF Replaced, r, s, sp2, sk2

\* A process that ends has no space: the others stay.
LEMMA SpaceRemoved ==
  ASSUME NEW m, NEW k, NEW sp, NEW sk, SpacesRight(m, k, sp, sk), NEW p \in Procs, NEW threads
  PROVE  SpacesRight(m, k, [sp EXCEPT ![p] = NoSpace], [sk EXCEPT ![p] = threads])
<1> DEFINE sp2 == [sp EXCEPT ![p] = NoSpace]
           sk2 == [sk EXCEPT ![p] = threads]
<1>1. /\ IsMemory(m) /\ KernelRight(m, k)
      /\ sp \in [Procs -> [root : Nat, areas : Seq([start : Nat, end : Nat])]] /\ DOMAIN sk = Procs
      /\ \A q \in Procs : sp[q] # NoSpace => SpaceRight(m, k, sp[q], sk[q])
      /\ \A a, b \in Procs : sp[a] # NoSpace /\ sp[b] # NoSpace /\ a # b =>
           ApartFrom(m, sp[a].root, sp[b].root)
  BY DEF SpacesRight
<1>2. NoSpace \in [root : Nat, areas : Seq([start : Nat, end : Nat])]
  BY DEF NoSpace
<1>3. /\ sp2 \in [Procs -> [root : Nat, areas : Seq([start : Nat, end : Nat])]] /\ DOMAIN sk2 = Procs
      /\ \A q \in Procs : sp2[q] # NoSpace => q # p /\ sp2[q] = sp[q] /\ sk2[q] = sk[q]
  BY <1>1, <1>2
<1> HIDE DEF sp2, sk2
<1> QED BY <1>1, <1>3 DEF SpacesRight, sp2, sk2

\* A panic changes no space.
LEMMA FaultNoted ==
  ASSUME NEW m, NEW k, NEW sp, NEW sk, SpacesRight(m, k, sp, sk), NEW fault
  PROVE  LET r == [m EXCEPT !.fault = fault]
         IN /\ SpacesRight(r, k, sp, sk) /\ r.fault = fault /\ r.table = m.table
            /\ \A q \in Procs : ViewIn(r, sp[q]) = ViewIn(m, sp[q])
<1> DEFINE r == [m EXCEPT !.fault = fault]
<1>1. /\ IsMemory(m) /\ KernelRight(m, k)
      /\ sp \in [Procs -> [root : Nat, areas : Seq([start : Nat, end : Nat])]] /\ DOMAIN sk = Procs
      /\ \A q \in Procs : sp[q] # NoSpace => SpaceRight(m, k, sp[q], sk[q])
      /\ \A a, b \in Procs : sp[a] # NoSpace /\ sp[b] # NoSpace /\ a # b =>
           ApartFrom(m, sp[a].root, sp[b].root)
  BY DEF SpacesRight
<1>2. /\ r.next = m.next /\ r.table = m.table /\ r.page = m.page /\ r.fault = fault
      /\ DOMAIN r = {"next", "table", "page", "fault"}
  BY <1>1 DEF IsMemory
<1> HIDE DEF r
<1>3. Kept(m, r, {}) /\ IsMemory(r)
  BY <1>1, <1>2 DEF Kept, IsMemory
<1>4. ASSUME NEW q \in Procs, sp[q] # NoSpace
      PROVE  /\ SpaceRight(r, k, sp[q], sk[q])
             /\ OwnTables(r, sp[q].root) = OwnTables(m, sp[q].root)
             /\ OwnFrames(r, sp[q].root) = OwnFrames(m, sp[q].root)
             /\ ViewIn(r, sp[q]) = ViewIn(m, sp[q])
  <2>1. KernelTables(m, k) \cap {} = {} /\ OwnTables(m, sp[q].root) \cap {} = {}
    OBVIOUS
  <2> QED BY <1>1, <1>3, <1>4, <2>1, OtherSpace
<1>5. KernelRight(r, k)
  BY <1>1, <1>2 DEF KernelRight, IsTree, Leaf, HasEntry, Entry
<1>6. \A a, b \in Procs : sp[a] # NoSpace /\ sp[b] # NoSpace /\ a # b => ApartFrom(r, sp[a].root, sp[b].root)
  BY <1>1, <1>4 DEF ApartFrom
<1>7. SpacesRight(r, k, sp, sk)
  BY <1>1, <1>3, <1>4, <1>5, <1>6 DEF SpacesRight
<1>8. \A q \in Procs : ViewIn(r, sp[q]) = ViewIn(m, sp[q])
  BY <1>4 DEF ViewIn
<1> QED BY <1>2, <1>7, <1>8 DEF r

\* A space made by exec or fork may take any space's place.
LEMMA CompleteFits ==
  ASSUME NEW m, IsMemory(m), NEW k, KernelRight(m, k), NEW st, Complete(m, k, st),
         NEW threads, StacksRight(st.mem, st.space.root, threads), NEW old
  PROVE  /\ Fits(m, k, old, st, threads, {})
         /\ ViewIn(st.mem, st.space) = ViewOf(st.mem, st.space.root)
<1> DEFINE root == st.space.root
<1>1. /\ IsMemory(st.mem) /\ IsUser(st.mem, root) /\ Kept(m, st.mem, {})
      /\ \A f \in OwnTables(st.mem, root) : f >= m.next
      /\ \A f \in OwnFrames(st.mem, root) : f >= m.next
      /\ AreasRight(st.mem, root, st.space.areas)
      /\ st.space = [root |-> root, areas |-> st.space.areas]
      /\ PortalRight(st.mem, root, k)
  BY DEF Complete
<1>2. root \in OwnTables(st.mem, root) /\ root \in Nat
  BY <1>1, OwnAreThere DEF OwnTables
<1>3. root # 0
  <2>1. k.root \in Nat /\ k.root < m.next /\ m.next \in Nat
    BY DEF KernelRight, IsTree, IsMemory
  <2>2. root >= m.next
    BY <1>1, <1>2
  <2> HIDE DEF root
  <2> QED BY <1>2, <2>1, <2>2
<1>4. st.space.areas \in Seq([start : Nat, end : Nat])
  BY <1>1 DEF AreasRight
<1>5. st.space \in [root : Nat, areas : Seq([start : Nat, end : Nat])]
  <2> DEFINE S == Seq([start : Nat, end : Nat])
             a == st.space.areas
  <2>1. a \in S /\ st.space = [root |-> root, areas |-> a]
    BY <1>1, <1>4
  <2> HIDE DEF S, a, root
  <2>2. [root |-> root, areas |-> a] \in [root : Nat, areas : S]
    BY <1>2, <2>1
  <2> QED BY <2>1, <2>2 DEF S
<1>6. SpaceRight(st.mem, k, st.space, threads)
  BY <1>1, <1>3 DEF SpaceRight
<1>7. Fits(m, k, old, st, threads, {})
  BY <1>1, <1>5, <1>6 DEF Fits
<1>8. st.space # NoSpace
  BY <1>3 DEF NoSpace
<1> QED BY <1>7, <1>8 DEF ViewIn

\* So may a space with a new stack take its own, and what it shows has grown.
LEMMA StackFits ==
  ASSUME NEW m, IsMemory(m), Ok(m), NEW k, KernelRight(m, k), NEW s, s # NoSpace,
         NEW threads, SpaceRight(m, k, s, threads),
         NEW v \in StackVpns, RootIndex(v) \notin DOMAIN m.table[s.root],
         \A w \in StackVpns : RootIndex(w) \notin DOMAIN m.table[s.root] => w <= v
  PROVE  LET st == NewStack([mem |-> m, space |-> s], v)
         IN /\ st.mem.fault \in {"none", "heap"}
            /\ Ok(st.mem) => /\ Fits(m, k, s, st, threads \cup {v}, OwnTables(m, s.root))
                             /\ Private!Grown(ViewIn(m, s), ViewIn(st.mem, st.space))
<1> DEFINE root == s.root
           before == [mem |-> m, space |-> s]
           st == NewStack(before, v)
           area == Stack(v)
           contents == <<Zero, Zero>>
<1>1. /\ root # 0 /\ IsUser(m, root) /\ AreasRight(m, root, s.areas)
      /\ PortalRight(m, root, k) /\ StacksRight(m, root, threads)
  BY DEF SpaceRight
<1>2. /\ st.mem.fault \in {"none", "heap"}
      /\ Ok(st.mem) => /\ st.space.root = root
                       /\ Grown(m, st.mem, root, area, contents)
                       /\ AreasRight(st.mem, root, st.space.areas)
                       /\ StacksRight(st.mem, root, threads \cup {v})
  BY <1>1, StackDoes
<1>3. st.space = [root |-> root, areas |-> Append(s.areas, area)]
  <2>1. before.space = s
    OBVIOUS
  <2> QED BY <2>1 DEF NewStack, MapNew, MapExtern, WithMemory
<1>4. /\ v \in UserVpns /\ v + 1 \in UserVpns /\ v \in Nat
      /\ IsArea(area) /\ area.start = v /\ area.end - area.start = 2
      /\ \A w \in Int : w \in Pages(area) <=> w \in {v, v + 1}
      /\ \A w \in UserVpns : w \in Int
  BY StackSearch, UserPages
<1> HIDE DEF st, before, area
<1>5. ASSUME Ok(st.mem)
      PROVE  /\ Fits(m, k, s, st, threads \cup {v}, OwnTables(m, root))
             /\ Private!Grown(ViewIn(m, s), ViewIn(st.mem, st.space))
  <2> DEFINE r == st.mem
  <2>1. /\ st.space.root = root /\ Grown(m, r, root, area, contents)
        /\ AreasRight(r, root, st.space.areas) /\ StacksRight(r, root, threads \cup {v})
    BY <1>2, <1>5
  <2>2. /\ IsMemory(r) /\ IsUser(r, root) /\ Kept(m, r, OwnTables(m, root))
        /\ \A f \in OwnTables(r, root) : f \in OwnTables(m, root) \/ f >= m.next
        /\ Roots - 1 \in DOMAIN m.table[root] =>
             /\ Roots - 1 \in DOMAIN r.table[root]
             /\ r.table[root][Roots - 1] = m.table[root][Roots - 1]
    BY <2>1 DEF Grown
  <2>3. /\ KernelTables(m, k) \subseteq DOMAIN m.table
        /\ r.table[k.root] = m.table[k.root] /\ KernelTables(r, k) = KernelTables(m, k)
    BY <1>1, <2>2, KernelKept DEF PortalRight
  <2>4. PortalRight(r, root, k)
    <3>1. \A f \in KernelTables(m, k) : f \in Nat /\ f < m.next
      BY <2>3 DEF IsMemory
    <3>2. \A f \in OwnTables(r, root) : f \in Nat
      BY <2>2, OwnAreThere
    <3>3. m.next \in Nat
      BY DEF IsMemory
    <3>4. OwnTables(r, root) \cap KernelTables(r, k) = {}
      BY <1>1, <2>2, <2>3, <3>1, <3>2, <3>3 DEF PortalRight
    <3> QED BY <1>1, <2>2, <2>3, <3>4 DEF PortalRight
  <2>5. \A f \in OwnFrames(r, root) : f \in OwnFrames(m, root) \/ f >= m.next
    <3>1. ASSUME NEW w \in UserVpns, HasEntry(r, root, w)
          PROVE  Translate(r, root, w) \in OwnFrames(m, root) \/ Translate(r, root, w) >= m.next
      <4>1. CASE HasEntry(m, root, w)
        BY <2>1, <4>1 DEF Grown, OwnFrames, Translate
      <4>2. CASE w \in Pages(area)
        <5>1. Translate(r, root, w) = m.next + w - area.start
          BY <2>1, <4>2 DEF Grown
        <5>2. w \in Nat /\ area.start \in Nat /\ w - area.start \in Nat /\ m.next \in Nat
          BY <1>4, <4>2, AreaPages DEF IsMemory
        <5> QED BY <5>1, <5>2
      <4> QED BY <2>1, <3>1, <4>1, <4>2 DEF Grown
    <3> QED BY <3>1 DEF OwnFrames
  <2>6. root \in Nat
    BY <1>1, OwnAreThere DEF OwnTables
  <2>7. st.space \in [root : Nat, areas : Seq([start : Nat, end : Nat])]
    <3> DEFINE S == Seq([start : Nat, end : Nat])
               a == Append(s.areas, area)
    <3>1. a \in S
      BY <1>3, <2>1 DEF AreasRight
    <3> HIDE DEF S, a, root
    <3>2. [root |-> root, areas |-> a] \in [root : Nat, areas : S]
      BY <2>6, <3>1
    <3> QED BY <1>3, <3>2 DEF S, a
  <2>8. SpaceRight(r, k, st.space, threads \cup {v})
    BY <1>1, <2>1, <2>2, <2>4 DEF SpaceRight
  <2>9. Fits(m, k, s, st, threads \cup {v}, OwnTables(m, root))
    BY <2>1, <2>2, <2>5, <2>7, <2>8 DEF Fits
  <2>10. /\ ViewIn(m, s) = ViewOf(m, root) /\ ViewIn(r, st.space) = ViewOf(r, root)
    BY <1>1, <2>1 DEF ViewIn, NoSpace
  <2>11. \A w \in UserVpns :
           ViewOf(r, root)[w] = IF w \in {v, v + 1} THEN Zero ELSE ViewOf(m, root)[w]
    <3>1. \A w \in UserVpns :
            ViewOf(r, root)[w] = IF w \in Pages(area) THEN contents[w - area.start + 1]
                                 ELSE ViewOf(m, root)[w]
      BY <1>1, <1>4, <2>1, ViewGrows
    <3>2. \A w \in Pages(area) : w - area.start + 1 \in 1 .. 2
      BY <1>4, AreaPages
    <3>3. \A i \in 1 .. 2 : contents[i] = Zero
      OBVIOUS
    <3> HIDE DEF contents
    <3> QED BY <1>4, <3>1, <3>2, <3>3
  <2>12. ViewOf(m, root)[v] = "unmapped" /\ ViewOf(m, root)[v + 1] = "unmapped"
    <3>1. v \in Pages(area) /\ v + 1 \in Pages(area)
      BY <1>4
    <3>2. ~HasEntry(m, root, v) /\ ~HasEntry(m, root, v + 1)
      BY <2>1, <3>1 DEF Grown
    <3> QED BY <1>4, <3>2 DEF ViewOf
  <2> DEFINE b == ViewOf(m, root)
             a == ViewOf(r, root)
  <2>13. a = [b EXCEPT ![v] = Zero, ![v + 1] = Zero]
    <3>1. DOMAIN b = UserVpns /\ a = [w \in UserVpns |-> a[w]] /\ b = [w \in UserVpns |-> b[w]]
      BY DEF ViewOf
    <3> HIDE DEF a, b
    <3>2. \A w \in UserVpns : a[w] = IF w \in {v, v + 1} THEN Zero ELSE b[w]
      BY <2>11 DEF a, b
    <3> QED BY <1>4, <3>1, <3>2
  <2>14. Private!Grown(b, a)
    <3> HIDE DEF a, b
    <3>1. b[v] = "unmapped" /\ b[v + 1] = "unmapped"
      BY <2>12 DEF b
    <3> QED BY <1>4, <2>13, <3>1 DEF Private!Grown
  <2> QED BY <2>9, <2>10, <2>14
<1> QED BY <1>2, <1>5 DEF st, before

\* So may a space without a range, and what it shows has shrunk.
LEMMA UnmapFits ==
  ASSUME NEW m, IsMemory(m), NEW k, KernelRight(m, k), NEW s, s # NoSpace,
         NEW threads, SpaceRight(m, k, s, threads), NEW range \in UnmapRanges
  PROVE  LET st == Unmap([mem |-> m, space |-> s], range)
         IN /\ st.mem.fault = m.fault
            /\ Fits(m, k, s, st, threads, OwnTables(m, s.root))
            /\ Private!Shrunk(ViewIn(m, s), ViewIn(st.mem, st.space))
<1> DEFINE root == s.root
           st == Unmap([mem |-> m, space |-> s], range)
           r == st.mem
<1>1. /\ root # 0 /\ IsUser(m, root) /\ AreasRight(m, root, s.areas)
      /\ PortalRight(m, root, k) /\ StacksRight(m, root, threads)
  BY DEF SpaceRight
<1>2. /\ r.fault = m.fault /\ st.space.root = root
      /\ IsMemory(r) /\ IsUser(r, root) /\ Kept(m, r, OwnTables(m, root))
      /\ r.table[root] = m.table[root] /\ r.page = m.page
      /\ \A v \in UserVpns : /\ HasEntry(r, root, v) <=> HasEntry(m, root, v) /\ v \notin Pages(range)
                             /\ HasEntry(r, root, v) => Entry(r, root, v) = Entry(m, root, v)
      /\ AreasRight(r, root, st.space.areas) /\ StacksRight(r, root, threads)
  BY <1>1, UnmapDoes
<1>3. st.space = [root |-> root, areas |-> st.space.areas]
  BY DEF Unmap
<1> HIDE DEF st, r
<1>4. /\ KernelTables(m, k) \subseteq DOMAIN m.table
      /\ r.table[k.root] = m.table[k.root] /\ KernelTables(r, k) = KernelTables(m, k)
  BY <1>1, <1>2, KernelKept DEF PortalRight
<1>5. OwnTables(r, root) = OwnTables(m, root)
  BY <1>2 DEF OwnTables, Leaf
<1>6. PortalRight(r, root, k)
  BY <1>1, <1>2, <1>4, <1>5 DEF PortalRight
<1>7. OwnFrames(r, root) \subseteq OwnFrames(m, root)
  BY <1>2 DEF OwnFrames, Translate
<1>8. root \in Nat
  BY <1>1, OwnAreThere DEF OwnTables
<1>9. st.space \in [root : Nat, areas : Seq([start : Nat, end : Nat])]
  <2> DEFINE S == Seq([start : Nat, end : Nat])
             a == st.space.areas
  <2>1. a \in S /\ st.space = [root |-> root, areas |-> a]
    BY <1>2, <1>3 DEF AreasRight
  <2> HIDE DEF S, a, root
  <2>2. [root |-> root, areas |-> a] \in [root : Nat, areas : S]
    BY <1>8, <2>1
  <2> QED BY <2>1, <2>2 DEF S
<1>10. SpaceRight(r, k, st.space, threads)
  BY <1>1, <1>2, <1>6 DEF SpaceRight
<1>11. Fits(m, k, s, st, threads, OwnTables(m, root))
  BY <1>2, <1>5, <1>7, <1>9, <1>10 DEF Fits, r
<1>12. /\ ViewIn(m, s) = ViewOf(m, root) /\ ViewIn(r, st.space) = ViewOf(r, root)
  BY <1>1, <1>2 DEF ViewIn, NoSpace
<1>13. \A v \in UserVpns : ViewOf(r, root)[v] \in {ViewOf(m, root)[v], "unmapped"}
  BY <1>2 DEF ViewOf, Translate
<1>14. Private!Shrunk(ViewIn(m, s), ViewIn(r, st.space))
  BY <1>12, <1>13 DEF Private!Shrunk
<1> QED BY <1>2, <1>11, <1>14 DEF st, r

\* r is memory m after a store of a value to page v of process p.
StoresPage(m, r, k, sp, sk, p, v, value) ==
  /\ SpacesRight(r, k, sp, sk) /\ r.table = m.table /\ r.fault = m.fault
  /\ \A q \in Procs \ {p} : ViewIn(r, sp[q]) = ViewIn(m, sp[q])
  /\ ViewIn(m, sp[p])[v] # "unmapped" /\ ViewIn(r, sp[p])[v] = value
  /\ ViewIn(r, sp[p]) = [ViewIn(m, sp[p]) EXCEPT ![v] = value]

\* A store changes one page of one process.
LEMMA PageStored ==
  ASSUME NEW m, NEW k, NEW sp, NEW sk, SpacesRight(m, k, sp, sk), NEW p \in Procs, sp[p] # NoSpace,
         NEW v \in UserVpns, HasEntry(m, sp[p].root, v), NEW value, value # "unmapped"
  PROVE  StoresPage(m, [m EXCEPT !.page[Translate(m, sp[p].root, v)] = value], k, sp, sk, p, v, value)
<1> DEFINE f == Translate(m, sp[p].root, v)
           r == [m EXCEPT !.page[f] = value]
<1>1. /\ IsMemory(m) /\ KernelRight(m, k)
      /\ sp \in [Procs -> [root : Nat, areas : Seq([start : Nat, end : Nat])]] /\ DOMAIN sk = Procs
      /\ \A q \in Procs : sp[q] # NoSpace => SpaceRight(m, k, sp[q], sk[q])
      /\ \A a, b \in Procs : sp[a] # NoSpace /\ sp[b] # NoSpace /\ a # b =>
           ApartFrom(m, sp[a].root, sp[b].root)
  BY DEF SpacesRight
<1>2. f \in DOMAIN m.page
  BY <1>1 DEF SpaceRight, IsUser
<1> HIDE DEF f
<1>3. /\ r.next = m.next /\ r.table = m.table /\ r.fault = m.fault
      /\ DOMAIN r = {"next", "table", "page", "fault"}
      /\ DOMAIN r.page = DOMAIN m.page /\ r.page[f] = value
      /\ \A g \in DOMAIN m.page \ {f} : r.page[g] = m.page[g]
  BY <1>1, <1>2 DEF IsMemory
<1> HIDE DEF r
<1>4. IsMemory(r)
  BY <1>1, <1>3 DEF IsMemory
<1>5. \A root, w : /\ HasEntry(r, root, w) <=> HasEntry(m, root, w)
                   /\ Entry(r, root, w) = Entry(m, root, w)
                   /\ Translate(r, root, w) = Translate(m, root, w)
  BY <1>3 DEF HasEntry, Entry, Translate
<1>6. \A root : /\ IsTree(r, root) <=> IsTree(m, root)
                /\ SameEntries(m, root, r, root)
                /\ OwnTables(r, root) = OwnTables(m, root)
                /\ PortalRight(r, root, k) <=> PortalRight(m, root, k)
  BY <1>3, <1>5 DEF IsTree, Leaf, SameEntries, OwnTables, PortalRight, KernelTables
<1>7. \A root : IsUser(m, root) => IsUser(r, root)
  BY <1>3, <1>5, <1>6 DEF IsUser
<1>8. ASSUME NEW q \in Procs, sp[q] # NoSpace
      PROVE  SpaceRight(r, k, sp[q], sk[q]) /\ OwnFrames(r, sp[q].root) = OwnFrames(m, sp[q].root)
  <2>1. SpaceRight(m, k, sp[q], sk[q]) /\ SameEntries(m, sp[q].root, r, sp[q].root)
    BY <1>1, <1>6, <1>8
  <2>2. /\ AreasRight(r, sp[q].root, sp[q].areas) /\ StacksRight(r, sp[q].root, sk[q])
        /\ OwnFrames(r, sp[q].root) = OwnFrames(m, sp[q].root)
    BY <2>1, EntriesDecide DEF SpaceRight
  <2> QED BY <1>6, <1>7, <2>1, <2>2 DEF SpaceRight
<1>9. KernelRight(r, k)
  BY <1>1, <1>5, <1>6 DEF KernelRight
<1>10. SpacesRight(r, k, sp, sk)
  <2>1. \A a, b \in Procs : sp[a] # NoSpace /\ sp[b] # NoSpace /\ a # b => ApartFrom(r, sp[a].root, sp[b].root)
    BY <1>1, <1>6, <1>8 DEF ApartFrom
  <2> QED BY <1>1, <1>4, <1>8, <1>9, <2>1 DEF SpacesRight
<1>11. ASSUME NEW q \in Procs \ {p} PROVE ViewIn(r, sp[q]) = ViewIn(m, sp[q])
  <2>1. CASE sp[q] # NoSpace
    <3>1. f \in OwnFrames(m, sp[p].root)
      BY DEF f, OwnFrames
    <3>2. f \notin OwnFrames(m, sp[q].root)
      BY <1>1, <2>1, <3>1 DEF ApartFrom
    <3>3. \A w \in UserVpns : HasEntry(m, sp[q].root, w) =>
            Translate(m, sp[q].root, w) \in DOMAIN m.page \ {f}
      BY <1>1, <2>1, <3>2 DEF SpaceRight, IsUser, OwnFrames
    <3>4. ViewOf(r, sp[q].root) = ViewOf(m, sp[q].root)
      BY <1>3, <1>5, <3>3 DEF ViewOf
    <3> QED BY <3>4 DEF ViewIn
  <2> QED BY <2>1 DEF ViewIn
<1> DEFINE root == sp[p].root
<1>12. /\ ViewIn(m, sp[p]) = ViewOf(m, root) /\ ViewIn(r, sp[p]) = ViewOf(r, root)
  BY DEF ViewIn
<1>13. /\ ViewOf(m, root)[v] # "unmapped" /\ ViewOf(r, root)[v] = value
  <2>1. ViewOf(m, root)[v] = m.page[f] /\ ViewOf(r, root)[v] = r.page[f]
    BY <1>5 DEF ViewOf, f
  <2> QED BY <1>1, <1>2, <1>3, <2>1 DEF IsMemory
<1>14. \A w \in UserVpns \ {v} : ViewOf(r, root)[w] = ViewOf(m, root)[w]
  <2>1. \A w \in UserVpns \ {v} : HasEntry(m, root, w) => Translate(m, root, w) \in DOMAIN m.page \ {f}
    BY <1>1 DEF SpaceRight, IsUser, f
  <2> QED BY <1>3, <1>5, <2>1 DEF ViewOf
<1>15. ViewOf(r, root) = [ViewOf(m, root) EXCEPT ![v] = value]
  <2> DEFINE a == ViewOf(r, root)
             b == ViewOf(m, root)
  <2>1. DOMAIN b = UserVpns /\ a = [w \in UserVpns |-> a[w]] /\ b = [w \in UserVpns |-> b[w]]
    BY DEF ViewOf
  <2>2. a[v] = value /\ \A w \in UserVpns \ {v} : a[w] = b[w]
    BY <1>13, <1>14
  <2> HIDE DEF a, b
  <2>3. a = [b EXCEPT ![v] = value]
    BY <2>1, <2>2
  <2> QED BY <2>3 DEF a, b
<1>16. StoresPage(m, r, k, sp, sk, p, v, value)
  BY <1>3, <1>10, <1>11, <1>12, <1>13, <1>15 DEF StoresPage
<1> QED BY <1>16 DEF r, f

----------------------------------------------------------------------------
\* The actions.

Seen(p) == ViewIn(mem, spaces[p])

\* What PrivateMemory lets happen to the memory of p, and only to it.
SeenStep(p) ==
  /\ \A q \in Procs \ {p} : Seen(q)' = Seen(q)
  /\ \/ Seen(p)' \in {Image(program) : program \in Programs}
     \/ Seen(p) = Private!Nothing /\ \E q \in Procs : Seen(p)' = Seen(q)
     \/ Private!Grown(Seen(p), Seen(p)')
     \/ Private!Shrunk(Seen(p), Seen(p)')
     \/ Private!Stored(Seen(p), Seen(p)')

AllSeenStay == \A q \in Procs : Seen(q)' = Seen(q)

\* A panic shows in no memory, and an assertion fails in none but a full space.
LEMMA FaultStep ==
  ASSUME MemoryInv, Ok(mem), NEW fault, mem' = Failed(mem, fault), UNCHANGED <<kernel, spaces, stacks>>,
         fault = "assertion" =>
           \E p \in Procs : Alive(p) /\ 0 .. UserRoots - 1 \subseteq DOMAIN mem.table[spaces[p].root]
  PROVE  MemoryInv' /\ AllSeenStay
<1> DEFINE r == [mem EXCEPT !.fault = fault]
<1>1. mem' = r
  BY DEF Failed
<1>2. SpacesRight(mem, kernel, spaces, stacks)
  BY DEF MemoryInv
<1>3. /\ SpacesRight(r, kernel, spaces, stacks) /\ r.fault = fault /\ r.table = mem.table
      /\ \A q \in Procs : ViewIn(r, spaces[q]) = ViewIn(mem, spaces[q])
  BY <1>2, FaultNoted
<1> HIDE DEF r
<1>4. SpacesRight(mem, kernel, spaces, stacks)'
  BY <1>1, <1>3
<1>5. PanicNeedsFullRoots'
  BY <1>1, <1>3 DEF PanicNeedsFullRoots, Alive
<1>6. AllSeenStay
  BY <1>1, <1>3 DEF AllSeenStay, Seen
<1> QED BY <1>4, <1>5, <1>6 DEF MemoryInv

\* Process p has got what st holds, or nothing has changed but for a panic.
Landed(p, st) ==
  /\ MemoryInv'
  /\ \/ AllSeenStay
     \/ /\ Ok(st.mem) /\ Seen(p)' = ViewIn(st.mem, st.space)
        /\ \A q \in Procs \ {p} : Seen(q)' = Seen(q)

\* What a handler leaves: a space that fits, or a heap that was too small.
LEMMA LeavesDoes ==
  ASSUME MemoryInv, Ok(mem), NEW p \in Procs, NEW st, NEW threads, NEW T,
         st.mem.fault \in {"none", "heap"},
         Ok(st.mem) => Fits(mem, kernel, spaces[p], st, threads, T),
         Leaves(p, st, threads)
  PROVE  Landed(p, st)
<1>1. SpacesRight(mem, kernel, spaces, stacks)
  BY DEF MemoryInv
<1>2. CASE Ok(st.mem)
  <2>1. /\ mem' = st.mem /\ kernel' = kernel
        /\ spaces' = [spaces EXCEPT ![p] = st.space] /\ stacks' = [stacks EXCEPT ![p] = threads]
    BY <1>2 DEF Leaves
  <2>2. /\ SpacesRight(st.mem, kernel, [spaces EXCEPT ![p] = st.space], [stacks EXCEPT ![p] = threads])
        /\ \A q \in Procs \ {p} : ViewIn(st.mem, spaces[q]) = ViewIn(mem, spaces[q])
    <3>1. Fits(mem, kernel, spaces[p], st, threads, T)
      BY <1>2
    <3>2. Replaced(mem, kernel, spaces, stacks, p, st, threads)
      BY <1>1, <3>1, SpaceReplaced
    <3> QED BY <3>2 DEF Replaced
  <2>3. SpacesRight(mem, kernel, spaces, stacks)'
    BY <2>1, <2>2
  <2>4. PanicNeedsFullRoots'
    BY <1>2, <2>1 DEF PanicNeedsFullRoots, Ok
  <2>5. DOMAIN spaces = Procs
    BY <1>1 DEF SpacesRight
  <2>6. Seen(p)' = ViewIn(st.mem, st.space)
    BY <2>1, <2>5 DEF Seen
  <2>7. \A q \in Procs \ {p} : Seen(q)' = Seen(q)
    BY <2>1, <2>2, <2>5 DEF Seen
  <2> QED BY <1>2, <2>3, <2>4, <2>6, <2>7 DEF MemoryInv, Landed
<1>3. CASE ~Ok(st.mem)
  <2>1. mem' = Failed(mem, st.mem.fault) /\ UNCHANGED <<kernel, spaces, stacks>>
    BY <1>3 DEF Leaves
  <2>2. st.mem.fault # "assertion"
    OBVIOUS
  <2> QED BY <2>1, <2>2, FaultStep DEF Landed
<1> QED BY <1>2, <1>3

\* exec.
LEMMA ExecStep ==
  ASSUME MemoryInv, NEW p \in Procs, NEW program \in Programs, Exec(p, program)
  PROVE  MemoryInv' /\ (AllSeenStay \/ SeenStep(p))
<1> DEFINE st == FromElf(mem, kernel, program)
<1>1. Ok(mem) /\ mem.fault \in {"none", "heap"} /\ Leaves(p, st, {StackTop - 2})
  BY DEF Exec, Runs, Ok
<1>2. IsMemory(mem) /\ KernelRight(mem, kernel)
  BY DEF MemoryInv, SpacesRight
<1>3. /\ st.mem.fault \in {"none", "heap"}
      /\ Ok(st.mem) => /\ Complete(mem, kernel, st)
                       /\ ViewOf(st.mem, st.space.root) = Image(program)
                       /\ StacksRight(st.mem, st.space.root, {StackTop - 2})
  BY <1>1, <1>2, FromElfDoes
<1> HIDE DEF st
<1>4. Ok(st.mem) => /\ Fits(mem, kernel, spaces[p], st, {StackTop - 2}, {})
                    /\ ViewIn(st.mem, st.space) = Image(program)
  BY <1>2, <1>3, CompleteFits
<1>5. Landed(p, st)
  BY <1>1, <1>3, <1>4, LeavesDoes
<1> QED BY <1>4, <1>5 DEF SeenStep, Landed

\* fork.
LEMMA ForkStep ==
  ASSUME MemoryInv, NEW p \in Procs, NEW c \in Procs, Fork(p, c)
  PROVE  MemoryInv' /\ (AllSeenStay \/ SeenStep(c))
<1> DEFINE st == MapPortal(CloneSelf(spaces[p], NewSpace(mem)), kernel)
<1>1. /\ Ok(mem) /\ mem.fault \in {"none", "heap"} /\ Leaves(c, st, {StackTop - 2})
      /\ spaces[p] # NoSpace /\ spaces[c] = NoSpace
  BY DEF Fork, Runs, Ok, Alive
<1>2. IsMemory(mem) /\ KernelRight(mem, kernel) /\ SpaceRight(mem, kernel, spaces[p], stacks[p])
  BY <1>1 DEF MemoryInv, SpacesRight
<1>3. /\ st.mem.fault \in {"none", "heap"}
      /\ Ok(st.mem) => /\ Complete(mem, kernel, st)
                       /\ ViewOf(st.mem, st.space.root) = ViewOf(mem, spaces[p].root)
                       /\ StacksRight(st.mem, st.space.root, {StackTop - 2})
  BY <1>1, <1>2, CloneDoes DEF SpaceRight
<1> HIDE DEF st
<1>4. Ok(st.mem) => /\ Fits(mem, kernel, spaces[c], st, {StackTop - 2}, {})
                    /\ ViewIn(st.mem, st.space) = ViewOf(mem, spaces[p].root)
  BY <1>2, <1>3, CompleteFits
<1>5. Seen(p) = ViewOf(mem, spaces[p].root) /\ Seen(c) = Private!Nothing
  BY <1>1 DEF Seen, ViewIn, Private!Nothing
<1>6. Landed(c, st)
  BY <1>1, <1>3, <1>4, LeavesDoes
<1> QED BY <1>4, <1>5, <1>6 DEF SeenStep, Landed

\* thread_create.
LEMMA ThreadCreateStep ==
  ASSUME MemoryInv, NEW p \in Procs, ThreadCreate(p)
  PROVE  MemoryInv' /\ (AllSeenStay \/ SeenStep(p))
<1> DEFINE free == FreeStackVpns(p)
           vpn == CHOOSE v \in free : \A w \in free : w <= v
           st == NewStack([mem |-> mem, space |-> spaces[p]], vpn)
           threads == stacks[p] \cup {vpn}
<1>1. Ok(mem) /\ spaces[p] # NoSpace /\ Alive(p)
  BY DEF ThreadCreate, Runs, Alive
<1>2. IsMemory(mem) /\ KernelRight(mem, kernel) /\ SpaceRight(mem, kernel, spaces[p], stacks[p])
  BY <1>1 DEF MemoryInv, SpacesRight
<1>3. \A v : v \in free <=> v \in StackVpns /\ RootIndex(v) \notin DOMAIN mem.table[spaces[p].root]
  BY DEF FreeStackVpns
<1>4. CASE free = {}
  <2>1. mem' = Failed(mem, "assertion") /\ UNCHANGED <<kernel, spaces, stacks>>
    BY <1>4 DEF ThreadCreate
  <2>2. ASSUME NEW i \in 0 .. UserRoots - 1 PROVE i \in DOMAIN mem.table[spaces[p].root]
    <3>1. PICK v \in StackVpns : RootIndex(v) = i
      BY StackSearch
    <3> QED BY <1>3, <1>4, <3>1
  <2> QED BY <1>1, <2>1, <2>2, FaultStep
<1>5. CASE free # {}
  <2>1. Leaves(p, st, threads)
    BY <1>5, Zenon DEF ThreadCreate
  <2>2. vpn \in free /\ \A w \in free : w <= vpn
    <3> HIDE DEF free
    <3> DEFINE S == {StackTop - v : v \in free}
    <3>1. \A v \in free : v \in Nat /\ StackTop - v \in Nat
      BY <1>3, UserPages DEF StackVpns
    <3>2. S \in SUBSET Nat /\ S # {}
      BY <1>5, <3>1
    <3>3. PICK x \in S : \A y \in S : x <= y
      <4> HIDE DEF S
      <4> QED BY <3>2, MinMember
    <3>4. PICK v \in free : x = StackTop - v
      OBVIOUS
    <3>5. \A w \in free : w <= v
      <4>1. \A w \in free : StackTop - v <= StackTop - w
        BY <3>3, <3>4
      <4>2. StackTop \in Int
        BY UserPages
      <4> QED BY <3>1, <4>1, <4>2
    <3> QED BY <3>5
  <2> HIDE DEF vpn, free
  <2>3. /\ vpn \in StackVpns /\ RootIndex(vpn) \notin DOMAIN mem.table[spaces[p].root]
        /\ \A w \in StackVpns : RootIndex(w) \notin DOMAIN mem.table[spaces[p].root] => w <= vpn
    BY <1>3, <2>2
  <2>4. /\ st.mem.fault \in {"none", "heap"}
        /\ Ok(st.mem) => /\ Fits(mem, kernel, spaces[p], st, threads, OwnTables(mem, spaces[p].root))
                         /\ Private!Grown(ViewIn(mem, spaces[p]), ViewIn(st.mem, st.space))
    BY <1>1, <1>2, <2>3, StackFits
  <2> HIDE DEF st, threads
  <2>5. Landed(p, st)
    BY <1>1, <2>1, <2>4, LeavesDoes
  <2>6. Ok(st.mem) => Private!Grown(Seen(p), ViewIn(st.mem, st.space))
    BY <2>4 DEF Seen
  <2>7. ASSUME Ok(st.mem), Seen(p)' = ViewIn(st.mem, st.space) PROVE Private!Grown(Seen(p), Seen(p)')
    BY <2>6, <2>7
  <2> QED BY <2>5, <2>7 DEF SeenStep, Landed
<1> QED BY <1>4, <1>5

\* A process ends.
LEMMA EndStep ==
  ASSUME MemoryInv, NEW p \in Procs, End(p)
  PROVE  MemoryInv' /\ SeenStep(p)
<1>1. /\ Ok(mem) /\ mem' = mem /\ kernel' = kernel
      /\ spaces' = [spaces EXCEPT ![p] = NoSpace] /\ stacks' = [stacks EXCEPT ![p] = {}]
  BY DEF End, Runs
<1>2. SpacesRight(mem, kernel, spaces, stacks)
  BY DEF MemoryInv
<1>3. SpacesRight(mem, kernel, [spaces EXCEPT ![p] = NoSpace], [stacks EXCEPT ![p] = {}])
  BY <1>2, SpaceRemoved
<1>4. SpacesRight(mem, kernel, spaces, stacks)'
  BY <1>1, <1>3
<1>5. PanicNeedsFullRoots'
  BY <1>1 DEF PanicNeedsFullRoots, Ok
<1>6. DOMAIN spaces = Procs
  BY <1>2 DEF SpacesRight
<1>7. \A q \in Procs \ {p} : Seen(q)' = Seen(q)
  BY <1>1, <1>6 DEF Seen
<1>8. \A v \in UserVpns : Seen(p)'[v] = "unmapped"
  BY <1>1, <1>6 DEF Seen, ViewIn
<1>9. Private!Shrunk(Seen(p), Seen(p)')
  BY <1>8 DEF Private!Shrunk
<1> QED BY <1>4, <1>5, <1>7, <1>9 DEF MemoryInv, SeenStep

\* unmap.
LEMMA UnmapStep ==
  ASSUME MemoryInv, NEW p \in Procs, NEW range \in UnmapRanges, UnmapRange(p, range)
  PROVE  MemoryInv' /\ (AllSeenStay \/ SeenStep(p))
<1> DEFINE st == Unmap([mem |-> mem, space |-> spaces[p]], range)
<1>1. Ok(mem) /\ mem.fault = "none" /\ spaces[p] # NoSpace /\ Leaves(p, st, stacks[p])
  BY DEF UnmapRange, Runs, Alive, Ok
<1>2. IsMemory(mem) /\ KernelRight(mem, kernel) /\ SpaceRight(mem, kernel, spaces[p], stacks[p])
  BY <1>1 DEF MemoryInv, SpacesRight
<1>3. /\ st.mem.fault = mem.fault
      /\ Fits(mem, kernel, spaces[p], st, stacks[p], OwnTables(mem, spaces[p].root))
      /\ Private!Shrunk(ViewIn(mem, spaces[p]), ViewIn(st.mem, st.space))
  BY <1>1, <1>2, UnmapFits
<1> HIDE DEF st
<1>4. Landed(p, st)
  BY <1>1, <1>3, LeavesDoes
<1>5. Private!Shrunk(Seen(p), ViewIn(st.mem, st.space))
  BY <1>3 DEF Seen
<1>6. ASSUME Seen(p)' = ViewIn(st.mem, st.space) PROVE Private!Shrunk(Seen(p), Seen(p)')
  BY <1>5, <1>6
<1> QED BY <1>4, <1>6 DEF SeenStep, Landed

\* A store.
LEMMA StoreStep ==
  ASSUME MemoryInv, NEW p \in Procs, NEW v \in StoredPages, NEW value \in Values, Store(p, v, value)
  PROVE  MemoryInv' /\ SeenStep(p)
<1> DEFINE r == [mem EXCEPT !.page[Translate(mem, spaces[p].root, v)] = value]
<1>1. /\ Ok(mem) /\ spaces[p] # NoSpace /\ HasEntry(mem, spaces[p].root, v)
      /\ mem' = r /\ kernel' = kernel /\ spaces' = spaces /\ stacks' = stacks
  BY DEF Store, Runs, Alive, Translates
<1>2. v \in UserVpns /\ value # "unmapped"
  BY ContentsAssumption
<1>3. SpacesRight(mem, kernel, spaces, stacks)
  BY DEF MemoryInv
<1>a. StoresPage(mem, r, kernel, spaces, stacks, p, v, value)
  BY <1>1, <1>2, <1>3, PageStored
<1> HIDE DEF r
<1>4. /\ SpacesRight(r, kernel, spaces, stacks) /\ r.table = mem.table /\ r.fault = mem.fault
      /\ \A q \in Procs \ {p} : ViewIn(r, spaces[q]) = ViewIn(mem, spaces[q])
      /\ ViewIn(mem, spaces[p])[v] # "unmapped" /\ ViewIn(r, spaces[p])[v] = value
      /\ ViewIn(r, spaces[p]) = [ViewIn(mem, spaces[p]) EXCEPT ![v] = value]
  BY <1>a DEF StoresPage
<1>5. SpacesRight(mem, kernel, spaces, stacks)'
  BY <1>1, <1>4
<1>6. PanicNeedsFullRoots'
  BY <1>1, <1>4 DEF PanicNeedsFullRoots, Ok
<1>7. \A q \in Procs \ {p} : Seen(q)' = Seen(q)
  BY <1>1, <1>4 DEF Seen
<1>8. /\ Seen(p)[v] # "unmapped" /\ Seen(p)'[v] = value
      /\ Seen(p)' = [Seen(p) EXCEPT ![v] = value]
  BY <1>1, <1>4 DEF Seen
<1>9. Private!Stored(Seen(p), Seen(p)')
  <2>1. Seen(p)[v] # "unmapped" /\ Seen(p)'[v] \in Values /\ Seen(p)' = [Seen(p) EXCEPT ![v] = Seen(p)'[v]]
    BY <1>8
  <2> QED BY <1>2, <2>1 DEF Private!Stored
<1> QED BY <1>5, <1>6, <1>7, <1>9 DEF MemoryInv, SeenStep

\* Any step.
LEMMA AnyStep ==
  ASSUME MemoryInv, [Next]_vars
  PROVE  MemoryInv' /\ (AllSeenStay \/ \E p \in Procs : SeenStep(p))
<1>1. ASSUME NEW p \in Procs, Step(p)
      PROVE  MemoryInv' /\ (AllSeenStay \/ \E q \in Procs : SeenStep(q))
  <2>1. CASE \E program \in Programs : Exec(p, program)
    BY <2>1, ExecStep
  <2>2. CASE \E c \in Procs : Fork(p, c)
    BY <2>2, ForkStep
  <2>3. CASE ThreadCreate(p)
    BY <2>3, ThreadCreateStep
  <2>4. CASE End(p)
    BY <2>4, EndStep
  <2>5. CASE \E range \in UnmapRanges : UnmapRange(p, range)
    BY <2>5, UnmapStep
  <2>6. CASE \E v \in StoredPages, value \in Values : Store(p, v, value)
    BY <2>6, StoreStep
  <2> QED BY <1>1, <2>1, <2>2, <2>3, <2>4, <2>5, <2>6 DEF Step
<1>2. CASE UNCHANGED vars
  <2>1. mem' = mem /\ kernel' = kernel /\ spaces' = spaces /\ stacks' = stacks
    BY <1>2 DEF vars
  <2>2. SpacesRight(mem, kernel, spaces, stacks)'
    BY <2>1 DEF MemoryInv
  <2>3. PanicNeedsFullRoots'
    BY <2>1 DEF MemoryInv, PanicNeedsFullRoots, Alive
  <2>4. AllSeenStay
    BY <2>1 DEF AllSeenStay, Seen
  <2> QED BY <2>2, <2>3, <2>4 DEF MemoryInv
<1> QED BY <1>1, <1>2 DEF Next, Stopped

\* Boot.
LEMMA FirstState ==
  ASSUME Init
  PROVE  MemoryInv /\ \E p \in Procs, program \in Programs :
           \A q \in Procs : Seen(q) = IF q = p THEN Image(program) ELSE Private!Nothing
<1> DEFINE m == KernelSpace.mem
           k == KernelSpace.space
<1>1. PICK p \in Procs, program \in Programs :
        LET st == FromElf(m, k, program)
        IN /\ mem = st.mem /\ kernel = k
           /\ spaces = [q \in Procs |-> IF q = p THEN st.space ELSE NoSpace]
           /\ stacks = [q \in Procs |-> IF q = p THEN {StackTop - 2} ELSE {}]
  BY DEF Init
<1> DEFINE st == FromElf(m, k, program)
           sp == [q \in Procs |-> NoSpace]
           sk == [q \in Procs |-> {}]
<1>2. IsMemory(m) /\ Ok(m) /\ m.fault = "none" /\ KernelRight(m, k) /\ Ok(st.mem)
  BY KernelBoots, BootAssumption DEF Ok
<1> HIDE DEF m, k
<1>3. /\ Complete(m, k, st) /\ StacksRight(st.mem, st.space.root, {StackTop - 2})
      /\ ViewOf(st.mem, st.space.root) = Image(program)
  BY <1>2, FromElfDoes
<1>4. SpacesRight(m, k, sp, sk)
  <2>1. NoSpace \in [root : Nat, areas : Seq([start : Nat, end : Nat])]
    BY DEF NoSpace
  <2> QED BY <1>2, <2>1 DEF SpacesRight
<1> HIDE DEF st
<1>5. Fits(m, k, sp[p], st, {StackTop - 2}, {}) /\ ViewIn(st.mem, st.space) = Image(program)
  BY <1>2, <1>3, CompleteFits
<1> HIDE DEF sp, sk
<1>6. SpacesRight(st.mem, k, [sp EXCEPT ![p] = st.space], [sk EXCEPT ![p] = {StackTop - 2}])
  <2>1. Replaced(m, k, sp, sk, p, st, {StackTop - 2})
    BY <1>4, <1>5, SpaceReplaced
  <2> QED BY <2>1 DEF Replaced
<1>7. /\ mem = st.mem /\ kernel = k
      /\ spaces = [sp EXCEPT ![p] = st.space] /\ stacks = [sk EXCEPT ![p] = {StackTop - 2}]
  BY <1>1 DEF st, sp, sk
<1>8. PanicNeedsFullRoots
  BY <1>2, <1>7 DEF PanicNeedsFullRoots, Ok
<1>9. \A q \in Procs : Seen(q) = IF q = p THEN Image(program) ELSE Private!Nothing
  BY <1>5, <1>7 DEF sp, Seen, ViewIn, Private!Nothing
<1> QED BY <1>6, <1>7, <1>8, <1>9 DEF MemoryInv

----------------------------------------------------------------------------
\* The theorems.

\* What holds in every state: the spaces are those of a program each, apart from
\* each other, and no assertion fails while there is a root entry to take.
THEOREM MemoryInvariant == Spec => []MemoryInv
<1>1. Init => MemoryInv
  BY FirstState
<1>2. MemoryInv /\ [Next]_vars => MemoryInv'
  BY AnyStep
<1> QED BY <1>1, <1>2, PTL DEF Spec

\* Whatever is loaded, cloned, grown and unmapped, the areas of a space are its
\* mapped pages, none twice, each area in consecutive frames.
THEOREM AreasAreTrue == Spec => []AreasTellTheTruth
<1>1. MemoryInv => AreasTellTheTruth
  <2>1. ASSUME MemoryInv, NEW p \in Procs, Alive(p)
        PROVE  LET areas == spaces[p].areas
               IN /\ UNION {Pages(areas[i]) : i \in DOMAIN areas} = Mapped(p)
                  /\ \A i, j \in DOMAIN areas : i # j => Pages(areas[i]) \cap Pages(areas[j]) = {}
                  /\ \A i \in DOMAIN areas : \A v \in Pages(areas[i]) :
                       FrameOf(p, v) = FrameOf(p, areas[i].start) + v - areas[i].start
    <3> DEFINE areas == spaces[p].areas
               root == spaces[p].root
    <3>1. AreasRight(mem, root, areas)
      BY <2>1 DEF MemoryInv, SpacesRight, SpaceRight, Alive
    <3> HIDE DEF areas, root
    <3>2. /\ \A k \in DOMAIN areas : IsArea(areas[k])
          /\ \A v \in UserVpns : HasEntry(mem, root, v) <=> \E k \in DOMAIN areas : v \in Pages(areas[k])
          /\ \A j, k \in DOMAIN areas : \A v \in Pages(areas[j]) : v \in Pages(areas[k]) => j = k
          /\ \A k \in DOMAIN areas : \A v \in Pages(areas[k]) :
               Translate(mem, root, v) = Translate(mem, root, areas[k].start) + v - areas[k].start
      BY <3>1 DEF AreasRight
    <3>3. \A k \in DOMAIN areas : Pages(areas[k]) \subseteq UserVpns
      BY <3>2, AreaPages
    <3>4. UNION {Pages(areas[i]) : i \in DOMAIN areas} = Mapped(p)
      <4>1. Mapped(p) = {v \in UserVpns : HasEntry(mem, root, v)}
        BY DEF Mapped, root
      <4> QED BY <3>2, <3>3, <4>1
    <3>5. \A i, j \in DOMAIN areas : i # j => Pages(areas[i]) \cap Pages(areas[j]) = {}
      BY <3>2
    <3>6. \A i \in DOMAIN areas : \A v \in Pages(areas[i]) :
            FrameOf(p, v) = FrameOf(p, areas[i].start) + v - areas[i].start
      BY <3>2 DEF FrameOf, root
    <3> QED BY <3>4, <3>5, <3>6 DEF areas
  <2> QED BY <2>1 DEF AreasTellTheTruth
<1> QED BY <1>1, MemoryInvariant, PTL

\* Every space on which a thread may run has the portal at the frame where the
\* kernel has it, and nothing else of the kernel.
THEOREM PortalIsEverywhere == Spec => []PortalEverywhere
<1>1. MemoryInv => PortalEverywhere
  <2>1. ASSUME MemoryInv, NEW p \in Procs, Alive(p)
        PROVE  /\ Translates(mem, spaces[p].root, PortalVpn, {"X", "R", "W"})
               /\ Translate(mem, spaces[p].root, PortalVpn) = PortalFrame
               /\ \A v \in Mapped(p) : "U" \in Entry(mem, spaces[p].root, v).flags
               /\ DOMAIN mem.table[spaces[p].root] \subseteq 0 .. UserRoots - 1 \cup {Roots - 1}
    <3> DEFINE root == spaces[p].root
    <3>1. /\ IsUser(mem, root) /\ PortalRight(mem, root, kernel) /\ KernelRight(mem, kernel)
      BY <2>1 DEF MemoryInv, SpacesRight, SpaceRight, Alive
    <3> HIDE DEF root
    <3>2. RootIndex(PortalVpn) = Roots - 1
      BY UserPages
    <3>3. Roots - 1 \in DOMAIN mem.table[root] /\ mem.table[root][Roots - 1] = mem.table[kernel.root][Roots - 1]
      BY <3>1 DEF PortalRight
    <3>4. /\ HasEntry(mem, kernel.root, PortalVpn)
          /\ Entry(mem, kernel.root, PortalVpn) = [ppn |-> PortalFrame, flags |-> {"G", "X", "W", "R"}]
      BY <3>1 DEF KernelRight
    <3>5. /\ HasEntry(mem, root, PortalVpn)
          /\ Entry(mem, root, PortalVpn) = Entry(mem, kernel.root, PortalVpn)
      BY <3>2, <3>3, <3>4 DEF HasEntry, Entry
    <3>6. /\ Entry(mem, root, PortalVpn).ppn = PortalFrame
          /\ Entry(mem, root, PortalVpn).flags = {"G", "X", "W", "R"}
      BY <3>4, <3>5
    <3>7. Translates(mem, root, PortalVpn, {"X", "R", "W"}) /\ Translate(mem, root, PortalVpn) = PortalFrame
      BY <3>5, <3>6 DEF Translates, Translate
    <3>8. \A v \in Mapped(p) : "U" \in Entry(mem, root, v).flags
      BY <3>1 DEF IsUser, Mapped, root
    <3>9. DOMAIN mem.table[root] \subseteq 0 .. UserRoots - 1 \cup {Roots - 1}
      BY <3>1 DEF IsUser
    <3> QED BY <3>7, <3>8, <3>9 DEF root
  <2> QED BY <2>1 DEF PortalEverywhere
<1> QED BY <1>1, MemoryInvariant, PTL

\* Stacks of one process do not touch, and none has a mapped page below it.
THEOREM StacksAreApart == Spec => []StacksApart
<1>1. MemoryInv => StacksApart
  <2>1. ASSUME MemoryInv, NEW p \in Procs, Alive(p)
        PROVE  /\ \A v, w \in stacks[p] : v # w => v + 2 < w \/ w + 2 < v
               /\ \A v \in stacks[p], i \in DOMAIN spaces[p].areas : spaces[p].areas[i].end # v
    <3> DEFINE root == spaces[p].root
               areas == spaces[p].areas
    <3>1. AreasRight(mem, root, areas) /\ StacksRight(mem, root, stacks[p])
      BY <2>1 DEF MemoryInv, SpacesRight, SpaceRight, Alive
    <3> HIDE DEF root, areas
    <3>2. stacks[p] \subseteq StackVpns
      BY <3>1 DEF StacksRight
    <3>3. ASSUME NEW v \in stacks[p], NEW i \in DOMAIN areas, areas[i].end = v PROVE FALSE
      <4>1. IsArea(areas[i])
        BY <3>1 DEF AreasRight
      <4>2. areas[i].start \in Nat /\ areas[i].end \in Nat /\ areas[i].start < areas[i].end
        BY <4>1, AreaPages DEF IsArea
      <4>3. v - 1 \in Pages(areas[i])
        BY <3>3, <4>2 DEF Pages
      <4>4. v - 1 \in UserVpns /\ v - 1 + 1 = v
        BY <3>3, <4>1, <4>2, <4>3, AreaPages
      <4>5. HasEntry(mem, root, v - 1)
        BY <3>1, <4>3, <4>4 DEF AreasRight
      <4> QED BY <3>1, <4>4, <4>5 DEF StacksRight
    <3> QED BY <3>2, <3>3, StackSearch DEF areas
  <2> QED BY <2>1 DEF StacksApart
<1> QED BY <1>1, MemoryInvariant, PTL

\* Unless the heap is full, the kernel panics only when a process has used up
\* the root entries that thread_create takes stacks from.
THEOREM PanicsNeedFullRoots == Spec => []PanicNeedsFullRoots
<1>1. MemoryInv => PanicNeedsFullRoots
  BY DEF MemoryInv
<1> QED BY <1>1, MemoryInvariant, PTL

\* The view of the properties is what a space's tables and frames show.
LEMMA ViewSeen ==
  ASSUME NEW m, NEW k, NEW sp, NEW sk, SpacesRight(m, k, sp, sk), NEW q \in Procs
  PROVE  [v \in UserVpns |->
            IF sp[q] # NoSpace /\ HasEntry(m, sp[q].root, v)
            THEN Contents(m, Translate(m, sp[q].root, v)) ELSE "unmapped"] = ViewIn(m, sp[q])
<1>1. CASE sp[q] = NoSpace
  BY <1>1 DEF ViewIn
<1>2. CASE sp[q] # NoSpace
  <2>1. IsUser(m, sp[q].root)
    BY <1>2 DEF SpacesRight, SpaceRight
  <2>2. \A v \in UserVpns : HasEntry(m, sp[q].root, v) =>
          Contents(m, Translate(m, sp[q].root, v)) = m.page[Translate(m, sp[q].root, v)]
    BY <2>1 DEF IsUser, Contents
  <2> QED BY <1>2, <2>2 DEF ViewIn, ViewOf
<1> QED BY <1>1, <1>2

\* The properties' view of p, in a state and the next.
LEMMA ViewIsSeen ==
  ASSUME NEW p \in Procs
  PROVE  /\ MemoryInv => View(p) = Seen(p)
         /\ MemoryInv' => View(p)' = Seen(p)'
<1>1. MemoryInv => View(p) = Seen(p)
  BY ViewSeen DEF MemoryInv, View, Seen, Alive, FrameOf
<1>2. MemoryInv' => View(p)' = Seen(p)'
  BY ViewSeen DEF MemoryInv, View, Seen, Alive, FrameOf
<1> QED BY <1>1, <1>2

\* Every process has a memory of its own: the kernel's page tables and frames
\* implement the memories of PrivateMemory.
THEOREM MemoryStaysPrivate == Spec => MemoryIsPrivate
<1> DEFINE seen == [p \in Procs |-> View(p)]
<1>1. Init => Private!Init
  <2> SUFFICES ASSUME Init PROVE Private!Init
    OBVIOUS
  <2>1. MemoryInv
    BY FirstState
  <2>2. PICK p \in Procs, program \in Programs :
          \A q \in Procs : Seen(q) = IF q = p THEN Image(program) ELSE Private!Nothing
    BY FirstState
  <2>3. \A q \in Procs : View(q) = IF q = p THEN Image(program) ELSE Private!Nothing
    BY <2>1, <2>2, ViewIsSeen
  <2>4. seen = [q \in Procs |-> IF q = p THEN Image(program) ELSE Private!Nothing]
    BY <2>3
  <2>5. Image(program) \in {Image(pr) : pr \in Programs}
    OBVIOUS
  <2> QED BY <2>4, <2>5 DEF Private!Init
<1>2. MemoryInv /\ MemoryInv' /\ [Next]_vars => [Private!Next]_seen
  <2> SUFFICES ASSUME MemoryInv, MemoryInv', [Next]_vars PROVE [Private!Next]_seen
    OBVIOUS
  <2>1. \A q \in Procs : View(q) = Seen(q) /\ View(q)' = Seen(q)'
    BY ViewIsSeen
  <2>2. CASE AllSeenStay
    <3>1. \A q \in Procs : View(q)' = View(q)
      BY <2>1, <2>2 DEF AllSeenStay
    <3>2. seen' = seen
      BY <3>1
    <3> QED BY <3>2
  <2>3. CASE \E p \in Procs : SeenStep(p)
    <3>1. PICK p \in Procs : SeenStep(p)
      BY <2>3
    <3>2. /\ \A q \in Procs \ {p} : View(q)' = View(q)
          /\ \/ View(p)' \in {Image(program) : program \in Programs}
             \/ View(p) = Private!Nothing /\ \E q \in Procs : View(p)' = View(q)
             \/ Private!Grown(View(p), View(p)')
             \/ Private!Shrunk(View(p), View(p)')
             \/ Private!Stored(View(p), View(p)')
      BY <2>1, <3>1 DEF SeenStep
    <3>3. \A q \in Procs : seen[q] = View(q) /\ seen'[q] = View(q)'
      OBVIOUS
    <3> HIDE DEF seen
    <3>4. Private!Next
      BY <3>2, <3>3 DEF Private!Next, seen
    <3> QED BY <3>4
  <2> QED BY <2>2, <2>3, AnyStep
<1> QED BY <1>1, <1>2, MemoryInvariant, PTL DEF Spec, MemoryIsPrivate, Private!Spec
=============================================================================
