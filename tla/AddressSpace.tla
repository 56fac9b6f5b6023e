------------------------------ MODULE AddressSpace -----------------------------
(***************************************************************************)
(* Physical memory, page tables and the address spaces of                  *)
(* tg-rcore-tutorial-kernel-vm, as operators on a record mem:              *)
(*                                                                         *)
(*   next    the first frame not handed out                                *)
(*   table   the valid entries of each frame that holds a page table       *)
(*   page    the contents of each frame that holds data                    *)
(*   fault   why the kernel panicked: "none" while it has not, "heap" when  *)
(*           an allocation failed, else "assertion"                          *)
(*                                                                         *)
(* A page table has two levels: an entry of the root covers Width pages.   *)
(* (Sv39 has three; its middle level is created and walked as the last.)   *)
(* A page holds one value.  A frame number is also the address at which    *)
(* the kernel reaches the frame: p_to_v and v_to_p are the identity.       *)
(***************************************************************************)
EXTENDS Integers, Sequences, FiniteSets, SequencesExt, Functions

CONSTANTS Width,      \* pages under one entry of the root table
          HeapEnd,    \* the end of the frames of the kernel's heap
          Zero,       \* the contents of a page of alloc_zeroed
          Foreign     \* what a pointer that left its allocation reads

ASSUME WidthAssumption == Width \in Nat \ {0}
ASSUME HeapEndAssumption == HeapEnd \in Nat

\* A space: the frame of its root table and the ranges it has mapped.
\* A range of pages start .. end - 1, as a Range<VPN>.
Pages(area) == area.start .. area.end - 1
Area(start, end) == [start |-> start, end |-> end]

RootIndex(vpn) == vpn \div Width
Slot(vpn) == vpn % Width

\* The function g, but for the values that f has.
Over(f, g) == [x \in DOMAIN f \cup DOMAIN g |-> IF x \in DOMAIN f THEN f[x] ELSE g[x]]

----------------------------------------------------------------------------
\* Sv39Manager: zeroed, contiguous frames from the kernel's heap.  The heap
\* serves other objects too, so two allocations are never taken for adjacent.
Ok(mem) == mem.fault = "none"
Failed(mem, fault) == IF Ok(mem) THEN [mem EXCEPT !.fault = fault] ELSE mem

\* Without room in the heap, handle_alloc_error panics.
Room(mem, count) == mem.next + count <= HeapEnd

AllocTable(mem) ==
  IF ~Room(mem, 1) THEN Failed(mem, "heap")
  ELSE [mem EXCEPT !.next = @ + 2,
                   !.table = Over([f \in {mem.next} |-> <<>>], @)]

AllocPages(mem, contents) ==
  IF ~Room(mem, Len(contents)) THEN Failed(mem, "heap")
  ELSE [mem EXCEPT !.next = @ + Len(contents) + 1,
                   !.page = Over([f \in mem.next .. mem.next + Len(contents) - 1 |->
                                    contents[f - mem.next + 1]], @)]

Contents(mem, frame) == IF frame \in DOMAIN mem.page THEN mem.page[frame] ELSE Foreign

SetEntry(mem, table, index, pte) ==
  [mem EXCEPT !.table[table] = Over([i \in {index} |-> pte], @)]

\* AddressSpace::new.  (st is a memory with one space in it.)
NewSpace(mem) ==
  [mem |-> AllocTable(mem), space |-> [root |-> mem.next, areas |-> <<>>]]

WithMemory(st, mem) == [mem |-> mem, space |-> st.space]
Fails(st) == WithMemory(st, Failed(st.mem, "assertion"))

----------------------------------------------------------------------------
\* The walk to a page's entry.
HasEntry(mem, root, vpn) ==
  /\ RootIndex(vpn) \in DOMAIN mem.table[root]
  /\ Slot(vpn) \in DOMAIN mem.table[mem.table[root][RootIndex(vpn)].ppn]

Entry(mem, root, vpn) == mem.table[mem.table[root][RootIndex(vpn)].ppn][Slot(vpn)]

\* translate: the frame of a page, when its flags allow what is asked.
Translates(mem, root, vpn, flags) ==
  HasEntry(mem, root, vpn) /\ flags \subseteq Entry(mem, root, vpn).flags

Translate(mem, root, vpn) == Entry(mem, root, vpn).ppn

\* The walk of a Mapper over an area: where a root entry is missing, block
\* allocates a table and marks it as owned; meet goes down owned tables only;
\* arrive asserts that the page is not mapped yet, and sets its entry.  The walk
\* of an empty area does not find its end: it fails.
RootIndexes(area) == {RootIndex(v) : v \in Pages(area)}

MapperFails(mem, root, area) ==
  \/ ~Ok(mem)
  \/ Pages(area) = {}
  \/ \E i \in RootIndexes(area) \cap DOMAIN mem.table[root] : "OWNED" \notin mem.table[root][i].flags
  \/ \E v \in Pages(area) : HasEntry(mem, root, v)

Missing(mem, root, area) == RootIndexes(area) \ DOMAIN mem.table[root]

TableUnder(mem, root, area, i) ==
  IF i \in DOMAIN mem.table[root] THEN mem.table[root][i].ppn
  ELSE mem.next + 2 * Cardinality({j \in Missing(mem, root, area) : j < i})

AreaEntries(area, i, pbase, flags) ==
  [s \in {Slot(v) : v \in {w \in Pages(area) : RootIndex(w) = i}} |->
     [ppn |-> pbase + i * Width + s - area.start, flags |-> flags]]

Mapper(mem, root, area, pbase, flags) ==
  LET missing == Missing(mem, root, area)
      Under(i) == TableUnder(mem, root, area, i)
      tables == [f \in {Under(i) : i \in RootIndexes(area)} |->
                   LET i == CHOOSE j \in RootIndexes(area) : Under(j) = f
                   IN Over(AreaEntries(area, i, pbase, flags), IF i \in missing THEN <<>> ELSE mem.table[f])]
      toplevel == Over([i \in missing |-> [ppn |-> Under(i), flags |-> {"OWNED"}]], mem.table[root])
  IN [mem EXCEPT !.next = @ + 2 * Cardinality(missing),
                 !.table = Over([f \in {root} |-> toplevel], Over(tables, @)),
                 !.fault = IF missing = {} \/ Room(mem, 2 * Cardinality(missing) - 1) THEN "none" ELSE "heap"]

\* map_extern.
MapExtern(st, area, pbase, flags) ==
  [mem |-> IF MapperFails(st.mem, st.space.root, area) THEN Failed(st.mem, "assertion")
           ELSE Mapper(st.mem, st.space.root, area, pbase, flags),
   space |-> [root |-> st.space.root, areas |-> Append(st.space.areas, area)]]

\* The area in frames of its own, which Sv39Manager has just filled.
MapNew(st, area, contents, flags) ==
  MapExtern(WithMemory(st, AllocPages(st.mem, contents)), area, st.mem.next, flags)

\* map: new frames, the data, then zeros; size >= data.len() is asserted.
Map(st, area, data, flags) ==
  LET contents == [i \in 1 .. area.end - area.start |-> IF i <= Len(data) THEN data[i] ELSE Zero]
  IN IF Len(data) <= area.end - area.start THEN MapNew(st, area, contents, flags \cup {"OWNED"})
     ELSE Fails(st)

----------------------------------------------------------------------------
\* Mistaken: of a split area only the part before the range stays.
CutHead(area, range) ==
  IF area.start < range.start THEN <<Area(area.start, range.start)>> ELSE <<>>

\* unmap: what is left of an area without a range, in order.
Cut(area, range) ==
  IF area.end <= range.start \/ area.start >= range.end THEN <<area>>
  ELSE (IF area.start < range.start THEN <<Area(area.start, range.start)>> ELSE <<>>)
       \o (IF area.end > range.end THEN <<Area(range.end, area.end)>> ELSE <<>>)

\* unmap: the entries find_pte_mut finds are cleared, frames are not given back.
Unmap(st, range) ==
  LET tables == {st.mem.table[st.space.root][i].ppn :
                   i \in RootIndexes(range) \cap DOMAIN st.mem.table[st.space.root]}
      Cleared(f) == {Slot(v) : v \in {w \in Pages(range) :
                       /\ HasEntry(st.mem, st.space.root, w)
                       /\ st.mem.table[st.space.root][RootIndex(w)].ppn = f}}
  IN [mem |-> [st.mem EXCEPT !.table =
                 Over([f \in tables |-> Restrict(@[f], DOMAIN @[f] \ Cleared(f))], @)],
      space |-> [root |-> st.space.root,
                 areas |-> FlattenSeq([i \in DOMAIN st.space.areas |-> Cut(st.space.areas[i], range)])]]

----------------------------------------------------------------------------
\* Mistaken: the frames are shared instead of copied.
CloneAreaShared(st, src, area) ==
  LET pte == Entry(st.mem, src.root, area.start)
  IN MapExtern(st, area, pte.ppn, pte.flags)

\* cloneself, one area: as many new frames, filled from the frame of the
\* area's first page onwards, with that page's flags.
CloneArea(st, src, area) ==
  IF ~HasEntry(st.mem, src.root, area.start) THEN Fails(st)
  ELSE LET pte == Entry(st.mem, src.root, area.start)
           copy == [i \in 1 .. area.end - area.start |-> Contents(st.mem, pte.ppn + i - 1)]
       IN MapNew(st, area, copy, pte.flags \cup {"OWNED"})

CloneSelf(src, st) ==
  LET cloned[k \in 0 .. Len(src.areas)] ==
        IF k = 0 THEN st ELSE CloneArea(cloned[k - 1], src, src.areas[k])
  IN cloned[Len(src.areas)]
=============================================================================
