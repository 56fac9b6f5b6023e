----------------------------- MODULE ProcessMemory -----------------------------
(***************************************************************************)
(* The address spaces of the kernel and its processes: the kernel's own    *)
(* space and the portal page, made at boot, and what from_elf, exec, fork, *)
(* thread_create and the end of a process do to memory, with the stores of *)
(* the programs between them.  A failed assertion, an unwrap of None and a *)
(* heap without room are panics: the machine stops.                        *)
(***************************************************************************)
EXTENDS AddressSpace, FiniteSets

CONSTANTS Procs,
          UserRoots,     \* root entries below the first user stack's end
          Roots,         \* root entries of a table; the portal is in the last
          PageBytes,     \* addresses in a page
          Layout,        \* KernelLayout: the symbols of the linker script
          Mmio,          \* the MMIO ranges, as areas
          Programs,      \* the executable files, as sequences of segments
          Values,        \* what a program stores
          StoredPages,   \* bound: the pages programs store to
          UnmapRanges    \* the ranges a client of unmap takes away

ASSUME RootAssumption == UserRoots \in Nat \ {0} /\ Roots \in Nat /\ UserRoots < Roots
ASSUME LayoutAssumption ==
  /\ \A symbol \in {"text", "rodata", "data", "ebss", "boot", "end"} : Layout[symbol] \in Nat
  /\ Mmio \in Seq([start : Nat, end : Nat])
ASSUME PageAssumption == PageBytes \in Nat \ {0}

VARIABLES mem,       \* physical memory (see AddressSpace)
          kernel,    \* KERNEL_SPACE
          spaces,    \* Process.address_space
          stacks     \* the lowest page of each thread's stack

vars == <<mem, kernel, spaces, stacks>>

StackTop == UserRoots * Width
UserVpns == 0 .. StackTop - 1
PortalVpn == Roots * Width - 1         \* PROTAL_TRANSIT: VPN::MAX
NoSpace == [root |-> 0, areas |-> <<>>]
Alive(p) == spaces[p] # NoSpace
Stack(vpn) == Area(vpn, vpn + 2)
StackFlags == {"U", "W", "R"}

\* Mistaken: the search takes steps of two root entries.
StackVpnsCoarse == {v \in 0 .. StackTop - 2 : (StackTop - 2 - v) % (2 * Width) = 0}

\* The pages thread_create's search tries, highest first: each 3 below the last.
StackVpns == {v \in 0 .. StackTop - 2 : (StackTop - 2 - v) % 3 = 0}

\* Sv39's root entries cover 2^18 pages.
ASSUME StackAssumption == Width >= 4

\* A linker script lays segments out on pages of their own, below the stack and
\* its guard page.  Programs lie in the lowest root entry, so none has the page
\* to which a stack may reach from the entry below.
ASSUME ProgramAssumption ==
  \A program \in Programs :
    /\ Len(program) \in Nat /\ DOMAIN program = 1 .. Len(program)
    /\ \A k \in DOMAIN program :
         LET area == Area(program[k].start, program[k].end)
             data == program[k].data
         IN /\ area.start \in Nat /\ area.end \in Nat
            /\ area.start < area.end /\ area.end < StackTop - 2
            /\ \A v \in Pages(area) : v % Width = 0 => v - 1 \notin StackVpns
            /\ Len(data) \in 0 .. area.end - area.start /\ DOMAIN data = 1 .. Len(data)
            /\ \A i \in DOMAIN data : data[i] # "unmapped"
    /\ \A j, k \in DOMAIN program :
         j # k => Pages(Area(program[j].start, program[j].end))
                    \cap Pages(Area(program[k].start, program[k].end)) = {}

\* "unmapped" is what the properties call the contents of a page that is not mapped.
ASSUME ContentsAssumption ==
  "unmapped" \notin Values \cup {Zero, Foreign} /\ StoredPages \subseteq UserVpns

\* A stack that lies across two root entries is unmapped whole or from its end.
ASSUME UnmapAssumption ==
  \A range \in UnmapRanges :
    /\ range \in [start : Nat, end : Nat]
    /\ range.start <= range.end /\ range.end <= StackTop
    /\ \A v \in Pages(range) \cap StackVpns : (v + 1) % Width = 0 => v + 1 \in Pages(range)

----------------------------------------------------------------------------
\* Boot.

Floor(address) == address \div PageBytes
Ceil(address) == (address + PageBytes - 1) \div PageBytes

\* KernelRegionIterator and the flags kernel_space gives each region.
Regions ==
  <<[start |-> Layout.text, end |-> Layout.rodata, flags |-> {"X", "R"}],
    [start |-> Layout.rodata, end |-> Layout.data, flags |-> {"R"}],
    [start |-> Layout.data, end |-> Layout.ebss, flags |-> {"W", "R"}],
    [start |-> Layout.boot, end |-> Layout.end, flags |-> {"W", "R"}]>>

HeapStart == Floor(Layout.end)

\* The first allocation is the portal's page.
PortalFrame == HeapStart

EmptyMemory == [next |-> HeapStart, table |-> <<>>, page |-> <<>>, fault |-> "none"]

\* kernel_space: every region, the heap, the portal and the devices, in order,
\* each at the frame it is mapped to.
KernelAreas ==
  LET Identity(area, flags) == [area |-> area, pbase |-> area.start, flags |-> flags]
  IN [r \in DOMAIN Regions |->
        Identity(Area(Floor(Regions[r].start), Ceil(Regions[r].end)), Regions[r].flags)]
     \o <<Identity(Area(HeapStart, HeapEnd), {"W", "R"}),
          [area |-> Area(PortalVpn, PortalVpn + 1), pbase |-> PortalFrame,
           flags |-> {"G", "X", "W", "R"}]>>
     \o [d \in DOMAIN Mmio |-> Identity(Mmio[d], {"W", "R"})]

MapKernelArea(st, a) == MapExtern(st, a.area, a.pbase, a.flags)

KernelSpace ==
  LET mapped[k \in 0 .. Len(KernelAreas)] ==
        IF k = 0 THEN NewSpace(AllocPages(EmptyMemory, <<Foreign>>))
        ELSE MapKernelArea(mapped[k - 1], KernelAreas[k])
  IN mapped[Len(KernelAreas)]

\* map_portal: the root entry of the kernel's space k, copied.
MapPortal(st, k) ==
  IF ~Ok(st.mem) THEN st
  ELSE WithMemory(st, SetEntry(st.mem, st.space.root, RootIndex(PortalVpn),
                               st.mem.table[k.root][RootIndex(PortalVpn)]))

----------------------------------------------------------------------------
\* from_elf: the segments in the order of the file, a stack of two pages, the
\* portal.
NewStack(st, vpn) == MapNew(st, Stack(vpn), <<Zero, Zero>>, StackFlags)

LoadSegment(st, segment) ==
  Map(st, Area(segment.start, segment.end), segment.data, {"U"} \cup segment.flags)

Load(st, program) ==
  LET loaded[k \in 0 .. Len(program)] ==
        IF k = 0 THEN st ELSE LoadSegment(loaded[k - 1], program[k])
  IN loaded[Len(program)]

FromElf(m, k, program) == MapPortal(NewStack(Load(NewSpace(m), program), StackTop - 2), k)

\* The kernel boots: its areas do not overlap, and the heap has room for its
\* space and for the first process.
ASSUME BootAssumption ==
  /\ Ok(KernelSpace.mem)
  /\ \A program \in Programs : Ok(FromElf(KernelSpace.mem, KernelSpace.space, program).mem)

Init ==
  \E p \in Procs, program \in Programs :
    LET booted == KernelSpace
        st == FromElf(booted.mem, booted.space, program)
    IN /\ mem = st.mem
       /\ kernel = booted.space
       /\ spaces = [q \in Procs |-> IF q = p THEN st.space ELSE NoSpace]
       /\ stacks = [q \in Procs |-> IF q = p THEN {StackTop - 2} ELSE {}]

\* What a handler leaves behind: its work, or a panic.
Leaves(p, st, threads) ==
  IF Ok(st.mem)
  THEN /\ mem' = st.mem
       /\ spaces' = [spaces EXCEPT ![p] = st.space]
       /\ stacks' = [stacks EXCEPT ![p] = threads]
       /\ UNCHANGED kernel
  ELSE mem' = Failed(mem, st.mem.fault) /\ UNCHANGED <<kernel, spaces, stacks>>

Runs(p) == Ok(mem) /\ Alive(p)

Exec(p, program) == Runs(p) /\ Leaves(p, FromElf(mem, kernel, program), {StackTop - 2})

\* Mistaken: fork forgets the portal.
ForkUnmapped(p, c) ==
  /\ Runs(p) /\ ~Alive(c)
  /\ Leaves(c, CloneSelf(spaces[p], NewSpace(mem)), {StackTop - 2})

\* fork copies the memory of every thread, but only the main thread.
Fork(p, c) ==
  /\ Runs(p) /\ ~Alive(c)
  /\ Leaves(c, MapPortal(CloneSelf(spaces[p], NewSpace(mem)), kernel), {StackTop - 2})

\* Mistaken: it tries page after page in steps of a stack.
FreeStackVpnsDense(p) ==
  {v \in 0 .. StackTop - 2 : (StackTop - v) % 2 = 0 /\ ~HasEntry(mem, spaces[p].root, v)}

FreeStackVpns(p) == {v \in StackVpns : RootIndex(v) \notin DOMAIN mem.table[spaces[p].root]}

\* With no entry free, the search goes below page 0: the subtraction overflows.
ThreadCreate(p) ==
  /\ Runs(p)
  /\ IF FreeStackVpns(p) = {}
     THEN mem' = Failed(mem, "assertion") /\ UNCHANGED <<kernel, spaces, stacks>>
     ELSE LET vpn == CHOOSE v \in FreeStackVpns(p) : \A w \in FreeStackVpns(p) : w <= v
          IN Leaves(p, NewStack([mem |-> mem, space |-> spaces[p]], vpn), stacks[p] \cup {vpn})

\* A thread that ends gives back neither its stack nor its root entry; a
\* process that ends drops its AddressSpace, which frees nothing.
End(p) ==
  /\ Runs(p)
  /\ spaces' = [spaces EXCEPT ![p] = NoSpace]
  /\ stacks' = [stacks EXCEPT ![p] = {}]
  /\ UNCHANGED <<mem, kernel>>

\* A client of unmap (no system call of this kernel).
UnmapRange(p, range) ==
  /\ Runs(p)
  /\ Leaves(p, Unmap([mem |-> mem, space |-> spaces[p]], range), stacks[p])

\* A store of a program, through its page table.
Store(p, vpn, value) ==
  /\ Runs(p)
  /\ Translates(mem, spaces[p].root, vpn, {"U", "W"})
  /\ mem' = [mem EXCEPT !.page[Translate(mem, spaces[p].root, vpn)] = value]
  /\ UNCHANGED <<kernel, spaces, stacks>>

Stopped == (~Ok(mem) \/ \A p \in Procs : ~Alive(p)) /\ UNCHANGED vars

Step(p) ==
  \/ \E program \in Programs : Exec(p, program)
  \/ \E c \in Procs : Fork(p, c)
  \/ ThreadCreate(p)
  \/ End(p)
  \/ \E range \in UnmapRanges : UnmapRange(p, range)
  \/ \E vpn \in StoredPages, value \in Values : Store(p, vpn, value)

Next == (\E p \in Procs : Step(p)) \/ Stopped

Spec == Init /\ [][Next]_vars

----------------------------------------------------------------------------
\* Properties.

Mapped(p) == {v \in UserVpns : HasEntry(mem, spaces[p].root, v)}
FrameOf(p, v) == Translate(mem, spaces[p].root, v)

\* The areas of a space, by which it is copied and buffers are read, tell the
\* truth: together they are the mapped pages, no two overlap, and the pages of
\* one area are consecutive frames, which translate and cloneself count on
\* when they follow one pointer over many pages.
AreasTellTheTruth ==
  \A p \in Procs : Alive(p) =>
    LET areas == spaces[p].areas
    IN /\ UNION {Pages(areas[i]) : i \in DOMAIN areas} = Mapped(p)
       /\ \A i, j \in DOMAIN areas : i # j => Pages(areas[i]) \cap Pages(areas[j]) = {}
       /\ \A i \in DOMAIN areas : \A v \in Pages(areas[i]) :
            FrameOf(p, v) = FrameOf(p, areas[i].start) + v - areas[i].start

\* Every space on which a thread may run has the portal where the kernel has
\* it, out of reach of user code, and no other page of the kernel: without it
\* the switch to the space would pull the code away under the hart.
PortalEverywhere ==
  \A p \in Procs : Alive(p) =>
    /\ Translates(mem, spaces[p].root, PortalVpn, {"X", "R", "W"})
    /\ Translate(mem, spaces[p].root, PortalVpn) = PortalFrame
    /\ \A v \in Mapped(p) : "U" \in Entry(mem, spaces[p].root, v).flags
    /\ DOMAIN mem.table[spaces[p].root] \subseteq 0 .. UserRoots - 1 \cup {Roots - 1}

\* Each thread has a stack of its own with an unmapped page below it, although
\* the search for one looks at root entries only, and stacks lie across them.
StacksApart ==
  \A p \in Procs : Alive(p) =>
    /\ \A v, w \in stacks[p] : v # w => v + 2 < w \/ w + 2 < v
    /\ \A v \in stacks[p], i \in DOMAIN spaces[p].areas : spaces[p].areas[i].end # v

\* But for a heap without room, the kernel panics only when a process has used
\* up the root entries thread_create takes stacks from: no assertion of the
\* mapper fails, and no area of fork begins with an unmapped page.
PanicNeedsFullRoots ==
  mem.fault = "assertion" =>
    \E p \in Procs : Alive(p) /\ 0 .. UserRoots - 1 \subseteq DOMAIN mem.table[spaces[p].root]

\* What a process sees of memory.
View(p) ==
  [v \in UserVpns |->
     IF Alive(p) /\ HasEntry(mem, spaces[p].root, v) THEN Contents(mem, FrameOf(p, v)) ELSE "unmapped"]

Image(program) ==
  LET of(v) == {s \in ToSet(program) : v \in Pages(Area(s.start, s.end))}
      s(v) == CHOOSE segment \in of(v) : TRUE
  IN [v \in UserVpns |->
        IF v \in {StackTop - 2, StackTop - 1} THEN Zero
        ELSE IF of(v) = {} THEN "unmapped"
        ELSE IF v - s(v).start < Len(s(v).data) THEN s(v).data[v - s(v).start + 1]
        ELSE Zero]

Private == INSTANCE PrivateMemory WITH
  Vpns <- UserVpns, Unmapped <- "unmapped", memory <- [p \in Procs |-> View(p)],
  Images <- {Image(program) : program \in Programs}

\* Every process has a memory of its own: fork copies it whole, exec replaces
\* it by the program's image, a new stack is zero, and no store of a process
\* shows in another, whatever was mapped, cloned and unmapped before.
MemoryIsPrivate == Private!Spec
=============================================================================
