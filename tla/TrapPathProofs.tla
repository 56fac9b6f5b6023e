----------------------------- MODULE TrapPathProofs -----------------------------
(***************************************************************************)
(* Proofs about the way between the kernel and user programs.  The sections*)
(* without interrupts come first, for themselves.  The path is proved like *)
(* an annotated program: PathInv says what stands in the registers and in  *)
(* memory at each label, every instruction group leads from the annotations*)
(* of its label to those of the next, and the properties are what some of  *)
(* the annotations say.                                                    *)
(***************************************************************************)
EXTENDS TrapPath, FiniteSetTheorems, TLAPS

----------------------------------------------------------------------------
\* Sections without interrupts.

\* One reference more or less is one level more or less, and the last one leaves
\* none: the arithmetic of enter and exit.
LEMMA LevelCounts ==
  ASSUME IsFiniteSet(open), NEW c
  PROVE  /\ c \notin open => /\ IsFiniteSet(open \cup {c})
                             /\ Cardinality(open \cup {c}) = Cardinality(open) + 1
         /\ c \in open => /\ IsFiniteSet(open \ {c})
                          /\ Cardinality(open \ {c}) = Cardinality(open) - 1
         /\ Cardinality(open) \in Nat
         /\ Cardinality(open) = 0 <=> open = {}
         /\ c \in open => (Cardinality(open) = 1 <=> open \ {c} = {})
<1>1. IsFiniteSet(open \ {c}) /\ IsFiniteSet(open \cup {c})
  BY FS_AddElement, FS_RemoveElement
<1>2. c \in open => Cardinality(open \ {c}) = Cardinality(open) - 1
  BY FS_RemoveElement
<1>3. c \notin open => Cardinality(open \cup {c}) = Cardinality(open) + 1
  BY FS_AddElement
<1>4. /\ Cardinality(open) \in Nat
      /\ Cardinality(open) = 0 <=> open = {}
      /\ Cardinality(open \ {c}) \in Nat
      /\ Cardinality(open \ {c}) = 0 <=> open \ {c} = {}
  BY <1>1, FS_CardinalityType, FS_EmptySet
<1> QED BY <1>1, <1>2, <1>3, <1>4

\* In the beginning nothing is open and the level is zero.
LEMMA InvHoldsInitially == MaskingInit => MaskingInv
<1> SUFFICES ASSUME MaskingInit PROVE MaskingInv
  OBVIOUS
<1>1. IsFiniteSet(open) /\ Cardinality(open) = 0
  BY FS_EmptySet DEF MaskingInit
<1>2. info.nested_level = 0 /\ info.sie_before_masking = FALSE
  BY DEF MaskingInit
<1>3. info = [nested_level |-> info.nested_level, sie_before_masking |-> info.sie_before_masking]
  BY DEF MaskingInit
<1> QED BY <1>1, <1>2, <1>3 DEF MaskingInit, MaskingInv

\* Entering a section: the first one notes SIE, a nested one keeps the note.
LEMMA EnterKeepsInv ==
  ASSUME MaskingInv, NEW c \in Cells, ExclusiveAccess(c)
  PROVE  MaskingInv'
<1>1. /\ IsFiniteSet(open)'
      /\ Cardinality(open') = Cardinality(open) + 1
      /\ Cardinality(open) = 0 <=> open = {}
  BY LevelCounts DEF MaskingInv, ExclusiveAccess
<1>2. /\ info'.nested_level = info.nested_level + 1
      /\ info'.sie_before_masking = IF info.nested_level = 0 THEN sie ELSE info.sie_before_masking
      /\ info' = [nested_level |-> info'.nested_level, sie_before_masking |-> info'.sie_before_masking]
  BY DEF ExclusiveAccess, Entered
<1>3. ~sie' /\ info'.sie_before_masking = found'
  BY <1>1, <1>2 DEF MaskingInv, ExclusiveAccess
<1> QED BY <1>1, <1>2, <1>3 DEF MaskingInv, ExclusiveAccess

\* Leaving a section: while another is open SIE stays clear.
LEMMA DropKeepsInv ==
  ASSUME MaskingInv, NEW c \in Cells, DropRef(c)
  PROVE  /\ MaskingInv'
         /\ sie' = (open' = {} /\ found)
<1>1. /\ IsFiniteSet(open)'
      /\ Cardinality(open') = Cardinality(open) - 1
      /\ Cardinality(open) = 1 <=> open' = {}
  BY LevelCounts DEF MaskingInv, DropRef
<1>2. /\ info'.nested_level = info.nested_level - 1
      /\ info'.sie_before_masking = info.sie_before_masking
      /\ info' = [nested_level |-> info'.nested_level, sie_before_masking |-> info'.sie_before_masking]
  BY DEF DropRef, Left, MaskingInv
<1>3. ~sie /\ info.sie_before_masking = found /\ found' = found
  BY DEF MaskingInv, DropRef
<1>4. SetsSie(info) <=> open' = {} /\ found
  BY <1>1, <1>3 DEF SetsSie, MaskingInv
<1>5. sie' = (open' = {} /\ found)
  BY <1>3, <1>4 DEF DropRef, MaskingInv
<1>6. sie' \in BOOLEAN /\ found' \in BOOLEAN
  BY <1>3, <1>5 DEF MaskingInv
<1>7. open' # {} => ~sie' /\ info'.sie_before_masking = found'
  BY <1>2, <1>3, <1>5
<1>8. info'.nested_level = Cardinality(open')
  BY <1>1, <1>2 DEF MaskingInv
<1> QED BY <1>1, <1>2, <1>5, <1>6, <1>7, <1>8 DEF MaskingInv

\* Every step keeps the invariant.
LEMMA StepKeepsInv == MaskingInv /\ [MaskingNext]_maskingVars => MaskingInv'
<1> SUFFICES ASSUME MaskingInv, [MaskingNext]_maskingVars PROVE MaskingInv'
  OBVIOUS
<1>1. ASSUME NEW c \in Cells, ExclusiveAccess(c) PROVE MaskingInv'
  BY <1>1, EnterKeepsInv
<1>2. ASSUME NEW c \in Cells, DropRef(c) PROVE MaskingInv'
  BY <1>2, DropKeepsInv
<1>3. CASE Outside
  BY <1>3 DEF Outside, MaskingInv
<1>4. CASE UNCHANGED maskingVars
  BY <1>4 DEF maskingVars, MaskingInv
<1> QED BY <1>1, <1>2, <1>3, <1>4 DEF MaskingNext

\* Whatever cells are borrowed, in whatever order, the level counts them and the
\* note is what the outermost section found (INTR_MASKING_INFO, up.rs:70-116).
THEOREM LevelsCount == MaskingSpec => []MaskingInv
BY InvHoldsInitially, StepKeepsInv, PTL DEF MaskingSpec

\* No interrupt comes while a cell is borrowed, so no handler finds it borrowed.
THEOREM NoInterruptInside == MaskingSpec => []Masked
<1>1. MaskingInv => Masked
  BY DEF MaskingInv, Masked
<1> QED BY <1>1, LevelsCount, PTL

\* References may be dropped in any order: the drop of the last one puts SIE back
\* as the first one found it, and no other step of a section touches it
\* (IntrMaskingInfo::exit, up.rs:108).
THEOREM InterruptsRestored == MaskingSpec => Restored
<1>1. MaskingInv /\ [MaskingNext]_maskingVars
        => [open # {} => sie' = (open' = {} /\ found)]_maskingVars
  <2> SUFFICES ASSUME MaskingInv, MaskingNext, open # {}
               PROVE  sie' = (open' = {} /\ found)
    BY DEF maskingVars
  <2>1. ASSUME NEW c \in Cells, ExclusiveAccess(c)
        PROVE  sie' = (open' = {} /\ found)
    BY <2>1 DEF ExclusiveAccess
  <2>2. ASSUME NEW c \in Cells, DropRef(c)
        PROVE  sie' = (open' = {} /\ found)
    BY <2>2, DropKeepsInv
  <2> QED BY <2>1, <2>2 DEF MaskingNext, Outside
<1> QED BY <1>1, LevelsCount, PTL DEF MaskingSpec, Restored

----------------------------------------------------------------------------
\* What holds at each label, as an annotated program has it.

\* Labels: execute_naked and the portal, out and back, and the vector.
NakedOut == {"save", "entry", "switch", "load", "sret"}
PortalOut ==
  {"portal", "p_satp", "p_sstatus", "p_sepc", "p_stvec", "p_sscratch", "p_load", "p_sret"}
PortalBack == {"p_trap", "p_save_a1", "p_back_sscratch", "p_back_satp", "p_back_a1", "p_home"}
NakedBack == {"trapped", "t_save", "t_switch", "t_load", "t_ret", "returned"}
Vector == {"m_trap", "m_handler", "m_restore"}

\* Between the call of execute_naked and its return.
Away == NakedOut \cup PortalOut \cup UserText \cup PortalBack \cup NakedBack

\* In the space of the thread.
Far ==
  UserText \cup {"p_sstatus", "p_sepc", "p_stvec", "p_sscratch", "p_load", "p_sret",
                 "p_trap", "p_save_a1", "p_back_sscratch", "p_back_satp"}

\* In Rust code of the kernel.
Rust == {"loop", "foreign", "local", "left", "cause", "handler", "panic", "sbi_call+4"}

\* What the thread on the hart has to find, its context, and the cache.
Wanted == want[current].x
Context == mem[Ctx(current)]
Parked == mem[Cache]

\* `f` and `g` agree on the registers but those of `but`.
Agree(f, g, but) == \A r \in Regs \ but : f[r] = g[r]
IsRegs(f) == f = [r \in Regs |-> f[r]]

\* What is what: registers, the memory of the path and the locals.
Shape ==
  /\ at \in Rust \cup Away \cup Vector \cup {"off"}
  /\ IsRegs(x) /\ IsRegs(kept)
  /\ DOMAIN csr = {"mode", "spp", "spie", "satp", "sscratch", "sepc", "stvec", "scause", "mpp",
                   "mepc", "mcause", "mscratch"}
  /\ DOMAIN local = {"supervisor", "interrupt", "old_ss", "caller"}
  /\ DOMAIN mem = {Cache, RaSlot, Frame, MFrame} \cup {Ctx(t) : t \in Threads}
  /\ DOMAIN Parked = {"a0", "a1", "satp", "sepc", "stvec", "sscratch", "sstatus"}
  /\ DOMAIN mem[RaSlot] = {"ra"} /\ DOMAIN mem[Frame] = {"x"} /\ DOMAIN mem[MFrame] = {"x"}
  /\ IsRegs(mem[Frame].x) /\ IsRegs(mem[MFrame].x)
  /\ \A t \in Threads :
       /\ DOMAIN mem[Ctx(t)] = {"sctx", "x", "sepc", "supervisor", "interrupt", "satp"}
       /\ IsRegs(mem[Ctx(t)].x)
       /\ mem[Ctx(t)].satp = Space(t)
  /\ DOMAIN want = Threads
  /\ \A t \in Threads :
       /\ DOMAIN want[t] = {"x", "pc"} /\ want[t].pc \in UserText /\ IsRegs(want[t].x)

\* Who serves whom: the ready threads, each once, and the one on the hart.
Busy ==
  \/ at \in {"foreign", "local", "left", "cause", "handler"} \cup Away
  \/ at \in Vector \cup {"sbi_call+4"} /\ local.caller = "handler"

Queued ==
  /\ ready \in Seq(Threads)
  /\ \A i, j \in DOMAIN ready : ready[i] = ready[j] => i = j
  /\ Busy => current \in Threads /\ \A i \in DOMAIN ready : ready[i] # current

\* A context from which its thread can go on, one whose call is being answered,
\* and one that has become the portal's.
Fit(t) ==
  /\ Agree(mem[Ctx(t)].x, want[t].x, {}) /\ mem[Ctx(t)].sepc = Text(want[t].pc)
  /\ mem[Ctx(t)].supervisor = FALSE /\ mem[Ctx(t)].interrupt = TRUE

Answering(t) ==
  /\ Agree(mem[Ctx(t)].x, want[t].x, {})
  /\ mem[Ctx(t)].sepc = Text(After(want[t].pc)) /\ want[t].pc = "user"
  /\ mem[Ctx(t)].supervisor = FALSE /\ mem[Ctx(t)].interrupt = TRUE

\* The contexts of the queued are fit, and so is that of the thread on the hart
\* before its departure and after its return.
Contexts ==
  /\ \A i \in DOMAIN ready : Fit(ready[i])
  /\ at \in {"foreign", "cause"} => Fit(current)
  /\ at = "cause" /\ csr.scause = UserEnvCall => want[current].pc = "user"
  /\ at = "handler" \/ (at \in Vector \cup {"sbi_call+4"} /\ local.caller = "handler") =>
       Answering(current)

\* Modes and interrupts: on in user mode only, and no cell is borrowed on the way.
Modes ==
  /\ at \in UserText => csr.mode = "U"
  /\ at \in Vector \cup {"off"} => csr.mode = "M"
  /\ at \in Rust \cup NakedOut \cup PortalOut \cup PortalBack \cup NakedBack => csr.mode = "S"
  /\ sie <=> at \in UserText
  /\ open # {} => found = FALSE /\ at \in {"handler", "panic", "sbi_call+4", "off"} \cup Vector

\* What sret will make of the mode and of interrupts.
Departure ==
  /\ at \in {"local", "portal", "p_satp", "p_sstatus"} \cup NakedOut =>
       Parked.sstatus = [spp |-> "U", spie |-> TRUE, sie |-> FALSE]
  /\ at \in NakedOut => csr.spp = "S" /\ csr.spie = FALSE
  /\ at \in {"p_sepc", "p_stvec", "p_sscratch", "p_load", "p_sret"} => csr.spp = "U" /\ csr.spie = TRUE

\* Address spaces: the thread's between the two changes of satp.
Spaces ==
  /\ at \in Far => csr.satp = Space(current) /\ Parked.satp = KernelSpace
  /\ at \notin Far => csr.satp = KernelSpace
  /\ at \in {"local", "portal", "p_satp"} \cup NakedOut => Parked.satp = Space(current)

\* Where the kernel's own registers are.
IsCallee(f) == f["ra"] = Text("returned") /\ Agree(f, KernelRegs, {"ra", "sp"})

KernelSide ==
  /\ at \in Away => kept = KernelRegs /\ mem[RaSlot].ra = KernelRegs["ra"] /\ local.old_ss = Zero
  /\ at \in {"local", "left"} \cup Away => local.supervisor = FALSE /\ local.interrupt = TRUE
  /\ at \in {"save", "t_ret", "returned"} => x["sp"] = RaSlot /\ IsCallee(x)
  /\ at \in Away \ {"save"} => IsCallee(mem[Frame].x)
  /\ at \in {"entry", "switch", "t_load"} => x["sp"] = Frame
  /\ at \in Away \ {"save", "entry", "switch"} => Context.sctx = Frame

\* Where the trap entries and the way back to a context are.
Entries ==
  /\ at \in Rust \cup Vector => csr.sscratch = Zero
  /\ at \in (NakedOut \cup PortalOut) \ {"p_load", "p_sret"} => csr.sscratch = Ctx(current)
  /\ at \in {"p_load", "p_sret", "p_trap"} \cup UserText => csr.sscratch = Cache
  /\ at \in {"p_back_satp", "p_back_a1", "p_home", "trapped"} => csr.sscratch = Ctx(current)
  /\ at \in UserText \cup {"p_load", "p_sret", "p_trap", "p_save_a1", "p_back_sscratch"} =>
       Parked.sscratch = Ctx(current)
  /\ at \in {"switch", "load", "sret", "portal", "p_satp", "p_sstatus", "p_sepc", "p_stvec",
             "trapped"} =>
       csr.stvec = Text("trapped")
  /\ at \in UserText \cup PortalBack \cup {"p_sscratch", "p_load", "p_sret"} =>
       csr.stvec = Text("p_trap") /\ Parked.stvec = Text("trapped")

\* Where the thread's pc is.
ProgramCounter ==
  /\ at = "local" =>
       Context.sepc = Text("portal") /\ Context.supervisor = TRUE /\ Context.interrupt = FALSE
  /\ at \in NakedOut => csr.sepc = Text("portal")
  /\ at \in {"local", "portal", "p_satp", "p_sstatus", "p_sepc"} \cup NakedOut =>
       Parked.sepc = Text(want[current].pc)
  /\ at \in {"p_stvec", "p_sscratch", "p_load", "p_sret"} \cup PortalBack \cup NakedBack =>
       csr.sepc = Text(want[current].pc)
  /\ at \in {"left"} \cup PortalBack \cup NakedBack /\ csr.scause = UserEnvCall =>
       want[current].pc = "user"
  /\ at = "left" => Context.sepc = Text(want[current].pc)

\* Where the thread's registers are.
Registers ==
  /\ at \in {"local", "save", "entry", "switch", "load"} =>
       Context.x["a0"] = Cache /\ Agree(Context.x, Wanted, {"a0"})
  /\ at \in {"t_switch", "t_load", "t_ret", "returned", "left"} =>
       Agree(Context.x, Wanted, {"a0"})
  /\ at \in {"local", "portal", "p_satp", "p_sstatus", "p_sepc", "p_stvec", "p_sscratch", "p_load",
             "p_back_satp", "p_back_a1", "p_home", "left"} \cup NakedOut \cup NakedBack =>
       Parked.a0 = Wanted["a0"]
  /\ at \in {"p_satp", "p_sstatus", "p_sepc", "p_stvec", "p_sscratch", "p_load",
             "p_back_sscratch", "p_back_satp", "p_back_a1"} => Parked.a1 = Wanted["a1"]
  /\ at \in {"load", "t_save", "t_switch"} => x["sp"] = Ctx(current)
  /\ at \in {"sret", "portal", "p_satp", "p_save_a1", "p_back_sscratch", "p_home"} =>
       x["a0"] = Cache /\ Agree(x, Wanted, {"a0"})
  /\ at \in {"p_sstatus", "p_sepc", "p_stvec", "p_sscratch", "p_load", "p_back_satp", "p_back_a1"} =>
       x["a0"] = Cache /\ Agree(x, Wanted, {"a0", "a1"})
  /\ at \in {"p_sret", "p_trap"} => Agree(x, Wanted, {})
  /\ at \in {"p_save_a1", "p_back_sscratch"} => csr.sscratch = Wanted["a0"]
  /\ at = "trapped" => Agree(x, Wanted, {"a0"})
  /\ at = "t_save" => Agree(x, Wanted, {"a0", "sp"}) /\ csr.sscratch = Wanted["sp"]

\* Where the registers of a caller of the firmware are.
FirmwareSide ==
  /\ at \in Vector =>
       /\ kept["sp"] = LoopSp /\ csr.mpp = "S" /\ csr.mepc = Text("sbi_call")
  /\ at \in {"m_trap", "m_handler"} /\ x["a7"] # <<"SRST">> => local.caller = "handler"
  /\ at \in {"m_restore", "sbi_call+4"} => local.caller = "handler"
  /\ at \in Rust \cup Away \cup {"m_trap"} => csr.mscratch = MTop
  /\ at = "m_trap" => Agree(x, kept, {})
  /\ at \in {"m_handler", "m_restore"} =>
       /\ x["sp"] = MFrame /\ csr.mscratch = LoopSp
       /\ \A r \in SavedByVector : mem[MFrame].x[r] = kept[r]
  /\ at = "m_handler" => Agree(x, kept, {"sp"})
  /\ at = "m_restore" => Agree(x, kept, {"sp", "a0", "a1"} \cup CallerSaved)

\* All of it: the inductive invariant.
PathInv ==
  /\ Shape /\ Queued /\ Contexts
  /\ MaskingInv /\ Modes /\ Departure /\ Spaces
  /\ KernelSide /\ Entries /\ ProgramCounter /\ Registers /\ FirmwareSide

----------------------------------------------------------------------------
\* Names, the stacks and stores.

\* The text of a program: its ecall and what follows it.
LEMMA UserTextIs == UserText = {"user", "user+4"}
BY DEF UserText, After

\* Contexts and the slots of the two stacks lie apart, and no thread has the
\* address space of the kernel.
LEMMA Addresses ==
  /\ \A t, u \in Threads : Ctx(t) = Ctx(u) => t = u
  /\ \A t \in Threads : Ctx(t) \notin {Cache, RaSlot, Frame, MFrame, Zero} /\ Space(t) # KernelSpace
  /\ Cache # RaSlot /\ Cache # Frame /\ Cache # MFrame /\ RaSlot # Frame /\ RaSlot # MFrame
  /\ Frame # MFrame
  /\ LoopSp # RaSlot /\ LoopSp # Frame /\ MTop # RaSlot /\ LoopSp # MTop /\ MTop # Frame
BY NamesAssumption DEF Ctx, Cache, RaSlot, Frame, MFrame, Zero, Space, KernelSpace, LoopSp,
     MTop

\* One slot down, one slot up.
LEMMA StackSlots ==
  /\ Down(LoopSp) = RaSlot /\ Down(RaSlot) = Frame /\ Down(MTop) = MFrame
  /\ Up(Frame) = RaSlot /\ Up(RaSlot) = LoopSp /\ Up(MFrame) = MTop
BY Addresses DEF Down, Up

\* The sets of labels and the names of places stand for what they are from here on.
USE UserTextIs DEF Goto, aside, kernelVars, sections, maskingVars, NakedOut, PortalOut,
     PortalBack, NakedBack, Vector, Away, Far, Rust, Parked, Context, Wanted

\* A step to a label of the way, with what is not on it left alone.
Path == {"local", "left"} \cup Away

\* The notes of the threads are notes.
WantShape ==
  /\ DOMAIN want = Threads
  /\ \A t \in Threads :
       /\ DOMAIN want[t] = {"x", "pc"} /\ want[t].pc \in UserText /\ IsRegs(want[t].x)

\* Memory has its slots, and a context stays in its space.
MemoryShape ==
  /\ DOMAIN mem = {Cache, RaSlot, Frame, MFrame} \cup {Ctx(t) : t \in Threads}
  /\ DOMAIN Parked = {"a0", "a1", "satp", "sepc", "stvec", "sscratch", "sstatus"}
  /\ DOMAIN mem[RaSlot] = {"ra"} /\ DOMAIN mem[Frame] = {"x"} /\ DOMAIN mem[MFrame] = {"x"}
  /\ IsRegs(mem[Frame].x) /\ IsRegs(mem[MFrame].x)
  /\ \A t \in Threads :
       /\ DOMAIN mem[Ctx(t)] = {"sctx", "x", "sepc", "supervisor", "interrupt", "satp"}
       /\ IsRegs(mem[Ctx(t)].x)
       /\ mem[Ctx(t)].satp = Space(t)

\* A step to a label of the way, with what is not on it left alone.
Onward ==
  /\ at \in Path \cup {"foreign"} /\ at' \in Path
  /\ UNCHANGED <<ready, current, info, open, found>>
  /\ sie' \in BOOLEAN
  /\ DOMAIN csr' = DOMAIN csr /\ csr'.mscratch = csr.mscratch
  /\ DOMAIN local' = DOMAIN local /\ IsRegs(x') /\ IsRegs(kept')
  /\ WantShape'
  /\ \A t \in Threads : t # current => mem'[Ctx(t)] = mem[Ctx(t)] /\ want'[t] = want[t]

\* Such a step leaves the queue, the other threads, the sections and the firmware
\* as they were.
LEMMA OnwardKeeps ==
  ASSUME PathInv, Onward, MemoryShape'
  PROVE  Shape' /\ Queued' /\ Contexts' /\ MaskingInv' /\ FirmwareSide'
<1>1. Shape'
  BY DEF PathInv, Shape, Onward, MemoryShape, WantShape, Path
<1>2. Queued'
  BY DEF PathInv, Queued, Onward, Busy, Path
<1>3. Contexts'
  BY DEF PathInv, Contexts, Queued, Onward, Fit, Path, Busy
<1>4. MaskingInv'
  BY DEF PathInv, MaskingInv, Modes, Onward, Path
<1>5. FirmwareSide'
  BY DEF PathInv, FirmwareSide, Onward, Path
<1> QED BY <1>1, <1>2, <1>3, <1>4, <1>5

\* A step that stores nothing keeps what memory looks like.
LEMMA SameMemory == PathInv /\ UNCHANGED mem => MemoryShape'
BY DEF PathInv, Shape, MemoryShape

\* There is a thread on the hart along the whole way.
LEMMA OnHart == PathInv /\ at \in Path \cup {"foreign", "cause", "handler"} => current \in Threads
BY DEF PathInv, Queued, Busy, Path

\* A store to the cache leaves the rest of it and of the memory alone.
Stored(field, value) ==
  /\ \A f \in {"a0", "a1", "satp", "sepc", "stvec", "sscratch", "sstatus"} :
       Parked'[f] = IF f = field THEN value ELSE Parked[f]
  /\ mem'[RaSlot] = mem[RaSlot] /\ mem'[Frame] = mem[Frame] /\ mem'[MFrame] = mem[MFrame]
  /\ \A t \in Threads : mem'[Ctx(t)] = mem[Ctx(t)]
  /\ MemoryShape'

\* What a store of the portal does.
LEMMA CacheStore ==
  ASSUME PathInv, x["a0"] = Cache,
         NEW field \in {"a0", "a1", "satp", "sepc", "stvec", "sscratch", "sstatus"}, NEW value,
         Put(field, value)
  PROVE  Stored(field, value)
<1>1. mem' = [mem EXCEPT ![Cache] = [Parked EXCEPT ![field] = value]]
  BY DEF Put
<1>2. /\ DOMAIN mem' = DOMAIN mem /\ Parked' = [Parked EXCEPT ![field] = value]
      /\ \A a \in DOMAIN mem : a # Cache => mem'[a] = mem[a]
  BY <1>1 DEF PathInv, Shape
<1>3. /\ mem'[RaSlot] = mem[RaSlot] /\ mem'[Frame] = mem[Frame] /\ mem'[MFrame] = mem[MFrame]
      /\ \A t \in Threads : mem'[Ctx(t)] = mem[Ctx(t)]
  BY <1>2 DEF PathInv, Shape
<1>4. DOMAIN Parked' = DOMAIN Parked
      /\ \A f \in DOMAIN Parked : Parked'[f] = IF f = field THEN value ELSE Parked[f]
  BY <1>2
<1>5. MemoryShape'
  BY <1>2 DEF PathInv, Shape, MemoryShape
<1> QED BY <1>3, <1>4, <1>5 DEF Stored, PathInv, Shape

\* So does a store to the context of the thread on the hart.
ContextStored(field, value) ==
  /\ DOMAIN mem' = DOMAIN mem
  /\ \A a \in DOMAIN mem : a # Ctx(current) => mem'[a] = mem[a]
  /\ DOMAIN mem'[Ctx(current)] = DOMAIN Context
  /\ \A f \in {"sctx", "x", "sepc", "supervisor", "interrupt", "satp"} :
       mem'[Ctx(current)][f] = IF f = field THEN value ELSE Context[f]

\* What a store of execute_naked or LocalContext::execute does.
LEMMA ContextStore ==
  ASSUME PathInv, current \in Threads, NEW field, NEW value, ContextStored(field, value),
         field \in {"sctx", "sepc", "supervisor", "interrupt"} \/ (field = "x" /\ IsRegs(value))
  PROVE  /\ mem'[RaSlot] = mem[RaSlot] /\ mem'[Frame] = mem[Frame] /\ mem'[Cache] = mem[Cache]
         /\ \A t \in Threads : t # current => mem'[Ctx(t)] = mem[Ctx(t)]
         /\ MemoryShape'
<1>1. /\ mem'[RaSlot] = mem[RaSlot] /\ mem'[Frame] = mem[Frame] /\ mem'[MFrame] = mem[MFrame]
      /\ mem'[Cache] = mem[Cache]
      /\ \A t \in Threads : t # current => mem'[Ctx(t)] = mem[Ctx(t)]
  BY Addresses DEF PathInv, Shape, ContextStored
<1>2. DOMAIN Context = {"sctx", "x", "sepc", "supervisor", "interrupt", "satp"}
      /\ IsRegs(Context.x) /\ Context.satp = Space(current)
  BY DEF PathInv, Shape
<1>3. MemoryShape'
  BY DEF PathInv, Shape, MemoryShape, ContextStored
<1> QED BY <1>1, <1>3

\* What a step that touches nothing but the hart keeps.
LEMMA SameAside ==
  PathInv /\ UNCHANGED aside => WantShape' /\ IsRegs(kept') /\ DOMAIN local' = DOMAIN local
BY DEF PathInv, Shape, WantShape

\* Away from the way most of the assertions are about nothing.
LEMMA HomeKeeps ==
  ASSUME at' \in {"loop", "foreign", "cause", "handler", "panic", "sbi_call+4", "off"} \cup Vector,
         csr'.satp = KernelSpace, csr'.sscratch = Zero
  PROVE  Departure' /\ Spaces' /\ KernelSide' /\ Entries' /\ ProgramCounter' /\ Registers'
BY DEF Departure, Spaces, KernelSide, Entries, ProgramCounter, Registers

----------------------------------------------------------------------------
\* The kernel in Rust: from the loop to execute_naked, and back.

\* The next thread is one that can go on.
LEMMA FindNextKeeps == PathInv /\ FindNext => PathInv'
<1> SUFFICES ASSUME PathInv, FindNext PROVE PathInv'
  OBVIOUS
<1>1. ready \in Seq(Threads) /\ ready # <<>> /\ \A i, j \in DOMAIN ready : ready[i] = ready[j] => i = j
  BY DEF PathInv, Queued, FindNext
<1>2. /\ Head(ready) = ready[1] /\ 1 \in DOMAIN ready /\ Head(ready) \in Threads
      /\ Tail(ready) \in Seq(Threads)
      /\ \A i \in DOMAIN Tail(ready) :
           i \in Nat /\ i + 1 # 1 /\ i + 1 \in DOMAIN ready /\ Tail(ready)[i] = ready[i + 1]
  BY <1>1
<1>3. current' = Head(ready) /\ ready' = Tail(ready) /\ at = "loop" /\ at' = "foreign"
  BY DEF FindNext
<1>4. /\ \A i \in DOMAIN ready' : ready'[i] # current'
      /\ \A i, j \in DOMAIN ready' : ready'[i] = ready'[j] => i = j
  BY <1>1, <1>3
<1>5. Queued'
  BY <1>2, <1>3, <1>4 DEF Queued
<1>6. \A t : Fit(t)' <=> Fit(t)
  BY DEF FindNext, Fit
<1>7. (\A i \in DOMAIN ready' : Fit(ready'[i])) /\ Fit(current')
  BY <1>2, <1>3 DEF PathInv, Contexts
<1>8. Contexts'
  BY <1>3, <1>6, <1>7 DEF Contexts
<1>9. Shape' /\ MaskingInv' /\ Modes' /\ FirmwareSide'
  BY DEF PathInv, Shape, MaskingInv, Modes, FirmwareSide, FindNext
<1>10. csr'.satp = KernelSpace /\ csr'.sscratch = Zero
  BY DEF PathInv, Spaces, Entries, FindNext
<1> QED BY <1>3, <1>5, <1>8, <1>9, <1>10, HomeKeeps DEF PathInv

\* The thread's pc, a0 and flags go to the cache, and its context enters the portal.
LEMMA ForeignExecuteKeeps == PathInv /\ ForeignExecute => PathInv'
<1> SUFFICES ASSUME PathInv, ForeignExecute PROVE PathInv'
  OBVIOUS
<1>1. current \in Threads /\ Fit(current) /\ sie = FALSE
  BY OnHart DEF PathInv, ForeignExecute, Contexts, Modes
<1>2. Ctx(current) # Cache /\ Ctx(current) \in DOMAIN mem /\ Cache \in DOMAIN mem
  BY <1>1 DEF PathInv, Shape
<1>3. PICK ss : ss = BuildSstatus(Context.supervisor, Context.interrupt)
  OBVIOUS
<1>4. ss = [spp |-> "U", spie |-> TRUE, sie |-> FALSE]
  BY <1>1, <1>3 DEF BuildSstatus, Fit
<1>5. local' = [local EXCEPT !.supervisor = FALSE, !.interrupt = TRUE]
  <2>1. Context.supervisor = FALSE /\ Context.interrupt = TRUE
    BY <1>1 DEF Fit
  <2> QED BY <2>1, Zenon DEF ForeignExecute
<1> DEFINE C == Ctx(current)
<1>6. /\ DOMAIN mem' = DOMAIN mem /\ \A a \in DOMAIN mem : a # Cache /\ a # C => mem'[a] = mem[a]
  BY DEF ForeignExecute
<1>7. Parked' = [Parked EXCEPT !.satp = Context.satp, !.sepc = Context.sepc,
                               !.a0 = Context.x["a0"], !.sstatus = ss]
  BY <1>2, <1>3 DEF ForeignExecute
<1>8. mem'[C] = [Context EXCEPT !.supervisor = TRUE, !.interrupt = FALSE, !.sepc = Text("portal"),
                                !.x["a0"] = Cache]
  BY <1>2 DEF ForeignExecute
<1>9. /\ DOMAIN Parked = {"a0", "a1", "satp", "sepc", "stvec", "sscratch", "sstatus"}
      /\ DOMAIN Context = {"sctx", "x", "sepc", "supervisor", "interrupt", "satp"}
      /\ IsRegs(Context.x) /\ Context.satp = Space(current)
  BY <1>1 DEF PathInv, Shape
<1>10. /\ DOMAIN Parked' = DOMAIN Parked
       /\ Parked'.satp = Context.satp /\ Parked'.sepc = Context.sepc /\ Parked'.a0 = Context.x["a0"]
       /\ Parked'.sstatus = ss
  BY <1>7
<1>11. /\ DOMAIN mem'[C] = DOMAIN Context
       /\ mem'[C].sepc = Text("portal")
       /\ mem'[C].satp = Context.satp /\ mem'[C].x = [Context.x EXCEPT !["a0"] = Cache]
  BY <1>8
<1>12. mem'[C].supervisor = TRUE /\ mem'[C].interrupt = FALSE
  BY <1>8
<1>13. IsRegs(mem'[C].x) /\ mem'[C].x["a0"] = Cache /\ Agree(mem'[C].x, Context.x, {"a0"})
  BY <1>9, <1>11 DEF IsRegs, Agree, Regs
<1>14. /\ mem'[RaSlot] = mem[RaSlot] /\ mem'[Frame] = mem[Frame] /\ mem'[MFrame] = mem[MFrame]
       /\ \A t \in Threads : t # current => mem'[Ctx(t)] = mem[Ctx(t)]
  BY <1>1, <1>6, Addresses DEF PathInv, Shape
<1>15. MemoryShape'
  <2>1. \A t \in Threads :
          /\ DOMAIN mem'[Ctx(t)] = {"sctx", "x", "sepc", "supervisor", "interrupt", "satp"}
          /\ IsRegs(mem'[Ctx(t)].x)
          /\ mem'[Ctx(t)].satp = Space(t)
    BY <1>11, <1>13, <1>14 DEF PathInv, Shape
  <2> HIDE DEF C
  <2> QED BY <1>6, <1>10, <1>14, <2>1 DEF PathInv, Shape, MemoryShape
<1>16. /\ at = "foreign" /\ at' = "local" /\ DOMAIN local' = DOMAIN local /\ local'.caller = local.caller
       /\ UNCHANGED <<x, csr, kept, current, ready, want, sie, info, open, found>>
  BY DEF ForeignExecute
<1>17. local'.supervisor = FALSE /\ local'.interrupt = TRUE
  BY <1>5
<1>18. Onward
  BY <1>14, <1>16 DEF PathInv, Shape, WantShape, MaskingInv, Onward, Path
<1>19. Modes' /\ Spaces'
  BY <1>9, <1>10, <1>16 DEF PathInv, Modes, Spaces
<1>20. Departure'
  BY <1>4, <1>10, <1>16 DEF Departure
<1>21. KernelSide' /\ Entries' /\ ProgramCounter'
  BY <1>1, <1>10, <1>11, <1>12, <1>16, <1>17 DEF PathInv, KernelSide, Entries, ProgramCounter,
       Fit
<1>22. Registers'
  BY <1>1, <1>10, <1>13, <1>16 DEF Registers, Fit, Agree, Regs
<1> QED BY <1>15, <1>18, <1>19, <1>20, <1>21, <1>22, OnwardKeeps DEF PathInv

\* sepc, sstatus and sscratch get ready for the portal.
LEMMA LocalExecuteKeeps == PathInv /\ LocalExecute => PathInv'
<1> SUFFICES ASSUME PathInv, LocalExecute PROVE PathInv'
  OBVIOUS
<1>1. current \in Threads /\ at = "local" /\ at' = "save"
  BY OnHart DEF LocalExecute, Path
<1>2. mem' = [mem EXCEPT ![RaSlot].ra = KernelRegs["ra"]]
  BY DEF LocalExecute
<1>3. /\ DOMAIN mem' = DOMAIN mem /\ \A a \in DOMAIN mem : a # RaSlot => mem'[a] = mem[a]
      /\ DOMAIN mem'[RaSlot] = {"ra"} /\ mem'[RaSlot].ra = KernelRegs["ra"]
  BY <1>2 DEF PathInv, Shape
<1>4. /\ mem'[Frame] = mem[Frame] /\ mem'[MFrame] = mem[MFrame] /\ Parked' = Parked
      /\ \A t \in Threads : mem'[Ctx(t)] = mem[Ctx(t)]
  BY <1>3 DEF PathInv, Shape
<1>5. MemoryShape'
  BY <1>3, <1>4 DEF PathInv, Shape, MemoryShape
<1>6. /\ IsRegs(KernelRegs) /\ IsRegs(x') /\ kept' = KernelRegs
      /\ x'["sp"] = RaSlot /\ IsCallee(x')
  BY DEF LocalExecute, KernelRegs, IsRegs, Regs, IsCallee, Agree
<1>7. Context.supervisor = TRUE /\ Context.interrupt = FALSE /\ Context.sepc = Text("portal")
  BY <1>1 DEF PathInv, ProgramCounter
<1>8. PICK ss : ss = BuildSstatus(Context.supervisor, Context.interrupt)
  OBVIOUS
<1>9. ss.spp = "S" /\ ss.spie = FALSE
  BY <1>7, <1>8 DEF BuildSstatus
<1>10. csr' = [csr EXCEPT !.sscratch = Ctx(current), !.sepc = Context.sepc, !.spp = ss.spp, !.spie = ss.spie]
  BY <1>8 DEF LocalExecute, WriteSstatus
<1>11. /\ DOMAIN csr' = DOMAIN csr /\ csr'.mscratch = csr.mscratch /\ csr'.mode = csr.mode
       /\ csr'.satp = csr.satp /\ csr'.stvec = csr.stvec
       /\ csr'.sscratch = Ctx(current) /\ csr'.sepc = Context.sepc
       /\ csr'.spp = ss.spp /\ csr'.spie = ss.spie
  BY <1>10
<1>12. csr'.spp = "S" /\ csr'.spie = FALSE
  BY <1>9, <1>11, Zenon
<1>13. /\ UNCHANGED <<current, ready, want, sie, info, open, found>>
       /\ DOMAIN local' = DOMAIN local /\ local'.caller = local.caller /\ local'.old_ss = csr.sscratch
       /\ local'.supervisor = local.supervisor /\ local'.interrupt = local.interrupt
  BY DEF LocalExecute
<1>14. csr.sscratch = Zero /\ local.supervisor = FALSE /\ local.interrupt = TRUE
  BY <1>1 DEF PathInv, Entries, KernelSide
<1>15. Onward
  BY <1>1, <1>4, <1>6, <1>11, <1>13 DEF PathInv, Shape, WantShape, MaskingInv, Onward, Path
<1>16. Modes' /\ Departure' /\ Spaces'
  BY <1>1, <1>4, <1>11, <1>12, <1>13 DEF PathInv, Modes, Departure, Spaces
<1>17. Entries' /\ ProgramCounter'
  BY <1>1, <1>4, <1>11, <1>13 DEF PathInv, Entries, ProgramCounter
<1>18. KernelSide'
  <2>1. local'.old_ss = Zero /\ local'.supervisor = FALSE /\ local'.interrupt = TRUE
    BY <1>13, <1>14, Zenon
  <2> QED BY <1>1, <1>3, <1>6, <2>1 DEF KernelSide
<1>19. Registers'
  BY <1>1, <1>4, <1>13 DEF PathInv, Registers
<1> QED BY <1>5, <1>15, <1>16, <1>17, <1>18, <1>19, OnwardKeeps DEF PathInv

\* sscratch is zero again, and the context has the pc of the trap.
LEMMA LocalReturnsKeeps == PathInv /\ LocalReturns => PathInv'
<1> SUFFICES ASSUME PathInv, LocalReturns PROVE PathInv'
  OBVIOUS
<1>1. /\ current \in Threads /\ ContextStored("sepc", csr.sepc)
      /\ mem'[RaSlot] = mem[RaSlot] /\ mem'[Frame] = mem[Frame] /\ mem'[Cache] = mem[Cache]
      /\ \A t \in Threads : t # current => mem'[Ctx(t)] = mem[Ctx(t)]
      /\ MemoryShape'
  <2>1. current \in Threads
    BY OnHart DEF LocalReturns, Path
  <2>2. ContextStored("sepc", csr.sepc)
    BY <2>1 DEF LocalReturns, PathInv, Shape, ContextStored
  <2> QED BY <2>1, <2>2, ContextStore
<1>2. IsRegs(x') /\ DOMAIN csr' = DOMAIN csr /\ csr'.mscratch = csr.mscratch
  BY DEF PathInv, LocalReturns, Shape, IsRegs
<1>3. sie' \in BOOLEAN /\ at \in Path /\ at' \in Path
  BY DEF PathInv, LocalReturns, MaskingInv, Path
<1>4. MemoryShape'
  BY <1>1
<1>5. Onward
  BY <1>1, <1>2, <1>3, SameAside DEF LocalReturns, Onward
<1>6. Modes'
  BY DEF PathInv, LocalReturns, Modes
<1>7. Departure' /\ Spaces'
  BY DEF PathInv, LocalReturns, Departure, Spaces
<1>8. Entries' /\ ProgramCounter'
  BY <1>1 DEF PathInv, LocalReturns, Entries, ProgramCounter, ContextStored, KernelSide
<1>9. KernelSide'
  BY DEF PathInv, LocalReturns, KernelSide
<1>10. Registers'
  BY DEF PathInv, LocalReturns, Registers
<1> QED BY <1>4, <1>5, <1>6, <1>7, <1>8, <1>9, <1>10, OnwardKeeps DEF PathInv

\* The context gets back what the portal needed of it.
LEMMA ForeignReturnsKeeps == PathInv /\ ForeignReturns => PathInv'
<1> SUFFICES ASSUME PathInv, ForeignReturns PROVE PathInv'
  OBVIOUS
<1> DEFINE C == Ctx(current)
<1>1. current \in Threads /\ at = "left" /\ at' = "cause"
  BY OnHart DEF ForeignReturns, Path
<1>2. UNCHANGED <<x, csr, local, kept, current, ready, want, sie, info, open, found>>
  BY DEF ForeignReturns
<1>3. C # Cache /\ C \in DOMAIN mem /\ DOMAIN Context = {"sctx", "x", "sepc", "supervisor", "interrupt", "satp"}
      /\ IsRegs(Context.x) /\ Context.satp = Space(current)
  BY <1>1 DEF PathInv, Shape
<1>4. /\ DOMAIN mem' = DOMAIN mem /\ \A a \in DOMAIN mem : a # C => mem'[a] = mem[a]
  BY DEF ForeignReturns
<1>5. mem'[C] = [Context EXCEPT !.supervisor = local.supervisor, !.interrupt = local.interrupt,
                                !.x["a0"] = Parked.a0]
  BY <1>3 DEF ForeignReturns
<1>6. /\ DOMAIN mem'[C] = DOMAIN Context
      /\ mem'[C].sepc = Context.sepc /\ mem'[C].satp = Context.satp
      /\ mem'[C].x = [Context.x EXCEPT !["a0"] = Parked.a0]
  BY <1>5
<1>7. mem'[C].supervisor = local.supervisor /\ mem'[C].interrupt = local.interrupt
  BY <1>5
<1>8. mem'[C].supervisor = FALSE /\ mem'[C].interrupt = TRUE
  <2>1. local.supervisor = FALSE /\ local.interrupt = TRUE
    BY <1>1 DEF PathInv, KernelSide
  <2> QED BY <1>7, <2>1, Zenon
<1>9. IsRegs(mem'[C].x) /\ Agree(mem'[C].x, Wanted, {})
  BY <1>1, <1>3, <1>6 DEF PathInv, Registers, IsRegs, Agree
<1>10. /\ mem'[RaSlot] = mem[RaSlot] /\ mem'[Frame] = mem[Frame] /\ mem'[MFrame] = mem[MFrame]
       /\ Parked' = Parked
       /\ \A t \in Threads : t # current => mem'[Ctx(t)] = mem[Ctx(t)]
  BY <1>1, <1>4, Addresses DEF PathInv, Shape
<1>11. Shape'
  BY <1>1, <1>2, <1>4, <1>6, <1>9 DEF PathInv, Shape
<1>12. Queued'
  BY <1>1, <1>2 DEF PathInv, Queued, Busy
<1>13. Fit(current)'
  BY <1>1, <1>2, <1>6, <1>8, <1>9 DEF Fit, PathInv, ProgramCounter
<1>14. \A t \in Threads : t # current => (Fit(t)' <=> Fit(t))
  BY <1>2, <1>10 DEF Fit
<1>15. Contexts'
  BY <1>1, <1>2, <1>13, <1>14 DEF PathInv, Contexts, Queued, ProgramCounter
<1>16. MaskingInv' /\ Modes' /\ FirmwareSide'
  BY <1>1, <1>2 DEF PathInv, MaskingInv, Modes, FirmwareSide
<1>17. csr'.satp = KernelSpace /\ csr'.sscratch = Zero
  BY <1>1, <1>2 DEF PathInv, Spaces, Entries
<1> QED BY <1>1, <1>11, <1>12, <1>15, <1>16, <1>17, HomeKeeps DEF PathInv

----------------------------------------------------------------------------
\* execute_naked.

\* The frame holds the caller's registers.
LEMMA SaveSchedulerKeeps == PathInv /\ SaveScheduler => PathInv'
<1> SUFFICES ASSUME PathInv, SaveScheduler PROVE PathInv'
  OBVIOUS
<1> DEFINE saved == [x EXCEPT !["sp"] = Nothing]
<1>1. Down(x["sp"]) = Frame /\ x' = [x EXCEPT !["sp"] = Frame] /\ IsCallee(x)
  BY StackSlots DEF PathInv, SaveScheduler, KernelSide
<1>2. IsRegs(saved) /\ IsRegs(x') /\ DOMAIN mem[Frame] = {"x"}
  BY <1>1 DEF PathInv, Shape, IsRegs
<1>3. mem' = [mem EXCEPT ![Frame].x = saved]
  BY <1>1 DEF SaveScheduler
<1> HIDE DEF saved
<1>4. /\ DOMAIN mem' = DOMAIN mem /\ \A a \in DOMAIN mem : a # Frame => mem'[a] = mem[a]
      /\ DOMAIN mem'[Frame] = {"x"} /\ mem'[Frame].x = saved
  BY <1>3 DEF PathInv, Shape
<1>5. /\ mem'[RaSlot] = mem[RaSlot] /\ mem'[MFrame] = mem[MFrame] /\ mem'[Cache] = mem[Cache]
      /\ \A t \in Threads : mem'[Ctx(t)] = mem[Ctx(t)]
  BY <1>4, Addresses DEF PathInv, Shape
<1>6. MemoryShape'
  BY <1>2, <1>4 DEF PathInv, Shape, MemoryShape
<1>7. current \in Threads
  BY OnHart DEF SaveScheduler, Path
<1>8. Onward
  BY <1>2, <1>5, SameAside DEF PathInv, MaskingInv, SaveScheduler, Onward, Path
<1>9. Modes' /\ Departure' /\ Spaces'
  BY DEF PathInv, Modes, Departure, Spaces, SaveScheduler
<1>10. Entries' /\ ProgramCounter'
  BY DEF PathInv, Entries, ProgramCounter, SaveScheduler
<1>11. Registers'
  <2>1. mem'[Ctx(current)] = mem[Ctx(current)] /\ at = "save" /\ at' = "entry" /\ UNCHANGED <<current, want>>
    BY <1>5, <1>7 DEF SaveScheduler
  <2> QED BY <1>5, <2>1 DEF PathInv, Registers
<1>12. IsCallee(saved) /\ x'["sp"] = Frame
  BY <1>1 DEF saved, IsCallee, Agree, PathInv, Shape, IsRegs, Regs
<1>13. KernelSide'
  BY <1>4, <1>5, <1>12 DEF PathInv, KernelSide, SaveScheduler
<1> QED BY <1>6, <1>8, <1>9, <1>10, <1>11, <1>13, OnwardKeeps DEF PathInv

\* Traps would go to label 1 of execute_naked.
LEMMA SetTrapEntryKeeps == PathInv /\ SetTrapEntry => PathInv'
<1> SUFFICES ASSUME PathInv, SetTrapEntry PROVE PathInv'
  OBVIOUS
<1>1. IsRegs(x') /\ DOMAIN csr' = DOMAIN csr /\ csr'.mscratch = csr.mscratch
  BY DEF PathInv, SetTrapEntry, Shape, IsRegs
<1>2. sie' \in BOOLEAN /\ at \in Path /\ at' \in Path
  BY DEF PathInv, SetTrapEntry, MaskingInv, Path
<1>3. MemoryShape'
  BY SameMemory DEF SetTrapEntry
<1>4. Onward
  BY <1>1, <1>2, SameAside DEF SetTrapEntry, Onward
<1>5. Modes'
  BY DEF PathInv, SetTrapEntry, Modes
<1>6. Departure' /\ Spaces'
  BY DEF PathInv, SetTrapEntry, Departure, Spaces
<1>7. Entries' /\ ProgramCounter'
  BY DEF PathInv, SetTrapEntry, Entries, ProgramCounter
<1>8. KernelSide'
  BY DEF PathInv, SetTrapEntry, KernelSide
<1>9. Registers'
  BY DEF PathInv, SetTrapEntry, Registers
<1> QED BY <1>3, <1>4, <1>5, <1>6, <1>7, <1>8, <1>9, OnwardKeeps DEF PathInv

\* The context knows the frame.
LEMMA SwitchToThreadKeeps == PathInv /\ SwitchToThread => PathInv'
<1> SUFFICES ASSUME PathInv, SwitchToThread PROVE PathInv'
  OBVIOUS
<1>1. /\ current \in Threads /\ ContextStored("sctx", x["sp"])
      /\ mem'[RaSlot] = mem[RaSlot] /\ mem'[Frame] = mem[Frame] /\ mem'[Cache] = mem[Cache]
      /\ \A t \in Threads : t # current => mem'[Ctx(t)] = mem[Ctx(t)]
      /\ MemoryShape'
  <2>1. current \in Threads
    BY OnHart DEF SwitchToThread, Path
  <2>2. ContextStored("sctx", x["sp"])
    BY <2>1 DEF SwitchToThread, PathInv, Shape, Entries, ContextStored
  <2> QED BY <2>1, <2>2, ContextStore
<1>2. IsRegs(x') /\ DOMAIN csr' = DOMAIN csr /\ csr'.mscratch = csr.mscratch
  BY DEF PathInv, SwitchToThread, Shape, IsRegs
<1>3. sie' \in BOOLEAN /\ at \in Path /\ at' \in Path
  BY DEF PathInv, SwitchToThread, MaskingInv, Path
<1>4. MemoryShape'
  BY <1>1
<1>5. Onward
  BY <1>1, <1>2, <1>3, SameAside DEF SwitchToThread, Onward
<1>6. Modes'
  BY DEF PathInv, SwitchToThread, Modes
<1>7. Departure' /\ Spaces'
  BY DEF PathInv, SwitchToThread, Departure, Spaces
<1>8. Entries' /\ ProgramCounter'
  BY DEF PathInv, SwitchToThread, Entries, ProgramCounter
<1>9. KernelSide'
  BY <1>1 DEF PathInv, SwitchToThread, KernelSide, ContextStored
<1>10. Registers'
  BY DEF PathInv, SwitchToThread, Shape, Registers, IsRegs, Regs, Entries
<1> QED BY <1>4, <1>5, <1>6, <1>7, <1>8, <1>9, <1>10, OnwardKeeps DEF PathInv

\* The thread's registers are loaded, but for a0, which holds the cache.
LEMMA LoadThreadKeeps == PathInv /\ LoadThread => PathInv'
<1> SUFFICES ASSUME PathInv, LoadThread PROVE PathInv'
  OBVIOUS
<1>1. x' = Context.x /\ IsRegs(Context.x)
  BY OnHart DEF PathInv, LoadThread, Registers, Shape, Path
<1>2. IsRegs(x') /\ DOMAIN csr' = DOMAIN csr /\ csr'.mscratch = csr.mscratch
  BY <1>1 DEF LoadThread
<1>3. sie' \in BOOLEAN /\ at \in Path /\ at' \in Path
  BY DEF PathInv, LoadThread, MaskingInv, Path
<1>4. MemoryShape'
  BY SameMemory DEF LoadThread
<1>5. Onward
  BY <1>2, <1>3, SameAside DEF LoadThread, Onward
<1>6. Modes'
  BY DEF PathInv, LoadThread, Modes
<1>7. Departure' /\ Spaces'
  BY DEF PathInv, LoadThread, Departure, Spaces
<1>8. Entries' /\ ProgramCounter'
  BY DEF PathInv, LoadThread, Entries, ProgramCounter
<1>9. KernelSide'
  BY DEF PathInv, LoadThread, KernelSide
<1>10. Registers'
  BY DEF PathInv, LoadThread, Registers
<1> QED BY <1>4, <1>5, <1>6, <1>7, <1>8, <1>9, <1>10, OnwardKeeps DEF PathInv

\* The portal begins in S mode, with interrupts off.
LEMMA StartThreadKeeps == PathInv /\ StartThread => PathInv'
<1> SUFFICES ASSUME PathInv, StartThread PROVE PathInv'
  OBVIOUS
<1>1. at' = "portal" /\ sie' = FALSE
      /\ csr' = [csr EXCEPT !.mode = "S", !.spp = "U", !.spie = TRUE]
  <2>1. csr.sepc[2] = "portal" /\ csr.spp = "S" /\ csr.spie = FALSE
    BY DEF PathInv, StartThread, Departure, ProgramCounter, Text
  <2>2. /\ at' = csr.sepc[2] /\ sie' = csr.spie
        /\ csr' = [csr EXCEPT !.mode = csr.spp, !.spp = "U", !.spie = TRUE]
    BY Zenon DEF StartThread, Sret
  <2> QED BY <2>1, <2>2, Zenon
<1>2. IsRegs(x') /\ DOMAIN csr' = DOMAIN csr /\ csr'.mscratch = csr.mscratch
  BY <1>1 DEF PathInv, StartThread, Shape
<1>3. sie' \in BOOLEAN /\ at \in Path /\ at' \in Path
  BY <1>1 DEF StartThread, Path
<1>4. MemoryShape'
  BY SameMemory DEF StartThread
<1>5. Onward
  BY <1>2, <1>3, SameAside DEF StartThread, Onward
<1>6. Modes'
  BY <1>1 DEF PathInv, StartThread, Modes
<1>7. Departure' /\ Spaces'
  BY <1>1 DEF PathInv, StartThread, Departure, Spaces
<1>8. Entries' /\ ProgramCounter'
  BY <1>1 DEF PathInv, StartThread, Entries, ProgramCounter
<1>9. KernelSide'
  BY <1>1 DEF PathInv, StartThread, KernelSide
<1>10. Registers'
  BY <1>1 DEF PathInv, StartThread, Registers
<1> QED BY <1>4, <1>5, <1>6, <1>7, <1>8, <1>9, <1>10, OnwardKeeps DEF PathInv

\* sp and the pointer to the context change places.
LEMMA SwapContextKeeps == PathInv /\ SwapContext => PathInv'
<1> SUFFICES ASSUME PathInv, SwapContext PROVE PathInv'
  OBVIOUS
<1>1. IsRegs(x') /\ DOMAIN csr' = DOMAIN csr /\ csr'.mscratch = csr.mscratch
  BY DEF PathInv, SwapContext, Shape, IsRegs
<1>2. sie' \in BOOLEAN /\ at \in Path /\ at' \in Path
  BY DEF PathInv, SwapContext, MaskingInv, Path
<1>3. MemoryShape'
  BY SameMemory DEF SwapContext
<1>4. Onward
  BY <1>1, <1>2, SameAside DEF SwapContext, Onward
<1>5. Modes'
  BY DEF PathInv, SwapContext, Modes
<1>6. Departure' /\ Spaces'
  BY DEF PathInv, SwapContext, Departure, Spaces
<1>7. Entries' /\ ProgramCounter'
  BY DEF PathInv, SwapContext, Entries, ProgramCounter
<1>8. KernelSide'
  BY DEF PathInv, SwapContext, KernelSide
<1>9. Registers'
  BY DEF PathInv, SwapContext, Shape, Registers, Agree, IsRegs, Regs, Entries
<1> QED BY <1>3, <1>4, <1>5, <1>6, <1>7, <1>8, <1>9, OnwardKeeps DEF PathInv

\* The thread's registers are in its context again, sp from sscratch.
LEMMA SaveThreadKeeps == PathInv /\ SaveThread => PathInv'
<1> SUFFICES ASSUME PathInv, SaveThread PROVE PathInv'
  OBVIOUS
<1>1. /\ current \in Threads /\ ContextStored("x", [x EXCEPT !["sp"] = csr.sscratch])
      /\ mem'[RaSlot] = mem[RaSlot] /\ mem'[Frame] = mem[Frame] /\ mem'[Cache] = mem[Cache]
      /\ \A t \in Threads : t # current => mem'[Ctx(t)] = mem[Ctx(t)]
      /\ MemoryShape'
  <2>1. current \in Threads /\ x["sp"] = Ctx(current)
    BY OnHart DEF SaveThread, Path, PathInv, Registers
  <2> DEFINE saved == [x EXCEPT !["sp"] = csr.sscratch]
  <2>2. ContextStored("x", saved)
    <3>1. PICK v : v = [x EXCEPT !["sp"] = mem[Ctx(current)].x["sp"]]
      OBVIOUS
    <3>2. [v EXCEPT !["sp"] = csr.sscratch] = saved
      BY <3>1
    <3>3. PICK m : m = [mem EXCEPT ![Ctx(current)].x = v]
      OBVIOUS
    <3>4. mem' = [m EXCEPT ![Ctx(current)].x["sp"] = csr.sscratch]
      BY <2>1, <3>1, <3>3 DEF SaveThread, SaveAll
    <3>5. Ctx(current) \in DOMAIN mem /\ "x" \in DOMAIN Context
      BY <2>1 DEF PathInv, Shape
    <3>6. /\ DOMAIN m = DOMAIN mem /\ m[Ctx(current)] = [Context EXCEPT !.x = v]
          /\ \A a \in DOMAIN mem : a # Ctx(current) => m[a] = mem[a]
      BY <3>3, <3>5
    <3>7. DOMAIN m[Ctx(current)] = DOMAIN Context /\ m[Ctx(current)].x = v
          /\ \A f \in DOMAIN Context : f # "x" => m[Ctx(current)][f] = Context[f]
      BY <3>6
    <3>8. /\ DOMAIN mem' = DOMAIN mem /\ mem'[Ctx(current)] = [m[Ctx(current)] EXCEPT !.x = saved]
          /\ \A a \in DOMAIN mem : a # Ctx(current) => mem'[a] = mem[a]
      BY <3>2, <3>4, <3>5, <3>6
    <3> HIDE DEF saved
    <3>9. DOMAIN mem'[Ctx(current)] = DOMAIN Context /\ mem'[Ctx(current)].x = saved
          /\ \A f \in DOMAIN Context : f # "x" => mem'[Ctx(current)][f] = Context[f]
      BY <3>7, <3>8
    <3>10. DOMAIN Context = {"sctx", "x", "sepc", "supervisor", "interrupt", "satp"}
      BY <2>1 DEF PathInv, Shape
    <3> QED BY <3>8, <3>9, <3>10 DEF ContextStored
  <2>3. IsRegs(saved)
    BY DEF PathInv, Shape, IsRegs
  <2> QED BY <2>1, <2>2, <2>3, ContextStore
<1>2. IsRegs(x') /\ DOMAIN csr' = DOMAIN csr /\ csr'.mscratch = csr.mscratch
  BY DEF PathInv, SaveThread, Shape, IsRegs
<1>3. sie' \in BOOLEAN /\ at \in Path /\ at' \in Path
  BY DEF PathInv, SaveThread, MaskingInv, Path
<1>4. MemoryShape'
  BY <1>1
<1>5. Onward
  BY <1>1, <1>2, <1>3, SameAside DEF SaveThread, Onward
<1>6. Modes'
  BY DEF PathInv, SaveThread, Modes
<1>7. Departure' /\ Spaces'
  BY DEF PathInv, SaveThread, Departure, Spaces
<1>8. Entries' /\ ProgramCounter'
  BY DEF PathInv, SaveThread, Entries, ProgramCounter
<1>9. KernelSide'
  BY <1>1 DEF PathInv, SaveThread, KernelSide, ContextStored
<1>10. Registers'
  <2>1. /\ Agree(x, Wanted, {"a0", "sp"}) /\ csr.sscratch = Wanted["sp"]
        /\ x["sp"] = Ctx(current) /\ Parked.a0 = Wanted["a0"]
    BY DEF PathInv, SaveThread, Registers
  <2>2. \A r \in Regs : Context'.x[r] = IF r = "sp" THEN csr.sscratch ELSE x[r]
    <3>1. Context'.x = [x EXCEPT !["sp"] = csr.sscratch]
      BY <1>1 DEF ContextStored, SaveThread
    <3>2. IsRegs(x)
      BY DEF PathInv, Shape
    <3> QED BY <3>1, <3>2 DEF IsRegs
  <2>3. Agree(Context'.x, Wanted, {"a0"})
    BY <2>1, <2>2 DEF Agree
  <2>4. x'["sp"] = Ctx(current) /\ Parked'.a0 = Wanted["a0"] /\ Wanted' = Wanted
    BY <1>1, <2>1 DEF PathInv, Shape, SaveThread
  <2> QED BY <2>3, <2>4 DEF Registers, SaveThread
<1> QED BY <1>4, <1>5, <1>6, <1>7, <1>8, <1>9, <1>10, OnwardKeeps DEF PathInv

\* sp is the frame.
LEMMA SwitchToSchedulerKeeps == PathInv /\ SwitchToScheduler => PathInv'
<1> SUFFICES ASSUME PathInv, SwitchToScheduler PROVE PathInv'
  OBVIOUS
<1>1. IsRegs(x') /\ DOMAIN csr' = DOMAIN csr /\ csr'.mscratch = csr.mscratch
  BY DEF PathInv, SwitchToScheduler, Shape, IsRegs
<1>2. sie' \in BOOLEAN /\ at \in Path /\ at' \in Path
  BY DEF PathInv, SwitchToScheduler, MaskingInv, Path
<1>3. MemoryShape'
  BY SameMemory DEF SwitchToScheduler
<1>4. Onward
  BY <1>1, <1>2, SameAside DEF SwitchToScheduler, Onward
<1>5. Modes'
  BY DEF PathInv, SwitchToScheduler, Modes
<1>6. Departure' /\ Spaces'
  BY DEF PathInv, SwitchToScheduler, Departure, Spaces
<1>7. Entries' /\ ProgramCounter'
  BY DEF PathInv, SwitchToScheduler, Entries, ProgramCounter
<1>8. KernelSide'
  BY DEF PathInv, SwitchToScheduler, Shape, KernelSide, Registers, IsRegs, Regs
<1>9. Registers'
  BY DEF PathInv, SwitchToScheduler, Registers
<1> QED BY <1>3, <1>4, <1>5, <1>6, <1>7, <1>8, <1>9, OnwardKeeps DEF PathInv

\* The caller's registers are back, ra among them.
LEMMA LoadSchedulerKeeps == PathInv /\ LoadScheduler => PathInv'
<1> SUFFICES ASSUME PathInv, LoadScheduler PROVE PathInv'
  OBVIOUS
<1>1. /\ x["sp"] = Frame /\ x'["sp"] = RaSlot
      /\ \A r \in Regs \ {"sp"} : x'[r] = mem[Frame].x[r]
      /\ IsRegs(x')
  <2>1. x["sp"] = Frame /\ Up(Frame) = RaSlot
    BY StackSlots DEF PathInv, KernelSide, LoadScheduler
  <2>2. IsRegs(mem[Frame].x)
    BY DEF PathInv, Shape
  <2> QED BY <2>1, <2>2 DEF LoadScheduler, LoadAll, IsRegs, Regs
<1>2. IsRegs(x') /\ DOMAIN csr' = DOMAIN csr /\ csr'.mscratch = csr.mscratch
  BY <1>1 DEF LoadScheduler
<1>3. sie' \in BOOLEAN /\ at \in Path /\ at' \in Path
  BY DEF PathInv, LoadScheduler, MaskingInv, Path
<1>4. MemoryShape'
  BY SameMemory DEF LoadScheduler
<1>5. Onward
  BY <1>2, <1>3, SameAside DEF LoadScheduler, Onward
<1>6. Modes'
  BY DEF PathInv, LoadScheduler, Modes
<1>7. Departure' /\ Spaces'
  BY DEF PathInv, LoadScheduler, Departure, Spaces
<1>8. Entries' /\ ProgramCounter'
  BY DEF PathInv, LoadScheduler, Entries, ProgramCounter
<1>9. KernelSide'
  BY <1>1 DEF PathInv, LoadScheduler, KernelSide, Agree, Regs, IsCallee
<1>10. Registers'
  BY DEF PathInv, LoadScheduler, Registers
<1> QED BY <1>4, <1>5, <1>6, <1>7, <1>8, <1>9, <1>10, OnwardKeeps DEF PathInv

\* ra is where execute_naked was called.
LEMMA ReturnToSchedulerKeeps == PathInv /\ ReturnToScheduler => PathInv'
<1> SUFFICES ASSUME PathInv, ReturnToScheduler PROVE PathInv'
  OBVIOUS
<1>1. at' = "returned"
  BY DEF PathInv, ReturnToScheduler, KernelSide, IsCallee, Text
<1>2. IsRegs(x') /\ DOMAIN csr' = DOMAIN csr /\ csr'.mscratch = csr.mscratch
  BY DEF PathInv, ReturnToScheduler, Shape
<1>3. sie' \in BOOLEAN /\ at \in Path /\ at' \in Path
  BY <1>1 DEF PathInv, ReturnToScheduler, MaskingInv, Path
<1>4. MemoryShape'
  BY SameMemory DEF ReturnToScheduler
<1>5. Onward
  BY <1>2, <1>3, SameAside DEF ReturnToScheduler, Onward
<1>6. Modes'
  BY <1>1 DEF PathInv, ReturnToScheduler, Modes
<1>7. Departure' /\ Spaces'
  BY <1>1 DEF PathInv, ReturnToScheduler, Departure, Spaces
<1>8. Entries' /\ ProgramCounter'
  BY <1>1 DEF PathInv, ReturnToScheduler, Entries, ProgramCounter
<1>9. KernelSide'
  BY <1>1 DEF PathInv, ReturnToScheduler, KernelSide
<1>10. Registers'
  BY <1>1 DEF PathInv, ReturnToScheduler, Registers
<1> QED BY <1>4, <1>5, <1>6, <1>7, <1>8, <1>9, <1>10, OnwardKeeps DEF PathInv

----------------------------------------------------------------------------
\* The portal.

\* a1 is free.
LEMMA PortalSaveA1Keeps == PathInv /\ PortalSaveA1 => PathInv'
<1> SUFFICES ASSUME PathInv, PortalSaveA1 PROVE PathInv'
  OBVIOUS
<1>1. Stored("a1", x["a1"])
  <2>1. x["a0"] = Cache
    BY DEF PathInv, PortalSaveA1, Registers
  <2> QED BY <2>1, CacheStore DEF PortalSaveA1
<1>2. IsRegs(x') /\ DOMAIN csr' = DOMAIN csr /\ csr'.mscratch = csr.mscratch
  BY DEF PathInv, PortalSaveA1, Shape
<1>3. sie' \in BOOLEAN /\ at \in Path /\ at' \in Path
  BY DEF PathInv, PortalSaveA1, MaskingInv, Path
<1>4. MemoryShape'
  BY <1>1 DEF Stored
<1>5. Onward
  BY <1>1, <1>2, <1>3, SameAside DEF PortalSaveA1, Onward, Stored
<1>6. Modes'
  BY DEF PathInv, PortalSaveA1, Modes
<1>7. Departure' /\ Spaces'
  BY <1>1 DEF PathInv, PortalSaveA1, Departure, Spaces, Stored
<1>8. Entries' /\ ProgramCounter'
  BY <1>1 DEF PathInv, PortalSaveA1, Entries, ProgramCounter, Stored
<1>9. KernelSide'
  BY <1>1, OnHart DEF PathInv, PortalSaveA1, KernelSide, Stored, Path
<1>10. Registers'
  BY <1>1 DEF PathInv, PortalSaveA1, Registers, Agree, Regs, Stored
<1> QED BY <1>4, <1>5, <1>6, <1>7, <1>8, <1>9, <1>10, OnwardKeeps DEF PathInv

\* The space of the thread on the way out, that of the kernel on the way back.
LEMMA SwapSatpKeeps == PathInv /\ SwapSatp => PathInv'
<1> SUFFICES ASSUME PathInv, SwapSatp PROVE PathInv'
  OBVIOUS
<1>1. Stored("satp", csr.satp) /\ csr' = [csr EXCEPT !.satp = Parked.satp]
  <2>1. x["a0"] = Cache
    BY DEF PathInv, SwapSatp, Registers
  <2> QED BY <2>1, CacheStore DEF SwapSatp, Got
<1>2. IsRegs(x') /\ DOMAIN csr' = DOMAIN csr /\ csr'.mscratch = csr.mscratch
  BY DEF PathInv, SwapSatp, Shape, IsRegs
<1>3. sie' \in BOOLEAN /\ at \in Path /\ at' \in Path
  BY DEF PathInv, SwapSatp, MaskingInv, Path
<1>4. MemoryShape'
  BY <1>1 DEF Stored
<1>5. Onward
  BY <1>1, <1>2, <1>3, SameAside DEF SwapSatp, Onward, Stored
<1>6. Modes'
  BY DEF PathInv, SwapSatp, Modes
<1>7. Departure' /\ Spaces'
  BY <1>1 DEF PathInv, SwapSatp, Shape, Departure, Spaces, Stored
<1>8. Entries' /\ ProgramCounter'
  BY <1>1 DEF PathInv, SwapSatp, Entries, ProgramCounter, Stored
<1>9. KernelSide'
  BY <1>1, OnHart DEF PathInv, SwapSatp, KernelSide, Stored, Path
<1>10. Registers'
  BY <1>1 DEF PathInv, SwapSatp, Registers, Agree, Stored
<1> QED BY <1>4, <1>5, <1>6, <1>7, <1>8, <1>9, <1>10, OnwardKeeps DEF PathInv

\* sret is going to user mode, with interrupts on.
LEMMA PortalSstatusKeeps == PathInv /\ PortalSstatus => PathInv'
<1> SUFFICES ASSUME PathInv, PortalSstatus PROVE PathInv'
  OBVIOUS
<1>1. sie' = FALSE /\ csr' = [csr EXCEPT !.spp = "U", !.spie = TRUE]
  <2>1. Got("sstatus") = [spp |-> "U", spie |-> TRUE, sie |-> FALSE]
    BY DEF PathInv, PortalSstatus, Departure, Registers, Got
  <2>2. sie' = Got("sstatus").sie /\ csr' = [csr EXCEPT !.spp = Got("sstatus").spp, !.spie = Got("sstatus").spie]
    BY DEF PortalSstatus, WriteSstatus
  <2>3. Got("sstatus").spp = "U" /\ Got("sstatus").spie = TRUE /\ Got("sstatus").sie = FALSE
    BY <2>1
  <2> QED BY <2>2, <2>3, Zenon
<1>2. IsRegs(x') /\ DOMAIN csr' = DOMAIN csr /\ csr'.mscratch = csr.mscratch
  BY <1>1 DEF PathInv, PortalSstatus, Shape
<1>3. sie' \in BOOLEAN /\ at \in Path /\ at' \in Path
  BY <1>1 DEF PortalSstatus, Path
<1>4. MemoryShape'
  BY SameMemory DEF PortalSstatus
<1>5. Onward
  BY <1>2, <1>3, SameAside DEF PortalSstatus, Onward
<1>6. Modes'
  BY <1>1 DEF PathInv, PortalSstatus, Modes, WriteSstatus
<1>7. Departure' /\ Spaces'
  BY <1>1 DEF PathInv, PortalSstatus, Shape, Departure, Spaces
<1>8. Entries' /\ ProgramCounter'
  BY DEF PathInv, PortalSstatus, Entries, ProgramCounter, WriteSstatus
<1>9. KernelSide'
  BY DEF PathInv, PortalSstatus, KernelSide
<1>10. Registers'
  BY DEF PathInv, PortalSstatus, Registers
<1> QED BY <1>4, <1>5, <1>6, <1>7, <1>8, <1>9, <1>10, OnwardKeeps DEF PathInv

\* sepc is the thread's pc.
LEMMA PortalSepcKeeps == PathInv /\ PortalSepc => PathInv'
<1> SUFFICES ASSUME PathInv, PortalSepc PROVE PathInv'
  OBVIOUS
<1>1. IsRegs(x') /\ DOMAIN csr' = DOMAIN csr /\ csr'.mscratch = csr.mscratch
  BY DEF PathInv, PortalSepc, Shape
<1>2. sie' \in BOOLEAN /\ at \in Path /\ at' \in Path
  BY DEF PathInv, PortalSepc, MaskingInv, Path
<1>3. MemoryShape'
  BY SameMemory DEF PortalSepc
<1>4. Onward
  BY <1>1, <1>2, SameAside DEF PortalSepc, Onward
<1>5. Modes'
  BY DEF PathInv, PortalSepc, Modes
<1>6. Departure' /\ Spaces'
  BY DEF PathInv, PortalSepc, Departure, Spaces
<1>7. Entries' /\ ProgramCounter'
  BY DEF PathInv, PortalSepc, Entries, ProgramCounter, Registers, Got
<1>8. KernelSide'
  BY DEF PathInv, PortalSepc, KernelSide
<1>9. Registers'
  BY DEF PathInv, PortalSepc, Registers
<1> QED BY <1>3, <1>4, <1>5, <1>6, <1>7, <1>8, <1>9, OnwardKeeps DEF PathInv

\* Traps go to the portal, whose cache keeps the kernel's entry.
LEMMA PortalStvecKeeps == PathInv /\ PortalStvec => PathInv'
<1> SUFFICES ASSUME PathInv, PortalStvec PROVE PathInv'
  OBVIOUS
<1>1. Stored("stvec", csr.stvec)
  <2>1. x["a0"] = Cache
    BY DEF PathInv, PortalStvec, Registers
  <2> QED BY <2>1, CacheStore DEF PortalStvec
<1>2. IsRegs(x') /\ DOMAIN csr' = DOMAIN csr /\ csr'.mscratch = csr.mscratch
  BY DEF PathInv, PortalStvec, Shape
<1>3. sie' \in BOOLEAN /\ at \in Path /\ at' \in Path
  BY DEF PathInv, PortalStvec, MaskingInv, Path
<1>4. MemoryShape'
  BY <1>1 DEF Stored
<1>5. Onward
  BY <1>1, <1>2, <1>3, SameAside DEF PortalStvec, Onward, Stored
<1>6. Modes'
  BY DEF PathInv, PortalStvec, Modes
<1>7. Departure' /\ Spaces'
  BY <1>1 DEF PathInv, PortalStvec, Departure, Spaces, Stored
<1>8. Entries' /\ ProgramCounter'
  BY <1>1 DEF PathInv, PortalStvec, Entries, ProgramCounter, Stored
<1>9. KernelSide'
  BY <1>1, OnHart DEF PathInv, PortalStvec, KernelSide, Stored, Path
<1>10. Registers'
  BY <1>1 DEF PathInv, PortalStvec, Registers, Stored
<1> QED BY <1>4, <1>5, <1>6, <1>7, <1>8, <1>9, <1>10, OnwardKeeps DEF PathInv

\* sscratch is the cache, which keeps the pointer to the context.
LEMMA PortalSscratchKeeps == PathInv /\ PortalSscratch => PathInv'
<1> SUFFICES ASSUME PathInv, PortalSscratch PROVE PathInv'
  OBVIOUS
<1>1. Stored("sscratch", csr.sscratch)
  <2>1. x["a0"] = Cache
    BY DEF PathInv, PortalSscratch, Registers
  <2> QED BY <2>1, CacheStore DEF PortalSscratch
<1>2. IsRegs(x') /\ DOMAIN csr' = DOMAIN csr /\ csr'.mscratch = csr.mscratch
  BY DEF PathInv, PortalSscratch, Shape
<1>3. sie' \in BOOLEAN /\ at \in Path /\ at' \in Path
  BY DEF PathInv, PortalSscratch, MaskingInv, Path
<1>4. MemoryShape'
  BY <1>1 DEF Stored
<1>5. Onward
  BY <1>1, <1>2, <1>3, SameAside DEF PortalSscratch, Onward, Stored
<1>6. Modes'
  BY DEF PathInv, PortalSscratch, Modes
<1>7. Departure' /\ Spaces'
  BY <1>1 DEF PathInv, PortalSscratch, Departure, Spaces, Stored
<1>8. Entries' /\ ProgramCounter'
  BY <1>1 DEF PathInv, PortalSscratch, Entries, ProgramCounter, Registers, Stored
<1>9. KernelSide'
  BY <1>1, OnHart DEF PathInv, PortalSscratch, KernelSide, Stored, Path
<1>10. Registers'
  BY <1>1 DEF PathInv, PortalSscratch, Registers, Stored
<1> QED BY <1>4, <1>5, <1>6, <1>7, <1>8, <1>9, <1>10, OnwardKeeps DEF PathInv

\* All registers are the thread's.
LEMMA PortalLoadKeeps == PathInv /\ PortalLoad => PathInv'
<1> SUFFICES ASSUME PathInv, PortalLoad PROVE PathInv'
  OBVIOUS
<1>1. IsRegs(x') /\ DOMAIN csr' = DOMAIN csr /\ csr'.mscratch = csr.mscratch
  BY DEF PathInv, PortalLoad, Shape, IsRegs
<1>2. sie' \in BOOLEAN /\ at \in Path /\ at' \in Path
  BY DEF PathInv, PortalLoad, MaskingInv, Path
<1>3. MemoryShape'
  BY SameMemory DEF PortalLoad
<1>4. Onward
  BY <1>1, <1>2, SameAside DEF PortalLoad, Onward
<1>5. Modes'
  BY DEF PathInv, PortalLoad, Modes
<1>6. Departure' /\ Spaces'
  BY DEF PathInv, PortalLoad, Departure, Spaces
<1>7. Entries' /\ ProgramCounter'
  BY DEF PathInv, PortalLoad, Entries, ProgramCounter
<1>8. KernelSide'
  BY DEF PathInv, PortalLoad, KernelSide
<1>9. Registers'
  BY DEF PathInv, PortalLoad, Shape, Registers, Agree, IsRegs, Got
<1> QED BY <1>3, <1>4, <1>5, <1>6, <1>7, <1>8, <1>9, OnwardKeeps DEF PathInv

\* User mode begins.
LEMMA PortalDepartsKeeps == PathInv /\ PortalDeparts => PathInv'
<1> SUFFICES ASSUME PathInv, PortalDeparts PROVE PathInv'
  OBVIOUS
<1>1. at' \in UserText /\ sie' = TRUE
      /\ csr' = [csr EXCEPT !.mode = "U", !.spp = "U", !.spie = TRUE]
  <2>1. csr.sepc[2] \in UserText /\ csr.spp = "U" /\ csr.spie = TRUE
    BY OnHart DEF PathInv, PortalDeparts, Departure, ProgramCounter, Text, Shape, Path
  <2>2. /\ at' = csr.sepc[2] /\ sie' = csr.spie
        /\ csr' = [csr EXCEPT !.mode = csr.spp, !.spp = "U", !.spie = TRUE]
    BY Zenon DEF PortalDeparts, Sret
  <2> QED BY <2>1, <2>2, Zenon
<1>2. IsRegs(x') /\ DOMAIN csr' = DOMAIN csr /\ csr'.mscratch = csr.mscratch
  BY <1>1 DEF PathInv, PortalDeparts, Shape
<1>3. sie' \in BOOLEAN /\ at \in Path /\ at' \in Path
  BY <1>1 DEF PortalDeparts, Path
<1>4. MemoryShape'
  BY SameMemory DEF PortalDeparts
<1>5. Onward
  BY <1>2, <1>3, SameAside DEF PortalDeparts, Onward
<1>6. Modes'
  BY <1>1 DEF PathInv, PortalDeparts, Modes
<1>7. Departure' /\ Spaces'
  BY <1>1 DEF PathInv, PortalDeparts, Departure, Spaces
<1>8. Entries' /\ ProgramCounter'
  BY <1>1 DEF PathInv, PortalDeparts, Entries, ProgramCounter
<1>9. KernelSide'
  BY <1>1 DEF PathInv, PortalDeparts, KernelSide
<1>10. Registers'
  BY <1>1 DEF Registers
<1> QED BY <1>4, <1>5, <1>6, <1>7, <1>8, <1>9, <1>10, OnwardKeeps DEF PathInv

\* a0 and the pointer to the cache change places.
LEMMA PortalTrapKeeps == PathInv /\ PortalTrap => PathInv'
<1> SUFFICES ASSUME PathInv, PortalTrap PROVE PathInv'
  OBVIOUS
<1>1. IsRegs(x') /\ DOMAIN csr' = DOMAIN csr /\ csr'.mscratch = csr.mscratch
  BY DEF PathInv, PortalTrap, Shape, IsRegs
<1>2. sie' \in BOOLEAN /\ at \in Path /\ at' \in Path
  BY DEF PathInv, PortalTrap, MaskingInv, Path
<1>3. MemoryShape'
  BY SameMemory DEF PortalTrap
<1>4. Onward
  BY <1>1, <1>2, SameAside DEF PortalTrap, Onward
<1>5. Modes'
  BY DEF PathInv, PortalTrap, Modes
<1>6. Departure' /\ Spaces'
  BY DEF PathInv, PortalTrap, Departure, Spaces
<1>7. Entries' /\ ProgramCounter'
  BY DEF PathInv, PortalTrap, Entries, ProgramCounter
<1>8. KernelSide'
  BY DEF PathInv, PortalTrap, KernelSide
<1>9. Registers'
  BY DEF PathInv, PortalTrap, Shape, Registers, Agree, IsRegs, Regs, Entries
<1> QED BY <1>3, <1>4, <1>5, <1>6, <1>7, <1>8, <1>9, OnwardKeeps DEF PathInv

\* a1 is free again.
LEMMA PortalSaveUserA1Keeps == PathInv /\ PortalSaveUserA1 => PathInv'
<1> SUFFICES ASSUME PathInv, PortalSaveUserA1 PROVE PathInv'
  OBVIOUS
<1>1. Stored("a1", x["a1"])
  <2>1. x["a0"] = Cache
    BY DEF PathInv, PortalSaveUserA1, Registers
  <2> QED BY <2>1, CacheStore DEF PortalSaveUserA1
<1>2. IsRegs(x') /\ DOMAIN csr' = DOMAIN csr /\ csr'.mscratch = csr.mscratch
  BY DEF PathInv, PortalSaveUserA1, Shape
<1>3. sie' \in BOOLEAN /\ at \in Path /\ at' \in Path
  BY DEF PathInv, PortalSaveUserA1, MaskingInv, Path
<1>4. MemoryShape'
  BY <1>1 DEF Stored
<1>5. Onward
  BY <1>1, <1>2, <1>3, SameAside DEF PortalSaveUserA1, Onward, Stored
<1>6. Modes'
  BY DEF PathInv, PortalSaveUserA1, Modes
<1>7. Departure' /\ Spaces'
  BY <1>1 DEF PathInv, PortalSaveUserA1, Departure, Spaces, Stored
<1>8. Entries' /\ ProgramCounter'
  BY <1>1 DEF PathInv, PortalSaveUserA1, Entries, ProgramCounter, Stored
<1>9. KernelSide'
  BY <1>1, OnHart DEF PathInv, PortalSaveUserA1, KernelSide, Stored, Path
<1>10. Registers'
  BY <1>1 DEF PathInv, PortalSaveUserA1, Registers, Agree, Regs, Stored
<1> QED BY <1>4, <1>5, <1>6, <1>7, <1>8, <1>9, <1>10, OnwardKeeps DEF PathInv

\* sscratch is the context, and the cache has the thread's a0.
LEMMA PortalBackSscratchKeeps == PathInv /\ PortalBackSscratch => PathInv'
<1> SUFFICES ASSUME PathInv, PortalBackSscratch PROVE PathInv'
  OBVIOUS
<1>1. Stored("a0", csr.sscratch)
  <2>1. x["a0"] = Cache
    BY DEF PathInv, PortalBackSscratch, Registers
  <2> QED BY <2>1, CacheStore DEF PortalBackSscratch
<1>2. IsRegs(x') /\ DOMAIN csr' = DOMAIN csr /\ csr'.mscratch = csr.mscratch
  BY DEF PathInv, PortalBackSscratch, Shape, IsRegs
<1>3. sie' \in BOOLEAN /\ at \in Path /\ at' \in Path
  BY DEF PathInv, PortalBackSscratch, MaskingInv, Path
<1>4. MemoryShape'
  BY <1>1 DEF Stored
<1>5. Onward
  BY <1>1, <1>2, <1>3, SameAside DEF PortalBackSscratch, Onward, Stored
<1>6. Modes'
  BY DEF PathInv, PortalBackSscratch, Modes
<1>7. Departure' /\ Spaces'
  BY <1>1 DEF PathInv, PortalBackSscratch, Departure, Spaces, Stored
<1>8. Entries' /\ ProgramCounter'
  BY <1>1 DEF PathInv, PortalBackSscratch, Entries, ProgramCounter, Registers, Got, Stored
<1>9. KernelSide'
  BY <1>1, OnHart DEF PathInv, PortalBackSscratch, KernelSide, Stored, Path
<1>10. Registers'
  BY <1>1 DEF PathInv, PortalBackSscratch, Registers, Agree, Stored
<1> QED BY <1>4, <1>5, <1>6, <1>7, <1>8, <1>9, <1>10, OnwardKeeps DEF PathInv

\* a1 is the thread's.
LEMMA PortalBackA1Keeps == PathInv /\ PortalBackA1 => PathInv'
<1> SUFFICES ASSUME PathInv, PortalBackA1 PROVE PathInv'
  OBVIOUS
<1>1. IsRegs(x') /\ DOMAIN csr' = DOMAIN csr /\ csr'.mscratch = csr.mscratch
  BY DEF PathInv, PortalBackA1, Shape, IsRegs
<1>2. sie' \in BOOLEAN /\ at \in Path /\ at' \in Path
  BY DEF PathInv, PortalBackA1, MaskingInv, Path
<1>3. MemoryShape'
  BY SameMemory DEF PortalBackA1
<1>4. Onward
  BY <1>1, <1>2, SameAside DEF PortalBackA1, Onward
<1>5. Modes'
  BY DEF PathInv, PortalBackA1, Modes
<1>6. Departure' /\ Spaces'
  BY DEF PathInv, PortalBackA1, Departure, Spaces
<1>7. Entries' /\ ProgramCounter'
  BY DEF PathInv, PortalBackA1, Entries, ProgramCounter
<1>8. KernelSide'
  BY DEF PathInv, PortalBackA1, KernelSide
<1>9. Registers'
  BY DEF PathInv, PortalBackA1, Shape, Registers, Agree, IsRegs, Got
<1> QED BY <1>3, <1>4, <1>5, <1>6, <1>7, <1>8, <1>9, OnwardKeeps DEF PathInv

\* Home is the kernel's trap entry.
LEMMA PortalHomeKeeps == PathInv /\ PortalHome => PathInv'
<1> SUFFICES ASSUME PathInv, PortalHome PROVE PathInv'
  OBVIOUS
<1>1. at' = "trapped"
  BY DEF PathInv, PortalHome, Got, Registers, Entries, Text
<1>2. IsRegs(x') /\ DOMAIN csr' = DOMAIN csr /\ csr'.mscratch = csr.mscratch
  BY DEF PathInv, PortalHome, Shape, IsRegs
<1>3. sie' \in BOOLEAN /\ at \in Path /\ at' \in Path
  BY <1>1 DEF PathInv, PortalHome, MaskingInv, Path
<1>4. MemoryShape'
  BY SameMemory DEF PortalHome
<1>5. Onward
  BY <1>2, <1>3, SameAside DEF PortalHome, Onward
<1>6. Modes'
  BY <1>1 DEF PathInv, PortalHome, Modes
<1>7. Departure' /\ Spaces'
  BY <1>1 DEF PathInv, PortalHome, Departure, Spaces
<1>8. Entries' /\ ProgramCounter'
  BY <1>1 DEF PathInv, PortalHome, Entries, ProgramCounter, Registers, Got
<1>9. KernelSide'
  BY <1>1 DEF PathInv, PortalHome, KernelSide
<1>10. Registers'
  BY <1>1 DEF PathInv, PortalHome, Registers, Agree
<1> QED BY <1>4, <1>5, <1>6, <1>7, <1>8, <1>9, <1>10, OnwardKeeps DEF PathInv

----------------------------------------------------------------------------
\* User programs.

\* A jump changes nothing but the pc.
LEMMA UserJumpKeeps == ASSUME PathInv, NEW t, UserJump(t) PROVE PathInv'
<1>1. at \in UserText /\ at' \in UserText /\ UNCHANGED <<x, csr, mem, local, kept, ready, current, want, sie, info, open, found>>
  BY DEF UserJump
<1>2. Onward /\ MemoryShape'
  BY SameMemory, SameAside DEF PathInv, Shape, MaskingInv, UserJump, Onward, Path
<1>3. Modes' /\ Departure' /\ Spaces' /\ KernelSide' /\ Entries' /\ ProgramCounter' /\ Registers'
  BY <1>1 DEF PathInv, Modes, Departure, Spaces, KernelSide, Entries, ProgramCounter,
       Registers
<1> QED BY <1>2, <1>3, OnwardKeeps DEF PathInv

\* What a call and a fault have in common.
UserTrap ==
  /\ at \in UserText
  /\ \E cause \in {2, 8, 13} : Trap(cause, at) /\ (cause = UserEnvCall => at = "user")
  /\ IsRegs(x')
  /\ want' = [want EXCEPT ![current] = [x |-> x', pc |-> at]]
  /\ UNCHANGED <<mem, local, ready, current, kept, info, open, found>>

\* A trap is noted as it leaves the thread, and enters the portal.
LEMMA UserTrapKeeps == PathInv /\ UserTrap => PathInv'
<1> SUFFICES ASSUME PathInv, UserTrap PROVE PathInv'
  OBVIOUS
<1>1. PICK cause \in {2, 8, 13} : Trap(cause, at) /\ (cause = UserEnvCall => at = "user")
  BY DEF UserTrap
<1>2. csr' = [csr EXCEPT !.mode = "S", !.spp = csr.mode, !.spie = sie, !.sepc = Text(at), !.scause = cause]
  BY <1>1 DEF Trap, Medeleg, SupervisorEnvCall
<1>3. sie' = FALSE /\ at' = "p_trap"
  BY DEF Trap, Medeleg, SupervisorEnvCall, PathInv, UserTrap, Entries, Text
<1>4. current \in Threads
  BY OnHart DEF UserTrap, Path
<1>5. /\ DOMAIN csr' = DOMAIN csr /\ csr'.mscratch = csr.mscratch /\ csr'.mode = "S"
      /\ csr'.satp = csr.satp /\ csr'.sepc = Text(at) /\ csr'.sscratch = csr.sscratch
      /\ csr'.stvec = csr.stvec /\ (csr'.scause = UserEnvCall => cause = UserEnvCall)
  BY <1>2
<1>6. /\ WantShape' /\ want'[current].pc = at /\ want'[current].x = x'
      /\ \A t \in Threads : t # current => want'[t] = want[t]
  BY <1>4 DEF PathInv, Shape, WantShape, UserTrap
<1>7. MemoryShape'
  BY SameMemory DEF UserTrap
<1>8. Onward
  BY <1>3, <1>5, <1>6 DEF PathInv, Shape, UserTrap, Onward, Path
<1>9. Modes' /\ Departure' /\ Spaces'
  BY <1>3, <1>5 DEF PathInv, Modes, Departure, Spaces, UserTrap
<1>10. Entries' /\ ProgramCounter'
  BY <1>1, <1>3, <1>5, <1>6 DEF PathInv, Entries, ProgramCounter, UserTrap
<1>11. Registers' /\ KernelSide'
  BY <1>3, <1>6 DEF PathInv, Registers, KernelSide, UserTrap, Agree
<1> QED BY <1>7, <1>8, <1>9, <1>10, <1>11, OnwardKeeps DEF PathInv

\* A call is such a trap, and so is a fault.
LEMMA UserTraps ==
  ASSUME PathInv, NEW t, (\E c \in Makes[t] : UserCall(t, c)) \/ UserFault(t)
  PROVE  UserTrap
<1>1. ASSUME NEW c \in Makes[t], UserCall(t, c) PROVE UserTrap
  <2>1. PICK v : v = CallRegs(t, c)
    OBVIOUS
  <2>2. IsRegs(v)
    BY <2>1 DEF CallRegs, IsRegs
  <2> QED BY <1>1, <2>1, <2>2 DEF UserCall, UserTrap, Running, UserEnvCall
<1>2. ASSUME UserFault(t) PROVE UserTrap
  BY <1>2 DEF UserFault, UserTrap, Running, PathInv, Shape, Modes, UserEnvCall
<1> QED BY <1>1, <1>2

\* Every step keeps the annotations.
LEMMA UserStepKeeps == ASSUME PathInv, NEW t \in Threads, UserStep(t) PROVE PathInv'
<1>1. CASE \E c \in Makes[t] : UserCall(t, c)
  BY <1>1, UserTraps, UserTrapKeeps
<1>2. CASE UserJump(t)
  BY <1>2, UserJumpKeeps
<1>3. CASE UserFault(t)
  BY <1>3, UserTraps, UserTrapKeeps
<1> QED BY <1>1, <1>2, <1>3 DEF UserStep

----------------------------------------------------------------------------
\* The loop after execute.

\* A thread that is ended is nobody's.
LEMMA OtherTrapKeeps == PathInv /\ OtherTrap => PathInv'
<1> SUFFICES ASSUME PathInv, OtherTrap PROVE PathInv'
  OBVIOUS
<1>1. /\ at = "cause" /\ at' = "loop"
      /\ UNCHANGED <<x, csr, mem, local, ready, want, kept, sie, info, open, found>>
  BY DEF OtherTrap
<1>2. Shape' /\ Queued' /\ Contexts'
  BY <1>1 DEF PathInv, Shape, Queued, Contexts, Busy, Fit
<1>3. MaskingInv' /\ Modes' /\ FirmwareSide'
  BY <1>1 DEF PathInv, MaskingInv, Modes, FirmwareSide
<1>4. csr'.satp = KernelSpace /\ csr'.sscratch = Zero
  BY <1>1 DEF PathInv, Spaces, Entries
<1> QED BY <1>1, <1>2, <1>3, <1>4, HomeKeeps DEF PathInv

\* The pc moves on, and the handler runs for the thread that called.
LEMMA SystemCallKeeps == PathInv /\ SystemCall => PathInv'
<1> SUFFICES ASSUME PathInv, SystemCall PROVE PathInv'
  OBVIOUS
<1>1. current \in Threads /\ Fit(current) /\ \A i \in DOMAIN ready : ready[i] \in Threads /\ ready[i] # current
  BY DEF SystemCall, PathInv, Contexts, Queued, Busy
<1>2. /\ at = "cause" /\ at' \in {"loop", "handler", "panic"} /\ (at' # "loop" => current' = current)
      /\ UNCHANGED <<x, csr, local, ready, want, kept, sie, info, open, found>>
  BY DEF SystemCall
<1>3. want[current].pc = "user"
  BY DEF SystemCall, PathInv, Contexts
<1>4. ContextStored("sepc", Text(After(want[current].pc)))
  BY <1>1 DEF SystemCall, PathInv, Shape, ContextStored, Fit, Text
<1>5. /\ \A t \in Threads : t # current => mem'[Ctx(t)] = mem[Ctx(t)]
      /\ MemoryShape'
  BY <1>1, <1>4, ContextStore
<1>6. Shape'
  BY <1>2, <1>5 DEF PathInv, Shape, MemoryShape
<1>7. Queued'
  BY <1>2 DEF PathInv, Queued, Busy
<1>8. \A t \in Threads : t # current => (Fit(t)' <=> Fit(t))
  BY <1>2, <1>5 DEF Fit
<1>9. at' # "loop" => Answering(current)'
  <2>1. /\ mem'[Ctx(current)].x = Context.x /\ mem'[Ctx(current)].sepc = Text(After(want[current].pc))
        /\ mem'[Ctx(current)].supervisor = Context.supervisor
        /\ mem'[Ctx(current)].interrupt = Context.interrupt
    BY <1>4 DEF ContextStored
  <2> QED BY <1>1, <1>2, <1>3, <2>1 DEF Answering, Fit
<1>10. Contexts'
  BY <1>1, <1>2, <1>8, <1>9 DEF PathInv, Contexts
<1>11. MaskingInv' /\ Modes' /\ FirmwareSide'
  BY <1>2 DEF PathInv, MaskingInv, Modes, FirmwareSide
<1>12. csr'.satp = KernelSpace /\ csr'.sscratch = Zero
  BY <1>2 DEF PathInv, Spaces, Entries
<1> QED BY <1>2, <1>6, <1>7, <1>10, <1>11, <1>12, HomeKeeps DEF PathInv

\* A thread that is not queued may be.
LEMMA AppendApart ==
  ASSUME NEW S, NEW q \in Seq(S), NEW s \in S, \A i, j \in DOMAIN q : q[i] = q[j] => i = j,
         \A i \in DOMAIN q : q[i] # s
  PROVE  /\ Append(q, s) \in Seq(S)
         /\ \A i \in DOMAIN Append(q, s) : Append(q, s)[i] = s \/ (i \in DOMAIN q /\ Append(q, s)[i] = q[i])
         /\ \A i, j \in DOMAIN Append(q, s) : Append(q, s)[i] = Append(q, s)[j] => i = j
OBVIOUS

\* The result is what the thread will find, and the thread is queued once.
LEMMA EndSystemCallKeeps == PathInv /\ EndSystemCall => PathInv'
<1> SUFFICES ASSUME PathInv, EndSystemCall PROVE PathInv'
  OBVIOUS
<1>1. /\ current \in Threads /\ Answering(current) /\ \A i \in DOMAIN ready : ready[i] # current
      /\ ready \in Seq(Threads) /\ \A i, j \in DOMAIN ready : ready[i] = ready[j] => i = j
      /\ \A i \in DOMAIN ready : Fit(ready[i]) /\ ready[i] \in Threads
  BY DEF EndSystemCall, PathInv, Contexts, Queued, Busy
<1>2. /\ at = "handler" /\ at' = "loop" /\ open' = {}
      /\ UNCHANGED <<x, csr, local, kept, sie, info, open, found>>
  BY DEF EndSystemCall
<1>3. MaskingInv' /\ Modes' /\ FirmwareSide'
  BY <1>2 DEF PathInv, MaskingInv, Modes, FirmwareSide
<1>4. csr'.satp = KernelSpace /\ csr'.sscratch = Zero
  BY <1>2 DEF PathInv, Spaces, Entries
<1>5. ASSUME UNCHANGED <<mem, ready, want>> PROVE Shape' /\ Queued' /\ Contexts'
  BY <1>2, <1>5 DEF PathInv, Shape, Queued, Contexts, Busy, Fit
<1>6. ASSUME /\ mem' = [mem EXCEPT ![Ctx(current)].x["a0"] = Result]
             /\ ready' = Append(ready, current)
             /\ want' = [want EXCEPT ![current] = [x |-> [@.x EXCEPT !["a0"] = Result], pc |-> After(@.pc)]]
      PROVE  Shape' /\ Queued' /\ Contexts'
  <2> DEFINE C == Ctx(current)
             answered(f) == [f EXCEPT !["a0"] = Result]
  <2>1. /\ DOMAIN want = Threads /\ DOMAIN Wanted \in {Regs} /\ DOMAIN want[current] = {"x", "pc"}
        /\ IsRegs(Wanted) /\ IsRegs(Context.x)
    BY <1>1 DEF PathInv, Shape, IsRegs
  <2>2. ContextStored("x", answered(Context.x))
    BY <1>1, <1>6 DEF PathInv, Shape, ContextStored
  <2>3. IsRegs(answered(Context.x)) /\ IsRegs(answered(Wanted)) /\ Agree(answered(Context.x), answered(Wanted), {})
    BY <1>1, <2>1 DEF IsRegs, Answering, Agree
  <2>4. want' = [want EXCEPT ![current] = [x |-> answered(Wanted), pc |-> "user+4"]]
    BY <1>1, <1>6 DEF Answering, After
  <2> HIDE DEF answered
  <2>5. /\ \A t \in Threads : t # current => mem'[Ctx(t)] = mem[Ctx(t)] /\ want'[t] = want[t]
        /\ MemoryShape'
    BY <1>1, <2>2, <2>3, <2>4, ContextStore
  <2>6. WantShape' /\ want'[current].x = answered(Wanted) /\ want'[current].pc = "user+4"
    BY <1>1, <2>3, <2>4 DEF PathInv, Shape, WantShape
  <2>7. Shape'
    BY <1>2, <2>5, <2>6 DEF PathInv, Shape, MemoryShape, WantShape
  <2>8. /\ ready' \in Seq(Threads)
        /\ \A i \in DOMAIN ready' : ready'[i] = current \/ (i \in DOMAIN ready /\ ready'[i] = ready[i])
        /\ \A i, j \in DOMAIN ready' : ready'[i] = ready'[j] => i = j
    BY <1>1, <1>6
  <2>9. Queued'
    BY <1>2, <2>8 DEF Queued, Busy
  <2>10. \A t \in Threads : t # current => (Fit(t)' <=> Fit(t))
    BY <2>5 DEF Fit
  <2>11. PICK t \in Threads : t = current
    BY <1>1
  <2>12. /\ mem'[Ctx(t)].x = answered(Context.x) /\ mem'[Ctx(t)].sepc = Context.sepc
         /\ mem'[Ctx(t)].supervisor = Context.supervisor /\ mem'[Ctx(t)].interrupt = Context.interrupt
    BY <2>2, <2>11 DEF ContextStored
  <2>13. Fit(t)'
    BY <1>1, <2>3, <2>6, <2>11, <2>12 DEF Fit, Answering, After
  <2>14. \A i \in DOMAIN ready' : Fit(ready[i])'
    <3>1. ASSUME NEW i \in DOMAIN ready' PROVE Fit(ready[i])'
      <4>1. CASE ready'[i] = t
        BY <2>13, <4>1
      <4>2. CASE ready'[i] # t
        <5>1. PICK u \in Threads : u = ready'[i] /\ u # current /\ Fit(u)
          BY <1>1, <2>8, <2>11, <4>2
        <5>2. Fit(u)'
          BY <2>10, <5>1
        <5> QED BY <5>1, <5>2
      <4> QED BY <4>1, <4>2
    <3> QED BY <3>1
  <2>15. Contexts'
    BY <1>2, <2>14 DEF Contexts
  <2> QED BY <2>7, <2>9, <2>15
<1>7. Shape' /\ Queued' /\ Contexts'
  BY <1>5, <1>6 DEF EndSystemCall
<1> QED BY <1>2, <1>3, <1>4, <1>7, HomeKeeps DEF PathInv

\* Sections without interrupts are counted as they are on their own.
LEMMA UseCellsKeeps == PathInv /\ UseCells => PathInv'
<1> SUFFICES ASSUME PathInv, UseCells PROVE PathInv'
  OBVIOUS
<1>1. /\ at = "handler" /\ at' = at
      /\ UNCHANGED <<x, csr, mem, local, kept, current, ready, want>>
  BY DEF UseCells
<1>2. MaskingInv /\ sie = FALSE /\ (open # {} => found = FALSE)
  BY <1>1 DEF PathInv, Modes
<1>3. PICK c \in Cells : ExclusiveAccess(c) \/ DropRef(c)
  BY DEF UseCells
<1>4. MaskingInv' /\ sie' = FALSE /\ (open' # {} => found' = FALSE)
  <2>1. CASE ExclusiveAccess(c)
    BY <1>2, <2>1, EnterKeepsInv DEF ExclusiveAccess
  <2>2. CASE DropRef(c)
    <3>1. MaskingInv' /\ sie' = (open' = {} /\ found) /\ found = FALSE /\ found' = found
      BY <1>2, <2>2, DropKeepsInv DEF DropRef
    <3> QED BY <3>1
  <2> QED BY <1>3, <2>1, <2>2
<1>5. Shape' /\ Queued' /\ Contexts' /\ FirmwareSide'
  BY <1>1 DEF PathInv, Shape, Queued, Contexts, FirmwareSide, Busy, Fit, Answering
<1>6. Modes'
  BY <1>1, <1>4 DEF PathInv, Modes
<1>7. csr'.satp = KernelSpace /\ csr'.sscratch = Zero
  BY <1>1 DEF PathInv, Spaces, Entries
<1> QED BY <1>1, <1>4, <1>5, <1>6, <1>7, HomeKeeps DEF PathInv

----------------------------------------------------------------------------
\* The firmware.

\* A call of the firmware, from the loop, a handler or the panic handler.
LEMMA SbiCallKeeps ==
  ASSUME PathInv, at \in {"loop", "handler", "panic"}, NEW eid, NEW fid, NEW arg0,
         at = "handler" \/ eid = "SRST", SbiCall(eid, fid, arg0)
  PROVE  PathInv'
<1>1. /\ at' = "m_trap" /\ UNCHANGED sie
      /\ csr' = [csr EXCEPT !.mode = "M", !.mpp = csr.mode, !.mepc = Text("sbi_call"), !.mcause = SupervisorEnvCall]
  BY DEF SbiCall, Trap, Medeleg
<1>2. csr.mode = "S" /\ csr.satp = KernelSpace /\ csr.sscratch = Zero /\ csr.mscratch = MTop /\ sie = FALSE
      /\ (open # {} => at # "loop" /\ found = FALSE)
  BY DEF PathInv, Modes, Spaces, Entries, FirmwareSide
<1>3. /\ DOMAIN csr' = DOMAIN csr /\ csr'.mode = "M" /\ csr'.mpp = "S" /\ csr'.mepc = Text("sbi_call")
      /\ csr'.satp = KernelSpace /\ csr'.sscratch = Zero /\ csr'.mscratch = MTop
  BY <1>1, <1>2
<1>4. /\ UNCHANGED <<mem, current, ready, want, info, open, found>>
      /\ local' = [local EXCEPT !.caller = at]
  BY DEF SbiCall
<1>5. /\ DOMAIN local' = DOMAIN local /\ local'.caller = at
  BY <1>4
<1>6. IsRegs(x') /\ kept' = x' /\ x'["sp"] = LoopSp /\ x'["a7"] = <<eid>>
  BY DEF SbiCall, KernelRegs, IsRegs, Regs
<1>7. Shape'
  BY <1>1, <1>4, <1>6 DEF PathInv, Shape
<1>8. Queued' /\ Contexts'
  BY <1>1, <1>4 DEF PathInv, Queued, Contexts, Busy, Fit, Answering
<1>9. MaskingInv' /\ Modes'
  BY <1>1, <1>4 DEF PathInv, MaskingInv, Modes
<1>10. FirmwareSide'
  BY <1>1, <1>3, <1>5, <1>6 DEF FirmwareSide, Agree
<1> QED BY <1>1, <1>3, <1>7, <1>8, <1>9, <1>10, HomeKeeps DEF PathInv

\* Each of the three calls is one.
LEMMA SbiCallsKeep == PathInv /\ (PutChar \/ GetChar \/ Shutdown) => PathInv'
BY SbiCallKeeps DEF PutChar, GetChar, Shutdown

\* The caller goes on.
LEMMA SbiReturnsKeeps == PathInv /\ SbiReturns => PathInv'
<1> SUFFICES ASSUME PathInv, SbiReturns PROVE PathInv'
  OBVIOUS
<1>1. /\ at = "sbi_call+4" /\ at' \in {"panic", "handler"}
      /\ UNCHANGED <<x, csr, mem, local, kept, current, ready, want, sie, info, open, found>>
  BY DEF SbiReturns, PathInv, FirmwareSide
<1>2. Shape' /\ Queued' /\ Contexts' /\ FirmwareSide'
  BY <1>1 DEF PathInv, Shape, Queued, Contexts, FirmwareSide, Busy, Fit, Answering
<1>3. MaskingInv' /\ Modes'
  BY <1>1 DEF PathInv, MaskingInv, Modes
<1>4. csr'.satp = KernelSpace /\ csr'.sscratch = Zero
  BY <1>1 DEF PathInv, Spaces, Entries
<1> QED BY <1>1, <1>2, <1>3, <1>4, HomeKeeps DEF PathInv

\* The vector's frame holds the registers it saves.
LEMMA MTrapVectorKeeps == PathInv /\ MTrapVector => PathInv'
<1> SUFFICES ASSUME PathInv, MTrapVector PROVE PathInv'
  OBVIOUS
<1>1. /\ at = "m_trap" /\ at' = "m_handler"
      /\ UNCHANGED <<local, kept, current, ready, want, sie, info, open, found>>
  BY DEF MTrapVector
<1>2. /\ csr.mscratch = MTop /\ Down(csr.mscratch) = MFrame /\ Agree(x, kept, {}) /\ kept["sp"] = LoopSp
      /\ csr.satp = KernelSpace /\ csr.sscratch = Zero
  BY <1>1, StackSlots DEF PathInv, FirmwareSide, Spaces, Entries
<1> DEFINE saved == [r \in Regs |-> IF r \in SavedByVector THEN x[r] ELSE Nothing]
<1>3. IsRegs(saved) /\ \A r \in SavedByVector : saved[r] = kept[r]
  BY <1>2 DEF IsRegs, SavedByVector, Regs, Agree
<1>4. mem' = [mem EXCEPT ![MFrame].x = saved]
  BY <1>2 DEF MTrapVector
<1> HIDE DEF saved
<1>5. /\ DOMAIN mem' = DOMAIN mem /\ \A a \in DOMAIN mem : a # MFrame => mem'[a] = mem[a]
      /\ DOMAIN mem'[MFrame] = {"x"} /\ mem'[MFrame].x = saved
  BY <1>4 DEF PathInv, Shape
<1>6. /\ mem'[RaSlot] = mem[RaSlot] /\ mem'[Frame] = mem[Frame] /\ Parked' = Parked
      /\ \A t \in Threads : mem'[Ctx(t)] = mem[Ctx(t)]
  BY <1>5, Addresses DEF PathInv, Shape
<1>7. x' = [x EXCEPT !["sp"] = MFrame] /\ csr' = [csr EXCEPT !.mscratch = x["sp"]]
  BY <1>2 DEF MTrapVector
<1>8. IsRegs(x') /\ Agree(x', kept, {"sp"}) /\ x'["sp"] = MFrame /\ x'["a7"] = x["a7"]
  BY <1>2, <1>7 DEF PathInv, Shape, IsRegs, Agree, Regs
<1>9. /\ DOMAIN csr' = DOMAIN csr /\ csr'.mscratch = LoopSp /\ csr'.mode = csr.mode /\ csr'.mpp = csr.mpp
      /\ csr'.mepc = csr.mepc /\ csr'.satp = KernelSpace /\ csr'.sscratch = Zero
  BY <1>2, <1>7 DEF Agree, Regs
<1>10. Shape'
  BY <1>1, <1>3, <1>5, <1>8, <1>9 DEF PathInv, Shape
<1>11. Queued' /\ Contexts'
  BY <1>1, <1>6 DEF PathInv, Queued, Contexts, Busy, Fit, Answering
<1>12. MaskingInv' /\ Modes'
  BY <1>1, <1>9 DEF PathInv, MaskingInv, Modes
<1>13. FirmwareSide'
  BY <1>1, <1>3, <1>5, <1>8, <1>9 DEF PathInv, FirmwareSide
<1> QED BY <1>1, <1>9, <1>10, <1>11, <1>12, <1>13, HomeKeeps DEF PathInv

\* The handler answers, or turns the machine off.
LEMMA MTrapHandlerKeeps == PathInv /\ MTrapHandler => PathInv'
<1> SUFFICES ASSUME PathInv, MTrapHandler PROVE PathInv'
  OBVIOUS
<1>1. /\ at = "m_handler"
      /\ UNCHANGED <<csr, mem, local, kept, current, ready, want, sie, info, open, found>>
  BY DEF MTrapHandler
<1>2. csr.satp = KernelSpace /\ csr.sscratch = Zero
  BY <1>1 DEF PathInv, Spaces, Entries
<1>3. \/ at' = "off" /\ UNCHANGED x
      \/ /\ at' = "m_restore" /\ x["a7"] # <<"SRST">>
         /\ IsRegs(x') /\ Agree(x', x, {"a0", "a1"} \cup CallerSaved)
  <2>1. CASE x["a7"] \in {<<"SRST">>, <<"SHUTDOWN">>}
    BY <2>1 DEF MTrapHandler
  <2>2. CASE x["a7"] \notin {<<"SRST">>, <<"SHUTDOWN">>}
    <3>1. PICK ret : ret = SbiRet(x["a7"][1], x["a6"][1])
      OBVIOUS
    <3>2. PICK lost \in {{}, CallerSaved} :
            x' = [r \in Regs |-> CASE r = "a0" -> ret.error
                                   [] r = "a1" -> ret.value
                                   [] r \in lost -> <<"firmware">>
                                   [] OTHER -> x[r]]
      BY <2>2, <3>1 DEF MTrapHandler
    <3>3. IsRegs(x')
      BY <3>2 DEF IsRegs
    <3>4. Agree(x', x, {"a0", "a1"} \cup CallerSaved)
      BY <3>2 DEF Agree
    <3> QED BY <3>3, <3>4 DEF MTrapHandler
  <2> QED BY <2>1, <2>2
<1>4. Shape'
  BY <1>1, <1>3 DEF PathInv, Shape
<1>5. Queued' /\ Contexts'
  BY <1>1, <1>3 DEF PathInv, Queued, Contexts, Busy, Fit, Answering
<1>6. MaskingInv' /\ Modes'
  BY <1>1, <1>3 DEF PathInv, MaskingInv, Modes
<1>7. FirmwareSide'
  BY <1>1, <1>3 DEF PathInv, FirmwareSide, Agree, CallerSaved, Regs
<1> QED BY <1>1, <1>2, <1>3, <1>4, <1>5, <1>6, <1>7, HomeKeeps DEF PathInv

\* The caller is in S mode again.
LEMMA MRestoreKeeps == PathInv /\ MRestore => PathInv'
<1> SUFFICES ASSUME PathInv, MRestore PROVE PathInv'
  OBVIOUS
<1>1. /\ at = "m_restore" /\ at' = "sbi_call+4"
      /\ UNCHANGED <<mem, local, kept, current, ready, want, sie, info, open, found>>
  BY DEF MRestore, PathInv, FirmwareSide, Text, After
<1>2. csr.satp = KernelSpace /\ csr.sscratch = Zero /\ Up(x["sp"]) = MTop /\ csr.mpp = "S"
      /\ local.caller = "handler"
  BY <1>1, StackSlots DEF PathInv, Spaces, Entries, FirmwareSide
<1>3. IsRegs(x')
  BY DEF MRestore, IsRegs
<1>4. csr' = [csr EXCEPT !.mode = csr.mpp, !.mpp = "U", !.mscratch = MTop]
  BY <1>2 DEF MRestore
<1>5. /\ DOMAIN csr' = DOMAIN csr /\ csr'.mode = "S" /\ csr'.mscratch = MTop /\ csr'.satp = csr.satp
      /\ csr'.sscratch = csr.sscratch
  BY <1>2, <1>4
<1>6. Shape'
  BY <1>1, <1>3, <1>5 DEF PathInv, Shape
<1>7. Queued' /\ Contexts'
  BY <1>1 DEF PathInv, Queued, Contexts, Busy, Fit, Answering
<1>8. MaskingInv' /\ Modes'
  BY <1>1, <1>5 DEF PathInv, MaskingInv, Modes
<1>9. FirmwareSide'
  BY <1>1, <1>2, <1>5 DEF FirmwareSide
<1> QED BY <1>1, <1>2, <1>5, <1>6, <1>7, <1>8, <1>9, HomeKeeps DEF PathInv

\* What a caller of the firmware gets back.
LEMMA Restores ==
  ASSUME PathInv, MRestore
  PROVE  /\ \A r \in Regs \ {"a0", "a1", "t3"} : x'[r] = kept[r]
         /\ csr'.mode = "S" /\ csr'.mscratch = MTop
<1>1. /\ x["sp"] = MFrame /\ csr.mscratch = LoopSp /\ kept["sp"] = LoopSp /\ csr.mpp = "S"
      /\ \A r \in SavedByVector : mem[MFrame].x[r] = kept[r]
      /\ Agree(x, kept, {"sp", "a0", "a1"} \cup CallerSaved)
      /\ Up(x["sp"]) = MTop
  BY StackSlots DEF MRestore, PathInv, FirmwareSide
<1>2. \A r \in Regs : x'[r] = CASE r = "sp" -> csr.mscratch
                                [] r \in SavedByVector \ {"a0", "a1"} -> mem[x["sp"]].x[r]
                                [] OTHER -> x[r]
  BY DEF MRestore
<1>3. ASSUME NEW r \in Regs \ {"a0", "a1", "t3"} PROVE x'[r] = kept[r]
  BY <1>1, <1>2 DEF Agree, SavedByVector, CallerSaved
<1>4. csr'.mode = "S" /\ csr'.mscratch = MTop
  BY <1>1 DEF MRestore
<1> QED BY <1>3, <1>4

----------------------------------------------------------------------------
\* The whole.

\* A step of nothing keeps everything.
LEMMA StandsStill == PathInv /\ UNCHANGED vars => PathInv'
<1> SUFFICES ASSUME PathInv, UNCHANGED vars PROVE PathInv'
  OBVIOUS
<1>1. UNCHANGED <<x, csr, at, mem, local, kept, current, ready, want, sie, info, open, found>>
  BY DEF vars
<1>2. Shape' /\ Queued'
  BY <1>1 DEF PathInv, Shape, Queued, Busy
<1>3. Contexts' /\ FirmwareSide'
  BY <1>1 DEF PathInv, Contexts, FirmwareSide, Fit, Answering
<1>4. MaskingInv' /\ Modes' /\ Departure' /\ Spaces'
  BY <1>1 DEF PathInv, MaskingInv, Modes, Departure, Spaces
<1>5. KernelSide' /\ Entries' /\ ProgramCounter' /\ Registers'
  BY <1>1 DEF PathInv, KernelSide, Entries, ProgramCounter, Registers
<1> QED BY <1>2, <1>3, <1>4, <1>5 DEF PathInv

\* The annotations hold in the beginning.
LEMMA PathBegins == Init => PathInv
<1> SUFFICES ASSUME Init PROVE PathInv
  OBVIOUS
<1>1. MaskingInv /\ sie = FALSE /\ open = {} /\ found = FALSE
  BY InvHoldsInitially DEF Init, MaskingInit
<1>2. at = "loop"
  BY DEF Init
<1>3. Cardinality(Threads) \in Nat
  BY NamesAssumption, FS_CardinalityType
<1>4. /\ IsRegs(KernelRegs) /\ KernelRegs["sp"] = LoopSp
      /\ \A t \in Threads : IsRegs(NewContext(t).x)
  BY DEF KernelRegs, NewContext, IsRegs, Regs
<1>5. /\ DOMAIN mem = {Cache, RaSlot, Frame, MFrame} \cup {Ctx(t) : t \in Threads}
      /\ \A a \in DOMAIN mem : mem[a] = Memory0(a)
  BY DEF Init
<1>6. /\ Parked = Memory0(Cache) /\ mem[RaSlot] = Memory0(RaSlot) /\ mem[Frame] = Memory0(Frame)
      /\ mem[MFrame] = Memory0(MFrame)
  BY <1>5
<1>7. /\ DOMAIN Parked = {"a0", "a1", "satp", "sepc", "stvec", "sscratch", "sstatus"}
      /\ DOMAIN mem[RaSlot] = {"ra"} /\ DOMAIN mem[Frame] = {"x"} /\ DOMAIN mem[MFrame] = {"x"}
      /\ IsRegs(mem[Frame].x) /\ IsRegs(mem[MFrame].x)
  BY <1>6, Addresses DEF Memory0, IsRegs
<1>8. \A t \in Threads : mem[Ctx(t)] = NewContext(t)
  <2>1. ASSUME NEW t \in Threads PROVE mem[Ctx(t)] = NewContext(t)
    <3>1. Memory0(Ctx(t)) = NewContext(Ctx(t)[2])
      BY Addresses DEF Memory0
    <3>2. Ctx(t)[2] = t
      BY DEF Ctx
    <3>3. mem[Ctx(t)] = Memory0(Ctx(t))
      BY <1>5
    <3> QED BY <3>1, <3>2, <3>3
  <2> QED BY <2>1
<1>9. want = [t \in Threads |-> [x |-> NewContext(t).x, pc |-> "user"]]
  BY DEF Init
<1>10. Shape
  <2>1. \A t \in Threads :
          /\ DOMAIN mem[Ctx(t)] = {"sctx", "x", "sepc", "supervisor", "interrupt", "satp"}
          /\ IsRegs(mem[Ctx(t)].x)
          /\ mem[Ctx(t)].satp = Space(t)
    <3>1. \A t \in Threads :
            /\ DOMAIN NewContext(t) = {"sctx", "x", "sepc", "supervisor", "interrupt", "satp"}
            /\ NewContext(t).satp = Space(t)
      BY DEF NewContext
    <3> QED BY Zenon, <1>4, <1>8, <3>1
  <2>2. /\ DOMAIN want = Threads
        /\ \A t \in Threads :
             /\ DOMAIN want[t] = {"x", "pc"} /\ want[t].pc \in UserText /\ IsRegs(want[t].x)
    BY <1>4, <1>9
  <2>3. /\ DOMAIN local = {"supervisor", "interrupt", "old_ss", "caller"}
        /\ DOMAIN csr = {"mode", "spp", "spie", "satp", "sscratch", "sepc", "stvec", "scause", "mpp",
                         "mepc", "mcause", "mscratch"}
        /\ x = KernelRegs /\ kept = KernelRegs
    BY DEF Init
  <2> QED BY <1>2, <1>4, <1>5, <1>7, <2>1, <2>2, <2>3 DEF Shape
<1>11. Queued
  <2>1. PICK n \in Nat : n = Cardinality(Threads)
    BY <1>3
  <2>2. ready \in Surjection(1 .. n, Threads)
    BY <2>1 DEF Init, Surjection
  <2>3. IsFiniteSet(1 .. n) /\ Cardinality(1 .. n) = Cardinality(Threads)
    BY <2>1, FS_Interval
  <2>4. ready \in Injection(1 .. n, Threads)
    BY <2>2, <2>3, FS_SurjSameCardinalityImpliesInj
  <2>5. ready \in [1 .. n -> Threads] /\ \A i, j \in DOMAIN ready : ready[i] = ready[j] => i = j
    BY <2>4 DEF Injection, IsInjective
  <2> QED BY <1>2, <2>5 DEF Queued, Busy
<1>12. \A t \in Threads : Fit(t)
  <2>1. ASSUME NEW t \in Threads PROVE Fit(t)
    <3>1. /\ NewContext(t).sepc = Text("user")
          /\ NewContext(t).supervisor = FALSE /\ NewContext(t).interrupt = TRUE
      BY DEF NewContext
    <3>2. mem[Ctx(t)] = NewContext(t)
      BY <1>8
    <3>3. want[t].x = NewContext(t).x /\ want[t].pc = "user"
      BY <1>9
    <3>4. /\ mem[Ctx(t)].x = want[t].x /\ mem[Ctx(t)].sepc = Text(want[t].pc)
          /\ mem[Ctx(t)].supervisor = FALSE /\ mem[Ctx(t)].interrupt = TRUE
      BY Zenon, <3>1, <3>2, <3>3
    <3> QED BY <3>4 DEF Fit, Agree
  <2> QED BY <2>1
<1>13. Contexts
  BY <1>2, <1>11, <1>12 DEF Contexts, Queued
<1>14. Modes /\ Departure /\ Spaces
  BY <1>1 DEF Init, Modes, Departure, Spaces
<1>15. KernelSide /\ Entries /\ ProgramCounter /\ Registers /\ FirmwareSide
  BY DEF Init, KernelSide, Entries, ProgramCounter, Registers, FirmwareSide
<1> QED BY <1>1, <1>10, <1>11, <1>13, <1>14, <1>15 DEF PathInv

\* Every step keeps them.
LEMMA StepKeepsPath == PathInv /\ [Next]_vars => PathInv'
<1> SUFFICES ASSUME PathInv, [Next]_vars PROVE PathInv'
  OBVIOUS
<1>1. CASE FindNext \/ ForeignExecute \/ LocalExecute \/ LocalReturns \/ ForeignReturns
  BY Zenon, <1>1, FindNextKeeps, ForeignExecuteKeeps, LocalExecuteKeeps, LocalReturnsKeeps,
       ForeignReturnsKeeps
<1>2. CASE Naked
  BY Zenon, <1>2, SaveSchedulerKeeps, SetTrapEntryKeeps, SwitchToThreadKeeps, LoadThreadKeeps,
       StartThreadKeeps, SwapContextKeeps, SaveThreadKeeps, SwitchToSchedulerKeeps,
       LoadSchedulerKeeps, ReturnToSchedulerKeeps DEF Naked
<1>3. CASE Portal
  BY Zenon, <1>3, PortalSaveA1Keeps, SwapSatpKeeps, PortalSstatusKeeps, PortalSepcKeeps,
       PortalStvecKeeps, PortalSscratchKeeps, PortalLoadKeeps, PortalDepartsKeeps,
       PortalTrapKeeps, PortalSaveUserA1Keeps, PortalBackSscratchKeeps, PortalBackA1Keeps,
       PortalHomeKeeps DEF Portal
<1>4. CASE \E t \in Threads : UserStep(t)
  BY <1>4, UserStepKeeps
<1>5. CASE OtherTrap \/ SystemCall \/ EndSystemCall \/ UseCells
  BY Zenon, <1>5, OtherTrapKeeps, SystemCallKeeps, EndSystemCallKeeps, UseCellsKeeps
<1>6. CASE PutChar \/ GetChar \/ Shutdown \/ SbiReturns \/ MTrapVector \/ MTrapHandler \/ MRestore
  BY Zenon, <1>6, SbiCallsKeep, SbiReturnsKeeps, MTrapVectorKeeps, MTrapHandlerKeeps,
       MRestoreKeeps
<1>7. CASE Halted \/ UNCHANGED vars
  BY Zenon, <1>7, StandsStill DEF Halted
<1> QED BY Zenon, <1>1, <1>2, <1>3, <1>4, <1>5, <1>6, <1>7 DEF Next

\* The annotated program: what stands at a label holds whenever the hart is there.
THEOREM PathAnnotated == Spec => []PathInv
<1>1. Init => PathInv
  BY PathBegins
<1>2. PathInv /\ [Next]_vars => PathInv'
  BY StepKeepsPath
<1> QED BY <1>1, <1>2, PTL DEF Spec

----------------------------------------------------------------------------
\* What the annotations say of the state.

\* The annotations name the space, the pc and the addresses.
LEMMA PathIsMapped == PathInv => OnlyMapped
<1> SUFFICES ASSUME PathInv, csr.mode # "M"
             PROVE  /\ Executable(at, csr.satp)
                    /\ Operands(at) \subseteq Mapped(csr.satp)
                    /\ (csr.mode = "U") = (at \in UserText)
  BY DEF OnlyMapped
<1>1. at \in Rust \cup Away
  BY DEF PathInv, Shape, Modes
<1>2. (csr.mode = "U") = (at \in UserText)
  BY <1>1 DEF PathInv, Modes
<1>3. at \in Path => current \in Threads /\ Space(current) # KernelSpace
  BY OnHart, Addresses
<1>4. Executable(at, csr.satp)
  BY <1>3 DEF PathInv, Spaces, Executable, PortalText, Path
<1>5. Operands(at) \subseteq Mapped(csr.satp)
  <2>1. CASE at \in PortalText \ {"p_sret", "p_trap"}
    <3>1. x["a0"] = Cache
      BY <2>1 DEF PathInv, Registers, PortalText
    <3>2. Operands(at) = {x["a0"]}
      BY <2>1 DEF Operands, PortalText
    <3> QED BY <3>1, <3>2 DEF Mapped
  <2>2. CASE at \in {"save", "switch", "load", "t_save", "t_switch", "t_load", "returned"}
    <3>1. csr.satp = KernelSpace
      BY <2>2 DEF PathInv, Spaces
    <3>2. Mapped(csr.satp) = {Cache, RaSlot, Frame} \cup {Ctx(t) : t \in Threads}
      BY <3>1 DEF Mapped
    <3>3. current \in Threads
      BY <2>2, <1>3 DEF Path
    <3>4. CASE at = "save"
      <4>1. Down(x["sp"]) = Frame
        BY <3>4, StackSlots DEF PathInv, KernelSide
      <4>2. Operands(at) = {Down(x["sp"])}
        BY <3>4 DEF Operands
      <4> QED BY <4>1, <4>2, <3>2
    <3>5. CASE at = "switch"
      BY <3>5, <3>2, <3>3 DEF PathInv, Entries, Operands
    <3>6. CASE at \in {"load", "t_save", "t_switch"}
      BY <3>6, <3>2, <3>3 DEF PathInv, Registers, Operands
    <3>7. CASE at \in {"t_load", "returned"}
      BY <3>7, <3>2 DEF PathInv, KernelSide, Operands
    <3> QED BY <2>2, <3>4, <3>5, <3>6, <3>7
  <2>3. CASE /\ at \notin PortalText \ {"p_sret", "p_trap"}
             /\ at \notin {"save", "switch", "load", "t_save", "t_switch", "t_load", "returned"}
    BY <2>3 DEF Operands
  <2> QED BY <2>1, <2>2, <2>3
<1> QED BY <1>2, <1>4, <1>5

\* Nothing that the path runs, on either side, is outside of the address space
\* it runs in.
THEOREM NothingUnmapped == Spec => []OnlyMapped
BY PathAnnotated, PathIsMapped, PTL

\* No interrupt comes between a trap and the return to the program.
THEOREM NoInterruptOnTheWay == Spec => []SupervisorUninterrupted
<1>1. PathInv => SupervisorUninterrupted
  BY DEF PathInv, Modes, SupervisorUninterrupted
<1> QED BY <1>1, PathAnnotated, PTL

----------------------------------------------------------------------------
\* What they say of the steps.

\* No step but the portal's sret goes to user mode.
LEMMA OnlyThePortalDeparts ==
  ASSUME PathInv, Next, csr.mode # "U", csr'.mode = "U"
  PROVE  PortalDeparts
<1>1. PathInv'
  BY StepKeepsPath
<1>2. at \notin UserText /\ at' \in UserText
  BY <1>1 DEF PathInv, Shape, Modes
<1>3. CASE FindNext \/ ForeignExecute \/ LocalExecute \/ LocalReturns \/ ForeignReturns
  BY <1>2, <1>3 DEF FindNext, ForeignExecute, LocalExecute, LocalReturns, ForeignReturns
<1>4. CASE Naked
  <2>1. ~StartThread
    BY <1>2 DEF StartThread, Sret, PathInv, ProgramCounter, Text
  <2>2. ~ReturnToScheduler
    BY DEF ReturnToScheduler
  <2> QED BY <1>2, <1>4, <2>1, <2>2 DEF Naked, SaveScheduler, SetTrapEntry, SwitchToThread,
       LoadThread, SwapContext, SaveThread, SwitchToScheduler, LoadScheduler
<1>5. CASE Portal
  <2>1. ~PortalHome
    BY <1>2 DEF PortalHome, Got, Text, PathInv, Entries, Registers
  <2> QED BY <1>2, <1>5, <2>1 DEF Portal, PortalSaveA1, SwapSatp, PortalSstatus, PortalSepc,
       PortalStvec, PortalSscratch, PortalLoad, PortalTrap, PortalSaveUserA1,
       PortalBackSscratch, PortalBackA1
<1>6. CASE \E t \in Threads : UserStep(t)
  BY <1>6 DEF UserStep, UserCall, UserJump, UserFault, Running
<1>7. CASE OtherTrap \/ SystemCall \/ EndSystemCall \/ UseCells
  BY <1>7 DEF OtherTrap, SystemCall, EndSystemCall, UseCells
<1>8. CASE PutChar \/ GetChar \/ Shutdown \/ SbiReturns \/ MTrapVector \/ MTrapHandler
  <2>1. ~Shutdown /\ ~PutChar /\ ~GetChar
    BY DEF Shutdown, PutChar, GetChar, SbiCall, Trap, PathInv, Shape
  <2> QED BY <1>8, <2>1 DEF SbiReturns, MTrapVector, MTrapHandler, PathInv, Shape
<1>9. CASE MRestore
  BY <1>9, Restores
<1>10. CASE Halted
  BY <1>10 DEF Halted, vars
<1> QED BY Zenon, <1>3, <1>4, <1>5, <1>6, <1>7, <1>8, <1>9, <1>10 DEF Next

\* The thread finds its registers, its pc and its address space, and interrupts on.
THEOREM EveryThreadFindsItself == Spec => ThreadFindsItself
<1>1. PathInv /\ [Next]_vars
        => [csr.mode # "U" /\ csr'.mode = "U" =>
              /\ x' = want[current].x /\ at' = want[current].pc
              /\ csr'.satp = Space(current) /\ sie']_vars
  <2> SUFFICES ASSUME PathInv, Next, csr.mode # "U", csr'.mode = "U"
               PROVE  /\ x' = want[current].x /\ at' = want[current].pc
                      /\ csr'.satp = Space(current) /\ sie'
    OBVIOUS
  <2>1. PortalDeparts
    BY OnlyThePortalDeparts
  <2>2. /\ csr.sepc = Text(want[current].pc) /\ csr.satp = Space(current) /\ csr.spie = TRUE
        /\ Agree(x, Wanted, {}) /\ IsRegs(x)
    BY <2>1 DEF PortalDeparts, PathInv, Departure, Spaces, ProgramCounter, Registers, Shape
  <2>3. IsRegs(Wanted)
    BY <2>1, OnHart DEF PortalDeparts, Path, PathInv, Shape
  <2>4. x = Wanted
    BY <2>2, <2>3 DEF Agree, IsRegs
  <2>5. csr'.satp = csr.satp
    BY <2>1 DEF PortalDeparts, Sret
  <2>6. x' = x /\ at' = csr.sepc[2] /\ sie' = csr.spie
    BY <2>1 DEF PortalDeparts, Sret
  <2> QED BY <2>2, <2>4, <2>5, <2>6 DEF Text
<1> QED BY <1>1, PathAnnotated, PTL DEF Spec, ThreadFindsItself

\* Which steps are taken behind execute_naked and at the end of the vector.
LEMMA OneWayOn ==
  ASSUME PathInv, Next
  PROVE  /\ at = "returned" => LocalReturns
         /\ at = "m_restore" => MRestore
<1>1. at \in {"returned", "m_restore"} => csr.mode # "U"
  BY DEF PathInv, Modes
<1>2. CASE FindNext \/ ForeignExecute \/ LocalExecute \/ LocalReturns \/ ForeignReturns
  BY <1>2 DEF FindNext, ForeignExecute, LocalExecute, LocalReturns, ForeignReturns
<1>3. CASE Naked
  BY <1>3 DEF Naked, SaveScheduler, SetTrapEntry, SwitchToThread, LoadThread, StartThread,
       SwapContext, SaveThread, SwitchToScheduler, LoadScheduler, ReturnToScheduler
<1>4. CASE Portal
  BY <1>4 DEF Portal, PortalSaveA1, SwapSatp, PortalSstatus, PortalSepc, PortalStvec,
       PortalSscratch, PortalLoad, PortalDeparts, PortalTrap, PortalSaveUserA1,
       PortalBackSscratch, PortalBackA1, PortalHome
<1>5. CASE \E t \in Threads : UserStep(t)
  BY <1>1, <1>5 DEF UserStep, UserCall, UserJump, UserFault, Running
<1>6. CASE OtherTrap \/ SystemCall \/ EndSystemCall \/ UseCells
  BY <1>6 DEF OtherTrap, SystemCall, EndSystemCall, UseCells
<1>7. CASE PutChar \/ GetChar \/ Shutdown \/ SbiReturns \/ MTrapVector \/ MTrapHandler \/ MRestore
  BY <1>7 DEF PutChar, GetChar, Shutdown, SbiReturns, MTrapVector, MTrapHandler, MRestore
<1>8. CASE Halted
  BY <1>8 DEF Halted
<1> QED BY Zenon, <1>2, <1>3, <1>4, <1>5, <1>6, <1>7, <1>8 DEF Next

\* LocalContext::execute gives its caller back what it had.
THEOREM ExecuteReturnsLikeAFunction == Spec => ReturnsLikeAFunction
<1>1. PathInv /\ [Next]_vars
        => [at = "returned" /\ at' = "left" =>
              x' = kept /\ csr'.sscratch = Zero /\ csr'.satp = KernelSpace /\ csr'.mode = "S"]_vars
  <2> SUFFICES ASSUME PathInv, Next, at = "returned", at' = "left"
               PROVE  x' = kept /\ csr'.sscratch = Zero /\ csr'.satp = KernelSpace /\ csr'.mode = "S"
    OBVIOUS
  <2>1. LocalReturns
    BY OneWayOn
  <2>2. /\ csr.satp = KernelSpace /\ csr.mode = "S" /\ local.old_ss = Zero
        /\ kept = KernelRegs /\ mem[RaSlot].ra = KernelRegs["ra"]
        /\ x["sp"] = RaSlot /\ Agree(x, KernelRegs, {"ra", "sp"}) /\ IsRegs(x)
    BY DEF PathInv, Spaces, Modes, KernelSide, IsCallee, Shape
  <2>3. csr'.sscratch = Zero /\ csr'.satp = KernelSpace /\ csr'.mode = "S"
    BY <2>1, <2>2 DEF LocalReturns
  <2>4. x' = [x EXCEPT !["ra"] = KernelRegs["ra"], !["sp"] = LoopSp]
    BY <2>1, <2>2, StackSlots DEF LocalReturns
  <2>5. IsRegs(KernelRegs) /\ KernelRegs["sp"] = LoopSp
    BY DEF IsRegs, KernelRegs, Regs
  <2>6. \A r \in Regs : x'[r] = KernelRegs[r]
    BY <2>2, <2>4, <2>5 DEF IsRegs, Agree
  <2>7. IsRegs(x')
    BY <2>2, <2>4 DEF IsRegs
  <2>8. x' = KernelRegs
    BY <2>5, <2>6, <2>7 DEF IsRegs
  <2> QED BY <2>2, <2>3, <2>8
<1> QED BY <1>1, PathAnnotated, PTL DEF Spec, ReturnsLikeAFunction

\* And so does the firmware, but for the registers that its vector leaves out.
THEOREM VectorKeepsRegisters == Spec => FirmwareKeepsRegisters
<1>1. PathInv /\ [Next]_vars
        => [at = "m_restore" /\ at' # at =>
              /\ \A r \in Regs \ {"a0", "a1", "t3"} : x'[r] = kept[r]
              /\ csr'.mode = "S" /\ csr'.mscratch = MTop]_vars
  <2> SUFFICES ASSUME PathInv, Next, at = "m_restore"
               PROVE  /\ \A r \in Regs \ {"a0", "a1", "t3"} : x'[r] = kept[r]
                      /\ csr'.mode = "S" /\ csr'.mscratch = MTop
    OBVIOUS
  <2> QED BY OneWayOn, Restores
<1> QED BY <1>1, PathAnnotated, PTL DEF Spec, FirmwareKeepsRegisters

\* While a cell is borrowed only the borrower's own sections touch SIE: neither
\* a call of the firmware nor anything else on the way.
LEMMA SectionsAreTheHandlers ==
  ASSUME PathInv, Next, open # {}
  PROVE  (\E c \in Cells : ExclusiveAccess(c) \/ DropRef(c)) \/ UNCHANGED maskingVars
<1>1. at \in {"handler", "panic", "sbi_call+4", "off"} \cup Vector /\ csr.mode # "U"
  BY DEF PathInv, Modes
<1>2. CASE FindNext \/ ForeignExecute \/ LocalExecute \/ LocalReturns \/ ForeignReturns
  BY <1>2 DEF FindNext, ForeignExecute, LocalExecute, LocalReturns, ForeignReturns
<1>3. CASE Naked
  BY <1>1, <1>3 DEF Naked, SaveScheduler, SetTrapEntry, SwitchToThread, LoadThread,
       StartThread, SwapContext, SaveThread, SwitchToScheduler, LoadScheduler,
       ReturnToScheduler
<1>4. CASE Portal
  BY <1>1, <1>4 DEF Portal, PortalSaveA1, SwapSatp, PortalSstatus, PortalSepc, PortalStvec,
       PortalSscratch, PortalLoad, PortalDeparts, PortalTrap, PortalSaveUserA1,
       PortalBackSscratch, PortalBackA1, PortalHome
<1>5. CASE \E t \in Threads : UserStep(t)
  BY <1>1, <1>5 DEF UserStep, UserCall, UserJump, UserFault, Running
<1>6. CASE UseCells
  BY <1>6 DEF UseCells
<1>7. CASE OtherTrap \/ SystemCall \/ EndSystemCall
  BY <1>7 DEF OtherTrap, SystemCall, EndSystemCall
<1>8. CASE PutChar \/ GetChar \/ Shutdown
  BY <1>8 DEF PutChar, GetChar, Shutdown, SbiCall, Trap, Medeleg
<1>9. CASE SbiReturns \/ MTrapVector \/ MTrapHandler \/ MRestore
  BY <1>9 DEF SbiReturns, MTrapVector, MTrapHandler, MRestore
<1>10. CASE Halted
  BY <1>10 DEF Halted, vars
<1> QED BY Zenon, <1>2, <1>3, <1>4, <1>5, <1>6, <1>7, <1>8, <1>9, <1>10 DEF Next

\* On the whole way too, the drop of the last reference puts SIE back.
THEOREM InterruptsRestoredOnTheWay == Spec => Restored
<1>1. PathInv /\ [Next]_vars => [open # {} => sie' = (open' = {} /\ found)]_maskingVars
  <2> SUFFICES ASSUME PathInv, Next, open # {}, ~UNCHANGED maskingVars
               PROVE  sie' = (open' = {} /\ found)
    BY DEF vars
  <2>1. MaskingInv
    BY DEF PathInv
  <2>2. ASSUME NEW c \in Cells, ExclusiveAccess(c)
        PROVE  sie' = (open' = {} /\ found)
    BY <2>2 DEF ExclusiveAccess
  <2>3. ASSUME NEW c \in Cells, DropRef(c)
        PROVE  sie' = (open' = {} /\ found)
    BY <2>1, <2>3, DropKeepsInv
  <2> QED BY SectionsAreTheHandlers, <2>2, <2>3
<1> QED BY <1>1, PathAnnotated, PTL DEF Spec, Restored

\* ... and none comes while one is borrowed.
THEOREM NoInterruptInsideOnTheWay == Spec => []Masked
<1>1. PathInv => Masked
  BY DEF PathInv, MaskingInv, Masked
<1> QED BY <1>1, PathAnnotated, PTL
=================================================================================
