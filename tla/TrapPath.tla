-------------------------------- MODULE TrapPath --------------------------------
(***************************************************************************)
(* The way of a hart between the kernel's loop and user programs in other  *)
(* address spaces (kernel-context: LocalContext, ForeignContext and the    *)
(* portal; ch8: the loop), and down to the firmware (sbi): one action for  *)
(* each commented piece of the assembly.  Values, addresses and text       *)
(* labels are tuples of strings, so that they can stand in one register.   *)
(***************************************************************************)
EXTENDS IntrMasking, SyscallTable

CONSTANTS Threads,      \* names of the user threads, each in a space of its own
          Makes         \* the calls that each of them makes

ASSUME MakesAssumption == Makes \in [Threads -> SUBSET Calls]

\* The kernel's address space is none of theirs.
ASSUME NamesAssumption == "kernel" \notin Threads /\ IsFiniteSet(Threads)

VARIABLES x,        \* the general registers
          csr,      \* mode and control registers, but sstatus.SIE
          at,       \* the label of the next instruction
          mem,      \* the memory that the path touches, by address
          local,    \* the locals of ForeignContext::execute and of sbi_call
          ready,    \* ready queue
          current,  \* the thread on the hart
          call,     \* what the dispatcher got
          want,     \* history: how each thread has to find its registers
          kept,     \* history: the registers of the caller of the path
          power     \* the machine

kernelVars == <<ready, current, call, want, power>>
vars == <<x, csr, at, mem, local, kept, kernelVars, maskingVars>>

Nothing == <<"nothing">>
Text(label) == <<"text", label>>
Ctx(t) == <<"context", t>>
Space(t) == <<"satp", t>>
KernelSpace == <<"satp", "kernel">>

Regs == {"ra", "sp", "t0", "t3", "s0", "a0", "a1", "a2", "a3", "a4", "a5", "a6", "a7"}
Arg == <<"a0", "a1", "a2", "a3", "a4", "a5">>

\* The instruction four bytes on.
After(label) ==
  CASE label = "user" -> "user+4" [] label = "sbi_call" -> "sbi_call+4" [] OTHER -> "nowhere"

----------------------------------------------------------------------------
\* Memory: the portal, code and cache, is mapped in every address space.

Cache == <<"cache">>
LoopSp == <<"kernel stack", "loop">>
RaSlot == <<"kernel stack", "ra">>
Frame == <<"kernel stack", "frame">>
MTop == <<"m stack", "top">>
MFrame == <<"m stack", "frame">>

\* Stacks grow downwards.
Down(sp) ==
  CASE sp = LoopSp -> RaSlot [] sp = RaSlot -> Frame [] sp = MTop -> MFrame [] OTHER -> Nothing
Up(sp) ==
  CASE sp = Frame -> RaSlot [] sp = RaSlot -> LoopSp [] sp = MFrame -> MTop [] OTHER -> Nothing

PortalText ==
  {"portal", "p_satp", "p_sstatus", "p_sepc", "p_stvec", "p_sscratch", "p_load", "p_sret",
   "p_trap", "p_save_a1", "p_back_sscratch", "p_back_satp", "p_back_a1", "p_home"}
UserText == {"user", After("user")}

Mapped(satp) ==
  {Cache} \cup (IF satp = KernelSpace THEN {RaSlot, Frame} \cup {Ctx(t) : t \in Threads} ELSE {})

Executable(label, satp) ==
  \/ label \in PortalText
  \/ (label \in UserText) = (satp # KernelSpace)

\* The addresses that the instructions at `label` load from and store to.
Operands(label) ==
  CASE label \in PortalText \ {"p_sret", "p_trap"} -> {x["a0"]}
    [] label = "save" -> {Down(x["sp"])}
    [] label = "switch" -> {csr.sscratch}
    [] label \in {"load", "t_save", "t_switch", "t_load", "returned"} -> {x["sp"]}
    [] OTHER -> {}

\* Loads and stores of all registers but sp.
SaveAll(addr) == [mem EXCEPT ![addr].x = [x EXCEPT !["sp"] = mem[addr].x["sp"]]]
LoadAll(addr) == [mem[addr].x EXCEPT !["sp"] = x["sp"]]

----------------------------------------------------------------------------
\* The hart.

\* m_entry.asm delegates every exception but the call from S mode.
UserEnvCall == 8
SupervisorEnvCall == 9
Medeleg == (0 .. 15) \ {SupervisorEnvCall}

Trap(cause, pc) ==
  IF cause \in Medeleg
  THEN /\ csr' = [csr EXCEPT !.mode = "S", !.spp = csr.mode, !.spie = sie, !.sepc = Text(pc),
                             !.scause = cause]
       /\ sie' = FALSE
       /\ at' = csr.stvec[2]
  ELSE /\ csr' = [csr EXCEPT !.mode = "M", !.mpp = csr.mode, !.mepc = Text(pc), !.mcause = cause]
       /\ at' = "m_trap"
       /\ UNCHANGED sie

Sret ==
  /\ csr' = [csr EXCEPT !.mode = csr.spp, !.spp = "U", !.spie = TRUE]
  /\ sie' = csr.spie
  /\ at' = csr.sepc[2]

\* build_sstatus: SIE stays as it is.
BuildSstatus(supervisor, interrupt) ==
  [spp |-> IF supervisor THEN "S" ELSE "U", spie |-> interrupt, sie |-> sie]

WriteSstatus(c, s) == [c EXCEPT !.spp = s.spp, !.spie = s.spie]

Goto(from, to) == at = from /\ at' = to

sections == <<info, open, found>>
aside == <<local, kept, kernelVars, sections>>

----------------------------------------------------------------------------
\* The kernel's side in Rust.

\* What the compiler keeps in registers around the assembly.
KernelRegs == [[r \in Regs |-> <<"kernel", r>>] EXCEPT !["sp"] = LoopSp]

FindNext ==
  /\ Goto("loop", "foreign")
  /\ ready # <<>>
  /\ current' = Head(ready) /\ ready' = Tail(ready)
  /\ UNCHANGED <<x, csr, mem, local, call, want, kept, power, maskingVars>>

\* Mistaken: the thread's own interrupt flag is kept for the portal.
ForeignExecuteOpen ==
  LET c == mem[Ctx(current)]
  IN /\ Goto("foreign", "local")
     /\ local' = [local EXCEPT !.supervisor = c.supervisor, !.interrupt = c.interrupt]
     /\ mem' = [mem EXCEPT
          ![Cache] = [@ EXCEPT !.satp = c.satp, !.sepc = c.sepc, !.a0 = c.x["a0"],
                               !.sstatus = BuildSstatus(c.supervisor, c.interrupt)],
          ![Ctx(current)] = [@ EXCEPT !.supervisor = TRUE, !.sepc = Text("portal"),
                                      !.x["a0"] = Cache]]
     /\ UNCHANGED <<x, csr, kept, kernelVars, maskingVars>>

\* ForeignContext::execute up to the call: the thread's context becomes that of
\* the portal, its own pc, a0 and flags go to the cache.
ForeignExecute ==
  LET c == mem[Ctx(current)]
  IN /\ Goto("foreign", "local")
     /\ local' = [local EXCEPT !.supervisor = c.supervisor, !.interrupt = c.interrupt]
     /\ mem' = [mem EXCEPT
          ![Cache] = [@ EXCEPT !.satp = c.satp, !.sepc = c.sepc, !.a0 = c.x["a0"],
                               !.sstatus = BuildSstatus(c.supervisor, c.interrupt)],
          ![Ctx(current)] = [@ EXCEPT !.supervisor = TRUE, !.interrupt = FALSE, !.sepc = Text("portal"),
                                      !.x["a0"] = Cache]]
     /\ UNCHANGED <<x, csr, kept, kernelVars, maskingVars>>

\* LocalContext::execute up to the call of execute_naked.
LocalExecute ==
  LET c == mem[Ctx(current)]
  IN /\ Goto("local", "save")
     /\ csr' = WriteSstatus([csr EXCEPT !.sscratch = Ctx(current), !.sepc = c.sepc],
                            BuildSstatus(c.supervisor, c.interrupt))
     /\ local' = [local EXCEPT !.old_ss = csr.sscratch]
     /\ mem' = [mem EXCEPT ![RaSlot].ra = KernelRegs["ra"]]
     /\ x' = [KernelRegs EXCEPT !["sp"] = RaSlot, !["ra"] = Text("returned")]
     /\ kept' = KernelRegs
     /\ UNCHANGED <<kernelVars, maskingVars>>

\* Mistaken: sscratch keeps the pointer to the context.
LocalReturnsDirty ==
  /\ Goto("returned", "left")
  /\ x' = [x EXCEPT !["ra"] = mem[RaSlot].ra, !["sp"] = Up(x["sp"])]
  /\ mem' = [mem EXCEPT ![Ctx(current)].sepc = csr.sepc]
  /\ UNCHANGED <<csr, aside, sie>>

\* The rest of LocalContext::execute.
LocalReturns ==
  /\ Goto("returned", "left")
  /\ x' = [x EXCEPT !["ra"] = mem[RaSlot].ra, !["sp"] = Up(x["sp"])]
  /\ csr' = [csr EXCEPT !.sscratch = local.old_ss]
  /\ mem' = [mem EXCEPT ![Ctx(current)].sepc = csr.sepc]
  /\ UNCHANGED <<aside, sie>>

\* The rest of ForeignContext::execute.
ForeignReturns ==
  /\ Goto("left", "cause")
  /\ mem' = [mem EXCEPT ![Ctx(current)] =
                [@ EXCEPT !.supervisor = local.supervisor, !.interrupt = local.interrupt,
                          !.x["a0"] = mem[Cache].a0]]
  /\ UNCHANGED <<x, csr, aside, sie>>

----------------------------------------------------------------------------
\* execute_naked, piece by piece.

\* The scheduling context goes to the stack.
SaveScheduler ==
  /\ Goto("save", "entry")
  /\ mem' = [mem EXCEPT ![Down(x["sp"])].x = [x EXCEPT !["sp"] = Nothing]]
  /\ x' = [x EXCEPT !["sp"] = Down(x["sp"])]
  /\ UNCHANGED <<csr, aside, sie>>

SetTrapEntry ==
  /\ Goto("entry", "switch")
  /\ x' = [x EXCEPT !["t0"] = Text("trapped")]
  /\ csr' = [csr EXCEPT !.stvec = Text("trapped")]
  /\ UNCHANGED <<mem, aside, sie>>

SwitchToThread ==
  /\ Goto("switch", "load")
  /\ mem' = [mem EXCEPT ![csr.sscratch].sctx = x["sp"]]
  /\ x' = [x EXCEPT !["t0"] = csr.sscratch, !["sp"] = csr.sscratch]
  /\ UNCHANGED <<csr, aside, sie>>

LoadThread ==
  /\ Goto("load", "sret")
  /\ x' = mem[x["sp"]].x
  /\ UNCHANGED <<csr, mem, aside, sie>>

StartThread == at = "sret" /\ Sret /\ UNCHANGED <<x, mem, aside>>

\* Label 1: the context comes back from sscratch.
SwapContext ==
  /\ Goto("trapped", "t_save")
  /\ x' = [x EXCEPT !["sp"] = csr.sscratch]
  /\ csr' = [csr EXCEPT !.sscratch = x["sp"]]
  /\ UNCHANGED <<mem, aside, sie>>

\* Mistaken: t0 is taken for the exchange before it is saved.
SaveThreadLate ==
  /\ Goto("t_save", "t_switch")
  /\ mem' = [SaveAll(x["sp"]) EXCEPT ![x["sp"]].x["sp"] = csr.sscratch,
                                     ![x["sp"]].x["t0"] = csr.sscratch]
  /\ x' = [x EXCEPT !["t0"] = csr.sscratch]
  /\ csr' = [csr EXCEPT !.sscratch = x["sp"]]
  /\ UNCHANGED <<aside, sie>>

SaveThread ==
  /\ Goto("t_save", "t_switch")
  /\ mem' = [SaveAll(x["sp"]) EXCEPT ![x["sp"]].x["sp"] = csr.sscratch]
  /\ x' = [x EXCEPT !["t0"] = csr.sscratch]
  /\ csr' = [csr EXCEPT !.sscratch = x["sp"]]
  /\ UNCHANGED <<aside, sie>>

SwitchToScheduler ==
  /\ Goto("t_switch", "t_load")
  /\ x' = [x EXCEPT !["sp"] = mem[x["sp"]].sctx]
  /\ UNCHANGED <<csr, mem, aside, sie>>

LoadScheduler ==
  /\ Goto("t_load", "t_ret")
  /\ x' = [LoadAll(x["sp"]) EXCEPT !["sp"] = Up(x["sp"])]
  /\ UNCHANGED <<csr, mem, aside, sie>>

ReturnToScheduler == Goto("t_ret", x["ra"][2]) /\ UNCHANGED <<x, csr, mem, aside, sie>>

Naked ==
  \/ SaveScheduler \/ SetTrapEntry \/ SwitchToThread \/ LoadThread \/ StartThread
  \/ SwapContext \/ SaveThread \/ SwitchToScheduler \/ LoadScheduler \/ ReturnToScheduler

----------------------------------------------------------------------------
\* foreign_execute, the portal: a0 holds the address of the cache.

\* A store to, or a load from, the cache.
Put(field, value) == mem' = [mem EXCEPT ![x["a0"]][field] = value]
Got(field) == mem[x["a0"]][field]

PortalSaveA1 ==
  Goto("portal", "p_satp") /\ Put("a1", x["a1"]) /\ UNCHANGED <<x, csr, aside, sie>>

\* Mistaken: the way back forgets satp.
SwapSatpOnce ==
  /\ \/ Goto("p_satp", "p_sstatus") /\ csr' = [csr EXCEPT !.satp = Got("satp")]
     \/ Goto("p_back_satp", "p_back_a1") /\ UNCHANGED csr
  /\ Put("satp", csr.satp)
  /\ x' = [x EXCEPT !["a1"] = csr.satp]
  /\ UNCHANGED <<aside, sie>>

\* The same four instructions on the way out and on the way back.
SwapSatp ==
  /\ Goto("p_satp", "p_sstatus") \/ Goto("p_back_satp", "p_back_a1")
  /\ csr' = [csr EXCEPT !.satp = Got("satp")]
  /\ Put("satp", csr.satp)
  /\ x' = [x EXCEPT !["a1"] = csr.satp]
  /\ UNCHANGED <<aside, sie>>

PortalSstatus ==
  /\ Goto("p_sstatus", "p_sepc")
  /\ csr' = WriteSstatus(csr, Got("sstatus"))
  /\ sie' = Got("sstatus").sie
  /\ UNCHANGED <<x, mem, aside>>

PortalSepc ==
  /\ Goto("p_sepc", "p_stvec")
  /\ csr' = [csr EXCEPT !.sepc = Got("sepc")]
  /\ UNCHANGED <<x, mem, aside, sie>>

PortalStvec ==
  /\ Goto("p_stvec", "p_sscratch")
  /\ csr' = [csr EXCEPT !.stvec = Text("p_trap")]
  /\ Put("stvec", csr.stvec)
  /\ UNCHANGED <<x, aside, sie>>

PortalSscratch ==
  /\ Goto("p_sscratch", "p_load")
  /\ csr' = [csr EXCEPT !.sscratch = x["a0"]]
  /\ Put("sscratch", csr.sscratch)
  /\ UNCHANGED <<x, aside, sie>>

PortalLoad ==
  /\ Goto("p_load", "p_sret")
  /\ x' = [x EXCEPT !["a1"] = Got("a1"), !["a0"] = Got("a0")]
  /\ UNCHANGED <<csr, mem, aside, sie>>

PortalDeparts == at = "p_sret" /\ Sret /\ UNCHANGED <<x, mem, aside>>

\* Label 1 of the portal.
PortalTrap ==
  /\ Goto("p_trap", "p_save_a1")
  /\ x' = [x EXCEPT !["a0"] = csr.sscratch]
  /\ csr' = [csr EXCEPT !.sscratch = x["a0"]]
  /\ UNCHANGED <<mem, aside, sie>>

PortalSaveUserA1 ==
  Goto("p_save_a1", "p_back_sscratch") /\ Put("a1", x["a1"]) /\ UNCHANGED <<x, csr, aside, sie>>

\* sscratch holds the user's a0 until here.
PortalBackSscratch ==
  /\ Goto("p_back_sscratch", "p_back_satp")
  /\ csr' = [csr EXCEPT !.sscratch = Got("sscratch")]
  /\ x' = [x EXCEPT !["a1"] = csr.sscratch]
  /\ Put("a0", csr.sscratch)
  /\ UNCHANGED <<aside, sie>>

PortalBackA1 ==
  /\ Goto("p_back_a1", "p_home")
  /\ x' = [x EXCEPT !["a1"] = Got("a1")]
  /\ UNCHANGED <<csr, mem, aside, sie>>

\* Home is where the kernel's own trap entry is.
PortalHome ==
  /\ at = "p_home" /\ at' = Got("stvec")[2]
  /\ x' = [x EXCEPT !["a0"] = Got("stvec")]
  /\ csr' = [csr EXCEPT !.stvec = Got("stvec")]
  /\ UNCHANGED <<mem, aside, sie>>

Portal ==
  \/ PortalSaveA1 \/ SwapSatp \/ PortalSstatus \/ PortalSepc \/ PortalStvec \/ PortalSscratch
  \/ PortalLoad \/ PortalDeparts
  \/ PortalTrap \/ PortalSaveUserA1 \/ PortalBackSscratch \/ PortalBackA1 \/ PortalHome

----------------------------------------------------------------------------
\* User programs.

\* native::syscallN loads the arguments and the number; every other register
\* holds something of the thread's own.
CallRegs(t, c) ==
  LET args == Wrappers[c].args
  IN [r \in Regs |->
        CASE r = "a7" -> <<"id", Wrappers[c].id>>
          [] \E i \in DOMAIN args : Arg[i] = r -> <<"value", args[CHOOSE i \in DOMAIN args : Arg[i] = r]>>
          [] OTHER -> <<t, r>>]

Running(t) == csr.mode = "U" /\ current = t

UserCall(t, c) ==
  /\ Running(t) /\ at = "user"
  /\ x' = CallRegs(t, c)
  /\ want' = [want EXCEPT ![t] = [x |-> x', pc |-> at]]
  /\ Trap(UserEnvCall, at)
  /\ UNCHANGED <<mem, local, ready, current, call, kept, power, sections>>

\* A jump back, for the next call.
UserJump(t) ==
  /\ Running(t) /\ Goto("user+4", "user")
  /\ UNCHANGED <<x, csr, mem, aside, sie>>

\* A fault; an interrupt would take the same way.
UserFault(t) ==
  /\ Running(t)
  /\ want' = [want EXCEPT ![t] = [x |-> x, pc |-> at]]
  /\ \E cause \in {2, 13} : Trap(cause, at)
  /\ UNCHANGED <<x, mem, local, ready, current, call, kept, power, sections>>

----------------------------------------------------------------------------
\* The loop after execute.

\* An unsupported trap ends the thread.
OtherTrap ==
  /\ Goto("cause", "loop")
  /\ csr.scause # UserEnvCall
  /\ current' = Nothing
  /\ UNCHANGED <<x, csr, mem, local, ready, call, want, kept, power, maskingVars>>

\* The number and the six arguments, read after move_next.
AskedId == mem[Ctx(current)].x["a7"][2]
AskedArgs == [i \in 1 .. 6 |-> mem[Ctx(current)].x[Arg[i]]]

\* Container::call: a number without a method, or a container never filled, is
\* Unsupported, which ends the thread.
Supported(id) == id \in DOMAIN Handlers /\ Handlers[id][1] \in Initialised

SystemCall ==
  /\ at = "cause" /\ csr.scause = UserEnvCall
  /\ mem' = [mem EXCEPT ![Ctx(current)].sepc = Text(After(@[2]))]
  /\ IF ~Supported(AskedId)
     THEN at' = "loop" /\ current' = Nothing /\ UNCHANGED call
     ELSE /\ call' = Dispatch(AskedId, AskedArgs)
          /\ at' = IF call'.method \in Written THEN "handler" ELSE "panic"
          /\ UNCHANGED current
  /\ UNCHANGED <<x, csr, local, ready, want, kept, power, maskingVars>>

\* What a method answers.
Result == <<"result", call.method>>

\* exit ends the thread; any other call stores its result and queues the thread
\* again, at once or, for one that blocks, when it is woken.
EndSystemCall ==
  /\ Goto("handler", "loop")
  /\ open = {}
  /\ current' = Nothing
  /\ IF call.method = "exit"
     THEN UNCHANGED <<mem, ready, want>>
     ELSE /\ mem' = [mem EXCEPT ![Ctx(current)].x["a0"] = Result]
          /\ ready' = Append(ready, current)
          /\ want' = [want EXCEPT
               ![current] = [x |-> [@.x EXCEPT !["a0"] = Result], pc |-> After(@.pc)]]
  /\ UNCHANGED <<x, csr, local, call, kept, power, maskingVars>>

\* The methods of the synchronization objects work on UPIntrFreeCells.
UseCells ==
  /\ at = "handler" /\ call.trait = "SYNC_MUTEX"
  /\ \E c \in Cells : ExclusiveAccess(c) \/ DropRef(c)
  /\ UNCHANGED <<x, csr, at, mem, local, kept, kernelVars>>

----------------------------------------------------------------------------
\* Calls of the firmware (sbi/src/lib.rs): arguments, number and ecall.
SbiCall(eid, fid, arg0) ==
  /\ x' = [KernelRegs EXCEPT !["a0"] = <<arg0>>, !["a1"] = <<"0">>, !["a2"] = <<"0">>,
                             !["a6"] = <<fid>>, !["a7"] = <<eid>>]
  /\ kept' = x'
  /\ local' = [local EXCEPT !.caller = at]
  /\ Trap(SupervisorEnvCall, "sbi_call")
  /\ UNCHANGED <<mem, kernelVars, sections>>

\* Any method may print, and `read` of standard input asks for a character.
PutChar == at = "handler" /\ SbiCall("CONSOLE_PUTCHAR", "0", "c")
GetChar == at = "handler" /\ call.method = "read" /\ SbiCall("CONSOLE_GETCHAR", "0", "0")

\* With no thread left the loop stops; the panic handler stops as well.
Shutdown ==
  \/ at = "loop" /\ ready = <<>> /\ SbiCall("SRST", "0", "0")
  \/ at = "panic" /\ SbiCall("SRST", "0", "1")

SbiReturns ==
  /\ at = "sbi_call+4"
  /\ at' = IF x["a0"] = <<"error">> THEN "panic" ELSE local.caller
  /\ UNCHANGED <<x, csr, mem, aside, sie>>

\* Mistaken: the vector's own call loses ra.
SavedByVectorLeaf == {"t0", "a0", "a1", "a2", "a3", "a4", "a5", "a6", "a7"}

\* m_trap_vector: to the firmware's own stack.
SavedByVector ==
  {"ra", "t0", "a0", "a1", "a2", "a3", "a4", "a5", "a6", "a7"}

MTrapVector ==
  /\ Goto("m_trap", "m_handler")
  /\ mem' = [mem EXCEPT ![Down(csr.mscratch)].x =
                          [r \in Regs |-> IF r \in SavedByVector THEN x[r] ELSE Nothing]]
  /\ x' = [x EXCEPT !["sp"] = Down(csr.mscratch)]
  /\ csr' = [csr EXCEPT !.mscratch = x["sp"]]
  /\ UNCHANGED <<aside, sie>>

\* handle_system_reset looks at the function number only, and does not return.
\* handle_base answers for the functions 0 to 6; the legacy number of shutdown
\* and the timer are not used by chapter 8.
SbiRet(eid, fid) ==
  IF \/ csr.mcause # SupervisorEnvCall
     \/ eid \notin {"CONSOLE_PUTCHAR", "CONSOLE_GETCHAR", "TIMER", "BASE"}
     \/ eid = "BASE" /\ fid \notin {"0", "1", "2", "3", "4", "5", "6"}
  THEN [error |-> <<"error">>, value |-> <<"0">>]
  ELSE [error |-> <<"0">>, value |-> IF eid = "CONSOLE_GETCHAR" THEN <<"c">> ELSE <<"0">>]

\* A Rust function may change every register that its caller has to save.
CallerSaved == {"ra", "t0", "t3", "a2", "a3", "a4", "a5", "a6", "a7"}

MTrapHandler ==
  /\ at = "m_handler"
  /\ IF x["a7"] \in {<<"SRST">>, <<"SHUTDOWN">>}
     THEN /\ at' = "off"
          /\ power' = IF x["a7"] = <<"SHUTDOWN">> \/ x["a6"] = <<"0">> THEN "success" ELSE "reset"
          /\ UNCHANGED x
     ELSE LET ret == SbiRet(x["a7"][1], x["a6"][1])
          IN /\ at' = "m_restore"
             /\ \E lost \in {{}, CallerSaved} :
                  x' = [r \in Regs |-> CASE r = "a0" -> ret.error
                                         [] r = "a1" -> ret.value
                                         [] r \in lost -> <<"firmware">>
                                         [] OTHER -> x[r]]
             /\ UNCHANGED power
  /\ UNCHANGED <<csr, mem, local, kept, ready, current, call, want, maskingVars>>

\* Back to the instruction after the ecall.  t0 is loaded after its use.
MRestore ==
  /\ at = "m_restore" /\ at' = After(csr.mepc[2])
  /\ x' = [r \in Regs |-> CASE r = "sp" -> csr.mscratch
                            [] r \in SavedByVector \ {"a0", "a1"} -> mem[x["sp"]].x[r]
                            [] OTHER -> x[r]]
  /\ csr' = [csr EXCEPT !.mode = csr.mpp, !.mpp = "U", !.mscratch = Up(x["sp"])]
  /\ UNCHANGED <<mem, aside, sie>>

Halted == at = "off" /\ UNCHANGED vars

----------------------------------------------------------------------------
\* The whole.

Zero == <<"0">>

\* LocalContext::user, with the stack of the new thread.
NewContext(t) ==
  [sctx |-> Zero, x |-> [[r \in Regs |-> Zero] EXCEPT !["sp"] = <<t, "sp">>],
   sepc |-> Text("user"), supervisor |-> FALSE, interrupt |-> TRUE, satp |-> Space(t)]

Memory0(addr) ==
  CASE addr = Cache -> [a0 |-> Zero, a1 |-> Zero, satp |-> Zero, sepc |-> Zero, stvec |-> Zero,
                        sscratch |-> Zero, sstatus |-> BuildSstatus(FALSE, FALSE)]
    [] addr = RaSlot -> [ra |-> Zero]
    [] addr \in {Frame, MFrame} -> [x |-> [r \in Regs |-> Zero]]
    [] OTHER -> NewContext(addr[2])

\* The firmware has started the kernel in S mode, and the kernel has set up its
\* address space, the portal and the threads; its loop begins.
Init ==
  /\ MaskingInit
  /\ x = KernelRegs
  /\ csr = [mode |-> "S", spp |-> "U", spie |-> FALSE, satp |-> KernelSpace, sscratch |-> Zero,
            sepc |-> Zero, stvec |-> Zero, scause |-> 0, mpp |-> "U", mepc |-> Zero, mcause |-> 0,
            mscratch |-> MTop]
  /\ at = "loop"
  /\ mem = [addr \in {Cache, RaSlot, Frame, MFrame} \cup {Ctx(t) : t \in Threads} |-> Memory0(addr)]
  /\ local = [supervisor |-> FALSE, interrupt |-> FALSE, old_ss |-> Zero, caller |-> "loop"]
  /\ ready \in {q \in [1 .. Cardinality(Threads) -> Threads] : \A t \in Threads : \E i \in DOMAIN q : q[i] = t}
  /\ current = Nothing
  /\ call = [trait |-> "none", method |-> "none", given |-> <<>>]
  /\ want = [t \in Threads |-> [x |-> NewContext(t).x, pc |-> "user"]]
  /\ kept = KernelRegs
  /\ power = "on"

UserStep(t) == (\E c \in Makes[t] : UserCall(t, c)) \/ UserJump(t) \/ UserFault(t)

Next ==
  \/ FindNext \/ ForeignExecute \/ LocalExecute \/ LocalReturns \/ ForeignReturns
  \/ Naked \/ Portal
  \/ \E t \in Threads : UserStep(t)
  \/ OtherTrap \/ SystemCall \/ EndSystemCall \/ UseCells
  \/ PutChar \/ GetChar \/ Shutdown \/ SbiReturns \/ MTrapVector \/ MTrapHandler \/ MRestore
  \/ Halted

Spec == Init /\ [][Next]_vars

----------------------------------------------------------------------------
\* Properties.

\* A thread that comes back to user mode finds its registers, pc and address
\* space as it left them, but for the result of the call in a0 and the pc behind
\* it, and interrupts on (LocalContext::user) - whatever the other thread, the
\* kernel and the portal did in between.
ThreadFindsItself ==
  [][csr.mode # "U" /\ csr'.mode = "U" =>
       /\ x' = want[current].x /\ at' = want[current].pc
       /\ csr'.satp = Space(current) /\ sie']_vars

\* LocalContext::execute returns like a function: every register that the
\* compiler trusts, the stack pointer, sscratch and the address space are those
\* of the call.
ReturnsLikeAFunction ==
  [][at = "returned" /\ at' = "left" =>
       x' = kept /\ csr'.sscratch = Zero /\ csr'.satp = KernelSpace /\ csr'.mode = "S"]_vars

\* Every instruction of the path is mapped where it runs, and so is what it
\* loads and stores, on both sides of the two changes of satp; user text runs in
\* user mode only.
OnlyMapped ==
  csr.mode # "M" =>
    /\ Executable(at, csr.satp)
    /\ Operands(at) \subseteq Mapped(csr.satp)
    /\ (csr.mode = "U") = (at \in UserText)

\* No interrupt can come between the trap and the return to the program: the
\* portal and execute_naked hold the only copies of some registers, and their
\* trap entries expect a user thread.
SupervisorUninterrupted == csr.mode # "U" => ~sie

\* A call reaches the method it is named for, whose parameters hold what the
\* program gave under their names; one that no method is written for panics the
\* kernel.
Names(c) == {Wrappers[c].args[i] : i \in DOMAIN Wrappers[c].args}

CallsArrive ==
  [][at = "cause" /\ at' \in {"handler", "panic"} =>
       \E c \in Makes[current] :
         /\ Wrappers[c].id = AskedId
         /\ Len(call'.given) = Len(Wrappers[c].args) \/ call'.method = "mmap"
         /\ \A i \in DOMAIN call'.given :
              call'.given[i][1] \in Names(c) => call'.given[i][2] = <<"value", call'.given[i][1]>>]_vars

\* The kernel finds its registers after a call of the firmware, but for the two
\* of the answer and those that m_trap_vector does not save (t3 to t6).
FirmwareKeepsRegisters ==
  [][at = "m_restore" /\ at' # at =>
       /\ \A r \in Regs \ {"a0", "a1", "t3"} : x'[r] = kept[r]
       /\ csr'.mode = "S" /\ csr'.mscratch = MTop]_vars
=============================================================================
