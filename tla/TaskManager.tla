------------------------------ MODULE TaskManager ------------------------------
(***************************************************************************)
(* Processes and threads: PThreadManager with its ProcThreadRel records,   *)
(* driven by the scheduling loop of main.rs and the system calls that      *)
(* create, replace, end and wait for processes and threads.  Wait queues   *)
(* of synchronization objects are the set `waiting`; SyncKernel has them   *)
(* in detail.                                                              *)
(*                                                                         *)
(* A trap is two actions, the system call's handler and EndTrap, the rest  *)
(* of the loop's body; nothing else happens between them.                  *)
(***************************************************************************)
EXTENDS QueueFamilies, Functions, SequencesExt

CONSTANTS MaxPid, MaxTid,   \* bounds on the ids handed out
          ExitCodes         \* arguments of exit

ASSUME BoundAssumption == MaxPid \in Nat /\ MaxTid \in Nat
ASSUME CodeAssumption == ExitCodes \subseteq Int

Pids == 0 .. MaxPid
Tids == 0 .. MaxTid
InitPid == 0
None == -1          \* no thread, and the parent usize::MAX of the first process

\* Exit codes the kernel picks itself: no such call, a fault, killed by SIGKILL.
Unsupported == -2
Faulted == -3
Killed == -9
Codes == ExitCodes \cup {Unsupported, Faulted, Killed}

VARIABLES current,    \* PThreadManager.current
          ready,      \* ThreadManager.ready_queue
          tasks,      \* keys of ThreadManager.tasks
          tid2pid,    \* PThreadManager.tid2pid
          rel_map,    \* PThreadManager.rel_map; proc_manager has the same keys
          next_pid, next_tid,   \* PID_COUNTER, TID_COUNTER
          space,      \* process -> its address space, named by the pid made with it
          satp,       \* thread -> the address space its context runs on
          fatal,      \* processes with a pending signal that kills
          waiting,    \* <<pid, tid>> recorded in a wait queue of the process
          result,     \* what the handled call asks of the loop, NoResult in user mode
          machine,    \* "running", "panic" or "shutdown"
          exited,     \* history: pid -> exit code and last parent of ended processes
          reports     \* history: the <<pid, code>> that wait has reported, in order

sched == <<current, ready, tasks, waiting>>
procs == <<tid2pid, rel_map, next_pid, next_tid, space, satp>>
history == <<exited, reports>>
vars == <<sched, procs, fatal, result, machine, history>>

NoResult == [kind |-> "none", code |-> 0]
Suspend  == [kind |-> "suspend", code |-> 0]
Block    == [kind |-> "block", code |-> 0]
ExitWith(code) == [kind |-> "exit", code |-> code]
Results == {NoResult, Suspend, Block} \cup {ExitWith(code) : code \in Codes}

Ended == [pid : Pids, code : Codes]

ProcThreadRels ==
  [parent : Pids \cup {None},
   children : SUBSET Pids,
   dead_children : Seq(Ended),
   threads : Seq(Tids),
   dead_threads : UNION {[T -> Codes] : T \in SUBSET Tids}]

TypeOK ==
  /\ current \in Tids \cup {None}
  /\ ready \in Seq(Tids)
  /\ tasks \subseteq Tids
  /\ DOMAIN tid2pid \subseteq Tids /\ tid2pid \in [DOMAIN tid2pid -> Pids]
  /\ DOMAIN rel_map \subseteq Pids /\ rel_map \in [DOMAIN rel_map -> ProcThreadRels]
  /\ next_pid \in 0 .. MaxPid + 1 /\ next_tid \in 0 .. MaxTid + 1
  /\ DOMAIN space = DOMAIN rel_map /\ space \in [DOMAIN space -> Pids]
  /\ DOMAIN satp = tasks /\ satp \in [DOMAIN satp -> Pids]
  /\ fatal \subseteq Pids
  /\ waiting \subseteq Pids \X Tids
  /\ result \in Results
  /\ machine \in {"running", "panic", "shutdown"}
  /\ DOMAIN exited \subseteq Pids
  /\ exited \in [DOMAIN exited -> [code : Codes, parent : Pids \cup {None}]]
  /\ reports \in Seq(Ended)

----------------------------------------------------------------------------
\* ProcThreadRel.
NewRel(parent) ==
  [parent |-> parent, children |-> {}, dead_children |-> <<>>,
   threads |-> <<>>, dead_threads |-> <<>>]

With(f, x, y) == [z \in DOMAIN f \cup {x} |-> IF z = x THEN y ELSE f[z]]

Without(f, x) == Restrict(f, DOMAIN f \ {x})

AddThread(rel, t) == [rel EXCEPT !.threads = Append(@, t)]

\* Mistaken: the thread is noted as dead and stays listed.
DelThreadListed(rel, t, code) ==
  IF t \in Members(rel.threads) THEN [rel EXCEPT !.dead_threads = With(@, t, code)] ELSE rel

DelThread(rel, t, code) ==
  IF t \in Members(rel.threads)
  THEN [rel EXCEPT !.threads = RemoveFirst(@, t), !.dead_threads = With(@, t, code)]
  ELSE rel

DelChild(rel, p, code) ==
  IF p \in rel.children
  THEN [rel EXCEPT !.children = @ \ {p},
                   !.dead_children = Append(@, [pid |-> p, code |-> code])]
  ELSE rel

----------------------------------------------------------------------------
\* PThreadManager.

\* add_proc then add: process p with its main thread t, under `parent`.
AddProc(rm, p, parent, t) ==
  LET told == IF parent \in DOMAIN rm
              THEN [rm EXCEPT ![parent].children = @ \cup {p}] ELSE rm
  IN With(told, p, AddThread(NewRel(parent), t))

\* Mistaken: the children pass to the parent of the process.
DelProcToParent(rm, p, code) ==
  LET gone == Without(rm, p)
      up   == rm[p].parent
  IN [q \in DOMAIN gone |->
        IF q \in rm[p].children THEN [gone[q] EXCEPT !.parent = up]
        ELSE IF q = up
             THEN DelChild([gone[q] EXCEPT !.children = @ \cup rm[p].children], p, code)
             ELSE gone[q]]

\* Mistaken: process 0 gets the children, and they keep their dead parent.
DelProcNoReparent(rm, p, code) ==
  LET gone == Without(rm, p)
      up   == rm[p].parent
  IN [q \in DOMAIN gone |->
        LET rel == IF q = up THEN DelChild(gone[q], p, code) ELSE gone[q]
        IN IF q = InitPid THEN [rel EXCEPT !.children = @ \cup rm[p].children] ELSE rel]

\* del_proc: the parent is told, the children pass to process 0.
DelProc(rm, p, code) ==
  LET gone == Without(rm, p)
      up   == rm[p].parent
      told == IF up \in DOMAIN gone
              THEN [gone EXCEPT ![up] = DelChild(@, p, code)] ELSE gone
  IN [q \in DOMAIN told |->
        IF q \in rm[p].children THEN [told[q] EXCEPT !.parent = InitPid]
        ELSE IF q = InitPid THEN [told[q] EXCEPT !.children = @ \cup rm[p].children]
        ELSE told[q]]

\* What del_proc unwraps: every child's record, and process 0's to adopt them.
DelProcPanics(rm, p) ==
  LET gone == DOMAIN rm \ {p}
  IN rm[p].children # {} /\ ~(rm[p].children \cup {InitPid} \subseteq gone)

\* make_current_exited: the process goes with its last thread, and with it its
\* wait queues and pending signals.
MakeCurrentExited(t, code) ==
  LET p    == tid2pid[t]
      left == [rel_map EXCEPT ![p] = DelThread(@, t, code)]
  IN /\ current' = None
     /\ tasks' = tasks \ {t}
     /\ satp' = Without(satp, t)
     /\ tid2pid' = Without(tid2pid, t)
     /\ IF left[p].threads # <<>>
        THEN /\ rel_map' = left
             /\ UNCHANGED <<space, waiting, machine, exited>>
        ELSE /\ rel_map' = DelProc(left, p, code)
             /\ machine' = IF DelProcPanics(left, p) THEN "panic" ELSE machine
             /\ space' = Without(space, p)
             /\ waiting' = {w \in waiting : w[1] # p}
             /\ exited' = With(exited, p, [code |-> code, parent |-> left[p].parent])
     /\ UNCHANGED <<ready, next_pid, next_tid, reports>>

----------------------------------------------------------------------------
\* The first process, loaded by rust_main.
Init ==
  /\ current = None
  /\ ready = <<0>>
  /\ tasks = {0}
  /\ tid2pid = [t \in {0} |-> InitPid]
  /\ rel_map = AddProc(<<>>, InitPid, None, 0)
  /\ next_pid = 1 /\ next_tid = 1
  /\ space = [p \in {InitPid} |-> InitPid]
  /\ satp = [t \in {0} |-> InitPid]
  /\ fatal = {} /\ waiting = {}
  /\ result = NoResult
  /\ machine = "running"
  /\ exited = <<>> /\ reports = <<>>

FindNext ==
  /\ machine = "running" /\ current = None
  /\ ready # <<>> /\ Head(ready) \in tasks
  /\ current' = Head(ready)
  /\ ready' = Tail(ready)
  /\ UNCHANGED <<tasks, waiting, procs, fatal, result, machine, history>>

\* find_next answers None: "no task".
NoTask ==
  /\ machine = "running" /\ current = None
  /\ ready # <<>> => Head(ready) \notin tasks
  /\ machine' = "shutdown"
  /\ ready' = IF ready = <<>> THEN <<>> ELSE Tail(ready)
  /\ UNCHANGED <<current, tasks, waiting, procs, fatal, result, history>>

\* Thread t traps out of user mode.
Traps(t) == machine = "running" /\ current = t /\ result = NoResult

\* A trap that is no system call; signals are not looked at.
Fault(t) ==
  /\ Traps(t)
  /\ MakeCurrentExited(t, Faulted)
  /\ fatal' = fatal \cap DOMAIN rel_map'
  /\ UNCHANGED result

\* The rest of the loop's body: handle_signals takes a signal that kills, before
\* the call's own result is looked at.
EndTrap(t) ==
  /\ machine = "running" /\ current = t /\ result # NoResult
  /\ fatal' = fatal \ {tid2pid[t]}
  /\ \/ tid2pid[t] \in fatal /\ MakeCurrentExited(t, Killed)
     \/ /\ tid2pid[t] \notin fatal /\ result.kind = "exit"
        /\ MakeCurrentExited(t, result.code)
     \/ /\ tid2pid[t] \notin fatal /\ result.kind \in {"suspend", "block"}
        /\ current' = None
        /\ ready' = IF result.kind = "suspend" THEN Append(ready, t) ELSE ready
        /\ UNCHANGED <<tasks, waiting, procs, machine, history>>
  /\ result' = NoResult

----------------------------------------------------------------------------
\* System calls.  `Own(t)` is the caller's process.
Own(t) == tid2pid[t]

Returns(r) == result' = r /\ UNCHANGED <<current, machine>>

\* A call that changes nothing here: yield, getpid, a failing exec, a wait that
\* finds no ended child.
OtherCall(t) ==
  /\ Traps(t)
  /\ Returns(Suspend)
  /\ UNCHANGED <<ready, tasks, waiting, procs, fatal, history>>

\* exit, or a call the kernel does not know.
Exit(t, code) ==
  /\ Traps(t)
  /\ Returns(ExitWith(code))
  /\ UNCHANGED <<ready, tasks, waiting, procs, fatal, history>>

\* PThreadManager::add for thread t of a process that has its record.
Add(t, p, sp) ==
  /\ tasks' = tasks \cup {t}
  /\ ready' = Append(ready, t)
  /\ tid2pid' = With(tid2pid, t, p)
  /\ satp' = With(satp, t, sp)
  /\ next_tid' = next_tid + 1

\* pthreads[0], whose task fork and exec unwrap: ThreadsConsistent says it has one.
MainThread(p) == Head(rel_map[p].threads)

\* fork copies the main thread's context, whichever thread calls.
Fork(t) ==
  /\ Traps(t)
  /\ next_pid <= MaxPid /\ next_tid <= MaxTid
  /\ rel_map' = AddProc(rel_map, next_pid, Own(t), next_tid)
  /\ Add(next_tid, next_pid, next_pid)
  /\ space' = With(space, next_pid, next_pid)
  /\ next_pid' = next_pid + 1
  /\ Returns(Suspend)
  /\ UNCHANGED <<waiting, fatal, history>>

\* Mistaken: the thread keeps the old page table.
ExecOldTable(t) ==
  /\ Traps(t)
  /\ next_pid <= MaxPid /\ next_tid <= MaxTid
  /\ space' = [space EXCEPT ![Own(t)] = next_pid]
  /\ next_pid' = next_pid + 1 /\ next_tid' = next_tid + 1
  /\ Returns(Suspend)
  /\ UNCHANGED <<ready, tasks, waiting, tid2pid, rel_map, satp, fatal, history>>

\* exec uses up a pid and a tid; only the main thread moves to the new space.
Exec(t) ==
  /\ Traps(t)
  /\ next_pid <= MaxPid /\ next_tid <= MaxTid
  /\ space' = [space EXCEPT ![Own(t)] = next_pid]
  /\ satp' = [satp EXCEPT ![MainThread(Own(t))] = next_pid]
  /\ next_pid' = next_pid + 1 /\ next_tid' = next_tid + 1
  /\ Returns(Suspend)
  /\ UNCHANGED <<ready, tasks, waiting, tid2pid, rel_map, fatal, history>>

ThreadCreate(t) ==
  /\ Traps(t)
  /\ next_tid <= MaxTid
  /\ rel_map' = [rel_map EXCEPT ![Own(t)] = AddThread(@, next_tid)]
  /\ Add(next_tid, Own(t), space[Own(t)])
  /\ Returns(Suspend)
  /\ UNCHANGED <<waiting, next_pid, space, fatal, history>>

\* Mistaken: the reported child stays in dead_children.
ReportKeeps(t, i) ==
  /\ Traps(t)
  /\ i \in DOMAIN rel_map[Own(t)].dead_children
  /\ Len(reports) <= MaxPid
  /\ reports' = Append(reports, rel_map[Own(t)].dead_children[i])
  /\ Returns(Suspend)
  /\ UNCHANGED <<ready, tasks, waiting, procs, fatal, exited>>

\* wait reports the i-th of the caller's dead children and forgets it.
Report(t, i) ==
  /\ Traps(t)
  /\ i \in DOMAIN rel_map[Own(t)].dead_children
  /\ LET dead == rel_map[Own(t)].dead_children
     IN /\ rel_map' = [rel_map EXCEPT ![Own(t)].dead_children = RemoveAt(dead, i)]
        /\ reports' = Append(reports, dead[i])
  /\ Returns(Suspend)
  /\ UNCHANGED <<ready, tasks, waiting, tid2pid, next_pid, next_tid, space, satp, fatal, exited>>

\* wait for any child pops the last one; wait for one child finds it.
WaitAnyChild(t) == Traps(t) /\ Report(t, Len(rel_map[Own(t)].dead_children))
WaitChild(t, p) ==
  /\ Traps(t)
  /\ \E i \in DOMAIN rel_map[Own(t)].dead_children :
       rel_map[Own(t)].dead_children[i].pid = p /\ Report(t, i)

\* waittid finds an ended thread and forgets it; for a running thread (-2) or one it
\* does not know (-1) it changes nothing, as any other call.
WaitTid(t, u) ==
  /\ Traps(t)
  /\ u # t /\ u \in DOMAIN rel_map[Own(t)].dead_threads
  /\ rel_map' = [rel_map EXCEPT ![Own(t)].dead_threads = Without(@, u)]
  /\ Returns(Suspend)
  /\ UNCHANGED <<ready, tasks, waiting, tid2pid, next_pid, next_tid, space, satp, fatal, history>>

\* kill with a signal whose default action is to terminate, not caught.
Kill(t, p) ==
  /\ Traps(t)
  /\ p \in DOMAIN rel_map
  /\ fatal' = fatal \cup {p}
  /\ Returns(Suspend)
  /\ UNCHANGED <<ready, tasks, waiting, procs, history>>

\* A synchronization call queues the caller.
BlockCall(t) ==
  /\ Traps(t)
  /\ waiting' = waiting \cup {<<Own(t), t>>}
  /\ Returns(Block)
  /\ UNCHANGED <<ready, tasks, procs, fatal, history>>

\* A synchronization call wakes a queued thread of the process: re_enque.
WakeCall(t, u) ==
  /\ Traps(t)
  /\ <<Own(t), u>> \in waiting
  /\ waiting' = waiting \ {<<Own(t), u>>}
  /\ ready' = Append(ready, u)
  /\ Returns(Suspend)
  /\ UNCHANGED <<tasks, procs, fatal, history>>

Halted == machine # "running" /\ UNCHANGED vars

SystemCall(t) ==
  \/ OtherCall(t)
  \/ \E code \in ExitCodes \cup {Unsupported} : Exit(t, code)
  \/ Fork(t) \/ Exec(t) \/ ThreadCreate(t)
  \/ WaitAnyChild(t) \/ \E p \in Pids : WaitChild(t, p)
  \/ \E u \in Tids : WaitTid(t, u)
  \/ \E p \in Pids : Kill(t, p)
  \/ BlockCall(t) \/ \E u \in Tids : WakeCall(t, u)

Next ==
  \/ FindNext \/ NoTask
  \/ \E t \in Tids : SystemCall(t) \/ Fault(t) \/ EndTrap(t)
  \/ Halted

Spec == Init /\ [][Next]_vars

\* The comment of Process::exec: only a single-threaded process calls exec.
SingleThreaded(t) == rel_map[Own(t)].threads = <<t>>

----------------------------------------------------------------------------
\* Properties.

Alive == DOMAIN rel_map

\* Parents and children name each other, and every process but process 0 is the
\* child of exactly one: no fork, exit or adoption loses a process.  Only when
\* process 0 itself has ended do the unwraps of del_proc fail.
TreeConsistent ==
  /\ TypeOK
  /\ machine = "panic" => InitPid \notin Alive
  /\ machine # "panic" =>
       \A p \in Alive :
         /\ \A c \in rel_map[p].children : c \in Alive /\ rel_map[c].parent = p
         /\ p # InitPid => /\ rel_map[p].parent \in Alive
                           /\ p \in rel_map[rel_map[p].parent].children

\* tid2pid, the thread lists and the task table hold the same threads, each
\* thread in one process, and a process lives exactly as long as it has threads.
ThreadsConsistent ==
  /\ DOMAIN tid2pid = tasks
  /\ \A p \in Alive :
       /\ rel_map[p].threads # <<>>
       /\ Members(rel_map[p].threads) = {t \in tasks : tid2pid[t] = p}
       /\ \A t \in DOMAIN rel_map[p].dead_threads : t \notin tasks
  /\ \A t \in tasks : tid2pid[t] \in Alive

\* The books an exit is entered in: the dead_children of each process, and what
\* wait reported (under None).
Books ==
  [q \in Alive \cup {None} |-> IF q = None THEN reports ELSE rel_map[q].dead_children]

Entered(p) == \E q \in DOMAIN Books : \E e \in Members(Books[q]) : e.pid = p

\* An exit is told at most once and with the right code, to the parent and to
\* nobody else; and it stays in the books as long as that parent lives.
ExitToldOnce ==
  /\ Unique([q \in DOMAIN Books |-> [i \in DOMAIN Books[q] |-> Books[q][i].pid]])
  /\ \A q \in DOMAIN Books : \A e \in Members(Books[q]) :
       /\ e.pid \in DOMAIN exited /\ e.code = exited[e.pid].code
       /\ q # None => q = exited[e.pid].parent
  /\ \A p \in DOMAIN exited : exited[p].parent \in Alive => Entered(p)

\* Each thread runs on its process's present address space, unless a process of
\* several threads called exec: no fork, creation, end or adoption parts them.
OneAddressSpace == \A t \in tasks : satp[t] = space[tid2pid[t]]

SpacesPartOnlyInExec ==
  [][OneAddressSpace => OneAddressSpace' \/ \E t \in Tids : Exec(t) /\ ~SingleThreaded(t)]_vars

\* Processes, seen from outside, are a ProcessFamily.
Zombie(p) == \E q \in Alive : \E e \in Members(rel_map[q].dead_children) : e.pid = p
WaiterOf(p) == CHOOSE q \in Alive : \E e \in Members(rel_map[q].dead_children) : e.pid = p

PhaseView ==
  [p \in Pids |-> IF p \in Alive THEN "running"
                  ELSE IF Zombie(p) THEN "zombie"
                  ELSE IF p < next_pid THEN "gone" ELSE "unborn"]
ParentView ==
  [p \in Pids |-> IF p \in Alive THEN rel_map[p].parent
                  ELSE IF Zombie(p) THEN WaiterOf(p) ELSE None]
CodeView == [p \in Pids |-> IF Zombie(p) THEN exited[p].code ELSE 0]

Family == INSTANCE ProcessFamily WITH
  NoPid <- None, phase <- PhaseView, parent <- ParentView, code <- CodeView

\* PThreadManager keeps the promise: one end, one code, one report to the
\* parent, orphans under process 0.
FamilyImplemented == Family!Spec
=============================================================================
