------------------------------ MODULE SyncKernel -------------------------------
(***************************************************************************)
(* One process of the chapter 8 kernel: its threads, the scheduling loop   *)
(* of main.rs, and the mutexes, semaphores and condition variables of      *)
(* `Process`.  The kernel runs on one hart with interrupts masked, so one  *)
(* trap - system call, signal handling, requeueing - is one action; what   *)
(* interleaves is the threads between their traps.  A thread may issue any *)
(* system call at any time.                                                *)
(***************************************************************************)
EXTENDS SyncObjects, QueueFamilies

CONSTANTS Threads,     \* thread ids, each handed out at most once
          None,        \* Option::None where a thread id is expected
          MutexIds, SemIds, CondvarIds,
          ResCounts,   \* the res_count arguments of semaphore_create
          MaxCount     \* bound on a semaphore's count

ASSUME NoneAssumption == None \notin Threads
ASSUME IdsAssumption  == MutexIds \subseteq Nat /\ SemIds \subseteq Nat
                           /\ CondvarIds \subseteq Nat
ASSUME CountAssumption == ResCounts \subseteq Int /\ MaxCount \in Int

VARIABLES current,   \* PThreadManager.current
          ready,     \* ThreadManager.ready_queue
          tasks,     \* keys of ThreadManager.tasks
          used,      \* thread ids already handed out
          mutexes,   \* Process.mutex_list, on the ids whose slot is Some
          owner,     \* Process.mutex_owners
          sems,      \* Process.semaphore_list
          condvars,  \* Process.condvar_list
          detect,    \* Process.deadlock_detect_enabled
          fatal,     \* a pending signal that kills: handle_signals answers ProcessKilled
          machine,   \* "running", "panic" or "shutdown"
          holder     \* history: the thread that lock or hand-off last granted the mutex to

sched == <<current, ready, tasks, used>>
objs  == <<mutexes, owner, sems, condvars, detect, holder>>
vars  == <<sched, objs, fatal, machine>>

OptThread == Threads \cup {None}

MutexObjects == [locked : BOOLEAN, wait_queue : Seq(Threads)]
SemaphoreObjects == [count : Int, wait_queue : Seq(Threads)]

TypeOK ==
  /\ current \in OptThread
  /\ ready \in Seq(Threads)
  /\ tasks \subseteq Threads
  /\ used \subseteq Threads
  /\ DOMAIN mutexes \subseteq MutexIds
  /\ mutexes \in [DOMAIN mutexes -> MutexObjects]
  /\ owner \in [MutexIds -> OptThread]
  /\ holder \in [MutexIds -> OptThread]
  /\ DOMAIN sems \subseteq SemIds
  /\ sems \in [DOMAIN sems -> SemaphoreObjects]
  /\ DOMAIN condvars \subseteq CondvarIds
  /\ condvars \in [DOMAIN condvars -> Seq(Threads)]
  /\ detect \in BOOLEAN
  /\ fatal \in BOOLEAN
  /\ machine \in {"running", "panic", "shutdown"}

Init ==
  \E main \in Threads :
    /\ current = None
    /\ ready = <<main>>
    /\ tasks = {main}
    /\ used = {main}
    /\ mutexes = <<>>
    /\ owner = [m \in MutexIds |-> None]
    /\ holder = [m \in MutexIds |-> None]
    /\ sems = <<>>
    /\ condvars = <<>>
    /\ detect = FALSE
    /\ fatal = FALSE
    /\ machine = "running"

----------------------------------------------------------------------------
\* Helpers.

\* The slot a create call takes: the first None of the list, or the next
\* position.  A None slot and a position past the end behave alike.
FreeSlot(ids, list, i) ==
  /\ i \in ids \ DOMAIN list
  /\ \A j \in ids \ DOMAIN list : i <= j

Put(list, i, obj) ==
  [j \in DOMAIN list \cup {i} |-> IF j = i THEN obj ELSE list[j]]

\* Mistaken: a thread that exits is queued again.
FinishRequeues(t, live, woken, outcome, killed) ==
  /\ current' = None
  /\ fatal' = FALSE
  /\ tasks' = IF killed \/ outcome = "exit" THEN live \ {t} ELSE live
  /\ ready' = ready \o woken \o (IF outcome = "block" THEN <<>> ELSE <<t>>)

\* The end of a trap by system call, after the call pushed `woken` to the
\* ready queue: handle_signals first, then the match on the call's result.
\* `live` is the task table the call left.
Finish(t, live, woken, outcome, killed) ==
  /\ current' = None
  /\ fatal' = FALSE
  /\ tasks' = IF killed \/ outcome = "exit" THEN live \ {t} ELSE live
  /\ ready' = ready \o woken
                \o (IF ~killed /\ outcome = "suspend" THEN <<t>> ELSE <<>>)

\* Mistaken: a call that blocks suspends its thread instead.
EndSyscallReady(t, woken, outcome) ==
  /\ Finish(t, tasks, woken, IF outcome = "block" THEN "suspend" ELSE outcome, fatal)
  /\ UNCHANGED <<used, machine>>

EndSyscall(t, woken, outcome) ==
  /\ Finish(t, tasks, woken, outcome, fatal)
  /\ UNCHANGED <<used, machine>>

\* Thread t is in the kernel with a trap of its own.
Trapped(t) == machine = "running" /\ current = t /\ t # None

Panic ==
  /\ machine' = "panic"
  /\ UNCHANGED <<sched, objs, fatal>>

----------------------------------------------------------------------------
\* The scheduling loop.

\* find_next: an id without a task entity makes it answer None.
FindNext ==
  /\ machine = "running" /\ current = None
  /\ ready # <<>> /\ Head(ready) \in tasks
  /\ current' = Head(ready)
  /\ ready' = Tail(ready)
  /\ UNCHANGED <<tasks, used, objs, fatal, machine>>

\* find_next answers None: "no task", the loop ends and the machine is off.
NoTask ==
  /\ machine = "running" /\ current = None
  /\ ready # <<>> => Head(ready) \notin tasks
  /\ machine' = "shutdown"
  /\ ready' = AfterPop(ready)
  /\ UNCHANGED <<current, tasks, used, objs, fatal>>

\* A call that touches nothing modelled here (yield, gettid, waittid, ...).
OtherSyscall(t) ==
  /\ Trapped(t)
  /\ EndSyscall(t, <<>>, "suspend")
  /\ UNCHANGED objs

\* exit, or an unsupported call.
Exit(t) ==
  /\ Trapped(t)
  /\ EndSyscall(t, <<>>, "exit")
  /\ UNCHANGED objs

\* A trap that is no system call; signals are not looked at.
Fault(t) ==
  /\ Trapped(t)
  /\ current' = None
  /\ tasks' = tasks \ {t}
  /\ UNCHANGED <<ready, used, objs, fatal, machine>>

\* kill of the own process with a signal that kills.
KillSelf(t) ==
  /\ Trapped(t)
  /\ Finish(t, tasks, <<>>, "suspend", TRUE)
  /\ UNCHANGED <<used, objs, machine>>

\* The same call by a thread of another process, between two traps here.
KillByOther ==
  /\ machine = "running" /\ current = None
  /\ tasks # {}
  /\ ~fatal
  /\ fatal' = TRUE
  /\ UNCHANGED <<sched, objs, machine>>

ThreadCreate(t, new) ==
  /\ Trapped(t)
  /\ new \in Threads \ used
  /\ Finish(t, tasks \cup {new}, <<new>>, "suspend", fatal)
  /\ used' = used \cup {new}
  /\ UNCHANGED <<objs, machine>>

----------------------------------------------------------------------------
\* Mutex system calls.

MutexCreate(t, m) ==
  /\ Trapped(t)
  /\ FreeSlot(MutexIds, mutexes, m)
  /\ mutexes' = Put(mutexes, m, MutexNew)
  /\ owner' = [owner EXCEPT ![m] = None]
  /\ EndSyscall(t, <<>>, "suspend")
  /\ UNCHANGED <<sems, condvars, detect, holder>>

\* Mistaken: the caller is recorded instead of the thread it woke.
SetOwnerCaller(m, t) == [owner EXCEPT ![m] = current]

\* mutex_owners[m] = t
SetOwner(m, t) == [owner EXCEPT ![m] = t]

Relock(t, m) == detect /\ owner[m] = t

\* Deadlock detection refuses the call with -0xDEAD.
MutexLockRefused(t, m) ==
  /\ Trapped(t)
  /\ m \in DOMAIN mutexes
  /\ Relock(t, m)
  /\ EndSyscall(t, <<>>, "suspend")
  /\ UNCHANGED objs

MutexLock(t, m) ==
  /\ Trapped(t)
  /\ m \in DOMAIN mutexes
  /\ ~Relock(t, m)
  /\ mutexes' = [mutexes EXCEPT ![m] = Lock(@, t)]
  /\ IF LockGrants(mutexes[m])
     THEN /\ owner' = SetOwner(m, t)
          /\ holder' = [holder EXCEPT ![m] = t]
          /\ EndSyscall(t, <<>>, "suspend")
     ELSE /\ UNCHANGED <<owner, holder>>
          /\ EndSyscall(t, <<>>, "block")
  /\ UNCHANGED <<sems, condvars, detect>>

\* Mistaken: the Option is stored in place of the thread in it.
ReceiverWrapped(woken) == woken

Receiver(woken) == IF woken = <<>> THEN None ELSE Head(woken)

\* Any thread may unlock: the kernel does not ask who holds the mutex.
MutexUnlock(t, m) ==
  /\ Trapped(t)
  /\ m \in DOMAIN mutexes
  /\ UnlockLegal(mutexes[m])
  /\ LET woken == UnlockWakes(mutexes[m])
     IN /\ owner' = SetOwner(m, Receiver(woken))
        /\ holder' = [holder EXCEPT ![m] = Receiver(woken)]
        /\ EndSyscall(t, woken, "suspend")
  /\ mutexes' = [mutexes EXCEPT ![m] = Unlock(@)]
  /\ UNCHANGED <<sems, condvars, detect>>

EnableDeadlockDetect(t, on) ==
  /\ Trapped(t)
  /\ detect' = on
  /\ EndSyscall(t, <<>>, "suspend")
  /\ UNCHANGED <<mutexes, owner, sems, condvars, holder>>

----------------------------------------------------------------------------
\* Semaphore system calls.

SemaphoreCreate(t, s, res_count) ==
  /\ Trapped(t)
  /\ FreeSlot(SemIds, sems, s)
  /\ sems' = Put(sems, s, SemaphoreNew(res_count))
  /\ EndSyscall(t, <<>>, "suspend")
  /\ UNCHANGED <<mutexes, owner, condvars, detect, holder>>

SemaphoreUp(t, s) ==
  /\ Trapped(t)
  /\ s \in DOMAIN sems
  /\ sems[s].count < MaxCount
  /\ sems' = [sems EXCEPT ![s] = Up(@)]
  /\ EndSyscall(t, UpWakes(sems[s]), "suspend")
  /\ UNCHANGED <<mutexes, owner, condvars, detect, holder>>

SemaphoreDown(t, s) ==
  /\ Trapped(t)
  /\ s \in DOMAIN sems
  /\ sems' = [sems EXCEPT ![s] = Down(@, t)]
  /\ EndSyscall(t, <<>>, IF DownGrants(sems[s]) THEN "suspend" ELSE "block")
  /\ UNCHANGED <<mutexes, owner, condvars, detect, holder>>

----------------------------------------------------------------------------
\* Condition variable system calls.

CondvarCreate(t, c) ==
  /\ Trapped(t)
  /\ FreeSlot(CondvarIds, condvars, c)
  /\ condvars' = Put(condvars, c, CondvarNew)
  /\ EndSyscall(t, <<>>, "suspend")
  /\ UNCHANGED <<mutexes, owner, sems, detect, holder>>

CondvarSignal(t, c) ==
  /\ Trapped(t)
  /\ c \in DOMAIN condvars
  /\ condvars' = [condvars EXCEPT ![c] = Signal(@)]
  /\ EndSyscall(t, SignalWakes(condvars[c]), "suspend")
  /\ UNCHANGED <<mutexes, owner, sems, detect, holder>>

\* The mutex passes to its first waiter; mutex_owners is not updated.
CondvarWait(t, c, m) ==
  /\ Trapped(t)
  /\ c \in DOMAIN condvars
  /\ m \in DOMAIN mutexes
  /\ WaitLegal(mutexes[m])
  /\ mutexes' = [mutexes EXCEPT ![m] = WaitMutex(@, t)]
  /\ holder' = [holder EXCEPT ![m] = Receiver(WaitWakes(mutexes[m]))]
  /\ EndSyscall(t, WaitWakes(mutexes[m]),
                IF WaitGrants(mutexes[m]) THEN "suspend" ELSE "block")
  /\ UNCHANGED <<owner, sems, condvars, detect>>

----------------------------------------------------------------------------
\* Panics: an assertion or an unwrap of these calls fails.

\* A handle that names no object, or a spinning mutex, which is stored as None.
BadHandle(t) == Trapped(t) /\ Panic

UnlockUnlocked(t, m) ==
  /\ Trapped(t)
  /\ m \in DOMAIN mutexes /\ ~UnlockLegal(mutexes[m])
  /\ Panic

WaitWithoutWaiter(t, c, m) ==
  /\ Trapped(t)
  /\ c \in DOMAIN condvars
  /\ m \in DOMAIN mutexes /\ ~WaitLegal(mutexes[m])
  /\ Panic

Halted == machine # "running" /\ UNCHANGED vars

----------------------------------------------------------------------------
ThreadStep(t) ==
  \/ OtherSyscall(t) \/ Exit(t) \/ Fault(t)
  \/ \E new \in Threads : ThreadCreate(t, new)
  \/ \E m \in MutexIds :
       \/ MutexCreate(t, m) \/ MutexLockRefused(t, m)
       \/ MutexLock(t, m) \/ MutexUnlock(t, m) \/ UnlockUnlocked(t, m)
  \/ \E on \in BOOLEAN : EnableDeadlockDetect(t, on)
  \/ \E s \in SemIds :
       \/ \E res_count \in ResCounts : SemaphoreCreate(t, s, res_count)
       \/ SemaphoreUp(t, s) \/ SemaphoreDown(t, s)
  \/ \E c \in CondvarIds :
       \/ CondvarCreate(t, c) \/ CondvarSignal(t, c)
       \/ \E m \in MutexIds : CondvarWait(t, c, m) \/ WaitWithoutWaiter(t, c, m)
  \/ BadHandle(t)

SignalStep == KillByOther \/ \E t \in Threads : KillSelf(t)

Next ==
  \/ FindNext \/ NoTask
  \/ \E t \in Threads : ThreadStep(t)
  \/ SignalStep \/ Halted

Spec == Init /\ [][Next]_vars

\* A step of a well-behaved process, whose threads release only mutexes they
\* hold: the kernel itself lets any thread unlock, or wait with, any locked mutex.
ReleasedByHolder ==
  \A m \in MutexIds :
    holder'[m] # holder[m] /\ holder[m] # None => holder[m] = current

----------------------------------------------------------------------------
\* Properties.

\* Every queue the kernel can record a thread in; `current` is one of length one.
Current == <<"current", 0>>
Ready == <<"ready", 0>>
Labels ==
  {Current, Ready} \cup ({"mutex"} \X MutexIds) \cup ({"sem"} \X SemIds)
    \cup ({"condvar"} \X CondvarIds)

QueueAt(l) ==
  CASE l = Current -> IF current = None THEN <<>> ELSE <<current>>
    [] l = Ready -> ready
    [] l[1] = "mutex" /\ l[2] \in DOMAIN mutexes -> mutexes[l[2]].wait_queue
    [] l[1] = "sem" /\ l[2] \in DOMAIN sems -> sems[l[2]].wait_queue
    [] l[1] = "condvar" /\ l[2] \in DOMAIN condvars -> condvars[l[2]]
    [] OTHER -> <<>>

Queues == [l \in Labels |-> QueueAt(l)]

\* No thread is lost and none is scheduled twice: a live thread is running, or
\* ready, or in one wait queue, and no thread id is recorded at two positions.
\* (make_current_suspend, make_current_blocked, re_enque against the queues of
\* the synchronization objects.)
OnePlace == tasks \subseteq Items(Queues) /\ Unique(Queues)

\* The comment of semaphore.rs: a negative count is the number of waiters, and
\* nobody waits while units are left.
SemaphoreCounts ==
  \A s \in DOMAIN sems :
    Len(sems[s].wait_queue) = IF sems[s].count < 0 THEN -sems[s].count ELSE 0

\* A free mutex has no waiter: no unlock lost a wake-up.
FreeMutexHasNoWaiter ==
  \A m \in DOMAIN mutexes :
    ~mutexes[m].locked => mutexes[m].wait_queue = <<>> /\ holder[m] = None

\* mutex_owners errs towards a thread that waits for that mutex, or not at all.
OwnerHoldsOrWaits ==
  \A m \in DOMAIN mutexes :
    owner[m] # None =>
      owner[m] = holder[m] \/ owner[m] \in Members(mutexes[m].wait_queue)

\* Then deadlock detection has no false positive: a running thread, which waits
\* for nothing, is named as the owner only of a mutex that it holds.
NoFalseDeadlock ==
  \A m \in DOMAIN mutexes : owner[m] # None /\ owner[m] = current => holder[m] = current

\* Every mutex and every semaphore is a BlockingResource.
MutexResource == INSTANCE BlockingResource WITH
  Ids     <- MutexIds,
  made    <- DOMAIN mutexes,
  free    <- [m \in MutexIds |->
                IF m \in DOMAIN mutexes /\ ~mutexes[m].locked THEN 1 ELSE 0],
  waiters <- [m \in MutexIds |->
                IF m \in DOMAIN mutexes THEN Members(mutexes[m].wait_queue) ELSE {}]

SemResource == INSTANCE BlockingResource WITH
  Ids     <- SemIds,
  made    <- DOMAIN sems,
  free    <- [s \in SemIds |->
                IF s \in DOMAIN sems /\ sems[s].count > 0 THEN sems[s].count ELSE 0],
  waiters <- [s \in SemIds |->
                IF s \in DOMAIN sems THEN Members(sems[s].wait_queue) ELSE {}]

\* MutexBlocking keeps the promise: a released mutex goes to a waiter if there
\* is one, and a thread waits only while the mutex is taken.
MutexesImplement == MutexResource!Spec

\* Semaphore keeps it too, with its signed count.
SemaphoresImplement == SemResource!Spec

\* A queue comes to hold a dead thread only when a kill is taken in the very trap
\* that queued the thread: no other end leaves an id behind for find_next to stop
\* the machine at.
Stale == Items(Queues) \ tasks

StaleByKill == Stale' \subseteq Stale \/ (Stale' = Stale \cup {current} /\ fatal)

StaleOnlyByKill == [][StaleByKill]_vars

\* A thread leaves a wait queue only as the first in it, and with what it waited
\* for: as holder of the mutex, or with a unit given back to the semaphore.
MutexGrants ==
  \A m \in DOMAIN mutexes : \A t \in Threads :
    t \in Members(mutexes[m].wait_queue) /\ t \notin Members(mutexes'[m].wait_queue)
      => t = Head(mutexes[m].wait_queue) /\ holder'[m] = t /\ t \in Members(ready')

SemaphoreGrants ==
  \A s \in DOMAIN sems : \A t \in Threads :
    t \in Members(sems[s].wait_queue) /\ t \notin Members(sems'[s].wait_queue)
      => /\ t = Head(sems[s].wait_queue) /\ t \in Members(ready')
         /\ sems'[s].count = sems[s].count + 1

WokenWithGrant == [][MutexGrants /\ SemaphoreGrants]_vars

----------------------------------------------------------------------------
\* What comments and documents of the repository say, and the code does not do.

\* main.rs prints "no task" and powers off: then no thread could run.
ShutdownOnlyWhenIdle == machine = "shutdown" => ready = <<>>
=============================================================================
