------------------------------- MODULE Programs --------------------------------
(***************************************************************************)
(* The test programs of ProgramScripts run by the kernel of SyncKernel.    *)
(* Threads are named by their place: 0 is main, k the k-th created.        *)
(***************************************************************************)
EXTENDS SyncKernel, ProgramScripts
LOCAL INSTANCE SequencesExt
LOCAL INSTANCE FiniteSetsExt

CONSTANTS Running     \* the names of the programs to run

ASSUME ThreadsAssumption == 0 \in Threads /\ Threads \subseteq Nat

VARIABLES program,
          pc,     \* the next step of each thread, 0 in its panic handler
          code,   \* exit codes
          mem     \* the static variables of the programs

programVars == <<program, pc, code, mem>>
allVars == <<vars, programVars>>

Scripts == [name \in Running |-> ScriptsOf(name)]

\* The panic handler of the user library exits with 1.
Step(t) == IF pc[t] = 0 THEN ReturnWith(1) ELSE Scripts[program][t][pc[t]]

\* Thread t is the one on the hart, and its next step is `op`.
At(t, op) == Trapped(t) /\ Step(t)[1] = op

Goto(t, n) == pc' = [pc EXCEPT ![t] = n]
Advance(t) == Goto(t, pc[t] + 1)

MemInit == [A |-> 0, buffer |-> [i \in 0 .. BUFFER_SIZE - 1 |-> None], FRONT |-> 0, TAIL |-> 0,
            seen |-> None, locked |-> FALSE, put |-> <<>>, got |-> <<>>, failed |-> 0]

ProgramInit ==
  /\ Init /\ ready = <<0>>
  /\ program \in Running
  /\ pc = [t \in Threads |-> 1]
  /\ code = [t \in Threads |-> None]
  /\ mem = MemInit

----------------------------------------------------------------------------
\* User code between two calls.

\* `put` and `got` are history: the items in the order in which they came in
\* and went out.
Effect(effect) ==
  LET x == effect[1]
  IN CASE x = "add"  -> [mem EXCEPT !.A = @ + 1]
       [] x = "reset" -> [mem EXCEPT !.A = 0]
       [] x = "take" -> [mem EXCEPT !.locked = TRUE]
       [] x = "free" -> [mem EXCEPT !.locked = FALSE]
       [] x = "put"  -> [mem EXCEPT !.buffer[mem.FRONT] = effect[2],
                                    !.FRONT = (@ + 1) % BUFFER_SIZE,
                                    !.put = Append(@, effect[2])]
       [] x = "look" -> [mem EXCEPT !.seen = mem.buffer[mem.TAIL]]
       [] x = "get"  -> [mem EXCEPT !.TAIL = (@ + 1) % BUFFER_SIZE,
                                    !.got = Append(@, mem.seen)]

\* A spinning lock that is taken keeps the hart: "take" has to find it free.
Compute(t) ==
  /\ At(t, "do")
  /\ Step(t)[2][1] = "take" => ~mem.locked
  /\ mem' = Effect(Step(t)[2])
  /\ Advance(t)
  /\ UNCHANGED <<vars, program, code>>

\* The sleeping lock of sync_experiment.rs yields instead.
TakeLock(t) ==
  /\ At(t, "take_or_sleep")
  /\ ~mem.locked
  /\ mem' = Effect(<<"take">>)
  /\ Advance(t)
  /\ UNCHANGED <<vars, program, code>>

Holds(check) ==
  CASE check = "sum" -> mem.A = PER_THREAD * THREAD_COUNT
    [] check = "some failed" -> mem.failed > 0
    [] check = "none failed" -> mem.failed = 0

\* assert!: a failing one calls the panic handler.
Check(t) ==
  /\ At(t, "assert")
  /\ IF Holds(Step(t)[2]) THEN Advance(t) ELSE Goto(t, 0)
  /\ UNCHANGED <<vars, program, code, mem>>

Branch(t) ==
  /\ \/ At(t, "goto") /\ Goto(t, Step(t)[2])
     \/ At(t, "unless_zero") /\ Goto(t, IF mem.A = 0 THEN pc[t] + 1 ELSE Step(t)[2])
  /\ UNCHANGED <<vars, program, code, mem>>

----------------------------------------------------------------------------
\* System calls.

\* Calls that only yield: at least one.
Yield(t) ==
  /\ At(t, "yield") \/ At(t, "sleep") \/ (At(t, "take_or_sleep") /\ mem.locked)
  /\ OtherSyscall(t)
  /\ UNCHANGED programVars

\* A long sleep outlasts the creation of all threads: the first wait of main.
Started == Step(0)[1] # "mutex_create" /\ Step(0)[1] # "thread_create"

YieldLast(t) ==
  /\ At(t, "yield") \/ (At(t, "sleep") /\ Started)
  /\ OtherSyscall(t)
  /\ Advance(t)
  /\ UNCHANGED <<program, code, mem>>

\* Thread ids are handed out in order.
Create(t) ==
  /\ At(t, "thread_create")
  /\ ThreadCreate(t, Min(Threads \ used))
  /\ Advance(t)
  /\ UNCHANGED <<program, code, mem>>

\* waittid of the user library: while the thread runs, yield and ask again.
Wait(t) ==
  /\ At(t, "waittid")
  /\ OtherSyscall(t)
  /\ IF Step(t)[2] \in tasks
     THEN UNCHANGED <<pc, mem>>
     ELSE /\ Advance(t)
          /\ mem' = [mem EXCEPT !.failed = @ + (IF code[Step(t)[2]] = 0 THEN 0 ELSE 1)]
  /\ UNCHANGED <<program, code>>

\* What the call answers in a0, against what the program accepts: a thread that
\* was blocked finds -1 there when it runs again.
Accept(t, answer) == IF answer \in Step(t)[3] THEN Advance(t) ELSE Goto(t, 0)

LockMutex(t) ==
  /\ At(t, "mutex_lock")
  /\ LET m == Step(t)[2]
     IN \/ MutexLockRefused(t, m) /\ Accept(t, DEADLOCK)
        \/ MutexLock(t, m) /\ Accept(t, IF LockGrants(mutexes[m]) THEN 0 ELSE -1)
  /\ UNCHANGED <<program, code, mem>>

DownSemaphore(t) ==
  /\ At(t, "semaphore_down")
  /\ LET s == Step(t)[2]
     IN SemaphoreDown(t, s) /\ Accept(t, IF DownGrants(sems[s]) THEN 0 ELSE -1)
  /\ UNCHANGED <<program, code, mem>>

\* A call that panics the kernel leaves the thread where it is.
PlainCall(t) ==
  /\ \/ At(t, "mutex_create") /\ MutexCreate(t, Step(t)[2])
     \/ At(t, "mutex_unlock") /\ MutexUnlock(t, Step(t)[2])
     \/ At(t, "semaphore_create") /\ SemaphoreCreate(t, Step(t)[2], Step(t)[3])
     \/ At(t, "semaphore_up") /\ SemaphoreUp(t, Step(t)[2])
     \/ At(t, "condvar_create") /\ CondvarCreate(t, Step(t)[2])
     \/ At(t, "condvar_signal") /\ CondvarSignal(t, Step(t)[2])
     \/ At(t, "condvar_wait") /\ CondvarWait(t, Step(t)[2], Step(t)[3])
     \/ At(t, "enable_deadlock_detect") /\ EnableDeadlockDetect(t, TRUE)
  /\ Advance(t)
  /\ UNCHANGED <<program, code, mem>>

KernelPanics(t) ==
  /\ At(t, "condvar_wait") /\ WaitWithoutWaiter(t, Step(t)[2], Step(t)[3])
  /\ UNCHANGED programVars

ExitWith(t) ==
  /\ At(t, "exit")
  /\ Exit(t)
  /\ code' = [code EXCEPT ![t] = Step(t)[2]]
  /\ UNCHANGED <<program, pc, mem>>

ProgramStep(t) ==
  \/ Compute(t) \/ TakeLock(t) \/ Check(t) \/ Branch(t)
  \/ Yield(t) \/ YieldLast(t) \/ Create(t) \/ Wait(t)
  \/ LockMutex(t) \/ DownSemaphore(t) \/ PlainCall(t) \/ KernelPanics(t) \/ ExitWith(t)

Schedule == (FindNext \/ NoTask \/ Halted) /\ UNCHANGED programVars

ProgramNext == Schedule \/ \E t \in Threads : ProgramStep(t)

\* The loop runs, threads take their steps, and a clock that is asked again and
\* again ends every sleep.
ProgramSpec ==
  /\ ProgramInit
  /\ [][ProgramNext]_allVars
  /\ WF_allVars(Schedule)
  /\ \A t \in Threads : WF_allVars(ProgramStep(t)) /\ SF_allVars(YieldLast(t))

----------------------------------------------------------------------------
\* Properties.


\* The bounded buffer is a queue: items go out in the order in which they came
\* in, none overwritten and none invented, however producers and the printing
\* consumer interleave.
BufferIsFifo ==
  /\ IsPrefix(mem.got, mem.put)
  /\ Len(mem.put) - Len(mem.got) <= BUFFER_SIZE
=============================================================================
