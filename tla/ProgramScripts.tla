---------------------------- MODULE ProgramScripts -----------------------------
(***************************************************************************)
(* The test programs of the user crates for threads and synchronization.   *)
(* A program is a script for each of its threads: system calls, and steps  *)
(* of user code between two calls, which nothing interrupts.               *)
(***************************************************************************)
EXTENDS Integers, Sequences
LOCAL INSTANCE TLC
LOCAL INSTANCE SequencesExt
LOCAL INSTANCE FiniteSetsExt

CONSTANTS FirstTid,       \* the last tid handed out before main creates threads
          N, ROUND,                                          \* phil_din_mutex.rs
          BUFFER_SIZE, PRODUCER_COUNT, NUMBER_PER_PRODUCER,  \* mpsc_sem.rs
          PER_THREAD, THREAD_COUNT                           \* race_adder_mutex_blocking.rs

ASSUME SizesAssumption ==
  {FirstTid, ROUND, NUMBER_PER_PRODUCER, PER_THREAD, THREAD_COUNT} \subseteq Nat
    /\ {BUFFER_SIZE, PRODUCER_COUNT} \subseteq Nat \ {0} /\ N \in Nat \ {0, 1}

DEADLOCK == -57005     \* -0xdead

----------------------------------------------------------------------------
\* Steps of scripts.

\* sleep, print and other calls that only yield, some of them repeatedly.
Sleep == <<"yield">>
Call == <<"yield">>
\* A sleep that is longer than main takes to create its threads.
LongSleep == <<"sleep">>

MutexNew0(m) == <<"mutex_create", m>>
SemNew(s, n) == <<"semaphore_create", s, n>>
LockM(m) == <<"mutex_lock", m, {0, -1}>>
UnlockM(m) == <<"mutex_unlock", m>>
DownS(s) == <<"semaphore_down", s, {0, -1}>>
UpS(s) == <<"semaphore_up", s>>
Do(effect) == <<"do", effect>>
ReturnWith(c) == <<"exit", c>>

Times(n, script) == FlattenSeq([i \in 1 .. n |-> script])
Each(n, StepsOf(_)) == FlattenSeq([i \in 1 .. n |-> StepsOf(i)])
Creates(n) == Times(n, << <<"thread_create">> >>)
Joins(n) == Each(n, LAMBDA k : << <<"waittid", k>> >>)

----------------------------------------------------------------------------
\* phil_din_mutex.rs

PhilMain ==
  Each(N, LAMBDA i : <<MutexNew0(i - 1), <<"thread_create">>>>)
    \o Joins(N) \o <<Call, ReturnWith(0)>>

Forks(id) == {id, (id + 1) % N}


Philosopher(id) ==
  LET min == Min(Forks(id))
      max == Max(Forks(id))
  IN Times(ROUND, <<LongSleep, LockM(min), LockM(max), Sleep, UnlockM(max), UnlockM(min)>>)
       \o <<ReturnWith(0)>>

----------------------------------------------------------------------------
\* mpsc_sem.rs

SEM_MUTEX == 0
SEM_EMPTY == 1
SEM_EXISTED == 2

MpscMain ==
  <<SemNew(SEM_MUTEX, 1), SemNew(SEM_EMPTY, BUFFER_SIZE), SemNew(SEM_EXISTED, 0)>>
    \o Creates(PRODUCER_COUNT + 1) \o Joins(PRODUCER_COUNT + 1) \o <<ReturnWith(0)>>

\* Mistaken: the producer does not wait for an empty slot.
ProducerUnbounded(id) ==
  Times(NUMBER_PER_PRODUCER,
        <<DownS(SEM_MUTEX), Do(<<"put", id>>), UpS(SEM_MUTEX), UpS(SEM_EXISTED)>>)
    \o <<ReturnWith(0)>>

Producer(id) ==
  Times(NUMBER_PER_PRODUCER,
        <<DownS(SEM_EMPTY), DownS(SEM_MUTEX), Do(<<"put", id>>),
          UpS(SEM_MUTEX), UpS(SEM_EXISTED)>>)
    \o <<ReturnWith(0)>>

Consumer ==
  Times(PRODUCER_COUNT * NUMBER_PER_PRODUCER,
        <<DownS(SEM_EXISTED), DownS(SEM_MUTEX), Do(<<"look">>), Call, Do(<<"get">>),
          UpS(SEM_MUTEX), UpS(SEM_EMPTY)>>)
    \o <<Call, ReturnWith(0)>>

----------------------------------------------------------------------------
\* race_adder_mutex_blocking.rs

AdderMain ==
  <<Call, MutexNew0(0)>> \o Creates(THREAD_COUNT) \o Joins(THREAD_COUNT)
    \o <<Call, <<"assert", "sum">>, ReturnWith(0)>>

Adder == Times(PER_THREAD, <<LockM(0), Do(<<"add">>), UnlockM(0)>>) \o <<ReturnWith(10)>>

----------------------------------------------------------------------------
\* sync_sem.rs and test_condvar.rs

SyncSemMain == <<SemNew(0, 0)>> \o Creates(2) \o Joins(2) \o <<ReturnWith(0)>>
SyncSemFirst == <<Sleep, Call, UpS(0), ReturnWith(0)>>
SyncSemSecond == <<Call, DownS(0), Call, ReturnWith(0)>>

CondvarMain ==
  << <<"condvar_create", 0>>, MutexNew0(0)>> \o Creates(2) \o Joins(2) \o <<ReturnWith(0)>>
CondvarFirst ==
  <<Sleep, Call, LockM(0), Do(<<"add">>), <<"condvar_signal", 0>>,
    UnlockM(0), ReturnWith(0)>>
\* The loop `while A == 0` goes from step 3 to step 6.
CondvarSecond ==
  <<Call, LockM(0), <<"unless_zero", 7>>, Call, <<"condvar_wait", 0, 0>>, <<"goto", 3>>,
    UnlockM(0), Call, ReturnWith(0)>>

----------------------------------------------------------------------------
\* ch8_deadlock_*.rs

DeadlockMutex1 ==
  << <<"enable_deadlock_detect">>, MutexNew0(0), <<"mutex_lock", 0, {0}>>,
     <<"mutex_lock", 0, {DEADLOCK}>>, UnlockM(0), ReturnWith(0)>>

\* Both programs: THREAD_N threads meet at semaphore 0, which main releases.
DeadlockSemMain(THREAD_N, RES_NUM, check) ==
  << <<"enable_deadlock_detect">>, SemNew(0, THREAD_N)>> \o Times(THREAD_N, <<DownS(0)>>)
    \o Each(Len(RES_NUM), LAMBDA i : <<SemNew(i, RES_NUM[i])>>)
    \o Creates(THREAD_N) \o <<Sleep>> \o Times(THREAD_N, <<UpS(0)>>)
    \o Joins(THREAD_N) \o << <<"assert", check>>, ReturnWith(0)>>

\* The thread looks its role up by tid: only 1, 2 and 3 have one.
DeadlockSem1(tid) ==
  LET alloc == (1 :> <<2>>) @@ (2 :> <<1, 2>>) @@ (3 :> <<3>>)
      request == <<1, 3, 2>>
  IN IF tid \notin DOMAIN alloc
     THEN <<Call, Call, ReturnWith(1)>>
     ELSE <<Call, Call>>
            \o [i \in DOMAIN alloc[tid] |-> <<"semaphore_down", alloc[tid][i], {0}>>]
            \o <<DownS(0), DownS(request[tid]), UpS(request[tid]), UpS(0)>>
            \o [i \in DOMAIN alloc[tid] |-> UpS(alloc[tid][i])]
            \o <<Call, ReturnWith(0)>>

DeadlockSem2(id) ==
  LET ALLOC == <<2, 1, 1, 2>>
      REQUEST == << <<1>>, <<>>, <<2>>, <<>> >>
      Try(s) == <<DownS(s), UpS(s)>>
  IN << <<"semaphore_down", ALLOC[id], {0}>>, DownS(0)>>
       \o (IF REQUEST[id] = <<>> THEN <<>> ELSE Try(REQUEST[id][1]))
       \o <<UpS(ALLOC[id]), ReturnWith(0)>>

----------------------------------------------------------------------------
\* threads.rs, threads_arg.rs, sync_experiment.rs

ThreadsMain == Creates(3) \o <<Call>> \o Joins(3) \o <<Call, ReturnWith(0)>>
ThreadsWorker(k) == <<Call, ReturnWith(k)>>

\* Two threads with each of two locks made of an atomic variable.  A spinning
\* lock never traps, so a thread that finds it taken never leaves the hart.
ExperimentMain ==
  <<Call>> \o Creates(2) \o Joins(2) \o <<Call, Do(<<"reset">>)>>
    \o Creates(2) \o Each(2, LAMBDA k : << <<"waittid", k + 2>> >>) \o <<Call, ReturnWith(0)>>
SpinWorker ==
  Times(PER_THREAD, <<Do(<<"take">>), Do(<<"add">>), Do(<<"free">>)>>) \o <<ReturnWith(0)>>
SleepingWorker ==
  Times(PER_THREAD, << <<"take_or_sleep">>, Do(<<"add">>), Do(<<"free">>)>>) \o <<ReturnWith(0)>>
----------------------------------------------------------------------------
\* The script of each thread of a program: thread 0 runs main, thread k is the
\* k-th that main creates.
ScriptsOf(name) ==
  CASE name = "phil_din_mutex" ->
         (0 :> PhilMain) @@ [k \in 1 .. N |-> Philosopher(k - 1)]
    [] name = "mpsc_sem" ->
         (0 :> MpscMain) @@ [k \in 1 .. PRODUCER_COUNT |-> Producer(k - 1)]
           @@ ((PRODUCER_COUNT + 1) :> Consumer)
    [] name = "race_adder" -> (0 :> AdderMain) @@ [k \in 1 .. THREAD_COUNT |-> Adder]
    [] name = "sync_sem" ->
         (0 :> SyncSemMain) @@ (1 :> SyncSemFirst) @@ (2 :> SyncSemSecond)
    [] name = "test_condvar" ->
         (0 :> CondvarMain) @@ (1 :> CondvarFirst) @@ (2 :> CondvarSecond)
    [] name = "deadlock_mutex1" -> (0 :> DeadlockMutex1)
    [] name = "deadlock_sem1" ->
         (0 :> DeadlockSemMain(3, <<1, 2, 1>>, "some failed"))
           @@ [k \in 1 .. 3 |-> DeadlockSem1(FirstTid + k)]
    [] name = "deadlock_sem2" ->
         (0 :> DeadlockSemMain(4, <<2, 2>>, "none failed"))
           @@ [k \in 1 .. 4 |-> DeadlockSem2(k)]
    [] name = "threads" -> (0 :> ThreadsMain) @@ [k \in 1 .. 3 |-> ThreadsWorker(k)]
    [] name = "sync_experiment" ->
         (0 :> ExperimentMain)
           @@ [k \in 1 .. 4 |-> IF k <= 2 THEN SpinWorker ELSE SleepingWorker]
=============================================================================
