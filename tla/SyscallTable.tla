------------------------------ MODULE SyscallTable ------------------------------
(***************************************************************************)
(* The two sides of a system call: which registers the functions of the    *)
(* user library load (user.rs), and which trait, method and parameters the *)
(* kernel's dispatcher gives them to (kernel/mod.rs).  An argument is      *)
(* named for what it is.                                                   *)
(***************************************************************************)
EXTENDS Sequences

LOCAL C(id, args) == [id |-> id, args |-> args]

\* The constants among the arguments.
AT_FDCWD == "-100"
ANY_CHILD == "-1"
ZERO == "0"

----------------------------------------------------------------------------
\* The user library: every function is one syscallN, N the number of arguments.

FileWrappers ==
  [write  |-> C("WRITE", <<"fd", "buf", "count">>),
   read   |-> C("READ", <<"fd", "buf", "count">>),
   open   |-> C("OPENAT", <<"path", "flags">>),
   close  |-> C("CLOSE", <<"fd">>),
   link   |-> C("LINKAT", <<AT_FDCWD, "oldpath", AT_FDCWD, "newpath", ZERO>>),
   unlink |-> C("UNLINKAT", <<AT_FDCWD, "path", ZERO>>),
   fstat  |-> C("FSTAT", <<"fd", "st">>),
   pipe   |-> C("PIPE2", <<"pipe">>)]

\* wait and waitpid ask again after a sched_yield while the answer is -2.
ProcessWrappers ==
  [exit          |-> C("EXIT", <<"status">>),
   sched_yield   |-> C("SCHED_YIELD", <<>>),
   clock_gettime |-> C("CLOCK_GETTIME", <<"clock_id", "tp">>),
   fork          |-> C("CLONE", <<>>),
   exec          |-> C("EXECVE", <<"path", "count">>),
   wait          |-> C("WAIT4", <<ANY_CHILD, "exit_code_ptr">>),
   waitpid       |-> C("WAIT4", <<"pid", "exit_code_ptr">>),
   getpid        |-> C("GETPID", <<>>),
   spawn         |-> C("SPAWN", <<"path", "count">>),
   set_priority  |-> C("SETPRIORITY", <<"prio">>),
   sbrk          |-> C("BRK", <<"size">>)]

SignalWrappers ==
  [kill        |-> C("KILL", <<"pid", "signum">>),
   sigaction   |-> C("RT_SIGACTION", <<"signum", "action", "old_action">>),
   sigprocmask |-> C("RT_SIGPROCMASK", <<"mask">>),
   sigreturn   |-> C("RT_SIGRETURN", <<>>)]

ThreadWrappers ==
  [thread_create          |-> C("THREAD_CREATE", <<"entry", "arg">>),
   gettid                 |-> C("GETTID", <<>>),
   waittid                |-> C("WAITID", <<"tid">>),
   semaphore_create       |-> C("SEMAPHORE_CREATE", <<"res_count">>),
   semaphore_up           |-> C("SEMAPHORE_UP", <<"sem_id">>),
   semaphore_down         |-> C("SEMAPHORE_DOWN", <<"sem_id">>),
   mutex_create           |-> C("MUTEX_CREATE", <<"blocking">>),
   mutex_lock             |-> C("MUTEX_LOCK", <<"mutex_id">>),
   mutex_unlock           |-> C("MUTEX_UNLOCK", <<"mutex_id">>),
   condvar_create         |-> C("CONDVAR_CREATE", <<ZERO>>),
   condvar_signal         |-> C("CONDVAR_SIGNAL", <<"condvar_id">>),
   condvar_wait           |-> C("CONDVAR_WAIT", <<"condvar_id", "mutex_id">>),
   enable_deadlock_detect |-> C("ENABLE_DEADLOCK_DETECT", <<"is_enable">>)]

MemoryWrappers ==
  [trace  |-> C("TRACE", <<"trace_request", "id", "data">>),
   mmap   |-> C("MMAP", <<"addr", "length", "prot", ZERO, ZERO, ZERO>>),
   munmap |-> C("MUNMAP", <<"addr", "length">>)]

\* native::syscallN is public: a program may make a call of a number of its own.
NativeWrappers == [native |-> C("CUSTOM", <<>>)]

LOCAL Or(f, g) == [c \in DOMAIN f \cup DOMAIN g |-> IF c \in DOMAIN f THEN f[c] ELSE g[c]]

Wrappers ==
  Or(FileWrappers, Or(ProcessWrappers, Or(SignalWrappers,
     Or(ThreadWrappers, Or(MemoryWrappers, NativeWrappers)))))

Calls == DOMAIN Wrappers

----------------------------------------------------------------------------
\* The kernel's traits: the parameters of every method after `caller`.

IO ==
  [read |-> <<"fd", "buf", "count">>, write |-> <<"fd", "buf", "count">>,
   open |-> <<"path", "flags">>, close |-> <<"fd">>,
   linkat |-> <<"olddirfd", "oldpath", "newdirfd", "newpath", "flags">>,
   pipe |-> <<"pipe">>, unlinkat |-> <<"dirfd", "path", "flags">>, fstat |-> <<"fd", "st">>]

PROCESS ==
  [exit |-> <<"status">>, fork |-> <<>>, exec |-> <<"path", "count">>,
   wait |-> <<"pid", "exit_code_ptr">>, getpid |-> <<>>, spawn |-> <<"path", "count">>,
   sbrk |-> <<"size">>]

MEMORY ==
  [mmap |-> <<"addr", "length", "prot", "flags", "fd", "offset">>, munmap |-> <<"addr", "length">>]

SCHEDULING == [sched_yield |-> <<>>, set_priority |-> <<"prio">>]

CLOCK == [clock_gettime |-> <<"clock_id", "tp">>]

SIGNAL ==
  [kill |-> <<"pid", "signum">>, sigaction |-> <<"signum", "action", "old_action">>,
   sigprocmask |-> <<"mask">>, sigreturn |-> <<>>]

THREAD == [thread_create |-> <<"entry", "arg">>, waittid |-> <<"tid">>, gettid |-> <<>>]

\* Mistaken: condvar_wait with its parameters exchanged.
SYNC_MUTEX_Swapped ==
  [semaphore_create |-> <<"res_count">>, semaphore_up |-> <<"sem_id">>,
   semaphore_down |-> <<"sem_id">>, mutex_create |-> <<"blocking">>,
   mutex_lock |-> <<"mutex_id">>, mutex_unlock |-> <<"mutex_id">>, condvar_create |-> <<"arg">>,
   condvar_signal |-> <<"condvar_id">>, condvar_wait |-> <<"mutex_id", "condvar_id">>,
   enable_deadlock_detect |-> <<"is_enable">>]

SYNC_MUTEX ==
  [semaphore_create |-> <<"res_count">>, semaphore_up |-> <<"sem_id">>,
   semaphore_down |-> <<"sem_id">>, mutex_create |-> <<"blocking">>,
   mutex_lock |-> <<"mutex_id">>, mutex_unlock |-> <<"mutex_id">>, condvar_create |-> <<"arg">>,
   condvar_signal |-> <<"condvar_id">>, condvar_wait |-> <<"condvar_id", "mutex_id">>,
   enable_deadlock_detect |-> <<"is_enable">>]

TRACE == [trace |-> <<"trace_request", "id", "data">>]

Traits ==
  [IO |-> IO, PROCESS |-> PROCESS, MEMORY |-> MEMORY, SCHEDULING |-> SCHEDULING, CLOCK |-> CLOCK,
   SIGNAL |-> SIGNAL, THREAD |-> THREAD, SYNC_MUTEX |-> SYNC_MUTEX, TRACE |-> TRACE]

\* The `match id` of handle: the method of each number.
Handlers ==
  [WRITE |-> <<"IO", "write">>, READ |-> <<"IO", "read">>, OPENAT |-> <<"IO", "open">>,
   CLOSE |-> <<"IO", "close">>, LINKAT |-> <<"IO", "linkat">>, UNLINKAT |-> <<"IO", "unlinkat">>,
   FSTAT |-> <<"IO", "fstat">>, EXIT |-> <<"PROCESS", "exit">>, CLONE |-> <<"PROCESS", "fork">>,
   EXECVE |-> <<"PROCESS", "exec">>, WAIT4 |-> <<"PROCESS", "wait">>,
   GETPID |-> <<"PROCESS", "getpid">>, CLOCK_GETTIME |-> <<"CLOCK", "clock_gettime">>,
   SCHED_YIELD |-> <<"SCHEDULING", "sched_yield">>, MUNMAP |-> <<"MEMORY", "munmap">>,
   MMAP |-> <<"MEMORY", "mmap">>, KILL |-> <<"SIGNAL", "kill">>,
   RT_SIGACTION |-> <<"SIGNAL", "sigaction">>, RT_SIGPROCMASK |-> <<"SIGNAL", "sigprocmask">>,
   RT_SIGRETURN |-> <<"SIGNAL", "sigreturn">>, WAITID |-> <<"THREAD", "waittid">>,
   GETTID |-> <<"THREAD", "gettid">>, THREAD_CREATE |-> <<"THREAD", "thread_create">>,
   SEMAPHORE_CREATE |-> <<"SYNC_MUTEX", "semaphore_create">>,
   SEMAPHORE_UP |-> <<"SYNC_MUTEX", "semaphore_up">>,
   SEMAPHORE_DOWN |-> <<"SYNC_MUTEX", "semaphore_down">>,
   MUTEX_CREATE |-> <<"SYNC_MUTEX", "mutex_create">>,
   MUTEX_LOCK |-> <<"SYNC_MUTEX", "mutex_lock">>,
   MUTEX_UNLOCK |-> <<"SYNC_MUTEX", "mutex_unlock">>,
   CONDVAR_CREATE |-> <<"SYNC_MUTEX", "condvar_create">>,
   CONDVAR_SIGNAL |-> <<"SYNC_MUTEX", "condvar_signal">>,
   CONDVAR_WAIT |-> <<"SYNC_MUTEX", "condvar_wait">>,
   ENABLE_DEADLOCK_DETECT |-> <<"SYNC_MUTEX", "enable_deadlock_detect">>,
   TRACE |-> <<"TRACE", "trace">>, SPAWN |-> <<"PROCESS", "spawn">>,
   SETPRIORITY |-> <<"SCHEDULING", "set_priority">>, BRK |-> <<"PROCESS", "sbrk">>,
   PIPE2 |-> <<"IO", "pipe">>]

\* handle gives args[0], args[1], ... to the parameters in their order.
Dispatch(id, args) ==
  LET h == Handlers[id]
      params == Traits[h[1]][h[2]]
  IN [trait |-> h[1], method |-> h[2],
      given |-> [i \in DOMAIN params |-> <<params[i], args[i]>>]]

\* The containers that chapter 8's kernel fills, and the methods it writes: the
\* others keep their default body, unimplemented!().
Initialised == {"IO", "PROCESS", "SCHEDULING", "CLOCK", "SIGNAL", "THREAD", "SYNC_MUTEX"}

Written ==
  {"write", "read", "open", "close", "pipe", "exit", "fork", "exec", "wait", "getpid",
   "sched_yield", "clock_gettime", "kill", "sigaction", "sigprocmask", "sigreturn",
   "thread_create", "gettid", "waittid"} \cup DOMAIN SYNC_MUTEX
=============================================================================
