--------------------------- MODULE SyncKernelProofs ----------------------------
(***************************************************************************)
(* Theorems about SyncKernel, for any set of threads and any number of     *)
(* objects.  The first part is on the objects alone.  The second shows     *)
(* that no thread is lost and none is scheduled twice; that ids of dead    *)
(* threads stay in queues only after a kill; that mutex_owners errs        *)
(* towards waiters; that who is woken has what it waited for; and that     *)
(* mutexes and semaphores are blocking resources.                          *)
(***************************************************************************)
EXTENDS OrderlyThreads, QueueFamilies, SequencesExt, SequenceTheorems, TLAPS

\* A non-empty queue is its head and its tail.
LEMMA TailMembers ==
  ASSUME NEW S, NEW q \in Seq(S), q # <<>>
  PROVE  /\ Head(q) \in S
         /\ Tail(q) \in Seq(S)
         /\ Members(q) = {Head(q)} \cup Members(Tail(q))
<1>1. Len(q) \in Nat \ {0} /\ DOMAIN q = 1..Len(q) /\ Head(q) = q[1]
  OBVIOUS
<1>2. Tail(q) \in Seq(S) /\ DOMAIN Tail(q) = 1..(Len(q) - 1)
      /\ \A i \in 1..(Len(q) - 1) : Tail(q)[i] = q[i + 1]
  OBVIOUS
<1>3. ASSUME NEW i \in DOMAIN q PROVE q[i] \in {Head(q)} \cup Members(Tail(q))
  <2>1. CASE i = 1
    BY <1>1, <2>1
  <2>2. CASE i # 1
    <3>1. i - 1 \in 1..(Len(q) - 1) /\ (i - 1) + 1 = i
      BY <1>1, <2>2
    <3>2. Tail(q)[i - 1] = q[i]
      BY <1>2, <3>1
    <3> QED BY <1>2, <3>1, <3>2 DEF Members
  <2> QED BY <2>1, <2>2
<1>4. ASSUME NEW i \in DOMAIN Tail(q) PROVE Tail(q)[i] \in Members(q)
  <2>1. i + 1 \in DOMAIN q /\ Tail(q)[i] = q[i + 1]
    BY <1>1, <1>2
  <2> QED BY <2>1 DEF Members
<1>5. Head(q) \in Members(q)
  BY <1>1 DEF Members
<1>6. Members(q) \subseteq {Head(q)} \cup Members(Tail(q))
  BY <1>3 DEF Members
<1>7. Members(Tail(q)) \subseteq Members(q)
  BY <1>4 DEF Members
<1>8. Head(q) \in S
  BY <1>1
<1> QED BY <1>2, <1>5, <1>6, <1>7, <1>8

\* Appending adds one member.
LEMMA AppendMembers ==
  ASSUME NEW S, NEW q \in Seq(S), NEW x \in S
  PROVE  Append(q, x) \in Seq(S) /\ Members(Append(q, x)) = Members(q) \cup {x}
<1>1. /\ Append(q, x) \in Seq(S) /\ DOMAIN q = 1..Len(q) /\ Len(q) \in Nat
      /\ DOMAIN Append(q, x) = 1..(Len(q) + 1)
      /\ Append(q, x)[Len(q) + 1] = x
      /\ \A i \in 1..Len(q) : Append(q, x)[i] = q[i]
  OBVIOUS
<1>2. \A i \in 1..(Len(q) + 1) : i \in 1..Len(q) \/ i = Len(q) + 1
  BY <1>1
<1>3. 1..Len(q) \subseteq 1..(Len(q) + 1) /\ Len(q) + 1 \in 1..(Len(q) + 1)
  BY <1>1
<1>4. Members(Append(q, x)) \subseteq Members(q) \cup {x}
  BY <1>1, <1>2 DEF Members
<1>5. Members(q) \subseteq Members(Append(q, x))
  BY <1>1, <1>3 DEF Members
<1>6. x \in Members(Append(q, x))
  BY <1>1, <1>3 DEF Members
<1> QED BY <1>1, <1>4, <1>5, <1>6

\* What two queues joined hold.
LEMMA ConcatMembers ==
  ASSUME NEW S, NEW a \in Seq(S), NEW b \in Seq(S)
  PROVE  a \o b \in Seq(S) /\ Members(a \o b) = Members(a) \cup Members(b)
<1>1. /\ a \o b \in Seq(S) /\ Len(a) \in Nat /\ Len(b) \in Nat
      /\ DOMAIN a = 1..Len(a) /\ DOMAIN b = 1..Len(b)
      /\ DOMAIN (a \o b) = 1..(Len(a) + Len(b))
      /\ \A i \in 1..(Len(a) + Len(b)) :
           (a \o b)[i] = IF i <= Len(a) THEN a[i] ELSE b[i - Len(a)]
  OBVIOUS
<1> DEFINE c == a \o b
<1>2. ASSUME NEW i \in DOMAIN c PROVE c[i] \in Members(a) \cup Members(b)
  <2>1. i \in 1..Len(a) \/ i - Len(a) \in 1..Len(b)
    BY <1>1
  <2> QED BY <1>1, <2>1 DEF Members
<1>3. ASSUME NEW i \in DOMAIN a PROVE a[i] \in Members(c)
  <2>1. i \in DOMAIN c /\ c[i] = a[i]
    BY <1>1
  <2> HIDE DEF c
  <2> QED BY <2>1 DEF Members
<1>4. ASSUME NEW i \in DOMAIN b PROVE b[i] \in Members(c)
  <2>1. i + Len(a) \in DOMAIN c /\ c[i + Len(a)] = b[i]
    BY <1>1
  <2> HIDE DEF c
  <2> QED BY <2>1 DEF Members
<1>5. Members(c) \subseteq Members(a) \cup Members(b)
  <2> HIDE DEF c
  <2> QED BY <1>2 DEF Members
<1>6. Members(a) \subseteq Members(c) /\ Members(b) \subseteq Members(c)
  <2> HIDE DEF c
  <2> QED BY <1>3, <1>4 DEF Members
<1> QED BY <1>1, <1>5, <1>6

\* Popping from a family without repetition takes one item out of it.
LEMMA PopFamily ==
  ASSUME NEW S, NEW K, NEW Q \in [K -> Seq(S)], Unique(Q), NEW k \in K, Q[k] # <<>>
  PROVE  /\ Pop(Q, k) \in [K -> Seq(S)]
         /\ Unique(Pop(Q, k))
         /\ Head(Q[k]) \in Items(Q)
         /\ Items(Pop(Q, k)) = Items(Q) \ {Head(Q[k])}
<1> DEFINE P == Pop(Q, k)
<1>1. /\ P \in [K -> Seq(S)]
      /\ P[k] = Tail(Q[k])
      /\ \A l \in K : l # k => P[l] = Q[l]
  BY TailMembers DEF Pop
<1>2. /\ Len(Q[k]) \in Nat \ {0} /\ DOMAIN Q[k] = 1..Len(Q[k])
      /\ Head(Q[k]) = Q[k][1]
      /\ DOMAIN P[k] = 1..(Len(Q[k]) - 1)
      /\ \A i \in 1..(Len(Q[k]) - 1) : P[k][i] = Q[k][i + 1]
  BY <1>1
\* Where an item of the popped family stood before.
<1> DEFINE old(l, i) == IF l = k THEN i + 1 ELSE i
<1>3. \A l \in K : \A i \in DOMAIN P[l] :
        /\ old(l, i) \in DOMAIN Q[l]
        /\ P[l][i] = Q[l][old(l, i)]
        /\ i \in Int
  <2> SUFFICES ASSUME NEW l \in K, NEW i \in DOMAIN P[l]
               PROVE  old(l, i) \in DOMAIN Q[l] /\ P[l][i] = Q[l][old(l, i)] /\ i \in Int
    OBVIOUS
  <2>1. CASE l = k
    BY <1>2, <2>1
  <2>2. CASE l # k
    <3>1. P[l] = Q[l] /\ DOMAIN Q[l] = 1..Len(Q[l])
      BY <1>1, <2>2
    <3> QED BY <2>2, <3>1
  <2> QED BY <2>1, <2>2
<1>4. Unique(P)
  <2> SUFFICES ASSUME NEW a \in K, NEW l \in K, NEW i \in DOMAIN P[a], NEW j \in DOMAIN P[l],
                      P[a][i] = P[l][j]
               PROVE  a = l /\ i = j
    BY <1>1 DEF Unique
  <2>1. Q[a][old(a, i)] = Q[l][old(l, j)]
    BY <1>3
  <2>2. a = l /\ old(a, i) = old(l, j)
    BY <1>3, <2>1 DEF Unique
  <2>3. i \in Int /\ j \in Int
    BY <1>3
  <2> QED BY <2>2, <2>3
<1>5. Members(Q[k]) = {Head(Q[k])} \cup Members(P[k])
  BY <1>1, TailMembers
<1>6. Items(Q) = {Head(Q[k])} \cup Items(P)
  <2>1. DOMAIN Q = K /\ DOMAIN P = K
    BY <1>1
  <2>2. \A x : x \in Items(Q) <=> \E l \in K : x \in Members(Q[l])
    BY <2>1 DEF Items
  <2>3. \A x : x \in Items(P) <=> \E l \in K : x \in Members(P[l])
    BY <2>1 DEF Items
  <2>4. \A l \in K : l # k => Members(P[l]) = Members(Q[l])
    BY <1>1
  <2>5. \A x : x \in Items(Q) => x \in {Head(Q[k])} \cup Items(P)
    BY <1>5, <2>2, <2>3, <2>4
  <2>6. \A x : x \in {Head(Q[k])} \cup Items(P) => x \in Items(Q)
    BY <1>5, <2>2, <2>3, <2>4
  <2> QED BY <2>5, <2>6
<1>7. Head(Q[k]) \notin Items(P)
  <2> SUFFICES ASSUME Head(Q[k]) \in Items(P) PROVE FALSE
    OBVIOUS
  <2>1. PICK l \in K : Head(Q[k]) \in Members(P[l])
    BY <1>1 DEF Items
  <2>2. PICK i \in DOMAIN P[l] : Head(Q[k]) = P[l][i]
    BY <2>1 DEF Members
  <2>3. Q[k][1] = Q[l][old(l, i)] /\ old(l, i) \in DOMAIN Q[l] /\ 1 \in DOMAIN Q[k]
    BY <1>2, <1>3, <2>2
  <2>4. k = l /\ 1 = old(l, i)
    BY <2>3 DEF Unique
  <2>5. i \in 1..(Len(Q[k]) - 1)
    BY <1>2, <2>4
  <2> QED BY <1>2, <2>4, <2>5
<1> QED BY <1>1, <1>4, <1>6, <1>7

\* Pushing an item that is nowhere yet keeps a family without repetition.
LEMMA PushFamily ==
  ASSUME NEW S, NEW K, NEW Q \in [K -> Seq(S)], Unique(Q), NEW k \in K, NEW x \in S,
         x \notin Items(Q)
  PROVE  /\ Push(Q, k, x) \in [K -> Seq(S)]
         /\ Unique(Push(Q, k, x))
         /\ Items(Push(Q, k, x)) = Items(Q) \cup {x}
<1> DEFINE P == Push(Q, k, x)
<1>1. /\ P \in [K -> Seq(S)]
      /\ P[k] = Append(Q[k], x)
      /\ \A l \in K : l # k => P[l] = Q[l]
  BY AppendMembers DEF Push
<1>2. /\ Len(Q[k]) \in Nat /\ DOMAIN Q[k] = 1..Len(Q[k])
      /\ DOMAIN P[k] = 1..(Len(Q[k]) + 1)
      /\ P[k][Len(Q[k]) + 1] = x
      /\ \A i \in 1..Len(Q[k]) : P[k][i] = Q[k][i]
  BY <1>1
<1>3. \A l \in K : \A i \in DOMAIN P[l] :
        \/ i \in DOMAIN Q[l] /\ P[l][i] = Q[l][i] /\ P[l][i] \in Items(Q)
        \/ l = k /\ i = Len(Q[k]) + 1 /\ P[l][i] = x
  <2> SUFFICES ASSUME NEW l \in K, NEW i \in DOMAIN P[l]
               PROVE  \/ i \in DOMAIN Q[l] /\ P[l][i] = Q[l][i] /\ P[l][i] \in Items(Q)
                      \/ l = k /\ i = Len(Q[k]) + 1 /\ P[l][i] = x
    OBVIOUS
  <2>1. ASSUME i \in DOMAIN Q[l] PROVE Q[l][i] \in Items(Q)
    BY <2>1 DEF Items, Members
  <2>2. CASE l # k
    BY <1>1, <2>1, <2>2
  <2>3. CASE l = k
    <3>1. i \in 1..Len(Q[k]) \/ i = Len(Q[k]) + 1
      BY <1>2, <2>3
    <3> QED BY <1>2, <2>1, <2>3, <3>1
  <2> QED BY <2>2, <2>3
<1>4. Unique(P)
  <2> SUFFICES ASSUME NEW a \in K, NEW l \in K, NEW i \in DOMAIN P[a], NEW j \in DOMAIN P[l],
                      P[a][i] = P[l][j]
               PROVE  a = l /\ i = j
    BY <1>1 DEF Unique
  <2>1. CASE P[a][i] = x
    BY <1>3, <2>1
  <2>2. CASE P[a][i] # x
    <3>1. i \in DOMAIN Q[a] /\ j \in DOMAIN Q[l] /\ Q[a][i] = Q[l][j]
      BY <1>3, <2>2
    <3> QED BY <3>1 DEF Unique
  <2> QED BY <2>1, <2>2
<1>5. Members(P[k]) = Members(Q[k]) \cup {x}
  BY <1>1, AppendMembers
<1>6. Items(P) = Items(Q) \cup {x}
  <2>1. DOMAIN Q = K /\ DOMAIN P = K
    BY <1>1
  <2>2. \A y : y \in Items(Q) <=> \E l \in K : y \in Members(Q[l])
    BY <2>1 DEF Items
  <2>3. \A y : y \in Items(P) <=> \E l \in K : y \in Members(P[l])
    BY <2>1 DEF Items
  <2>4. \A l \in K : l # k => Members(P[l]) = Members(Q[l])
    BY <1>1
  <2>5. \A y : y \in Items(P) => y \in Items(Q) \cup {x}
    BY <1>5, <2>2, <2>3, <2>4
  <2>6. \A y : y \in Items(Q) \cup {x} => y \in Items(P)
    BY <1>5, <2>2, <2>3, <2>4
  <2> QED BY <2>5, <2>6
<1> QED BY <1>1, <1>4, <1>6


----------------------------------------------------------------------------
\* The objects stay objects.

\* Taking the head off a queue of threads leaves a queue of threads.
LEMMA PopType ==
  ASSUME NEW q \in Seq(Threads)
  PROVE  PopFront(q) \in Seq(Threads) /\ AfterPop(q) \in Seq(Threads)
BY DEF PopFront, AfterPop

\* MutexBlocking::lock and unlock, and both in condvar wait, keep a mutex a mutex.
LEMMA MutexType ==
  ASSUME NEW mu \in MutexObjects, NEW t \in Threads
  PROVE  /\ Lock(mu, t) \in MutexObjects
         /\ Unlock(mu) \in MutexObjects
         /\ WaitMutex(mu, t) \in MutexObjects
         /\ UnlockWakes(mu) \in Seq(Threads)
<1>1. ASSUME NEW x \in MutexObjects PROVE Lock(x, t) \in MutexObjects
  <2>1. x.wait_queue \in Seq(Threads)
    BY DEF MutexObjects
  <2>2. Append(x.wait_queue, t) \in Seq(Threads)
    BY <2>1
  <2> QED BY <2>2 DEF Lock, MutexObjects
<1>2. mu.wait_queue \in Seq(Threads)
  BY DEF MutexObjects
<1>3. Unlock(mu) \in MutexObjects /\ UnlockWakes(mu) \in Seq(Threads)
  BY <1>2, PopType DEF Unlock, UnlockWakes, MutexObjects
<1> QED BY <1>1, <1>3 DEF WaitMutex

\* Semaphore::up and down keep a semaphore a semaphore.
LEMMA SemaphoreType ==
  ASSUME NEW s \in SemaphoreObjects, NEW t \in Threads
  PROVE  /\ Down(s, t) \in SemaphoreObjects
         /\ Up(s) \in SemaphoreObjects
         /\ UpWakes(s) \in Seq(Threads)
<1>1. s.wait_queue \in Seq(Threads) /\ s.count \in Int
  BY DEF SemaphoreObjects
<1> QED BY <1>1, PopType DEF Down, DownGrants, Up, UpWakes, SemaphoreObjects

\* A create call adds one object to its list.
LEMMA PutType ==
  ASSUME NEW ids, NEW S, NEW list, list \in [DOMAIN list -> S],
         DOMAIN list \subseteq ids, NEW i \in ids, NEW obj \in S
  PROVE  /\ DOMAIN Put(list, i, obj) \subseteq ids
         /\ Put(list, i, obj) \in [DOMAIN Put(list, i, obj) -> S]
BY DEF Put

\* The end of a trap leaves a scheduler state.
LEMMA FinishType ==
  ASSUME TypeOK, NEW t \in Threads, NEW live \in SUBSET Threads,
         NEW woken \in Seq(Threads), NEW outcome, NEW killed,
         Finish(t, live, woken, outcome, killed)
  PROVE  /\ current' \in OptThread
         /\ ready' \in Seq(Threads)
         /\ tasks' \subseteq Threads
         /\ fatal' \in BOOLEAN
<1>1. (IF ~killed /\ outcome = "suspend" THEN <<t>> ELSE <<>>) \in Seq(Threads)
  OBVIOUS
<1>2. ready \in Seq(Threads) /\ ready \o woken \in Seq(Threads)
  BY DEF TypeOK
<1>3. ready' \in Seq(Threads)
  BY <1>1, <1>2 DEF Finish
<1> QED BY <1>3 DEF Finish, TypeOK, OptThread

----------------------------------------------------------------------------
\* TypeOK is inductive.
LEMMA TypeInductive ==
  ASSUME TypeOK, [Next]_vars
  PROVE  TypeOK'
<1> USE DEF OptThread
<1>1. CASE FindNext
  BY <1>1 DEF FindNext, TypeOK, objs
<1>2. CASE NoTask
  BY <1>2, PopType DEF NoTask, TypeOK, objs
<1>3. CASE SignalStep
  <2>1. CASE KillByOther
    BY <2>1 DEF KillByOther, TypeOK, objs, sched
  <2>2. ASSUME NEW t \in Threads, KillSelf(t) PROVE TypeOK'
    <3>1. /\ current' \in OptThread /\ ready' \in Seq(Threads)
          /\ tasks' \subseteq Threads /\ fatal' \in BOOLEAN
      <4>1. tasks \in SUBSET Threads /\ <<>> \in Seq(Threads)
        BY DEF TypeOK
      <4> QED BY <2>2, <4>1, FinishType DEF KillSelf
    <3> QED BY <2>2, <3>1 DEF KillSelf, TypeOK, objs
  <2> QED BY <1>3, <2>1, <2>2 DEF SignalStep
<1>4. ASSUME NEW t \in Threads, ThreadStep(t) PROVE TypeOK'
  <2>0. ASSUME NEW woken \in Seq(Threads), NEW outcome, EndSyscall(t, woken, outcome)
        PROVE  /\ current' \in OptThread /\ ready' \in Seq(Threads)
               /\ tasks' \subseteq Threads /\ fatal' \in BOOLEAN
               /\ used' = used /\ machine' = machine
    BY <2>0, FinishType DEF EndSyscall, TypeOK
  <2>e. <<>> \in Seq(Threads)
    OBVIOUS
  <2>1. CASE OtherSyscall(t) \/ Exit(t)
    BY <2>0, <2>e, <2>1 DEF OtherSyscall, Exit, TypeOK, objs
  <2>2. CASE Fault(t)
    BY <2>2 DEF Fault, TypeOK, objs
  <2>3. ASSUME NEW new \in Threads, ThreadCreate(t, new) PROVE TypeOK'
    <3>1. /\ current' \in OptThread /\ ready' \in Seq(Threads)
          /\ tasks' \subseteq Threads /\ fatal' \in BOOLEAN
      <4>1. tasks \cup {new} \in SUBSET Threads /\ <<new>> \in Seq(Threads)
        BY DEF TypeOK
      <4> QED BY <2>3, <4>1, FinishType DEF ThreadCreate
    <3> QED BY <2>3, <3>1 DEF ThreadCreate, TypeOK, objs
  <2>4. ASSUME NEW m \in MutexIds, MutexCreate(t, m) PROVE TypeOK'
    <3>1. MutexNew \in MutexObjects
      BY DEF MutexNew, MutexObjects
    <3>2. /\ DOMAIN mutexes' \subseteq MutexIds
          /\ mutexes' \in [DOMAIN mutexes' -> MutexObjects]
      BY <2>4, <3>1, PutType DEF MutexCreate, TypeOK
    <3> QED BY <2>0, <2>e, <2>4, <3>2 DEF MutexCreate, TypeOK
  <2>5. ASSUME NEW m \in MutexIds, MutexLockRefused(t, m) PROVE TypeOK'
    BY <2>0, <2>e, <2>5 DEF MutexLockRefused, TypeOK, objs
  <2>6. ASSUME NEW m \in MutexIds, MutexLock(t, m) PROVE TypeOK'
    <3>1. Lock(mutexes[m], t) \in MutexObjects
      BY <2>6, MutexType DEF MutexLock, TypeOK
    <3>2. /\ DOMAIN mutexes' \subseteq MutexIds
          /\ mutexes' \in [DOMAIN mutexes' -> MutexObjects]
      BY <2>6, <3>1 DEF MutexLock, TypeOK
    <3> QED BY <2>0, <2>e, <2>6, <3>2 DEF MutexLock, SetOwner, TypeOK
  <2>7. ASSUME NEW m \in MutexIds, MutexUnlock(t, m) PROVE TypeOK'
    <3>1. Unlock(mutexes[m]) \in MutexObjects /\ UnlockWakes(mutexes[m]) \in Seq(Threads)
      BY <2>7, MutexType DEF MutexUnlock, TypeOK
    <3>2. /\ DOMAIN mutexes' \subseteq MutexIds
          /\ mutexes' \in [DOMAIN mutexes' -> MutexObjects]
      BY <2>7, <3>1 DEF MutexUnlock, TypeOK
    <3>3. Receiver(UnlockWakes(mutexes[m])) \in OptThread
      BY <3>1 DEF Receiver
    <3> QED BY <2>0, <2>7, <3>1, <3>2, <3>3 DEF MutexUnlock, SetOwner, TypeOK
  <2>8. ASSUME NEW on \in BOOLEAN, EnableDeadlockDetect(t, on) PROVE TypeOK'
    BY <2>0, <2>e, <2>8 DEF EnableDeadlockDetect, TypeOK
  <2>9. ASSUME NEW s \in SemIds, NEW n \in ResCounts, SemaphoreCreate(t, s, n) PROVE TypeOK'
    <3>1. SemaphoreNew(n) \in SemaphoreObjects
      BY CountAssumption DEF SemaphoreNew, SemaphoreObjects
    <3>2. /\ DOMAIN sems' \subseteq SemIds
          /\ sems' \in [DOMAIN sems' -> SemaphoreObjects]
      BY <2>9, <3>1, PutType DEF SemaphoreCreate, TypeOK
    <3> QED BY <2>0, <2>e, <2>9, <3>2 DEF SemaphoreCreate, TypeOK
  <2>10. ASSUME NEW s \in SemIds, SemaphoreUp(t, s) \/ SemaphoreDown(t, s) PROVE TypeOK'
    <3>1. sems[s] \in SemaphoreObjects
      BY <2>10 DEF SemaphoreUp, SemaphoreDown, TypeOK
    <3>2. /\ DOMAIN sems' \subseteq SemIds
          /\ sems' \in [DOMAIN sems' -> SemaphoreObjects]
      BY <2>10, <3>1, SemaphoreType DEF SemaphoreUp, SemaphoreDown, TypeOK
    <3>3. UpWakes(sems[s]) \in Seq(Threads)
      BY <3>1, SemaphoreType
    <3> QED BY <2>0, <2>e, <2>10, <3>2, <3>3 DEF SemaphoreUp, SemaphoreDown, TypeOK
  <2>11. ASSUME NEW c \in CondvarIds, CondvarCreate(t, c) PROVE TypeOK'
    <3>1. CondvarNew \in Seq(Threads)
      BY DEF CondvarNew
    <3>2. /\ DOMAIN condvars' \subseteq CondvarIds
          /\ condvars' \in [DOMAIN condvars' -> Seq(Threads)]
      BY <2>11, <3>1, PutType DEF CondvarCreate, TypeOK
    <3> QED BY <2>0, <2>e, <2>11, <3>2 DEF CondvarCreate, TypeOK
  <2>12. ASSUME NEW c \in CondvarIds, CondvarSignal(t, c) PROVE TypeOK'
    <3>1. Signal(condvars[c]) \in Seq(Threads) /\ SignalWakes(condvars[c]) \in Seq(Threads)
      BY <2>12, PopType DEF CondvarSignal, TypeOK, Signal, SignalWakes
    <3> QED BY <2>0, <2>12, <3>1 DEF CondvarSignal, TypeOK
  <2>13. ASSUME NEW c \in CondvarIds, NEW m \in MutexIds, CondvarWait(t, c, m) PROVE TypeOK'
    <3>1. WaitMutex(mutexes[m], t) \in MutexObjects /\ WaitWakes(mutexes[m]) \in Seq(Threads)
      BY <2>13, MutexType DEF CondvarWait, TypeOK, WaitWakes
    <3>2. /\ DOMAIN mutexes' \subseteq MutexIds
          /\ mutexes' \in [DOMAIN mutexes' -> MutexObjects]
      BY <2>13, <3>1 DEF CondvarWait, TypeOK
    <3>3. Receiver(WaitWakes(mutexes[m])) \in OptThread
      BY <3>1 DEF Receiver
    <3> QED BY <2>0, <2>13, <3>1, <3>2, <3>3 DEF CondvarWait, TypeOK
  <2>14. ASSUME Panic PROVE TypeOK'
    BY <2>14 DEF Panic, TypeOK, sched, objs
  <2> QED
    BY <1>4, <2>1, <2>2, <2>3, <2>4, <2>5, <2>6, <2>7, <2>8, <2>9, <2>10, <2>11, <2>12,
       <2>13, <2>14
    DEF ThreadStep, BadHandle, UnlockUnlocked, WaitWithoutWaiter
<1>5. CASE UNCHANGED vars
  BY <1>5 DEF TypeOK, vars, sched, objs
<1> QED BY <1>1, <1>2, <1>3, <1>4, <1>5 DEF Next, Halted

\* The first thread's kernel is well typed.
LEMMA TypeInitial == ASSUME Init PROVE TypeOK
<1>1. DOMAIN <<>> = {} /\ \A S : <<>> \in [DOMAIN <<>> -> S]
  OBVIOUS
<1>2. \A main \in Threads : <<main>> \in Seq(Threads)
  OBVIOUS
<1> QED BY <1>1, <1>2 DEF Init, TypeOK, OptThread

\* The state stays well typed: the scheduler holds thread ids, every slot an object.
THEOREM TypeCorrect == Spec => []TypeOK
<1>1. Init => TypeOK
  BY TypeInitial
<1>2. TypeOK /\ [Next]_vars => TypeOK'
  BY TypeInductive
<1> QED BY <1>1, <1>2, PTL DEF Spec

----------------------------------------------------------------------------
\* The promises of the blocking objects: what a semaphore's count says of its
\* queue, and that a free mutex has nobody waiting.

\* A mutex nobody was created for has no holder either.
MutexInv ==
  /\ TypeOK
  /\ FreeMutexHasNoWaiter
  /\ \A m \in MutexIds \ DOMAIN mutexes : holder[m] = None

SemaphoreInv == TypeOK /\ SemaphoreCounts

\* What SemaphoreCounts asks of one semaphore.
Counted(s) == Len(s.wait_queue) = IF s.count < 0 THEN -s.count ELSE 0

\* up and down keep the count and the queue in step.
LEMMA CountedKept ==
  ASSUME NEW s \in SemaphoreObjects, Counted(s), NEW t \in Threads
  PROVE  Counted(Up(s)) /\ Counted(Down(s, t))
<1>1. s.wait_queue \in Seq(Threads) /\ s.count \in Int /\ Len(s.wait_queue) \in Nat
  BY DEF SemaphoreObjects
<1>2. Counted(Up(s))
  <2>1. CASE s.wait_queue = <<>>
    <3>1. Len(<<>>) = 0
      OBVIOUS
    <3>2. s.count >= 0
      BY <1>1, <2>1, <3>1 DEF Counted
    <3> QED BY <1>1, <2>1, <3>1, <3>2 DEF Counted, Up, AfterPop
  <2>2. CASE s.wait_queue # <<>>
    <3>1. Len(Tail(s.wait_queue)) = Len(s.wait_queue) - 1 /\ Len(s.wait_queue) > 0
      BY <1>1, <2>2
    <3> QED BY <1>1, <2>2, <3>1 DEF Counted, Up, AfterPop
  <2> QED BY <2>1, <2>2
<1>3. Counted(Down(s, t))
  <2>1. Len(Append(s.wait_queue, t)) = Len(s.wait_queue) + 1
    BY <1>1
  <2> QED BY <1>1, <2>1 DEF Counted, Down, DownGrants
<1> QED BY <1>2, <1>3

\* Every step keeps the counts, when semaphores are created with a count that
\* `as isize` leaves alone.
LEMMA SemaphoreInductive ==
  ASSUME ResCounts \subseteq Nat, SemaphoreInv, [Next]_vars
  PROVE  SemaphoreInv'
<1>0. TypeOK /\ TypeOK' /\ \A s \in DOMAIN sems : Counted(sems[s])
  BY TypeInductive DEF SemaphoreInv, SemaphoreCounts, Counted
<1>1. CASE UNCHANGED sems
  BY <1>0, <1>1 DEF SemaphoreInv, SemaphoreCounts
<1>2. ASSUME NEW t \in Threads, NEW s \in SemIds, NEW n \in ResCounts,
             SemaphoreCreate(t, s, n)
      PROVE  SemaphoreInv'
  <2>1. /\ sems' = Put(sems, s, SemaphoreNew(n)) /\ n \in Nat
    BY <1>2 DEF SemaphoreCreate
  <2>2. Counted(SemaphoreNew(n))
    BY <2>1 DEF Counted, SemaphoreNew
  <2>3. \A k \in DOMAIN sems' : Counted(sems'[k])
    BY <1>0, <2>1, <2>2 DEF Put
  <2> QED BY <1>0, <2>3 DEF SemaphoreInv, SemaphoreCounts, Counted
<1>3. ASSUME NEW t \in Threads, NEW s \in SemIds, SemaphoreUp(t, s) \/ SemaphoreDown(t, s)
      PROVE  SemaphoreInv'
  <2>1. /\ s \in DOMAIN sems
        /\ \/ sems' = [sems EXCEPT ![s] = Up(sems[s])]
           \/ sems' = [sems EXCEPT ![s] = Down(sems[s], t)]
    BY <1>3 DEF SemaphoreUp, SemaphoreDown
  <2>2. sems[s] \in SemaphoreObjects
    BY <1>0, <2>1 DEF TypeOK
  <2>3. Counted(Up(sems[s])) /\ Counted(Down(sems[s], t))
    BY <1>0, <2>1, <2>2, CountedKept
  <2>4. \A k \in DOMAIN sems' : Counted(sems'[k])
    BY <1>0, <2>1, <2>3
  <2> QED BY <1>0, <2>4 DEF SemaphoreInv, SemaphoreCounts, Counted
<1>4. ASSUME NEW t \in Threads, ThreadStep(t) PROVE SemaphoreInv'
  <2>1. CASE UNCHANGED sems
    BY <1>1, <2>1
  <2>2. CASE ~UNCHANGED sems
    <3>1. \E s \in SemIds : SemaphoreUp(t, s) \/ SemaphoreDown(t, s)
                            \/ \E n \in ResCounts : SemaphoreCreate(t, s, n)
      BY <1>4, <2>2 DEF ThreadStep, OtherSyscall, Exit, Fault, ThreadCreate, MutexCreate,
         MutexLockRefused, MutexLock, MutexUnlock, UnlockUnlocked, EnableDeadlockDetect,
         CondvarCreate, CondvarSignal, CondvarWait, WaitWithoutWaiter, BadHandle, Panic, objs
    <3> QED BY <1>2, <1>3, <3>1
  <2> QED BY <2>1, <2>2
<1>5. CASE FindNext \/ NoTask \/ SignalStep \/ Halted \/ UNCHANGED vars
  BY <1>1, <1>5 DEF FindNext, NoTask, SignalStep, KillByOther, KillSelf, Halted, vars, objs
<1> QED BY <1>4, <1>5 DEF Next

\* A semaphore created with a count that fits in an isize keeps the meaning its
\* comment gives the count: negative, it is the number of waiters.
THEOREM CountsMeanWaiters ==
  ASSUME ResCounts \subseteq Nat
  PROVE  Spec => []SemaphoreCounts
<1>1. Init => SemaphoreInv
  <2>1. DOMAIN <<>> = {}
    OBVIOUS
  <2> QED BY <2>1, TypeInitial DEF Init, SemaphoreInv, SemaphoreCounts
<1>2. SemaphoreInv /\ [Next]_vars => SemaphoreInv'
  BY SemaphoreInductive
<1>3. SemaphoreInv => SemaphoreCounts
  BY DEF SemaphoreInv
<1> QED BY <1>1, <1>2, <1>3, PTL DEF Spec

----------------------------------------------------------------------------
\* What FreeMutexHasNoWaiter asks of one mutex.
Settled(mu, h) == ~mu.locked => mu.wait_queue = <<>> /\ h = None

\* lock, unlock and condvar_wait keep it, with the holder the kernel's handler
\* grants the mutex to.
LEMMA SettledKept ==
  ASSUME NEW mu \in MutexObjects, NEW t \in Threads, NEW h, Settled(mu, h)
  PROVE  /\ Settled(Lock(mu, t), IF LockGrants(mu) THEN t ELSE h)
         /\ Settled(Unlock(mu), Receiver(UnlockWakes(mu)))
         /\ Settled(WaitMutex(mu, t), Receiver(WaitWakes(mu)))
<1>1. mu.locked \in BOOLEAN /\ mu.wait_queue \in Seq(Threads)
  BY DEF MutexObjects
<1>2. Lock(mu, t).locked = TRUE
  BY <1>1 DEF Lock, LockGrants, MutexObjects
<1>3. Settled(Unlock(mu), Receiver(UnlockWakes(mu)))
  BY DEF Settled, Unlock, UnlockWakes, Receiver, AfterPop, PopFront
<1>4. WaitMutex(mu, t).locked = TRUE
  BY DEF WaitMutex, Lock, LockGrants, Unlock
<1> QED BY <1>2, <1>3, <1>4 DEF Settled

\* Every step keeps the mutexes settled.
LEMMA MutexInductive ==
  ASSUME MutexInv, [Next]_vars
  PROVE  MutexInv'
<1>0. /\ TypeOK /\ TypeOK'
      /\ \A m \in DOMAIN mutexes : Settled(mutexes[m], holder[m])
      /\ \A m \in MutexIds \ DOMAIN mutexes : holder[m] = None
  BY TypeInductive DEF MutexInv, FreeMutexHasNoWaiter, Settled
<1>1. CASE UNCHANGED <<mutexes, holder>>
  BY <1>0, <1>1 DEF MutexInv, FreeMutexHasNoWaiter
<1>2. ASSUME NEW t \in Threads, NEW m \in MutexIds, MutexCreate(t, m)
      PROVE  MutexInv'
  <2>1. /\ m \notin DOMAIN mutexes /\ holder' = holder
        /\ mutexes' = Put(mutexes, m, MutexNew)
    BY <1>2 DEF MutexCreate, FreeSlot
  <2>2. Settled(MutexNew, holder[m])
    BY <1>0, <2>1 DEF Settled, MutexNew
  <2>3. /\ \A k \in DOMAIN mutexes' : Settled(mutexes'[k], holder'[k])
        /\ \A k \in MutexIds \ DOMAIN mutexes' : holder'[k] = None
    BY <1>0, <2>1, <2>2 DEF Put
  <2> QED BY <1>0, <2>3 DEF MutexInv, FreeMutexHasNoWaiter, Settled
<1>3. ASSUME NEW t \in Threads, NEW m \in MutexIds,
             \/ MutexLock(t, m) \/ MutexUnlock(t, m)
             \/ \E c \in CondvarIds : CondvarWait(t, c, m)
      PROVE  MutexInv'
  <2>1. m \in DOMAIN mutexes
    BY <1>3 DEF MutexLock, MutexUnlock, CondvarWait
  <2>2. mutexes[m] \in MutexObjects /\ holder \in [MutexIds -> OptThread]
        /\ DOMAIN mutexes \subseteq MutexIds
    BY <1>0, <2>1 DEF TypeOK
  <2>3. \E mu, h : /\ mutexes' = [mutexes EXCEPT ![m] = mu]
                   /\ holder' = [holder EXCEPT ![m] = h]
                   /\ Settled(mu, h)
    <3>1. CASE MutexLock(t, m)
      <4>1. mutexes' = [mutexes EXCEPT ![m] = Lock(mutexes[m], t)]
        BY <3>1 DEF MutexLock
      <4>2. holder' = [holder EXCEPT ![m] = IF LockGrants(mutexes[m]) THEN t ELSE holder[m]]
        BY <2>2, <3>1 DEF MutexLock
      <4> QED BY <1>0, <2>1, <2>2, <4>1, <4>2, SettledKept
    <3>2. CASE MutexUnlock(t, m)
      BY <1>0, <2>1, <2>2, <3>2, SettledKept DEF MutexUnlock
    <3>3. CASE \E c \in CondvarIds : CondvarWait(t, c, m)
      BY <1>0, <2>1, <2>2, <3>3, SettledKept DEF CondvarWait
    <3> QED BY <1>3, <3>1, <3>2, <3>3
  <2>4. /\ \A k \in DOMAIN mutexes' : Settled(mutexes'[k], holder'[k])
        /\ \A k \in MutexIds \ DOMAIN mutexes' : holder'[k] = None
    BY <1>0, <2>1, <2>2, <2>3
  <2> QED BY <1>0, <2>4 DEF MutexInv, FreeMutexHasNoWaiter, Settled
<1>4. ASSUME NEW t \in Threads, ThreadStep(t) PROVE MutexInv'
  <2>1. CASE UNCHANGED <<mutexes, holder>>
    BY <1>1, <2>1
  <2>2. CASE ~UNCHANGED <<mutexes, holder>>
    <3>1. \E m \in MutexIds : MutexCreate(t, m) \/ MutexLock(t, m) \/ MutexUnlock(t, m)
                              \/ \E c \in CondvarIds : CondvarWait(t, c, m)
      BY <1>4, <2>2 DEF ThreadStep, OtherSyscall, Exit, Fault, ThreadCreate,
         MutexLockRefused, UnlockUnlocked, EnableDeadlockDetect, SemaphoreCreate,
         SemaphoreUp, SemaphoreDown, CondvarCreate, CondvarSignal, WaitWithoutWaiter,
         BadHandle, Panic, objs
    <3> QED BY <1>2, <1>3, <3>1
  <2> QED BY <2>1, <2>2
<1>5. CASE FindNext \/ NoTask \/ SignalStep \/ Halted \/ UNCHANGED vars
  BY <1>1, <1>5 DEF FindNext, NoTask, SignalStep, KillByOther, KillSelf, Halted, vars, objs
<1> QED BY <1>4, <1>5 DEF Next

\* No unlock, and no wait on a condition variable, leaves a mutex free while a
\* thread waits for it.
THEOREM NoLostWakeup == Spec => []FreeMutexHasNoWaiter
<1>1. Init => MutexInv
  <2>1. DOMAIN <<>> = {}
    OBVIOUS
  <2> QED BY <2>1, TypeInitial DEF Init, MutexInv, FreeMutexHasNoWaiter
<1>2. MutexInv /\ [Next]_vars => MutexInv'
  BY MutexInductive
<1>3. MutexInv => FreeMutexHasNoWaiter
  BY DEF MutexInv
<1> QED BY <1>1, <1>2, <1>3, PTL DEF Spec

----------------------------------------------------------------------------
\* Places.

\* Ids once handed out stay handed out, so a new thread stands nowhere yet.
PlaceInv ==
  /\ TypeOK
  /\ OnePlace
  /\ tasks \cup Items(Queues) \subseteq used

\* What every step does: keep the invariant, and leave ids of dead threads behind
\* only when it takes a kill.
PlaceStep == PlaceInv' /\ StaleByKill

ObjectLabels == Labels \ {Current, Ready}

----------------------------------------------------------------------------
\* Each kind of label and what stands in its queue.
QueueFacts ==
  /\ Queues \in [Labels -> Seq(Threads)]
  /\ Queues[Current] = IF current = None THEN <<>> ELSE <<current>>
  /\ Queues[Ready] = ready
  /\ \A m \in DOMAIN mutexes : /\ <<"mutex", m>> \in ObjectLabels
                               /\ Queues[<<"mutex", m>>] = mutexes[m].wait_queue
  /\ \A s \in DOMAIN sems : /\ <<"sem", s>> \in ObjectLabels
                            /\ Queues[<<"sem", s>>] = sems[s].wait_queue
  /\ \A c \in DOMAIN condvars : /\ <<"condvar", c>> \in ObjectLabels
                                /\ Queues[<<"condvar", c>>] = condvars[c]

\* These facts follow from the type invariant.
LEMMA QueueValues == TypeOK => QueueFacts
<1> SUFFICES ASSUME TypeOK PROVE QueueFacts
  OBVIOUS
<1>1. Current \in Labels /\ Ready \in Labels /\ Current # Ready
  BY DEF Labels, Current, Ready
<1>2. \A l \in Labels : QueueAt(l) \in Seq(Threads)
  <2> SUFFICES ASSUME NEW l \in Labels PROVE QueueAt(l) \in Seq(Threads)
    OBVIOUS
  <2>1. <<>> \in Seq(Threads) /\ (current # None => <<current>> \in Seq(Threads))
    BY DEF TypeOK, OptThread
  <2>2. \A m \in DOMAIN mutexes : mutexes[m].wait_queue \in Seq(Threads)
    BY DEF TypeOK, MutexObjects
  <2>3. \A s \in DOMAIN sems : sems[s].wait_queue \in Seq(Threads)
    BY DEF TypeOK, SemaphoreObjects
  <2>4. \A c \in DOMAIN condvars : condvars[c] \in Seq(Threads)
    BY DEF TypeOK
  <2>5. ready \in Seq(Threads)
    BY DEF TypeOK
  <2> QED BY <2>1, <2>2, <2>3, <2>4, <2>5 DEF QueueAt
<1>3. Queues \in [Labels -> Seq(Threads)]
  BY <1>2 DEF Queues
<1>4. Queues[Current] = IF current = None THEN <<>> ELSE <<current>>
  BY <1>1 DEF Queues, QueueAt, Current, Ready
<1>5. Queues[Ready] = ready
  BY <1>1 DEF Queues, QueueAt, Current, Ready
<1>6. ASSUME NEW m \in DOMAIN mutexes
      PROVE  <<"mutex", m>> \in ObjectLabels /\ Queues[<<"mutex", m>>] = mutexes[m].wait_queue
  <2>1. <<"mutex", m>> \in Labels /\ <<"mutex", m>> # Current /\ <<"mutex", m>> # Ready
    BY DEF TypeOK, Labels, Current, Ready
  <2> QED BY <2>1 DEF Queues, QueueAt, ObjectLabels
<1>7. ASSUME NEW s \in DOMAIN sems
      PROVE  <<"sem", s>> \in ObjectLabels /\ Queues[<<"sem", s>>] = sems[s].wait_queue
  <2>1. <<"sem", s>> \in Labels /\ <<"sem", s>> # Current /\ <<"sem", s>> # Ready
    BY DEF TypeOK, Labels, Current, Ready
  <2> QED BY <2>1 DEF Queues, QueueAt, ObjectLabels
<1>8. ASSUME NEW c \in DOMAIN condvars
      PROVE  <<"condvar", c>> \in ObjectLabels /\ Queues[<<"condvar", c>>] = condvars[c]
  <2>1. <<"condvar", c>> \in Labels /\ <<"condvar", c>> # Current /\ <<"condvar", c>> # Ready
    BY DEF TypeOK, Labels, Current, Ready
  <2> QED BY <2>1 DEF Queues, QueueAt, ObjectLabels
<1> QED BY <1>3, <1>4, <1>5, <1>6, <1>7, <1>8 DEF QueueFacts

\* The same of the next state.
LEMMA QueueValuesNext == TypeOK' => QueueFacts'
BY QueueValues, PTL

\* Steps that leave the objects alone leave their queues alone.
LEMMA ObjectsUnchanged ==
  ASSUME UNCHANGED <<mutexes, sems, condvars>>
  PROVE  \A l \in ObjectLabels : Queues'[l] = Queues[l]
BY DEF ObjectLabels, Queues, QueueAt

\* A step that changes one mutex changes at most the queue of that mutex.
LEMMA OneMutexChanged ==
  ASSUME TypeOK, NEW m \in DOMAIN mutexes, NEW mu,
         mutexes' = [mutexes EXCEPT ![m] = mu], UNCHANGED <<sems, condvars>>
  PROVE  /\ Queues'[<<"mutex", m>>] = mu.wait_queue
         /\ \A l \in ObjectLabels : l # <<"mutex", m>> => Queues'[l] = Queues[l]
<1>1. DOMAIN mutexes' = DOMAIN mutexes /\ mutexes'[m] = mu
      /\ \A k \in DOMAIN mutexes : k # m => mutexes'[k] = mutexes[k]
  BY DEF TypeOK
<1>2. <<"mutex", m>> \in ObjectLabels
  BY QueueValues DEF QueueFacts
<1>3. Queues'[<<"mutex", m>>] = mu.wait_queue
  BY <1>1, <1>2 DEF Queues, QueueAt, ObjectLabels
<1>4. ASSUME NEW l \in ObjectLabels, l # <<"mutex", m>> PROVE Queues'[l] = Queues[l]
  <2>1. CASE \E k \in MutexIds : l = <<"mutex", k>>
    BY <1>1, <1>4, <2>1 DEF Queues, QueueAt, ObjectLabels
  <2>2. CASE ~ \E k \in MutexIds : l = <<"mutex", k>>
    <3>1. l[1] # "mutex"
      BY <2>2 DEF ObjectLabels, Labels, Current, Ready
    <3> QED BY <3>1 DEF Queues, QueueAt, ObjectLabels
  <2> QED BY <2>1, <2>2
<1> QED BY <1>3, <1>4

\* The same for a semaphore.
LEMMA OneSemaphoreChanged ==
  ASSUME TypeOK, NEW s \in DOMAIN sems, NEW sem,
         sems' = [sems EXCEPT ![s] = sem], UNCHANGED <<mutexes, condvars>>
  PROVE  /\ Queues'[<<"sem", s>>] = sem.wait_queue
         /\ \A l \in ObjectLabels : l # <<"sem", s>> => Queues'[l] = Queues[l]
<1>1. DOMAIN sems' = DOMAIN sems /\ sems'[s] = sem
      /\ \A k \in DOMAIN sems : k # s => sems'[k] = sems[k]
  BY DEF TypeOK
<1>2. <<"sem", s>> \in ObjectLabels
  BY QueueValues DEF QueueFacts
<1>3. Queues'[<<"sem", s>>] = sem.wait_queue
  BY <1>1, <1>2 DEF Queues, QueueAt, ObjectLabels
<1>4. ASSUME NEW l \in ObjectLabels, l # <<"sem", s>> PROVE Queues'[l] = Queues[l]
  <2>1. CASE \E k \in SemIds : l = <<"sem", k>>
    BY <1>1, <1>4, <2>1 DEF Queues, QueueAt, ObjectLabels
  <2>2. CASE ~ \E k \in SemIds : l = <<"sem", k>>
    <3>1. l[1] # "sem"
      BY <2>2 DEF ObjectLabels, Labels, Current, Ready
    <3> QED BY <3>1 DEF Queues, QueueAt, ObjectLabels
  <2> QED BY <2>1, <2>2
<1> QED BY <1>3, <1>4

\* The same for a condition variable.
LEMMA OneCondvarChanged ==
  ASSUME TypeOK, NEW c \in DOMAIN condvars, NEW q,
         condvars' = [condvars EXCEPT ![c] = q], UNCHANGED <<mutexes, sems>>
  PROVE  /\ Queues'[<<"condvar", c>>] = q
         /\ \A l \in ObjectLabels : l # <<"condvar", c>> => Queues'[l] = Queues[l]
<1>1. DOMAIN condvars' = DOMAIN condvars /\ condvars'[c] = q
      /\ \A k \in DOMAIN condvars : k # c => condvars'[k] = condvars[k]
  BY DEF TypeOK
<1>2. <<"condvar", c>> \in ObjectLabels
  BY QueueValues DEF QueueFacts
<1>3. Queues'[<<"condvar", c>>] = q
  BY <1>1, <1>2 DEF Queues, QueueAt, ObjectLabels
<1>4. ASSUME NEW l \in ObjectLabels, l # <<"condvar", c>> PROVE Queues'[l] = Queues[l]
  <2>1. CASE \E k \in CondvarIds : l = <<"condvar", k>>
    BY <1>1, <1>4, <2>1 DEF Queues, QueueAt, ObjectLabels
  <2>2. CASE ~ \E k \in CondvarIds : l = <<"condvar", k>>
    <3>1. l[1] # "condvar"
      BY <2>2 DEF ObjectLabels, Labels, Current, Ready
    <3> QED BY <3>1 DEF Queues, QueueAt, ObjectLabels
  <2> QED BY <2>1, <2>2
<1> QED BY <1>3, <1>4

\* A create call adds an empty queue where none stood.
LEMMA EmptyObjectAdded ==
  ASSUME TypeOK,
         \/ /\ \E m \in MutexIds \ DOMAIN mutexes : mutexes' = Put(mutexes, m, MutexNew)
            /\ UNCHANGED <<sems, condvars>>
         \/ /\ \E s \in SemIds \ DOMAIN sems, n \in ResCounts :
                  sems' = Put(sems, s, SemaphoreNew(n))
            /\ UNCHANGED <<mutexes, condvars>>
         \/ /\ \E c \in CondvarIds \ DOMAIN condvars : condvars' = Put(condvars, c, CondvarNew)
            /\ UNCHANGED <<mutexes, sems>>
  PROVE  \A l \in ObjectLabels : Queues'[l] = Queues[l]
<1> SUFFICES ASSUME NEW l \in ObjectLabels PROVE QueueAt(l)' = QueueAt(l)
  BY DEF Queues, ObjectLabels
<1>1. CASE \E m \in MutexIds \ DOMAIN mutexes :
             mutexes' = Put(mutexes, m, MutexNew) /\ UNCHANGED <<sems, condvars>>
  BY <1>1 DEF Put, MutexNew, QueueAt, ObjectLabels
<1>2. CASE \E s \in SemIds \ DOMAIN sems, n \in ResCounts :
             sems' = Put(sems, s, SemaphoreNew(n)) /\ UNCHANGED <<mutexes, condvars>>
  BY <1>2 DEF Put, SemaphoreNew, QueueAt, ObjectLabels
<1>3. CASE \E c \in CondvarIds \ DOMAIN condvars :
             condvars' = Put(condvars, c, CondvarNew) /\ UNCHANGED <<mutexes, sems>>
  BY <1>3 DEF Put, CondvarNew, QueueAt, ObjectLabels
<1> QED BY <1>1, <1>2, <1>3

----------------------------------------------------------------------------
\* The queues while thread t is in the kernel: t has left `current`.
Kernel == Pop(Queues, Current)

\* The other queues are as they were, and t stands in none of them.
LEMMA InKernel ==
  ASSUME PlaceInv, NEW t \in Threads, current = t
  PROVE  /\ Kernel \in [Labels -> Seq(Threads)]
         /\ Unique(Kernel)
         /\ Kernel[Current] = <<>>
         /\ Kernel[Ready] = ready
         /\ \A l \in ObjectLabels : Kernel[l] = Queues[l]
         /\ Items(Kernel) = Items(Queues) \ {t}
         /\ t \in used /\ t \in Items(Queues)
<1>1. t # None
  BY NoneAssumption
<1>2. TypeOK /\ Unique(Queues) /\ Items(Queues) \subseteq used
  BY DEF PlaceInv, OnePlace
<1>3. /\ Queues \in [Labels -> Seq(Threads)] /\ Queues[Current] = <<t>>
      /\ Queues[Ready] = ready
  BY <1>1, <1>2, QueueValues DEF QueueFacts
<1>4. Current \in Labels /\ Ready \in Labels /\ Current # Ready
      /\ ObjectLabels \subseteq Labels /\ Current \notin ObjectLabels
  BY DEF Labels, Current, Ready, ObjectLabels
<1>5. <<t>> # <<>> /\ Head(<<t>>) = t /\ Tail(<<t>>) = <<>>
  OBVIOUS
<1>6. /\ Kernel \in [Labels -> Seq(Threads)] /\ Unique(Kernel)
      /\ t \in Items(Queues)
      /\ Items(Kernel) = Items(Queues) \ {t}
  <2>1. Queues[Current] # <<>> /\ Head(Queues[Current]) = t
    BY <1>3, <1>5
  <2>2. /\ Pop(Queues, Current) \in [Labels -> Seq(Threads)]
        /\ Unique(Pop(Queues, Current))
        /\ Head(Queues[Current]) \in Items(Queues)
        /\ Items(Pop(Queues, Current)) = Items(Queues) \ {Head(Queues[Current])}
    <3>1. Queues \in [Labels -> Seq(Threads)] /\ Unique(Queues) /\ Current \in Labels
      BY <1>2, <1>3, <1>4
    <3> QED BY ONLY <3>1, <2>1, PopFamily
  <2> QED BY <2>1, <2>2 DEF Kernel
<1>7. Kernel[Current] = <<>> /\ Kernel[Ready] = ready
      /\ \A l \in ObjectLabels : Kernel[l] = Queues[l]
  BY <1>3, <1>4, <1>5 DEF Kernel, Pop
<1> QED BY <1>2, <1>6, <1>7

\* A function on the labels is the family of queues when its parts are.
LEMMA SameQueues ==
  ASSUME TypeOK', NEW F \in [Labels -> Seq(Threads)],
         F[Current] = Queues'[Current], F[Ready] = ready',
         \A l \in ObjectLabels : F[l] = Queues'[l]
  PROVE  Queues' = F
<1>1. Queues' \in [Labels -> Seq(Threads)] /\ Queues'[Ready] = ready'
  BY QueueValuesNext DEF QueueFacts
<1>2. \A l \in Labels : F[l] = Queues'[l]
  BY <1>1 DEF ObjectLabels
<1> QED BY <1>1, <1>2

\* A thread that stands nowhere joins the ready queue.
LEMMA Enqueue ==
  ASSUME NEW V, V \in [Labels -> Seq(Threads)], Unique(V),
         NEW x, x \in Threads, x \notin Items(V)
  PROVE  /\ Push(V, Ready, x) \in [Labels -> Seq(Threads)]
         /\ Unique(Push(V, Ready, x))
         /\ Items(Push(V, Ready, x)) = Items(V) \cup {x}
<1>1. Ready \in Labels
  BY DEF Labels
<1> QED BY <1>1, PushFamily

\* The end of a trap: `woken`, at most one thread, joins the ready queue, and
\* after it the caller, unless it blocks or dies.  S is the family of queues
\* after the call itself.
LEMMA FinishPlaces ==
  ASSUME PlaceInv, TypeOK', NEW t \in Threads, NEW outcome, NEW killed,
         NEW live \in SUBSET Threads, NEW woken \in Seq(Threads),
         NEW S \in [Labels -> Seq(Threads)], Unique(S),
         S[Current] = <<>>, S[Ready] = ready,
         \A l \in ObjectLabels : Queues'[l] = S[l],
         woken = <<>> \/ \E w \in Threads \ (Items(S) \cup {t}) : woken = <<w>>,
         \/ outcome = "block" /\ t \in Items(S)
         \/ outcome \in {"suspend", "exit"} /\ t \notin Items(S),
         live \subseteq Items(S) \cup Members(woken) \cup {t},
         (Items(S) \cup Members(woken) \cup {t}) \ live = Stale,
         current = t, killed => fatal \/ outcome # "block",
         Items(S) \cup Members(woken) \cup {t} \subseteq used',
         Finish(t, live, woken, outcome, killed)
  PROVE  PlaceStep
<1> DEFINE last == ~killed /\ outcome = "suspend"
           W == IF woken = <<>> THEN S ELSE Push(S, Ready, Head(woken))
           F == IF last THEN Push(W, Ready, t) ELSE W
<1>1. Current \in Labels /\ Ready \in Labels /\ Current # Ready
      /\ Current \notin ObjectLabels /\ Ready \notin ObjectLabels
      /\ ObjectLabels \subseteq Labels
  BY DEF Labels, Current, Ready, ObjectLabels
<1>2. /\ W \in [Labels -> Seq(Threads)] /\ Unique(W)
      /\ Items(W) = Items(S) \cup Members(woken)
      /\ W[Ready] = ready \o woken
      /\ \A l \in Labels : l # Ready => W[l] = S[l]
  <2>1. CASE woken = <<>>
    <3>1. ready \o <<>> = ready /\ Members(<<>>) = {}
      BY DEF Members, PlaceInv, TypeOK
    <3> QED BY <2>1, <3>1
  <2>2. CASE woken # <<>>
    <3>1. PICK w \in Threads \ (Items(S) \cup {t}) : woken = <<w>>
      BY <2>2
    <3>2. Head(woken) = w /\ Members(woken) = {w} /\ Append(ready, w) = ready \o woken
      <4>1. Head(<<w>>) = w /\ DOMAIN <<w>> = {1} /\ <<w>>[1] = w
        OBVIOUS
      <4>2. ready \in Seq(Threads)
        BY DEF PlaceInv, TypeOK
      <4>3. Append(ready, w) = ready \o <<w>>
        BY <4>2
      <4> QED BY <3>1, <4>1, <4>3 DEF Members
    <3>3. /\ W \in [Labels -> Seq(Threads)] /\ Unique(W)
          /\ Items(W) = Items(S) \cup {w}
      BY <1>1, <2>2, <3>1, <3>2, PushFamily
    <3>4. W[Ready] = Append(ready, w) /\ \A l \in Labels : l # Ready => W[l] = S[l]
      BY <1>1, <2>2, <3>2 DEF Push
    <3> QED BY <3>2, <3>3, <3>4
  <2> QED BY <2>1, <2>2
<1>3. /\ F \in [Labels -> Seq(Threads)] /\ Unique(F)
      /\ Items(F) = Items(W) \cup (IF last THEN {t} ELSE {})
      /\ F[Ready] = ready'
      /\ \A l \in Labels : l # Ready => F[l] = S[l]
  <2>0. ready \o woken \in Seq(Threads)
    BY DEF PlaceInv, TypeOK
  <2>1. CASE last
    <3>1. t \notin Items(W)
      BY <1>2, <2>1 DEF Members
    <3>2. /\ F \in [Labels -> Seq(Threads)] /\ Unique(F)
          /\ Items(F) = Items(W) \cup {t}
      <4>1. PICK V \in [Labels -> Seq(Threads)] : V = W
        BY <1>2
      <4>2. /\ V \in [Labels -> Seq(Threads)] /\ t \in Threads
            /\ Unique(V) /\ t \notin Items(V)
        BY <1>2, <3>1, <4>1
      <4>3. /\ Push(V, Ready, t) \in [Labels -> Seq(Threads)]
            /\ Unique(Push(V, Ready, t))
            /\ Items(Push(V, Ready, t)) = Items(V) \cup {t}
        BY ONLY <4>2, Enqueue
      <4>4. F = Push(V, Ready, t) /\ Items(V) = Items(W)
        BY <2>1, <4>1
      <4> HIDE DEF F, W
      <4> QED BY <4>3, <4>4
    <3>3. F[Ready] = Append(ready \o woken, t)
          /\ \A l \in Labels : l # Ready => F[l] = S[l]
      BY <1>1, <1>2, <2>1 DEF Push
    <3>4. ready' = Append(ready \o woken, t)
      BY <2>0, <2>1 DEF Finish
    <3> QED BY <2>1, <3>2, <3>3, <3>4
  <2>2. CASE ~last
    <3>1. ready' = ready \o woken
      BY <2>0, <2>2 DEF Finish
    <3> QED BY <1>2, <2>2, <3>1
  <2> QED BY <2>1, <2>2
<1>4. Queues' = F
  <2>1. Queues'[Current] = <<>>
    BY QueueValuesNext DEF QueueFacts, Finish
  <2> QED BY <1>1, <1>3, <2>1, SameQueues
<1>5. Unique(Queues') /\ Items(Queues') \subseteq used'
  BY <1>2, <1>3, <1>4
<1>6. tasks' \subseteq Items(Queues') /\ tasks' \subseteq used'
  BY <1>2, <1>3, <1>4 DEF Finish
<1>7. Items(Queues') = Items(S) \cup Members(woken) \cup (IF last THEN {t} ELSE {})
  BY <1>2, <1>3, <1>4
<1>8. Stale' = Items(Queues') \ tasks'
  BY DEF Stale
<1>9. StaleByKill
  <2>1. CASE ~killed /\ outcome # "exit"
    <3>1. tasks' = live /\ Items(Queues') \subseteq Items(S) \cup Members(woken) \cup {t}
      BY <1>7, <2>1 DEF Finish
    <3> QED BY <1>8, <3>1 DEF StaleByKill
  <2>2. CASE (killed \/ outcome = "exit") /\ outcome # "block"
    <3>1. /\ tasks' = live \ {t} /\ t \notin Items(S) /\ t \notin Members(woken)
          /\ Items(Queues') = Items(S) \cup Members(woken)
      BY <1>7, <2>2 DEF Finish, Members
    <3> QED BY <1>8, <3>1 DEF StaleByKill
  <2>3. CASE killed /\ outcome = "block"
    <3>1. /\ tasks' = live \ {t} /\ t \in Items(S) /\ fatal
          /\ Items(Queues') = Items(S) \cup Members(woken)
      BY <1>7, <2>3 DEF Finish
    <3> QED BY <1>8, <3>1 DEF StaleByKill
  <2> QED BY <2>1, <2>2, <2>3
<1> QED BY <1>5, <1>6, <1>9 DEF PlaceStep, PlaceInv, OnePlace

----------------------------------------------------------------------------
\* The four things a system call does to the object queues.

\* It leaves them alone.
LEMMA PlainPlaces ==
  ASSUME PlaceInv, TypeOK', NEW t \in Threads, current = t,
         NEW outcome \in {"suspend", "exit"}, NEW killed,
         \A l \in ObjectLabels : Queues'[l] = Queues[l],
         Finish(t, tasks, <<>>, outcome, killed), used' = used
  PROVE  PlaceStep
<1>1. /\ Kernel \in [Labels -> Seq(Threads)] /\ Unique(Kernel)
      /\ Kernel[Current] = <<>> /\ Kernel[Ready] = ready
      /\ \A l \in ObjectLabels : Kernel[l] = Queues[l]
      /\ Items(Kernel) = Items(Queues) \ {t}
      /\ t \in used /\ t \in Items(Queues)
  BY InKernel
<1>2. <<>> \in Seq(Threads) /\ Members(<<>>) = {}
  BY DEF Members
<1>3. /\ tasks \subseteq Items(Kernel) \cup Members(<<>>) \cup {t}
      /\ Items(Kernel) \cup Members(<<>>) \cup {t} \subseteq used'
      /\ tasks \in SUBSET Threads
      /\ t \notin Items(Kernel)
      /\ (Items(Kernel) \cup Members(<<>>) \cup {t}) \ tasks = Stale
  BY <1>1, <1>2 DEF PlaceInv, OnePlace, TypeOK, Stale
<1>4. \A l \in ObjectLabels : Queues'[l] = Kernel[l]
  BY <1>1
<1> QED BY <1>1, <1>2, <1>3, <1>4, FinishPlaces

\* It wakes the first waiter of queue l.
LEMMA WakePlaces ==
  ASSUME PlaceInv, TypeOK', NEW t \in Threads, current = t, NEW killed,
         NEW l \in ObjectLabels, Queues[l] # <<>>,
         Queues'[l] = Tail(Queues[l]),
         \A k \in ObjectLabels : k # l => Queues'[k] = Queues[k],
         Finish(t, tasks, <<Head(Queues[l])>>, "suspend", killed), used' = used
  PROVE  PlaceStep
<1> DEFINE w == Head(Queues[l])
           S == Pop(Kernel, l)
<1>1. /\ Kernel \in [Labels -> Seq(Threads)] /\ Unique(Kernel)
      /\ Kernel[Current] = <<>> /\ Kernel[Ready] = ready
      /\ \A k \in ObjectLabels : Kernel[k] = Queues[k]
      /\ Items(Kernel) = Items(Queues) \ {t}
      /\ t \in used /\ t \in Items(Queues)
  BY InKernel
<1>2. l \in Labels /\ Current # l /\ Ready # l /\ Current \in Labels /\ Ready \in Labels
      /\ ObjectLabels \subseteq Labels
  BY DEF ObjectLabels, Labels
<1>3. /\ S \in [Labels -> Seq(Threads)] /\ Unique(S)
      /\ w \in Items(Kernel) /\ Items(S) = Items(Kernel) \ {w}
  <2>1. Kernel[l] # <<>> /\ Head(Kernel[l]) = w
    BY <1>1
  <2>2. /\ Pop(Kernel, l) \in [Labels -> Seq(Threads)] /\ Unique(Pop(Kernel, l))
        /\ Head(Kernel[l]) \in Items(Kernel)
        /\ Items(Pop(Kernel, l)) = Items(Kernel) \ {Head(Kernel[l])}
    BY ONLY <1>1, <1>2, <2>1, PopFamily
  <2> QED BY <2>1, <2>2
<1>4. w \in Threads
  <2>1. Kernel[l] \in Seq(Threads) /\ Kernel[l] # <<>> /\ Head(Kernel[l]) = w
    BY <1>1, <1>2
  <2> QED BY <2>1
<1>5. S[Current] = <<>> /\ S[Ready] = ready
      /\ \A k \in ObjectLabels : Queues'[k] = S[k]
  BY <1>1, <1>2 DEF Pop
<1>6. Members(<<w>>) = {w} /\ <<w>> \in Seq(Threads)
  <2>1. DOMAIN <<w>> = {1} /\ <<w>>[1] = w
    OBVIOUS
  <2> QED BY <1>4, <2>1 DEF Members
<1>7. t \notin Items(S) /\ w \in Threads \ (Items(S) \cup {t})
  BY <1>1, <1>3, <1>4
<1>8. /\ tasks \subseteq Items(S) \cup Members(<<w>>) \cup {t}
      /\ Items(S) \cup Members(<<w>>) \cup {t} \subseteq used'
      /\ tasks \in SUBSET Threads
      /\ (Items(S) \cup Members(<<w>>) \cup {t}) \ tasks = Stale
  BY <1>1, <1>3, <1>6 DEF PlaceInv, OnePlace, TypeOK, Stale
<1> HIDE DEF w, S
<1>9. Finish(t, tasks, <<w>>, "suspend", killed)
  BY DEF w
<1> QED BY <1>3, <1>5, <1>6, <1>7, <1>8, <1>9, FinishPlaces

\* It puts the caller in queue l.
LEMMA BlockPlaces ==
  ASSUME PlaceInv, TypeOK', NEW t \in Threads, current = t, NEW killed,
         killed => fatal, NEW l \in ObjectLabels,
         Queues'[l] = Append(Queues[l], t),
         \A k \in ObjectLabels : k # l => Queues'[k] = Queues[k],
         Finish(t, tasks, <<>>, "block", killed), used' = used
  PROVE  PlaceStep
<1> DEFINE S == Push(Kernel, l, t)
<1>1. /\ Kernel \in [Labels -> Seq(Threads)] /\ Unique(Kernel)
      /\ Kernel[Current] = <<>> /\ Kernel[Ready] = ready
      /\ \A k \in ObjectLabels : Kernel[k] = Queues[k]
      /\ Items(Kernel) = Items(Queues) \ {t}
      /\ t \in used /\ t \in Items(Queues)
  BY InKernel
<1>2. l \in Labels /\ Current # l /\ Ready # l /\ Current \in Labels /\ Ready \in Labels
      /\ ObjectLabels \subseteq Labels
  BY DEF ObjectLabels, Labels
<1>3. /\ S \in [Labels -> Seq(Threads)] /\ Unique(S)
      /\ Items(S) = Items(Kernel) \cup {t}
  <2>1. t \in Threads /\ t \notin Items(Kernel)
    BY <1>1
  <2> QED BY ONLY <1>1, <1>2, <2>1, PushFamily
<1>5. S[Current] = <<>> /\ S[Ready] = ready
      /\ \A k \in ObjectLabels : Queues'[k] = S[k]
  BY <1>1, <1>2 DEF Push
<1>6. Members(<<>>) = {} /\ <<>> \in Seq(Threads)
  BY DEF Members
<1>7. t \in Items(S)
  BY <1>3
<1>8. /\ tasks \subseteq Items(S) \cup Members(<<>>) \cup {t}
      /\ Items(S) \cup Members(<<>>) \cup {t} \subseteq used'
      /\ tasks \in SUBSET Threads
      /\ (Items(S) \cup Members(<<>>) \cup {t}) \ tasks = Stale
  BY <1>1, <1>3, <1>6 DEF PlaceInv, OnePlace, TypeOK, Stale
<1> HIDE DEF S
<1> QED BY <1>3, <1>5, <1>6, <1>7, <1>8, FinishPlaces

\* It wakes the first waiter of queue l and puts the caller at its end.
LEMMA ExchangePlaces ==
  ASSUME PlaceInv, TypeOK', NEW t \in Threads, current = t, NEW killed,
         killed => fatal, NEW l \in ObjectLabels, Queues[l] # <<>>,
         Queues'[l] = Append(Tail(Queues[l]), t),
         \A k \in ObjectLabels : k # l => Queues'[k] = Queues[k],
         Finish(t, tasks, <<Head(Queues[l])>>, "block", killed), used' = used
  PROVE  PlaceStep
<1> DEFINE w == Head(Queues[l])
           P == Pop(Kernel, l)
           S == Push(P, l, t)
<1>1. /\ Kernel \in [Labels -> Seq(Threads)] /\ Unique(Kernel)
      /\ Kernel[Current] = <<>> /\ Kernel[Ready] = ready
      /\ \A k \in ObjectLabels : Kernel[k] = Queues[k]
      /\ Items(Kernel) = Items(Queues) \ {t}
      /\ t \in used /\ t \in Items(Queues)
  BY InKernel
<1>2. l \in Labels /\ Current # l /\ Ready # l /\ Current \in Labels /\ Ready \in Labels
      /\ ObjectLabels \subseteq Labels
  BY DEF ObjectLabels, Labels
<1>3. /\ P \in [Labels -> Seq(Threads)] /\ Unique(P)
      /\ w \in Items(Kernel) /\ Items(P) = Items(Kernel) \ {w}
  <2>1. Kernel[l] # <<>> /\ Head(Kernel[l]) = w
    BY <1>1
  <2>2. /\ Pop(Kernel, l) \in [Labels -> Seq(Threads)] /\ Unique(Pop(Kernel, l))
        /\ Head(Kernel[l]) \in Items(Kernel)
        /\ Items(Pop(Kernel, l)) = Items(Kernel) \ {Head(Kernel[l])}
    BY ONLY <1>1, <1>2, <2>1, PopFamily
  <2> QED BY <2>1, <2>2
<1>4. w \in Threads
  <2>1. Kernel[l] \in Seq(Threads) /\ Kernel[l] # <<>> /\ Head(Kernel[l]) = w
    BY <1>1, <1>2
  <2> QED BY <2>1
<1>5. P[Current] = <<>> /\ P[Ready] = ready /\ P[l] = Tail(Queues[l])
      /\ \A k \in ObjectLabels : k # l => P[k] = Queues[k]
  BY <1>1, <1>2 DEF Pop
<1>6. /\ S \in [Labels -> Seq(Threads)] /\ Unique(S)
      /\ Items(S) = Items(P) \cup {t}
  <2>1. t \in Threads /\ t \notin Items(P)
    BY <1>1, <1>3
  <2> HIDE DEF P
  <2> QED BY ONLY <1>2, <1>3, <2>1, PushFamily
<1>7. S[Current] = <<>> /\ S[Ready] = ready
      /\ \A k \in ObjectLabels : Queues'[k] = S[k]
  <2> HIDE DEF P
  <2> QED BY <1>2, <1>3, <1>5 DEF Push
<1>8. Members(<<w>>) = {w} /\ <<w>> \in Seq(Threads)
  <2>1. DOMAIN <<w>> = {1} /\ <<w>>[1] = w
    OBVIOUS
  <2> QED BY <1>4, <2>1 DEF Members
<1>9. t \in Items(S) /\ w \in Threads \ (Items(S) \cup {t})
  <2>1. w # t
    BY <1>1, <1>3
  <2> QED BY <1>3, <1>4, <1>6, <2>1
<1>10. /\ tasks \subseteq Items(S) \cup Members(<<w>>) \cup {t}
       /\ Items(S) \cup Members(<<w>>) \cup {t} \subseteq used'
       /\ tasks \in SUBSET Threads
       /\ (Items(S) \cup Members(<<w>>) \cup {t}) \ tasks = Stale
  BY <1>1, <1>3, <1>6, <1>8 DEF PlaceInv, OnePlace, TypeOK, Stale
<1> HIDE DEF w, P, S
<1>11. Finish(t, tasks, <<w>>, "block", killed)
  BY DEF w
<1> QED BY <1>6, <1>7, <1>8, <1>9, <1>10, <1>11, FinishPlaces

----------------------------------------------------------------------------
\* Every step keeps the invariant.
LEMMA PlaceInductive ==
  ASSUME PlaceInv, [Next]_vars
  PROVE  PlaceStep
<1>0. TypeOK /\ TypeOK'
  BY TypeInductive DEF PlaceInv
<1> USE <1>0
<1>1. CASE UNCHANGED <<current, ready, tasks, used, mutexes, sems, condvars>>
  <2>1. Queues' = Queues
    BY <1>1 DEF Queues, QueueAt
  <2> QED BY <1>1, <2>1 DEF PlaceInv, OnePlace, PlaceStep, StaleByKill, Stale
<1>2. CASE FindNext
  <2> DEFINE P == Pop(Queues, Ready)
             F == Push(P, Current, Head(ready))
  <2>1. Ready \in Labels /\ Current \in Labels /\ Current # Ready
        /\ ObjectLabels \subseteq Labels
        /\ Current \notin ObjectLabels /\ Ready \notin ObjectLabels
    BY DEF Labels, Current, Ready, ObjectLabels
  <2>2. /\ Queues \in [Labels -> Seq(Threads)] /\ Queues[Ready] = ready
        /\ Queues[Current] = <<>> /\ Unique(Queues) /\ ready # <<>>
    BY <1>2, QueueValues DEF QueueFacts, FindNext, PlaceInv, OnePlace
  <2>3. /\ P \in [Labels -> Seq(Threads)] /\ Unique(P)
        /\ Head(ready) \in Items(Queues) /\ Items(P) = Items(Queues) \ {Head(ready)}
    BY ONLY <2>1, <2>2, PopFamily
  <2>4. Head(ready) \in Threads
    BY <2>2 DEF TypeOK
  <2>5. P[Current] = <<>> /\ P[Ready] = Tail(ready)
        /\ \A l \in ObjectLabels : P[l] = Queues[l]
    BY <2>1, <2>2 DEF Pop
  <2>6. /\ F \in [Labels -> Seq(Threads)] /\ Unique(F)
        /\ Items(F) = Items(P) \cup {Head(ready)}
    <3>1. Head(ready) \notin Items(P)
      BY <2>3
    <3> HIDE DEF P
    <3> QED BY ONLY <2>1, <2>3, <2>4, <3>1, PushFamily
  <2>7. F[Current] = <<Head(ready)>> /\ F[Ready] = Tail(ready)
        /\ \A l \in ObjectLabels : F[l] = Queues[l]
    <3>1. Append(<<>>, Head(ready)) = <<Head(ready)>>
      OBVIOUS
    <3> HIDE DEF P
    <3> QED BY <2>1, <2>3, <2>5, <3>1 DEF Push
  <2> HIDE DEF P, F
  <2>8. \A l \in ObjectLabels : Queues'[l] = Queues[l]
    BY <1>2, ObjectsUnchanged DEF FindNext, objs
  <2>9. Queues'[Current] = <<Head(ready)>> /\ ready' = Tail(ready)
    <3>1. Head(ready) # None
      BY <2>4, NoneAssumption
    <3> QED BY <1>2, <3>1, QueueValuesNext DEF QueueFacts, FindNext
  <2>10. Queues' = F
    BY <2>6, <2>7, <2>8, <2>9, SameQueues
  <2>11. Items(Queues') = Items(Queues)
    BY <2>3, <2>6, <2>10
  <2>12. tasks' = tasks /\ used' = used
    BY <1>2 DEF FindNext
  <2> QED BY <2>6, <2>10, <2>11, <2>12 DEF PlaceInv, OnePlace, PlaceStep, StaleByKill, Stale
<1>3. CASE NoTask
  <2>1. CASE ready = <<>>
    <3>1. UNCHANGED <<current, ready, tasks, used, mutexes, sems, condvars>>
      BY <1>3, <2>1 DEF NoTask, objs, AfterPop
    <3> QED BY <1>1, <3>1
  <2>2. CASE ready # <<>>
    <3> DEFINE P == Pop(Queues, Ready)
    <3>1. Ready \in Labels /\ Current \in Labels /\ Current # Ready
          /\ ObjectLabels \subseteq Labels
          /\ Current \notin ObjectLabels /\ Ready \notin ObjectLabels
      BY DEF Labels, Current, Ready, ObjectLabels
    <3>2. /\ Queues \in [Labels -> Seq(Threads)] /\ Queues[Ready] = ready
          /\ Queues[Current] = <<>> /\ Unique(Queues) /\ ready # <<>>
      BY <1>3, <2>2, QueueValues DEF QueueFacts, NoTask, PlaceInv, OnePlace
    <3>3. /\ P \in [Labels -> Seq(Threads)] /\ Unique(P)
          /\ Items(P) = Items(Queues) \ {Head(ready)}
      BY ONLY <3>1, <3>2, PopFamily
    <3>4. P[Current] = <<>> /\ P[Ready] = Tail(ready)
          /\ \A l \in ObjectLabels : P[l] = Queues[l]
      BY <3>1, <3>2 DEF Pop
    <3> HIDE DEF P
    <3>5. \A l \in ObjectLabels : Queues'[l] = Queues[l]
      BY <1>3, ObjectsUnchanged DEF NoTask, objs
    <3>6. Queues'[Current] = <<>> /\ ready' = Tail(ready)
      BY <1>3, <2>2, QueueValuesNext DEF QueueFacts, NoTask, AfterPop
    <3>7. Queues' = P
      BY <3>3, <3>4, <3>5, <3>6, SameQueues
    <3>8. tasks' = tasks /\ used' = used /\ Head(ready) \notin tasks
      BY <1>3, <2>2 DEF NoTask
    <3> QED BY <3>3, <3>7, <3>8 DEF PlaceInv, OnePlace, PlaceStep, StaleByKill, Stale
  <2> QED BY <2>1, <2>2
<1>4. ASSUME NEW t \in Threads, Fault(t) PROVE PlaceStep
  <2>1. current = t
    BY <1>4 DEF Fault, Trapped
  <2>2. /\ Kernel \in [Labels -> Seq(Threads)] /\ Unique(Kernel)
        /\ Kernel[Current] = <<>> /\ Kernel[Ready] = ready
        /\ \A l \in ObjectLabels : Kernel[l] = Queues[l]
        /\ Items(Kernel) = Items(Queues) \ {t}
    BY <2>1, InKernel
  <2>3. \A l \in ObjectLabels : Queues'[l] = Queues[l]
    BY <1>4, ObjectsUnchanged DEF Fault, objs
  <2>4. Queues'[Current] = <<>> /\ ready' = ready
    BY <1>4, QueueValuesNext DEF QueueFacts, Fault
  <2>5. Queues' = Kernel
    BY <2>2, <2>3, <2>4, SameQueues
  <2>6. tasks' = tasks \ {t} /\ used' = used
    BY <1>4 DEF Fault
  <2> QED BY <2>2, <2>5, <2>6 DEF PlaceInv, OnePlace, PlaceStep, StaleByKill, Stale
\* System calls that leave the queues of the objects alone.
<1>5. ASSUME NEW t \in Threads,
             \/ OtherSyscall(t) \/ Exit(t) \/ KillSelf(t)
             \/ \E on \in BOOLEAN : EnableDeadlockDetect(t, on)
             \/ \E m \in MutexIds : MutexLockRefused(t, m)
      PROVE  PlaceStep
  <2>1. /\ current = t
        /\ used' = used
        /\ UNCHANGED <<mutexes, sems, condvars>>
        /\ \E outcome \in {"suspend", "exit"}, killed \in {TRUE, fatal} :
              Finish(t, tasks, <<>>, outcome, killed)
    BY <1>5 DEF OtherSyscall, Exit, KillSelf, EnableDeadlockDetect, MutexLockRefused,
                EndSyscall, Trapped, objs
  <2> QED BY <2>1, ObjectsUnchanged, PlainPlaces
<1>6. ASSUME NEW t \in Threads,
             \/ \E m \in MutexIds : MutexCreate(t, m)
             \/ \E s \in SemIds, n \in ResCounts : SemaphoreCreate(t, s, n)
             \/ \E c \in CondvarIds : CondvarCreate(t, c)
      PROVE  PlaceStep
  <2>1. current = t /\ used' = used /\ Finish(t, tasks, <<>>, "suspend", fatal)
    BY <1>6 DEF MutexCreate, SemaphoreCreate, CondvarCreate, EndSyscall, Trapped
  <2>2. \A l \in ObjectLabels : Queues'[l] = Queues[l]
    <3>1. CASE \E m \in MutexIds : MutexCreate(t, m)
      BY <3>1, EmptyObjectAdded DEF MutexCreate, FreeSlot
    <3>2. CASE \E s \in SemIds, n \in ResCounts : SemaphoreCreate(t, s, n)
      BY <3>2, EmptyObjectAdded DEF SemaphoreCreate, FreeSlot
    <3>3. CASE \E c \in CondvarIds : CondvarCreate(t, c)
      BY <3>3, EmptyObjectAdded DEF CondvarCreate, FreeSlot
    <3> QED BY <1>6, <3>1, <3>2, <3>3
  <2> QED BY <2>1, <2>2, PlainPlaces
<1>7. ASSUME NEW t \in Threads, NEW new \in Threads, ThreadCreate(t, new)
      PROVE  PlaceStep
  <2>1. /\ current = t /\ new \in Threads \ used /\ used' = used \cup {new}
        /\ Finish(t, tasks \cup {new}, <<new>>, "suspend", fatal)
    BY <1>7 DEF ThreadCreate, Trapped
  <2>2. /\ Kernel \in [Labels -> Seq(Threads)] /\ Unique(Kernel)
        /\ Kernel[Current] = <<>> /\ Kernel[Ready] = ready
        /\ \A l \in ObjectLabels : Kernel[l] = Queues[l]
        /\ Items(Kernel) = Items(Queues) \ {t}
        /\ t \in used /\ t \in Items(Queues)
    BY <2>1, InKernel
  <2>3. \A l \in ObjectLabels : Queues'[l] = Kernel[l]
    BY <1>7, <2>2, ObjectsUnchanged DEF ThreadCreate, objs
  <2>4. Members(<<new>>) = {new} /\ <<new>> \in Seq(Threads)
    <3>1. DOMAIN <<new>> = {1} /\ <<new>>[1] = new
      OBVIOUS
    <3> QED BY <3>1 DEF Members
  <2>5. Items(Queues) \subseteq used /\ tasks \subseteq Items(Queues)
        /\ tasks \cup {new} \in SUBSET Threads
    BY DEF PlaceInv, OnePlace, TypeOK
  <2>6. /\ new \in Threads \ (Items(Kernel) \cup {t})
        /\ t \notin Items(Kernel)
        /\ tasks \cup {new} \subseteq Items(Kernel) \cup Members(<<new>>) \cup {t}
        /\ Items(Kernel) \cup Members(<<new>>) \cup {t} \subseteq used'
        /\ (Items(Kernel) \cup Members(<<new>>) \cup {t}) \ (tasks \cup {new}) = Stale
    BY <2>1, <2>2, <2>4, <2>5 DEF Stale
  <2> QED BY <2>1, <2>2, <2>3, <2>4, <2>5, <2>6, FinishPlaces
\* System calls that move a waiter or the caller.
<1>8. ASSUME NEW t \in Threads, NEW m \in MutexIds, MutexLock(t, m)
      PROVE  PlaceStep
  <2>1. /\ current = t /\ m \in DOMAIN mutexes /\ used' = used
        /\ mutexes' = [mutexes EXCEPT ![m] = Lock(mutexes[m], t)]
        /\ UNCHANGED <<sems, condvars>>
        /\ Finish(t, tasks, <<>>,
                  IF LockGrants(mutexes[m]) THEN "suspend" ELSE "block", fatal)
    BY <1>8 DEF MutexLock, EndSyscall, Trapped
  <2>2. <<"mutex", m>> \in ObjectLabels
        /\ Queues[<<"mutex", m>>] = mutexes[m].wait_queue
    BY <2>1, QueueValues DEF QueueFacts
  <2>3. /\ Queues'[<<"mutex", m>>] = Lock(mutexes[m], t).wait_queue
        /\ \A l \in ObjectLabels : l # <<"mutex", m>> => Queues'[l] = Queues[l]
    BY <2>1, OneMutexChanged
  <2>4. mutexes[m] \in MutexObjects
    BY <2>1 DEF TypeOK
  <2>5. CASE LockGrants(mutexes[m])
    <3>1. Lock(mutexes[m], t).wait_queue = mutexes[m].wait_queue
      BY <2>4, <2>5 DEF Lock, MutexObjects
    <3> QED BY <2>1, <2>2, <2>3, <2>5, <3>1, PlainPlaces
  <2>6. CASE ~LockGrants(mutexes[m])
    <3>1. Lock(mutexes[m], t).wait_queue = Append(mutexes[m].wait_queue, t)
      BY <2>4, <2>6 DEF Lock, MutexObjects
    <3> QED BY <2>1, <2>2, <2>3, <2>6, <3>1, BlockPlaces
  <2> QED BY <2>5, <2>6
<1>9. ASSUME NEW t \in Threads, NEW m \in MutexIds, MutexUnlock(t, m)
      PROVE  PlaceStep
  <2> DEFINE q == mutexes[m].wait_queue
  <2>1. /\ current = t /\ m \in DOMAIN mutexes /\ used' = used
        /\ mutexes' = [mutexes EXCEPT ![m] = Unlock(mutexes[m])]
        /\ UNCHANGED <<sems, condvars>>
        /\ Finish(t, tasks, PopFront(q), "suspend", fatal)
    BY <1>9 DEF MutexUnlock, EndSyscall, Trapped, UnlockWakes
  <2>2. <<"mutex", m>> \in ObjectLabels /\ Queues[<<"mutex", m>>] = q
    BY <2>1, QueueValues DEF QueueFacts
  <2>3. /\ Queues'[<<"mutex", m>>] = AfterPop(q)
        /\ \A l \in ObjectLabels : l # <<"mutex", m>> => Queues'[l] = Queues[l]
    <3>1. Unlock(mutexes[m]).wait_queue = AfterPop(q)
      BY DEF Unlock
    <3> QED BY <2>1, <3>1, OneMutexChanged
  <2>4. CASE q = <<>>
    BY <2>1, <2>2, <2>3, <2>4, PlainPlaces DEF PopFront, AfterPop
  <2>5. CASE q # <<>>
    BY <2>1, <2>2, <2>3, <2>5, WakePlaces DEF PopFront, AfterPop
  <2> QED BY <2>4, <2>5
<1>10. ASSUME NEW t \in Threads, NEW s \in SemIds, SemaphoreUp(t, s)
       PROVE  PlaceStep
  <2> DEFINE q == sems[s].wait_queue
  <2>1. /\ current = t /\ s \in DOMAIN sems /\ used' = used
        /\ sems' = [sems EXCEPT ![s] = Up(sems[s])]
        /\ UNCHANGED <<mutexes, condvars>>
        /\ Finish(t, tasks, PopFront(q), "suspend", fatal)
    BY <1>10 DEF SemaphoreUp, EndSyscall, Trapped, UpWakes
  <2>2. <<"sem", s>> \in ObjectLabels /\ Queues[<<"sem", s>>] = q
    BY <2>1, QueueValues DEF QueueFacts
  <2>3. /\ Queues'[<<"sem", s>>] = AfterPop(q)
        /\ \A l \in ObjectLabels : l # <<"sem", s>> => Queues'[l] = Queues[l]
    <3>1. Up(sems[s]).wait_queue = AfterPop(q)
      BY DEF Up
    <3> QED BY <2>1, <3>1, OneSemaphoreChanged
  <2>4. CASE q = <<>>
    BY <2>1, <2>2, <2>3, <2>4, PlainPlaces DEF PopFront, AfterPop
  <2>5. CASE q # <<>>
    BY <2>1, <2>2, <2>3, <2>5, WakePlaces DEF PopFront, AfterPop
  <2> QED BY <2>4, <2>5
<1>11. ASSUME NEW t \in Threads, NEW s \in SemIds, SemaphoreDown(t, s)
       PROVE  PlaceStep
  <2>1. /\ current = t /\ s \in DOMAIN sems /\ used' = used
        /\ sems' = [sems EXCEPT ![s] = Down(sems[s], t)]
        /\ UNCHANGED <<mutexes, condvars>>
        /\ Finish(t, tasks, <<>>,
                  IF DownGrants(sems[s]) THEN "suspend" ELSE "block", fatal)
    BY <1>11 DEF SemaphoreDown, EndSyscall, Trapped
  <2>2. <<"sem", s>> \in ObjectLabels /\ Queues[<<"sem", s>>] = sems[s].wait_queue
    BY <2>1, QueueValues DEF QueueFacts
  <2>3. /\ Queues'[<<"sem", s>>] = Down(sems[s], t).wait_queue
        /\ \A l \in ObjectLabels : l # <<"sem", s>> => Queues'[l] = Queues[l]
    BY <2>1, OneSemaphoreChanged
  <2>4. CASE DownGrants(sems[s])
    <3>1. Down(sems[s], t).wait_queue = sems[s].wait_queue
      BY <2>4 DEF Down
    <3> QED BY <2>1, <2>2, <2>3, <2>4, <3>1, PlainPlaces
  <2>5. CASE ~DownGrants(sems[s])
    <3>1. Down(sems[s], t).wait_queue = Append(sems[s].wait_queue, t)
      BY <2>5 DEF Down
    <3> QED BY <2>1, <2>2, <2>3, <2>5, <3>1, BlockPlaces
  <2> QED BY <2>4, <2>5
<1>12. ASSUME NEW t \in Threads, NEW c \in CondvarIds, CondvarSignal(t, c)
       PROVE  PlaceStep
  <2> DEFINE q == condvars[c]
  <2>1. /\ current = t /\ c \in DOMAIN condvars /\ used' = used
        /\ condvars' = [condvars EXCEPT ![c] = AfterPop(q)]
        /\ UNCHANGED <<mutexes, sems>>
        /\ Finish(t, tasks, PopFront(q), "suspend", fatal)
    BY <1>12 DEF CondvarSignal, EndSyscall, Trapped, Signal, SignalWakes
  <2>2. <<"condvar", c>> \in ObjectLabels /\ Queues[<<"condvar", c>>] = q
    BY <2>1, QueueValues DEF QueueFacts
  <2>3. /\ Queues'[<<"condvar", c>>] = AfterPop(q)
        /\ \A l \in ObjectLabels : l # <<"condvar", c>> => Queues'[l] = Queues[l]
    BY <2>1, OneCondvarChanged
  <2>4. CASE q = <<>>
    BY <2>1, <2>2, <2>3, <2>4, PlainPlaces DEF PopFront, AfterPop
  <2>5. CASE q # <<>>
    BY <2>1, <2>2, <2>3, <2>5, WakePlaces DEF PopFront, AfterPop
  <2> QED BY <2>4, <2>5
<1>13. ASSUME NEW t \in Threads, NEW c \in CondvarIds, NEW m \in MutexIds,
              CondvarWait(t, c, m)
       PROVE  PlaceStep
  <2> DEFINE q == mutexes[m].wait_queue
  <2>1. m \in DOMAIN mutexes /\ q # <<>>
    BY <1>13 DEF CondvarWait, WaitLegal, UnlockWakes, PopFront
  <2>2. Unlock(mutexes[m]) = [locked |-> TRUE, wait_queue |-> Tail(q)]
    BY <2>1 DEF Unlock, AfterPop
  <2>3. WaitGrants(mutexes[m]) = FALSE /\ WaitWakes(mutexes[m]) = <<Head(q)>>
    BY <2>1, <2>2 DEF WaitGrants, LockGrants, WaitWakes, UnlockWakes, PopFront
  <2>4. WaitMutex(mutexes[m], t).wait_queue = Append(Tail(q), t)
    BY <2>1, <2>2 DEF WaitMutex, Lock, LockGrants
  <2>5. /\ current = t /\ used' = used
        /\ mutexes' = [mutexes EXCEPT ![m] = WaitMutex(mutexes[m], t)]
        /\ UNCHANGED <<sems, condvars>>
        /\ Finish(t, tasks, <<Head(q)>>, "block", fatal)
    BY <1>13, <2>3 DEF CondvarWait, EndSyscall, Trapped
  <2>6. <<"mutex", m>> \in ObjectLabels /\ Queues[<<"mutex", m>>] = q
    BY <2>1, QueueValues DEF QueueFacts
  <2>7. /\ Queues'[<<"mutex", m>>] = Append(Tail(q), t)
        /\ \A l \in ObjectLabels : l # <<"mutex", m>> => Queues'[l] = Queues[l]
    BY <2>1, <2>4, <2>5, OneMutexChanged
  <2> QED BY <2>1, <2>5, <2>6, <2>7, ExchangePlaces
<1>14. ASSUME NEW t \in Threads, ThreadStep(t) PROVE PlaceStep
  <2>1. CASE \/ BadHandle(t) \/ \E m \in MutexIds : UnlockUnlocked(t, m)
             \/ \E c \in CondvarIds, m \in MutexIds : WaitWithoutWaiter(t, c, m)
    <3>1. UNCHANGED <<current, ready, tasks, used, mutexes, sems, condvars>>
      BY <2>1 DEF BadHandle, UnlockUnlocked, WaitWithoutWaiter, Panic, sched, objs
    <3> QED BY <1>1, <3>1
  <2> QED BY <1>4, <1>5, <1>6, <1>7, <1>8, <1>9, <1>10, <1>11, <1>12, <1>13, <1>14, <2>1
          DEF ThreadStep
<1>15. CASE KillByOther \/ Halted \/ UNCHANGED vars
  <2>1. UNCHANGED <<current, ready, tasks, used, mutexes, sems, condvars>>
    BY <1>15 DEF KillByOther, Halted, vars, sched, objs
  <2> QED BY <1>1, <2>1
<1> QED BY <1>2, <1>3, <1>5, <1>14, <1>15 DEF Next, SignalStep

\* In the initial state the one thread is ready and there are no objects.
LEMMA PlaceInitial == ASSUME Init PROVE PlaceInv
<1>1. PICK main \in Threads :
         /\ current = None /\ ready = <<main>> /\ tasks = {main} /\ used = {main}
         /\ mutexes = <<>> /\ sems = <<>> /\ condvars = <<>>
  BY DEF Init
<1>2. TypeOK
  BY TypeInitial
<1>3. /\ Queues \in [Labels -> Seq(Threads)]
      /\ Queues[Current] = <<>> /\ Queues[Ready] = <<main>>
  BY <1>1, <1>2, QueueValues DEF QueueFacts
<1>4. \A l \in ObjectLabels : Queues[l] = <<>>
  BY <1>1 DEF Queues, QueueAt, ObjectLabels
<1>5. Ready \in Labels /\ Current \in Labels /\ Current # Ready
  BY DEF Labels, Current, Ready
<1>6. \A l \in Labels : Queues[l] = IF l = Ready THEN <<main>> ELSE <<>>
  BY <1>3, <1>4, <1>5 DEF ObjectLabels
<1>7. DOMAIN <<main>> = {1} /\ <<main>>[1] = main /\ DOMAIN <<>> = {}
  OBVIOUS
<1>8. \A l \in DOMAIN Queues : Members(Queues[l]) = IF l = Ready THEN {main} ELSE {}
  BY <1>3, <1>6, <1>7 DEF Members
<1>9. Items(Queues) = {main}
  BY <1>3, <1>5, <1>8 DEF Items
<1>10. Unique(Queues)
  BY <1>3, <1>6, <1>7 DEF Unique
<1> QED BY <1>1, <1>2, <1>9, <1>10 DEF PlaceInv, OnePlace

\* No thread of a process is lost and none is scheduled twice, whatever system
\* calls its threads make and whichever of them signals kill.
THEOREM NoThreadLost == Spec => []OnePlace
<1>1. Init => PlaceInv
  BY PlaceInitial
<1>2. PlaceInv /\ [Next]_vars => PlaceInv'
  BY PlaceInductive DEF PlaceStep
<1>3. PlaceInv => OnePlace
  BY DEF PlaceInv
<1> QED BY <1>1, <1>2, <1>3, PTL DEF Spec

\* No exit, no fault and no end of another thread leaves an id in a queue that find_next
\* would stop at; only a kill taken in the trap that queued the thread does.
THEOREM OnlyAKillLeavesIds == Spec => StaleOnlyByKill
<1>1. Init => PlaceInv
  BY PlaceInitial
<1>2. PlaceInv /\ [Next]_vars => PlaceInv' /\ [StaleByKill]_vars
  BY PlaceInductive DEF PlaceStep
<1> QED BY <1>1, <1>2, PTL DEF Spec, StaleOnlyByKill

\* Why an owner that waits does no harm: who waits does not run, so detection never
\* refuses a lock for a mutex that the caller does not hold (main.rs:796-800).
THEOREM WaiterIsNotRefused == TypeOK /\ OnePlace /\ OwnerHoldsOrWaits => NoFalseDeadlock
<1> SUFFICES ASSUME TypeOK, OnePlace, OwnerHoldsOrWaits,
                    NEW m \in DOMAIN mutexes, owner[m] # None, owner[m] = current
             PROVE  holder[m] = current
  BY DEF NoFalseDeadlock
<1>1. current # None
  OBVIOUS
<1>2. QueueFacts
  BY QueueValues
<1>3. /\ Queues[Current] = <<current>>
      /\ Queues[<<"mutex", m>>] = mutexes[m].wait_queue
      /\ Current \in DOMAIN Queues /\ <<"mutex", m>> \in DOMAIN Queues
      /\ <<"mutex", m>> # Current
  BY <1>1, <1>2 DEF QueueFacts, ObjectLabels, Labels, Current
<1>4. 1 \in DOMAIN Queues[Current] /\ Queues[Current][1] = current
  BY <1>3
<1>5. ASSUME current \in Members(mutexes[m].wait_queue) PROVE FALSE
  <2>1. PICK j \in DOMAIN mutexes[m].wait_queue : mutexes[m].wait_queue[j] = current
    BY <1>5 DEF Members
  <2>2. Unique(Queues)
    BY DEF OnePlace
  <2> QED BY <1>3, <1>4, <2>1, <2>2 DEF Unique
<1> QED BY <1>5 DEF OwnerHoldsOrWaits

----------------------------------------------------------------------------
\* Steps as they look from the mutexes and from the semaphores.

\* Four calls change what is kept about mutexes.
LEMMA MutexSteps ==
  ASSUME [Next]_vars
  PROVE  \/ UNCHANGED <<mutexes, owner, holder>>
         \/ \E t \in Threads, m \in MutexIds :
              \/ MutexCreate(t, m) \/ MutexLock(t, m) \/ MutexUnlock(t, m)
              \/ \E c \in CondvarIds : CondvarWait(t, c, m)
<1>1. ASSUME NEW t \in Threads, ThreadStep(t), ~UNCHANGED <<mutexes, owner, holder>>
      PROVE  \E m \in MutexIds :
               \/ MutexCreate(t, m) \/ MutexLock(t, m) \/ MutexUnlock(t, m)
               \/ \E c \in CondvarIds : CondvarWait(t, c, m)
  BY <1>1 DEF ThreadStep, OtherSyscall, Exit, Fault, ThreadCreate,
     MutexLockRefused, UnlockUnlocked, EnableDeadlockDetect, SemaphoreCreate,
     SemaphoreUp, SemaphoreDown, CondvarCreate, CondvarSignal, WaitWithoutWaiter,
     BadHandle, Panic, objs
<1>2. ASSUME FindNext \/ NoTask \/ SignalStep \/ Halted \/ UNCHANGED vars
      PROVE  UNCHANGED <<mutexes, owner, holder>>
  BY <1>2 DEF FindNext, NoTask, SignalStep, KillByOther, KillSelf, Halted, vars, objs
<1> QED BY <1>1, <1>2 DEF Next

\* Three calls change semaphores.
LEMMA SemaphoreSteps ==
  ASSUME [Next]_vars
  PROVE  \/ UNCHANGED sems
         \/ \E t \in Threads, s \in SemIds :
              \/ SemaphoreUp(t, s) \/ SemaphoreDown(t, s)
              \/ \E n \in ResCounts : SemaphoreCreate(t, s, n)
<1>1. ASSUME NEW t \in Threads, ThreadStep(t), ~UNCHANGED sems
      PROVE  \E s \in SemIds : \/ SemaphoreUp(t, s) \/ SemaphoreDown(t, s)
                               \/ \E n \in ResCounts : SemaphoreCreate(t, s, n)
  BY <1>1 DEF ThreadStep, OtherSyscall, Exit, Fault, ThreadCreate, MutexCreate,
     MutexLockRefused, MutexLock, MutexUnlock, UnlockUnlocked, EnableDeadlockDetect,
     CondvarCreate, CondvarSignal, CondvarWait, WaitWithoutWaiter, BadHandle, Panic, objs
<1>2. ASSUME FindNext \/ NoTask \/ SignalStep \/ Halted \/ UNCHANGED vars
      PROVE  UNCHANGED sems
  BY <1>2 DEF FindNext, NoTask, SignalStep, KillByOther, KillSelf, Halted, vars, objs
<1> QED BY <1>1, <1>2 DEF Next

\* The six things that happen to a mutex m whose queue is q by a call of thread t.
Replaces(m, q, locked, queue) ==
  /\ m \in DOMAIN mutexes /\ q = mutexes[m].wait_queue
  /\ mutexes' = [mutexes EXCEPT ![m] = [locked |-> locked, wait_queue |-> queue]]

IsCreated(m) ==
  /\ m \notin DOMAIN mutexes
  /\ mutexes' = Put(mutexes, m, MutexNew)
  /\ owner' = [owner EXCEPT ![m] = None] /\ holder' = holder

IsTaken(t, m, q) ==
  /\ Replaces(m, q, TRUE, q) /\ ~mutexes[m].locked
  /\ owner' = [owner EXCEPT ![m] = t] /\ holder' = [holder EXCEPT ![m] = t]

IsAwaited(t, m, q) ==
  /\ Replaces(m, q, TRUE, Append(q, t)) /\ mutexes[m].locked
  /\ UNCHANGED <<owner, holder>>

IsFreed(m, q) ==
  /\ Replaces(m, q, FALSE, <<>>) /\ mutexes[m].locked /\ q = <<>>
  /\ owner' = [owner EXCEPT ![m] = None] /\ holder' = [holder EXCEPT ![m] = None]

IsPassed(t, m, q) ==
  /\ Replaces(m, q, TRUE, Tail(q)) /\ mutexes[m].locked /\ q # <<>>
  /\ owner' = [owner EXCEPT ![m] = Head(q)] /\ holder' = [holder EXCEPT ![m] = Head(q)]
  /\ Head(q) \in Members(ready')

\* In condvar_wait: owner is as it was.
IsExchanged(t, m, q) ==
  /\ Replaces(m, q, TRUE, Append(Tail(q), t)) /\ mutexes[m].locked /\ q # <<>>
  /\ owner' = owner /\ holder' = [holder EXCEPT ![m] = Head(q)]
  /\ Head(q) \in Members(ready')

MutexMove(t, m, q) ==
  \/ IsCreated(m) \/ IsTaken(t, m, q) \/ IsAwaited(t, m, q)
  \/ IsFreed(m, q) \/ IsPassed(t, m, q) \/ IsExchanged(t, m, q)

\* Whom a call wakes stands in the ready queue afterwards.
LEMMA WokenReady ==
  ASSUME TypeOK, NEW t \in Threads, NEW w \in Threads, NEW live, NEW outcome, NEW killed,
         Finish(t, live, <<w>>, outcome, killed)
  PROVE  w \in Members(ready')
<1> DEFINE last == IF ~killed /\ outcome = "suspend" THEN <<t>> ELSE <<>>
<1>1. ready \in Seq(Threads) /\ <<w>> \in Seq(Threads) /\ last \in Seq(Threads)
  BY DEF TypeOK
<1>2. w \in Members(<<w>>)
  <2>1. DOMAIN <<w>> = {1} /\ <<w>>[1] = w
    OBVIOUS
  <2> QED BY <2>1 DEF Members
<1>3. ready' = (ready \o <<w>>) \o last
  BY DEF Finish
<1> HIDE DEF last
<1>4. ready \o <<w>> \in Seq(Threads) /\ w \in Members(ready \o <<w>>)
  <2>1. Members(ready \o <<w>>) = Members(ready) \cup Members(<<w>>)
    BY <1>1, ConcatMembers
  <2> QED BY <1>1, <1>2, <2>1
<1>5. Members((ready \o <<w>>) \o last) = Members(ready \o <<w>>) \cup Members(last)
  BY <1>1, <1>4, ConcatMembers, ZenonT(40)
<1> QED BY <1>3, <1>4, <1>5

\* Who is first in a queue is woken and becomes the owner.
LEMMA FirstIsReceiver ==
  ASSUME NEW q \in Seq(Threads), q # <<>>
  PROVE  PopFront(q) = <<Head(q)>> /\ AfterPop(q) = Tail(q) /\ Receiver(PopFront(q)) = Head(q)
<1>1. <<Head(q)>> # <<>> /\ Head(<<Head(q)>>) = Head(q)
  OBVIOUS
<1> QED BY <1>1 DEF PopFront, AfterPop, Receiver

\* Nothing else happens to mutexes, in any step.
LEMMA MutexMoves ==
  ASSUME TypeOK, [Next]_vars
  PROVE  \/ UNCHANGED <<mutexes, owner, holder>>
         \/ \E t \in Threads, m \in MutexIds, q \in Seq(Threads) :
              current = t /\ MutexMove(t, m, q)
<1> SUFFICES ASSUME NEW t \in Threads, NEW m \in MutexIds,
                    \/ MutexCreate(t, m) \/ MutexLock(t, m) \/ MutexUnlock(t, m)
                    \/ \E c \in CondvarIds : CondvarWait(t, c, m)
             PROVE  current = t /\ \E q \in Seq(Threads) : MutexMove(t, m, q)
  BY MutexSteps
<1>1. CASE MutexCreate(t, m)
  <2>1. current = t /\ IsCreated(m)
    BY <1>1 DEF MutexCreate, FreeSlot, IsCreated, Trapped
  <2>2. <<>> \in Seq(Threads)
    OBVIOUS
  <2> QED BY <2>1, <2>2 DEF MutexMove
<1>2. CASE ~MutexCreate(t, m)
  <2> DEFINE mu == mutexes[m]
             q == mutexes[m].wait_queue
  <2>1. m \in DOMAIN mutexes
    BY <1>2 DEF MutexLock, MutexUnlock, CondvarWait
  <2>2. /\ mu \in MutexObjects /\ q \in Seq(Threads) /\ mu.locked \in BOOLEAN
        /\ mu = [locked |-> mu.locked, wait_queue |-> q]
    BY <2>1 DEF TypeOK, MutexObjects
  <2>3. q # <<>> => Head(q) \in Threads
    BY <2>2
  <2>4. CASE MutexLock(t, m)
    <3>1. /\ current = t /\ mutexes' = [mutexes EXCEPT ![m] = Lock(mu, t)]
          /\ ~mu.locked => owner' = [owner EXCEPT ![m] = t] /\ holder' = [holder EXCEPT ![m] = t]
          /\ mu.locked => UNCHANGED <<owner, holder>>
      BY <2>4 DEF MutexLock, Trapped, SetOwner, LockGrants
    <3>2. CASE mu.locked
      <4>1. Lock(mu, t) = [locked |-> TRUE, wait_queue |-> Append(q, t)]
        BY <2>2, <3>2 DEF Lock, LockGrants
      <4>2. IsAwaited(t, m, q)
        BY <2>1, <3>1, <3>2, <4>1 DEF IsAwaited, Replaces
      <4> QED BY <2>2, <3>1, <4>2 DEF MutexMove
    <3>3. CASE ~mu.locked
      <4>1. Lock(mu, t) = [locked |-> TRUE, wait_queue |-> q]
        BY <2>2, <3>3 DEF Lock, LockGrants
      <4>2. IsTaken(t, m, q)
        BY <2>1, <3>1, <3>3, <4>1 DEF IsTaken, Replaces
      <4> QED BY <2>2, <3>1, <4>2 DEF MutexMove
    <3> QED BY <3>2, <3>3
  <2>5. CASE MutexUnlock(t, m)
    <3>1. /\ current = t /\ mu.locked
          /\ mutexes' = [mutexes EXCEPT ![m] = Unlock(mu)]
          /\ owner' = [owner EXCEPT ![m] = Receiver(PopFront(q))]
          /\ holder' = [holder EXCEPT ![m] = Receiver(PopFront(q))]
          /\ Finish(t, tasks, PopFront(q), "suspend", fatal)
      BY <2>5 DEF MutexUnlock, Trapped, SetOwner, UnlockLegal, UnlockWakes, EndSyscall
    <3>2. CASE q = <<>>
      <4>1. Unlock(mu) = [locked |-> FALSE, wait_queue |-> <<>>]
            /\ Receiver(PopFront(q)) = None
        BY <3>2 DEF Unlock, AfterPop, PopFront, Receiver
      <4>2. IsFreed(m, q)
        BY <2>1, <3>1, <3>2, <4>1 DEF IsFreed, Replaces
      <4> QED BY <2>2, <3>1, <4>2 DEF MutexMove
    <3>3. CASE q # <<>>
      <4>1. Unlock(mu) = [locked |-> TRUE, wait_queue |-> Tail(q)]
            /\ PopFront(q) = <<Head(q)>> /\ Receiver(PopFront(q)) = Head(q)
        BY <2>2, <3>3, FirstIsReceiver DEF Unlock
      <4>2. Head(q) \in Members(ready')
        <5>1. Finish(t, tasks, <<Head(q)>>, "suspend", fatal)
          BY <3>1, <4>1
        <5> QED BY <2>3, <3>3, <5>1, WokenReady
      <4>3. IsPassed(t, m, q)
        BY <2>1, <3>1, <3>3, <4>1, <4>2 DEF IsPassed, Replaces
      <4> QED BY <2>2, <3>1, <4>3 DEF MutexMove
    <3> QED BY <3>2, <3>3
  <2>6. ASSUME NEW c \in CondvarIds, CondvarWait(t, c, m)
        PROVE  current = t /\ \E p \in Seq(Threads) : MutexMove(t, m, p)
    <3>1. mu.locked /\ q # <<>>
      BY <2>6 DEF CondvarWait, WaitLegal, UnlockLegal, UnlockWakes, PopFront
    <3>2. Unlock(mu) = [locked |-> TRUE, wait_queue |-> Tail(q)]
      BY <3>1 DEF Unlock, AfterPop
    <3>3. /\ WaitWakes(mu) = <<Head(q)>> /\ Receiver(WaitWakes(mu)) = Head(q)
          /\ WaitMutex(mu, t) = [locked |-> TRUE, wait_queue |-> Append(Tail(q), t)]
          /\ ~WaitGrants(mu)
      <4>1. WaitWakes(mu) = <<Head(q)>> /\ Receiver(WaitWakes(mu)) = Head(q)
        BY <2>2, <3>1, FirstIsReceiver DEF WaitWakes, UnlockWakes
      <4>2. Unlock(mu).locked /\ Unlock(mu).wait_queue = Tail(q)
        BY <3>2
      <4>3. ~WaitGrants(mu)
        BY <4>2 DEF LockGrants, WaitGrants
      <4>4. /\ WaitMutex(mu, t).wait_queue = Append(Tail(q), t)
            /\ WaitMutex(mu, t).locked
        BY <4>2, <3>2 DEF WaitMutex, Lock, LockGrants
      <4>5. WaitMutex(mu, t) = [locked |-> TRUE, wait_queue |-> Append(Tail(q), t)]
        <5>1. WaitMutex(mu, t) \in MutexObjects
          BY <2>2, MutexType
        <5>2. PICK x \in MutexObjects : x = WaitMutex(mu, t)
          BY <5>1
        <5>3. x.locked \in BOOLEAN /\ x = [locked |-> x.locked, wait_queue |-> x.wait_queue]
          BY DEF MutexObjects
        <5> QED BY <4>4, <5>2, <5>3
      <4> QED BY <4>1, <4>3, <4>5
    <3>4. /\ current = t
          /\ mutexes' = [mutexes EXCEPT ![m] = WaitMutex(mu, t)]
          /\ holder' = [holder EXCEPT ![m] = Head(q)] /\ owner' = owner
          /\ Finish(t, tasks, <<Head(q)>>, "block", fatal)
      BY <2>6, <3>3 DEF CondvarWait, Trapped, EndSyscall
    <3>5. Head(q) \in Members(ready')
      BY <2>3, <3>1, <3>4, WokenReady
    <3>6. IsExchanged(t, m, q)
      BY <2>1, <3>1, <3>3, <3>4, <3>5 DEF IsExchanged, Replaces
    <3> QED BY <2>2, <3>4, <3>6 DEF MutexMove
  <2> QED BY <1>2, <2>4, <2>5, <2>6
<1> QED BY <1>1, <1>2

\* One mutex is replaced and the others stay.
LEMMA OneReplaced ==
  ASSUME TypeOK, NEW m, NEW q, NEW locked, NEW queue,
         Replaces(m, q, locked, queue)
  PROVE  /\ DOMAIN mutexes' = DOMAIN mutexes /\ m \in DOMAIN mutexes /\ m \in MutexIds
         /\ mutexes'[m].wait_queue = queue /\ mutexes'[m].locked = locked
         /\ \A k \in DOMAIN mutexes : k # m => mutexes'[k] = mutexes[k]
<1>1. /\ m \in DOMAIN mutexes /\ DOMAIN mutexes \subseteq MutexIds
      /\ mutexes \in [DOMAIN mutexes -> MutexObjects]
      /\ mutexes' = [mutexes EXCEPT ![m] = [locked |-> locked, wait_queue |-> queue]]
  BY DEF Replaces, TypeOK
<1> QED BY <1>1

----------------------------------------------------------------------------
\* What mutex_owners says.

\* Calls keep the table true, or too early, as long as a mutex that changes hands
\* was the caller's.
LEMMA OwnersInductive ==
  ASSUME TypeOK, OwnerHoldsOrWaits, [Next]_vars, UNCHANGED vars \/ ReleasedByHolder
  PROVE  OwnerHoldsOrWaits'
<1>0. /\ owner \in [MutexIds -> OptThread] /\ holder \in [MutexIds -> OptThread]
      /\ DOMAIN mutexes \subseteq MutexIds
      /\ \A k \in DOMAIN mutexes : mutexes[k].wait_queue \in Seq(Threads)
  BY DEF TypeOK, MutexObjects
<1>1. CASE UNCHANGED <<mutexes, owner, holder>>
  BY <1>1 DEF OwnerHoldsOrWaits
<1>2. ASSUME NEW t \in Threads, NEW m \in MutexIds, NEW q \in Seq(Threads),
             current = t, MutexMove(t, m, q), ~UNCHANGED <<mutexes, owner, holder>>
      PROVE  OwnerHoldsOrWaits'
  <2>0. ReleasedByHolder
    BY <1>2 DEF vars, objs
  <2>1. CASE IsCreated(m)
    BY <1>0, <2>1 DEF IsCreated, Put, OwnerHoldsOrWaits
  <2>2. ASSUME NEW mu, NEW o, NEW h, m \in DOMAIN mutexes,
               mutexes' = [mutexes EXCEPT ![m] = mu],
               owner' = [owner EXCEPT ![m] = o], holder' = [holder EXCEPT ![m] = h],
               o # None => o = h \/ o \in Members(mu.wait_queue)
        PROVE  OwnerHoldsOrWaits'
    BY <1>0, <2>2 DEF OwnerHoldsOrWaits
  <2>3. owner = [owner EXCEPT ![m] = owner[m]] /\ holder = [holder EXCEPT ![m] = holder[m]]
    BY <1>0
  <2>4. CASE IsTaken(t, m, q)
    BY <2>2, <2>4 DEF IsTaken, Replaces
  <2>5. CASE IsAwaited(t, m, q)
    <3>1. q = mutexes[m].wait_queue /\ Members(q) \subseteq Members(Append(q, t))
      BY <2>5, AppendMembers DEF IsAwaited, Replaces
    <3>2. owner[m] # None => owner[m] = holder[m] \/ owner[m] \in Members(Append(q, t))
      BY <2>5, <3>1 DEF OwnerHoldsOrWaits, IsAwaited, Replaces
    <3> QED BY <2>2, <2>3, <2>5, <3>2 DEF IsAwaited, Replaces
  <2>6. CASE IsFreed(m, q)
    BY <2>2, <2>6 DEF IsFreed, Replaces
  <2>7. CASE IsPassed(t, m, q)
    BY <2>2, <2>7 DEF IsPassed, Replaces
  <2>8. CASE IsExchanged(t, m, q)
    <3> DEFINE h == Head(q)
    <3>1. /\ q = mutexes[m].wait_queue /\ m \in DOMAIN mutexes /\ owner' = owner
          /\ holder' = [holder EXCEPT ![m] = h]
          /\ mutexes' = [mutexes EXCEPT ![m] = [locked |-> TRUE, wait_queue |-> Append(Tail(q), t)]]
      BY <2>8 DEF IsExchanged, Replaces
    <3>2. Tail(q) \in Seq(Threads) /\ Members(q) = {h} \cup Members(Tail(q))
      BY <2>8, TailMembers DEF IsExchanged
    <3>3. Members(Append(Tail(q), t)) = Members(Tail(q)) \cup {t}
      <4>1. PICK r \in Seq(Threads) : r = Tail(q)
        BY <3>2
      <4>2. Members(Append(r, t)) = Members(r) \cup {t}
        BY AppendMembers
      <4> QED BY <4>1, <4>2
    \* Whoever held the mutex is the caller, and waits from now on.
    <3>4. owner[m] # None /\ owner[m] = holder[m] => owner[m] = h \/ owner[m] = t
      <4>1. holder'[m] = h
        BY <1>0, <3>1
      <4> QED BY <1>2, <2>0, <4>1 DEF ReleasedByHolder
    <3>5. owner[m] # None => owner[m] = h \/ owner[m] \in Members(Append(Tail(q), t))
      BY <3>1, <3>2, <3>3, <3>4 DEF OwnerHoldsOrWaits
    <3>6. owner' = [owner EXCEPT ![m] = owner[m]]
      BY <2>3, <3>1
    <3> QED BY <2>2, <3>1, <3>5, <3>6
  <2> QED BY <1>2, <2>1, <2>4, <2>5, <2>6, <2>7, <2>8 DEF MutexMove
<1> QED BY <1>1, <1>2, MutexMoves

\* With threads that release only what they hold, mutex_owners names at worst a
\* thread that already waits for the mutex.
THEOREM OwnersAreTold == OrderlySpec => []OwnersTold
<1> DEFINE Told == TypeOK /\ OwnersTold
<1>1. OrderlyInit => Told
  <2>1. Init => TypeOK
    BY TypeInitial
  <2>2. Init => OwnerHoldsOrWaits
    <3>1. DOMAIN <<>> = {}
      OBVIOUS
    <3> QED BY <3>1 DEF Init, OwnerHoldsOrWaits
  <2> QED BY <2>1, <2>2 DEF OrderlyInit, OwnersTold
<1>2. Told /\ [OrderlyNext]_<<vars, orderly>> => Told'
  <2> SUFFICES ASSUME TypeOK, OwnersTold, [OrderlyNext]_<<vars, orderly>>
               PROVE  TypeOK' /\ OwnersTold'
    OBVIOUS
  <2>1. [Next]_vars
    BY DEF OrderlyNext
  <2>2. TypeOK'
    BY <2>1, TypeInductive
  <2>3. ASSUME orderly' PROVE orderly /\ (UNCHANGED vars \/ ReleasedByHolder)
    BY <2>3 DEF OrderlyNext
  <2>4. ASSUME orderly' PROVE OwnerHoldsOrWaits'
    <3>1. OwnerHoldsOrWaits
      BY <2>3, <2>4 DEF OwnersTold
    <3> QED BY <2>1, <2>3, <2>4, <3>1, OwnersInductive
  <2> QED BY <2>2, <2>4 DEF OwnersTold
<1>3. Told => OwnersTold
  OBVIOUS
<1> QED BY <1>1, <1>2, <1>3, PTL DEF OrderlySpec

\* Then deadlock detection refuses no lock to a thread that does not hold the mutex
\* (main.rs:796-800): the theorem about a state, on every state of such a process.
THEOREM DetectionAccusesNobodyWrongly == OrderlySpec => [](orderly => NoFalseDeadlock)
<1>1. OrderlySpec => Spec
  <2>1. OrderlyInit => Init
    BY DEF OrderlyInit
  <2>2. [OrderlyNext]_<<vars, orderly>> => [Next]_vars
    BY DEF OrderlyNext
  <2> QED BY <2>1, <2>2, PTL DEF OrderlySpec, Spec
<1>2. TypeOK /\ OnePlace /\ OwnersTold => (orderly => NoFalseDeadlock)
  BY WaiterIsNotRefused DEF OwnersTold
<1> QED BY <1>1, <1>2, TypeCorrect, NoThreadLost, OwnersAreTold, PTL

\* The same for semaphores, whose count is n and whose queue is q afterwards.
Counts(s, q, n, queue) ==
  /\ s \in DOMAIN sems /\ q = sems[s].wait_queue
  /\ sems' = [sems EXCEPT ![s] = [count |-> n, wait_queue |-> queue]]

IsMade(s) ==
  /\ s \notin DOMAIN sems
  /\ \E n \in Int : sems' = Put(sems, s, [count |-> n, wait_queue |-> <<>>])

IsDown(t, s, q) ==
  IF sems[s].count > 0 THEN Counts(s, q, sems[s].count - 1, q)
                       ELSE Counts(s, q, sems[s].count - 1, Append(q, t))

IsUp(s, q) ==
  /\ Counts(s, q, sems[s].count + 1, AfterPop(q))
  /\ q # <<>> => Head(q) \in Members(ready')

SemaphoreMove(t, s, q) == IsMade(s) \/ IsDown(t, s, q) \/ IsUp(s, q)

\* Nothing else happens to semaphores.
LEMMA SemaphoreMoves ==
  ASSUME TypeOK, [Next]_vars
  PROVE  \/ UNCHANGED sems
         \/ \E t \in Threads, s \in SemIds, q \in Seq(Threads) :
              current = t /\ SemaphoreMove(t, s, q)
<1> SUFFICES ASSUME NEW t \in Threads, NEW s \in SemIds,
                    \/ SemaphoreUp(t, s) \/ SemaphoreDown(t, s)
                    \/ \E n \in ResCounts : SemaphoreCreate(t, s, n)
             PROVE  current = t /\ \E q \in Seq(Threads) : SemaphoreMove(t, s, q)
  BY SemaphoreSteps
<1>1. ASSUME NEW n \in ResCounts, SemaphoreCreate(t, s, n)
      PROVE  current = t /\ \E q \in Seq(Threads) : SemaphoreMove(t, s, q)
  <2>1. current = t /\ IsMade(s)
    BY <1>1, CountAssumption DEF SemaphoreCreate, FreeSlot, IsMade, Trapped, SemaphoreNew
  <2>2. <<>> \in Seq(Threads)
    OBVIOUS
  <2> QED BY <2>1, <2>2 DEF SemaphoreMove
<1>2. CASE SemaphoreUp(t, s) \/ SemaphoreDown(t, s)
  <2> DEFINE sem == sems[s]
             q == sems[s].wait_queue
  <2>1. s \in DOMAIN sems
    BY <1>2 DEF SemaphoreUp, SemaphoreDown
  <2>2. sem \in SemaphoreObjects /\ q \in Seq(Threads) /\ sem.count \in Int
    BY <2>1 DEF TypeOK, SemaphoreObjects
  <2>3. q # <<>> => Head(q) \in Threads
    BY <2>2
  <2>4. CASE SemaphoreUp(t, s)
    <3>1. /\ current = t /\ sems' = [sems EXCEPT ![s] = Up(sem)]
          /\ Finish(t, tasks, PopFront(q), "suspend", fatal)
      BY <2>4 DEF SemaphoreUp, Trapped, EndSyscall, UpWakes
    <3>2. Counts(s, q, sem.count + 1, AfterPop(q))
      BY <2>1, <3>1 DEF Counts, Up
    <3>3. q # <<>> => Head(q) \in Members(ready')
      <4> SUFFICES ASSUME q # <<>> PROVE Head(q) \in Members(ready')
        OBVIOUS
      <4>1. Finish(t, tasks, <<Head(q)>>, "suspend", fatal)
        BY <2>2, <3>1, FirstIsReceiver
      <4> QED BY <2>3, <4>1, WokenReady
    <3> QED BY <2>2, <3>1, <3>2, <3>3 DEF SemaphoreMove, IsUp
  <2>5. CASE SemaphoreDown(t, s)
    <3>1. current = t /\ sems' = [sems EXCEPT ![s] = Down(sem, t)]
      BY <2>5 DEF SemaphoreDown, Trapped
    <3>2. DownGrants(sem) <=> sem.count > 0
      BY <2>2 DEF DownGrants
    <3>3. IsDown(t, s, q)
      BY <2>1, <3>1, <3>2 DEF IsDown, Counts, Down
    <3> QED BY <2>2, <3>1, <3>3 DEF SemaphoreMove
  <2> QED BY <1>2, <2>4, <2>5
<1> QED BY <1>1, <1>2

\* One semaphore is replaced and the others stay.
LEMMA OneCounted ==
  ASSUME TypeOK, NEW s, NEW q, NEW n, NEW queue, Counts(s, q, n, queue)
  PROVE  /\ DOMAIN sems' = DOMAIN sems /\ s \in DOMAIN sems /\ s \in SemIds
         /\ sems'[s].wait_queue = queue /\ sems'[s].count = n
         /\ \A k \in DOMAIN sems : k # s => sems'[k] = sems[k]
<1>1. /\ s \in DOMAIN sems /\ DOMAIN sems \subseteq SemIds
      /\ sems \in [DOMAIN sems -> SemaphoreObjects]
      /\ sems' = [sems EXCEPT ![s] = [count |-> n, wait_queue |-> queue]]
  BY DEF Counts, TypeOK
<1> QED BY <1>1

----------------------------------------------------------------------------
\* Who leaves a wait queue.

\* A mutex is left by the one it is passed to, and by nobody else.
LEMMA MutexGrantsStep ==
  ASSUME TypeOK, [Next]_vars
  PROVE  MutexGrants
<1>0. /\ holder \in [MutexIds -> OptThread] /\ DOMAIN mutexes \subseteq MutexIds
      /\ \A k \in DOMAIN mutexes : mutexes[k].wait_queue \in Seq(Threads)
  BY DEF TypeOK, MutexObjects
<1>1. CASE UNCHANGED <<mutexes, owner, holder>>
  BY <1>1 DEF MutexGrants
<1>2. ASSUME NEW t \in Threads, NEW m \in MutexIds, NEW q \in Seq(Threads), MutexMove(t, m, q)
      PROVE  MutexGrants
  <2>1. CASE IsCreated(m)
    BY <2>1 DEF IsCreated, Put, MutexGrants
  <2>2. ASSUME NEW locked, NEW queue, Replaces(m, q, locked, queue),
               \A u \in Threads : u \in Members(q) /\ u \notin Members(queue)
                 => u = Head(q) /\ holder'[m] = u /\ u \in Members(ready')
        PROVE  MutexGrants
    <3>1. q = mutexes[m].wait_queue
      BY <2>2 DEF Replaces
    <3>2. /\ mutexes'[m].wait_queue = queue
          /\ \A k \in DOMAIN mutexes : k # m => mutexes'[k] = mutexes[k]
      BY <2>2, OneReplaced
    <3> QED BY <2>2, <3>1, <3>2 DEF MutexGrants
  <2>3. CASE IsTaken(t, m, q)
    BY <2>2, <2>3 DEF IsTaken
  <2>4. CASE IsAwaited(t, m, q)
    <3>1. Members(q) \subseteq Members(Append(q, t))
      BY AppendMembers
    <3> QED BY <2>2, <2>4, <3>1 DEF IsAwaited
  <2>5. CASE IsFreed(m, q)
    <3>1. Members(q) = {}
      BY <2>5 DEF IsFreed, Members
    <3> QED BY <2>2, <2>5, <3>1 DEF IsFreed
  <2>6. ASSUME IsPassed(t, m, q) \/ IsExchanged(t, m, q) PROVE MutexGrants
    <3>1. /\ Tail(q) \in Seq(Threads) /\ Members(q) = {Head(q)} \cup Members(Tail(q))
      BY <2>6, TailMembers DEF IsPassed, IsExchanged
    <3>2. Members(Tail(q)) \subseteq Members(Append(Tail(q), t))
      <4>1. PICK r \in Seq(Threads) : r = Tail(q)
        BY <3>1
      <4>2. Members(Append(r, t)) = Members(r) \cup {t}
        BY AppendMembers
      <4> QED BY <4>1, <4>2
    <3>3. holder'[m] = Head(q) /\ Head(q) \in Members(ready')
      BY <1>0, <2>6 DEF IsPassed, IsExchanged
    <3>4. \/ Replaces(m, q, TRUE, Tail(q))
          \/ Replaces(m, q, TRUE, Append(Tail(q), t))
      BY <2>6 DEF IsPassed, IsExchanged
    <3> QED BY <2>2, <3>1, <3>2, <3>3, <3>4
  <2> QED BY <1>2, <2>1, <2>3, <2>4, <2>5, <2>6 DEF MutexMove
<1> QED BY <1>1, <1>2, MutexMoves

\* A semaphore is left by the one who gets the unit given back.
LEMMA SemaphoreGrantsStep ==
  ASSUME TypeOK, [Next]_vars
  PROVE  SemaphoreGrants
<1>0. /\ DOMAIN sems \subseteq SemIds
      /\ \A k \in DOMAIN sems : sems[k].wait_queue \in Seq(Threads) /\ sems[k].count \in Int
  BY DEF TypeOK, SemaphoreObjects
<1>1. CASE UNCHANGED sems
  BY <1>1 DEF SemaphoreGrants
<1>2. ASSUME NEW t \in Threads, NEW s \in SemIds, NEW q \in Seq(Threads), SemaphoreMove(t, s, q)
      PROVE  SemaphoreGrants
  <2>1. CASE IsMade(s)
    BY <2>1 DEF IsMade, Put, SemaphoreGrants
  <2>2. ASSUME NEW n, NEW queue, Counts(s, q, n, queue),
               \A u \in Threads : u \in Members(q) /\ u \notin Members(queue)
                 => u = Head(q) /\ u \in Members(ready') /\ n = sems[s].count + 1
        PROVE  SemaphoreGrants
    <3>1. q = sems[s].wait_queue
      BY <2>2 DEF Counts
    <3>2. /\ sems'[s].wait_queue = queue /\ sems'[s].count = n
          /\ \A k \in DOMAIN sems : k # s => sems'[k] = sems[k]
      BY <2>2, OneCounted
    <3> QED BY <2>2, <3>1, <3>2 DEF SemaphoreGrants
  <2>3. CASE IsDown(t, s, q)
    <3>1. Members(q) \subseteq Members(Append(q, t))
      BY AppendMembers
    <3> QED BY <2>2, <2>3, <3>1 DEF IsDown
  <2>4. CASE IsUp(s, q)
    <3>1. CASE q = <<>>
      <4>1. Members(q) = {}
        BY <3>1 DEF Members
      <4> QED BY <2>2, <2>4, <4>1 DEF IsUp
    <3>2. CASE q # <<>>
      <4>1. Members(q) = {Head(q)} \cup Members(AfterPop(q))
        BY <3>2, TailMembers DEF AfterPop
      <4> QED BY <2>2, <2>4, <3>2, <4>1 DEF IsUp
    <3> QED BY <3>1, <3>2
  <2> QED BY <1>2, <2>1, <2>3, <2>4 DEF SemaphoreMove
<1> QED BY <1>1, <1>2, SemaphoreMoves

\* First come first served: a thread leaves a wait queue from its front, into the ready
\* queue, with the mutex it waited for or a unit of the semaphore.
THEOREM WokenHasWhatItWaitedFor == Spec => WokenWithGrant
<1>1. TypeOK /\ [Next]_vars => [MutexGrants /\ SemaphoreGrants]_vars
  BY MutexGrantsStep, SemaphoreGrantsStep
<1> QED BY <1>1, TypeCorrect, PTL DEF Spec, WokenWithGrant

----------------------------------------------------------------------------
\* Every mutex and every semaphore keeps the promise of BlockingResource.

Distinct(q) == \A i, j \in DOMAIN q : q[i] = q[j] => i = j

\* In a queue without repetition only its head leaves with the head.
LEMMA HeadLeaves ==
  ASSUME NEW S, NEW q \in Seq(S), q # <<>>, Distinct(q)
  PROVE  /\ Tail(q) \in Seq(S) /\ Head(q) \in S /\ Head(q) \in Members(q)
         /\ Members(Tail(q)) = Members(q) \ {Head(q)}
<1>1. /\ Tail(q) \in Seq(S) /\ Head(q) \in S
      /\ Members(q) = {Head(q)} \cup Members(Tail(q))
  BY TailMembers
<1>2. Head(q) \notin Members(Tail(q))
  <2> SUFFICES ASSUME NEW i \in DOMAIN Tail(q), Tail(q)[i] = Head(q) PROVE FALSE
    BY DEF Members
  <2>1. i \in 1..(Len(q) - 1) /\ Tail(q)[i] = q[i + 1] /\ Head(q) = q[1]
        /\ DOMAIN q = 1..Len(q) /\ Len(q) \in Nat
    OBVIOUS
  <2>2. i + 1 \in DOMAIN q /\ 1 \in DOMAIN q /\ i + 1 # 1
    BY <2>1
  <2> QED BY <2>1, <2>2 DEF Distinct
<1> QED BY <1>1, <1>2

\* A thread in the kernel waits nowhere, and nobody waits twice in one queue.
LEMMA WaitersApart ==
  ASSUME TypeOK, OnePlace
  PROVE  /\ \A m \in DOMAIN mutexes : /\ Distinct(mutexes[m].wait_queue)
                                      /\ current \notin Members(mutexes[m].wait_queue)
         /\ \A s \in DOMAIN sems : /\ Distinct(sems[s].wait_queue)
                                   /\ current \notin Members(sems[s].wait_queue)
<1>1. Unique(Queues) /\ QueueFacts
  BY QueueValues DEF OnePlace
<1>2. Current \in DOMAIN Queues /\ DOMAIN Queues = Labels
  BY <1>1 DEF QueueFacts, Labels
<1>3. ASSUME NEW l \in ObjectLabels, Queues[l] \in Seq(Threads)
      PROVE  Distinct(Queues[l]) /\ current \notin Members(Queues[l])
  <2>1. l \in DOMAIN Queues /\ l # Current
    BY <1>2 DEF ObjectLabels
  <2>2. Distinct(Queues[l])
    BY <1>1, <2>1 DEF Unique, Distinct
  <2>3. CASE current = None
    <3>1. \A i \in DOMAIN Queues[l] : Queues[l][i] \in Threads
      BY <1>3
    <3> QED BY <2>2, <2>3, <3>1, NoneAssumption DEF Members
  <2>4. CASE current # None
    <3>1. Queues[Current] = <<current>>
      BY <1>1, <2>4 DEF QueueFacts
    <3>2. 1 \in DOMAIN Queues[Current] /\ Queues[Current][1] = current
      BY <3>1
    <3>3. \A i \in DOMAIN Queues[l] : Queues[l][i] # current
      BY <1>1, <1>2, <2>1, <3>2 DEF Unique
    <3> QED BY <2>2, <3>3 DEF Members
  <2> QED BY <2>3, <2>4
<1>4. ASSUME NEW m \in DOMAIN mutexes
      PROVE  /\ Distinct(mutexes[m].wait_queue)
             /\ current \notin Members(mutexes[m].wait_queue)
  <2>1. <<"mutex", m>> \in ObjectLabels /\ Queues[<<"mutex", m>>] = mutexes[m].wait_queue
    BY <1>1 DEF QueueFacts
  <2>2. mutexes[m].wait_queue \in Seq(Threads)
    BY DEF TypeOK, MutexObjects
  <2> QED BY <1>3, <2>1, <2>2
<1>5. ASSUME NEW s \in DOMAIN sems
      PROVE  /\ Distinct(sems[s].wait_queue)
             /\ current \notin Members(sems[s].wait_queue)
  <2>1. <<"sem", s>> \in ObjectLabels /\ Queues[<<"sem", s>>] = sems[s].wait_queue
    BY <1>1 DEF QueueFacts
  <2>2. sems[s].wait_queue \in Seq(Threads)
    BY DEF TypeOK, SemaphoreObjects
  <2> QED BY <1>3, <2>1, <2>2
<1> QED BY <1>4, <1>5

\* The state that BlockingResource sees of the mutexes, by name.
Taken(m) == IF m \in DOMAIN mutexes /\ ~mutexes[m].locked THEN 1 ELSE 0
MutexFree == [m \in MutexIds |-> Taken(m)]
MutexWaiters ==
  [m \in MutexIds |-> IF m \in DOMAIN mutexes THEN Members(mutexes[m].wait_queue) ELSE {}]

\* A replaced mutex changes the view at its id only.
LEMMA ReplacedView ==
  ASSUME TypeOK, NEW m, NEW q, NEW locked \in BOOLEAN, NEW queue,
         Replaces(m, q, locked, queue)
  PROVE  /\ m \in MutexIds /\ m \in DOMAIN mutexes /\ DOMAIN mutexes' = DOMAIN mutexes
         /\ MutexFree[m] = (IF mutexes[m].locked THEN 0 ELSE 1)
         /\ MutexWaiters[m] = Members(q)
         /\ MutexFree' = [MutexFree EXCEPT ![m] = IF locked THEN 0 ELSE 1]
         /\ MutexWaiters' = [MutexWaiters EXCEPT ![m] = Members(queue)]
<1>1. /\ DOMAIN mutexes' = DOMAIN mutexes /\ m \in DOMAIN mutexes /\ m \in MutexIds
      /\ mutexes'[m].wait_queue = queue /\ mutexes'[m].locked = locked
      /\ \A k \in DOMAIN mutexes : k # m => mutexes'[k] = mutexes[k]
  BY OneReplaced
<1>2. q = mutexes[m].wait_queue
  BY DEF Replaces
<1>3. MutexFree' = [MutexFree EXCEPT ![m] = IF locked THEN 0 ELSE 1]
  BY <1>1 DEF MutexFree, Taken
<1>4. MutexWaiters' = [MutexWaiters EXCEPT ![m] = Members(queue)]
  BY <1>1 DEF MutexWaiters
<1> QED BY <1>1, <1>2, <1>3, <1>4 DEF MutexFree, MutexWaiters, Taken

\* Every step moves one mutex as BlockingResource allows, or none.
LEMMA MutexFollows ==
  ASSUME TypeOK, OnePlace, [Next]_vars
  PROVE  [MutexResource!Next]_<<DOMAIN mutexes, MutexFree, MutexWaiters>>
<1>1. CASE UNCHANGED <<mutexes, owner, holder>>
  BY <1>1 DEF MutexFree, MutexWaiters, Taken
<1>2. ASSUME NEW t \in Threads, NEW m \in MutexIds, NEW q \in Seq(Threads),
             current = t, MutexMove(t, m, q)
      PROVE  MutexResource!Next
  <2>1. CASE IsCreated(m)
    <3>1. m \notin DOMAIN mutexes /\ DOMAIN mutexes' = DOMAIN mutexes \cup {m}
          /\ mutexes'[m] = MutexNew /\ \A k \in DOMAIN mutexes : mutexes'[k] = mutexes[k]
      BY <2>1 DEF IsCreated, Put
    <3>2. /\ ~mutexes'[m].locked /\ mutexes'[m].wait_queue = <<>> /\ Members(<<>>) = {}
      BY <3>1 DEF MutexNew, Members
    <3>3. MutexFree' = [MutexFree EXCEPT ![m] = 1] /\ MutexFree'[m] = 1
      <4>1. \A k \in MutexIds : Taken(k)' = IF k = m THEN 1 ELSE Taken(k)
        BY <3>1, <3>2 DEF Taken
      <4> QED BY <4>1 DEF MutexFree
    <3>5. MutexWaiters' = MutexWaiters
      <4>1. \A k \in MutexIds : MutexWaiters'[k] = MutexWaiters[k]
        BY <3>1, <3>2 DEF MutexWaiters
      <4> QED BY <4>1 DEF MutexWaiters
    <3>4. MutexResource!Create(m)
      BY <3>1, <3>3, <3>5 DEF MutexResource!Create, MutexFree, MutexWaiters, Taken
    <3> QED BY <3>4 DEF MutexResource!Next
  <2>2. /\ MutexFree \in [MutexIds -> {0, 1}]
        /\ MutexWaiters \in [MutexIds -> SUBSET Threads]
    <3>1. \A k \in DOMAIN mutexes : Members(mutexes[k].wait_queue) \subseteq Threads
      BY DEF TypeOK, MutexObjects, Members
    <3> QED BY <3>1 DEF MutexFree, MutexWaiters, Taken
  <2> DEFINE Viewed(locked, queue) ==
               /\ m \in MutexIds /\ m \in DOMAIN mutexes /\ DOMAIN mutexes' = DOMAIN mutexes
               /\ MutexFree[m] = (IF mutexes[m].locked THEN 0 ELSE 1)
               /\ MutexWaiters[m] = Members(q)
               /\ MutexFree' = [MutexFree EXCEPT ![m] = IF locked THEN 0 ELSE 1]
               /\ MutexWaiters' = [MutexWaiters EXCEPT ![m] = Members(queue)]
  <2>3. ASSUME NEW locked \in BOOLEAN, NEW queue, Replaces(m, q, locked, queue)
        PROVE  Viewed(locked, queue) /\ Distinct(q) /\ t \notin Members(q)
    <3>1. Viewed(locked, queue)
      BY <2>3, ReplacedView
    <3>2. m \in DOMAIN mutexes /\ q = mutexes[m].wait_queue
      BY <2>3 DEF Replaces
    <3> HIDE DEF Viewed
    <3> QED BY <1>2, <3>1, <3>2, WaitersApart
  <2>4. Members(<<>>) = {} /\ Members(Append(q, t)) = Members(q) \cup {t}
    <3>1. Members(<<>>) = {}
      BY DEF Members
    <3> QED BY <3>1, AppendMembers
  <2>5. CASE IsTaken(t, m, q)
    <3>1. Viewed(TRUE, q) /\ ~mutexes[m].locked
      BY <2>3, <2>5 DEF IsTaken
    <3>2. MutexFree[m] = 1 /\ MutexFree' = [MutexFree EXCEPT ![m] = MutexFree[m] - 1]
          /\ MutexWaiters' = MutexWaiters
      BY <2>2, <3>1
    <3>3. MutexResource!Take(m)
      BY <3>1, <3>2 DEF MutexResource!Take, MutexFree, MutexWaiters, Taken
    <3> QED BY <3>1, <3>3 DEF MutexResource!Next
  <2>6. CASE IsAwaited(t, m, q)
    <3>1. Viewed(TRUE, Append(q, t)) /\ mutexes[m].locked /\ t \notin Members(q)
      BY <2>3, <2>6 DEF IsAwaited
    <3>2. /\ MutexFree[m] = 0 /\ MutexFree' = MutexFree /\ t \notin MutexWaiters[m]
          /\ MutexWaiters' = [MutexWaiters EXCEPT ![m] = MutexWaiters[m] \cup {t}]
      BY <2>2, <2>4, <3>1
    <3>3. MutexResource!Wait(m, t)
      BY <3>1, <3>2 DEF MutexResource!Wait, MutexFree, MutexWaiters, Taken
    <3> QED BY <3>1, <3>3 DEF MutexResource!Next
  <2>7. CASE IsFreed(m, q)
    <3>1. Viewed(FALSE, <<>>) /\ mutexes[m].locked /\ q = <<>>
      BY <2>3, <2>7 DEF IsFreed
    <3>2. /\ MutexWaiters[m] = {} /\ MutexWaiters' = MutexWaiters
          /\ MutexFree' = [MutexFree EXCEPT ![m] = MutexFree[m] + 1]
      BY <2>2, <2>4, <3>1
    <3>3. MutexResource!Give(m)
      BY <3>1, <3>2 DEF MutexResource!Give, MutexFree, MutexWaiters, Taken
    <3> QED BY <3>1, <3>3 DEF MutexResource!Next
  <2>8. CASE IsPassed(t, m, q)
    <3>1. /\ Viewed(TRUE, Tail(q)) /\ mutexes[m].locked /\ q # <<>> /\ Distinct(q)
      BY <2>3, <2>8 DEF IsPassed
    <3>2. /\ Head(q) \in Threads /\ Head(q) \in Members(q)
          /\ Members(Tail(q)) = Members(q) \ {Head(q)}
      BY <3>1, HeadLeaves
    <3>3. /\ MutexFree' = MutexFree /\ Head(q) \in MutexWaiters[m]
          /\ MutexWaiters' = [MutexWaiters EXCEPT ![m] = MutexWaiters[m] \ {Head(q)}]
      BY <2>2, <3>1, <3>2
    <3>4. MutexResource!HandOff(m, Head(q))
      BY <3>1, <3>3 DEF MutexResource!HandOff, MutexFree, MutexWaiters, Taken
    <3> QED BY <3>1, <3>2, <3>4 DEF MutexResource!Next
  <2>9. CASE IsExchanged(t, m, q)
    <3>1. /\ Viewed(TRUE, Append(Tail(q), t)) /\ mutexes[m].locked /\ q # <<>>
          /\ Distinct(q) /\ t \notin Members(q)
      BY <2>3, <2>9 DEF IsExchanged
    <3>2. /\ Tail(q) \in Seq(Threads) /\ Head(q) \in Threads /\ Head(q) \in Members(q)
          /\ Members(Tail(q)) = Members(q) \ {Head(q)}
      BY <3>1, HeadLeaves
    <3>3. Members(Append(Tail(q), t)) = (Members(q) \ {Head(q)}) \cup {t}
      <4>1. PICK r \in Seq(Threads) : r = Tail(q)
        BY <3>2
      <4>2. Members(Append(r, t)) = Members(r) \cup {t}
        BY AppendMembers
      <4> QED BY <3>2, <4>1, <4>2
    <3>4. /\ MutexFree' = MutexFree /\ Head(q) \in MutexWaiters[m] /\ t \notin MutexWaiters[m]
          /\ MutexWaiters' =
               [MutexWaiters EXCEPT ![m] = (MutexWaiters[m] \ {Head(q)}) \cup {t}]
      BY <2>2, <3>1, <3>2, <3>3
    <3>5. MutexResource!Exchange(m, Head(q), t)
      BY <3>1, <3>4 DEF MutexResource!Exchange, MutexFree, MutexWaiters, Taken
    <3> QED BY <3>1, <3>2, <3>5 DEF MutexResource!Next
  <2> QED BY <1>2, <2>1, <2>5, <2>6, <2>7, <2>8, <2>9 DEF MutexMove
<1> QED BY <1>1, <1>2, MutexMoves

\* Whatever count a semaphore was created with, its waiters are owed by its count.
Owed(count, q) == q # <<>> => count + Len(q) <= 0
WaitersOwed == \A s \in DOMAIN sems : Owed(sems[s].count, sems[s].wait_queue)

\* How one call moves count and queue.
LEMMA OwedKept ==
  ASSUME NEW n \in Int, NEW q \in Seq(Threads), NEW t \in Threads, Owed(n, q)
  PROVE  /\ n > 0 => Owed(n - 1, q)
         /\ ~(n > 0) => Owed(n - 1, Append(q, t))
         /\ Owed(n + 1, AfterPop(q))
         /\ q # <<>> => ~(n > 0) /\ ~(n + 1 > 0)
<1>1. /\ Len(q) \in Nat /\ Len(<<>>) = 0 /\ Len(Append(q, t)) = Len(q) + 1
      /\ q = <<>> => Len(q) = 0
      /\ q # <<>> => Len(q) > 0 /\ Len(Tail(q)) = Len(q) - 1
  OBVIOUS
<1> QED BY <1>1 DEF Owed, AfterPop

\* Every call keeps it for every semaphore.
LEMMA OwedInductive ==
  ASSUME TypeOK, WaitersOwed, [Next]_vars
  PROVE  WaitersOwed'
<1>0. \A k \in DOMAIN sems : sems[k].wait_queue \in Seq(Threads) /\ sems[k].count \in Int
  BY DEF TypeOK, SemaphoreObjects
<1>1. CASE UNCHANGED sems
  BY <1>1 DEF WaitersOwed
<1>2. ASSUME NEW t \in Threads, NEW s \in SemIds, NEW q \in Seq(Threads), SemaphoreMove(t, s, q)
      PROVE  WaitersOwed'
  <2>1. CASE IsMade(s)
    BY <2>1 DEF IsMade, Put, WaitersOwed, Owed
  <2>2. ASSUME NEW n, NEW queue, Counts(s, q, n, queue), Owed(n, queue)
        PROVE  WaitersOwed'
    <3>1. /\ DOMAIN sems' = DOMAIN sems
          /\ sems'[s].wait_queue = queue /\ sems'[s].count = n
          /\ \A k \in DOMAIN sems : k # s => sems'[k] = sems[k]
      BY <2>2, OneCounted
    <3> QED BY <2>2, <3>1 DEF WaitersOwed
  <2>3. ASSUME s \in DOMAIN sems, q = sems[s].wait_queue
        PROVE  /\ sems[s].count > 0 => Owed(sems[s].count - 1, q)
               /\ ~(sems[s].count > 0) => Owed(sems[s].count - 1, Append(q, t))
               /\ Owed(sems[s].count + 1, AfterPop(q))
    BY <1>0, <2>3, OwedKept DEF WaitersOwed
  <2>4. CASE IsDown(t, s, q)
    BY <2>2, <2>3, <2>4 DEF IsDown, Counts
  <2>5. CASE IsUp(s, q)
    BY <2>2, <2>3, <2>5 DEF IsUp, Counts
  <2> QED BY <1>2, <2>1, <2>4, <2>5 DEF SemaphoreMove
<1> QED BY <1>1, <1>2, SemaphoreMoves

\* The state that BlockingResource sees of the semaphores.
Units(count) == IF count > 0 THEN count ELSE 0
SemFree == [s \in SemIds |-> IF s \in DOMAIN sems /\ sems[s].count > 0 THEN sems[s].count ELSE 0]
SemWaiters ==
  [s \in SemIds |-> IF s \in DOMAIN sems THEN Members(sems[s].wait_queue) ELSE {}]

\* A changed semaphore changes the view at its id only.
LEMMA CountsView ==
  ASSUME TypeOK, NEW s, NEW q, NEW n \in Int, NEW queue, Counts(s, q, n, queue)
  PROVE  /\ s \in SemIds /\ s \in DOMAIN sems /\ DOMAIN sems' = DOMAIN sems
         /\ SemFree[s] = Units(sems[s].count)
         /\ SemWaiters[s] = Members(q)
         /\ SemFree' = [SemFree EXCEPT ![s] = Units(n)]
         /\ SemWaiters' = [SemWaiters EXCEPT ![s] = Members(queue)]
<1>1. /\ DOMAIN sems' = DOMAIN sems /\ s \in DOMAIN sems /\ s \in SemIds
      /\ sems'[s].wait_queue = queue /\ sems'[s].count = n
      /\ \A k \in DOMAIN sems : k # s => sems'[k] = sems[k]
  BY OneCounted
<1>2. q = sems[s].wait_queue
  BY DEF Counts
<1>3. SemFree' = [SemFree EXCEPT ![s] = Units(n)]
  <2>1. \A k \in SemIds : SemFree'[k] = IF k = s THEN Units(n) ELSE SemFree[k]
    BY <1>1 DEF SemFree, Units
  <2> QED BY <2>1 DEF SemFree
<1>4. SemWaiters' = [SemWaiters EXCEPT ![s] = Members(queue)]
  BY <1>1 DEF SemWaiters
<1> QED BY <1>1, <1>2, <1>3, <1>4 DEF SemFree, SemWaiters, Units

\* Every step moves one semaphore as BlockingResource allows, or none.
LEMMA SemaphoreFollows ==
  ASSUME TypeOK, OnePlace, WaitersOwed, [Next]_vars
  PROVE  [SemResource!Next]_<<DOMAIN sems, SemFree, SemWaiters>>
<1> USE DEF SemFree, SemWaiters
<1>1. CASE UNCHANGED sems
  BY <1>1
<1> HIDE DEF SemFree, SemWaiters
<1>2. ASSUME NEW t \in Threads, NEW s \in SemIds, NEW q \in Seq(Threads),
             current = t, SemaphoreMove(t, s, q)
      PROVE  SemResource!Next \/ UNCHANGED <<DOMAIN sems, SemFree, SemWaiters>>
  <2>1. CASE IsMade(s)
    <3>1. PICK n \in Int :
            s \notin DOMAIN sems /\ DOMAIN sems' = DOMAIN sems \cup {s}
              /\ sems'[s] = [count |-> n, wait_queue |-> <<>>]
              /\ \A k \in DOMAIN sems : sems'[k] = sems[k]
      BY <2>1 DEF IsMade, Put
    <3>2. /\ sems'[s].count = n /\ sems'[s].wait_queue = <<>> /\ Members(<<>>) = {}
      BY <3>1 DEF Members
    <3>3. SemFree' = [SemFree EXCEPT ![s] = Units(n)] /\ SemFree'[s] = Units(n)
      BY <3>1, <3>2 DEF SemFree, Units
    <3>4. Units(n) \in Nat
      BY DEF Units
    <3>5. SemWaiters' = SemWaiters
      <4>1. \A k \in SemIds : SemWaiters'[k] = SemWaiters[k]
        BY <3>1, <3>2 DEF SemWaiters
      <4> QED BY <4>1 DEF SemWaiters
    <3>6. SemResource!Create(s)
      BY <3>1, <3>3, <3>4, <3>5 DEF SemResource!Create, SemFree, SemWaiters
    <3> QED BY <3>6 DEF SemResource!Next
  <2>2. /\ SemFree \in [SemIds -> Nat]
        /\ SemWaiters \in [SemIds -> SUBSET Threads]
    <3>1. \A k \in DOMAIN sems : Members(sems[k].wait_queue) \subseteq Threads
                                   /\ sems[k].count \in Int
      BY DEF TypeOK, SemaphoreObjects, Members
    <3> QED BY <3>1 DEF SemFree, SemWaiters
  <2> DEFINE c == sems[s].count
             Viewed(n, queue) ==
               /\ s \in SemIds /\ s \in DOMAIN sems /\ DOMAIN sems' = DOMAIN sems
               /\ SemFree[s] = Units(c)
               /\ SemWaiters[s] = Members(q)
               /\ SemFree' = [SemFree EXCEPT ![s] = Units(n)]
               /\ SemWaiters' = [SemWaiters EXCEPT ![s] = Members(queue)]
  <2>3. ASSUME NEW n, NEW queue, Counts(s, q, n, queue), n = c + 1 \/ n = c - 1
        PROVE  /\ Viewed(n, queue) /\ Distinct(q) /\ t \notin Members(q) /\ c \in Int
               /\ q # <<>> => ~(c > 0) /\ ~(c + 1 > 0)
    <3>1. s \in DOMAIN sems /\ q = sems[s].wait_queue
      BY <2>3 DEF Counts
    <3>2. c \in Int /\ Owed(c, q)
      BY <3>1 DEF TypeOK, SemaphoreObjects, WaitersOwed
    <3>3. n \in Int
      BY <2>3, <3>2
    <3>4. Viewed(n, queue)
      BY <2>3, <3>3, CountsView
    <3>5. Distinct(q) /\ t \notin Members(q)
      BY <1>2, <3>1, WaitersApart
    <3> HIDE DEF Viewed, c
    <3>6. q # <<>> => ~(c > 0) /\ ~(c + 1 > 0)
      BY <3>2, OwedKept
    <3> QED BY <3>2, <3>4, <3>5, <3>6
  <2>4. Members(<<>>) = {} /\ Members(Append(q, t)) = Members(q) \cup {t}
    <3>1. Members(<<>>) = {}
      BY DEF Members
    <3> QED BY <3>1, AppendMembers
  <2>5. CASE IsDown(t, s, q) /\ sems[s].count > 0
    <3>1. Viewed(c - 1, q) /\ c \in Int /\ c > 0
      BY <2>3, <2>5 DEF IsDown
    <3>2. SemFree[s] > 0 /\ SemFree' = [SemFree EXCEPT ![s] = SemFree[s] - 1]
          /\ SemWaiters' = SemWaiters
      <4>1. Units(c) > 0 /\ Units(c - 1) = Units(c) - 1
        BY <3>1 DEF Units
      <4>2. SemFree' = [SemFree EXCEPT ![s] = SemFree[s] - 1]
        BY <3>1, <4>1, Zenon
      <4> QED BY <2>2, <3>1, <4>1, <4>2
    <3>3. SemResource!Take(s)
      BY <3>1, <3>2 DEF SemResource!Take, SemFree, SemWaiters
    <3> QED BY <3>1, <3>3 DEF SemResource!Next
  <2>6. CASE IsDown(t, s, q) /\ ~(sems[s].count > 0)
    <3>1. Viewed(c - 1, Append(q, t)) /\ c \in Int /\ ~(c > 0) /\ t \notin Members(q)
      BY <2>3, <2>6 DEF IsDown
    <3>2. /\ SemFree[s] = 0 /\ SemFree' = SemFree /\ t \notin SemWaiters[s]
          /\ SemWaiters' = [SemWaiters EXCEPT ![s] = SemWaiters[s] \cup {t}]
      BY <2>2, <2>4, <3>1 DEF Units
    <3>3. SemResource!Wait(s, t)
      BY <3>1, <3>2 DEF SemResource!Wait, SemFree, SemWaiters
    <3> QED BY <3>1, <3>3 DEF SemResource!Next
  \* A unit given back: free, or still owed to nobody while the count is negative.
  <2>7. CASE IsUp(s, q) /\ q = <<>>
    <3>1. Viewed(c + 1, <<>>) /\ c \in Int
      BY <2>3, <2>7 DEF IsUp, AfterPop
    <3>2. SemWaiters[s] = {} /\ SemWaiters' = SemWaiters
      BY <2>2, <2>4, <2>7, <3>1
    <3>3. CASE c >= 0
      <4>1. SemFree' = [SemFree EXCEPT ![s] = SemFree[s] + 1]
        <5>1. Units(c + 1) = Units(c) + 1
          BY <3>1, <3>3 DEF Units
        <5> QED BY <3>1, <5>1, Zenon
      <4>2. SemResource!Give(s)
        BY <3>1, <3>2, <4>1 DEF SemResource!Give, SemFree, SemWaiters
      <4> QED BY <3>1, <4>2 DEF SemResource!Next
    <3>4. CASE ~(c >= 0)
      <4>1. SemFree' = SemFree
        BY <2>2, <3>1, <3>4 DEF Units
      <4> QED BY <3>1, <3>2, <4>1
    <3> QED BY <3>3, <3>4
  <2>8. CASE IsUp(s, q) /\ q # <<>>
    <3>1. /\ Viewed(c + 1, Tail(q)) /\ c \in Int /\ Distinct(q)
          /\ ~(c > 0) /\ ~(c + 1 > 0)
      BY <2>3, <2>8 DEF IsUp, AfterPop
    <3>2. /\ Head(q) \in Threads /\ Head(q) \in Members(q)
          /\ Members(Tail(q)) = Members(q) \ {Head(q)}
      BY <2>8, <3>1, HeadLeaves
    <3>3. /\ SemFree' = SemFree /\ Head(q) \in SemWaiters[s]
          /\ SemWaiters' = [SemWaiters EXCEPT ![s] = SemWaiters[s] \ {Head(q)}]
      BY <2>2, <3>1, <3>2 DEF Units
    <3>4. SemResource!HandOff(s, Head(q))
      BY <3>1, <3>3 DEF SemResource!HandOff, SemFree, SemWaiters
    <3> QED BY <3>1, <3>2, <3>4 DEF SemResource!Next
  <2> QED BY <1>2, <2>1, <2>5, <2>6, <2>7, <2>8 DEF SemaphoreMove
<1> QED BY <1>1, <1>2, SemaphoreMoves

\* In the first state there are no objects, so nothing is free and nobody waits.
LEMMA ResourcesInit ==
  ASSUME Init
  PROVE  MutexResource!Init /\ SemResource!Init /\ WaitersOwed
<1>1. DOMAIN mutexes = {} /\ DOMAIN sems = {}
  <2>1. DOMAIN <<>> = {}
    OBVIOUS
  <2> QED BY <2>1 DEF Init
<1> QED BY <1>1 DEF MutexResource!Init, SemResource!Init, WaitersOwed

\* MutexBlocking is a resource of one unit, for any number of threads and mutexes: a
\* released mutex goes to a waiter if there is one (mutex.rs, main.rs:775-851).
THEOREM MutexIsAResource == Spec => MutexesImplement
<1>1. Init => MutexResource!Init
  BY ResourcesInit
<1>2. TypeOK /\ OnePlace /\ [Next]_vars
        => [MutexResource!Next]_<<DOMAIN mutexes, MutexFree, MutexWaiters>>
  BY MutexFollows
<1>3. [MutexResource!Next]_<<DOMAIN mutexes, MutexFree, MutexWaiters>>
        <=> [MutexResource!Next]_(MutexResource!rvars)
  BY DEF MutexResource!rvars, MutexFree, MutexWaiters, Taken
<1> QED BY <1>1, <1>2, <1>3, TypeCorrect, NoThreadLost, PTL
        DEF Spec, MutexesImplement, MutexResource!Spec

\* Semaphore is a resource of as many units as its count is positive, whatever count it
\* was created with (semaphore.rs, main.rs:720-754).
THEOREM SemaphoreIsAResource == Spec => SemaphoresImplement
<1>1. Init => SemResource!Init /\ WaitersOwed
  BY ResourcesInit
<1>2. TypeOK /\ WaitersOwed /\ [Next]_vars => WaitersOwed'
  BY OwedInductive
<1>3. TypeOK /\ OnePlace /\ WaitersOwed /\ [Next]_vars
        => [SemResource!Next]_<<DOMAIN sems, SemFree, SemWaiters>>
  BY SemaphoreFollows
<1>4. [SemResource!Next]_<<DOMAIN sems, SemFree, SemWaiters>>
        <=> [SemResource!Next]_(SemResource!rvars)
  BY DEF SemResource!rvars, SemFree, SemWaiters
<1> QED BY <1>1, <1>2, <1>3, <1>4, TypeCorrect, NoThreadLost, PTL
        DEF Spec, SemaphoresImplement, SemResource!Spec
=============================================================================
