------------------------------ MODULE SyncObjects ------------------------------
(***************************************************************************)
(* The three blocking objects of tg-rcore-tutorial-sync, as values and     *)
(* pure operators: what `lock`, `unlock`, `up`, `down`, `signal` do to the *)
(* object, and which thread they hand back to the scheduler.  The cell     *)
(* UPIntrFreeCell around each object makes one call atomic.                *)
(***************************************************************************)
EXTENDS Integers, Sequences

\* VecDeque::pop_front as an Option: the empty or the one-element sequence.
PopFront(q) == IF q = <<>> THEN <<>> ELSE <<Head(q)>>
AfterPop(q) == IF q = <<>> THEN <<>> ELSE Tail(q)

----------------------------------------------------------------------------
\* mutex.rs: MutexBlocking.
MutexNew == [locked |-> FALSE, wait_queue |-> <<>>]

LockGrants(mu) == ~mu.locked

Lock(mu, t) ==
  IF LockGrants(mu)
  THEN [mu EXCEPT !.locked = TRUE]
  ELSE [mu EXCEPT !.wait_queue = Append(@, t)]

\* The precondition asserted by `unlock`.
UnlockLegal(mu) == mu.locked

\* Mistaken: the lock is free although a thread was woken to hold it.
UnlockReleases(mu) == [locked |-> FALSE, wait_queue |-> AfterPop(mu.wait_queue)]

\* The lock stays locked when it passes to the woken thread.
Unlock(mu) ==
  [locked     |-> mu.wait_queue # <<>>,
   wait_queue |-> AfterPop(mu.wait_queue)]

UnlockWakes(mu) == PopFront(mu.wait_queue)

----------------------------------------------------------------------------
\* semaphore.rs: Semaphore.
SemaphoreNew(res_count) == [count |-> res_count, wait_queue |-> <<>>]

\* Mistaken: the last unit is not given out.
DownGrantsStrict(s) == s.count - 1 > 0

DownGrants(s) == s.count - 1 >= 0

Down(s, t) ==
  [count      |-> s.count - 1,
   wait_queue |-> IF DownGrants(s) THEN s.wait_queue ELSE Append(s.wait_queue, t)]

\* Mistaken: a unit handed to a waiter is not counted.
UpUncounted(s) ==
  [count      |-> IF s.wait_queue = <<>> THEN s.count + 1 ELSE s.count,
   wait_queue |-> AfterPop(s.wait_queue)]

Up(s) == [count |-> s.count + 1, wait_queue |-> AfterPop(s.wait_queue)]

\* Mistaken: the waiter is woken only when the count becomes positive.
UpWakesLate(s) == IF s.count + 1 > 0 THEN PopFront(s.wait_queue) ELSE <<>>

UpWakes(s) == PopFront(s.wait_queue)

----------------------------------------------------------------------------
\* condvar.rs: Condvar is its wait queue alone.
CondvarNew == <<>>

Signal(cv) == AfterPop(cv)

SignalWakes(cv) == PopFront(cv)

\* wait_with_mutex: unlock, insist that a waiter was woken, lock again.  The
\* condition variable itself is not touched.
WaitLegal(mu) == UnlockLegal(mu) /\ UnlockWakes(mu) # <<>>

WaitMutex(mu, t) == Lock(Unlock(mu), t)

WaitGrants(mu) == LockGrants(Unlock(mu))

WaitWakes(mu) == UnlockWakes(mu)
=============================================================================
