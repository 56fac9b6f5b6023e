--------------------------- MODULE BlockingResource ----------------------------
(***************************************************************************)
(* What the kernel promises about every blocking object, whatever its      *)
(* queueing: units are free or nobody waits for them, and a unit given     *)
(* back while threads wait goes to one of them and never becomes free.  A  *)
(* mutex is a resource of one unit, a semaphore one of res_count units.    *)
(***************************************************************************)
EXTENDS Integers

CONSTANTS Ids, Threads

VARIABLES made,     \* the ids in use
          free,     \* free[i]: units nobody holds
          waiters   \* waiters[i]: threads blocked on i

rvars == <<made, free, waiters>>

Init ==
  /\ made = {}
  /\ free = [i \in Ids |-> 0]
  /\ waiters = [i \in Ids |-> {}]

Create(i) ==
  /\ i \notin made
  /\ made' = made \cup {i}
  /\ free'[i] \in Nat
  /\ free' = [free EXCEPT ![i] = free'[i]]
  /\ UNCHANGED waiters

Take(i) ==
  /\ i \in made /\ free[i] > 0
  /\ free' = [free EXCEPT ![i] = @ - 1]
  /\ UNCHANGED <<made, waiters>>

Wait(i, t) ==
  /\ i \in made /\ free[i] = 0
  /\ t \notin waiters[i]
  /\ waiters' = [waiters EXCEPT ![i] = @ \cup {t}]
  /\ UNCHANGED <<made, free>>

Give(i) ==
  /\ i \in made /\ waiters[i] = {}
  /\ free' = [free EXCEPT ![i] = @ + 1]
  /\ UNCHANGED <<made, waiters>>

HandOff(i, t) ==
  /\ t \in waiters[i]
  /\ waiters' = [waiters EXCEPT ![i] = @ \ {t}]
  /\ UNCHANGED <<made, free>>

\* Hand off and wait in one step: what condvar_wait does to its mutex.
Exchange(i, t, u) ==
  /\ t \in waiters[i] /\ u \notin waiters[i]
  /\ waiters' = [waiters EXCEPT ![i] = (@ \ {t}) \cup {u}]
  /\ UNCHANGED <<made, free>>

Next ==
  \E i \in Ids :
    \/ Create(i) \/ Take(i) \/ Give(i)
    \/ \E t \in Threads : Wait(i, t) \/ HandOff(i, t)
    \/ \E t, u \in Threads : Exchange(i, t, u)

Spec == Init /\ [][Next]_rvars
=============================================================================
