----------------------------- MODULE PrivateMemory -----------------------------
(***************************************************************************)
(* What address spaces promise: every process has a memory of its own.     *)
(* fork hands the child a copy, pages that appear are zero or part of the  *)
(* program, and a store changes one page of one process.                   *)
(***************************************************************************)
EXTENDS Integers, Sequences

CONSTANTS Procs, Vpns, Values, Zero, Unmapped,
          Images       \* the memories programs start with

VARIABLE memory

Nothing == [v \in Vpns |-> Unmapped]

Init == \E p \in Procs, image \in Images :
  memory = [q \in Procs |-> IF q = p THEN image ELSE Nothing]

\* What may happen to one memory: from b to a.
Grown(b, a) == \E v \in Vpns :
  /\ v + 1 \in Vpns /\ b[v] = Unmapped /\ b[v + 1] = Unmapped
  /\ a = [b EXCEPT ![v] = Zero, ![v + 1] = Zero]

Shrunk(b, a) == \A v \in Vpns : a[v] \in {b[v], Unmapped}

Stored(b, a) == \E v \in Vpns :
  b[v] # Unmapped /\ a[v] \in Values /\ a = [b EXCEPT ![v] = a[v]]

Next ==
  LET before == memory
      after == memory'
  IN \E p \in Procs :
       /\ \A q \in Procs \ {p} : after[q] = before[q]
       /\ \/ after[p] \in Images
          \/ before[p] = Nothing /\ \E q \in Procs : after[p] = before[q]
          \/ Grown(before[p], after[p]) \/ Shrunk(before[p], after[p]) \/ Stored(before[p], after[p])

Spec == Init /\ [][Next]_memory
=============================================================================
