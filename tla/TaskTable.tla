-------------------------------- MODULE TaskTable ------------------------------
(***************************************************************************)
(* Where the task table keeps its threads, and where the loop of main.rs   *)
(* writes a call's result.  find_next answers a reference into the table,  *)
(* a BTreeMap, and the loop uses it to the end of the trap, while the call *)
(* between may put another thread into the table.  Ids are handed out in   *)
(* order, so a new one goes to the end of the last leaf.  No thread ends   *)
(* here: nothing is written to the context of one that does.               *)
(***************************************************************************)
EXTENDS Integers, Sequences, FiniteSets, SequencesExt

CONSTANTS
  B,            \* B of the BTreeMap: a leaf holds 2 * B - 1 threads
  MaxThreads    \* bound: how many threads are ever made

VARIABLES
  tasks,        \* ThreadManager.tasks: its leaves, and the node above them
  ready,        \* ready_queue
  current,      \* PThreadManager.current, or -1 between two traps
  task,         \* the slot that the reference of find_next points to
  a0,           \* a0 in the saved context of each thread
  returned      \* history: what the kernel last returned to each thread

tableVars == <<tasks, ready, current, task, a0, returned>>

Tids == DOMAIN a0

\* What a register holds that is no result: the argument of an entry or a call.
Argument == -1

\* The slot of a thread in a table: a node (0 is the root) and a position in it.
SlotOf(table, t) ==
  LET node(n) == IF n = 0 THEN table.root ELSE table.leaves[n] IN
  CHOOSE s \in (0 .. Len(table.leaves)) \X (1 .. 2 * B - 1) :
    s[2] <= Len(node(s[1])) /\ node(s[1])[s[2]] = t

\* BTreeMap::insert of a key above all others.  A full leaf is split after its
\* first B threads: the next moves up, the others, with the new one, to a new leaf.
Insert(table, t) ==
  LET full == Last(table.leaves)
      n == Len(table.leaves) IN
  IF Len(full) < 2 * B - 1
  THEN [table EXCEPT !.leaves[n] = Append(full, t)]
  ELSE [leaves |-> Append([table.leaves EXCEPT ![n] = SubSeq(full, 1, B)],
                          Append(SubSeq(full, B + 2, Len(full)), t)),
        root |-> Append(table.root, full[B + 1])]

Init ==
  /\ tasks = [leaves |-> <<<<0>>>>, root |-> <<>>]
  /\ ready = <<0>>
  /\ current = -1
  /\ task = <<1, 1>>
  /\ a0 = [t \in {0} |-> Argument]
  /\ returned = [t \in {0} |-> Argument]

FindNext ==
  /\ current = -1
  /\ current' = Head(ready)
  /\ ready' = Tail(ready)
  /\ task' = SlotOf(tasks, Head(ready))
  /\ UNCHANGED <<tasks, a0, returned>>

\* The end of a trap that returns ret: *ctx.a_mut(0) = ret, which only the thread
\* that stands in the slot of the reference by now sees, and make_current_suspend,
\* behind the threads made.  A caller and a new thread have arguments in a0.
EndTrap(table, ret, made) ==
  LET known == Tids \cup made
      started == made \cup {current} IN
  /\ tasks' = table
  /\ a0' = [t \in known |-> IF SlotOf(table, t) = task THEN ret
                            ELSE IF t \in started THEN Argument ELSE a0[t]]
  /\ returned' = [t \in known |-> IF t = current THEN ret
                                  ELSE IF t \in made THEN Argument ELSE returned[t]]
  /\ ready' = Append(ready \o SetToSeq(made), current)
  /\ current' = -1
  /\ UNCHANGED task

\* thread_create and fork.
Create ==
  LET new == Cardinality(Tids) IN
  /\ current # -1 /\ new < MaxThreads
  /\ EndTrap(Insert(tasks, new), new, {new})

\* Any other call that ends with 0, such as sched_yield.
OtherCall ==
  /\ current # -1
  /\ EndTrap(tasks, 0, {})

Next == FindNext \/ Create \/ OtherCall

Spec == Init /\ [][Next]_tableVars

----------------------------------------------------------------------------
\* A thread that runs again finds in a0 what the kernel returned to it: the
\* maker of a thread its tid ("5. 返回新线程的 TID", ch8/README.md:317).
ResultsArrive == \A t \in Tids : t # current => a0[t] = returned[t]
=============================================================================
