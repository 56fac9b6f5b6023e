----------------------------- MODULE ProcessFamily -----------------------------
(***************************************************************************)
(* What process management promises to processes, without threads, lists   *)
(* and task tables: a process runs, ends once with one exit code, waits as *)
(* a zombie for its parent if the parent is still there, and is gone once  *)
(* the parent was told.  A process whose parent ends runs on under the     *)
(* initial process.                                                        *)
(***************************************************************************)
EXTENDS Integers

CONSTANTS Pids, InitPid, NoPid,
          Codes      \* exit codes

VARIABLES phase,    \* "unborn", "running", "zombie" or "gone"
          parent,   \* of a process that runs or is a zombie
          code      \* of a zombie

vars == <<phase, parent, code>>

Running(p) == p \in Pids /\ phase[p] = "running"

Init ==
  /\ phase = [p \in Pids |-> IF p = InitPid THEN "running" ELSE "unborn"]
  /\ parent = [p \in Pids |-> NoPid]
  /\ code = [p \in Pids |-> 0]

\* A running process gets a child.
Fork(p, c) ==
  /\ Running(p) /\ phase[c] = "unborn"
  /\ phase' = [phase EXCEPT ![c] = "running"]
  /\ parent' = [parent EXCEPT ![c] = p]
  /\ UNCHANGED code

\* An id that no process ever bears: exec uses one up.
Skip(c) ==
  /\ phase[c] = "unborn"
  /\ phase' = [phase EXCEPT ![c] = "gone"]
  /\ UNCHANGED <<parent, code>>

\* A process ends.  Its own zombies have nobody left to wait for them.
End(p, e) ==
  /\ Running(p)
  /\ LET told == Running(parent[p])
         lost == {c \in Pids : parent[c] = p /\ phase[c] = "zombie"}
         orphans == {c \in Pids : parent[c] = p /\ phase[c] = "running"}
     IN /\ phase' = [c \in Pids |->
                       IF c = p THEN IF told THEN "zombie" ELSE "gone"
                       ELSE IF c \in lost THEN "gone" ELSE phase[c]]
        /\ parent' = [c \in Pids |->
                       IF c \in orphans THEN InitPid
                       ELSE IF phase'[c] = "gone" THEN NoPid ELSE parent[c]]
        /\ code' = [c \in Pids |->
                       IF c = p /\ told THEN e ELSE IF c \in lost THEN 0 ELSE code[c]]

\* Its parent is told of the end of a zombie.
Wait(c) ==
  /\ phase[c] = "zombie" /\ Running(parent[c])
  /\ phase' = [phase EXCEPT ![c] = "gone"]
  /\ parent' = [parent EXCEPT ![c] = NoPid]
  /\ code' = [code EXCEPT ![c] = 0]

Next ==
  \/ \E p, c \in Pids : Fork(p, c)
  \/ \E c \in Pids : Skip(c) \/ Wait(c)
  \/ \E p \in Pids, e \in Codes : End(p, e)

Spec == Init /\ [][Next]_vars
=============================================================================
