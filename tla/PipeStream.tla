------------------------------ MODULE PipeStream -------------------------------
(***************************************************************************)
(* What a pipe promises to the processes that hold its ends: a bounded     *)
(* first-in first-out stream of bytes that never blocks, takes and gives   *)
(* as much as it can, and ends when it is empty and no process can write   *)
(* any more.                                                               *)
(***************************************************************************)
EXTENDS Integers, Sequences

CONSTANTS Procs, Size, MaxLen, Bytes

VARIABLES stream,   \* the bytes written and not yet read
          fds,      \* the ends each process holds
          ret       \* what the last read or write answered

vars == <<stream, fds, ret>>

Retry == -2
Writers == {p \in Procs : "write" \in fds[p]}
AtMost(a, b) == IF a < b THEN a ELSE b

Init ==
  /\ stream = <<>>
  /\ \E p \in Procs : fds = [q \in Procs |-> IF q = p THEN {"read", "write"} ELSE {}]
  /\ ret = [value |-> 0, bytes |-> <<>>]

Read(p, n) ==
  /\ "read" \in fds[p]
  /\ LET k == AtMost(n, Len(stream))
     IN /\ ret' = [value |-> IF stream # <<>> THEN k ELSE IF Writers = {} THEN 0 ELSE Retry,
                   bytes |-> SubSeq(stream, 1, k)]
        /\ stream' = SubSeq(stream, k + 1, Len(stream))
  /\ UNCHANGED fds

Write(p, bytes) ==
  /\ "write" \in fds[p]
  /\ LET k == AtMost(Len(bytes), Size - Len(stream))
     IN /\ ret' = [value |-> IF k = 0 THEN Retry ELSE k, bytes |-> <<>>]
        /\ stream' = stream \o SubSeq(bytes, 1, k)
  /\ UNCHANGED fds

\* A process closes an end, ends, or passes its ends on.
Hold(p, held) ==
  /\ held \subseteq fds[p] \/ \E q \in Procs : held = fds[q]
  /\ fds' = [fds EXCEPT ![p] = held]
  /\ UNCHANGED <<stream, ret>>

Next ==
  \E p \in Procs :
    \/ \E n \in 1 .. MaxLen : Read(p, n)
    \/ \E n \in 1 .. MaxLen : \E bytes \in [1 .. n -> Bytes] : Write(p, bytes)
    \/ \E held \in SUBSET {"read", "write"} : Hold(p, held)

Spec == Init /\ [][Next]_vars
=============================================================================
