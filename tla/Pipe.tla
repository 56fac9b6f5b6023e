--------------------------------- MODULE Pipe ----------------------------------
(***************************************************************************)
(* A pipe: the ring buffer of pipe.rs, its two ends, and the descriptor    *)
(* tables that hold the ends.  Reads and writes answer at once with a      *)
(* count, with 0 at the end, or with -2 for "try again"; the kernel holds  *)
(* the buffer's lock for the whole call.                                   *)
(***************************************************************************)
EXTENDS Integers, Sequences

CONSTANTS Procs,
          RingBufferSize,
          MaxLen,         \* bound on the length of a user buffer
          Bytes

ASSUME SizeAssumption == RingBufferSize \in Nat \ {0}
ASSUME LenAssumption == MaxLen \in Nat

VARIABLES ring,    \* PipeRingBuffer: arr, head, tail, status
          fds,     \* which ends each process has open in its fd_table
          alive,   \* processes that exist
          born,    \* processes that existed
          ret,     \* what the last read or write answered, and the bytes read
          panicked

vars == <<ring, fds, alive, born, ret, panicked>>

Slots == 0 .. RingBufferSize - 1
Ends == {"read", "write"}
Retry == -2

PipeRingBuffers ==
  [arr : [Slots -> Bytes], head : Slots, tail : Slots, status : {"Full", "Empty", "Normal"}]

TypeOK ==
  /\ ring \in PipeRingBuffers
  /\ fds \in [Procs -> SUBSET Ends]
  /\ alive \subseteq born /\ born \subseteq Procs
  /\ ret.value \in {Retry} \cup 0 .. MaxLen /\ ret.bytes \in Seq(Bytes)
  /\ panicked \in BOOLEAN

----------------------------------------------------------------------------
\* PipeRingBuffer.

\* Mistaken: head = tail is taken for empty.
WriteByteUnmarked(r, byte) ==
  LET next == (r.tail + 1) % RingBufferSize
  IN [r EXCEPT !.arr[r.tail] = byte, !.tail = next,
               !.status = IF next = r.head THEN "Empty" ELSE "Normal"]

WriteByte(r, byte) ==
  LET next == (r.tail + 1) % RingBufferSize
  IN [r EXCEPT !.arr[r.tail] = byte, !.tail = next,
               !.status = IF next = r.head THEN "Full" ELSE "Normal"]

ReadByte(r) ==
  LET next == (r.head + 1) % RingBufferSize
  IN [r EXCEPT !.head = next, !.status = IF next = r.tail THEN "Empty" ELSE "Normal"]

AvailableRead(r) ==
  IF r.status = "Empty" THEN 0
  ELSE IF r.tail > r.head THEN r.tail - r.head
  ELSE r.tail + RingBufferSize - r.head

AvailableWrite(r) == IF r.status = "Full" THEN 0 ELSE RingBufferSize - AvailableRead(r)

\* The Weak of the write end upgrades while a descriptor table holds the Arc.
AllWriteEndsClosed == \A p \in Procs : "write" \notin fds[p]

----------------------------------------------------------------------------
\* PipeReader::read and PipeWriter::write with a user buffer of n bytes.
AtMost(a, b) == IF a < b THEN a ELSE b

\* The loop of read: the ring after k bytes, and those bytes.
Take(r, k) ==
  LET taken[i \in 0 .. k] ==
        IF i = 0 THEN [ring |-> r, bytes |-> <<>>]
        ELSE LET s == taken[i - 1]
             IN [ring |-> ReadByte(s.ring), bytes |-> Append(s.bytes, s.ring.arr[s.ring.head])]
  IN taken[k]

\* The loop of write: the ring after the first k of the bytes.
Put(r, bytes, k) ==
  LET ringAfter[i \in 0 .. k] == IF i = 0 THEN r ELSE WriteByte(ringAfter[i - 1], bytes[i])
  IN ringAfter[k]

\* An empty user buffer still yields a first byte to the loop: an index panics.
IndexPanics(n, available) == n = 0 /\ available > 0

Runs(p) == ~panicked /\ p \in alive

Read(p, n) ==
  /\ Runs(p) /\ "read" \in fds[p]
  /\ ~IndexPanics(n, AvailableRead(ring))
  /\ LET k == AtMost(n, AvailableRead(ring))
         taken == Take(ring, k)
     IN /\ ring' = taken.ring
        /\ ret' = [value |-> IF AvailableRead(ring) > 0 THEN k
                             ELSE IF AllWriteEndsClosed THEN 0 ELSE Retry,
                   bytes |-> taken.bytes]
  /\ UNCHANGED <<fds, alive, born, panicked>>

Write(p, bytes) ==
  /\ Runs(p) /\ "write" \in fds[p]
  /\ ~IndexPanics(Len(bytes), AvailableWrite(ring))
  /\ LET k == AtMost(Len(bytes), AvailableWrite(ring))
     IN /\ ring' = Put(ring, bytes, k)
        /\ ret' = [value |-> IF AvailableWrite(ring) = 0 THEN Retry ELSE k, bytes |-> <<>>]
  /\ UNCHANGED <<fds, alive, born, panicked>>

EmptyBuffer(p) ==
  /\ Runs(p)
  /\ \/ "read" \in fds[p] /\ IndexPanics(0, AvailableRead(ring))
     \/ "write" \in fds[p] /\ IndexPanics(0, AvailableWrite(ring))
  /\ panicked' = TRUE
  /\ UNCHANGED <<ring, fds, alive, born, ret>>

----------------------------------------------------------------------------
\* The descriptor tables.

\* fork clones every descriptor of the table.
Fork(p, c) ==
  /\ Runs(p)
  /\ c \in Procs \ born
  /\ alive' = alive \cup {c} /\ born' = born \cup {c}
  /\ fds' = [fds EXCEPT ![c] = fds[p]]
  /\ UNCHANGED <<ring, ret, panicked>>

Close(p, end) ==
  /\ Runs(p) /\ end \in fds[p]
  /\ fds' = [fds EXCEPT ![p] = @ \ {end}]
  /\ UNCHANGED <<ring, alive, born, ret, panicked>>

\* del_proc drops the process and with it its descriptor table.
EndProcess(p) ==
  /\ Runs(p)
  /\ alive' = alive \ {p}
  /\ fds' = [fds EXCEPT ![p] = {}]
  /\ UNCHANGED <<ring, born, ret, panicked>>

\* make_pipe, called by some process.
Init ==
  /\ ring \in [arr : [Slots -> Bytes], head : {0}, tail : {0}, status : {"Empty"}]
  /\ \A i \in Slots, j \in Slots : ring.arr[i] = ring.arr[j]
  /\ \E p \in Procs :
       /\ alive = {p} /\ born = {p}
       /\ fds = [q \in Procs |-> IF q = p THEN Ends ELSE {}]
  /\ ret = [value |-> 0, bytes |-> <<>>]
  /\ panicked = FALSE

Stopped == (panicked \/ alive = {}) /\ UNCHANGED vars

Call(p) ==
  \/ \E n \in 1 .. MaxLen : Read(p, n)
  \/ \E n \in 1 .. MaxLen : \E bytes \in [1 .. n -> Bytes] : Write(p, bytes)
  \/ EmptyBuffer(p)
  \/ \E c \in Procs : Fork(p, c)
  \/ \E end \in Ends : Close(p, end)
  \/ EndProcess(p)

Next == (\E p \in Procs : Call(p)) \/ Stopped

Spec == Init /\ [][Next]_vars

----------------------------------------------------------------------------
\* Properties.

\* The bytes between head and tail.
Contents(r) ==
  [i \in 1 .. AvailableRead(r) |-> r.arr[(r.head + i - 1) % RingBufferSize]]

\* The ring and its ends are a PipeStream: nothing is lost, doubled, reordered
\* or made up, over any wrap-around and any partial read or write.
Stream == INSTANCE PipeStream WITH Size <- RingBufferSize, stream <- Contents(ring)

StreamImplemented == Stream!Spec
=============================================================================
