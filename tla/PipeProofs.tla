------------------------------ MODULE PipeProofs ------------------------------
(***************************************************************************)
(* The ring buffer with its ends is a bounded stream of bytes, for a ring  *)
(* of any size, any bytes and any number of processes, and pipe_write and  *)
(* pipe_read bring a message of any length over it.                        *)
(***************************************************************************)
EXTENDS PipeTest, SequencesExt, SequenceTheorems, WellFoundedInduction, TLAPS

\* A set of numbers has a least element: induction over numbers is done with it.
LEMMA MinMember ==
  ASSUME NEW S \in SUBSET Nat, S # {}
  PROVE  Min(S) \in S /\ \A x \in S : Min(S) <= x
<1> DEFINE less == OpToRel(<, Nat)
<1>1. PICK x \in S : \A y \in S : ~(<<y, x>> \in less)
  BY NatLessThanWellFounded, WFMin, Zenon
<1>2. less = {ss \in Nat \X Nat : ss[1] < ss[2]}
  BY Zenon DEF OpToRel
<1> HIDE DEF less
<1>3. ASSUME NEW y \in S PROVE x <= y
  <2>1. x \in Nat /\ y \in Nat
    OBVIOUS
  <2>2. y < x => <<y, x>> \in less
    BY <1>2, <2>1
  <2> QED BY <1>1, <2>1, <2>2
<1> QED BY <1>3 DEF Min


\* Outside a read or write, the status tells a full ring from an empty one and is
\* "Normal" exactly when the indices differ.
Good(r) == r \in PipeRingBuffers /\ (r.status = "Normal" <=> r.head # r.tail)

\* The invariant.
PipeInv ==
  /\ Good(ring)
  /\ fds \in [Procs -> SUBSET Ends]
  /\ alive \subseteq born /\ born \subseteq Procs

----------------------------------------------------------------------------
\* Indices of the ring.

\* Slot h + k of a ring, around its end.
Around(h, k) == IF h + k >= RingBufferSize THEN h + k - RingBufferSize ELSE h + k

LEMMA Wraps ==
  ASSUME NEW h \in Slots, NEW k \in 0 .. RingBufferSize
  PROVE  (h + k) % RingBufferSize = Around(h, k) /\ Around(h, k) \in Slots
<1>1. PICK N : N = RingBufferSize
  OBVIOUS
<1>2. N \in Nat \ {0} /\ h \in 0 .. N - 1 /\ k \in 0 .. N
  BY <1>1, SizeAssumption DEF Slots
<1>3. (h + k) % N = IF h + k >= N THEN h + k - N ELSE h + k
  BY ONLY <1>2
<1>4. Around(h, k) \in Slots
  BY <1>1, <1>2 DEF Around, Slots
<1> QED BY <1>1, <1>3, <1>4 DEF Around

LEMMA OneFurther ==
  ASSUME NEW h \in Slots, NEW k \in 1 .. RingBufferSize
  PROVE  (Around(h, k - 1) + 1) % RingBufferSize = Around(h, k)
<1>1. RingBufferSize \in Nat /\ RingBufferSize > 0 /\ h \in 0 .. RingBufferSize - 1
  BY SizeAssumption DEF Slots
<1>2. Around(h, k - 1) \in Slots
  BY <1>1 DEF Around, Slots
<1>3. (Around(h, k - 1) + 1) % RingBufferSize = Around(Around(h, k - 1), 1)
  BY <1>1, <1>2, Wraps
<1>4. Around(Around(h, k - 1), 1) = Around(h, k)
  BY <1>1 DEF Around
<1> QED BY <1>3, <1>4

\* How much the ring holds.
LEMMA AvailableIs ==
  ASSUME NEW r, Good(r)
  PROVE  /\ r.head \in Slots /\ r.tail \in Slots /\ r.arr \in [Slots -> Bytes]
         /\ r.status \in {"Full", "Empty", "Normal"}
         /\ AvailableRead(r) \in 0 .. RingBufferSize
         /\ r.tail = Around(r.head, AvailableRead(r))
         /\ AvailableRead(r) = 0 <=> r.status = "Empty"
         /\ AvailableRead(r) = RingBufferSize <=> r.status = "Full"
         /\ AvailableWrite(r) = RingBufferSize - AvailableRead(r)
<1>1. /\ r.head \in Slots /\ r.tail \in Slots /\ r.arr \in [Slots -> Bytes]
      /\ r.status \in {"Full", "Empty", "Normal"} /\ (r.status = "Normal" <=> r.head # r.tail)
  BY DEF Good, PipeRingBuffers
<1>2. RingBufferSize \in Nat /\ RingBufferSize > 0
  BY SizeAssumption
<1> QED BY <1>1, <1>2 DEF AvailableRead, AvailableWrite, Around, Slots

\* What a ring of n bytes from slot h holds, and what tells how many there are.
LEMMA AvailableOf ==
  ASSUME NEW r, Good(r), NEW n \in 0 .. RingBufferSize, r.tail = Around(r.head, n),
         n = 0 => r.status = "Empty", n = RingBufferSize => r.status = "Full"
  PROVE  AvailableRead(r) = n
<1>1. /\ r.head \in Slots /\ r.tail \in Slots
      /\ r.status \in {"Full", "Empty", "Normal"} /\ (r.status = "Normal" <=> r.head # r.tail)
  BY DEF Good, PipeRingBuffers
<1>2. RingBufferSize \in Nat /\ RingBufferSize > 0
  BY SizeAssumption
<1>3. r.head \in 0 .. RingBufferSize - 1 /\ r.tail \in 0 .. RingBufferSize - 1
  BY <1>1 DEF Slots
<1>4. CASE n = 0
  BY <1>4 DEF AvailableRead
<1>5. CASE n = RingBufferSize
  <2>1. r.tail = r.head /\ r.status = "Full"
    BY <1>2, <1>3, <1>5 DEF Around
  <2> QED BY <1>2, <1>3, <1>5, <2>1 DEF AvailableRead
<1>6. CASE n # 0 /\ n # RingBufferSize
  <2>1. r.tail # r.head
    BY <1>2, <1>3, <1>6 DEF Around
  <2>2. r.status # "Empty"
    BY <1>1, <2>1
  <2>3. AvailableRead(r) = IF r.tail > r.head THEN r.tail - r.head ELSE r.tail + RingBufferSize - r.head
    BY <2>2 DEF AvailableRead
  <2> QED BY <1>2, <1>3, <1>6, <2>3 DEF Around
<1> QED BY <1>4, <1>5, <1>6

LEMMA ContentsIs ==
  ASSUME NEW r, Good(r)
  PROVE  /\ Contents(r) \in Seq(Bytes) /\ Len(Contents(r)) = AvailableRead(r)
         /\ \A i \in 1 .. AvailableRead(r) : Contents(r)[i] = r.arr[Around(r.head, i - 1)]
<1>1. PICK n, c : n = AvailableRead(r) /\ c = Contents(r)
  OBVIOUS
<1>2. n \in 0 .. RingBufferSize /\ n \in Nat /\ r.head \in Slots /\ r.arr \in [Slots -> Bytes]
  BY <1>1, AvailableIs, SizeAssumption
<1>3. ASSUME NEW i \in 1 .. n
      PROVE  /\ (r.head + i - 1) % RingBufferSize = Around(r.head, i - 1)
             /\ Around(r.head, i - 1) \in Slots
  <2>1. i - 1 \in 0 .. RingBufferSize
    BY <1>2, SizeAssumption
  <2>2. r.head + i - 1 = r.head + (i - 1)
    BY <1>2, SizeAssumption DEF Slots
  <2> QED BY <1>2, <2>1, <2>2, Wraps
<1>4. c = [i \in 1 .. n |-> r.arr[(r.head + i - 1) % RingBufferSize]]
  BY <1>1 DEF Contents
<1>5. \A i \in 1 .. n : c[i] = r.arr[Around(r.head, i - 1)] /\ c[i] \in Bytes
  BY <1>2, <1>3, <1>4
<1>6. c \in Seq(Bytes) /\ Len(c) = n
  BY <1>2, <1>4, <1>5
<1> QED BY <1>1, <1>5, <1>6

\* A prefix grows by the next element.
LEMMA PrefixGrows ==
  ASSUME NEW S, NEW s \in Seq(S), NEW i \in 1 .. Len(s)
  PROVE  Append(SubSeq(s, 1, i - 1), s[i]) = SubSeq(s, 1, i)
<1>1. PICK a : a = SubSeq(s, 1, i - 1)
  OBVIOUS
<1>2. /\ a \in Seq(S) /\ Len(a) = i - 1 /\ \A j \in 1 .. i - 1 : a[j] = s[j]
  BY <1>1, SubSeqProperties
<1>3. PICK b : b = SubSeq(s, 1, i)
  OBVIOUS
<1>4. b \in Seq(S) /\ Len(b) = i /\ \A j \in 1 .. i : b[j] = s[j]
  BY <1>3, SubSeqProperties
<1>5. s[i] \in S
  OBVIOUS
<1>6. /\ Append(a, s[i]) \in Seq(S) /\ Len(Append(a, s[i])) = i
      /\ \A j \in 1 .. i - 1 : Append(a, s[i])[j] = s[j]
      /\ Append(a, s[i])[i] = s[i]
  BY <1>2, <1>5, AppendProperties
<1> QED BY <1>1, <1>3, <1>4, <1>6, SeqEqual

----------------------------------------------------------------------------
\* The loop of read.

RingAt(r, h, status) == [arr |-> r.arr, head |-> h, tail |-> r.tail, status |-> status]

\* The ring after i bytes were read from r, and those bytes.
TakenRing(r, i) ==
  IF i = 0 THEN r
  ELSE RingAt(r, Around(r.head, i), IF Around(r.head, i) = r.tail THEN "Empty" ELSE "Normal")

Taken(r, i) == [ring |-> TakenRing(r, i), bytes |-> SubSeq(Contents(r), 1, i)]

\* One round of the loop, from what the rounds before did.
ReadRound(s) == [ring |-> ReadByte(s.ring), bytes |-> Append(s.bytes, s.ring.arr[s.ring.head])]

ReadRounds(r, k, f) ==
  [i \in 0 .. k |-> IF i = 0 THEN [ring |-> r, bytes |-> <<>>] ELSE ReadRound(f[i - 1])]

LEMMA TakenFirst ==
  ASSUME NEW r, Good(r)
  PROVE  Taken(r, 0) = [ring |-> r, bytes |-> <<>>]
<1>1. SubSeq(Contents(r), 1, 0) = <<>>
  BY ContentsIs, SubSeqEmpty
<1> QED BY <1>1 DEF Taken, TakenRing

LEMMA TakenNext ==
  ASSUME NEW r, Good(r), NEW i \in 1 .. AvailableRead(r)
  PROVE  Taken(r, i) = ReadRound(Taken(r, i - 1))
<1>1. /\ r.head \in Slots /\ AvailableRead(r) \in 0 .. RingBufferSize /\ RingBufferSize \in Nat
      /\ RingBufferSize > 0
  BY AvailableIs, SizeAssumption
<1>2. PICK t : t = TakenRing(r, i - 1)
  OBVIOUS
<1>3. /\ t.arr = r.arr /\ t.head = Around(r.head, i - 1) /\ t.tail = r.tail
      /\ t = RingAt(t, t.head, t.status)
  <2>1. CASE i = 1
    <3>1. t = r /\ Around(r.head, 0) = r.head
      BY <1>1, <1>2, <2>1 DEF TakenRing, Around, Slots
    <3> QED BY <2>1, <3>1 DEF Good, PipeRingBuffers, RingAt
  <2>2. CASE i # 1
    BY <1>1, <1>2, <2>2 DEF TakenRing, RingAt
  <2> QED BY <2>1, <2>2
<1>4. (t.head + 1) % RingBufferSize = Around(r.head, i)
  BY <1>1, <1>3, OneFurther
<1>5. ReadByte(t) = TakenRing(r, i)
  <2>1. ReadByte(t) = [t EXCEPT !.head = Around(r.head, i),
                                !.status = IF Around(r.head, i) = t.tail THEN "Empty" ELSE "Normal"]
    BY <1>4 DEF ReadByte
  <2>2. ReadByte(t) = RingAt(t, Around(r.head, i), IF Around(r.head, i) = t.tail THEN "Empty" ELSE "Normal")
    BY <1>3, <2>1 DEF RingAt
  <2> QED BY <1>1, <1>3, <2>2 DEF TakenRing, RingAt
<1>6. Append(SubSeq(Contents(r), 1, i - 1), t.arr[t.head]) = SubSeq(Contents(r), 1, i)
  <2>1. PICK c : c = Contents(r)
    OBVIOUS
  <2>2. c \in Seq(Bytes) /\ i \in 1 .. Len(c) /\ c[i] = t.arr[t.head]
    BY <1>3, <2>1, ContentsIs
  <2> QED BY <2>1, <2>2, PrefixGrows
<1>7. Taken(r, i - 1).ring = t /\ Taken(r, i - 1).bytes = SubSeq(Contents(r), 1, i - 1)
  BY <1>2 DEF Taken
<1>8. ReadRound(Taken(r, i - 1)) = [ring |-> ReadByte(t), bytes |-> Append(SubSeq(Contents(r), 1, i - 1), t.arr[t.head])]
  BY <1>7 DEF ReadRound
<1> QED BY <1>5, <1>6, <1>8 DEF Taken

\* What the loop computes: both functions satisfy its equation, and there is no first
\* round in which they differ.
LEMMA TakeIs ==
  ASSUME NEW r, Good(r), NEW k \in 0 .. AvailableRead(r)
  PROVE  Take(r, k) = Taken(r, k)
<1>0. k \in Nat /\ k <= AvailableRead(r) /\ AvailableRead(r) \in Nat
  BY AvailableIs, SizeAssumption
<1>1. PICK f : f = CHOOSE g : g = ReadRounds(r, k, g)
  OBVIOUS
<1>2. Take(r, k) = f[k]
  BY <1>1, Zenon DEF Take, ReadRounds, ReadRound
<1>3. PICK F : F = [i \in 0 .. k |-> Taken(r, i)]
  OBVIOUS
<1>4. \A i \in 0 .. k : F[i] = IF i = 0 THEN [ring |-> r, bytes |-> <<>>] ELSE ReadRound(F[i - 1])
  <2>1. ASSUME NEW i \in 1 .. k PROVE F[i] = ReadRound(F[i - 1])
    <3>1. i \in 1 .. AvailableRead(r) /\ F[i] = Taken(r, i) /\ F[i - 1] = Taken(r, i - 1)
      BY <1>0, <1>3
    <3> QED BY <3>1, TakenNext
  <2>2. F[0] = [ring |-> r, bytes |-> <<>>]
    BY <1>0, <1>3, TakenFirst
  <2> QED BY <1>0, <2>1, <2>2
<1>5. F = ReadRounds(r, k, F)
  BY <1>3, <1>4 DEF ReadRounds
<1>6. f = ReadRounds(r, k, f)
  BY <1>1, <1>5, Zenon
<1>7. \A i \in 0 .. k : f[i] = F[i]
  <2>1. PICK bad : bad = {i \in 0 .. k : f[i] # F[i]}
    OBVIOUS
  <2>2. SUFFICES ASSUME bad # {} PROVE FALSE
    BY <2>1
  <2>3. PICK m : m = Min(bad)
    OBVIOUS
  <2>4. m \in bad /\ \A i \in bad : m <= i
    <3>1. bad \in SUBSET Nat
      BY <1>0, <2>1
    <3> QED BY <2>2, <2>3, <3>1, MinMember
  <2>5. m \in 0 .. k /\ f[m] # F[m] /\ (m # 0 => f[m - 1] = F[m - 1])
    BY <1>0, <2>1, <2>4
  <2>6. /\ f[m] = IF m = 0 THEN [ring |-> r, bytes |-> <<>>] ELSE ReadRound(f[m - 1])
        /\ F[m] = IF m = 0 THEN [ring |-> r, bytes |-> <<>>] ELSE ReadRound(F[m - 1])
    BY <1>5, <1>6, <2>5, Zenon DEF ReadRounds
  <2> QED BY <2>5, <2>6
<1> QED BY <1>0, <1>2, <1>3, <1>7

\* Reading k bytes takes the first k of the contents.
LEMMA TakeTakes ==
  ASSUME NEW r, Good(r), NEW k \in 0 .. AvailableRead(r)
  PROVE  /\ Good(Take(r, k).ring)
         /\ Contents(Take(r, k).ring) = SubSeq(Contents(r), k + 1, Len(Contents(r)))
         /\ Take(r, k).bytes = SubSeq(Contents(r), 1, k)
<1>1. PICK n, c : n = AvailableRead(r) /\ c = Contents(r)
  OBVIOUS
<1>2. /\ n \in 0 .. RingBufferSize /\ RingBufferSize \in Nat /\ RingBufferSize > 0 /\ n \in Nat
      /\ k \in 0 .. n /\ r.head \in 0 .. RingBufferSize - 1 /\ r.tail = Around(r.head, n)
      /\ r.arr \in [Slots -> Bytes] /\ r.tail \in Slots
  BY <1>1, AvailableIs, SizeAssumption DEF Slots
<1>3. c \in Seq(Bytes) /\ Len(c) = n /\ \A i \in 1 .. n : c[i] = r.arr[Around(r.head, i - 1)]
  BY <1>1, ContentsIs
<1>4. PICK t : t = TakenRing(r, k)
  OBVIOUS
<1>5. Take(r, k).ring = t /\ Take(r, k).bytes = SubSeq(c, 1, k)
  BY <1>1, <1>4, TakeIs DEF Taken
<1>6. CASE k = 0
  <2>1. t = r
    BY <1>4, <1>6 DEF TakenRing
  <2>2. SubSeq(c, 1, Len(c)) = c
    BY <1>3, SubSeqFull
  <2> QED BY <1>1, <1>5, <1>6, <2>1, <2>2
<1>7. CASE k # 0
  <2>1. /\ t.arr = r.arr /\ t.head = Around(r.head, k) /\ t.tail = r.tail
        /\ t.status = IF t.head = t.tail THEN "Empty" ELSE "Normal"
        /\ t = RingAt(t, t.head, t.status)
    BY <1>4, <1>7 DEF TakenRing, RingAt
  <2>2. t.head \in Slots
    BY <1>2, <2>1 DEF Around, Slots
  <2>3. Good(t)
    BY <1>2, <2>1, <2>2 DEF Good, PipeRingBuffers, RingAt
  <2>4. AvailableRead(t) = n - k
    <3>1. t.tail = Around(t.head, n - k) /\ n - k \in 0 .. RingBufferSize
      BY <1>2, <2>1 DEF Around
    <3>2. n - k = 0 => t.status = "Empty"
      BY <1>2, <2>1
    <3>3. n - k # RingBufferSize
      BY <1>2, <1>7
    <3> QED BY <2>3, <3>1, <3>2, <3>3, AvailableOf
  <2>5. PICK d : d = Contents(t)
    OBVIOUS
  <2>6. d \in Seq(Bytes) /\ Len(d) = n - k /\ \A i \in 1 .. n - k : d[i] = r.arr[Around(t.head, i - 1)]
    BY <2>1, <2>3, <2>4, <2>5, ContentsIs
  <2>7. PICK e : e = SubSeq(c, k + 1, n)
    OBVIOUS
  <2>8. e \in Seq(Bytes) /\ Len(e) = n - k /\ \A i \in 1 .. n - k : e[i] = c[k + i]
    BY <1>2, <1>3, <2>7, SubSeqProperties
  <2>9. \A i \in 1 .. n - k : d[i] = e[i]
    <3>1. ASSUME NEW i \in 1 .. n - k PROVE d[i] = e[i]
      <4>1. PICK m : m = k + i
        OBVIOUS
      <4>2. m \in 1 .. n /\ Around(t.head, i - 1) = Around(r.head, m - 1)
        BY <1>2, <2>1, <4>1 DEF Around
      <4>3. c[m] = r.arr[Around(r.head, m - 1)]
        BY <1>3, <4>2
      <4> QED BY <2>6, <2>8, <4>1, <4>2, <4>3
    <3> QED BY <3>1
  <2>10. d = e
    BY <2>6, <2>8, <2>9, SeqEqual
  <2> QED BY <1>1, <1>3, <1>5, <2>3, <2>5, <2>7, <2>10
<1> QED BY <1>6, <1>7

----------------------------------------------------------------------------
\* The loop of write.

\* How far slot s is behind the tail.
Offset(r, s) == IF s >= r.tail THEN s - r.tail ELSE s - r.tail + RingBufferSize

\* The ring after the first i of the bytes were written to r.
PutRing(r, bytes, i) ==
  IF i = 0 THEN r
  ELSE [arr |-> [s \in Slots |-> IF Offset(r, s) < i THEN bytes[Offset(r, s) + 1] ELSE r.arr[s]],
        head |-> r.head, tail |-> Around(r.tail, i),
        status |-> IF Around(r.tail, i) = r.head THEN "Full" ELSE "Normal"]

WriteRounds(r, bytes, k, f) ==
  [i \in 0 .. k |-> IF i = 0 THEN r ELSE WriteByte(f[i - 1], bytes[i])]

LEMMA PutNext ==
  ASSUME NEW r, Good(r), NEW bytes, NEW i \in 1 .. AvailableWrite(r)
  PROVE  PutRing(r, bytes, i) = WriteByte(PutRing(r, bytes, i - 1), bytes[i])
<1>1. /\ r.tail \in Slots /\ RingBufferSize \in Nat /\ RingBufferSize > 0 /\ i \in 1 .. RingBufferSize
      /\ r.arr \in [Slots -> Bytes]
  BY AvailableIs, SizeAssumption
<1>2. PICK t, w : t = PutRing(r, bytes, i - 1) /\ w = Around(r.tail, i - 1)
  OBVIOUS
<1>3. /\ DOMAIN t.arr = Slots /\ t.head = r.head /\ t.tail = w
      /\ \A s \in Slots : t.arr[s] = IF Offset(r, s) < i - 1 THEN bytes[Offset(r, s) + 1] ELSE r.arr[s]
      /\ t = [arr |-> t.arr, head |-> t.head, tail |-> t.tail, status |-> t.status]
      /\ t.arr = [s \in Slots |-> t.arr[s]]
  <2>1. CASE i = 1
    <3>1. t = r /\ w = r.tail
      BY <1>1, <1>2, <2>1 DEF PutRing, Around, Slots
    <3>2. \A s \in Slots : ~(Offset(r, s) < i - 1)
      BY <1>1, <2>1 DEF Offset, Slots
    <3> QED BY <1>1, <3>1, <3>2 DEF Good, PipeRingBuffers
  <2>2. CASE i # 1
    BY <1>1, <1>2, <2>2 DEF PutRing
  <2> QED BY <2>1, <2>2
<1>4. (t.tail + 1) % RingBufferSize = Around(r.tail, i)
  BY <1>1, <1>2, <1>3, OneFurther
<1>5. w \in Slots /\ \A s \in Slots : s = w <=> Offset(r, s) = i - 1
  BY <1>1, <1>2 DEF Offset, Around, Slots
<1>6. PICK a : a = [t.arr EXCEPT ![w] = bytes[i]]
  OBVIOUS
<1>7. a = [s \in Slots |-> IF Offset(r, s) < i THEN bytes[Offset(r, s) + 1] ELSE r.arr[s]]
  <2>1. ASSUME NEW s \in Slots
        PROVE  a[s] = IF Offset(r, s) < i THEN bytes[Offset(r, s) + 1] ELSE r.arr[s]
    <3>1. Offset(r, s) \in Int
      BY <1>1 DEF Offset, Slots
    <3>2. CASE s = w
      <4>1. a[s] = bytes[i] /\ Offset(r, s) = i - 1
        BY <1>3, <1>5, <1>6, <3>2
      <4>2. Offset(r, s) < i /\ Offset(r, s) + 1 = i
        BY <1>1, <4>1
      <4> QED BY <4>1, <4>2
    <3>3. CASE s # w
      <4>1. a[s] = t.arr[s] /\ Offset(r, s) # i - 1
        BY <1>3, <1>5, <1>6, <3>3
      <4>2. Offset(r, s) < i <=> Offset(r, s) < i - 1
        BY <1>1, <3>1, <4>1
      <4> QED BY <1>3, <4>1, <4>2
    <3> QED BY <3>2, <3>3
  <2> QED BY <1>3, <1>6, <2>1
<1>8. WriteByte(t, bytes[i]) = [arr |-> a, head |-> r.head, tail |-> Around(r.tail, i),
                                status |-> IF Around(r.tail, i) = r.head THEN "Full" ELSE "Normal"]
  <2>1. WriteByte(t, bytes[i]) =
          [t EXCEPT !.arr[t.tail] = bytes[i], !.tail = Around(r.tail, i),
                    !.status = IF Around(r.tail, i) = t.head THEN "Full" ELSE "Normal"]
    BY <1>4 DEF WriteByte
  <2> QED BY <1>3, <1>6, <2>1
<1>9. i # 0
  BY <1>1
<1> QED BY <1>2, <1>7, <1>8, <1>9 DEF PutRing

LEMMA PutIs ==
  ASSUME NEW r, Good(r), NEW bytes, NEW k \in 0 .. AvailableWrite(r)
  PROVE  Put(r, bytes, k) = PutRing(r, bytes, k)
<1>0. k \in Nat /\ k <= AvailableWrite(r) /\ AvailableWrite(r) \in Nat
  BY AvailableIs, SizeAssumption
<1>1. PICK f : f = CHOOSE g : g = WriteRounds(r, bytes, k, g)
  OBVIOUS
<1>2. Put(r, bytes, k) = f[k]
  BY <1>1, Zenon DEF Put, WriteRounds
<1>3. PICK F : F = [i \in 0 .. k |-> PutRing(r, bytes, i)]
  OBVIOUS
<1>4. \A i \in 0 .. k : F[i] = IF i = 0 THEN r ELSE WriteByte(F[i - 1], bytes[i])
  <2>1. ASSUME NEW i \in 1 .. k PROVE F[i] = WriteByte(F[i - 1], bytes[i])
    <3>1. i \in 1 .. AvailableWrite(r) /\ F[i] = PutRing(r, bytes, i) /\ F[i - 1] = PutRing(r, bytes, i - 1)
      BY <1>0, <1>3
    <3> QED BY <3>1, PutNext
  <2>2. F[0] = r
    BY <1>0, <1>3 DEF PutRing
  <2> QED BY <1>0, <2>1, <2>2
<1>5. F = WriteRounds(r, bytes, k, F)
  BY <1>3, <1>4 DEF WriteRounds
<1>6. f = WriteRounds(r, bytes, k, f)
  BY <1>1, <1>5, Zenon
<1>7. \A i \in 0 .. k : f[i] = F[i]
  <2>1. PICK bad : bad = {i \in 0 .. k : f[i] # F[i]}
    OBVIOUS
  <2>2. SUFFICES ASSUME bad # {} PROVE FALSE
    BY <2>1
  <2>3. PICK m : m = Min(bad)
    OBVIOUS
  <2>4. m \in bad /\ \A i \in bad : m <= i
    <3>1. bad \in SUBSET Nat
      BY <1>0, <2>1
    <3> QED BY <2>2, <2>3, <3>1, MinMember
  <2>5. m \in 0 .. k /\ f[m] # F[m] /\ (m # 0 => f[m - 1] = F[m - 1])
    BY <1>0, <2>1, <2>4
  <2>6. /\ f[m] = IF m = 0 THEN r ELSE WriteByte(f[m - 1], bytes[m])
        /\ F[m] = IF m = 0 THEN r ELSE WriteByte(F[m - 1], bytes[m])
    BY <1>5, <1>6, <2>5, Zenon DEF WriteRounds
  <2> QED BY <2>5, <2>6
<1> QED BY <1>0, <1>2, <1>3, <1>7

\* Writing k bytes appends the first k of the bytes.
LEMMA PutPuts ==
  ASSUME NEW r, Good(r), NEW bytes \in Seq(Bytes), NEW k \in 0 .. AvailableWrite(r), k <= Len(bytes)
  PROVE  /\ Good(Put(r, bytes, k))
         /\ Contents(Put(r, bytes, k)) = Contents(r) \o SubSeq(bytes, 1, k)
<1>1. PICK n, c : n = AvailableRead(r) /\ c = Contents(r)
  OBVIOUS
<1>2. /\ n \in 0 .. RingBufferSize /\ RingBufferSize \in Nat /\ RingBufferSize > 0 /\ n \in Nat
      /\ k \in 0 .. RingBufferSize - n /\ r.head \in 0 .. RingBufferSize - 1 /\ r.tail = Around(r.head, n)
      /\ r.arr \in [Slots -> Bytes] /\ r.tail \in Slots /\ r.tail \in 0 .. RingBufferSize - 1
      /\ Len(bytes) \in Nat
  BY <1>1, AvailableIs, SizeAssumption DEF Slots
<1>a. PICK N, h, l : N = RingBufferSize /\ h = r.head /\ l = r.tail
  OBVIOUS
<1>b. /\ N \in Nat /\ N > 0 /\ n \in 0 .. N /\ k \in 0 .. N - n /\ h \in 0 .. N - 1 /\ l \in 0 .. N - 1
      /\ l = IF h + n >= N THEN h + n - N ELSE h + n
  BY <1>2, <1>a DEF Around
<1>3. c \in Seq(Bytes) /\ Len(c) = n /\ \A i \in 1 .. n : c[i] = r.arr[Around(r.head, i - 1)]
  BY <1>1, ContentsIs
<1>4. PICK t, u : t = PutRing(r, bytes, k) /\ u = SubSeq(bytes, 1, k)
  OBVIOUS
<1>5. Put(r, bytes, k) = t
  BY <1>4, PutIs
<1>6. u \in Seq(Bytes) /\ Len(u) = k /\ \A i \in 1 .. k : u[i] = bytes[i] /\ bytes[i] \in Bytes
  BY <1>2, <1>4, SubSeqProperties
<1>7. CASE k = 0
  <2>1. t = r /\ u = <<>>
    BY <1>4, <1>6, <1>7 DEF PutRing
  <2>2. c \o <<>> = c
    BY <1>3
  <2> QED BY <1>1, <1>4, <1>5, <2>1, <2>2
<1>8. CASE k # 0
  <2>1. /\ t.arr = [s \in Slots |-> IF Offset(r, s) < k THEN bytes[Offset(r, s) + 1] ELSE r.arr[s]]
        /\ t.head = r.head /\ t.tail = Around(r.tail, k)
        /\ t.status = (IF Around(r.tail, k) = r.head THEN "Full" ELSE "Normal")
        /\ t = [arr |-> t.arr, head |-> t.head, tail |-> t.tail, status |-> t.status]
    BY <1>4, <1>8 DEF PutRing
  <2>2. Around(r.tail, k) \in Slots
    <3>1. (IF l + k >= N THEN l + k - N ELSE l + k) \in 0 .. N - 1
      BY <1>b
    <3> QED BY <1>a, <3>1 DEF Around, Slots
  <2>3. t.arr \in [Slots -> Bytes]
    <3>1. ASSUME NEW s \in Slots, Offset(r, s) < k PROVE bytes[Offset(r, s) + 1] \in Bytes
      <4>1. Offset(r, s) + 1 \in 1 .. k
        BY <1>2, <3>1 DEF Offset, Slots
      <4> QED BY <1>6, <4>1
    <3> QED BY <1>2, <2>1, <3>1
  <2>4. Good(t)
    BY <1>2, <2>1, <2>2, <2>3 DEF Good, PipeRingBuffers, Slots
  <2>5. AvailableRead(t) = n + k
    <3>1. t.tail = Around(t.head, n + k) /\ n + k \in 0 .. RingBufferSize
      <4>1. (IF l + k >= N THEN l + k - N ELSE l + k) = IF h + (n + k) >= N THEN h + (n + k) - N ELSE h + (n + k)
        BY <1>b
      <4>2. n + k \in 0 .. N
        BY <1>b
      <4> QED BY <1>a, <2>1, <4>1, <4>2 DEF Around
    <3>2. n + k = RingBufferSize => t.status = "Full"
      BY <1>2, <2>1, SMTT(20) DEF Around
    <3>3. n + k # 0
      BY <1>2, <1>8
    <3> QED BY <2>4, <3>1, <3>2, <3>3, AvailableOf
  <2>6. PICK d : d = Contents(t)
    OBVIOUS
  <2>7. d \in Seq(Bytes) /\ Len(d) = n + k /\ \A i \in 1 .. n + k : d[i] = t.arr[Around(r.head, i - 1)]
    <3>1. /\ d \in Seq(Bytes) /\ Len(d) = AvailableRead(t)
          /\ \A i \in 1 .. AvailableRead(t) : d[i] = t.arr[Around(t.head, i - 1)]
      BY <2>4, <2>6, ContentsIs
    <3> QED BY <2>1, <2>5, <3>1
  <2>8. /\ c \o u \in Seq(Bytes) /\ Len(c \o u) = n + k
        /\ \A i \in 1 .. n + k : (c \o u)[i] = IF i <= n THEN c[i] ELSE u[i - n]
    BY <1>3, <1>6, ConcatProperties
  <2>9. ASSUME NEW i \in 1 .. n + k PROVE d[i] = (c \o u)[i]
    <3>1. PICK s : s = Around(r.head, i - 1)
      OBVIOUS
    <3>2. s \in Slots
      BY <1>2, <3>1 DEF Around, Slots
    <3>3. CASE i <= n
      <4>1. ~(Offset(r, s) < k)
        <5>1. s = IF h + (i - 1) >= N THEN h + (i - 1) - N ELSE h + (i - 1)
          BY <1>a, <3>1 DEF Around
        <5>2. Offset(r, s) = IF s >= l THEN s - l ELSE s - l + N
          BY <1>a DEF Offset
        <5> QED BY <1>b, <3>3, <5>1, <5>2
      <4>2. d[i] = r.arr[s]
        BY <2>1, <2>7, <3>1, <3>2, <4>1
      <4>3. i \in 1 .. n
        BY <1>2, <3>3
      <4> QED BY <1>3, <2>8, <3>1, <3>3, <4>2, <4>3
    <3>4. CASE ~(i <= n)
      <4>1. Offset(r, s) = i - n - 1
        <5>1. s = IF h + (i - 1) >= N THEN h + (i - 1) - N ELSE h + (i - 1)
          BY <1>a, <3>1 DEF Around
        <5>2. Offset(r, s) = IF s >= l THEN s - l ELSE s - l + N
          BY <1>a DEF Offset
        <5> QED BY <1>b, <3>4, <5>1, <5>2
      <4>2. Offset(r, s) < k /\ Offset(r, s) + 1 = i - n /\ i - n \in 1 .. k
        BY <1>2, <3>4, <4>1
      <4>3. d[i] = bytes[i - n]
        BY <2>1, <2>7, <3>1, <3>2, <4>2
      <4> QED BY <1>6, <2>8, <3>4, <4>2, <4>3
    <3> QED BY <3>3, <3>4
  <2>10. d = c \o u
    BY <2>7, <2>8, <2>9, SeqEqual
  <2> QED BY <1>1, <1>4, <1>5, <2>4, <2>6, <2>10
<1> QED BY <1>7, <1>8

----------------------------------------------------------------------------
\* The actions.

\* Every step keeps the invariant and is a step of the stream, or none.
Follows == PipeInv' /\ [Stream!Next]_(Stream!vars)

LEMMA ReadDoes ==
  ASSUME PipeInv, NEW p, NEW n \in Nat \ {0}, Read(p, n)
  PROVE  \E k \in 0 .. Len(Contents(ring)) :
           /\ k = AtMost(n, Len(Contents(ring)))
           /\ Contents(ring') = SubSeq(Contents(ring), k + 1, Len(Contents(ring)))
           /\ ret' = [value |-> IF Contents(ring) # <<>> THEN k ELSE IF AllWriteEndsClosed THEN 0 ELSE Retry,
                      bytes |-> SubSeq(Contents(ring), 1, k)]
           /\ "read" \in fds[p] /\ fds' = fds /\ PipeInv'
<1>1. PICK k, c : k = AtMost(n, AvailableRead(ring)) /\ c = Contents(ring)
  OBVIOUS
<1>2. /\ ring' = Take(ring, k).ring
      /\ ret' = [value |-> IF AvailableRead(ring) > 0 THEN k ELSE IF AllWriteEndsClosed THEN 0 ELSE Retry,
                 bytes |-> Take(ring, k).bytes]
      /\ "read" \in fds[p] /\ fds' = fds /\ alive' = alive /\ born' = born
  BY <1>1 DEF Read
<1>3. Good(ring) /\ AvailableRead(ring) \in Nat
  BY AvailableIs, SizeAssumption DEF PipeInv
<1>4. k \in 0 .. AvailableRead(ring)
  BY <1>1, <1>3 DEF AtMost
<1>5. /\ Good(ring') /\ Contents(ring') = SubSeq(c, k + 1, Len(c))
      /\ Take(ring, k).bytes = SubSeq(c, 1, k)
  BY <1>1, <1>2, <1>3, <1>4, TakeTakes
<1>6. c \in Seq(Bytes) /\ Len(c) = AvailableRead(ring)
  BY <1>1, <1>3, ContentsIs
<1>7. k = AtMost(n, Len(c)) /\ (AvailableRead(ring) > 0 <=> c # <<>>)
  BY <1>1, <1>3, <1>6
<1>8. ret' = [value |-> IF c # <<>> THEN k ELSE IF AllWriteEndsClosed THEN 0 ELSE Retry,
              bytes |-> SubSeq(c, 1, k)]
  BY <1>2, <1>5, <1>7
<1>9. PipeInv'
  BY <1>2, <1>5 DEF PipeInv
<1> QED BY <1>1, <1>2, <1>4, <1>5, <1>6, <1>7, <1>8, <1>9

LEMMA ReadFollows ==
  ASSUME PipeInv, NEW p \in Procs, NEW n \in 1 .. MaxLen, Read(p, n)
  PROVE  Follows
<1>1. n \in Nat \ {0}
  BY LenAssumption
<1>2. PICK c : c = Contents(ring)
  OBVIOUS
<1>3. PICK k : /\ k = AtMost(n, Len(c)) /\ Contents(ring') = SubSeq(c, k + 1, Len(c))
               /\ ret' = [value |-> IF c # <<>> THEN k ELSE IF AllWriteEndsClosed THEN 0 ELSE Retry,
                          bytes |-> SubSeq(c, 1, k)]
               /\ "read" \in fds[p] /\ fds' = fds /\ PipeInv'
  BY <1>1, <1>2, ReadDoes
<1>4. AllWriteEndsClosed <=> Stream!Writers = {}
  BY DEF AllWriteEndsClosed, Stream!Writers
<1>5. ret' = [value |-> IF c # <<>> THEN k ELSE IF Stream!Writers = {} THEN 0 ELSE Stream!Retry,
              bytes |-> SubSeq(c, 1, k)]
  BY <1>3, <1>4 DEF Retry, Stream!Retry
<1>6. k = Stream!AtMost(n, Len(c))
  BY <1>3 DEF Stream!AtMost, AtMost
<1>7. Stream!Read(p, n)
  BY <1>2, <1>3, <1>5, <1>6 DEF Stream!Read
<1> QED BY <1>3, <1>7 DEF Follows, Stream!Next

LEMMA WriteDoes ==
  ASSUME PipeInv, NEW p, NEW bytes \in Seq(Bytes), bytes # <<>>, Write(p, bytes)
  PROVE  \E k \in 0 .. Len(bytes) :
           /\ k = AtMost(Len(bytes), RingBufferSize - Len(Contents(ring)))
           /\ Contents(ring') = Contents(ring) \o SubSeq(bytes, 1, k)
           /\ ret' = [value |-> IF k = 0 THEN Retry ELSE k, bytes |-> <<>>]
           /\ "write" \in fds[p] /\ fds' = fds /\ PipeInv'
<1>1. PICK k, c : k = AtMost(Len(bytes), AvailableWrite(ring)) /\ c = Contents(ring)
  OBVIOUS
<1>2. /\ ring' = Put(ring, bytes, k)
      /\ ret' = [value |-> IF AvailableWrite(ring) = 0 THEN Retry ELSE k, bytes |-> <<>>]
      /\ "write" \in fds[p] /\ fds' = fds /\ alive' = alive /\ born' = born
  BY <1>1 DEF Write
<1>3. /\ Good(ring) /\ AvailableRead(ring) \in 0 .. RingBufferSize
      /\ AvailableWrite(ring) = RingBufferSize - AvailableRead(ring)
  BY AvailableIs DEF PipeInv
<1>4. Len(bytes) \in Nat /\ Len(bytes) > 0 /\ RingBufferSize \in Nat
  BY SizeAssumption
<1>5. k \in 0 .. AvailableWrite(ring) /\ k <= Len(bytes) /\ (k = 0 <=> AvailableWrite(ring) = 0)
  BY <1>1, <1>3, <1>4 DEF AtMost
<1>6. Good(ring') /\ Contents(ring') = c \o SubSeq(bytes, 1, k)
  BY <1>1, <1>2, <1>3, <1>5, PutPuts
<1>7. Len(c) = AvailableRead(ring)
  BY <1>1, <1>3, ContentsIs
<1>8. k = AtMost(Len(bytes), RingBufferSize - Len(c))
  BY <1>1, <1>3, <1>7
<1>9. ret' = [value |-> IF k = 0 THEN Retry ELSE k, bytes |-> <<>>]
  BY <1>2, <1>5
<1>10. PipeInv'
  BY <1>2, <1>6 DEF PipeInv
<1>11. k \in 0 .. Len(bytes)
  BY <1>3, <1>4, <1>5
<1> QED BY <1>1, <1>2, <1>6, <1>8, <1>9, <1>10, <1>11

LEMMA WriteFollows ==
  ASSUME PipeInv, NEW p \in Procs, NEW n \in 1 .. MaxLen, NEW bytes \in [1 .. n -> Bytes], Write(p, bytes)
  PROVE  Follows
<1>1. bytes \in Seq(Bytes) /\ bytes # <<>>
  BY LenAssumption
<1>2. PICK c : c = Contents(ring)
  OBVIOUS
<1>3. PICK k : /\ k = AtMost(Len(bytes), RingBufferSize - Len(c)) /\ Contents(ring') = c \o SubSeq(bytes, 1, k)
               /\ ret' = [value |-> IF k = 0 THEN Retry ELSE k, bytes |-> <<>>]
               /\ "write" \in fds[p] /\ fds' = fds /\ PipeInv'
  BY <1>1, <1>2, WriteDoes
<1>4. k = Stream!AtMost(Len(bytes), RingBufferSize - Len(c))
  BY <1>3 DEF Stream!AtMost, AtMost
<1>5. Stream!Write(p, bytes)
  BY <1>2, <1>3, <1>4 DEF Stream!Write, Retry, Stream!Retry
<1> QED BY <1>3, <1>5 DEF Follows, Stream!Next

\* A process passes its ends on, or gives some up.
LEMMA HoldFollows ==
  ASSUME PipeInv, NEW p \in Procs, NEW held \in SUBSET Ends,
         held \subseteq fds[p] \/ \E q \in Procs : held = fds[q],
         fds' = [fds EXCEPT ![p] = held], ring' = ring, ret' = ret,
         alive' \subseteq born', born' \subseteq Procs
  PROVE  Follows
<1>1. PipeInv'
  BY DEF PipeInv
<1>2. Stream!Hold(p, held)
  BY DEF Stream!Hold
<1> QED BY <1>1, <1>2 DEF Follows, Stream!Next, Ends

LEMMA StutterFollows ==
  ASSUME PipeInv, UNCHANGED <<ring, fds, alive, born, ret>>
  PROVE  Follows
  BY DEF Follows, PipeInv, Stream!vars

LEMMA CallFollows ==
  ASSUME PipeInv, NEW p \in Procs, Call(p)
  PROVE  Follows
<1>i. fds \in [Procs -> SUBSET Ends] /\ alive \subseteq born /\ born \subseteq Procs
  BY DEF PipeInv
<1>1. ASSUME NEW n \in 1 .. MaxLen, Read(p, n) PROVE Follows
  BY <1>1, ReadFollows
<1>2. ASSUME NEW n \in 1 .. MaxLen, NEW bytes \in [1 .. n -> Bytes], Write(p, bytes) PROVE Follows
  BY <1>2, WriteFollows
<1>3. CASE EmptyBuffer(p)
  BY <1>3, StutterFollows DEF EmptyBuffer
<1>4. ASSUME NEW c \in Procs, Fork(p, c) PROVE Follows
  <2>1. /\ fds' = [fds EXCEPT ![c] = fds[p]] /\ fds[p] \in SUBSET Ends /\ ring' = ring /\ ret' = ret
        /\ alive' \subseteq born' /\ born' \subseteq Procs
    BY <1>4, <1>i DEF Fork
  <2> QED BY <2>1, HoldFollows
<1>5. ASSUME NEW end \in Ends, Close(p, end) PROVE Follows
  <2>1. /\ fds' = [fds EXCEPT ![p] = fds[p] \ {end}] /\ fds[p] \ {end} \in SUBSET Ends
        /\ fds[p] \ {end} \subseteq fds[p] /\ ring' = ring /\ ret' = ret
        /\ alive' \subseteq born' /\ born' \subseteq Procs
    BY <1>5, <1>i DEF Close
  <2> QED BY <2>1, HoldFollows
<1>6. CASE EndProcess(p)
  <2>1. /\ fds' = [fds EXCEPT ![p] = {}] /\ ring' = ring /\ ret' = ret
        /\ alive' \subseteq born' /\ born' \subseteq Procs
    BY <1>6, <1>i DEF EndProcess
  <2>2. {} \in SUBSET Ends /\ {} \subseteq fds[p]
    OBVIOUS
  <2> QED BY <2>1, <2>2, HoldFollows
<1> QED BY <1>1, <1>2, <1>3, <1>4, <1>5, <1>6 DEF Call

LEMMA StepFollows ==
  ASSUME PipeInv, [Next]_vars
  PROVE  Follows
<1>1. CASE \E p \in Procs : Call(p)
  BY <1>1, CallFollows
<1>2. CASE Stopped \/ UNCHANGED vars
  BY <1>2, StutterFollows DEF Stopped, vars
<1> QED BY <1>1, <1>2 DEF Next

LEMMA InitGood == Init => PipeInv /\ Stream!Init
<1> SUFFICES ASSUME Init PROVE PipeInv /\ Stream!Init
  OBVIOUS
<1>1. Good(ring) /\ AvailableRead(ring) = 0
  <2>1. ring \in [arr : [Slots -> Bytes], head : {0}, tail : {0}, status : {"Empty"}] /\ 0 \in Slots
    BY SizeAssumption DEF Init, Slots
  <2> QED BY <2>1 DEF Good, PipeRingBuffers, AvailableRead
<1>2. PICK p \in Procs : /\ alive = {p} /\ born = {p}
                         /\ fds = [q \in Procs |-> IF q = p THEN Ends ELSE {}]
  BY DEF Init
<1>3. PipeInv
  BY <1>1, <1>2 DEF PipeInv
<1>4. Contents(ring) = <<>>
  BY <1>1, ContentsIs
<1>5. ret = [value |-> 0, bytes |-> <<>>]
  BY DEF Init
<1> QED BY <1>2, <1>3, <1>4, <1>5 DEF Stream!Init, Ends

----------------------------------------------------------------------------
\* The pipe.

\* Over any wrap-around and any partial read or write of PipeRingBuffer, and whatever
\* processes do with their ends, readers get the bytes that were written, in order,
\* once each, and the end only when no writer is left.
THEOREM StreamKept == Spec => StreamImplemented
<1>1. PipeInv /\ [Next]_vars => PipeInv'
  BY StepFollows DEF Follows
<1>2. PipeInv /\ [Next]_vars => [Stream!Next]_(Stream!vars)
  BY StepFollows DEF Follows
<1> QED BY <1>1, <1>2, InitGood, PTL DEF Spec, StreamImplemented, Stream!Spec

----------------------------------------------------------------------------
\* The two programs of pipetest.rs.

Free == message = <<>> /\ buffer = <<>> /\ pc = [p \in {Parent, Child} |-> "free"]

\* What the child has and what the ring holds is what pipe_write counts as sent; the
\* parent closes its write end only when that is the whole message.
ProgramInv ==
  /\ message \in Seq(Bytes) /\ buffer \in Seq(Bytes)
  /\ bufferLen \in Nat /\ Len(buffer) <= bufferLen
  /\ sent \in 0 .. Len(message)
  /\ buffer \o Contents(ring) = SubSeq(message, 1, sent)
  /\ DOMAIN pc = {Parent, Child}
  /\ pc[Parent] \in {"fork", "close", "write", "closeWrite", "wait", "done"}
  /\ pc[Child] \in {"unborn", "close", "read", "closeRead", "exit", "done"}
  /\ pc[Parent] \in {"fork", "close", "write", "closeWrite"} => "write" \in fds[Parent]
  /\ pc[Parent] \in {"closeWrite", "wait", "done"} => sent = Len(message)
  /\ pc[Child] \in {"closeRead", "exit", "done"} => Len(buffer) = AtMost(bufferLen, Len(message))

TestInv == PipeInv /\ (Free \/ ProgramInv)

\* What is read leaves the front of the ring.
LEMMA MovedOver ==
  ASSUME NEW S, NEW b \in Seq(S), NEW c \in Seq(S), NEW k \in 0 .. Len(c)
  PROVE  /\ (b \o SubSeq(c, 1, k)) \o SubSeq(c, k + 1, Len(c)) = b \o c
         /\ b \o SubSeq(c, 1, k) \in Seq(S) /\ Len(b \o SubSeq(c, 1, k)) = Len(b) + k
<1>1. PICK x, y, n : x = SubSeq(c, 1, k) /\ y = SubSeq(c, k + 1, Len(c)) /\ n = Len(c)
  OBVIOUS
<1>2. /\ n \in Nat /\ k \in 0 .. n /\ Len(b) \in Nat
      /\ x \in Seq(S) /\ Len(x) = k /\ \A i \in 1 .. k : x[i] = c[i]
  BY <1>1, SubSeqProperties
<1>3. y \in Seq(S) /\ Len(y) = n - k /\ \A i \in 1 .. n - k : y[i] = c[k + i]
  BY <1>1, <1>2, SubSeqProperties
<1>4. x \o y = c
  <2>1. 1 \in 1 .. Len(c) + 1 /\ k \in 1 - 1 .. Len(c) /\ n \in k .. Len(c)
    BY <1>1, <1>2
  <2>2. SubSeq(c, 1, k) \o SubSeq(c, k + 1, n) = SubSeq(c, 1, n)
    BY <2>1, ConcatAdjacentSubSeq
  <2> QED BY <1>1, <2>2, SubSeqFull
<1>5. (b \o x) \o y = b \o (x \o y)
  BY <1>2, <1>3, ConcatAssociative
<1>6. b \o x \in Seq(S) /\ Len(b \o x) = Len(b) + k
  BY <1>2, ConcatProperties
<1> QED BY <1>1, <1>4, <1>5, <1>6

\* What is written follows what was sent before.
Rest(m, s) == SubSeq(m, s + 1, Len(m))

SentFurther(S, m, s, k) ==
  /\ s + k \in 0 .. Len(m) /\ SubSeq(Rest(m, s), 1, k) \in Seq(S)
  /\ SubSeq(m, 1, s) \o SubSeq(Rest(m, s), 1, k) = SubSeq(m, 1, s + k)

LEMMA SentMore ==
  ASSUME NEW S, NEW m \in Seq(S), NEW s \in 0 .. Len(m), NEW k \in 0 .. Len(Rest(m, s))
  PROVE  SentFurther(S, m, s, k)
<1>0. PICK rest : rest = Rest(m, s)
  OBVIOUS
<1>1. PICK n, x, y, z : n = Len(m) /\ x = SubSeq(m, 1, s) /\ y = SubSeq(rest, 1, k) /\ z = SubSeq(m, 1, s + k)
  OBVIOUS
<1>2. n \in Nat /\ s \in 0 .. n
  BY <1>1
<1>3. rest \in Seq(S) /\ Len(rest) = n - s /\ \A i \in 1 .. n - s : rest[i] = m[s + i]
  <2>1. PICK f : f = s + 1
    OBVIOUS
  <2>2. rest = SubSeq(m, f, n)
    BY <1>0, <1>1, <2>1 DEF Rest
  <2>3. f \in 1 .. n + 1 /\ n \in f - 1 .. Len(m) /\ m \in Seq(S)
    BY <1>1, <1>2, <2>1
  <2>4. /\ SubSeq(m, f, n) \in Seq(S)
        /\ Len(SubSeq(m, f, n)) = IF f <= n THEN n - f + 1 ELSE 0
        /\ \A i \in 1 .. n - f + 1 : SubSeq(m, f, n)[i] = m[f + i - 1]
    BY <2>3, SubSeqProperties
  <2>5. n - f + 1 = n - s /\ (f <= n \/ n - s = 0) /\ \A i \in 1 .. n - s : f + i - 1 = s + i
    BY <1>2, <2>1
  <2> QED BY <2>2, <2>4, <2>5
<1>4. k \in 0 .. n - s /\ s + k \in 0 .. n
  BY <1>0, <1>2, <1>3
<1>5. x \in Seq(S) /\ Len(x) = s /\ \A i \in 1 .. s : x[i] = m[i]
  BY <1>1, <1>2, SubSeqProperties
<1>6. y \in Seq(S) /\ Len(y) = k /\ \A i \in 1 .. k : y[i] = rest[i]
  BY <1>1, <1>2, <1>3, <1>4, SubSeqProperties
<1>7. z \in Seq(S) /\ Len(z) = s + k /\ \A i \in 1 .. s + k : z[i] = m[i]
  BY <1>1, <1>2, <1>4, SubSeqProperties
<1>8. /\ x \o y \in Seq(S) /\ Len(x \o y) = s + k
      /\ \A i \in 1 .. s + k : (x \o y)[i] = IF i <= s THEN x[i] ELSE y[i - s]
  BY <1>5, <1>6, ConcatProperties
<1>9. ASSUME NEW i \in 1 .. s + k PROVE (x \o y)[i] = z[i]
  <2>1. CASE i <= s
    <3>1. i \in 1 .. s
      BY <1>2, <1>4, <2>1
    <3>2. (x \o y)[i] = x[i] /\ x[i] = m[i] /\ z[i] = m[i]
      BY <1>5, <1>7, <1>8, <2>1, <3>1
    <3> QED BY <3>2
  <2>2. CASE ~(i <= s)
    <3>1. PICK j : j = i - s
      OBVIOUS
    <3>2. j \in 1 .. k /\ j \in 1 .. n - s /\ s + j = i
      BY <1>2, <1>4, <2>2, <3>1
    <3>3. (x \o y)[i] = y[j]
      BY <1>8, <2>2, <3>1
    <3>4. y[j] = rest[j] /\ rest[j] = m[s + j]
      BY <1>3, <1>6, <3>2
    <3>5. z[i] = m[i]
      BY <1>7
    <3> QED BY <3>2, <3>3, <3>4, <3>5
  <2> QED BY <2>1, <2>2
<1>10. x \o y = z
  BY <1>7, <1>8, <1>9, SeqEqual
<1> QED BY <1>0, <1>1, <1>4, <1>6, <1>10 DEF SentFurther

LEMMA ProgramFacts ==
  ASSUME PipeInv, ProgramInv
  PROVE  /\ Contents(ring) \in Seq(Bytes) /\ Len(Contents(ring)) \in 0 .. RingBufferSize
         /\ Len(buffer) \in Nat /\ Len(message) \in Nat /\ sent \in Nat
         /\ Len(buffer) + Len(Contents(ring)) = sent
         /\ \A i \in 1 .. Len(buffer) : buffer[i] = message[i]
<1>1. PICK c : c = Contents(ring)
  OBVIOUS
<1>2. c \in Seq(Bytes) /\ Len(c) \in 0 .. RingBufferSize /\ Len(c) \in Nat
  BY <1>1, ContentsIs, AvailableIs, SizeAssumption DEF PipeInv
<1>3. /\ buffer \in Seq(Bytes) /\ message \in Seq(Bytes) /\ sent \in 0 .. Len(message)
      /\ buffer \o c = SubSeq(message, 1, sent)
  BY <1>1 DEF ProgramInv
<1>4. Len(buffer) \in Nat /\ Len(message) \in Nat /\ sent \in Nat
  BY <1>3
<1>5. /\ Len(buffer \o c) = Len(buffer) + Len(c)
      /\ \A i \in 1 .. Len(buffer) + Len(c) : (buffer \o c)[i] = IF i <= Len(buffer) THEN buffer[i] ELSE c[i - Len(buffer)]
  BY <1>2, <1>3, ConcatProperties
<1>6. /\ Len(SubSeq(message, 1, sent)) = sent
      /\ \A i \in 1 .. sent : SubSeq(message, 1, sent)[i] = message[i]
  BY <1>3, <1>4, SubSeqProperties
<1>7. Len(buffer) + Len(c) = sent
  BY <1>3, <1>5, <1>6
<1>8. ASSUME NEW i \in 1 .. Len(buffer) PROVE buffer[i] = message[i]
  <2>1. i \in 1 .. sent /\ i \in 1 .. Len(buffer) + Len(c) /\ i <= Len(buffer)
    BY <1>2, <1>4, <1>7
  <2>2. (buffer \o c)[i] = buffer[i] /\ SubSeq(message, 1, sent)[i] = message[i]
    BY <1>5, <1>6, <2>1
  <2> QED BY <1>3, <2>2
<1> QED BY <1>1, <1>2, <1>4, <1>7, <1>8

\* The invariant says enough.
LEMMA TestInvImplies == TestInv => MessageArrives
<1> SUFFICES ASSUME TestInv PROVE MessageArrives
  OBVIOUS
<1>1. CASE Free
  <2>1. SubSeq(<<>>, 1, 0) = <<>>
    BY SubSeqEmpty
  <2>2. Parent # Child
    BY ProgramAssumption
  <2> QED BY <1>1, <2>1, <2>2 DEF Free, MessageArrives
<1>2. CASE PipeInv /\ ProgramInv
  <2>1. /\ Len(Contents(ring)) \in 0 .. RingBufferSize /\ Len(buffer) \in Nat /\ Len(message) \in Nat
        /\ Len(buffer) + Len(Contents(ring)) = sent
        /\ \A i \in 1 .. Len(buffer) : buffer[i] = message[i]
    BY <1>2, ProgramFacts
  <2>2. /\ buffer \in Seq(Bytes) /\ message \in Seq(Bytes) /\ bufferLen \in Nat /\ Len(buffer) <= bufferLen
        /\ sent \in 0 .. Len(message)
    BY <1>2 DEF ProgramInv
  <2>3. buffer = SubSeq(message, 1, Len(buffer))
    <3>1. PICK b : b = SubSeq(message, 1, Len(buffer))
      OBVIOUS
    <3>2. b \in Seq(Bytes) /\ Len(b) = Len(buffer) /\ \A i \in 1 .. Len(buffer) : b[i] = message[i]
      <4>1. \A i \in 1 .. Len(buffer) : message[i] \in Bytes
        BY <2>1, <2>2
      <4> QED BY <2>1, <3>1, <4>1, SubSeqProperties
    <3>3. \A i \in 1 .. Len(buffer) : buffer[i] = b[i]
      BY <2>1, <3>2
    <3> QED BY <2>2, <3>1, <3>2, <3>3, SeqEqual
  <2>4. pc[Parent] \in {"closeWrite", "wait", "done"} => Fits
    <3>1. sent = Len(message) => Fits
      BY <2>1, <2>2, SizeAssumption DEF Fits
    <3> QED BY <1>2, <3>1 DEF ProgramInv
  <2> QED BY <1>2, <2>3, <2>4 DEF MessageArrives, ProgramInv
<1> QED BY <1>1, <1>2 DEF TestInv

\* Steps that move no byte.
LEMMA EndsStep ==
  ASSUME PipeInv, ProgramInv, NEW p \in Procs,
         \/ \E c \in Procs : Fork(p, c)
         \/ \E end \in Ends : Close(p, end)
         \/ EndProcess(p)
  PROVE  PipeInv' /\ ring' = ring
<1>1. Call(p)
  BY DEF Call
<1>2. PipeInv'
  BY <1>1, CallFollows DEF Follows
<1> QED BY <1>2 DEF Fork, Close, EndProcess

LEMMA PipeReadStep ==
  ASSUME PipeInv, ProgramInv, PipeRead
  PROVE  PipeInv' /\ ProgramInv'
<1>p. Parent \in Procs /\ Child \in Procs /\ Parent # Child
  BY ProgramAssumption
<1>1. PICK c, n : c = Contents(ring) /\ n = bufferLen - Len(buffer)
  OBVIOUS
<1>2. /\ c \in Seq(Bytes) /\ Len(c) \in Nat /\ Len(buffer) \in Nat /\ Len(message) \in Nat /\ sent \in Nat
      /\ Len(buffer) + Len(c) = sent
  BY <1>1, ProgramFacts, SizeAssumption
<1>3. /\ message \in Seq(Bytes) /\ buffer \in Seq(Bytes) /\ bufferLen \in Nat /\ Len(buffer) <= bufferLen
      /\ sent \in 0 .. Len(message) /\ buffer \o c = SubSeq(message, 1, sent) /\ DOMAIN pc = {Parent, Child}
      /\ pc[Child] = "read" /\ pc[Parent] \in {"fork", "close", "write", "closeWrite", "wait", "done"}
      /\ message' = message /\ bufferLen' = bufferLen /\ sent' = sent
  BY <1>1, Zenon DEF ProgramInv, PipeRead, Goto, input
<1>4. CASE Len(buffer) >= bufferLen
  <2>1. /\ pc' = [pc EXCEPT ![Child] = "closeRead"] /\ buffer' = buffer /\ ring' = ring /\ fds' = fds
        /\ alive' = alive /\ born' = born
    BY <1>4 DEF PipeRead, Goto, vars
  <2>2. PipeInv'
    BY <2>1 DEF PipeInv
  <2>3. Len(buffer) = AtMost(bufferLen, Len(message))
    BY <1>2, <1>3, <1>4 DEF AtMost
  <2> QED BY <1>p, <1>3, <2>1, <2>2, <2>3 DEF ProgramInv
<1>5. CASE ~(Len(buffer) >= bufferLen)
  <2>1. /\ Read(Child, n) /\ buffer' = buffer \o ret'.bytes
        /\ pc' = [pc EXCEPT ![Child] = IF ret'.value = 0 THEN "closeRead" ELSE "read"]
    BY <1>1, <1>5 DEF PipeRead, Goto
  <2>2. n \in Nat \ {0}
    BY <1>1, <1>2, <1>3, <1>5
  <2>3. PICK k \in 0 .. Len(c) :
          /\ k = AtMost(n, Len(c)) /\ Contents(ring') = SubSeq(c, k + 1, Len(c))
          /\ ret' = [value |-> IF c # <<>> THEN k ELSE IF AllWriteEndsClosed THEN 0 ELSE Retry,
                     bytes |-> SubSeq(c, 1, k)]
          /\ fds' = fds /\ PipeInv'
    BY <1>1, <2>1, <2>2, ReadDoes
  <2>4. buffer' = buffer \o SubSeq(c, 1, k)
    BY <2>1, <2>3
  <2>5. /\ buffer' \in Seq(Bytes) /\ Len(buffer') = Len(buffer) + k
        /\ buffer' \o Contents(ring') = SubSeq(message, 1, sent)
    <3>1. /\ (buffer \o SubSeq(c, 1, k)) \o SubSeq(c, k + 1, Len(c)) = buffer \o c
          /\ buffer \o SubSeq(c, 1, k) \in Seq(Bytes) /\ Len(buffer \o SubSeq(c, 1, k)) = Len(buffer) + k
      <4>1. buffer \in Seq(Bytes) /\ c \in Seq(Bytes) /\ k \in 0 .. Len(c)
        BY <1>2, <1>3
      <4> QED BY <4>1, MovedOver, Zenon
    <3> QED BY <1>3, <2>3, <2>4, <3>1
  <2>6. Len(buffer') <= bufferLen
    BY <1>1, <1>2, <1>3, <2>2, <2>3, <2>5 DEF AtMost
  <2>7. ASSUME ret'.value = 0
        PROVE  Len(buffer') = AtMost(bufferLen, Len(message))
    <3>1. ret'.value = IF c # <<>> THEN k ELSE IF AllWriteEndsClosed THEN 0 ELSE Retry
      BY <2>3
    <3>2. c = <<>>
      <4>1. SUFFICES ASSUME c # <<>> PROVE FALSE
        OBVIOUS
      <4>2. Len(c) > 0
        BY <1>2, <4>1
      <4>3. k > 0
        BY <1>2, <2>2, <2>3, <4>2 DEF AtMost
      <4> QED BY <2>7, <3>1, <4>1, <4>3
    <3>3. AllWriteEndsClosed
      BY <2>7, <3>1, <3>2 DEF Retry
    <3>4. "write" \notin fds[Parent]
      BY <1>p, <3>3 DEF AllWriteEndsClosed
    <3>5. sent = Len(message)
      BY <1>3, <3>4 DEF ProgramInv
    <3>6. Len(c) = 0 /\ k = 0
      BY <1>2, <3>2
    <3> QED BY <1>2, <1>3, <1>5, <2>5, <3>5, <3>6 DEF AtMost
  <2>8. /\ DOMAIN pc' = {Parent, Child} /\ pc'[Parent] = pc[Parent]
        /\ pc'[Child] \in {"closeRead", "read"} /\ (pc'[Child] = "closeRead" => ret'.value = 0)
    BY <1>p, <1>3, <2>1
  <2>9. /\ pc'[Parent] \in {"fork", "close", "write", "closeWrite"} => "write" \in fds'[Parent]
        /\ pc'[Parent] \in {"closeWrite", "wait", "done"} => sent' = Len(message')
    BY <1>3, <2>3, <2>8 DEF ProgramInv
  <2>10. buffer' \o Contents(ring)' = SubSeq(message', 1, sent')
    BY <1>3, <2>5
  <2>11. pc'[Child] \in {"closeRead", "exit", "done"} => Len(buffer') = AtMost(bufferLen', Len(message'))
    BY <1>3, <2>7, <2>8
  <2>12. ProgramInv'
    BY <1>3, <2>5, <2>6, <2>8, <2>9, <2>10, <2>11 DEF ProgramInv
  <2> QED BY <2>3, <2>12
<1> QED BY <1>4, <1>5

LEMMA PipeWriteStep ==
  ASSUME PipeInv, ProgramInv, PipeWrite
  PROVE  PipeInv' /\ ProgramInv'
<1>p. Parent \in Procs /\ Child \in Procs /\ Parent # Child
  BY ProgramAssumption
<1>1. PICK c, rest : c = Contents(ring) /\ rest = SubSeq(message, sent + 1, Len(message))
  OBVIOUS
<1>2. /\ c \in Seq(Bytes) /\ Len(c) \in Nat /\ Len(buffer) \in Nat /\ Len(message) \in Nat /\ sent \in Nat
  BY <1>1, ProgramFacts, SizeAssumption
<1>3. /\ message \in Seq(Bytes) /\ buffer \in Seq(Bytes) /\ bufferLen \in Nat /\ Len(buffer) <= bufferLen
      /\ sent \in 0 .. Len(message) /\ buffer \o c = SubSeq(message, 1, sent) /\ DOMAIN pc = {Parent, Child}
      /\ pc[Parent] = "write" /\ pc[Child] \in {"unborn", "close", "read", "closeRead", "exit", "done"}
      /\ message' = message /\ bufferLen' = bufferLen /\ buffer' = buffer
      /\ pc[Child] \in {"closeRead", "exit", "done"} => Len(buffer) = AtMost(bufferLen, Len(message))
  BY <1>1 DEF ProgramInv, PipeWrite, Goto, input
<1>4. CASE sent >= Len(message)
  <2>1. /\ pc' = [pc EXCEPT ![Parent] = "closeWrite"] /\ sent' = sent /\ ring' = ring /\ fds' = fds
        /\ alive' = alive /\ born' = born
    BY <1>4 DEF PipeWrite, Goto, vars
  <2>2. PipeInv'
    BY <2>1 DEF PipeInv
  <2>3. sent = Len(message) /\ "write" \in fds[Parent]
    BY <1>2, <1>3, <1>4 DEF ProgramInv
  <2>4. ProgramInv'
    BY <1>p, <1>1, <1>3, <2>1, <2>3 DEF ProgramInv
  <2> QED BY <2>2, <2>4
<1>5. CASE ~(sent >= Len(message))
  <2>1. /\ Write(Parent, rest) /\ sent' = (IF ret'.value = Retry THEN sent ELSE sent + ret'.value) /\ pc' = pc
    BY <1>1, <1>5 DEF PipeWrite
  <2>2. rest \in Seq(Bytes) /\ Len(rest) = Len(message) - sent
    BY <1>1, <1>2, <1>3, SubSeqProperties
  <2>3. rest # <<>>
    BY <1>2, <1>5, <2>2
  <2>4. PICK k \in 0 .. Len(rest) :
          /\ Contents(ring') = c \o SubSeq(rest, 1, k)
          /\ ret' = [value |-> IF k = 0 THEN Retry ELSE k, bytes |-> <<>>]
          /\ fds' = fds /\ PipeInv'
    BY <1>1, <2>1, <2>2, <2>3, WriteDoes
  <2>5. sent' = sent + k
    <3>1. ret'.value = IF k = 0 THEN Retry ELSE k
      BY <2>4
    <3>2. k \in Nat
      BY <1>2, <2>2
    <3> QED BY <1>2, <2>1, <3>1, <3>2 DEF Retry
  <2>6. /\ sent + k \in 0 .. Len(message) /\ SubSeq(rest, 1, k) \in Seq(Bytes)
        /\ SubSeq(message, 1, sent) \o SubSeq(rest, 1, k) = SubSeq(message, 1, sent + k)
    <3>1. message \in Seq(Bytes) /\ sent \in 0 .. Len(message) /\ k \in 0 .. Len(Rest(message, sent))
      BY <1>1, <1>3 DEF Rest
    <3>2. SentFurther(Bytes, message, sent, k)
      BY <3>1, SentMore, Zenon
    <3>3. rest = Rest(message, sent)
      BY <1>1 DEF Rest
    <3> QED BY <3>2, <3>3, Zenon DEF SentFurther
  <2>7. buffer \o (c \o SubSeq(rest, 1, k)) = (buffer \o c) \o SubSeq(rest, 1, k)
    <3>1. PICK x : x = SubSeq(rest, 1, k)
      OBVIOUS
    <3>2. buffer \in Seq(Bytes) /\ c \in Seq(Bytes) /\ x \in Seq(Bytes)
      BY <1>2, <1>3, <2>6, <3>1
    <3>3. (buffer \o c) \o x = buffer \o (c \o x)
      BY <3>2, ConcatAssociative
    <3> QED BY <3>1, <3>3
  <2>8. buffer' \o Contents(ring)' = SubSeq(message', 1, sent')
    BY <1>3, <2>4, <2>5, <2>6, <2>7
  <2>9. "write" \in fds'[Parent]
    BY <1>3, <2>4 DEF ProgramInv
  <2>10. ProgramInv'
    BY <1>3, <2>1, <2>5, <2>6, <2>8, <2>9 DEF ProgramInv
  <2> QED BY <2>4, <2>10
<1> QED BY <1>4, <1>5

\* What the other steps leave alone.
LEMMA QuietStep ==
  ASSUME ProgramInv, NEW p \in {Parent, Child}, NEW label,
         UNCHANGED <<message, bufferLen, ring, sent, buffer>>,
         pc' = [pc EXCEPT ![p] = label],
         p = Parent => label \in {"close", "write", "wait", "done"},
         p = Parent /\ label \in {"close", "write"} => "write" \in fds'[Parent],
         p = Parent /\ label \in {"wait", "done"} => pc[Parent] \in {"closeWrite", "wait"},
         p = Child => label \in {"close", "read", "exit", "done"},
         p = Child /\ label \in {"exit", "done"} => pc[Child] \in {"closeRead", "exit"},
         p = Child => fds'[Parent] = fds[Parent]
  PROVE  ProgramInv'
<1>1. Parent # Child /\ DOMAIN pc = {Parent, Child}
  BY ProgramAssumption DEF ProgramInv
<1>2. CASE p = Parent
  <2>1. pc'[Parent] = label /\ pc'[Child] = pc[Child] /\ DOMAIN pc' = {Parent, Child}
    BY <1>1, <1>2
  <2> QED BY <1>2, <2>1 DEF ProgramInv
<1>3. CASE p = Child
  <2>1. pc'[Child] = label /\ pc'[Parent] = pc[Parent] /\ DOMAIN pc' = {Parent, Child}
    BY <1>1, <1>3
  <2> QED BY <1>1, <1>3, <2>1 DEF ProgramInv
<1> QED BY <1>2, <1>3

LEMMA ProgramStep ==
  ASSUME PipeInv, ProgramInv, ChildStep \/ ParentStep
  PROVE  PipeInv' /\ ProgramInv'
<1>p. Parent \in Procs /\ Child \in Procs /\ Parent # Child
  BY ProgramAssumption
<1>i. fds \in [Procs -> SUBSET Ends]
  BY DEF PipeInv
<1>e. "read" \in Ends /\ "write" \in Ends
  BY DEF Ends
<1>1. CASE ChildClosesWriteEnd
  <2>1. /\ Close(Child, "write") /\ UNCHANGED <<message, bufferLen, sent, buffer>> /\ pc' = [pc EXCEPT ![Child] = "read"]
        /\ fds' = [fds EXCEPT ![Child] = fds[Child] \ {"write"}]
    BY <1>1 DEF ChildClosesWriteEnd, Goto, input, Close
  <2>2. PipeInv' /\ ring' = ring
    BY <1>p, <1>e, <2>1, EndsStep
  <2>3. fds'[Parent] = fds[Parent]
    BY <1>p, <1>i, <2>1
  <2>4. ProgramInv'
    BY <1>p, <2>1, <2>2, <2>3, QuietStep
  <2> QED BY <2>2, <2>4
<1>2. CASE PipeRead
  BY <1>2, PipeReadStep
<1>3. CASE ChildClosesReadEnd
  <2>1. /\ Close(Child, "read") /\ UNCHANGED <<message, bufferLen, sent, buffer>> /\ pc' = [pc EXCEPT ![Child] = "exit"]
        /\ fds' = [fds EXCEPT ![Child] = fds[Child] \ {"read"}] /\ pc[Child] = "closeRead"
    BY <1>3 DEF ChildClosesReadEnd, Goto, input, Close
  <2>2. PipeInv' /\ ring' = ring
    BY <1>p, <1>e, <2>1, EndsStep
  <2>3. fds'[Parent] = fds[Parent]
    BY <1>p, <1>i, <2>1
  <2>4. ProgramInv'
    BY <1>p, <2>1, <2>2, <2>3, QuietStep
  <2> QED BY <2>2, <2>4
<1>4. CASE ChildExits
  <2>1. /\ EndProcess(Child) /\ UNCHANGED <<message, bufferLen, sent, buffer>> /\ pc' = [pc EXCEPT ![Child] = "done"]
        /\ fds' = [fds EXCEPT ![Child] = {}] /\ pc[Child] = "exit"
    BY <1>4 DEF ChildExits, Goto, input, EndProcess
  <2>2. PipeInv' /\ ring' = ring
    BY <1>p, <2>1, EndsStep
  <2>3. fds'[Parent] = fds[Parent]
    BY <1>p, <1>i, <2>1
  <2>4. ProgramInv'
    BY <1>p, <2>1, <2>2, <2>3, QuietStep
  <2> QED BY <2>2, <2>4
<1>5. CASE ForkChild
  <2>1. /\ Fork(Parent, Child) /\ UNCHANGED <<message, bufferLen, sent, buffer>>
        /\ pc' = [p \in {Parent, Child} |-> "close"] /\ pc[Parent] = "fork"
        /\ fds' = [fds EXCEPT ![Child] = fds[Parent]]
    BY <1>5 DEF ForkChild, input, Fork
  <2>2. PipeInv' /\ ring' = ring
    BY <1>p, <2>1, EndsStep
  <2>3. fds'[Parent] = fds[Parent] /\ "write" \in fds[Parent]
    BY <1>p, <1>i, <2>1 DEF ProgramInv
  <2>4. pc'[Parent] = "close" /\ pc'[Child] = "close" /\ DOMAIN pc' = {Parent, Child}
    BY <2>1
  <2>5. ProgramInv'
    BY <2>1, <2>2, <2>3, <2>4 DEF ProgramInv
  <2> QED BY <2>2, <2>5
<1>6. CASE ParentClosesReadEnd
  <2>1. /\ Close(Parent, "read") /\ UNCHANGED <<message, bufferLen, sent, buffer>> /\ pc' = [pc EXCEPT ![Parent] = "write"]
        /\ fds' = [fds EXCEPT ![Parent] = fds[Parent] \ {"read"}] /\ pc[Parent] = "close"
    BY <1>6 DEF ParentClosesReadEnd, Goto, input, Close
  <2>2. PipeInv' /\ ring' = ring
    BY <1>p, <1>e, <2>1, EndsStep
  <2>3. "write" \in fds'[Parent]
    BY <1>p, <1>i, <2>1 DEF ProgramInv
  <2>4. ProgramInv'
    BY <1>p, <2>1, <2>2, <2>3, QuietStep
  <2> QED BY <2>2, <2>4
<1>7. CASE PipeWrite
  BY <1>7, PipeWriteStep
<1>8. CASE ParentClosesWriteEnd
  <2>1. /\ Close(Parent, "write") /\ UNCHANGED <<message, bufferLen, sent, buffer>> /\ pc' = [pc EXCEPT ![Parent] = "wait"]
        /\ pc[Parent] = "closeWrite"
    BY <1>8 DEF ParentClosesWriteEnd, Goto, input
  <2>2. PipeInv' /\ ring' = ring
    BY <1>p, <1>e, <2>1, EndsStep
  <2>3. ProgramInv'
    BY <1>p, <2>1, <2>2, QuietStep
  <2> QED BY <2>2, <2>3
<1>9. CASE ParentExits
  <2>1. /\ EndProcess(Parent) /\ UNCHANGED <<message, bufferLen, sent, buffer>> /\ pc' = [pc EXCEPT ![Parent] = "done"]
        /\ pc[Parent] = "wait"
    BY <1>9 DEF ParentExits, Goto, input
  <2>2. PipeInv' /\ ring' = ring
    BY <1>p, <2>1, EndsStep
  <2>3. ProgramInv'
    BY <1>p, <2>1, <2>2, QuietStep
  <2> QED BY <2>2, <2>3
<1> QED BY <1>1, <1>2, <1>3, <1>4, <1>5, <1>6, <1>7, <1>8, <1>9 DEF ChildStep, ParentStep

LEMMA TestInvKept == TestInv /\ [TestNext]_<<vars, programVars>> => TestInv'
<1> SUFFICES ASSUME TestInv, [TestNext]_<<vars, programVars>> PROVE TestInv'
  OBVIOUS
<1>p. Parent # Child
  BY ProgramAssumption
<1>1. CASE UNCHANGED <<vars, programVars>>
  BY <1>1 DEF TestInv, PipeInv, Free, ProgramInv, vars, programVars, input
<1>2. CASE ChildStep \/ ParentStep
  <2>1. ~Free
    BY <1>p, <1>2 DEF Free, ChildStep, ParentStep, ChildClosesWriteEnd, PipeRead, ChildClosesReadEnd, ChildExits,
          ForkChild, ParentClosesReadEnd, PipeWrite, ParentClosesWriteEnd, ParentExits
  <2> QED BY <1>2, <2>1, ProgramStep DEF TestInv
<1>3. CASE FreeProgram
  <2>1. Free
    BY <1>3 DEF TestInv, ProgramInv, FreeProgram
  <2>2. Free'
    BY <1>3, <2>1 DEF Free, FreeProgram, programVars, input
  <2>3. PipeInv'
    BY <1>3, StepFollows DEF TestInv, FreeProgram, Follows
  <2> QED BY <2>2, <2>3 DEF TestInv
<1>4. CASE Finished
  BY <1>1, <1>4 DEF Finished
<1> QED BY <1>1, <1>2, <1>3, <1>4 DEF TestNext

LEMMA TestInitGood == TestInit => TestInv
<1> SUFFICES ASSUME TestInit PROVE TestInv
  OBVIOUS
<1>1. PipeInv /\ Contents(ring) = <<>>
  BY InitGood DEF TestInit, Stream!Init
<1>2. /\ alive = {Parent} /\ sent = 0 /\ buffer = <<>>
      /\ \E p \in Procs : alive = {p} /\ fds = [q \in Procs |-> IF q = p THEN Ends ELSE {}]
  BY DEF TestInit, Init
<1>3. Parent \in Procs /\ Parent # Child /\ Messages \subseteq Seq(Bytes) /\ BufferLens \subseteq Nat \ {0}
  BY ProgramAssumption
<1>4. "write" \in fds[Parent]
  BY <1>2, <1>3 DEF Ends
<1>5. CASE /\ message \in Messages /\ bufferLen \in BufferLens
           /\ pc = [p \in {Parent, Child} |-> IF p = Parent THEN "fork" ELSE "unborn"]
  <2>1. pc[Parent] = "fork" /\ pc[Child] = "unborn" /\ DOMAIN pc = {Parent, Child}
    BY <1>3, <1>5
  <2>2. message \in Seq(Bytes) /\ bufferLen \in Nat
    BY <1>3, <1>5
  <2>3. buffer \o Contents(ring) = SubSeq(message, 1, sent)
    <3>1. SubSeq(message, 1, 0) = <<>>
      BY SubSeqEmpty
    <3>2. <<>> \o <<>> = <<>>
      OBVIOUS
    <3> QED BY <1>1, <1>2, <3>1, <3>2
  <2>4. Len(buffer) = 0 /\ buffer \in Seq(Bytes) /\ sent \in 0 .. Len(message)
    BY <1>2, <2>2
  <2>5. ProgramInv
    BY <1>4, <2>1, <2>2, <2>3, <2>4 DEF ProgramInv
  <2> QED BY <1>1, <2>5 DEF TestInv
<1>6. CASE message = <<>> /\ pc = [p \in {Parent, Child} |-> "free"]
  BY <1>1, <1>2, <1>6 DEF TestInv, Free
<1> QED BY <1>5, <1>6 DEF TestInit

\* Whatever the sizes of the ring, the message and the buffer, and however the turns of
\* pipe_write and pipe_read interleave: the child reads a prefix of the message, all of
\* it that fits when pipe_read returns, and the parent is stuck in pipe_write unless
\* buffer and ring hold it all.
THEOREM MessagesArrive == TestSpec => []MessageArrives
  BY TestInitGood, TestInvKept, TestInvImplies, PTL DEF TestSpec
=============================================================================
