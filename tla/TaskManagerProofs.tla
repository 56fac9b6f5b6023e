--------------------------- MODULE TaskManagerProofs ---------------------------
(***************************************************************************)
(* Processes and threads stay consistent, for any number of both:          *)
(* TaskManager keeps its thread lists, its family tree and its books, and  *)
(* implements ProcessFamily.                                               *)
(***************************************************************************)
EXTENDS TaskManager, QueueFamilies, SequencesExt, SequenceTheorems, TLAPS

\* A sequence without its i-th element.
LEMMA RemoveAtProperties ==
  ASSUME NEW S, NEW s \in Seq(S), NEW i \in DOMAIN s
  PROVE  /\ RemoveAt(s, i) \in Seq(S)
         /\ Len(RemoveAt(s, i)) = Len(s) - 1
         /\ \A j \in 1 .. Len(s) - 1 : RemoveAt(s, i)[j] = s[IF j < i THEN j ELSE j + 1]
<1> DEFINE a == SubSeq(s, 1, i - 1)
           b == SubSeq(s, i + 1, Len(s))
<1>1. i \in 1 .. Len(s) /\ Len(s) \in Nat
  OBVIOUS
<1>2. /\ a \in Seq(S) /\ Len(a) = i - 1
      /\ \A j \in 1 .. i - 1 : a[j] = s[j]
  BY <1>1, SubSeqProperties
<1>3. /\ b \in Seq(S) /\ Len(b) = Len(s) - i
      /\ \A j \in 1 .. Len(s) - i : b[j] = s[i + j]
  BY <1>1, SubSeqProperties
<1> HIDE DEF a, b
<1>4. /\ a \o b \in Seq(S) /\ Len(a \o b) = Len(s) - 1
      /\ \A j \in 1 .. Len(s) - 1 : (a \o b)[j] = IF j < i THEN a[j] ELSE b[j - (i - 1)]
  <2>1. Len(a) + Len(b) = Len(s) - 1
    BY <1>1, <1>2, <1>3
  <2>2. /\ a \o b \in Seq(S) /\ Len(a \o b) = Len(s) - 1
        /\ \A j \in 1 .. Len(s) - 1 : (a \o b)[j] = IF j <= Len(a) THEN a[j] ELSE b[j - Len(a)]
    <3>1. /\ a \o b \in Seq(S) /\ Len(a \o b) = Len(a) + Len(b)
          /\ \A j \in 1 .. Len(a) + Len(b) : (a \o b)[j] = IF j <= Len(a) THEN a[j] ELSE b[j - Len(a)]
      BY <1>2, <1>3, ConcatProperties
    <3> QED BY ONLY <2>1, <3>1
  <2>3. \A j \in Int : j <= Len(a) <=> j < i
    BY <1>1, <1>2
  <2> QED BY <1>2, <2>2, <2>3
<1>5. ASSUME NEW j \in 1 .. Len(s) - 1 PROVE (a \o b)[j] = s[IF j < i THEN j ELSE j + 1]
  <2>1. CASE j < i
    BY <1>1, <1>2, <1>4, <2>1
  <2>2. CASE ~(j < i)
    <3>1. j - (i - 1) \in 1 .. Len(s) - i
      BY <1>1, <2>2
    <3>2. b[j - (i - 1)] = s[i + (j - (i - 1))] /\ i + (j - (i - 1)) = j + 1
      BY <1>1, <1>3, <3>1
    <3> QED BY <1>4, <2>2, <3>2
  <2> QED BY <2>1, <2>2
<1> QED BY <1>4, <1>5 DEF RemoveAt, a, b

\* The first of the only occurrence.
LEMMA RemoveFirstOfUnique ==
  ASSUME NEW S, NEW s \in Seq(S), NEW x, NEW i \in DOMAIN s, s[i] = x,
         \A j, k \in DOMAIN s : s[j] = s[k] => j = k
  PROVE  RemoveFirst(s, x) = RemoveAt(s, i)
<1>1. {j \in 1 .. Len(s) : s[j] = x} = {i}
  OBVIOUS
<1>2. Min({i}) = i
  BY DEF Min
<1>3. SelectInSeq(s, LAMBDA v : v = x) = i
  BY <1>1, <1>2 DEF SelectInSeq
<1> QED BY <1>3 DEF RemoveFirst

\* A non-empty queue is its head and its tail.
LEMMA TailMembers ==
  ASSUME NEW S, NEW q \in Seq(S), q # <<>>
  PROVE  /\ Head(q) \in S
         /\ Tail(q) \in Seq(S)
         /\ Members(q) = {Head(q)} \cup Members(Tail(q))
<1>1. Len(q) \in Nat \ {0} /\ DOMAIN q = 1..Len(q) /\ Head(q) = q[1]
  OBVIOUS
<1>2. Tail(q) \in Seq(S) /\ DOMAIN Tail(q) = 1..(Len(q) - 1)
      /\ \A i \in 1..(Len(q) - 1) : Tail(q)[i] = q[i + 1]
  OBVIOUS
<1>3. ASSUME NEW i \in DOMAIN q PROVE q[i] \in {Head(q)} \cup Members(Tail(q))
  <2>1. CASE i = 1
    BY <1>1, <2>1
  <2>2. CASE i # 1
    <3>1. i - 1 \in 1..(Len(q) - 1) /\ (i - 1) + 1 = i
      BY <1>1, <2>2
    <3>2. Tail(q)[i - 1] = q[i]
      BY <1>2, <3>1
    <3> QED BY <1>2, <3>1, <3>2 DEF Members
  <2> QED BY <2>1, <2>2
<1>4. ASSUME NEW i \in DOMAIN Tail(q) PROVE Tail(q)[i] \in Members(q)
  <2>1. i + 1 \in DOMAIN q /\ Tail(q)[i] = q[i + 1]
    BY <1>1, <1>2
  <2> QED BY <2>1 DEF Members
<1>5. Head(q) \in Members(q)
  BY <1>1 DEF Members
<1>6. Members(q) \subseteq {Head(q)} \cup Members(Tail(q))
  BY <1>3 DEF Members
<1>7. Members(Tail(q)) \subseteq Members(q)
  BY <1>4 DEF Members
<1>8. Head(q) \in S
  BY <1>1
<1> QED BY <1>2, <1>5, <1>6, <1>7, <1>8

\* Appending adds one member.
LEMMA AppendMembers ==
  ASSUME NEW S, NEW q \in Seq(S), NEW x \in S
  PROVE  Append(q, x) \in Seq(S) /\ Members(Append(q, x)) = Members(q) \cup {x}
<1>1. /\ Append(q, x) \in Seq(S) /\ DOMAIN q = 1..Len(q) /\ Len(q) \in Nat
      /\ DOMAIN Append(q, x) = 1..(Len(q) + 1)
      /\ Append(q, x)[Len(q) + 1] = x
      /\ \A i \in 1..Len(q) : Append(q, x)[i] = q[i]
  OBVIOUS
<1>2. \A i \in 1..(Len(q) + 1) : i \in 1..Len(q) \/ i = Len(q) + 1
  BY <1>1
<1>3. 1..Len(q) \subseteq 1..(Len(q) + 1) /\ Len(q) + 1 \in 1..(Len(q) + 1)
  BY <1>1
<1>4. Members(Append(q, x)) \subseteq Members(q) \cup {x}
  BY <1>1, <1>2 DEF Members
<1>5. Members(q) \subseteq Members(Append(q, x))
  BY <1>1, <1>3 DEF Members
<1>6. x \in Members(Append(q, x))
  BY <1>1, <1>3 DEF Members
<1> QED BY <1>1, <1>4, <1>5, <1>6


\* No list holds an element twice.
Injective(q) == \A i, j \in DOMAIN q : q[i] = q[j] => i = j

\* Ids once handed out are not handed out again, and the running thread is a task.
ThreadInv ==
  /\ TypeOK
  /\ ThreadsConsistent
  /\ current # None => current \in tasks
  /\ \A t \in tasks : t < next_tid
  /\ \A p \in Alive :
       /\ p < next_pid
       /\ Injective(rel_map[p].threads)
       /\ \A t \in DOMAIN rel_map[p].dead_threads : t < next_tid

\* Parents are older than their children, so nobody is its own parent.
TreeInv ==
  /\ ThreadInv
  /\ TreeConsistent
  /\ \A p \in Alive : rel_map[p].parent < p

\* An ended process does not run again, nor does its parent if it is gone too.
BookInv ==
  /\ TreeInv
  /\ ExitToldOnce
  /\ DOMAIN exited \cap Alive = {}
  /\ \A p \in DOMAIN exited : p < next_pid /\ exited[p].parent < p

----------------------------------------------------------------------------
\* The helpers of the model.

\* A function with one more, or one other, value.
LEMMA WithProperties ==
  ASSUME NEW D, NEW S, NEW f \in [D -> S], NEW x, NEW y \in S
  PROVE  /\ With(f, x, y) \in [D \cup {x} -> S]
         /\ With(f, x, y)[x] = y
         /\ \A z \in D : z # x => With(f, x, y)[z] = f[z]
  BY DEF With

\* A function with one value less.
LEMMA WithoutProperties ==
  ASSUME NEW D, NEW S, NEW f \in [D -> S], NEW x
  PROVE  /\ Without(f, x) \in [D \ {x} -> S]
         /\ \A z \in D : z # x => Without(f, x)[z] = f[z]
  BY DEF Without, Restrict

\* A list of dead threads, with another or without one.
LEMMA DeadThreads ==
  ASSUME NEW f \in UNION {[T -> Codes] : T \in SUBSET Tids}
  PROVE  /\ DOMAIN f \subseteq Tids /\ f \in [DOMAIN f -> Codes]
         /\ \A u \in Tids, c \in Codes :
              /\ With(f, u, c) \in UNION {[T -> Codes] : T \in SUBSET Tids}
              /\ DOMAIN With(f, u, c) = DOMAIN f \cup {u}
         /\ \A u \in Tids :
              /\ Without(f, u) \in UNION {[T -> Codes] : T \in SUBSET Tids}
              /\ DOMAIN Without(f, u) = DOMAIN f \ {u}
<1>1. DOMAIN f \subseteq Tids /\ f \in [DOMAIN f -> Codes]
  OBVIOUS
<1>2. ASSUME NEW u \in Tids, NEW c \in Codes
      PROVE  With(f, u, c) \in [DOMAIN f \cup {u} -> Codes] /\ DOMAIN f \cup {u} \in SUBSET Tids
  BY <1>1, WithProperties
<1>3. ASSUME NEW u \in Tids
      PROVE  Without(f, u) \in [DOMAIN f \ {u} -> Codes] /\ DOMAIN f \ {u} \in SUBSET Tids
  BY <1>1, WithoutProperties
<1>4. \A T \in SUBSET Tids : \A g \in [T -> Codes] :
        DOMAIN g = T /\ g \in UNION {[U -> Codes] : U \in SUBSET Tids}
  OBVIOUS
<1>5. ASSUME NEW u \in Tids, NEW c \in Codes
      PROVE  /\ With(f, u, c) \in UNION {[T -> Codes] : T \in SUBSET Tids}
             /\ DOMAIN With(f, u, c) = DOMAIN f \cup {u}
  BY <1>2, <1>4
<1>6. ASSUME NEW u \in Tids
      PROVE  /\ Without(f, u) \in UNION {[T -> Codes] : T \in SUBSET Tids}
             /\ DOMAIN Without(f, u) = DOMAIN f \ {u}
  BY <1>3, <1>4
<1> QED BY <1>1, <1>5, <1>6

\* del_thread takes a thread out of the list and notes its code.
LEMMA DelThreadValue ==
  ASSUME NEW rel \in ProcThreadRels, Injective(rel.threads),
         NEW t \in Members(rel.threads), NEW code \in Codes
  PROVE  LET left == DelThread(rel, t, code)
         IN /\ left \in ProcThreadRels
            /\ Injective(left.threads)
            /\ Members(left.threads) = Members(rel.threads) \ {t}
            /\ DOMAIN left.dead_threads = DOMAIN rel.dead_threads \cup {t}
            /\ left.parent = rel.parent /\ left.children = rel.children
            /\ left.dead_children = rel.dead_children
<1> DEFINE q == rel.threads
           short == RemoveFirst(q, t)
<1>1. q \in Seq(Tids) /\ rel.dead_threads \in UNION {[T -> Codes] : T \in SUBSET Tids}
  BY DEF ProcThreadRels
<1>2. PICK i \in DOMAIN q : q[i] = t
  BY DEF Members
<1>3. Len(q) \in Nat /\ DOMAIN q = 1 .. Len(q) /\ i \in 1 .. Len(q)
  BY <1>1
<1>4. \A j, k \in DOMAIN q : q[j] = q[k] => j = k
  BY DEF Injective
<1>5. short = RemoveAt(q, i)
  BY <1>1, <1>2, <1>4, RemoveFirstOfUnique
<1>6. /\ short \in Seq(Tids) /\ Len(short) = Len(q) - 1
      /\ \A j \in 1 .. Len(q) - 1 : short[j] = q[IF j < i THEN j ELSE j + 1]
  BY <1>1, <1>5, RemoveAtProperties
<1>7. DOMAIN short = 1 .. Len(q) - 1
  BY <1>6
<1> HIDE DEF q, short
<1>8. Injective(short)
  <2> SUFFICES ASSUME NEW j \in DOMAIN short, NEW k \in DOMAIN short, short[j] = short[k]
               PROVE  j = k
    BY DEF Injective
  <2> DEFINE old(n) == IF n < i THEN n ELSE n + 1
  <2>1. old(j) \in DOMAIN q /\ old(k) \in DOMAIN q /\ q[old(j)] = q[old(k)]
    BY <1>3, <1>6, <1>7
  <2>2. old(j) = old(k)
    BY <1>4, <2>1
  <2> QED BY <1>3, <1>7, <2>2
<1>9. Members(short) = Members(q) \ {t}
  <2>1. ASSUME NEW j \in DOMAIN short PROVE short[j] \in Members(q) \ {t}
    <3> DEFINE k == IF j < i THEN j ELSE j + 1
    <3>1. k \in DOMAIN q /\ k # i /\ short[j] = q[k]
      BY <1>3, <1>6, <1>7
    <3> QED BY <1>2, <1>4, <3>1 DEF Members
  <2>2. ASSUME NEW k \in DOMAIN q, q[k] # t PROVE q[k] \in Members(short)
    <3> DEFINE j == IF k < i THEN k ELSE k - 1
    <3>1. k # i
      BY <1>2, <2>2
    <3>2. j \in DOMAIN short /\ short[j] = q[k]
      BY <1>3, <1>6, <1>7, <3>1
    <3> QED BY <3>2 DEF Members
  <2> QED BY <2>1, <2>2 DEF Members
<1>10. t \in Tids
  BY <1>1, <1>2 DEF q
<1>11. /\ With(rel.dead_threads, t, code) \in UNION {[T -> Codes] : T \in SUBSET Tids}
       /\ DOMAIN With(rel.dead_threads, t, code) = DOMAIN rel.dead_threads \cup {t}
  BY <1>1, <1>10, DeadThreads
<1>12. DelThread(rel, t, code)
         = [rel EXCEPT !.threads = short, !.dead_threads = With(rel.dead_threads, t, code)]
  BY DEF DelThread, q, short
<1>13. /\ DelThread(rel, t, code).threads = short
       /\ DelThread(rel, t, code).dead_threads = With(rel.dead_threads, t, code)
       /\ DelThread(rel, t, code).parent = rel.parent
       /\ DelThread(rel, t, code).children = rel.children
       /\ DelThread(rel, t, code).dead_children = rel.dead_children
  BY <1>12 DEF ProcThreadRels
<1>14. DelThread(rel, t, code) \in ProcThreadRels
  BY <1>6, <1>11, <1>12 DEF ProcThreadRels
<1> QED BY <1>8, <1>9, <1>11, <1>13, <1>14 DEF q

\* del_proc: only the parent's dead_children, the orphans' parent and the lists of
\* children of the parent and of process 0 change.
LEMMA DelProcValue ==
  ASSUME NEW D \in SUBSET Pids, NEW rm \in [D -> ProcThreadRels], NEW p \in D, NEW code \in Codes,
         rm[p].parent # p,
         rm[p].parent \notin rm[p].children, InitPid \notin rm[p].children
  PROVE  LET up == rm[p].parent
             after == DelProc(rm, p, code)
         IN /\ after \in [D \ {p} -> ProcThreadRels]
            /\ \A q \in D \ {p} :
                 /\ after[q].threads = rm[q].threads
                 /\ after[q].dead_threads = rm[q].dead_threads
                 /\ after[q].parent = IF q \in rm[p].children THEN InitPid ELSE rm[q].parent
                 /\ after[q].children = (IF q = up THEN rm[q].children \ {p} ELSE rm[q].children)
                                          \cup (IF q = InitPid THEN rm[p].children ELSE {})
                 /\ after[q].dead_children =
                      IF q = up /\ p \in rm[q].children
                      THEN Append(rm[q].dead_children, [pid |-> p, code |-> code])
                      ELSE rm[q].dead_children
<1> DEFINE up == rm[p].parent
           gone == Without(rm, p)
           told == IF up \in DOMAIN gone THEN [gone EXCEPT ![up] = DelChild(@, p, code)] ELSE gone
           after == DelProc(rm, p, code)
<1> HIDE DEF up, told, after
<1>1. gone \in [D \ {p} -> ProcThreadRels] /\ \A q \in D \ {p} : gone[q] = rm[q]
  BY DEF gone, Without, Restrict
<1>2. [pid |-> p, code |-> code] \in Ended
  BY DEF Ended
<1>3. ASSUME NEW rel \in ProcThreadRels
      PROVE  LET r == DelChild(rel, p, code)
             IN /\ r \in ProcThreadRels
                /\ r.threads = rel.threads /\ r.dead_threads = rel.dead_threads
                /\ r.parent = rel.parent /\ r.children = rel.children \ {p}
                /\ r.dead_children = IF p \in rel.children
                                     THEN Append(rel.dead_children, [pid |-> p, code |-> code])
                                     ELSE rel.dead_children
  <2>1. Append(rel.dead_children, [pid |-> p, code |-> code]) \in Seq(Ended)
    BY <1>2, AppendMembers DEF ProcThreadRels
  <2>2. rel.children \ {p} \in SUBSET Pids
    BY DEF ProcThreadRels
  <2>3. CASE p \in rel.children
    BY <2>1, <2>2, <2>3 DEF DelChild, ProcThreadRels
  <2>4. CASE p \notin rel.children
    BY <2>4 DEF DelChild
  <2> QED BY <2>3, <2>4
<1>4. /\ told \in [D \ {p} -> ProcThreadRels]
      /\ \A q \in D \ {p} : told[q] = IF q = up THEN DelChild(rm[q], p, code) ELSE rm[q]
  <2>1. CASE up \in D \ {p}
    BY <1>1, <1>3, <2>1 DEF told
  <2>2. CASE up \notin D \ {p}
    BY <1>1, <2>2 DEF told
  <2> QED BY <2>1, <2>2
<1> HIDE DEF gone
<1>5. after = [q \in D \ {p} |->
                 IF q \in rm[p].children THEN [told[q] EXCEPT !.parent = InitPid]
                 ELSE IF q = InitPid THEN [told[q] EXCEPT !.children = @ \cup rm[p].children]
                 ELSE told[q]]
  <2>1. DOMAIN told = D \ {p}
    BY <1>4
  <2> QED BY <2>1 DEF DelProc, told, gone, up, after
<1>6. InitPid \in Pids
  BY BoundAssumption DEF InitPid, Pids
<1>7. rm[p].children \in SUBSET Pids
  BY DEF ProcThreadRels
<1>8. ASSUME NEW q \in D \ {p}
      PROVE  /\ after[q] \in ProcThreadRels
             /\ after[q].threads = told[q].threads
             /\ after[q].dead_threads = told[q].dead_threads
             /\ after[q].parent = IF q \in rm[p].children THEN InitPid ELSE told[q].parent
             /\ after[q].children = told[q].children \cup (IF q = InitPid THEN rm[p].children ELSE {})
             /\ after[q].dead_children = told[q].dead_children
  <2>1. told[q] \in ProcThreadRels /\ (q = InitPid => q \notin rm[p].children)
    BY <1>4
  <2>2. CASE q \in rm[p].children
    <3>1. after[q] = [told[q] EXCEPT !.parent = InitPid] /\ q # InitPid
      BY <1>5, <2>1, <2>2
    <3>2. told[q].children \cup {} = told[q].children
      OBVIOUS
    <3> QED BY <1>6, <2>1, <2>2, <3>1, <3>2 DEF ProcThreadRels
  <2>3. CASE q \notin rm[p].children /\ q = InitPid
    <3>1. told[q].children \cup rm[p].children \in SUBSET Pids
      BY <1>7, <2>1 DEF ProcThreadRels
    <3>2. after[q] = [told[q] EXCEPT !.children = told[q].children \cup rm[p].children]
      BY <1>5, <2>1, <2>3
    <3> QED BY <2>1, <2>3, <3>1, <3>2 DEF ProcThreadRels
  <2>4. CASE q \notin rm[p].children /\ q # InitPid
    BY <1>5, <2>1, <2>4
  <2> QED BY <2>2, <2>3, <2>4
<1>9. ASSUME NEW q \in D \ {p}
      PROVE  /\ told[q].threads = rm[q].threads /\ told[q].dead_threads = rm[q].dead_threads
             /\ told[q].parent = rm[q].parent
             /\ told[q].children = IF q = up THEN rm[q].children \ {p} ELSE rm[q].children
             /\ told[q].dead_children = IF q = up /\ p \in rm[q].children
                                        THEN Append(rm[q].dead_children, [pid |-> p, code |-> code])
                                        ELSE rm[q].dead_children
  BY <1>3, <1>4
<1>10. after \in [D \ {p} -> ProcThreadRels]
  BY <1>5, <1>8
<1>11. ASSUME NEW q \in D \ {p}
       PROVE  /\ after[q].threads = rm[q].threads
              /\ after[q].dead_threads = rm[q].dead_threads
              /\ after[q].parent = IF q \in rm[p].children THEN InitPid ELSE rm[q].parent
              /\ after[q].children = (IF q = up THEN rm[q].children \ {p} ELSE rm[q].children)
                                       \cup (IF q = InitPid THEN rm[p].children ELSE {})
              /\ after[q].dead_children =
                   IF q = up /\ p \in rm[q].children
                   THEN Append(rm[q].dead_children, [pid |-> p, code |-> code])
                   ELSE rm[q].dead_children
  BY <1>8, <1>9, ZenonT(40)
<1> QED BY ONLY <1>10, <1>11 DEF up, after

\* add_proc then add: a new record, and the parent has one more child.
ProcAdded(rm, after, p, parent, t) ==
  /\ after \in [DOMAIN rm \cup {p} -> ProcThreadRels]
  /\ after[p].parent = parent /\ after[p].children = {} /\ after[p].dead_children = <<>>
  /\ after[p].threads = <<t>> /\ after[p].dead_threads = <<>>
  /\ \A q \in DOMAIN rm :
       /\ after[q].threads = rm[q].threads /\ after[q].dead_threads = rm[q].dead_threads
       /\ after[q].parent = rm[q].parent
       /\ after[q].children = IF q = parent THEN rm[q].children \cup {p} ELSE rm[q].children
       /\ after[q].dead_children = rm[q].dead_children

LEMMA AddProcValue ==
  ASSUME NEW rm, rm \in [DOMAIN rm -> ProcThreadRels], DOMAIN rm \subseteq Pids,
         NEW parent \in DOMAIN rm, NEW p \in Pids, p \notin DOMAIN rm, NEW t \in Tids
  PROVE  ProcAdded(rm, AddProc(rm, p, parent, t), p, parent, t)
<1> DEFINE D == DOMAIN rm
           after == AddProc(rm, p, parent, t)
<1> HIDE DEF after
<1> DEFINE told == [rm EXCEPT ![parent].children = @ \cup {p}]
           rel == [parent |-> parent, children |-> {}, dead_children |-> <<>>,
                   threads |-> <<t>>, dead_threads |-> <<>>]
<1>1. AddThread(NewRel(parent), t) = rel
  <2>1. Append(<<>>, t) = <<t>>
    OBVIOUS
  <2>2. NewRel(parent).threads = <<>>
    BY DEF NewRel
  <2>3. AddThread(NewRel(parent), t) = [NewRel(parent) EXCEPT !.threads = <<t>>]
    BY <2>1, <2>2 DEF AddThread
  <2> QED BY <2>3 DEF NewRel
<1>2. rel \in ProcThreadRels
  <2>1. <<>> \in UNION {[T -> Codes] : T \in SUBSET Tids}
    <3>1. <<>> \in [{} -> Codes] /\ {} \in SUBSET Tids
      OBVIOUS
    <3> QED BY <3>1
  <2>2. <<t>> \in Seq(Tids) /\ <<>> \in Seq(Ended) /\ {} \in SUBSET Pids /\ parent \in Pids
    OBVIOUS
  <2> QED BY <2>1, <2>2 DEF ProcThreadRels
<1> DEFINE longer == [rm[parent] EXCEPT !.children = rm[parent].children \cup {p}]
<1>3. /\ longer \in ProcThreadRels
      /\ longer.threads = rm[parent].threads /\ longer.dead_threads = rm[parent].dead_threads
      /\ longer.parent = rm[parent].parent
      /\ longer.children = rm[parent].children \cup {p}
      /\ longer.dead_children = rm[parent].dead_children
  <2>1. rm[parent].children \cup {p} \in SUBSET Pids
    BY DEF ProcThreadRels
  <2> QED BY <2>1 DEF ProcThreadRels
<1> HIDE DEF rel, longer
<1>4. told \in [D -> ProcThreadRels] /\ \A q \in D : told[q] = IF q = parent THEN longer ELSE rm[q]
  BY <1>3 DEF longer
<1> HIDE DEF told
<1>5. AddProc(rm, p, parent, t) = With(told, p, rel)
  BY <1>1 DEF AddProc, told
<1>6. /\ With(told, p, rel) \in [D \cup {p} -> ProcThreadRels]
      /\ With(told, p, rel)[p] = rel
      /\ \A q \in D : q # p => With(told, p, rel)[q] = told[q]
  <2>1. told \in [D -> ProcThreadRels] /\ rel \in ProcThreadRels
    BY <1>2, <1>4
  <2> QED BY ONLY <2>1 DEF With
<1>7. /\ rel.parent = parent /\ rel.children = {} /\ rel.dead_children = <<>>
      /\ rel.threads = <<t>> /\ rel.dead_threads = <<>>
  BY DEF rel
<1>8. after = With(told, p, rel)
  BY <1>5 DEF after
<1>9. ASSUME NEW q \in D PROVE after[q] = IF q = parent THEN longer ELSE rm[q]
  BY <1>4, <1>6, <1>8
<1> QED BY <1>3, <1>6, <1>7, <1>8, <1>9 DEF ProcAdded, after

----------------------------------------------------------------------------
\* What the ways a thread ends do to the records.

\* Thread t of process p ends, others go on.
ThreadGone(t, p, code) ==
  /\ Members(rel_map[p].threads) # {t}
  /\ rel_map' = [rel_map EXCEPT ![p] = DelThread(rel_map[p], t, code)]
  /\ UNCHANGED <<space, waiting, machine, exited>>

\* Process p ends: its parent is told, process 0 gets the children.
ProcessGone(t, p, code) ==
  /\ Members(rel_map[p].threads) = {t}
  /\ rel_map' \in [Alive \ {p} -> ProcThreadRels]
  /\ \A q \in Alive \ {p} :
       LET told == q = rel_map[p].parent
       IN /\ rel_map'[q].threads = rel_map[q].threads
          /\ rel_map'[q].dead_threads = rel_map[q].dead_threads
          /\ rel_map'[q].parent = IF q \in rel_map[p].children THEN InitPid ELSE rel_map[q].parent
          /\ rel_map'[q].children = (IF told THEN rel_map[q].children \ {p} ELSE rel_map[q].children)
                                      \cup (IF q = InitPid THEN rel_map[p].children ELSE {})
          /\ rel_map'[q].dead_children =
               IF told THEN Append(rel_map[q].dead_children, [pid |-> p, code |-> code])
               ELSE rel_map[q].dead_children
  /\ space' = Without(space, p)
  /\ waiting' = {w \in waiting : w[1] # p}
  /\ exited' = With(exited, p, [code |-> code, parent |-> rel_map[p].parent])
  /\ machine' = IF rel_map[p].children # {} /\ (p = InitPid \/ InitPid \notin Alive)
                THEN "panic" ELSE machine

\* What the invariant says of one process.
LEMMA ProcessFacts ==
  ASSUME TreeInv, machine # "panic", NEW p \in Alive
  PROVE  /\ p \in Pids /\ p \in Nat /\ p < next_pid
         /\ rel_map[p] \in ProcThreadRels
         /\ rel_map[p].threads \in Seq(Tids) /\ rel_map[p].threads # <<>>
         /\ Injective(rel_map[p].threads)
         /\ Members(rel_map[p].threads) = {t \in tasks : tid2pid[t] = p}
         /\ rel_map[p].parent < p /\ rel_map[p].parent \in Pids \cup {None}
         /\ \A c \in rel_map[p].children : c \in Alive /\ rel_map[c].parent = p /\ p < c
         /\ p # InitPid => rel_map[p].parent \in Alive /\ p \in rel_map[rel_map[p].parent].children
         /\ InitPid \notin rel_map[p].children /\ rel_map[p].parent \notin rel_map[p].children
         /\ p \notin rel_map[p].children
<1>1. p \in Pids /\ p \in Nat /\ rel_map[p] \in ProcThreadRels
  BY BoundAssumption DEF TreeInv, ThreadInv, TypeOK, Alive, Pids
<1>2. rel_map[p].parent \in Pids \cup {None} /\ rel_map[p].threads \in Seq(Tids)
  BY <1>1 DEF ProcThreadRels
<1>3. /\ p < next_pid /\ rel_map[p].threads # <<>> /\ Injective(rel_map[p].threads)
      /\ Members(rel_map[p].threads) = {t \in tasks : tid2pid[t] = p}
  BY DEF TreeInv, ThreadInv, ThreadsConsistent
<1>4. \A q \in Alive : /\ rel_map[q].parent < q
                       /\ \A c \in rel_map[q].children : c \in Alive /\ rel_map[c].parent = q
  BY DEF TreeInv, TreeConsistent
<1>5. p # InitPid => rel_map[p].parent \in Alive /\ p \in rel_map[rel_map[p].parent].children
  BY DEF TreeInv, TreeConsistent
<1>6. ASSUME NEW c \in rel_map[p].children PROVE p < c /\ c # InitPid
  <2>1. c \in Alive /\ rel_map[c].parent = p
    BY <1>4
  <2> QED BY <1>1, <1>4, <2>1 DEF InitPid
<1>7. rel_map[p].parent \in Int
  BY <1>2, BoundAssumption DEF Pids, None
<1>8. \A c \in rel_map[p].children : c \in Alive /\ rel_map[c].parent = p /\ p < c
  BY <1>4, <1>6
<1>9. rel_map[p].parent \notin rel_map[p].children /\ p \notin rel_map[p].children
  BY <1>1, <1>4, <1>6, <1>7
<1> QED BY <1>1, <1>2, <1>3, <1>4, <1>5, <1>6, <1>8, <1>9

\* A running thread ends with one of the two.
LEMMA EndOfThread ==
  ASSUME TreeInv, machine # "panic", NEW t \in tasks, NEW code \in Codes, MakeCurrentExited(t, code)
  PROVE  LET p == tid2pid[t]
         IN /\ p \in Alive /\ t \in Members(rel_map[p].threads)
            /\ current' = None
            /\ tasks' = tasks \ {t}
            /\ tid2pid' = Without(tid2pid, t) /\ satp' = Without(satp, t)
            /\ UNCHANGED <<ready, next_pid, next_tid, reports>>
            /\ ThreadGone(t, p, code) \/ ProcessGone(t, p, code)
<1> DEFINE p == tid2pid[t]
           rel == rel_map[p]
           left == [rel_map EXCEPT ![p] = DelThread(@, t, code)]
<1>1. p \in Alive
  BY DEF TreeInv, ThreadInv, ThreadsConsistent
<1>2. /\ rel \in ProcThreadRels /\ Injective(rel.threads)
      /\ Members(rel.threads) = {u \in tasks : tid2pid[u] = p}
      /\ rel.parent # p
      /\ rel.parent \notin rel.children /\ InitPid \notin rel.children
  BY <1>1, ProcessFacts DEF TreeInv, ThreadInv, TypeOK
<1>3. t \in Members(rel.threads)
  BY <1>2
<1> HIDE DEF rel, p
<1> DEFINE dead == DelThread(rel, t, code)
<1>4. /\ dead \in ProcThreadRels
      /\ Members(dead.threads) = Members(rel.threads) \ {t}
      /\ dead.parent = rel.parent /\ dead.children = rel.children
  BY <1>2, <1>3, DelThreadValue
<1> HIDE DEF dead
<1>5. dead.threads = <<>> <=> Members(rel.threads) = {t}
  <2>1. dead.threads \in Seq(Tids)
    BY <1>4 DEF ProcThreadRels
  <2>2. dead.threads = <<>> => Members(dead.threads) = {}
    BY DEF Members
  <2>3. ASSUME dead.threads # <<>> PROVE Members(dead.threads) # {}
    <3>1. Head(dead.threads) \in Members(dead.threads)
      BY ONLY <2>1, <2>3, TailMembers
    <3> QED BY <3>1
  <2> QED BY <1>3, <1>4, <2>2, <2>3
<1>6. rel_map \in [Alive -> ProcThreadRels] /\ Alive \subseteq Pids
  BY DEF TreeInv, ThreadInv, TypeOK, Alive
<1>7. left \in [Alive -> ProcThreadRels] /\ left[p] = dead /\ \A q \in Alive \ {p} : left[q] = rel_map[q]
  BY <1>1, <1>4, <1>6 DEF dead, rel
<1> HIDE DEF left
<1>8. /\ current' = None /\ tasks' = tasks \ {t}
      /\ tid2pid' = Without(tid2pid, t) /\ satp' = Without(satp, t)
      /\ UNCHANGED <<ready, next_pid, next_tid, reports>>
      /\ IF dead.threads # <<>>
         THEN /\ rel_map' = left
              /\ UNCHANGED <<space, waiting, machine, exited>>
         ELSE /\ rel_map' = DelProc(left, p, code)
              /\ machine' = IF DelProcPanics(left, p) THEN "panic" ELSE machine
              /\ space' = Without(space, p)
              /\ waiting' = {w \in waiting : w[1] # p}
              /\ exited' = With(exited, p, [code |-> code, parent |-> dead.parent])
  BY <1>7 DEF MakeCurrentExited, left, p
<1>9. CASE Members(rel.threads) # {t}
  <2>1. ThreadGone(t, p, code)
    BY <1>5, <1>8, <1>9 DEF ThreadGone, left, rel, p
  <2> QED BY <1>1, <1>3, <1>8, <2>1 DEF p, rel
<1>10. CASE Members(rel.threads) = {t}
  <2>1. /\ rel_map' = DelProc(left, p, code)
        /\ machine' = IF DelProcPanics(left, p) THEN "panic" ELSE machine
        /\ space' = Without(space, p)
        /\ waiting' = {w \in waiting : w[1] # p}
        /\ exited' = With(exited, p, [code |-> code, parent |-> rel.parent])
    BY <1>4, <1>5, <1>8, <1>10
  <2>2. /\ left[p].parent = rel.parent /\ left[p].children = rel.children
    BY <1>4, <1>7
  <2>3. /\ DelProc(left, p, code) \in [Alive \ {p} -> ProcThreadRels]
        /\ \A q \in Alive \ {p} :
             /\ DelProc(left, p, code)[q].threads = left[q].threads
             /\ DelProc(left, p, code)[q].dead_threads = left[q].dead_threads
             /\ DelProc(left, p, code)[q].parent = IF q \in rel.children THEN InitPid ELSE left[q].parent
             /\ DelProc(left, p, code)[q].children =
                  (IF q = rel.parent THEN left[q].children \ {p} ELSE left[q].children)
                    \cup (IF q = InitPid THEN rel.children ELSE {})
             /\ DelProc(left, p, code)[q].dead_children =
                  IF q = rel.parent /\ p \in left[q].children
                  THEN Append(left[q].dead_children, [pid |-> p, code |-> code])
                  ELSE left[q].dead_children
    <3>1. /\ left[p].parent # p /\ left[p].parent \notin left[p].children
          /\ InitPid \notin left[p].children
      BY <1>2, <2>2
    <3>2. /\ DelProc(left, p, code) \in [Alive \ {p} -> ProcThreadRels]
          /\ \A q \in Alive \ {p} :
               /\ DelProc(left, p, code)[q].threads = left[q].threads
               /\ DelProc(left, p, code)[q].dead_threads = left[q].dead_threads
               /\ DelProc(left, p, code)[q].parent =
                    IF q \in left[p].children THEN InitPid ELSE left[q].parent
               /\ DelProc(left, p, code)[q].children =
                    (IF q = left[p].parent THEN left[q].children \ {p} ELSE left[q].children)
                      \cup (IF q = InitPid THEN left[p].children ELSE {})
               /\ DelProc(left, p, code)[q].dead_children =
                    IF q = left[p].parent /\ p \in left[q].children
                    THEN Append(left[q].dead_children, [pid |-> p, code |-> code])
                    ELSE left[q].dead_children
      BY <1>1, <1>6, <1>7, <3>1, DelProcValue
    <3> QED BY ONLY <2>2, <3>2
  <2>4. \A q \in Alive \ {p} : q = rel.parent => p \in rel_map[q].children
    <3>1. p # InitPid => p \in rel_map[rel.parent].children
      BY <1>1, ProcessFacts DEF rel
    <3>2. p = InitPid => rel.parent \notin Pids
      <4>1. rel.parent < p /\ rel.parent \in Pids \cup {None}
        BY <1>1, ProcessFacts DEF rel
      <4> QED BY <4>1, BoundAssumption DEF InitPid, Pids, None
    <3> QED BY <1>6, <3>1, <3>2
  <2>5. DelProcPanics(left, p) <=> rel.children # {} /\ (p = InitPid \/ InitPid \notin Alive)
    <3>1. rel.children \subseteq Alive \ {p}
      BY <1>1, ProcessFacts DEF rel
    <3>2. DOMAIN left = Alive
      BY <1>7
    <3> QED BY <2>2, <3>1, <3>2 DEF DelProcPanics
  <2>6. ProcessGone(t, p, code)
    BY <1>7, <1>10, <2>1, <2>3, <2>4, <2>5 DEF ProcessGone, rel
  <2> QED BY <1>1, <1>3, <1>8, <2>6 DEF p, rel
<1> QED BY <1>9, <1>10

----------------------------------------------------------------------------
\* The steps, as far as processes and threads are concerned.

\* Scheduling, signals, blocking: all records stay.
Quiet ==
  /\ UNCHANGED <<tasks, procs, history>>
  /\ current' = None \/ current' \in tasks
  /\ machine' \in {machine, "shutdown"} /\ (machine = "panic" => machine' = "panic")

\* A call that changes records.
Changes(t) ==
  \/ Fork(t) \/ Exec(t) \/ ThreadCreate(t)
  \/ \E i \in DOMAIN rel_map[Own(t)].dead_children : Report(t, i)
  \/ \E u \in Tids : WaitTid(t, u)

LEMMA Steps ==
  ASSUME ThreadInv, [Next]_vars
  PROVE  \/ Quiet
         \/ \E t \in tasks : Traps(t) /\ Changes(t)
         \/ machine = "running" /\ \E t \in tasks, code \in Codes : MakeCurrentExited(t, code)
<1>1. /\ current # None => current \in tasks
      /\ \A t \in Tids : t # None
      /\ tasks \subseteq Tids /\ result \in Results
  BY BoundAssumption DEF ThreadInv, TypeOK, Tids, None
<1>2. CASE FindNext
  BY <1>2 DEF FindNext, Quiet, procs, history
<1>3. CASE NoTask
  BY <1>3 DEF NoTask, Quiet, procs, history
<1>4. CASE Halted \/ UNCHANGED vars
  BY <1>1, <1>4 DEF Halted, vars, sched, Quiet, procs, history
<1>5. ASSUME NEW t \in Tids, SystemCall(t)
      PROVE  Quiet \/ (t \in tasks /\ Traps(t) /\ Changes(t))
  <2>1. CASE Traps(t) /\ Changes(t)
    BY <1>1, <2>1 DEF Traps
  <2>2. CASE \/ OtherCall(t) \/ BlockCall(t)
             \/ \E code \in ExitCodes \cup {Unsupported} : Exit(t, code)
             \/ \E p \in Pids : Kill(t, p)
             \/ \E u \in Tids : WakeCall(t, u)
    BY <1>1, <2>2 DEF OtherCall, Exit, Kill, BlockCall, WakeCall, Returns, Quiet, procs, history, Traps
  <2>3. WaitAnyChild(t) \/ (\E p \in Pids : WaitChild(t, p)) => Traps(t) /\ Changes(t)
    BY DEF WaitAnyChild, WaitChild, Report, Changes
  <2>4. \/ Fork(t) \/ Exec(t) \/ ThreadCreate(t) \/ (\E u \in Tids : WaitTid(t, u))
        => Traps(t) /\ Changes(t)
    BY DEF Fork, Exec, ThreadCreate, WaitTid, Changes
  <2> QED BY <1>5, <2>1, <2>2, <2>3, <2>4 DEF SystemCall
<1>6. ASSUME NEW t \in Tids, Fault(t)
      PROVE  machine = "running" /\ t \in tasks /\ \E code \in Codes : MakeCurrentExited(t, code)
  BY <1>1, <1>6 DEF Fault, Traps, Codes
<1>7. ASSUME NEW t \in Tids, EndTrap(t)
      PROVE  \/ Quiet
             \/ machine = "running" /\ t \in tasks /\ \E code \in Codes : MakeCurrentExited(t, code)
  <2>1. machine = "running" /\ t \in tasks
    BY <1>1, <1>7 DEF EndTrap
  <2>2. CASE MakeCurrentExited(t, Killed)
    BY <2>1, <2>2 DEF Codes
  <2>3. CASE result.kind = "exit" /\ MakeCurrentExited(t, result.code)
    <3>1. result.code \in Codes
      BY <1>1, <2>3 DEF Results, NoResult, Suspend, Block, ExitWith
    <3> QED BY <2>1, <2>3, <3>1
  <2>4. CASE current' = None /\ UNCHANGED <<tasks, waiting, procs, machine, history>>
    BY <2>4 DEF Quiet
  <2> QED BY <1>7, <2>2, <2>3, <2>4 DEF EndTrap
<1> QED BY <1>2, <1>3, <1>4, <1>5, <1>6, <1>7 DEF Next

\* The parts of TypeOK that a step which moves no record can change.
SchedType ==
  /\ current \in Tids \cup {None} /\ ready \in Seq(Tids)
  /\ fatal \subseteq Pids /\ waiting \subseteq Pids \X Tids
  /\ result \in Results
  /\ machine \in {"running", "panic", "shutdown"}

ProcsType ==
  /\ tasks \subseteq Tids
  /\ DOMAIN tid2pid \subseteq Tids /\ tid2pid \in [DOMAIN tid2pid -> Pids]
  /\ DOMAIN rel_map \subseteq Pids /\ rel_map \in [DOMAIN rel_map -> ProcThreadRels]
  /\ next_pid \in 0 .. MaxPid + 1 /\ next_tid \in 0 .. MaxTid + 1
  /\ DOMAIN space = DOMAIN rel_map /\ space \in [DOMAIN space -> Pids]
  /\ DOMAIN satp = tasks /\ satp \in [DOMAIN satp -> Pids]
  /\ DOMAIN exited \subseteq Pids
  /\ exited \in [DOMAIN exited -> [code : Codes, parent : Pids \cup {None}]]
  /\ reports \in Seq(Ended)

LEMMA TypeParts == TypeOK <=> SchedType /\ ProcsType
  BY DEF TypeOK, SchedType, ProcsType

LEMMA SchedTypeStep ==
  ASSUME ThreadInv, [Next]_vars
  PROVE  SchedType'
<1>1. /\ SchedType /\ ProcsType
      /\ tid2pid \in [tasks -> Pids]
      /\ current # None => current \in tasks
      /\ DOMAIN rel_map \subseteq Pids
      /\ \A t \in tasks : t \in Tids /\ tid2pid[t] \in Pids
  BY TypeParts DEF ThreadInv, ThreadsConsistent, ProcsType
<1>2. \A t \in Tids : t # None
  BY BoundAssumption DEF Tids, None
<1>3. ASSUME NEW t \in Tids PROVE Append(ready, t) \in Seq(Tids)
  BY <1>1, AppendMembers DEF SchedType
<1>4. /\ NoResult \in Results /\ Suspend \in Results /\ Block \in Results
      /\ \A code \in Codes : ExitWith(code) \in Results
  BY DEF Results
<1>5. CASE FindNext
  <2>1. Head(ready) \in Tids /\ Tail(ready) \in Seq(Tids)
    BY <1>1, <1>5, TailMembers DEF FindNext, SchedType
  <2> QED BY <1>1, <1>5, <2>1 DEF FindNext, SchedType
<1>6. CASE NoTask
  <2>1. ready # <<>> => Tail(ready) \in Seq(Tids)
    BY <1>1, TailMembers DEF SchedType
  <2> QED BY <1>1, <1>6, <2>1 DEF NoTask, SchedType
<1>7. CASE Halted \/ UNCHANGED vars
  BY <1>1, <1>7 DEF Halted, vars, sched, SchedType
<1>8. ASSUME NEW t \in Tids, SystemCall(t) PROVE SchedType'
  <2>1. Traps(t) => t \in tasks /\ tid2pid[t] \in Pids
    BY <1>1, <1>2 DEF Traps
  <2>2. CASE OtherCall(t)
    BY <1>1, <1>4, <2>2 DEF OtherCall, Returns, SchedType
  <2>3. CASE \E code \in ExitCodes \cup {Unsupported} : Exit(t, code)
    <3>1. PICK code \in ExitCodes \cup {Unsupported} : Exit(t, code)
      BY <2>3
    <3>2. ExitWith(code) \in Results
      BY <1>4 DEF Codes
    <3> QED BY <1>1, <3>1, <3>2 DEF Exit, Returns, SchedType
  <2>4. CASE Fork(t)
    <3>1. next_tid \in Tids
      BY <1>1, <2>4, BoundAssumption DEF Fork, ProcsType, Tids
    <3> QED BY <1>1, <1>3, <1>4, <2>4, <3>1 DEF Fork, Add, Returns, SchedType
  <2>5. CASE Exec(t)
    BY <1>1, <1>4, <2>5 DEF Exec, Returns, SchedType
  <2>6. CASE ThreadCreate(t)
    <3>1. next_tid \in Tids
      BY <1>1, <2>6, BoundAssumption DEF ThreadCreate, ProcsType, Tids
    <3> QED BY <1>1, <1>3, <1>4, <2>6, <3>1 DEF ThreadCreate, Add, Returns, SchedType
  <2>7. CASE WaitAnyChild(t) \/ \E p \in Pids : WaitChild(t, p)
    BY <1>1, <1>4, <2>7 DEF WaitAnyChild, WaitChild, Report, Returns, SchedType
  <2>8. CASE \E u \in Tids : WaitTid(t, u)
    BY <1>1, <1>4, <2>8 DEF WaitTid, Returns, SchedType
  <2>9. CASE \E p \in Pids : Kill(t, p)
    BY <1>1, <1>4, <2>9 DEF Kill, Returns, SchedType
  <2>10. CASE BlockCall(t)
    BY <1>1, <1>4, <2>1, <2>10 DEF BlockCall, Own, Returns, SchedType
  <2>11. CASE \E u \in Tids : WakeCall(t, u)
    BY <1>1, <1>3, <1>4, <2>11 DEF WakeCall, Returns, SchedType
  <2> QED BY <1>8, <2>2, <2>3, <2>4, <2>5, <2>6, <2>7, <2>8, <2>9, <2>10, <2>11 DEF SystemCall
<1>9. ASSUME NEW t \in Tids, NEW code, MakeCurrentExited(t, code)
      PROVE  /\ current' = None /\ ready' = ready /\ waiting' \subseteq waiting
             /\ machine' \in {machine, "panic"}
  BY <1>9 DEF MakeCurrentExited
<1>10. ASSUME NEW t \in Tids, Fault(t) PROVE SchedType'
  BY <1>1, <1>9, <1>10 DEF Fault, SchedType
<1>11. ASSUME NEW t \in Tids, EndTrap(t) PROVE SchedType'
  <2>1. result' = NoResult /\ fatal' \subseteq fatal
    BY <1>11 DEF EndTrap
  <2>2. CASE \E code : MakeCurrentExited(t, code)
    BY <1>1, <1>4, <1>9, <2>1, <2>2 DEF SchedType
  <2>3. CASE /\ current' = None
             /\ ready' = IF result.kind = "suspend" THEN Append(ready, t) ELSE ready
             /\ UNCHANGED <<tasks, waiting, procs, machine, history>>
    BY <1>1, <1>3, <1>4, <2>1, <2>3 DEF SchedType
  <2> QED BY <1>11, <2>2, <2>3 DEF EndTrap
<1> QED BY <1>5, <1>6, <1>7, <1>8, <1>10, <1>11 DEF Next

\* The steps that change records keep their types.
LEMMA ProcsTypeStep ==
  ASSUME TreeInv, [Next]_vars
  PROVE  ProcsType'
<1>1. /\ ProcsType /\ ThreadInv
      /\ DOMAIN tid2pid = tasks
      /\ Alive \subseteq Pids /\ rel_map \in [Alive -> ProcThreadRels] /\ Alive = DOMAIN rel_map
      /\ space \in [Alive -> Pids] /\ satp \in [tasks -> Pids] /\ tid2pid \in [tasks -> Pids]
      /\ \A t \in tasks : tid2pid[t] \in Alive
  BY TypeParts DEF TreeInv, ThreadInv, ThreadsConsistent, ProcsType, Alive
<1>2. CASE Quiet
  BY <1>1, <1>2 DEF Quiet, procs, history, ProcsType
<1>3. ASSUME NEW t \in tasks, Fork(t) PROVE ProcsType'
  <2> DEFINE p == Own(t)
  <2>1. /\ p \in Alive /\ next_pid \in Pids /\ next_tid \in Tids
        /\ next_pid + 1 \in 0 .. MaxPid + 1 /\ next_tid + 1 \in 0 .. MaxTid + 1
    BY <1>1, <1>3, BoundAssumption DEF Fork, ProcsType, Pids, Tids, Own
  <2>2. next_pid \notin Alive
    BY <1>1, BoundAssumption DEF TreeInv, ThreadInv, Pids
  <2>3. rel_map' \in [Alive \cup {next_pid} -> ProcThreadRels]
    <3>1. ProcAdded(rel_map, AddProc(rel_map, next_pid, p, next_tid), next_pid, p, next_tid)
      BY <1>1, <2>1, <2>2, AddProcValue
    <3> QED BY <1>1, <1>3, <3>1 DEF Fork, ProcAdded
  <2>4. /\ tasks' = tasks \cup {next_tid}
        /\ tid2pid' \in [tasks \cup {next_tid} -> Pids]
        /\ satp' \in [tasks \cup {next_tid} -> Pids]
        /\ space' \in [Alive \cup {next_pid} -> Pids]
    BY <1>1, <1>3, <2>1 DEF Fork, Add, With
  <2>5. UNCHANGED history /\ next_pid' = next_pid + 1 /\ next_tid' = next_tid + 1
    BY <1>3 DEF Fork, Add
  <2> QED BY <1>1, <2>1, <2>3, <2>4, <2>5 DEF ProcsType, history
<1>4. ASSUME NEW t \in tasks, Exec(t) PROVE ProcsType'
  <2>1. /\ next_pid \in Pids
        /\ next_pid + 1 \in 0 .. MaxPid + 1 /\ next_tid + 1 \in 0 .. MaxTid + 1
    BY <1>1, <1>4, BoundAssumption DEF Exec, ProcsType, Pids
  <2> QED BY <1>1, <1>4, <2>1 DEF Exec, ProcsType, history
<1>5. ASSUME NEW t \in tasks, ThreadCreate(t) PROVE ProcsType'
  <2> DEFINE p == Own(t)
  <2>1. /\ p \in Alive /\ p \in Pids /\ next_tid \in Tids /\ next_tid + 1 \in 0 .. MaxTid + 1
        /\ space[p] \in Pids
    BY <1>1, <1>5, BoundAssumption DEF ThreadCreate, ProcsType, Tids, Own
  <2>2. AddThread(rel_map[p], next_tid) \in ProcThreadRels
    <3>1. rel_map[p] \in ProcThreadRels
      BY <1>1, <2>1
    <3>2. Append(rel_map[p].threads, next_tid) \in Seq(Tids)
      BY <2>1, <3>1, AppendMembers DEF ProcThreadRels
    <3> QED BY <3>1, <3>2 DEF AddThread, ProcThreadRels
  <2>3. rel_map' \in [Alive -> ProcThreadRels]
    BY <1>1, <1>5, <2>2 DEF ThreadCreate
  <2>4. /\ tasks' = tasks \cup {next_tid}
        /\ tid2pid' \in [tasks \cup {next_tid} -> Pids]
        /\ satp' \in [tasks \cup {next_tid} -> Pids]
    BY <1>1, <1>5, <2>1 DEF ThreadCreate, Add, With
  <2>5. UNCHANGED <<space, next_pid, history>> /\ next_tid' = next_tid + 1
    BY <1>5 DEF ThreadCreate, Add
  <2> QED BY <1>1, <2>1, <2>3, <2>4, <2>5 DEF ProcsType, history
<1>6. ASSUME NEW t \in tasks, NEW i \in DOMAIN rel_map[Own(t)].dead_children, Report(t, i)
      PROVE  ProcsType'
  <2> DEFINE p == Own(t)
             dead == rel_map[p].dead_children
  <2>1. p \in Alive /\ rel_map[p] \in ProcThreadRels /\ dead \in Seq(Ended)
    BY <1>1 DEF Own, ProcThreadRels
  <2>2. RemoveAt(dead, i) \in Seq(Ended) /\ dead[i] \in Ended
    BY <1>6, <2>1, RemoveAtProperties
  <2>3. Append(reports, dead[i]) \in Seq(Ended)
    BY <1>1, <2>2, AppendMembers DEF ProcsType
  <2>4. [rel_map[p] EXCEPT !.dead_children = RemoveAt(dead, i)] \in ProcThreadRels
    BY <2>1, <2>2 DEF ProcThreadRels
  <2>5. rel_map' = [rel_map EXCEPT ![p] = [rel_map[p] EXCEPT !.dead_children = RemoveAt(dead, i)]]
    BY <1>6 DEF Report
  <2>6. rel_map' \in [Alive -> ProcThreadRels]
    BY <1>1, <2>1, <2>4, <2>5
  <2> QED BY <1>1, <1>6, <2>3, <2>6 DEF Report, ProcsType
<1>7. ASSUME NEW t \in tasks, NEW u \in Tids, WaitTid(t, u) PROVE ProcsType'
  <2> DEFINE p == Own(t)
             dead == Without(rel_map[p].dead_threads, u)
  <2>1. p \in Alive /\ rel_map[p] \in ProcThreadRels
    BY <1>1 DEF Own
  <2>2. dead \in UNION {[T -> Codes] : T \in SUBSET Tids}
    BY <2>1, DeadThreads DEF ProcThreadRels
  <2>3. [rel_map[p] EXCEPT !.dead_threads = dead] \in ProcThreadRels
    BY <2>1, <2>2 DEF ProcThreadRels
  <2>4. rel_map' = [rel_map EXCEPT ![p] = [rel_map[p] EXCEPT !.dead_threads = dead]]
    BY <1>7 DEF WaitTid
  <2>5. rel_map' \in [Alive -> ProcThreadRels]
    BY <1>1, <2>1, <2>3, <2>4
  <2> QED BY <1>1, <1>7, <2>5 DEF WaitTid, ProcsType, history
<1>8. ASSUME machine = "running", NEW t \in tasks, NEW code \in Codes, MakeCurrentExited(t, code)
      PROVE  ProcsType'
  <2> DEFINE p == tid2pid[t]
  <2>1. /\ p \in Alive /\ t \in Members(rel_map[p].threads) /\ p \in Pids
        /\ tasks' = tasks \ {t}
        /\ tid2pid' = Without(tid2pid, t) /\ satp' = Without(satp, t)
        /\ UNCHANGED <<next_pid, next_tid, reports>>
        /\ ThreadGone(t, p, code) \/ ProcessGone(t, p, code)
    BY <1>1, <1>8, EndOfThread
  <2>2. /\ tid2pid' \in [tasks \ {t} -> Pids] /\ satp' \in [tasks \ {t} -> Pids]
    BY <1>1, <2>1 DEF Without, Restrict
  <2>3. rel_map[p] \in ProcThreadRels /\ Injective(rel_map[p].threads)
        /\ rel_map[p].parent \in Pids \cup {None}
    BY <1>1, <2>1 DEF ThreadInv, ProcThreadRels
  <2> HIDE DEF p
  <2>4. CASE ThreadGone(t, p, code)
    <3>1. DelThread(rel_map[p], t, code) \in ProcThreadRels
      BY <2>1, <2>3, DelThreadValue
    <3>2. rel_map' \in [Alive -> ProcThreadRels]
      BY <1>1, <2>1, <2>4, <3>1 DEF ThreadGone
    <3> QED BY <1>1, <2>1, <2>2, <2>4, <3>2 DEF ThreadGone, ProcsType
  <2>5. CASE ProcessGone(t, p, code)
    <3>1. space' \in [Alive \ {p} -> Pids]
      BY <1>1, <2>5 DEF ProcessGone, Without, Restrict
    <3>2. exited' \in [DOMAIN exited \cup {p} -> [code : Codes, parent : Pids \cup {None}]]
      <4>1. [code |-> code, parent |-> rel_map[p].parent] \in [code : Codes, parent : Pids \cup {None}]
        BY <2>3
      <4>2. exited' = With(exited, p, [code |-> code, parent |-> rel_map[p].parent])
        BY <2>5 DEF ProcessGone
      <4>3. exited \in [DOMAIN exited -> [code : Codes, parent : Pids \cup {None}]]
        BY <1>1 DEF ProcsType
      <4> QED BY <4>1, <4>2, <4>3 DEF With
    <3>3. rel_map' \in [Alive \ {p} -> ProcThreadRels]
      BY <2>5 DEF ProcessGone
    <3> QED BY <1>1, <2>1, <2>2, <3>1, <3>2, <3>3 DEF ProcsType
  <2> QED BY <2>1, <2>4, <2>5
<1> QED BY <1>1, <1>2, <1>3, <1>4, <1>5, <1>6, <1>7, <1>8, Steps DEF Changes

----------------------------------------------------------------------------
\* Threads.

\* What ThreadInv says of the lists, the task table and the ids.
ThreadLists ==
  /\ ThreadsConsistent
  /\ current # None => current \in tasks
  /\ \A t \in tasks : t < next_tid
  /\ \A p \in Alive :
       /\ p < next_pid
       /\ Injective(rel_map[p].threads)
       /\ \A t \in DOMAIN rel_map[p].dead_threads : t < next_tid

\* A process's list is its threads, all of them once.
Listed(p) ==
  /\ rel_map[p].threads # <<>> /\ Injective(rel_map[p].threads)
  /\ Members(rel_map[p].threads) = {t \in tasks : tid2pid[t] = p}
  /\ \A t \in DOMAIN rel_map[p].dead_threads : t \notin tasks /\ t < next_tid
  /\ p < next_pid

LEMMA ThreadListsParts ==
  ThreadLists <=>
    /\ DOMAIN tid2pid = tasks
    /\ \A t \in tasks : tid2pid[t] \in Alive /\ t < next_tid
    /\ current # None => current \in tasks
    /\ \A p \in Alive : Listed(p)
  BY DEF ThreadLists, ThreadsConsistent, Listed

LEMMA ThreadListsStep ==
  ASSUME TreeInv, [Next]_vars
  PROVE  ThreadLists'
<1>1. /\ ProcsType /\ ThreadInv /\ ThreadLists
      /\ DOMAIN tid2pid = tasks
      /\ Alive \subseteq Pids /\ rel_map \in [Alive -> ProcThreadRels] /\ Alive = DOMAIN rel_map
      /\ tid2pid \in [tasks -> Pids]
      /\ \A t \in tasks : tid2pid[t] \in Alive /\ t < next_tid /\ t \in Int
      /\ \A p \in Alive : Listed(p) /\ p \in Int
      /\ next_pid \in Int /\ next_tid \in Int
  <2>1. ProcsType /\ ThreadInv /\ ThreadLists
    BY TypeParts DEF TreeInv, ThreadInv, ThreadLists
  <2> QED BY <2>1, ThreadListsParts, BoundAssumption DEF ProcsType, Alive, Pids, Tids
<1>2. \A p \in Alive : DOMAIN rel_map[p].dead_threads \subseteq Tids
  BY <1>1, DeadThreads DEF ProcThreadRels
<1>3. CASE Quiet
  <2>1. UNCHANGED <<tasks, tid2pid, rel_map, next_pid, next_tid>> /\ (current' # None => current' \in tasks)
    BY <1>3 DEF Quiet, procs
  <2> QED BY <1>1, <2>1 DEF ThreadLists, ThreadsConsistent, Alive
<1>4. ASSUME NEW t \in tasks, Traps(t), Fork(t) PROVE ThreadLists'
  <2>p. PICK p : p = Own(t)
    OBVIOUS
  <2>1. /\ p \in Alive /\ next_pid \in Pids \ Alive /\ next_tid \in Tids \ tasks
    BY <1>1, <1>4, <2>p, BoundAssumption DEF Fork, ProcsType, Pids, Tids, Own, Listed
  <2>2. /\ rel_map' \in [Alive \cup {next_pid} -> ProcThreadRels]
        /\ rel_map'[next_pid].threads = <<next_tid>> /\ rel_map'[next_pid].dead_threads = <<>>
        /\ \A q \in Alive : /\ rel_map'[q].threads = rel_map[q].threads
                            /\ rel_map'[q].dead_threads = rel_map[q].dead_threads
    <3>1. ProcAdded(rel_map, AddProc(rel_map, next_pid, p, next_tid), next_pid, p, next_tid)
      BY <1>1, <2>1, AddProcValue
    <3>2. rel_map' = AddProc(rel_map, next_pid, p, next_tid)
      BY <1>4, <2>p DEF Fork
    <3> QED BY <1>1, <3>1, <3>2 DEF ProcAdded
  <2>3. /\ tasks' = tasks \cup {next_tid}
        /\ tid2pid' = [u \in tasks \cup {next_tid} |-> IF u = next_tid THEN next_pid ELSE tid2pid[u]]
        /\ next_pid' = next_pid + 1 /\ next_tid' = next_tid + 1 /\ current' = current
    BY <1>1, <1>4 DEF Fork, Add, With, Returns
  <2>4. Alive' = Alive \cup {next_pid}
    BY <2>2 DEF Alive
  <2>5. ASSUME NEW q \in Alive PROVE Listed(q)'
    <3>1. Listed(q) /\ q # next_pid /\ q \in Int
      BY <1>1, <2>1
    <3>2. {u \in tasks' : tid2pid'[u] = q} = {u \in tasks : tid2pid[u] = q}
      BY <2>1, <2>3, <3>1
    <3>3. rel_map'[q].threads = rel_map[q].threads /\ rel_map'[q].dead_threads = rel_map[q].dead_threads
      BY <2>2
    <3>4. \A u \in DOMAIN rel_map[q].dead_threads : u \notin tasks' /\ u < next_tid'
      BY <1>1, <1>2, <2>3, <3>1, BoundAssumption DEF Listed, Tids
    <3> QED BY <1>1, <2>3, <3>1, <3>2, <3>3, <3>4 DEF Listed
  <2>6. ASSUME NEW q, q = next_pid PROVE Listed(q)'
    <3>1. Members(<<next_tid>>) = {next_tid} /\ Injective(<<next_tid>>) /\ <<next_tid>> # <<>>
      BY DEF Members, Injective
    <3>2. {u \in tasks' : tid2pid'[u] = q} = {next_tid}
      BY <2>6, <1>1, <2>1, <2>3
    <3>3. DOMAIN rel_map'[q].dead_threads = {} /\ q < next_pid'
      BY <1>1, <2>2, <2>3, <2>6
    <3> QED BY <2>2, <2>6, <3>1, <3>2, <3>3 DEF Listed
  <2>7. \A u \in tasks' : tid2pid'[u] \in Alive' /\ u < next_tid'
    BY <1>1, <2>3, <2>4
  <2>8. current' # None => current' \in tasks'
    BY <1>1, <2>3 DEF ThreadLists
  <2>9. DOMAIN tid2pid' = tasks'
    BY <2>3
  <2>10. \A q \in Alive' : Listed(q)'
    BY <2>4, <2>5, <2>6
  <2> QED BY <2>7, <2>8, <2>9, <2>10 DEF ThreadLists, ThreadsConsistent, Listed
<1>5. ASSUME NEW t \in tasks, Traps(t), Exec(t) PROVE ThreadLists'
  <2>1. UNCHANGED <<tasks, tid2pid, rel_map, current>> /\ next_pid' = next_pid + 1 /\ next_tid' = next_tid + 1
    BY <1>5 DEF Exec, Returns
  <2>2. \A q \in Alive : Listed(q)'
    BY <1>1, <1>2, <2>1, BoundAssumption DEF Listed, Tids
  <2> QED BY <1>1, <2>1, <2>2 DEF ThreadLists, ThreadsConsistent, Listed, Alive
<1>6. ASSUME NEW t \in tasks, Traps(t), ThreadCreate(t) PROVE ThreadLists'
  <2>p. PICK p : p = Own(t)
    OBVIOUS
  <2>1. p \in Alive /\ next_tid \in Tids \ tasks
    BY <1>1, <1>6, <2>p, BoundAssumption DEF ThreadCreate, ProcsType, Tids, Own, Listed
  <2> DEFINE q0 == rel_map[p].threads
  <2>2. rel_map[p] \in ProcThreadRels /\ q0 \in Seq(Tids)
    BY <1>1, <2>1 DEF ProcThreadRels
  <2>3. /\ \A q \in Alive \ {p} : rel_map'[q] = rel_map[q]
        /\ rel_map'[p].threads = Append(q0, next_tid)
        /\ rel_map'[p].dead_threads = rel_map[p].dead_threads
        /\ DOMAIN rel_map' = Alive
    BY <1>1, <1>6, <2>1, <2>2, <2>p DEF ThreadCreate, AddThread, ProcThreadRels
  <2>4. /\ tasks' = tasks \cup {next_tid}
        /\ tid2pid' = [u \in tasks \cup {next_tid} |-> IF u = next_tid THEN p ELSE tid2pid[u]]
        /\ next_pid' = next_pid /\ next_tid' = next_tid + 1 /\ current' = current
    BY <1>1, <1>6, <2>p DEF ThreadCreate, Add, With, Returns
  <2>5. ASSUME NEW q \in Alive \ {p} PROVE Listed(q)'
    <3>1. {u \in tasks' : tid2pid'[u] = q} = {u \in tasks : tid2pid[u] = q}
      BY <2>1, <2>4
    <3>2. \A u \in DOMAIN rel_map[q].dead_threads : u \notin tasks' /\ u < next_tid'
      BY <1>1, <1>2, <2>4, BoundAssumption DEF Listed, Tids
    <3> QED BY <1>1, <2>3, <2>4, <3>1, <3>2 DEF Listed
  <2>6. Listed(p)'
    <3>1. Listed(p) /\ next_tid \notin Members(q0)
      BY <1>1, <2>1 DEF Listed
    <3>2. /\ Members(Append(q0, next_tid)) = Members(q0) \cup {next_tid}
          /\ Append(q0, next_tid) # <<>>
      BY <2>1, <2>2, AppendMembers
    <3>3. Injective(Append(q0, next_tid))
      <4>1. /\ Len(q0) \in Nat /\ DOMAIN q0 = 1 .. Len(q0)
            /\ DOMAIN Append(q0, next_tid) = 1 .. Len(q0) + 1
            /\ Append(q0, next_tid)[Len(q0) + 1] = next_tid
            /\ \A i \in 1 .. Len(q0) : Append(q0, next_tid)[i] = q0[i]
        BY <2>2
      <4>2. \A i \in 1 .. Len(q0) : q0[i] # next_tid
        BY <3>1, <4>1 DEF Members
      <4>3. \A i, j \in 1 .. Len(q0) : q0[i] = q0[j] => i = j
        BY <3>1, <4>1 DEF Listed, Injective
      <4> HIDE DEF q0
      <4> QED BY <4>1, <4>2, <4>3 DEF Injective
    <3>4. {u \in tasks' : tid2pid'[u] = p} = {u \in tasks : tid2pid[u] = p} \cup {next_tid}
      BY <2>1, <2>4
    <3>5. \A u \in DOMAIN rel_map[p].dead_threads : u \notin tasks' /\ u < next_tid'
      BY <1>1, <1>2, <2>1, <2>4, <3>1, BoundAssumption DEF Listed, Tids
    <3> QED BY <2>3, <2>4, <3>1, <3>2, <3>3, <3>4, <3>5 DEF Listed
  <2>7. \A q \in Alive' : Listed(q)'
    BY <2>3, <2>5, <2>6 DEF Alive
  <2>8. \A u \in tasks' : tid2pid'[u] \in Alive' /\ u < next_tid'
    BY <1>1, <2>1, <2>3, <2>4 DEF Alive
  <2>9. (current' # None => current' \in tasks') /\ DOMAIN tid2pid' = tasks'
    BY <1>1, <2>4 DEF ThreadLists
  <2> QED BY <2>7, <2>8, <2>9 DEF ThreadLists, ThreadsConsistent, Listed
<1>7. ASSUME NEW t \in tasks, NEW i \in DOMAIN rel_map[Own(t)].dead_children, Report(t, i)
      PROVE  ThreadLists'
  <2>1. UNCHANGED <<tasks, tid2pid, next_pid, next_tid, current>>
    BY <1>7 DEF Report, Returns
  <2>2. /\ DOMAIN rel_map' = Alive
        /\ \A q \in Alive : /\ rel_map'[q].threads = rel_map[q].threads
                            /\ rel_map'[q].dead_threads = rel_map[q].dead_threads
    <3>1. Own(t) \in Alive /\ rel_map[Own(t)] \in ProcThreadRels
      BY <1>1 DEF Own
    <3> QED BY <1>1, <1>7, <3>1 DEF Report, ProcThreadRels
  <2>3. \A q \in Alive : Listed(q)'
    BY <1>1, <2>1, <2>2 DEF Listed
  <2> QED BY <1>1, <2>1, <2>2, <2>3 DEF ThreadLists, ThreadsConsistent, Listed, Alive
<1>8. ASSUME NEW t \in tasks, NEW u \in Tids, WaitTid(t, u) PROVE ThreadLists'
  <2>1. UNCHANGED <<tasks, tid2pid, next_pid, next_tid, current>>
    BY <1>8 DEF WaitTid, Returns
  <2>2. /\ DOMAIN rel_map' = Alive
        /\ \A q \in Alive : /\ rel_map'[q].threads = rel_map[q].threads
                            /\ DOMAIN rel_map'[q].dead_threads \subseteq DOMAIN rel_map[q].dead_threads
    <3>1. Own(t) \in Alive /\ rel_map[Own(t)] \in ProcThreadRels
      BY <1>1 DEF Own
    <3>2. DOMAIN Without(rel_map[Own(t)].dead_threads, u) \subseteq DOMAIN rel_map[Own(t)].dead_threads
      BY DEF Without, Restrict
    <3> QED BY <1>1, <1>8, <3>1, <3>2 DEF WaitTid, ProcThreadRels
  <2>3. \A q \in Alive : Listed(q)'
    BY <1>1, <2>1, <2>2 DEF Listed
  <2> QED BY <1>1, <2>1, <2>2, <2>3 DEF ThreadLists, ThreadsConsistent, Listed, Alive
<1>9. ASSUME machine = "running", NEW t \in tasks, NEW code \in Codes, MakeCurrentExited(t, code)
      PROVE  ThreadLists'
  <2>p. PICK p : p = tid2pid[t]
    OBVIOUS
  <2>1. /\ p \in Alive /\ t \in Members(rel_map[p].threads)
        /\ tasks' = tasks \ {t} /\ current' = None
        /\ tid2pid' = Without(tid2pid, t)
        /\ UNCHANGED <<next_pid, next_tid, reports>>
        /\ ThreadGone(t, p, code) \/ ProcessGone(t, p, code)
    BY <1>1, <1>9, <2>p, EndOfThread
  <2>2. tid2pid' \in [tasks \ {t} -> Pids] /\ \A u \in tasks' : tid2pid'[u] = tid2pid[u]
    BY <1>1, <2>1 DEF Without, Restrict
  <2>3. /\ \A q \in Alive \ {p} : {u \in tasks' : tid2pid'[u] = q} = {u \in tasks : tid2pid[u] = q}
        /\ {u \in tasks' : tid2pid'[u] = p} = {u \in tasks : tid2pid[u] = p} \ {t}
    BY <2>1, <2>2, <2>p
  <2>4. t < next_tid /\ Listed(p) /\ rel_map[p] \in ProcThreadRels
    BY <1>1, <2>1
  <2>5. CASE ThreadGone(t, p, code)
    <3> DEFINE left == DelThread(rel_map[p], t, code)
    <3>1. /\ left \in ProcThreadRels /\ Injective(left.threads)
          /\ Members(left.threads) = Members(rel_map[p].threads) \ {t}
          /\ DOMAIN left.dead_threads = DOMAIN rel_map[p].dead_threads \cup {t}
      BY <2>1, <2>4, DelThreadValue DEF Listed
    <3> HIDE DEF left
    <3>2. left.threads # <<>>
      <4>1. Members(left.threads) # {}
        BY <2>1, <2>5, <3>1 DEF ThreadGone
      <4> QED BY <4>1 DEF Members
    <3>3. DOMAIN rel_map' = Alive /\ rel_map'[p] = left /\ \A q \in Alive \ {p} : rel_map'[q] = rel_map[q]
      BY <1>1, <2>1, <2>5 DEF ThreadGone, left
    <3>4. Listed(p)'
      BY <2>1, <2>3, <2>4, <3>1, <3>2, <3>3 DEF Listed
    <3>5. \A q \in Alive \ {p} : Listed(q)'
      BY <1>1, <2>1, <2>3, <3>3 DEF Listed
    <3>6. \A q \in Alive' : Listed(q)'
      BY <3>3, <3>4, <3>5 DEF Alive
    <3>7. \A u \in tasks' : tid2pid'[u] \in Alive' /\ u < next_tid'
      BY <1>1, <2>1, <2>2, <3>3 DEF Alive
    <3> QED BY <2>1, <2>2, <3>6, <3>7 DEF ThreadLists, ThreadsConsistent, Listed
  <2>6. CASE ProcessGone(t, p, code)
    <3>1. /\ DOMAIN rel_map' = Alive \ {p}
          /\ \A q \in Alive \ {p} : /\ rel_map'[q].threads = rel_map[q].threads
                                    /\ rel_map'[q].dead_threads = rel_map[q].dead_threads
      BY <2>6 DEF ProcessGone
    <3>2. \A q \in Alive \ {p} : Listed(q)'
      BY <1>1, <2>1, <2>3, <3>1 DEF Listed
    <3>3. \A u \in tasks' : tid2pid[u] # p
      BY <2>1, <2>4, <2>6 DEF ProcessGone, Listed
    <3>4. \A u \in tasks' : tid2pid'[u] \in Alive' /\ u < next_tid'
      BY <1>1, <2>1, <2>2, <3>1, <3>3 DEF Alive
    <3>5. \A q \in Alive' : Listed(q)'
      BY <3>1, <3>2 DEF Alive
    <3> QED BY <2>1, <2>2, <3>4, <3>5 DEF ThreadLists, ThreadsConsistent, Listed
  <2> QED BY <2>1, <2>5, <2>6
<1> QED BY <1>1, <1>3, <1>4, <1>5, <1>6, <1>7, <1>8, <1>9, Steps DEF Changes

----------------------------------------------------------------------------
\* The family tree.

\* What TreeInv adds to ThreadInv.
Kin ==
  /\ machine = "panic" => InitPid \notin Alive
  /\ machine # "panic" =>
       \A p \in Alive :
         /\ \A c \in rel_map[p].children : c \in Alive /\ rel_map[c].parent = p
         /\ p # InitPid => /\ rel_map[p].parent \in Alive
                           /\ p \in rel_map[rel_map[p].parent].children
  /\ \A p \in Alive : rel_map[p].parent < p

LEMMA TreeParts == TreeInv <=> SchedType /\ ProcsType /\ ThreadLists /\ Kin
  BY TypeParts DEF TreeInv, ThreadInv, TreeConsistent, ThreadLists, Kin

LEMMA KinStep ==
  ASSUME TreeInv, [Next]_vars
  PROVE  Kin'
<1>1. /\ ThreadInv /\ Kin
      /\ Alive \subseteq Pids /\ rel_map \in [Alive -> ProcThreadRels] /\ Alive = DOMAIN rel_map
      /\ \A t \in tasks : tid2pid[t] \in Alive
  BY TreeParts DEF TreeInv, ThreadInv, ThreadsConsistent, TypeOK, Alive
<1>2. CASE Quiet
  BY <1>1, <1>2 DEF Quiet, procs, Kin, Alive
\* A step that touches neither parents nor children.
<1>3. ASSUME DOMAIN rel_map' = Alive, machine' = machine,
             \A q \in Alive : /\ rel_map'[q].parent = rel_map[q].parent
                             /\ rel_map'[q].children = rel_map[q].children
      PROVE  Kin'
  <2>1. Alive' = Alive
    BY <1>3 DEF Alive
  <2>2. machine' # "panic" =>
          \A p \in Alive :
            /\ \A c \in rel_map'[p].children : c \in Alive /\ rel_map'[c].parent = p
            /\ p # InitPid => /\ rel_map'[p].parent \in Alive
                              /\ p \in rel_map'[rel_map'[p].parent].children
    BY <1>1, <1>3 DEF Kin
  <2> QED BY <1>1, <1>3, <2>1, <2>2 DEF Kin
<1>4. ASSUME machine = "running", NEW t \in tasks, Fork(t) PROVE Kin'
  <2>p. PICK p : p = Own(t)
    OBVIOUS
  <2>c. PICK c : c = next_pid
    OBVIOUS
  <2>1. p \in Alive /\ c \in Pids \ Alive /\ next_tid \in Tids
    BY <1>1, <1>4, <2>p, <2>c, BoundAssumption DEF Fork, ThreadInv, TypeOK, Pids, Tids, Own
  <2>2. ProcAdded(rel_map, rel_map', c, p, next_tid)
    <3>1. ProcAdded(rel_map, AddProc(rel_map, c, p, next_tid), c, p, next_tid)
      BY <1>1, <2>1, AddProcValue
    <3> QED BY <1>4, <2>p, <2>c, <3>1 DEF Fork
  <2>3. /\ DOMAIN rel_map' = Alive \cup {c}
        /\ rel_map'[c].parent = p /\ rel_map'[c].children = {}
        /\ \A q \in Alive : /\ rel_map'[q].parent = rel_map[q].parent
                            /\ rel_map'[q].children = IF q = p THEN rel_map[q].children \cup {c}
                                                      ELSE rel_map[q].children
    BY <1>1, <2>2 DEF ProcAdded
  <2>4. Alive' = Alive \cup {c} /\ machine' = "running" /\ p < c
    BY <1>1, <1>4, <2>1, <2>3, <2>c DEF Fork, Returns, Alive, ThreadInv
  <2>5. ASSUME NEW q \in Alive \cup {c}
        PROVE  /\ \A d \in rel_map'[q].children : d \in Alive \cup {c} /\ rel_map'[d].parent = q
               /\ q # InitPid => /\ rel_map'[q].parent \in Alive \cup {c}
                                 /\ q \in rel_map'[rel_map'[q].parent].children
               /\ rel_map'[q].parent < q
    <3>1. \A r \in Alive :
            /\ \A d \in rel_map[r].children : d \in Alive /\ rel_map[d].parent = r
            /\ r # InitPid => rel_map[r].parent \in Alive /\ r \in rel_map[rel_map[r].parent].children
            /\ rel_map[r].parent < r
      BY <1>1, <1>4 DEF Kin
    <3>2. CASE q = c
      BY <2>1, <2>3, <2>4, <3>2
    <3>3. CASE q \in Alive
      <4>1. ASSUME NEW d \in rel_map'[q].children PROVE d \in Alive \cup {c} /\ rel_map'[d].parent = q
        <5>1. d \in rel_map[q].children \/ (q = p /\ d = c)
          BY <2>3, <3>3, <4>1
        <5>2. CASE d \in rel_map[q].children
          <6>1. d \in Alive /\ rel_map[d].parent = q
            BY <3>1, <3>3, <5>2
          <6> QED BY <2>3, <6>1
        <5> QED BY <2>3, <5>1, <5>2
      <4>2. ASSUME q # InitPid
            PROVE  /\ rel_map'[q].parent \in Alive
                   /\ q \in rel_map'[rel_map'[q].parent].children
        <5>1. /\ rel_map'[q].parent = rel_map[q].parent /\ rel_map[q].parent \in Alive
              /\ q \in rel_map[rel_map[q].parent].children
          BY <2>3, <3>1, <3>3, <4>2
        <5>2. rel_map[rel_map[q].parent].children \subseteq rel_map'[rel_map[q].parent].children
          BY <2>3, <5>1
        <5> QED BY <5>1, <5>2
      <4>3. rel_map'[q].parent < q
        BY <2>3, <3>1, <3>3
      <4> QED BY <4>1, <4>2, <4>3
    <3> QED BY <2>5, <3>2, <3>3
  <2> QED BY <2>4, <2>5 DEF Kin
<1>5. ASSUME NEW t \in tasks, Exec(t) PROVE Kin'
  BY <1>3, <1>5 DEF Exec, Returns, Alive
<1>6. ASSUME NEW t \in tasks, ThreadCreate(t) PROVE Kin'
  <2>1. Own(t) \in Alive /\ rel_map[Own(t)] \in ProcThreadRels
    BY <1>1 DEF Own
  <2> QED BY <1>1, <1>3, <1>6, <2>1 DEF ThreadCreate, AddThread, Returns, ProcThreadRels
<1>7. ASSUME NEW t \in tasks, NEW i \in DOMAIN rel_map[Own(t)].dead_children, Report(t, i)
      PROVE  Kin'
  <2>1. Own(t) \in Alive /\ rel_map[Own(t)] \in ProcThreadRels
    BY <1>1 DEF Own
  <2> QED BY <1>1, <1>3, <1>7, <2>1 DEF Report, Returns, ProcThreadRels
<1>8. ASSUME NEW t \in tasks, NEW u \in Tids, WaitTid(t, u) PROVE Kin'
  <2>1. Own(t) \in Alive /\ rel_map[Own(t)] \in ProcThreadRels
    BY <1>1 DEF Own
  <2> QED BY <1>1, <1>3, <1>8, <2>1 DEF WaitTid, Returns, ProcThreadRels
<1>9. ASSUME machine = "running", NEW t \in tasks, NEW code \in Codes, MakeCurrentExited(t, code)
      PROVE  Kin'
  <2>p. PICK p : p = tid2pid[t]
    OBVIOUS
  <2>1. /\ p \in Alive /\ t \in Members(rel_map[p].threads)
        /\ ThreadGone(t, p, code) \/ ProcessGone(t, p, code)
    BY <1>9, <2>p, EndOfThread
  <2>2. CASE ThreadGone(t, p, code)
    <3> DEFINE left == DelThread(rel_map[p], t, code)
    <3>1. left.parent = rel_map[p].parent /\ left.children = rel_map[p].children
      BY <1>1, <2>1, DelThreadValue DEF ThreadInv
    <3> HIDE DEF left
    <3>2. rel_map' = [rel_map EXCEPT ![p] = left] /\ machine' = machine
      BY <2>2 DEF ThreadGone, left
    <3> QED BY <1>1, <1>3, <2>1, <3>1, <3>2
  <2>3. CASE ProcessGone(t, p, code)
    <3> DEFINE C == rel_map[p].children
               up == rel_map[p].parent
    <3>1. /\ DOMAIN rel_map' = Alive \ {p}
          /\ \A q \in Alive \ {p} :
               /\ rel_map'[q].parent = IF q \in C THEN InitPid ELSE rel_map[q].parent
               /\ rel_map'[q].children = (IF q = up THEN rel_map[q].children \ {p} ELSE rel_map[q].children)
                                           \cup (IF q = InitPid THEN C ELSE {})
          /\ machine' = IF C # {} /\ (p = InitPid \/ InitPid \notin Alive) THEN "panic" ELSE "running"
      BY <1>9, <2>3 DEF ProcessGone
    <3>2. Alive' = Alive \ {p}
      BY <3>1 DEF Alive
    <3>3. \A q \in Alive :
            /\ q \in Nat /\ rel_map[q].parent < q
            /\ \A c \in rel_map[q].children : c \in Alive /\ rel_map[c].parent = q /\ c # InitPid
            /\ q # InitPid => rel_map[q].parent \in Alive /\ q \in rel_map[rel_map[q].parent].children
            /\ q \notin rel_map[q].children
      BY <1>9, ProcessFacts
    <3> HIDE DEF C, up
    <3>4. /\ \A c \in C : c \in Alive \ {p} /\ rel_map[c].parent = p /\ c # InitPid
          /\ \A q \in Alive : q # InitPid /\ rel_map[q].parent = p => q \in C
      BY <2>1, <3>3 DEF C
    <3>5. ASSUME machine' # "panic", NEW q \in Alive \ {p}, NEW c \in rel_map'[q].children
          PROVE  c \in Alive \ {p} /\ rel_map'[c].parent = q
      <4>1. CASE c \in rel_map[q].children /\ (q = up => c # p)
        <5>1. c \in Alive /\ rel_map[c].parent = q
          BY <3>3, <4>1
        <5>2. c # p
          BY <3>3, <4>1, <5>1 DEF up
        <5> QED BY <3>1, <3>4, <5>1, <5>2
      <4>2. CASE c \in C /\ q = InitPid
        BY <3>1, <3>4, <4>2
      <4> QED BY <3>1, <3>5, <4>1, <4>2
    <3>6. ASSUME machine' # "panic", NEW q \in Alive \ {p}, q # InitPid
          PROVE  /\ rel_map'[q].parent \in Alive \ {p}
                 /\ q \in rel_map'[rel_map'[q].parent].children
      <4>1. CASE q \in C
        BY <3>1, <3>6, <4>1
      <4>2. CASE q \notin C
        <5>1. /\ rel_map'[q].parent = rel_map[q].parent
              /\ rel_map[q].parent \in Alive \ {p}
              /\ q \in rel_map[rel_map[q].parent].children
          BY <3>1, <3>3, <3>4, <3>6, <4>2
        <5> QED BY <3>1, <3>6, <5>1
      <4> QED BY <4>1, <4>2
    <3>7. ASSUME NEW q \in Alive \ {p} PROVE rel_map'[q].parent < q
      <4>1. q \in C => InitPid < q
        BY <3>3, <3>4 DEF InitPid
      <4> QED BY <3>1, <3>3, <4>1
    <3> QED BY <3>1, <3>2, <3>5, <3>6, <3>7 DEF Kin
  <2> QED BY <2>1, <2>2, <2>3
<1> QED BY <1>1, <1>2, <1>4, <1>5, <1>6, <1>7, <1>8, <1>9, Steps DEF Changes, Traps

LEMMA TreeStep ==
  ASSUME TreeInv, [Next]_vars
  PROVE  TreeInv'
<1>1. SchedType' /\ ProcsType' /\ ThreadLists' /\ Kin'
  BY SchedTypeStep, ProcsTypeStep, ThreadListsStep, KinStep DEF TreeInv
<1> QED BY <1>1 DEF TreeInv, ThreadInv, TreeConsistent, TypeOK, ThreadLists, Kin, SchedType, ProcsType

\* One process of one thread, without relatives.
LEMMA InitialProcess ==
  ASSUME Init
  PROVE  /\ Alive = {InitPid}
         /\ rel_map = [p \in {InitPid} |-> [parent |-> None, children |-> {}, dead_children |-> <<>>,
                                           threads |-> <<0>>, dead_threads |-> <<>>]]
         /\ rel_map \in [{InitPid} -> ProcThreadRels]
<1> DEFINE rel == [parent |-> None, children |-> {}, dead_children |-> <<>>,
                   threads |-> <<0>>, dead_threads |-> <<>>]
<1>1. AddThread(NewRel(None), 0) = rel
  <2>1. Append(<<>>, 0) = <<0>> /\ NewRel(None).threads = <<>>
    BY DEF NewRel
  <2>2. AddThread(NewRel(None), 0) = [NewRel(None) EXCEPT !.threads = <<0>>]
    BY <2>1 DEF AddThread
  <2> QED BY <2>2 DEF NewRel
<1>2. rel \in ProcThreadRels
  <2>1. <<>> \in UNION {[T -> Codes] : T \in SUBSET Tids}
    <3>1. <<>> \in [{} -> Codes] /\ {} \in SUBSET Tids
      OBVIOUS
    <3> QED BY <3>1
  <2>2. <<0>> \in Seq(Tids) /\ <<>> \in Seq(Ended) /\ {} \in SUBSET Pids /\ None \in Pids \cup {None}
    BY BoundAssumption DEF Tids
  <2> QED BY <2>1, <2>2 DEF ProcThreadRels
<1> HIDE DEF rel
<1>3. rel_map = With(<<>>, InitPid, rel)
  <2>1. DOMAIN <<>> = {}
    OBVIOUS
  <2> QED BY <1>1, <2>1 DEF Init, AddProc
<1>4. rel_map = [p \in {InitPid} |-> rel]
  <2>1. DOMAIN <<>> \cup {InitPid} = {InitPid}
    OBVIOUS
  <2> QED BY <1>3, <2>1 DEF With
<1> QED BY <1>2, <1>4 DEF Alive, rel

LEMMA TreeInit ==
  ASSUME Init
  PROVE  TreeInv
<1>1. /\ Alive = {InitPid} /\ DOMAIN rel_map = {InitPid}
      /\ rel_map \in [{InitPid} -> ProcThreadRels]
      /\ rel_map[InitPid].parent = None /\ rel_map[InitPid].children = {}
      /\ rel_map[InitPid].threads = <<0>> /\ rel_map[InitPid].dead_threads = <<>>
  BY InitialProcess DEF Alive
<1>2. 0 \in Pids /\ 0 \in Tids /\ {0} \subseteq Pids
  BY BoundAssumption DEF Pids, Tids
<1>3. SchedType
  <2>1. <<0>> \in Seq(Tids) /\ NoResult \in Results
    BY <1>2 DEF Results
  <2> QED BY <2>1 DEF Init, SchedType
<1>4. ProcsType
  <2>1. 1 \in 0 .. MaxPid + 1 /\ 1 \in 0 .. MaxTid + 1
    BY BoundAssumption
  <2>2. /\ DOMAIN exited = {} /\ reports \in Seq(Ended)
        /\ exited \in [DOMAIN exited -> [code : Codes, parent : Pids \cup {None}]]
    BY DEF Init
  <2> QED BY <1>1, <1>2, <2>1, <2>2 DEF Init, ProcsType, InitPid
<1>5. ThreadLists
  <2>1. Members(<<0>>) = {0} /\ Injective(<<0>>) /\ <<0>> # <<>> /\ DOMAIN <<>> = {}
    BY DEF Members, Injective
  <2> QED BY <1>1, <2>1 DEF Init, ThreadLists, ThreadsConsistent, InitPid
<1>6. Kin
  BY <1>1 DEF Init, Kin, InitPid, None
<1> QED BY <1>3, <1>4, <1>5, <1>6, TreeParts

----------------------------------------------------------------------------
\* What holds in every state.

LEMMA AlwaysTree == Spec => []TreeInv
<1>1. Init => TreeInv
  BY TreeInit
<1>2. TreeInv /\ [Next]_vars => TreeInv'
  BY TreeStep
<1> QED BY <1>1, <1>2, PTL DEF Spec

\* Parents and children name each other: del_proc's hand-over of the children, add_proc
\* and every other call leave one tree under process 0, for any number of processes.
THEOREM TreeStaysConsistent == Spec => []TreeConsistent
<1>1. TreeInv => TreeConsistent
  BY DEF TreeInv
<1> QED BY <1>1, AlwaysTree, PTL

\* tid2pid, the thread lists of the processes and the task table hold the same threads,
\* and a process lives exactly as long as it has one: make_current_exited takes a thread
\* out of all of them, and the process with its last thread.
THEOREM ThreadsStayConsistent == Spec => []ThreadsConsistent
<1>1. TreeInv => ThreadsConsistent
  BY DEF TreeInv, ThreadInv
<1> QED BY <1>1, AlwaysTree, PTL

----------------------------------------------------------------------------
\* The books of exits.

\* ExitToldOnce, of books B (by process, None for what wait reported) and ends E.
BooksRight(B, E) ==
  /\ \A k, l \in DOMAIN B : \A i \in DOMAIN B[k], j \in DOMAIN B[l] :
       B[k][i].pid = B[l][j].pid => k = l /\ i = j
  /\ \A q \in DOMAIN B : \A i \in DOMAIN B[q] :
       /\ B[q][i].pid \in DOMAIN E /\ B[q][i].code = E[B[q][i].pid].code
       /\ q # None => q = E[B[q][i].pid].parent
  /\ \A p \in DOMAIN E : E[p].parent \in DOMAIN B \ {None} =>
       \E q \in DOMAIN B : \E i \in DOMAIN B[q] : B[q][i].pid = p

\* A process is created: it has told nobody and was told nothing.
LEMMA BooksOpened ==
  ASSUME NEW B, NEW E, BooksRight(B, E), NEW c, c \notin DOMAIN B,
         \A p \in DOMAIN E : E[p].parent # c,
         NEW P, DOMAIN P = DOMAIN B \cup {c}, P[c] = <<>>, \A q \in DOMAIN B : P[q] = B[q]
  PROVE  BooksRight(P, E)
<1>1. DOMAIN P[c] = {}
  OBVIOUS
<1>2. ASSUME NEW k \in DOMAIN P, NEW i \in DOMAIN P[k]
      PROVE  k \in DOMAIN B /\ i \in DOMAIN B[k] /\ P[k][i] = B[k][i]
  BY <1>1
<1>3. ASSUME NEW p \in DOMAIN E, E[p].parent \in DOMAIN P \ {None}
      PROVE  \E q \in DOMAIN P : \E i \in DOMAIN P[q] : P[q][i].pid = p
  <2>1. PICK q \in DOMAIN B : \E i \in DOMAIN B[q] : B[q][i].pid = p
    BY <1>3 DEF BooksRight
  <2> QED BY <2>1
<1>4. \A k, l \in DOMAIN P : \A i \in DOMAIN P[k], j \in DOMAIN P[l] :
        P[k][i].pid = P[l][j].pid => k = l /\ i = j
  BY <1>2 DEF BooksRight
<1>5. \A q \in DOMAIN P : \A i \in DOMAIN P[q] :
        /\ P[q][i].pid \in DOMAIN E /\ P[q][i].code = E[P[q][i].pid].code
        /\ q # None => q = E[P[q][i].pid].parent
  BY <1>2 DEF BooksRight
<1> QED BY <1>3, <1>4, <1>5 DEF BooksRight

\* wait moves an entry of book k to what it reported.
LEMMA BooksMoved ==
  ASSUME NEW B, NEW E, BooksRight(B, E), NEW S, B \in [DOMAIN B -> Seq(S)],
         None \in DOMAIN B, NEW k \in DOMAIN B, k # None, NEW n \in DOMAIN B[k],
         NEW P, DOMAIN P = DOMAIN B, P[k] = RemoveAt(B[k], n), P[None] = Append(B[None], B[k][n]),
         \A q \in DOMAIN B : q # k /\ q # None => P[q] = B[q]
  PROVE  BooksRight(P, E)
<1>1. /\ B[k] \in Seq(S) /\ B[None] \in Seq(S) /\ B[k][n] \in S
      /\ DOMAIN B[k] = 1 .. Len(B[k]) /\ Len(B[k]) \in Nat /\ n \in 1 .. Len(B[k])
      /\ DOMAIN B[None] = 1 .. Len(B[None]) /\ Len(B[None]) \in Nat
  OBVIOUS
<1>2. /\ DOMAIN P[k] = 1 .. Len(B[k]) - 1
      /\ \A j \in 1 .. Len(B[k]) - 1 : P[k][j] = B[k][IF j < n THEN j ELSE j + 1]
  <2>1. /\ RemoveAt(B[k], n) \in Seq(S) /\ Len(RemoveAt(B[k], n)) = Len(B[k]) - 1
        /\ \A j \in 1 .. Len(B[k]) - 1 : RemoveAt(B[k], n)[j] = B[k][IF j < n THEN j ELSE j + 1]
    BY <1>1, RemoveAtProperties
  <2> QED BY <2>1
<1>3. /\ DOMAIN P[None] = 1 .. Len(B[None]) + 1 /\ P[None][Len(B[None]) + 1] = B[k][n]
      /\ \A j \in 1 .. Len(B[None]) : P[None][j] = B[None][j]
  BY <1>1
\* Where an entry stood before.
<1> DEFINE book(q, j) == IF q = None /\ j = Len(B[None]) + 1 THEN k ELSE q
           place(q, j) == IF q = None /\ j = Len(B[None]) + 1 THEN n
                          ELSE IF q = k /\ j >= n THEN j + 1 ELSE j
<1>4. ASSUME NEW q \in DOMAIN P, NEW j \in DOMAIN P[q]
      PROVE  /\ book(q, j) \in DOMAIN B /\ place(q, j) \in DOMAIN B[book(q, j)]
             /\ P[q][j] = B[book(q, j)][place(q, j)]
  <2>1. CASE q = None
    <3>1. j \in 1 .. Len(B[None]) \/ j = Len(B[None]) + 1
      BY <1>1, <1>3, <1>4, <2>1
    <3> QED BY <1>1, <1>3, <2>1, <3>1
  <2>2. CASE q = k
    <3>1. j \in 1 .. Len(B[k]) - 1
      BY <1>2, <1>4, <2>2
    <3>2. (IF j < n THEN j ELSE j + 1) = (IF j >= n THEN j + 1 ELSE j)
      BY <1>1, <3>1
    <3> QED BY <1>1, <1>2, <2>2, <3>1, <3>2
  <2>3. CASE q # None /\ q # k
    BY <1>4, <2>3
  <2> QED BY <2>1, <2>2, <2>3
<1>5. \A q, r \in DOMAIN P : \A i \in DOMAIN P[q], j \in DOMAIN P[r] :
        P[q][i].pid = P[r][j].pid => q = r /\ i = j
  <2> SUFFICES ASSUME NEW q \in DOMAIN P, NEW r \in DOMAIN P, NEW i \in DOMAIN P[q], NEW j \in DOMAIN P[r],
                      P[q][i].pid = P[r][j].pid
               PROVE  q = r /\ i = j
    OBVIOUS
  <2>1. book(q, i) = book(r, j) /\ place(q, i) = place(r, j)
    <3>1. B[book(q, i)][place(q, i)].pid = B[book(r, j)][place(r, j)].pid
      BY <1>4
    <3> HIDE DEF book, place
    <3> QED BY <1>4, <3>1 DEF BooksRight
  <2>2. i \in Int \/ (q # None /\ q # k)
    BY <1>1, <1>2, <1>3
  <2>3. j \in Int \/ (r # None /\ r # k)
    BY <1>1, <1>2, <1>3
  <2> QED BY <1>1, <2>1, <2>2, <2>3
<1>6. \A q \in DOMAIN P : \A i \in DOMAIN P[q] :
        /\ P[q][i].pid \in DOMAIN E /\ P[q][i].code = E[P[q][i].pid].code
        /\ q # None => q = E[P[q][i].pid].parent
  <2> SUFFICES ASSUME NEW q \in DOMAIN P, NEW i \in DOMAIN P[q]
               PROVE  /\ P[q][i].pid \in DOMAIN E /\ P[q][i].code = E[P[q][i].pid].code
                      /\ q # None => book(q, i) = E[P[q][i].pid].parent /\ book(q, i) = q
    OBVIOUS
  <2>1. q # None => book(q, i) = q
    OBVIOUS
  <2> HIDE DEF book, place
  <2> QED BY <1>4, <2>1 DEF BooksRight
<1>7. ASSUME NEW p \in DOMAIN E, E[p].parent \in DOMAIN P \ {None}
      PROVE  \E q \in DOMAIN P : \E i \in DOMAIN P[q] : P[q][i].pid = p
  <2>1. PICK q \in DOMAIN B : \E i \in DOMAIN B[q] : B[q][i].pid = p
    BY <1>7 DEF BooksRight
  <2>2. PICK i \in DOMAIN B[q] : B[q][i].pid = p
    BY <2>1
  <2>3. CASE q = k /\ i = n
    <3>1. Len(B[None]) + 1 \in DOMAIN P[None] /\ P[None][Len(B[None]) + 1].pid = p
      BY <1>1, <1>3, <2>2, <2>3
    <3> QED BY <3>1
  <2>4. CASE q = k /\ i # n
    <3> DEFINE j == IF i < n THEN i ELSE i - 1
    <3>1. j \in 1 .. Len(B[k]) - 1 /\ (IF j < n THEN j ELSE j + 1) = i
      BY <1>1, <2>4
    <3>2. j \in DOMAIN P[k] /\ P[k][j].pid = p
      BY <1>2, <2>2, <2>4, <3>1
    <3> QED BY <3>2
  <2>5. CASE q = None
    <3>1. i \in DOMAIN P[None] /\ P[None][i].pid = p
      BY <1>1, <1>3, <2>2, <2>5
    <3> QED BY <3>1
  <2>6. CASE q # None /\ q # k
    BY <2>2, <2>6
  <2> QED BY <2>3, <2>4, <2>5, <2>6
<1> QED BY <1>5, <1>6, <1>7 DEF BooksRight

\* A process ends: its book goes, and its parent's, if the parent lives, has one entry more.
LEMMA BooksClosed ==
  ASSUME NEW B, NEW E, BooksRight(B, E), NEW S, B \in [DOMAIN B -> Seq(S)],
         NEW p \in DOMAIN B, p # None, p \notin DOMAIN E, NEW up, up # p, NEW code,
         [pid |-> p, code |-> code] \in S,
         NEW P, DOMAIN P = DOMAIN B \ {p},
         \A q \in DOMAIN B \ {p} :
           P[q] = IF q # None /\ q = up THEN Append(B[q], [pid |-> p, code |-> code]) ELSE B[q]
  PROVE  BooksRight(P, With(E, p, [code |-> code, parent |-> up]))
<1> DEFINE F == With(E, p, [code |-> code, parent |-> up])
           e == [pid |-> p, code |-> code]
<1>1. /\ DOMAIN F = DOMAIN E \cup {p} /\ F[p].code = code /\ F[p].parent = up
      /\ \A x \in DOMAIN E : F[x] = E[x]
  BY DEF With
<1>2. e.pid = p /\ e.code = code /\ e \in S
  OBVIOUS
<1> HIDE DEF F, e
<1>3. ASSUME NEW q \in DOMAIN P, NEW i \in DOMAIN P[q]
      PROVE  /\ q \in DOMAIN B /\ q # p
             /\ \/ i \in DOMAIN B[q] /\ P[q][i] = B[q][i] /\ P[q][i].pid # p
                \/ q = up /\ q # None /\ i = Len(B[q]) + 1 /\ P[q][i] = e
  <2>1. q \in DOMAIN B /\ q # p
    OBVIOUS
  <2>2. \A j \in DOMAIN B[q] : B[q][j].pid # p
    BY <2>1 DEF BooksRight
  <2>3. CASE q # None /\ q = up
    <3>1. P[q] = Append(B[q], e) /\ B[q] \in Seq(S)
      BY <2>1, <2>3 DEF e
    <3>2. i \in 1 .. Len(B[q]) \/ i = Len(B[q]) + 1
      BY <1>2, <3>1
    <3> QED BY <1>2, <2>1, <2>2, <2>3, <3>1, <3>2
  <2>4. CASE ~(q # None /\ q = up)
    BY <2>1, <2>2, <2>4
  <2> QED BY <2>3, <2>4
<1>4. \A q, r \in DOMAIN P : \A i \in DOMAIN P[q], j \in DOMAIN P[r] :
        P[q][i].pid = P[r][j].pid => q = r /\ i = j
  <2> SUFFICES ASSUME NEW q \in DOMAIN P, NEW r \in DOMAIN P, NEW i \in DOMAIN P[q], NEW j \in DOMAIN P[r],
                      P[q][i].pid = P[r][j].pid
               PROVE  q = r /\ i = j
    OBVIOUS
  <2>1. CASE P[q][i].pid = p
    <3>1. q = up /\ i = Len(B[q]) + 1
      BY <1>3, <2>1
    <3>2. r = up /\ j = Len(B[r]) + 1
      BY <1>3, <2>1, ZenonT(40)
    <3> QED BY <3>1, <3>2
  <2>2. CASE P[q][i].pid # p
    <3>1. /\ q \in DOMAIN B /\ i \in DOMAIN B[q] /\ P[q][i] = B[q][i]
          /\ r \in DOMAIN B /\ j \in DOMAIN B[r] /\ P[r][j] = B[r][j]
      BY <1>2, <1>3, <2>2
    <3> QED BY <3>1 DEF BooksRight
  <2> QED BY <2>1, <2>2
<1>5. \A q \in DOMAIN P : \A i \in DOMAIN P[q] :
        /\ P[q][i].pid \in DOMAIN F /\ P[q][i].code = F[P[q][i].pid].code
        /\ q # None => q = F[P[q][i].pid].parent
  BY <1>1, <1>2, <1>3 DEF BooksRight
<1>6. ASSUME NEW x \in DOMAIN F, F[x].parent \in DOMAIN P \ {None}
      PROVE  \E q \in DOMAIN P : \E i \in DOMAIN P[q] : P[q][i].pid = x
  <2>1. CASE x = p
    <3>1. up \in DOMAIN P /\ up # None /\ P[up] = Append(B[up], e) /\ B[up] \in Seq(S)
      BY <1>1, <1>6, <2>1 DEF e
    <3>2. Len(B[up]) + 1 \in DOMAIN P[up] /\ P[up][Len(B[up]) + 1] = e
      BY <1>2, <3>1
    <3> QED BY <1>2, <2>1, <3>1, <3>2
  <2>2. CASE x # p
    <3>1. x \in DOMAIN E /\ E[x].parent \in DOMAIN B \ {None} /\ E[x].parent # p
      BY <1>1, <1>6, <2>2
    <3>2. PICK q \in DOMAIN B : \E i \in DOMAIN B[q] : B[q][i].pid = x
      BY <3>1 DEF BooksRight
    <3>3. PICK i \in DOMAIN B[q] : B[q][i].pid = x
      BY <3>2
    <3>4. q \in DOMAIN P
      BY <3>1, <3>3 DEF BooksRight
    <3>5. i \in DOMAIN P[q] /\ P[q][i] = B[q][i]
      <4>1. CASE q # None /\ q = up
        <5>1. P[q] = Append(B[q], e) /\ B[q] \in Seq(S)
          BY <3>4, <4>1 DEF e
        <5> QED BY <1>2, <5>1
      <4>2. CASE ~(q # None /\ q = up)
        BY <3>4, <4>2
      <4> QED BY <4>1, <4>2
    <3> QED BY <3>3, <3>4, <3>5
  <2> QED BY <2>1, <2>2
<1> QED BY <1>4, <1>5, <1>6 DEF BooksRight, F

\* ExitToldOnce says that the books are right.
LEMMA ToldOnce ==
  ASSUME NEW B, NEW E
  PROVE  /\ Unique([q \in DOMAIN B |-> [i \in DOMAIN B[q] |-> B[q][i].pid]])
         /\ \A q \in DOMAIN B : \A e \in Members(B[q]) :
              /\ e.pid \in DOMAIN E /\ e.code = E[e.pid].code
              /\ q # None => q = E[e.pid].parent
         /\ \A p \in DOMAIN E : E[p].parent \in DOMAIN B \ {None} =>
              \E q \in DOMAIN B : \E e \in Members(B[q]) : e.pid = p
         <=> BooksRight(B, E)
<1> DEFINE atMostOnce == Unique([q \in DOMAIN B |-> [i \in DOMAIN B[q] |-> B[q][i].pid]])
           right(e, q) == /\ e.pid \in DOMAIN E /\ e.code = E[e.pid].code
                          /\ q # None => q = E[e.pid].parent
           entered(p) == \E q \in DOMAIN B : \E e \in Members(B[q]) : e.pid = p
<1>1. atMostOnce
        <=> \A k, l \in DOMAIN B : \A i \in DOMAIN B[k], j \in DOMAIN B[l] :
              B[k][i].pid = B[l][j].pid => k = l /\ i = j
  BY DEF Unique
<1>2. (\A q \in DOMAIN B : \A e \in Members(B[q]) : right(e, q))
        <=> \A q \in DOMAIN B : \A i \in DOMAIN B[q] : right(B[q][i], q)
  BY DEF Members
<1>3. \A p : entered(p) <=> \E q \in DOMAIN B : \E i \in DOMAIN B[q] : B[q][i].pid = p
  BY DEF Members
<1>4. BooksRight(B, E) <=>
        /\ atMostOnce
        /\ \A q \in DOMAIN B : \A e \in Members(B[q]) : right(e, q)
        /\ \A p \in DOMAIN E : E[p].parent \in DOMAIN B \ {None} => entered(p)
  <2>1. BooksRight(B, E) <=>
          /\ \A k, l \in DOMAIN B : \A i \in DOMAIN B[k], j \in DOMAIN B[l] :
               B[k][i].pid = B[l][j].pid => k = l /\ i = j
          /\ \A q \in DOMAIN B : \A i \in DOMAIN B[q] : right(B[q][i], q)
          /\ \A p \in DOMAIN E : E[p].parent \in DOMAIN B \ {None} =>
               \E q \in DOMAIN B : \E i \in DOMAIN B[q] : B[q][i].pid = p
    BY DEF BooksRight
  <2> HIDE DEF atMostOnce, right, entered
  <2> QED BY <1>1, <1>2, <1>3, <2>1
<1> QED BY <1>4

LEMMA BookStep ==
  ASSUME BookInv, [Next]_vars
  PROVE  BookInv'
<1>1. TreeInv /\ TreeInv'
  BY TreeStep DEF BookInv
<1>2. /\ ThreadInv /\ None \notin Alive /\ None \notin Pids
      /\ Alive \subseteq Pids /\ rel_map \in [Alive -> ProcThreadRels] /\ Alive = DOMAIN rel_map
      /\ \A t \in tasks : tid2pid[t] \in Alive
      /\ reports \in Seq(Ended) /\ DOMAIN exited \subseteq Pids
      /\ \A p \in Alive : p < next_pid
  <2>1. ThreadInv /\ TypeOK /\ ThreadsConsistent
    BY <1>1 DEF TreeInv, ThreadInv
  <2>2. /\ Alive \subseteq Pids /\ rel_map \in [Alive -> ProcThreadRels] /\ Alive = DOMAIN rel_map
        /\ reports \in Seq(Ended) /\ DOMAIN exited \subseteq Pids
    BY <2>1 DEF TypeOK, Alive
  <2>3. None \notin Pids
    BY BoundAssumption DEF Pids, None
  <2> QED BY <2>1, <2>2, <2>3 DEF ThreadsConsistent, ThreadInv
<1>3. /\ BooksRight(Books, exited)
      /\ DOMAIN exited \cap Alive = {}
      /\ \A p \in DOMAIN exited : p < next_pid /\ exited[p].parent < p
  <2>1. DOMAIN Books = Alive \cup {None} /\ Alive = DOMAIN Books \ {None}
    BY <1>2 DEF Books
  <2> QED BY <2>1, ToldOnce DEF BookInv, ExitToldOnce, Entered
<1>4. ASSUME BooksRight(Books', exited')
      PROVE  ExitToldOnce'
  <2>1. None \notin Alive'
    BY <1>1, BoundAssumption DEF TreeInv, ThreadInv, TypeOK, Alive, Pids, None
  <2>2. DOMAIN Books' = Alive' \cup {None} /\ Alive' = DOMAIN Books' \ {None}
    BY <2>1 DEF Books
  <2>3. PICK B, E : B = Books' /\ E = exited'
    OBVIOUS
  <2>4. /\ Unique([q \in DOMAIN B |-> [i \in DOMAIN B[q] |-> B[q][i].pid]])
        /\ \A q \in DOMAIN B : \A e \in Members(B[q]) :
             /\ e.pid \in DOMAIN E /\ e.code = E[e.pid].code
             /\ q # None => q = E[e.pid].parent
        /\ \A p \in DOMAIN E : E[p].parent \in DOMAIN B \ {None} =>
             \E q \in DOMAIN B : \E e \in Members(B[q]) : e.pid = p
    BY <1>4, <2>3, ToldOnce
  <2> QED BY <2>2, <2>3, <2>4 DEF ExitToldOnce, Entered
<1>5. /\ DOMAIN Books = Alive \cup {None}
      /\ Books \in [DOMAIN Books -> Seq(Ended)]
      /\ Books[None] = reports
      /\ \A q \in Alive : Books[q] = rel_map[q].dead_children
  BY <1>2 DEF Books, ProcThreadRels
<1>6. /\ DOMAIN Books' = Alive' \cup {None}
      /\ Books'[None] = reports'
      /\ \A q \in Alive' : q # None => Books'[q] = rel_map'[q].dead_children
  BY DEF Books
\* A step that enters no exit.
<1>7. ASSUME DOMAIN rel_map' = Alive, UNCHANGED <<exited, reports>>, next_pid \in Int,
             next_pid' \in Int, next_pid <= next_pid',
             \A q \in Alive : rel_map'[q].dead_children = rel_map[q].dead_children
      PROVE  BookInv'
  <2>1. Alive' = Alive
    BY <1>7 DEF Alive
  <2>2. Books' = Books
    BY <1>2, <1>7, <2>1 DEF Books
  <2>3. \A p \in DOMAIN exited' : p < next_pid'
    BY <1>2, <1>3, <1>7, BoundAssumption DEF Pids
  <2> QED BY <1>1, <1>3, <1>4, <1>7, <2>1, <2>2, <2>3 DEF BookInv
<1>8. next_pid \in Int /\ next_pid' \in Int
  BY <1>1 DEF TreeInv, ThreadInv, TypeOK
<1>9. CASE Quiet
  BY <1>2, <1>7, <1>8, <1>9 DEF Quiet, procs, history
<1>10. ASSUME NEW t \in tasks, Fork(t) PROVE BookInv'
  <2>p. PICK p : p = Own(t)
    OBVIOUS
  <2>c. PICK c : c = next_pid
    OBVIOUS
  <2>1. /\ p \in Alive /\ c \in Pids /\ c \notin Alive /\ next_tid \in Tids
    BY <1>2, <1>10, <2>p, <2>c, BoundAssumption DEF Fork, ThreadInv, TypeOK, Pids, Tids, Own
  <2>2. ProcAdded(rel_map, rel_map', c, p, next_tid)
    <3>1. ProcAdded(rel_map, AddProc(rel_map, c, p, next_tid), c, p, next_tid)
      BY <1>2, <2>1, AddProcValue
    <3> QED BY <1>10, <2>p, <2>c, <3>1 DEF Fork
  <2>3. /\ Alive' = Alive \cup {c}
        /\ rel_map'[c].dead_children = <<>>
        /\ \A q \in Alive : rel_map'[q].dead_children = rel_map[q].dead_children
        /\ UNCHANGED <<exited, reports>> /\ next_pid' = next_pid + 1
    BY <1>2, <1>10, <2>2 DEF ProcAdded, Fork, history, Alive
  <2>4. \A x \in DOMAIN exited : exited[x].parent # c /\ x # c
    <3>1. ASSUME NEW x \in DOMAIN exited PROVE exited[x].parent # c /\ x # c
      <4>1. x \in Int /\ exited[x].parent \in Int
        BY <1>2, BoundAssumption DEF ThreadInv, TypeOK, Pids, None
      <4> QED BY <1>3, <1>8, <2>c, <4>1
    <3> QED BY <3>1
  <2>5. BooksRight(Books', exited)
    <3>1. c \notin DOMAIN Books /\ c # None
      BY <1>2, <1>5, <2>1
    <3>2. /\ DOMAIN Books' = DOMAIN Books \cup {c} /\ Books'[c] = <<>>
          /\ \A q \in DOMAIN Books : Books'[q] = Books[q]
      BY <1>2, <1>5, <1>6, <2>3, <3>1
    <3> QED BY <1>3, <2>4, <3>1, <3>2, BooksOpened
  <2>6. ExitToldOnce'
    BY <1>4, <2>3, <2>5
  <2>7. DOMAIN exited' \cap Alive' = {}
    BY <1>3, <2>3, <2>4
  <2>8. \A x \in DOMAIN exited' : x < next_pid' /\ exited'[x].parent < x
    BY <1>2, <1>3, <1>8, <2>3, BoundAssumption DEF Pids
  <2> QED BY <1>1, <2>6, <2>7, <2>8 DEF BookInv
<1>11. ASSUME NEW t \in tasks, Exec(t) PROVE BookInv'
  BY <1>2, <1>7, <1>8, <1>11 DEF Exec, history
<1>12. ASSUME NEW t \in tasks, ThreadCreate(t) PROVE BookInv'
  <2>1. Own(t) \in Alive /\ rel_map[Own(t)] \in ProcThreadRels
    BY <1>2 DEF Own
  <2> QED BY <1>2, <1>7, <1>8, <1>12, <2>1 DEF ThreadCreate, AddThread, history, ProcThreadRels
<1>13. ASSUME NEW t \in tasks, NEW u \in Tids, WaitTid(t, u) PROVE BookInv'
  <2>1. Own(t) \in Alive /\ rel_map[Own(t)] \in ProcThreadRels
    BY <1>2 DEF Own
  <2> QED BY <1>2, <1>7, <1>8, <1>13, <2>1 DEF WaitTid, history, ProcThreadRels
<1>14. ASSUME NEW t \in tasks, NEW i \in DOMAIN rel_map[Own(t)].dead_children, Report(t, i)
       PROVE  BookInv'
  <2>p. PICK p : p = Own(t)
    OBVIOUS
  <2>1. p \in Alive /\ rel_map[p] \in ProcThreadRels /\ p # None
    BY <1>2, <2>p DEF Own
  <2>2. /\ DOMAIN rel_map' = Alive
        /\ rel_map'[p].dead_children = RemoveAt(rel_map[p].dead_children, i)
        /\ \A q \in Alive \ {p} : rel_map'[q] = rel_map[q]
        /\ reports' = Append(reports, rel_map[p].dead_children[i])
        /\ UNCHANGED <<exited, next_pid>>
    BY <1>2, <1>14, <2>1, <2>p DEF Report, ProcThreadRels
  <2>3. Alive' = Alive
    BY <2>2 DEF Alive
  <2>4. BooksRight(Books', exited)
    <3>1. /\ DOMAIN Books' = DOMAIN Books /\ None \in DOMAIN Books /\ p \in DOMAIN Books
          /\ i \in DOMAIN Books[p]
          /\ Books'[p] = RemoveAt(Books[p], i) /\ Books'[None] = Append(Books[None], Books[p][i])
          /\ \A q \in DOMAIN Books : q # p /\ q # None => Books'[q] = Books[q]
      BY <1>2, <1>5, <1>6, <1>14, <2>1, <2>2, <2>3, <2>p
    <3> QED BY <1>3, <1>5, <2>1, <3>1, BooksMoved, ZenonT(40)
  <2> QED BY <1>1, <1>3, <1>4, <2>2, <2>3, <2>4 DEF BookInv
<1>15. ASSUME machine = "running", NEW t \in tasks, NEW code \in Codes, MakeCurrentExited(t, code)
       PROVE  BookInv'
  <2>p. PICK p : p = tid2pid[t]
    OBVIOUS
  <2>1. /\ p \in Alive /\ t \in Members(rel_map[p].threads)
        /\ UNCHANGED <<next_pid, reports>>
        /\ ThreadGone(t, p, code) \/ ProcessGone(t, p, code)
    BY <1>1, <1>15, <2>p, EndOfThread
  <2>2. CASE ThreadGone(t, p, code)
    <3> DEFINE left == DelThread(rel_map[p], t, code)
    <3>1. left.dead_children = rel_map[p].dead_children
      <4>1. rel_map[p] \in ProcThreadRels /\ Injective(rel_map[p].threads)
        BY <1>2, <2>1 DEF ThreadInv
      <4> QED BY <2>1, <4>1, DelThreadValue, ZenonT(40)
    <3> HIDE DEF left
    <3>2. rel_map' = [rel_map EXCEPT ![p] = left] /\ exited' = exited
      BY <2>2 DEF ThreadGone, left
    <3> QED BY <1>2, <1>7, <1>8, <2>1, <3>1, <3>2
  <2>3. CASE ProcessGone(t, p, code)
    <3>u. PICK up : up = rel_map[p].parent
      OBVIOUS
    <3>1. /\ Alive' = Alive \ {p} /\ p \notin DOMAIN exited /\ p # None
          /\ \A q \in Alive \ {p} :
               rel_map'[q].dead_children =
                 IF q = up THEN Append(rel_map[q].dead_children, [pid |-> p, code |-> code])
                 ELSE rel_map[q].dead_children
          /\ exited' = With(exited, p, [code |-> code, parent |-> up])
      BY <1>2, <1>3, <2>1, <2>3, <3>u DEF ProcessGone, Alive
    <3>2. up < p /\ up # p /\ p < next_pid
      <4>1. up < p /\ up \in Pids \cup {None} /\ p \in Nat
        BY <1>1, <1>15, <2>1, <3>u, ProcessFacts
      <4> QED BY <1>2, <2>1, <4>1, BoundAssumption DEF Pids, None
    <3>3. BooksRight(Books', exited')
      <4>e. PICK e : e = [pid |-> p, code |-> code]
        OBVIOUS
      <4>1. /\ p \in DOMAIN Books /\ e \in Ended
            /\ DOMAIN Books' = DOMAIN Books \ {p}
            /\ \A q \in DOMAIN Books \ {p} :
                 Books'[q] = IF q # None /\ q = up THEN Append(Books[q], e) ELSE Books[q]
        <5>1. p \in DOMAIN Books /\ e \in Ended
          BY <1>2, <1>5, <2>1, <4>e DEF Ended
        <5>2. DOMAIN Books' = DOMAIN Books \ {p}
          BY <1>5, <1>6, <3>1
        <5>3. Books'[None] = Books[None]
          BY <1>5, <1>6, <2>1
        <5>4. ASSUME NEW q \in Alive \ {p}
              PROVE  Books'[q] = IF q = up THEN Append(Books[q], e) ELSE Books[q]
          <6>1. q \in Alive' /\ q # None
            BY <1>2, <3>1
          <6>2. Books'[q] = rel_map'[q].dead_children /\ Books[q] = rel_map[q].dead_children
            BY <1>5, <1>6, <6>1
          <6> QED BY <3>1, <4>e, <6>2
        <5> QED BY <1>2, <1>5, <5>1, <5>2, <5>3, <5>4
      <4>2. BooksRight(Books', With(exited, p, [code |-> code, parent |-> up]))
        BY <1>3, <1>5, <3>1, <3>2, <4>e, <4>1, BooksClosed, ZenonT(40)
      <4> QED BY <3>1, <4>2
    <3>4. DOMAIN exited' \cap Alive' = {}
      BY <1>3, <3>1 DEF With
    <3>5. \A x \in DOMAIN exited' : x < next_pid' /\ exited'[x].parent < x
      BY <1>3, <2>1, <3>1, <3>2 DEF With
    <3> QED BY <1>1, <1>4, <3>3, <3>4, <3>5 DEF BookInv
  <2> QED BY <2>1, <2>2, <2>3
<1> QED BY <1>2, <1>9, <1>10, <1>11, <1>12, <1>13, <1>14, <1>15, Steps DEF Changes

LEMMA BookInit ==
  ASSUME Init
  PROVE  BookInv
<1>1. TreeInv
  BY TreeInit
<1>2. /\ Alive = {InitPid} /\ rel_map[InitPid].dead_children = <<>>
      /\ reports = <<>> /\ exited = <<>>
  BY InitialProcess DEF Init
<1>3. DOMAIN Books = {InitPid, None} /\ \A q \in DOMAIN Books : Books[q] = <<>>
  BY <1>2 DEF Books
<1>4. BooksRight(Books, exited)
  <2>1. DOMAIN <<>> = {}
    OBVIOUS
  <2> QED BY <1>2, <1>3, <2>1 DEF BooksRight
<1>5. Alive = DOMAIN Books \ {None}
  BY <1>2, <1>3 DEF InitPid, None
<1>6. ExitToldOnce
  BY <1>4, <1>5, ToldOnce DEF ExitToldOnce, Entered
<1> QED BY <1>1, <1>2, <1>6 DEF BookInv

LEMMA AlwaysBooks == Spec => []BookInv
<1>1. Init => BookInv
  BY BookInit
<1>2. BookInv /\ [Next]_vars => BookInv'
  BY BookStep
<1> QED BY <1>1, <1>2, PTL DEF Spec

\* An exit is told at most once, with the code the process ended with, to the process that
\* was its parent then, and is kept for it as long as it lives: del_proc enters it, wait
\* takes it out, and no adoption hands it to anybody else.
THEOREM ExitIsToldOnce == Spec => []ExitToldOnce
<1>1. BookInv => ExitToldOnce
  BY DEF BookInv
<1> QED BY <1>1, AlwaysBooks, PTL

----------------------------------------------------------------------------
\* Address spaces.

LEMMA SpaceStep ==
  ASSUME TreeInv, [Next]_vars, OneAddressSpace
  PROVE  OneAddressSpace' \/ \E t \in Tids : Exec(t) /\ ~SingleThreaded(t)
<1>1. /\ ThreadInv /\ DOMAIN tid2pid = tasks /\ tasks \subseteq Tids
      /\ satp \in [tasks -> Pids] /\ tid2pid \in [tasks -> Pids] /\ space \in [Alive -> Pids]
      /\ \A t \in tasks : tid2pid[t] \in Alive /\ t < next_tid /\ t \in Int
      /\ \A p \in Alive : p < next_pid /\ p \in Int
      /\ \A p \in Alive : Members(rel_map[p].threads) = {u \in tasks : tid2pid[u] = p}
  <2>1. ThreadInv /\ TypeOK /\ ThreadsConsistent
    BY DEF TreeInv, ThreadInv
  <2> QED BY <2>1, BoundAssumption DEF ThreadInv, ThreadsConsistent, TypeOK, Alive, Pids, Tids
<1>2. \A t \in tasks : satp[t] = space[tid2pid[t]]
  BY DEF OneAddressSpace
<1>3. CASE UNCHANGED <<tasks, satp, space, tid2pid>>
  BY <1>2, <1>3 DEF OneAddressSpace
<1>4. ASSUME NEW t \in tasks, Fork(t) PROVE OneAddressSpace'
  <2>1. next_tid \notin tasks /\ next_pid \notin Alive /\ next_tid \in Int /\ next_pid \in Int
    BY <1>1 DEF ThreadInv, TypeOK
  <2>2. /\ tasks' = tasks \cup {next_tid}
        /\ tid2pid' = With(tid2pid, next_tid, next_pid)
        /\ satp' = With(satp, next_tid, next_pid)
        /\ space' = With(space, next_pid, next_pid)
    BY <1>4 DEF Fork, Add
  <2>3. ASSUME NEW u \in tasks' PROVE satp'[u] = space'[tid2pid'[u]]
    <3>1. CASE u = next_tid
      BY <2>2, <3>1 DEF With
    <3>2. CASE u \in tasks
      <4>1. tid2pid'[u] = tid2pid[u] /\ satp'[u] = satp[u]
        BY <1>1, <2>1, <2>2, <3>2 DEF With
      <4>2. space'[tid2pid[u]] = space[tid2pid[u]]
        BY <1>1, <2>1, <2>2, <3>2 DEF With
      <4> QED BY <1>2, <3>2, <4>1, <4>2
    <3> QED BY <2>2, <3>1, <3>2
  <2> QED BY <2>3 DEF OneAddressSpace
<1>5. ASSUME NEW t \in tasks, Exec(t), SingleThreaded(t) PROVE OneAddressSpace'
  <2>p. PICK p : p = Own(t)
    OBVIOUS
  <2>1. p \in Alive /\ p = tid2pid[t]
    BY <1>1, <2>p DEF Own
  <2>2. /\ UNCHANGED <<tasks, tid2pid>>
        /\ space' = [space EXCEPT ![p] = next_pid]
        /\ satp' = [satp EXCEPT ![t] = next_pid]
    <3>1. MainThread(p) = t
      BY <1>5, <2>p DEF SingleThreaded, MainThread
    <3> QED BY <1>5, <2>p, <3>1 DEF Exec
  <2>3. \A u \in tasks : tid2pid[u] = p => u = t
    <3>1. Members(<<t>>) = {t}
      BY DEF Members
    <3> QED BY <1>1, <1>5, <2>1, <2>p, <3>1 DEF SingleThreaded
  <2>4. ASSUME NEW u \in tasks PROVE satp'[u] = space'[tid2pid[u]]
    <3>1. CASE u = t
      BY <1>1, <2>1, <2>2, <3>1
    <3>2. CASE u # t
      BY <1>1, <1>2, <2>1, <2>2, <2>3, <3>2
    <3> QED BY <3>1, <3>2
  <2> QED BY <2>2, <2>4 DEF OneAddressSpace
<1>6. ASSUME NEW t \in tasks, ThreadCreate(t) PROVE OneAddressSpace'
  <2>1. next_tid \notin tasks /\ next_tid \in Int
    BY <1>1 DEF ThreadInv, TypeOK
  <2>2. /\ tasks' = tasks \cup {next_tid} /\ space' = space
        /\ tid2pid' = With(tid2pid, next_tid, Own(t))
        /\ satp' = With(satp, next_tid, space[Own(t)])
    BY <1>6 DEF ThreadCreate, Add
  <2>3. ASSUME NEW u \in tasks' PROVE satp'[u] = space'[tid2pid'[u]]
    BY <1>1, <1>2, <2>1, <2>2 DEF With
  <2> QED BY <2>3 DEF OneAddressSpace
<1>7. ASSUME machine = "running", NEW t \in tasks, NEW code \in Codes, MakeCurrentExited(t, code)
      PROVE  OneAddressSpace'
  <2>p. PICK p : p = tid2pid[t]
    OBVIOUS
  <2>1. /\ p \in Alive /\ t \in Members(rel_map[p].threads)
        /\ tasks' = tasks \ {t}
        /\ tid2pid' = Without(tid2pid, t) /\ satp' = Without(satp, t)
        /\ ThreadGone(t, p, code) \/ ProcessGone(t, p, code)
    BY <1>7, <2>p, EndOfThread
  <2>2. \A u \in tasks' : tid2pid'[u] = tid2pid[u] /\ satp'[u] = satp[u]
    BY <1>1, <2>1 DEF Without, Restrict
  <2>3. \A u \in tasks' : space'[tid2pid[u]] = space[tid2pid[u]]
    <3>1. CASE ThreadGone(t, p, code)
      BY <3>1 DEF ThreadGone
    <3>2. CASE ProcessGone(t, p, code)
      <4>1. \A u \in tasks' : tid2pid[u] # p /\ tid2pid[u] \in Alive
        BY <1>1, <2>1, <3>2 DEF ProcessGone
      <4>2. space' = Without(space, p)
        BY <3>2 DEF ProcessGone
      <4> QED BY <1>1, <4>1, <4>2 DEF Without, Restrict
    <3> QED BY <2>1, <3>1, <3>2
  <2> QED BY <1>2, <2>1, <2>2, <2>3 DEF OneAddressSpace
<1>8. Quiet => UNCHANGED <<tasks, satp, space, tid2pid>>
  BY DEF Quiet, procs
<1>9. ASSUME NEW t \in tasks, Changes(t)
      PROVE  OneAddressSpace' \/ \E u \in Tids : Exec(u) /\ ~SingleThreaded(u)
  <2>1. CASE Exec(t)
    BY <1>1, <1>5, <2>1
  <2>2. CASE \/ \E i \in DOMAIN rel_map[Own(t)].dead_children : Report(t, i)
             \/ \E u \in Tids : WaitTid(t, u)
    BY <1>3, <2>2 DEF Report, WaitTid
  <2> QED BY <1>4, <1>6, <1>9, <2>1, <2>2 DEF Changes
<1> QED BY <1>1, <1>3, <1>7, <1>8, <1>9, Steps

\* Every thread runs on the address space of its process until a process of several
\* threads calls exec, which moves the main thread alone: fork, thread_create, the end of
\* a thread and the hand-over of children never part them.
THEOREM SpacesPartNowhereElse == Spec => SpacesPartOnlyInExec
<1>1. TreeInv /\ [Next]_vars =>
        [OneAddressSpace => OneAddressSpace' \/ \E t \in Tids : Exec(t) /\ ~SingleThreaded(t)]_vars
  BY SpaceStep
<1> QED BY <1>1, AlwaysTree, PTL DEF Spec, SpacesPartOnlyInExec

----------------------------------------------------------------------------
\* TaskManager implements ProcessFamily.

\* What the records say of zombies, and the views in these terms.
Zombies(rm) ==
  {x \in Pids : \E q \in DOMAIN rm : \E i \in DOMAIN rm[q].dead_children :
                  rm[q].dead_children[i].pid = x}

WaiterIn(rm, x) == CHOOSE q \in DOMAIN rm : \E e \in Members(rm[q].dead_children) : e.pid = x

PhaseOf(A, Z, n) ==
  [x \in Pids |-> IF x \in A THEN "running" ELSE IF x \in Z THEN "zombie"
                  ELSE IF x < n THEN "gone" ELSE "unborn"]
ParentOf(rm, Z, E) ==
  [x \in Pids |-> IF x \in DOMAIN rm THEN rm[x].parent
                  ELSE IF x \in Z THEN E[x].parent ELSE None]
CodeOf(Z, E) == [x \in Pids |-> IF x \in Z THEN E[x].code ELSE 0]

\* Each zombie is in the book of the process that was its parent when it ended.
BooksOfParents(rm, E) ==
  \A q \in DOMAIN rm : \A e \in Members(rm[q].dead_children) :
    e.pid \in DOMAIN E /\ q = E[e.pid].parent

ZombiesTold(rm, E) ==
  /\ \A x \in Pids : (\E q \in DOMAIN rm : \E e \in Members(rm[q].dead_children) : e.pid = x)
                     <=> x \in Zombies(rm)
  /\ \A x \in Zombies(rm) :
       x \in DOMAIN E /\ E[x].parent \in DOMAIN rm /\ WaiterIn(rm, x) = E[x].parent

LEMMA BooksTellZombies ==
  ASSUME NEW rm, NEW E, BooksOfParents(rm, E)
  PROVE  ZombiesTold(rm, E)
<1>1. ASSUME NEW x \in Pids
      PROVE  (\E q \in DOMAIN rm : \E e \in Members(rm[q].dead_children) : e.pid = x)
               <=> x \in Zombies(rm)
  BY DEF Members, Zombies
<1>2. ASSUME NEW x \in Zombies(rm)
      PROVE  x \in DOMAIN E /\ E[x].parent \in DOMAIN rm /\ WaiterIn(rm, x) = E[x].parent
  <2>1. x \in Pids
    BY DEF Zombies
  <2>2. \E q \in DOMAIN rm : \E e \in Members(rm[q].dead_children) : e.pid = x
    BY <1>1, <2>1
  <2>3. \A q \in DOMAIN rm : (\E e \in Members(rm[q].dead_children) : e.pid = x)
                             => x \in DOMAIN E /\ q = E[x].parent
    BY DEF BooksOfParents
  <2> QED BY <2>2, <2>3 DEF WaiterIn
<1> QED BY <1>1, <1>2 DEF ZombiesTold

LEMMA Views ==
  ASSUME TreeInv, ExitToldOnce
  PROVE  /\ PhaseView = PhaseOf(Alive, Zombies(rel_map), next_pid)
         /\ ParentView = ParentOf(rel_map, Zombies(rel_map), exited)
         /\ CodeView = CodeOf(Zombies(rel_map), exited)
         /\ \A x \in Zombies(rel_map) : x \in DOMAIN exited /\ exited[x].parent \in Alive
<1>1. BooksOfParents(rel_map, exited)
  <2>1. \A q \in Alive : q # None /\ q \in DOMAIN Books /\ Books[q] = rel_map[q].dead_children
    BY BoundAssumption DEF TreeInv, ThreadInv, TypeOK, Alive, Pids, None, Books
  <2> QED BY <2>1 DEF ExitToldOnce, Alive, BooksOfParents
<1>2. /\ \A x \in Pids : Zombie(x) <=> x \in Zombies(rel_map)
      /\ \A x \in Zombies(rel_map) : /\ x \in DOMAIN exited /\ exited[x].parent \in Alive
                                  /\ WaiterOf(x) = exited[x].parent
  <2>1. ZombiesTold(rel_map, exited)
    BY <1>1, BooksTellZombies
  <2>2. \A x \in Pids : Zombie(x) <=> x \in Zombies(rel_map)
    BY <2>1 DEF Zombie, Alive, ZombiesTold
  <2>3. \A x : WaiterOf(x) = WaiterIn(rel_map, x)
    BY DEF WaiterOf, WaiterIn, Alive
  <2>4. \A x \in Zombies(rel_map) : /\ x \in DOMAIN exited /\ exited[x].parent \in Alive
                                /\ WaiterOf(x) = exited[x].parent
    BY <2>1, <2>3 DEF ZombiesTold, Alive
  <2> QED BY <2>2, <2>4
<1> QED BY <1>2 DEF PhaseView, ParentView, CodeView, PhaseOf, ParentOf, CodeOf, Alive

LEMMA ViewsAfter ==
  ASSUME TreeInv', ExitToldOnce'
  PROVE  /\ PhaseView' = PhaseOf(Alive', Zombies(rel_map'), next_pid')
         /\ ParentView' = ParentOf(rel_map', Zombies(rel_map'), exited')
         /\ CodeView' = CodeOf(Zombies(rel_map'), exited')
<1>1. BooksOfParents(rel_map', exited')
  <2>1. \A q \in Alive' : q # None /\ q \in DOMAIN Books' /\ Books'[q] = rel_map'[q].dead_children
    BY BoundAssumption DEF TreeInv, ThreadInv, TypeOK, Alive, Pids, None, Books
  <2> QED BY <2>1 DEF ExitToldOnce, Alive, BooksOfParents
<1>2. /\ \A x \in Pids : Zombie(x)' <=> x \in Zombies(rel_map')
      /\ \A x \in Zombies(rel_map') : /\ x \in DOMAIN exited' /\ exited'[x].parent \in Alive'
                                  /\ WaiterOf(x)' = exited'[x].parent
  <2>1. ZombiesTold(rel_map', exited')
    BY <1>1, BooksTellZombies
  <2>2. \A x \in Pids : Zombie(x)' <=> x \in Zombies(rel_map')
    BY <2>1 DEF Zombie, Alive, ZombiesTold
  <2>3. \A x : WaiterOf(x)' = WaiterIn(rel_map', x)
    BY DEF WaiterOf, WaiterIn, Alive
  <2>4. \A x \in Zombies(rel_map') : /\ x \in DOMAIN exited' /\ exited'[x].parent \in Alive'
                                /\ WaiterOf(x)' = exited'[x].parent
    BY <2>1, <2>3 DEF ZombiesTold, Alive
  <2> QED BY <2>2, <2>4
<1> QED BY <1>2 DEF PhaseView, ParentView, CodeView, PhaseOf, ParentOf, CodeOf, Alive

\* The last entry for a process that leaves a book is the only one.
LEMMA ZombieReported ==
  ASSUME BookInv, NEW p \in Alive, NEW i \in DOMAIN rel_map[p].dead_children,
         NEW rm, DOMAIN rm = Alive,
         rm[p].dead_children = RemoveAt(rel_map[p].dead_children, i),
         \A q \in Alive \ {p} : rm[q].dead_children = rel_map[q].dead_children
  PROVE  /\ rel_map[p].dead_children[i].pid \in Zombies(rel_map)
         /\ exited[rel_map[p].dead_children[i].pid].parent = p
         /\ Zombies(rm) = Zombies(rel_map) \ {rel_map[p].dead_children[i].pid}
<1> DEFINE dead == rel_map[p].dead_children
           x == dead[i].pid
<1>1. /\ rel_map \in [Alive -> ProcThreadRels] /\ Alive = DOMAIN rel_map
      /\ None \notin Alive
  BY BoundAssumption DEF BookInv, TreeInv, ThreadInv, TypeOK, Alive, Pids, None
<1>2. \A q \in Alive : rel_map[q].dead_children \in Seq(Ended)
  BY <1>1 DEF ProcThreadRels
<1>3. /\ dead \in Seq(Ended) /\ x \in Pids /\ Len(dead) \in Nat
      /\ DOMAIN dead = 1 .. Len(dead) /\ i \in 1 .. Len(dead)
  <2>1. dead \in Seq(Ended) /\ i \in DOMAIN dead
    BY <1>2
  <2>2. dead[i] \in Ended
    BY <2>1
  <2> QED BY <2>1, <2>2 DEF Ended
<1>4. /\ \A q, r \in Alive : \A j \in DOMAIN rel_map[q].dead_children, k \in DOMAIN rel_map[r].dead_children :
           rel_map[q].dead_children[j].pid = rel_map[r].dead_children[k].pid => q = r /\ j = k
      /\ exited[x].parent = p
  <2>1. BooksRight(Books, exited)
    <3>1. Alive = DOMAIN Books \ {None}
      BY <1>1 DEF Books
    <3> QED BY <3>1, ToldOnce DEF BookInv, ExitToldOnce, Entered
  <2>2. \A q \in Alive : q \in DOMAIN Books /\ Books[q] = rel_map[q].dead_children /\ q # None
    BY <1>1 DEF Books
  <2> QED BY <2>1, <2>2 DEF BooksRight
<1>5. x \in Zombies(rel_map)
  BY <1>1, <1>3 DEF Zombies
<1>6. /\ DOMAIN rm[p].dead_children = 1 .. Len(dead) - 1
      /\ \A j \in 1 .. Len(dead) - 1 : rm[p].dead_children[j] = dead[IF j < i THEN j ELSE j + 1]
  <2>1. /\ RemoveAt(dead, i) \in Seq(Ended) /\ Len(RemoveAt(dead, i)) = Len(dead) - 1
        /\ \A j \in 1 .. Len(dead) - 1 : RemoveAt(dead, i)[j] = dead[IF j < i THEN j ELSE j + 1]
    BY <1>3, RemoveAtProperties
  <2> QED BY <2>1
<1>7. ASSUME NEW y \in Zombies(rm) PROVE y \in Zombies(rel_map) \ {x}
  <2>1. PICK q \in Alive : \E j \in DOMAIN rm[q].dead_children : rm[q].dead_children[j].pid = y
    BY DEF Zombies
  <2>2. PICK j \in DOMAIN rm[q].dead_children : rm[q].dead_children[j].pid = y
    BY <2>1
  <2>3. PICK k \in DOMAIN rel_map[q].dead_children :
          rel_map[q].dead_children[k].pid = y /\ (q = p => k # i)
    <3>1. CASE q = p
      <4>1. (IF j < i THEN j ELSE j + 1) \in 1 .. Len(dead) /\ (IF j < i THEN j ELSE j + 1) # i
        BY <1>3, <1>6, <2>2, <3>1
      <4> QED BY <1>3, <1>6, <2>2, <3>1, <4>1
    <3>2. CASE q # p
      BY <2>2, <3>2
    <3> QED BY <3>1, <3>2
  <2>4. y # x
    BY <1>4, <2>3
  <2> QED BY <1>1, <2>3, <2>4 DEF Zombies
<1>8. ASSUME NEW y \in Zombies(rel_map), y # x PROVE y \in Zombies(rm)
  <2>1. PICK q \in Alive : \E j \in DOMAIN rel_map[q].dead_children : rel_map[q].dead_children[j].pid = y
    BY <1>1 DEF Zombies
  <2>2. PICK j \in DOMAIN rel_map[q].dead_children : rel_map[q].dead_children[j].pid = y
    BY <2>1
  <2>3. \E k \in DOMAIN rm[q].dead_children : rm[q].dead_children[k].pid = y
    <3>1. CASE q = p
      <4> DEFINE k == IF j < i THEN j ELSE j - 1
      <4>1. j # i /\ j \in 1 .. Len(dead)
        BY <1>3, <1>8, <2>2, <3>1
      <4>2. k \in 1 .. Len(dead) - 1 /\ (IF k < i THEN k ELSE k + 1) = j
        BY <1>3, <2>2, <3>1, <4>1
      <4>3. rm[p].dead_children[k] = dead[j]
        BY <1>6, <4>2
      <4> HIDE DEF k
      <4> QED BY <1>6, <2>2, <3>1, <4>2, <4>3
    <3>2. CASE q # p
      BY <2>2, <3>2
    <3> QED BY <3>1, <3>2
  <2> QED BY <2>3 DEF Zombies
<1> QED BY <1>4, <1>5, <1>7, <1>8

\* A process that ends takes its zombies with it, and is one if its parent lives.
LEMMA ZombiesOfEnded ==
  ASSUME BookInv, NEW p \in Alive, NEW up, up # p, NEW code \in Codes,
         NEW rm, DOMAIN rm = Alive \ {p},
         \A q \in Alive \ {p} :
           rm[q].dead_children =
             IF q = up THEN Append(rel_map[q].dead_children, [pid |-> p, code |-> code])
             ELSE rel_map[q].dead_children
  PROVE  Zombies(rm) = {x \in Zombies(rel_map) : exited[x].parent # p}
                         \cup (IF up \in Alive THEN {p} ELSE {})
<1>1. /\ rel_map \in [Alive -> ProcThreadRels] /\ Alive = DOMAIN rel_map
      /\ None \notin Alive /\ p \in Pids
  BY BoundAssumption DEF BookInv, TreeInv, ThreadInv, TypeOK, Alive, Pids, None
<1>2. \A q \in Alive : rel_map[q].dead_children \in Seq(Ended)
  BY <1>1 DEF ProcThreadRels
<1>3. \A q \in Alive : \A j \in DOMAIN rel_map[q].dead_children :
        exited[rel_map[q].dead_children[j].pid].parent = q
  <2>1. BooksRight(Books, exited)
    <3>1. Alive = DOMAIN Books \ {None}
      BY <1>1 DEF Books
    <3> QED BY <3>1, ToldOnce DEF BookInv, ExitToldOnce, Entered
  <2>2. \A q \in Alive : q \in DOMAIN Books /\ Books[q] = rel_map[q].dead_children /\ q # None
    BY <1>1 DEF Books
  <2> QED BY <2>1, <2>2 DEF BooksRight
<1>e. PICK e : e = [pid |-> p, code |-> code]
  OBVIOUS
<1>4. e.pid = p /\ e \in Ended
  BY <1>1, <1>e DEF Ended
<1>5. ASSUME NEW q \in Alive \ {p}, NEW y
      PROVE  (\E j \in DOMAIN rm[q].dead_children : rm[q].dead_children[j].pid = y)
             <=> \/ \E j \in DOMAIN rel_map[q].dead_children : rel_map[q].dead_children[j].pid = y
                 \/ q = up /\ y = p
  <2>1. CASE q = up
    <3>1. Members(Append(rel_map[q].dead_children, e)) = Members(rel_map[q].dead_children) \cup {e}
      BY <1>2, <1>4, AppendMembers
    <3>2. rm[q].dead_children = Append(rel_map[q].dead_children, e)
      BY <1>e, <2>1
    <3> QED BY <1>4, <2>1, <3>1, <3>2 DEF Members
  <2>2. CASE q # up
    BY <2>2
  <2> QED BY <2>1, <2>2
<1>6. ASSUME NEW y \in Zombies(rm)
      PROVE  \/ y \in Zombies(rel_map) /\ exited[y].parent # p
             \/ up \in Alive /\ y = p
  <2>1. PICK q \in Alive \ {p} : \E j \in DOMAIN rm[q].dead_children : rm[q].dead_children[j].pid = y
    BY DEF Zombies
  <2>2. \/ \E j \in DOMAIN rel_map[q].dead_children : rel_map[q].dead_children[j].pid = y
        \/ q = up /\ y = p
    BY <1>5, <2>1
  <2>3. y \in Pids
    BY DEF Zombies
  <2>4. ASSUME NEW j \in DOMAIN rel_map[q].dead_children, rel_map[q].dead_children[j].pid = y
        PROVE  y \in Zombies(rel_map) /\ exited[y].parent # p
    BY <1>1, <1>3, <2>3, <2>4 DEF Zombies
  <2> QED BY <2>2, <2>4
<1>7. ASSUME NEW y \in Zombies(rel_map), exited[y].parent # p PROVE y \in Zombies(rm)
  <2>1. PICK q \in Alive : \E j \in DOMAIN rel_map[q].dead_children : rel_map[q].dead_children[j].pid = y
    BY <1>1 DEF Zombies
  <2>2. q # p
    BY <1>3, <1>7, <2>1
  <2>3. \E j \in DOMAIN rm[q].dead_children : rm[q].dead_children[j].pid = y
    BY <1>5, <2>1, <2>2
  <2>4. q \in DOMAIN rm /\ y \in Pids
    BY <2>2 DEF Zombies
  <2> QED BY <2>3, <2>4 DEF Zombies
<1>8. ASSUME up \in Alive PROVE p \in Zombies(rm)
  BY <1>1, <1>5, <1>8 DEF Zombies
<1> QED BY <1>6, <1>7, <1>8

LEMMA FamilyStep ==
  ASSUME BookInv, [Next]_vars
  PROVE  [Family!Next]_(Family!vars)
<1>1. /\ TreeInv /\ ExitToldOnce /\ TreeInv' /\ ExitToldOnce'
      /\ ThreadInv /\ None \notin Pids
      /\ Alive \subseteq Pids /\ rel_map \in [Alive -> ProcThreadRels] /\ Alive = DOMAIN rel_map
      /\ \A t \in tasks : tid2pid[t] \in Alive
      /\ \A p \in Alive : p < next_pid
      /\ next_pid \in Int /\ next_pid' \in Int
  <2>1. TreeInv /\ ExitToldOnce /\ TreeInv' /\ ExitToldOnce' /\ ThreadInv
    BY BookStep DEF BookInv, TreeInv
  <2>2. None \notin Pids
    BY BoundAssumption DEF None, Pids
  <2>3. TypeOK /\ ThreadsConsistent /\ next_pid' \in Int
    BY <2>1 DEF TreeInv, ThreadInv, TypeOK
  <2> QED BY <2>1, <2>2, <2>3 DEF ThreadInv, ThreadsConsistent, TypeOK, Alive
<1>z. PICK Z : Z = Zombies(rel_map)
  OBVIOUS
<1>y. PICK Z1 : Z1 = Zombies(rel_map')
  OBVIOUS
<1>2. /\ PhaseView = PhaseOf(Alive, Z, next_pid)
      /\ ParentView = ParentOf(rel_map, Z, exited)
      /\ CodeView = CodeOf(Z, exited)
      /\ PhaseView' = PhaseOf(Alive', Z1, next_pid')
      /\ ParentView' = ParentOf(rel_map', Z1, exited')
      /\ CodeView' = CodeOf(Z1, exited')
  BY <1>1, <1>z, <1>y, Views, ViewsAfter
<1>3. /\ Z \subseteq Pids
      /\ \A x \in Z : /\ x \in DOMAIN exited /\ x \notin Alive /\ x < next_pid
                      /\ exited[x].parent \in Alive
  <2>1. \A x \in Z : x \in Pids /\ x \in DOMAIN exited /\ exited[x].parent \in Alive
    BY <1>1, <1>z, Views DEF Zombies
  <2> QED BY <2>1 DEF BookInv
\* A step that touches neither parents nor books.
<1>4. ASSUME DOMAIN rel_map' = Alive, UNCHANGED <<exited, next_pid>>,
             \A q \in Alive : /\ rel_map'[q].parent = rel_map[q].parent
                             /\ rel_map'[q].dead_children = rel_map[q].dead_children
      PROVE  UNCHANGED Family!vars
  <2>1. Z1 = Z
    BY <1>1, <1>4, <1>z, <1>y DEF Zombies
  <2>2. Alive' = Alive
    BY <1>4 DEF Alive
  <2>3. ParentOf(rel_map', Z1, exited') = ParentOf(rel_map, Z, exited)
    BY <1>1, <1>4, <2>1 DEF ParentOf
  <2> QED BY <1>2, <1>4, <2>1, <2>2, <2>3 DEF Family!vars
<1>5. CASE Quiet
  BY <1>1, <1>4, <1>5 DEF Quiet, procs, history
<1>6. ASSUME NEW t \in tasks, Fork(t) PROVE Family!Next
  <2>p. PICK p : p = Own(t)
    OBVIOUS
  <2>c. PICK c : c = next_pid
    OBVIOUS
  <2>1. /\ p \in Alive /\ c \in Pids /\ c \notin Alive /\ c \notin Z /\ next_tid \in Tids
    BY <1>1, <1>3, <1>6, <2>p, <2>c, BoundAssumption DEF Fork, ThreadInv, TypeOK, Pids, Tids, Own
  <2>2. ProcAdded(rel_map, rel_map', c, p, next_tid)
    <3>1. ProcAdded(rel_map, AddProc(rel_map, c, p, next_tid), c, p, next_tid)
      BY <1>1, <2>1, AddProcValue
    <3> QED BY <1>6, <2>p, <2>c, <3>1 DEF Fork
  <2>3. /\ Alive' = Alive \cup {c} /\ DOMAIN rel_map' = Alive \cup {c}
        /\ rel_map'[c].dead_children = <<>> /\ rel_map'[c].parent = p
        /\ \A q \in Alive : /\ rel_map'[q].dead_children = rel_map[q].dead_children
                            /\ rel_map'[q].parent = rel_map[q].parent
        /\ exited' = exited /\ next_pid' = c + 1 /\ c \in Int
    BY <1>1, <1>6, <2>2, <2>c DEF ProcAdded, Fork, history, Alive
  <2>4. Z1 = Z
    <3>1. DOMAIN <<>> = {}
      OBVIOUS
    <3> QED BY <1>1, <1>z, <1>y, <2>3, <3>1 DEF Zombies
  <2>5. PhaseOf(Alive', Z1, next_pid') = [PhaseOf(Alive, Z, c) EXCEPT ![c] = "running"]
    <3>1. \A x \in Pids : x # c => (x < c <=> x < c + 1)
      BY <2>3, BoundAssumption DEF Pids
    <3> QED BY <2>1, <2>3, <2>4, <3>1 DEF PhaseOf
  <2>6. ParentOf(rel_map', Z1, exited') = [ParentOf(rel_map, Z, exited) EXCEPT ![c] = p]
    BY <1>1, <2>1, <2>3, <2>4 DEF ParentOf
  <2>7. PhaseView[p] = "running" /\ PhaseView[c] = "unborn" /\ p \in Pids
    BY <1>1, <1>2, <2>1, <2>c, <2>3 DEF PhaseOf
  <2>8. Family!Fork(p, c)
    BY <1>2, <2>3, <2>4, <2>5, <2>6, <2>7, <2>c DEF Family!Fork, Family!Running
  <2> QED BY <2>1, <2>7, <2>8 DEF Family!Next
<1>7. ASSUME NEW t \in tasks, Exec(t) PROVE Family!Next
  <2>c. PICK c : c = next_pid
    OBVIOUS
  <2>1. /\ c \in Pids /\ c \notin Alive /\ c \notin Z /\ c \in Int
        /\ UNCHANGED <<rel_map, exited>> /\ next_pid' = c + 1
    BY <1>1, <1>3, <1>7, <2>c, BoundAssumption DEF Exec, ThreadInv, TypeOK, Pids, history
  <2>2. Z1 = Z /\ Alive' = Alive
    BY <1>z, <1>y, <2>1 DEF Alive
  <2>3. PhaseOf(Alive', Z1, next_pid') = [PhaseOf(Alive, Z, c) EXCEPT ![c] = "gone"]
    <3>1. c < c + 1 /\ \A x \in Pids : x # c => (x < c <=> x < c + 1)
      BY <2>1, BoundAssumption DEF Pids
    <3>2. PhaseOf(Alive, Z, c + 1) = [PhaseOf(Alive, Z, c) EXCEPT ![c] = "gone"]
      BY <2>1, <3>1 DEF PhaseOf
    <3> QED BY <2>1, <2>2, <3>2
  <2>4. PhaseView[c] = "unborn"
    BY <1>2, <2>1, <2>c DEF PhaseOf
  <2>5. Family!Skip(c)
    BY <1>2, <2>1, <2>2, <2>3, <2>4, <2>c DEF Family!Skip
  <2> QED BY <2>1, <2>5 DEF Family!Next
<1>8. ASSUME NEW t \in tasks, ThreadCreate(t) PROVE UNCHANGED Family!vars
  <2>1. Own(t) \in Alive /\ rel_map[Own(t)] \in ProcThreadRels
    BY <1>1 DEF Own
  <2> QED BY <1>1, <1>4, <1>8, <2>1 DEF ThreadCreate, AddThread, history, ProcThreadRels
<1>9. ASSUME NEW t \in tasks, NEW u \in Tids, WaitTid(t, u) PROVE UNCHANGED Family!vars
  <2>1. Own(t) \in Alive /\ rel_map[Own(t)] \in ProcThreadRels
    BY <1>1 DEF Own
  <2> QED BY <1>1, <1>4, <1>9, <2>1 DEF WaitTid, history, ProcThreadRels
<1>10. ASSUME NEW t \in tasks, NEW i \in DOMAIN rel_map[Own(t)].dead_children, Report(t, i)
       PROVE  Family!Next
  <2>p. PICK p : p = Own(t)
    OBVIOUS
  <2>c. PICK c : c = rel_map[p].dead_children[i].pid
    OBVIOUS
  <2>1. p \in Alive /\ rel_map[p] \in ProcThreadRels
    BY <1>1, <2>p DEF Own
  <2>2. /\ DOMAIN rel_map' = Alive
        /\ rel_map'[p].dead_children = RemoveAt(rel_map[p].dead_children, i)
        /\ \A q \in Alive \ {p} : rel_map'[q].dead_children = rel_map[q].dead_children
        /\ \A q \in Alive : rel_map'[q].parent = rel_map[q].parent
        /\ UNCHANGED <<exited, next_pid>>
    BY <1>1, <1>10, <2>1, <2>p DEF Report, ProcThreadRels
  <2>3. Alive' = Alive
    BY <2>2 DEF Alive
  <2>4. c \in Z /\ exited[c].parent = p /\ Z1 = Z \ {c}
    BY <1>10, <1>z, <1>y, <2>1, <2>2, <2>p, <2>c, ZombieReported
  <2>5. PhaseOf(Alive', Z1, next_pid') = [PhaseOf(Alive, Z, next_pid) EXCEPT ![c] = "gone"]
    BY <1>3, <2>2, <2>3, <2>4 DEF PhaseOf
  <2>6. ParentOf(rel_map', Z1, exited') = [ParentOf(rel_map, Z, exited) EXCEPT ![c] = None]
    BY <1>1, <1>3, <2>2, <2>4 DEF ParentOf
  <2>7. CodeOf(Z1, exited') = [CodeOf(Z, exited) EXCEPT ![c] = 0]
    BY <2>2, <2>4 DEF CodeOf
  <2>8. PhaseView[c] = "zombie" /\ ParentView[c] = p /\ PhaseView[p] = "running" /\ c \in Pids /\ p \in Pids
    BY <1>1, <1>2, <1>3, <2>1, <2>4 DEF PhaseOf, ParentOf
  <2>9. Family!Wait(c)
    BY <1>2, <2>5, <2>6, <2>7, <2>8 DEF Family!Wait, Family!Running
  <2> QED BY <2>8, <2>9 DEF Family!Next
<1>11. ASSUME machine = "running", NEW t \in tasks, NEW code \in Codes, MakeCurrentExited(t, code)
       PROVE  Family!Next \/ UNCHANGED Family!vars
  <2>p. PICK p : p = tid2pid[t]
    OBVIOUS
  <2>1. /\ p \in Alive /\ t \in Members(rel_map[p].threads) /\ p \in Pids
        /\ UNCHANGED <<next_pid, reports>>
        /\ ThreadGone(t, p, code) \/ ProcessGone(t, p, code)
    BY <1>1, <1>11, <2>p, EndOfThread
  <2>2. CASE ThreadGone(t, p, code)
    <3> DEFINE left == DelThread(rel_map[p], t, code)
    <3>1. left.dead_children = rel_map[p].dead_children /\ left.parent = rel_map[p].parent
      <4>1. rel_map[p] \in ProcThreadRels /\ Injective(rel_map[p].threads)
        BY <1>1, <2>1 DEF ThreadInv
      <4>2. left.dead_children = rel_map[p].dead_children
        BY <2>1, <4>1, DelThreadValue
      <4>3. left.parent = rel_map[p].parent
        BY <2>1, <4>1, DelThreadValue, ZenonT(40)
      <4> QED BY <4>2, <4>3
    <3> HIDE DEF left
    <3>2. rel_map' = [rel_map EXCEPT ![p] = left] /\ exited' = exited
      BY <2>2 DEF ThreadGone, left
    <3> QED BY <1>1, <1>4, <2>1, <3>1, <3>2
  <2>3. CASE ProcessGone(t, p, code)
    <3>u. PICK up : up = rel_map[p].parent
      OBVIOUS
    <3>1. /\ Alive' = Alive \ {p} /\ DOMAIN rel_map' = Alive \ {p}
          /\ \A q \in Alive \ {p} :
               /\ rel_map'[q].dead_children =
                    IF q = up THEN Append(rel_map[q].dead_children, [pid |-> p, code |-> code])
                    ELSE rel_map[q].dead_children
               /\ rel_map'[q].parent = IF q \in rel_map[p].children THEN InitPid ELSE rel_map[q].parent
          /\ exited' = With(exited, p, [code |-> code, parent |-> up])
      BY <1>1, <2>1, <2>3, <3>u DEF ProcessGone, Alive
    <3>2. /\ up # p /\ p < next_pid /\ p \notin Z
          /\ \A q \in Alive \ {p} : q \in rel_map[p].children <=> rel_map[q].parent = p
      <4>1. up < p /\ up \in Pids \cup {None} /\ p \in Nat
        BY <1>1, <1>11, <2>1, <3>u, ProcessFacts
      <4>2. up # p
        BY <4>1, BoundAssumption DEF Pids, None
      <4>3. ASSUME NEW q \in Alive \ {p}
            PROVE  q \in rel_map[p].children <=> rel_map[q].parent = p
        <5>1. \A c \in rel_map[p].children : rel_map[c].parent = p
          BY <1>1, <1>11, <2>1, ProcessFacts
        <5>2. q # InitPid => q \in rel_map[rel_map[q].parent].children
          BY <1>1, <1>11, ProcessFacts
        <5>3. q = InitPid => rel_map[q].parent # p
          <6>1. rel_map[q].parent < q
            BY <1>1, <1>11, ProcessFacts
          <6> QED BY <4>1, <6>1 DEF InitPid
        <5> QED BY <5>1, <5>2, <5>3
      <4> QED BY <1>1, <1>3, <2>1, <4>2, <4>3
    <3>3. Z1 = {x \in Z : exited[x].parent # p} \cup (IF up \in Alive THEN {p} ELSE {})
      BY <1>z, <1>y, <2>1, <3>1, <3>2, ZombiesOfEnded
    <3>4. \A x \in Z : exited'[x] = exited[x]
      BY <1>3, <3>1, <3>2 DEF With
    <3>5. exited'[p].parent = up /\ exited'[p].code = code
      BY <3>1 DEF With
    <3>6. /\ ParentView[p] = up /\ up \in Pids \cup {None}
          /\ Family!Running(up) <=> up \in Alive
      <4>1. up \in Pids \cup {None}
        BY <1>1, <1>11, <2>1, <3>u, ProcessFacts
      <4>2. ParentView[p] = up
        BY <1>1, <1>2, <2>1, <3>u DEF ParentOf
      <4> QED BY <1>1, <1>2, <4>1, <4>2 DEF Family!Running, PhaseOf
    <3> DEFINE lost == {c \in Pids : ParentView[c] = p /\ PhaseView[c] = "zombie"}
               orphans == {c \in Pids : ParentView[c] = p /\ PhaseView[c] = "running"}
    <3>7. /\ lost = {x \in Z : exited[x].parent = p}
          /\ orphans = {q \in Alive \ {p} : rel_map[q].parent = p}
      <4>1. ASSUME NEW x \in Pids
            PROVE  /\ x \in lost <=> x \in Z /\ exited[x].parent = p
                   /\ x \in orphans <=> x \in Alive \ {p} /\ rel_map[x].parent = p
        BY <1>1, <1>2, <1>3, <3>2, <3>u DEF PhaseOf, ParentOf
      <4> HIDE DEF lost, orphans
      <4>2. lost \subseteq Pids /\ orphans \subseteq Pids
        BY DEF lost, orphans
      <4> QED BY <1>1, <1>3, <4>1, <4>2
    <3> HIDE DEF lost, orphans
    <3>8. PhaseView' = [c \in Pids |->
                         IF c = p THEN IF Family!Running(up) THEN "zombie" ELSE "gone"
                         ELSE IF c \in lost THEN "gone" ELSE PhaseView[c]]
      <4>1. PhaseView' = PhaseOf(Alive \ {p}, Z1, next_pid)
        BY <1>2, <2>1, <3>1
      <4> QED BY <1>2, <1>3, <2>1, <3>2, <3>3, <3>6, <3>7, <4>1 DEF PhaseOf
    <3>9. ParentView' = [c \in Pids |->
                          IF c \in orphans THEN InitPid
                          ELSE IF PhaseView'[c] = "gone" THEN None ELSE ParentView[c]]
      <4>1. ASSUME NEW c \in Pids
            PROVE  ParentOf(rel_map', Z1, exited')[c] =
                     IF c \in orphans THEN InitPid
                     ELSE IF PhaseView'[c] = "gone" THEN None ELSE ParentView[c]
        <5>1. ParentView[c] = IF c \in Alive THEN rel_map[c].parent
                              ELSE IF c \in Z THEN exited[c].parent ELSE None
          BY <1>1, <1>2 DEF ParentOf
        <5>2. PhaseView'[c] = IF c \in Alive \ {p} THEN "running"
                              ELSE IF c \in Z1 THEN "zombie"
                              ELSE IF c < next_pid THEN "gone" ELSE "unborn"
          BY <1>2, <2>1, <3>1 DEF PhaseOf
        <5>3. ParentOf(rel_map', Z1, exited')[c] =
                IF c \in Alive \ {p} THEN rel_map'[c].parent
                ELSE IF c \in Z1 THEN exited'[c].parent ELSE None
          BY <3>1 DEF ParentOf
        <5>4. CASE c \in Alive \ {p}
          BY <3>1, <3>2, <3>7, <5>1, <5>2, <5>3, <5>4
        <5>5. CASE c = p
          BY <2>1, <3>2, <3>3, <3>5, <3>7, <3>u, <5>1, <5>2, <5>3, <5>5
        <5>6. CASE c \notin Alive
          BY <1>3, <2>1, <3>3, <3>4, <3>7, <5>1, <5>2, <5>3, <5>6
        <5> QED BY <5>4, <5>5, <5>6
      <4> QED BY <1>2, <4>1 DEF ParentOf
    <3>10. CodeView' = [c \in Pids |->
                         IF c = p /\ Family!Running(up) THEN code
                         ELSE IF c \in lost THEN 0 ELSE CodeView[c]]
      BY <1>2, <1>3, <2>1, <3>2, <3>3, <3>4, <3>5, <3>6, <3>7 DEF CodeOf
    <3>11. Family!Running(p)
      BY <1>2, <2>1 DEF Family!Running, PhaseOf
    <3>12. Family!End(p, code)
      BY <3>6, <3>8, <3>9, <3>10, <3>11 DEF Family!End, lost, orphans
    <3> QED BY <2>1, <3>12 DEF Family!Next
  <2> QED BY <2>1, <2>2, <2>3
<1> QED BY <1>1, <1>5, <1>6, <1>7, <1>8, <1>9, <1>10, <1>11, Steps DEF Changes

LEMMA FamilyInit ==
  ASSUME Init
  PROVE  Family!Init
<1>1. TreeInv /\ ExitToldOnce
  BY BookInit DEF BookInv
<1>2. /\ DOMAIN rel_map = {InitPid} /\ Alive = {InitPid} /\ rel_map[InitPid].dead_children = <<>>
      /\ rel_map[InitPid].parent = None
      /\ next_pid = 1
  BY InitialProcess DEF Init, Alive
<1>3. Zombies(rel_map) = {}
  <2>1. DOMAIN <<>> = {}
    OBVIOUS
  <2> QED BY <1>2, <2>1 DEF Zombies
<1>4. \A x \in Pids : x # InitPid => ~(x < 1)
  BY BoundAssumption DEF Pids, InitPid
<1>5. /\ PhaseView = [p \in Pids |-> IF p = InitPid THEN "running" ELSE "unborn"]
      /\ ParentView = [p \in Pids |-> None]
      /\ CodeView = [p \in Pids |-> 0]
  BY <1>1, <1>2, <1>3, <1>4, Views DEF PhaseOf, ParentOf, CodeOf
<1> QED BY <1>5 DEF Family!Init

\* PThreadManager keeps what ProcessFamily promises, for any number of processes: one
\* end with one code, a zombie for the parent that still lives, one report to it, and
\* orphans under process 0.  ThreadGone and the calls about threads are steps nobody
\* outside sees.
THEOREM FamilyKept == Spec => FamilyImplemented
<1>1. Init => Family!Init
  BY FamilyInit
<1>2. BookInv /\ [Next]_vars => [Family!Next]_(Family!vars)
  BY FamilyStep
<1> QED BY <1>1, <1>2, AlwaysBooks, PTL DEF Spec, FamilyImplemented, Family!Spec
=============================================================================
