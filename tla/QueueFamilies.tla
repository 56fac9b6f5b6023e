----------------------------- MODULE QueueFamilies -----------------------------
(***************************************************************************)
(* Families of queues, as functions from labels to sequences: what they    *)
(* hold, and whether anything stands in them twice.                        *)
(***************************************************************************)
EXTENDS Integers, Sequences

Members(q) == {q[i] : i \in DOMAIN q}

Items(Q) == UNION {Members(Q[l]) : l \in DOMAIN Q}

\* Nothing stands at two positions.
Unique(Q) ==
  \A k, l \in DOMAIN Q : \A i \in DOMAIN Q[k], j \in DOMAIN Q[l] :
    Q[k][i] = Q[l][j] => k = l /\ i = j

\* The two moves: the head of queue k leaves, x joins queue k at its end.
Pop(Q, k) == [Q EXCEPT ![k] = Tail(@)]
Push(Q, k, x) == [Q EXCEPT ![k] = Append(@, x)]
=============================================================================
