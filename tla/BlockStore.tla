------------------------------ MODULE BlockStore -------------------------------
(***************************************************************************)
(* A disk behind a cache, as its users see it: `mem` is what they read,    *)
(* `durable` what is left when the power is cut, `using` the blocks in     *)
(* use, innermost last.  Whenever a block is asked for, some other block   *)
(* may become durable; Sync makes all of them so.                          *)
(***************************************************************************)
EXTENDS Integers, Sequences

CONSTANTS Blocks, Values

VARIABLES mem, durable, using

vars == <<mem, durable, using>>

Init == mem = durable /\ durable \in [Blocks -> Values] /\ using = <<>>

WriteBack == \E b \in Blocks : durable' = [durable EXCEPT ![b] = mem[b]]

Enter(b, modify) ==
  /\ using' = Append(using, [block |-> b, modify |-> modify])
  /\ WriteBack \/ UNCHANGED durable
  /\ UNCHANGED mem

Write(v) ==
  /\ using # <<>> /\ using[Len(using)].modify
  /\ mem' = [mem EXCEPT ![using[Len(using)].block] = v]
  /\ UNCHANGED <<durable, using>>

Leave ==
  /\ using # <<>>
  /\ using' = SubSeq(using, 1, Len(using) - 1)
  /\ UNCHANGED <<mem, durable>>

Sync == using = <<>> /\ durable' = mem /\ UNCHANGED <<mem, using>>

PowerCut == mem' = durable /\ using' = <<>> /\ UNCHANGED durable

Next ==
  \/ \E b \in Blocks, modify \in BOOLEAN : Enter(b, modify)
  \/ \E v \in Values : Write(v)
  \/ Leave \/ Sync \/ PowerCut

Spec == Init /\ [][Next]_vars
=============================================================================
