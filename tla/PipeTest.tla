------------------------------- MODULE PipeTest --------------------------------
(***************************************************************************)
(* The user side of a pipe: pipe_read and pipe_write of the user library,  *)
(* which retry on -2 after a yield, in the two processes of pipetest.rs    *)
(* and pipe_large_test.rs: the parent sends a message, the child reads     *)
(* until its buffer is full or the stream ends.  The same machine     *)
(* also runs any other program, whose processes use the pipe freely.       *)
(***************************************************************************)
EXTENDS Pipe

CONSTANTS Parent, Child,
          Messages,     \* what the parent may send, sequences of bytes
          BufferLens    \* the possible lengths of the child's buffer

ASSUME ProgramAssumption ==
  /\ Parent \in Procs /\ Child \in Procs /\ Parent # Child
  /\ Messages \subseteq Seq(Bytes) /\ BufferLens \subseteq Nat \ {0}

VARIABLES message, bufferLen,   \* fixed from the start
          pc,       \* what each program does next
          sent,     \* total_write of pipe_write
          buffer    \* what pipe_read has put in the child's buffer

input == <<message, bufferLen>>
programVars == <<input, pc, sent, buffer>>

TestInit ==
  /\ Init /\ alive = {Parent}
  /\ \/ /\ message \in Messages /\ bufferLen \in BufferLens
        /\ pc = [p \in {Parent, Child} |-> IF p = Parent THEN "fork" ELSE "unborn"]
     \/ /\ message = <<>> /\ bufferLen = 0
        /\ pc = [p \in {Parent, Child} |-> "free"]
  /\ sent = 0
  /\ buffer = <<>>

Goto(p, label) == pc' = [pc EXCEPT ![p] = label] /\ UNCHANGED input

ForkChild ==
  /\ pc[Parent] = "fork"
  /\ Fork(Parent, Child)
  /\ pc' = [p \in {Parent, Child} |-> "close"]
  /\ UNCHANGED <<input, sent, buffer>>

\* Mistaken: the child keeps its write end.
ChildReadsAtOnce ==
  /\ pc[Child] = "close"
  /\ Goto(Child, "read")
  /\ UNCHANGED <<vars, sent, buffer>>

ChildClosesWriteEnd ==
  /\ pc[Child] = "close"
  /\ Close(Child, "write")
  /\ Goto(Child, "read")
  /\ UNCHANGED <<sent, buffer>>

\* pipe_read: one turn of its loop.
PipeRead ==
  /\ pc[Child] = "read"
  /\ IF Len(buffer) >= bufferLen
     THEN Goto(Child, "closeRead") /\ UNCHANGED <<vars, buffer>>
     ELSE /\ Read(Child, bufferLen - Len(buffer))
          /\ buffer' = buffer \o ret'.bytes
          /\ Goto(Child, IF ret'.value = 0 THEN "closeRead" ELSE "read")
  /\ UNCHANGED sent

ChildClosesReadEnd ==
  /\ pc[Child] = "closeRead"
  /\ Close(Child, "read")
  /\ Goto(Child, "exit")
  /\ UNCHANGED <<sent, buffer>>

ParentClosesReadEnd ==
  /\ pc[Parent] = "close"
  /\ Close(Parent, "read")
  /\ Goto(Parent, "write")
  /\ UNCHANGED <<sent, buffer>>

\* Mistaken: a partial write counts as a whole one.
PipeWriteOnce ==
  /\ pc[Parent] = "write"
  /\ IF sent >= Len(message)
     THEN Goto(Parent, "closeWrite") /\ UNCHANGED <<vars, sent>>
     ELSE /\ Write(Parent, SubSeq(message, sent + 1, Len(message)))
          /\ sent' = IF ret'.value = Retry THEN sent ELSE Len(message)
          /\ UNCHANGED <<input, pc>>
  /\ UNCHANGED buffer

\* pipe_write: one turn of its loop.
PipeWrite ==
  /\ pc[Parent] = "write"
  /\ IF sent >= Len(message)
     THEN Goto(Parent, "closeWrite") /\ UNCHANGED <<vars, sent>>
     ELSE /\ Write(Parent, SubSeq(message, sent + 1, Len(message)))
          /\ sent' = IF ret'.value = Retry THEN sent ELSE sent + ret'.value
          /\ UNCHANGED <<input, pc>>
  /\ UNCHANGED buffer

ParentClosesWriteEnd ==
  /\ pc[Parent] = "closeWrite"
  /\ Close(Parent, "write")
  /\ Goto(Parent, "wait")
  /\ UNCHANGED <<sent, buffer>>

\* main returns: exit.  The parent waits for the child first.
ChildExits ==
  /\ pc[Child] = "exit"
  /\ EndProcess(Child)
  /\ Goto(Child, "done")
  /\ UNCHANGED <<sent, buffer>>

ParentExits ==
  /\ pc[Parent] = "wait" /\ pc[Child] = "done"
  /\ EndProcess(Parent)
  /\ Goto(Parent, "done")
  /\ UNCHANGED <<sent, buffer>>

ChildStep == ChildClosesWriteEnd \/ PipeRead \/ ChildClosesReadEnd \/ ChildExits
ParentStep ==
  ForkChild \/ ParentClosesReadEnd \/ PipeWrite \/ ParentClosesWriteEnd \/ ParentExits

Finished ==
  /\ \A p \in {Parent, Child} : pc[p] = "done"
  /\ UNCHANGED <<vars, programVars>>

FreeProgram ==
  /\ pc[Parent] = "free"
  /\ Next
  /\ UNCHANGED programVars

TestNext == ChildStep \/ ParentStep \/ FreeProgram \/ Finished

\* Every process is scheduled again and again: it yields between two attempts
\* and the ready queue is first-in first-out.
TestSpec ==
  /\ TestInit
  /\ [][TestNext]_<<vars, programVars>>
  /\ WF_<<vars, programVars>>(ChildStep)
  /\ WF_<<vars, programVars>>(ParentStep)

----------------------------------------------------------------------------
\* What the child's buffer and the ring hold together.
Fits == Len(message) <= bufferLen + RingBufferSize

\* The child reads a prefix of the message, and when pipe_read returns, all of
\* it that fits its buffer; pipe_write returns only when all of it fitted, for
\* it is never told that its reader has gone.
MessageArrives ==
  /\ buffer = SubSeq(message, 1, Len(buffer))
  /\ pc[Child] \in {"closeRead", "exit", "done"} =>
       Len(buffer) = AtMost(bufferLen, Len(message))
  /\ pc[Parent] \in {"closeWrite", "wait", "done"} => Fits

\* The two programs end when the message fits: no attempt is lost between the
\* retries of the two loops, and the child sees the end of the stream.
BothFinish ==
  (pc[Parent] = "fork" /\ Fits) ~> (pc[Parent] = "done" /\ pc[Child] = "done")
=============================================================================
