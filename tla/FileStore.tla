------------------------------- MODULE FileStore -------------------------------
(***************************************************************************)
(* What the file system promises to programs: files by name, each a        *)
(* sequence that grows by writing, with zeros where nothing was written,   *)
(* and survives when the machine goes off.  EasyFs implements it.          *)
(***************************************************************************)
EXTENDS Integers, Sequences

CONSTANTS Names, Handles, Buffers

VARIABLES files,   \* name -> contents
          handles  \* open file -> its name and offset

vars == <<files, handles>>

Init == files = <<>> /\ handles = <<>>

With(f, x, y) == [z \in DOMAIN f \cup {x} |-> IF z = x THEN y ELSE f[z]]

NewHandle(h, n) == h \notin DOMAIN handles /\ handles' = With(handles, h, [name |-> n, offset |-> 0])

OpenEmptied(h, n) == NewHandle(h, n) /\ files' = With(files, n, <<>>)

OpenAsItIs(h, n) == n \in DOMAIN files /\ NewHandle(h, n) /\ UNCHANGED files

\* The contents when buf is written at an offset, which may lie beyond the end.
Overwritten(contents, offset, buf) ==
  LET end == offset + Len(buf)
      size == IF end > Len(contents) THEN end ELSE Len(contents)
  IN [i \in 1 .. size |-> IF i > offset /\ i <= end THEN buf[i - offset]
                          ELSE IF i <= Len(contents) THEN contents[i] ELSE 0]

Write(h, buf) ==
  /\ h \in DOMAIN handles
  /\ files' = [files EXCEPT ![handles[h].name] = Overwritten(@, handles[h].offset, buf)]
  /\ handles' = [handles EXCEPT ![h].offset = @ + Len(buf)]

\* The offset moves by what was read, and stays where it is beyond the end.
Read(h, len) ==
  LET left == Len(files[handles[h].name]) - handles[h].offset
      count == IF left <= 0 THEN 0 ELSE IF left < len THEN left ELSE len
  IN /\ handles' = [handles EXCEPT ![h].offset = @ + count]
     /\ UNCHANGED files

Copy(h, copy) ==
  /\ copy \notin DOMAIN handles
  /\ handles' = With(handles, copy, handles[h])
  /\ UNCHANGED files

Close(h) == handles' = [g \in DOMAIN handles \ {h} |-> handles[g]] /\ UNCHANGED files

\* Open files are lost, files are not.
Restart == handles' = <<>> /\ UNCHANGED files

Next ==
  \/ \E h \in Handles, n \in Names : OpenEmptied(h, n) \/ OpenAsItIs(h, n)
  \/ \E h \in DOMAIN handles :
       \/ \E buf \in Buffers : Write(h, buf) \/ Read(h, Len(buf))
       \/ \E copy \in Handles : Copy(h, copy)
       \/ Close(h)
  \/ Restart

Spec == Init /\ [][Next]_vars
=============================================================================
