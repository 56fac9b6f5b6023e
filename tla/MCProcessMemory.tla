---------------------------- MODULE MCProcessMemory ----------------------------
\* ProcessMemory for TLC: a kernel of six pages with 71 frames of heap, four
\* root entries of seven pages for programs, and two programs, the second across
\* a root entry.
EXTENDS ProcessMemory, TLC

Symmetry == Permutations(Procs)

KernelImage ==
  [text |-> 32, rodata |-> 34, data |-> 36, sbss |-> 37, ebss |-> 39, boot |-> 40, end |-> 44]

Device == <<Area(8, 9)>>

Segment(start, end, flags, data) == [start |-> start, end |-> end, flags |-> flags, data |-> data]

TwoPrograms ==
  {<<Segment(0, 1, {"X", "R"}, <<"code">>), Segment(1, 3, {"W", "R"}, <<"data">>)>>,
   <<Segment(0, 1, {"X", "R"}, <<"code">>), Segment(6, 8, {"W", "R"}, <<"data">>)>>}

SomeRanges == {Area(1, 2), Area(20, 22)}
SomePages == {2, 7, 21}
=============================================================================
