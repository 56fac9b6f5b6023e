------------------------------ MODULE MCPipeTest -------------------------------
\* PipeTest for TLC: messages up to more than twice the ring.
EXTENDS PipeTest

ZeroOne == {0, 1}
SomeMessages == UNION {[1 .. n -> Bytes] : n \in {1, 3, 5, 7}}
SomeLengths == {2, 4, 8}
=============================================================================
