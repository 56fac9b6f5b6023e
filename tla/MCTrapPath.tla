------------------------------ MODULE MCTrapPath -------------------------------
\* TrapPath for TLC: one thread that makes every call, one that makes a few.
EXTENDS TrapPath

TwoThreads == {"T1", "T2"}
TwoCells == {"c1", "c2"}
EveryCall == [t \in TwoThreads |-> IF t = "T1" THEN Calls ELSE {"write", "exit"}]
=============================================================================
