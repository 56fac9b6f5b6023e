----------------------------- MODULE MCSyncKernel ------------------------------
\* SyncKernel for TLC: a small set of interchangeable threads.
EXTENDS OrderlyThreads, TLC

Symmetry == Permutations(Threads)

OneId == {0}
TwoIds == {0, 1}
NoIds == {}
NoCounts == {}
ZeroOne == {0, 1}
=============================================================================
