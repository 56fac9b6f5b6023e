------------------------------ MODULE MCPrograms -------------------------------
\* Programs for TLC: the programs with few threads and few rounds.
EXTENDS Programs

FiveThreads == 0 .. 4
FourIds == 0 .. 3
OneId == {0}
NoCounts == {}
AllPrograms ==
  {"phil_din_mutex", "mpsc_sem", "race_adder", "sync_sem", "deadlock_mutex1", "deadlock_sem1",
   "deadlock_sem2", "threads", "sync_experiment", "test_condvar"}
=============================================================================
