----------------------------- MODULE MCTaskManager -----------------------------
\* TaskManager for TLC.
EXTENDS TaskManager

OneCode == {0}
=============================================================================
