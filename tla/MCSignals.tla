------------------------------- MODULE MCSignals -------------------------------
\* Signals for TLC.
EXTENDS Signals

\* SIGUSR1, which programs catch, and a signal of the real-time range.
UserSignal1 == {10}
RealTime == {40}

SomeSignals == {SIGKILL, SIGCONT, SIGSTOP} \cup UserSignal1 \cup RealTime
SomeMasks == {{}, {SIGKILL, 10}}
NoMask == {{}}

=============================================================================
