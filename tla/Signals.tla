-------------------------------- MODULE Signals --------------------------------
(***************************************************************************)
(* Signals: SignalImpl of each process, and the trap of main.rs that runs  *)
(* a system call, lets handle_signals look at the thread's saved context,  *)
(* and then stores the call's result in its register a0.  Which thread     *)
(* traps next is left open: a thread that is blocked or not scheduled      *)
(* simply does not trap.                                                   *)
(*                                                                         *)
(* Of a context only what signals do to it is kept: whose stack it is on,  *)
(* what it executes, and a0.                                               *)
(***************************************************************************)
EXTENDS Integers, FiniteSetsExt, Functions

CONSTANTS MaxPid, MaxTid,   \* bounds on the ids handed out
          MaxPending, \* bound on the different signals a process has pending
          Sent,      \* the signals that are sent, as numbers
          Masks,     \* the masks that sigprocmask is given
          Caught,    \* the signals that sigaction is called for
          MaxSig,    \* MAX_SIG, the last signal with an entry in `actions`
          Data       \* what a call returns that has a result, a pid or a count

ASSUME SignalAssumption ==
  /\ Sent \subseteq Nat \ {0} /\ Caught \subseteq Sent /\ MaxSig \in Nat /\ Data \in Int
  /\ {} \in Masks   \* the mask of a new process
ASSUME BoundAssumption == MaxPid \in Nat /\ MaxTid \in Nat /\ MaxPending \in Nat

SIGKILL == 9
SIGCHLD == 17
SIGCONT == 18
SIGSTOP == 19
SIGURG  == 23

Pids == 0 .. MaxPid
Tids == 0 .. MaxTid

\* What a0 can hold: an argument, or the result of a call that has one.
Arg  == -5
Values == {Arg, Data, -1, 0} \cup Sent

VARIABLES tid2pid,     \* live thread -> its process
          next_pid, next_tid,
          signals,     \* process -> its SignalImpl
          ctx,         \* thread -> its saved context
          interrupted, \* history: process -> result of the call its handler interrupted
          panicked

vars == <<tid2pid, next_pid, next_tid, signals, ctx, interrupted, panicked>>

Contexts == [of : Tids, at : {"program", "handler", "zero"}, a0 : Values]

Idle == [kind |-> "none"]
Frozen == [kind |-> "frozen"]
UserSignal(c) == [kind |-> "user", saved |-> c]

SignalImpls ==
  [received : SUBSET Sent, mask : Masks,
   handling : {Idle, Frozen} \cup {UserSignal(c) : c \in Contexts},
   actions : [Sent -> {"default", "user", "zero"}]]

TypeOK ==
  /\ DOMAIN tid2pid \subseteq 0 .. next_tid - 1 /\ next_tid \in 1 .. MaxTid + 1
  /\ tid2pid \in [DOMAIN tid2pid -> 0 .. next_pid - 1] /\ next_pid \in 1 .. MaxPid + 1
  /\ DOMAIN signals = {tid2pid[t] : t \in DOMAIN tid2pid}
  /\ signals \in [DOMAIN signals -> SignalImpls]
  /\ DOMAIN ctx = DOMAIN tid2pid /\ ctx \in [DOMAIN ctx -> Contexts]
  /\ DOMAIN interrupted = DOMAIN signals /\ interrupted \in [DOMAIN signals -> Values]
  /\ panicked \in BOOLEAN

----------------------------------------------------------------------------
\* SignalImpl.
SignalNew ==
  [received |-> {}, mask |-> {}, handling |-> Idle, actions |-> [s \in Sent |-> "default"]]

FromFork(sg) == [sg EXCEPT !.received = {}, !.handling = Idle]

\* received & !mask
Deliverable(sg) == sg.received \ sg.mask

Catchable(s) == s \notin {SIGKILL, SIGSTOP} /\ s <= MaxSig

\* Mistaken: find_first_one takes the highest bit.
FetchedLast(sg) == Max(Deliverable(sg))

\* fetch_signal: find_first_one counts trailing zeros.
Fetched(sg) == Min(Deliverable(sg))

Ignored == {SIGCHLD, SIGURG}

\* What handle_signals leaves, and whether the trap goes on, the thread is killed
\* or the kernel panics.
Outcome(kind, sg, c) == [kind |-> kind, sg |-> sg, ctx |-> c]

\* A signal was fetched: kill, stop, the user's handler, or the default action.
Take(sg, c) ==
  LET s == Fetched(sg)
      left == [sg EXCEPT !.received = @ \ {s}]
  IN IF s = SIGKILL THEN Outcome("killed", left, c)
     ELSE IF s = SIGSTOP THEN Outcome("goes on", [left EXCEPT !.handling = Frozen], c)
     ELSE IF s > MaxSig THEN Outcome("panic", left, c)
     ELSE IF sg.actions[s] # "default"
          THEN Outcome("goes on", [left EXCEPT !.handling = UserSignal(c)],
                       [c EXCEPT !.at = IF sg.actions[s] = "user" THEN "handler" ELSE "zero",
                                 !.a0 = s])
          ELSE Outcome(IF s \in Ignored THEN "goes on" ELSE "killed", left, c)

\* Mistaken: a signal is taken while the handler of another runs.
HandleSignalsNested(sg, c) ==
  IF Deliverable(sg) = {} THEN Outcome("goes on", sg, c) ELSE Take(sg, c)

HandleSignals(sg, c) ==
  CASE sg.handling.kind = "frozen" ->
         IF SIGCONT \in Deliverable(sg)
         THEN Outcome("goes on", [sg EXCEPT !.received = @ \ {SIGCONT}, !.handling = Idle], c)
         ELSE Outcome("goes on", sg, c)
    [] sg.handling.kind = "user" -> Outcome("goes on", sg, c)
    [] OTHER -> IF Deliverable(sg) = {} THEN Outcome("goes on", sg, c) ELSE Take(sg, c)

\* Mistaken: the saved context stays in place.
SigReturnKeeps(sg, c) == IF sg.handling.kind = "user" THEN <<sg, sg.handling.saved, 0>> ELSE <<sg, c, -1>>

\* sig_return: what it leaves of the process's signals and the caller's context,
\* and the result of the call.
SigReturnOf(sg, c) ==
  IF sg.handling.kind = "user"
  THEN <<[sg EXCEPT !.handling = Idle], sg.handling.saved, 0>>
  ELSE <<sg, c, -1>>

----------------------------------------------------------------------------
Without(f, x) == Restrict(f, DOMAIN f \ {x})
With(f, x, y) == [z \in DOMAIN f \cup {x} |-> IF z = x THEN y ELSE f[z]]

ThreadsOf(p) == {t \in DOMAIN tid2pid : tid2pid[t] = p}

\* LocalContext::user, and the argument of a new thread.
NewContext(t) == [of |-> t, at |-> "program", a0 |-> 0]

\* Ids are handed out in order: the first of a process's threads is the lowest.
MainThread(p) == Min(ThreadsOf(p))

Init ==
  /\ tid2pid = [t \in {0} |-> 0]
  /\ next_pid = 1 /\ next_tid = 1
  /\ signals = [p \in {0} |-> SignalNew]
  /\ ctx = [t \in {0} |-> NewContext(0)]
  /\ interrupted = [p \in {0} |-> 0]
  /\ panicked = FALSE

\* What a call leaves for the rest of the trap: k.tids, k.sigs and k.ctxs.
Left(tids, sigs, ctxs) == [tids |-> tids, sigs |-> sigs, ctxs |-> ctxs]

\* make_current_exited: a process goes with its last thread.
ThreadEnds(t, k) ==
  LET p == k.tids[t]
      last == {u \in DOMAIN k.tids : k.tids[u] = p} = {t}
      Remaining(f) == IF last THEN Without(f, p) ELSE f
  IN /\ tid2pid' = Without(k.tids, t)
     /\ ctx' = Without(k.ctxs, t)
     /\ signals' = Remaining(k.sigs)
     /\ interrupted' = Remaining([q \in DOMAIN k.sigs |->
                                    IF q \in DOMAIN interrupted THEN interrupted[q] ELSE 0])

\* The rest of the trap of thread t: handle_signals first, then the result of the
\* call is stored, whatever handle_signals did to the context.  Nothing runs after
\* a panic, which keeps the process's signals as handle_signals found them.
EndTrap(t, k, ret, exits) ==
  LET p == k.tids[t]
      out == HandleSignals(k.sigs[p], k.ctxs[t])
      after == Left(k.tids, [k.sigs EXCEPT ![p] = out.sg], [k.ctxs EXCEPT ![t] = out.ctx])
      entered == signals[p].handling = Idle /\ out.sg.handling.kind = "user"
  IN \/ /\ out.kind = "panic" /\ panicked' = TRUE
        /\ signals' = [signals EXCEPT ![p] = k.sigs[p]]
        /\ UNCHANGED <<tid2pid, ctx, interrupted>>
     \/ /\ out.kind = "killed" \/ (out.kind = "goes on" /\ exits)
        /\ ThreadEnds(t, after)
        /\ UNCHANGED panicked
     \/ /\ out.kind = "goes on" /\ ~exits
        /\ tid2pid' = after.tids
        /\ signals' = after.sigs
        /\ ctx' = [after.ctxs EXCEPT ![t].a0 = ret]
        /\ interrupted' = [q \in DOMAIN after.sigs |->
                             IF q = p /\ entered THEN ret
                             ELSE IF q \in DOMAIN interrupted THEN interrupted[q] ELSE 0]
        /\ UNCHANGED panicked

----------------------------------------------------------------------------
\* Traps of thread t of process Own(t).
Own(t) == tid2pid[t]

Traps(t) == ~panicked /\ t \in DOMAIN tid2pid /\ ctx[t].at # "zero"

\* The context with the arguments of the call.
Called(t) == [ctx EXCEPT ![t].a0 = Arg]

\* A call that only changes the signals of processes.
Call(t, sigs, ret) ==
  /\ EndTrap(t, Left(tid2pid, sigs, Called(t)), ret, FALSE)
  /\ UNCHANGED <<next_pid, next_tid>>

\* Any other call that has a result, for instance a read.
OtherCall(t) == Traps(t) /\ Call(t, signals, Data)

Kill(t, p, s) ==
  /\ Traps(t) /\ p \in DOMAIN signals
  /\ Cardinality(signals[p].received \cup {s}) <= MaxPending
  /\ Call(t, [signals EXCEPT ![p].received = @ \cup {s}], 0)

\* A handler, or the default action read earlier, which has address zero.
SigAction(t, s, action) ==
  /\ Traps(t)
  /\ IF Catchable(s)
     THEN Call(t, [signals EXCEPT ![Own(t)].actions[s] = action], 0)
     ELSE Call(t, signals, -1)

SigProcMask(t, m) ==
  /\ Traps(t)
  /\ Call(t, [signals EXCEPT ![Own(t)].mask = m], Data)

SigReturn(t) ==
  /\ Traps(t)
  /\ LET back == SigReturnOf(signals[Own(t)], Called(t)[t])
     IN /\ EndTrap(t, Left(tid2pid, [signals EXCEPT ![Own(t)] = back[1]],
                           [ctx EXCEPT ![t] = back[2]]), back[3], FALSE)
        /\ UNCHANGED <<next_pid, next_tid>>

Exit(t) ==
  /\ Traps(t)
  /\ EndTrap(t, Left(tid2pid, signals, Called(t)), 0, TRUE)
  /\ UNCHANGED <<next_pid, next_tid>>

\* A trap that is no system call, the only one of a thread at address zero.
Fault(t) ==
  /\ ~panicked /\ t \in DOMAIN tid2pid
  /\ ThreadEnds(t, Left(tid2pid, signals, ctx))
  /\ UNCHANGED <<next_pid, next_tid, panicked>>

ThreadCreate(t) ==
  /\ Traps(t) /\ next_tid <= MaxTid
  /\ EndTrap(t, Left(With(tid2pid, next_tid, Own(t)), signals,
                     With(Called(t), next_tid, NewContext(next_tid))),
             Data, FALSE)
  /\ next_tid' = next_tid + 1
  /\ UNCHANGED next_pid

\* The child gets a copy of the main thread's context and stack.
Fork(t) ==
  /\ Traps(t) /\ next_pid <= MaxPid /\ next_tid <= MaxTid
  /\ EndTrap(t, Left(With(tid2pid, next_tid, next_pid),
                     With(signals, next_pid, FromFork(signals[Own(t)])),
                     With(Called(t), next_tid,
                          [Called(t)[MainThread(Own(t))] EXCEPT !.of = next_tid, !.a0 = 0])),
             Data, FALSE)
  /\ next_pid' = next_pid + 1
  /\ next_tid' = next_tid + 1

\* The main thread starts the new program; SignalImpl::clear is not called.
Exec(t) ==
  /\ Traps(t)
  /\ LET main == MainThread(Own(t))
     IN EndTrap(t, Left(tid2pid, signals, [Called(t) EXCEPT ![main] = NewContext(main)]), 0, FALSE)
  /\ UNCHANGED <<next_pid, next_tid>>

Stopped == (panicked \/ DOMAIN tid2pid = {}) /\ UNCHANGED vars

PlainCall(t) ==
  \/ OtherCall(t) \/ Exit(t) \/ ThreadCreate(t) \/ Fault(t)
  \/ \E p \in Pids, s \in Sent : Kill(t, p, s)
  \/ \E s \in Caught, action \in {"user", "zero"} : SigAction(t, s, action)
  \/ \E m \in Masks : SigProcMask(t, m)

Trap(t) == PlainCall(t) \/ SigReturn(t) \/ Fork(t) \/ Exec(t)

Next == (\E t \in Tids : Trap(t)) \/ Stopped

Spec == Init /\ [][Next]_vars

\* Programs that call sigreturn only where a handler ends, and neither fork nor
\* exec while the main thread is in a handler.
MainInProgram(t) == Traps(t) /\ ctx[MainThread(Own(t))].at = "program"

Disciplined(t) ==
  \/ PlainCall(t)
  \/ t \in DOMAIN ctx /\ ctx[t].at = "handler" /\ SigReturn(t)
  \/ MainInProgram(t) /\ (Fork(t) \/ Exec(t))

SpecDisciplined == Init /\ [][(\E t \in Tids : Disciplined(t)) \/ Stopped]_vars

----------------------------------------------------------------------------
\* Properties.

\* A process is in a handler exactly when its SignalImpl says so, in one thread
\* at a time; after that thread ended in the handler, none is.  The kernel panics
\* over a signal only if it is one that `actions` has no place for.
HandlerMatches ==
  /\ TypeOK
  /\ panicked => \E p \in DOMAIN signals : \E s \in signals[p].received : s > MaxSig
  /\ ~panicked =>
       \A p \in DOMAIN signals :
         {t \in ThreadsOf(p) : ctx[t].at # "program"}
           = IF signals[p].handling.kind = "user"
             THEN {signals[p].handling.saved.of} \cap ThreadsOf(p) ELSE {}

\* No signal ever puts a thread on another thread's stack, or loses the context
\* that the handler interrupted: what is saved is the thread's own program.
OwnContext ==
  /\ \A t \in DOMAIN ctx : ctx[t].of = t
  /\ \A p \in DOMAIN signals :
       signals[p].handling.kind = "user" => signals[p].handling.saved.at = "program"

\* What this trap took from the pending signals of p, if anything, it took in order.
InOrder(p) ==
  LET sg == signals[p]
      gone == sg.received \ signals'[p].received
  IN gone # {} =>
       \E s \in gone :
         /\ gone = {s} /\ s \notin signals'[p].mask
         /\ IF sg.handling = Frozen THEN s = SIGCONT
            ELSE s = Min(sg.received \ signals'[p].mask)

\* A pending signal is dropped only by being taken: one per trap, not masked, the
\* lowest that could be taken, and SIGCONT alone by a frozen process.
TakenInOrder == [][\A p \in DOMAIN signals \cap DOMAIN signals' : InOrder(p)]_vars

----------------------------------------------------------------------------
\* What comments of the repository say, and the code does not do.

\* sig_return "restores the context before the interruption": the thread goes on
\* with the result of the call that was interrupted.
ContextRestored ==
  [][\A t \in Tids :
       SigReturn(t) /\ signals[Own(t)].handling.kind = "user" /\ ~panicked'
         /\ t \in DOMAIN ctx' /\ ctx'[t].at = "program"
         => ctx'[t].a0 = interrupted[Own(t)]]_vars
=============================================================================
