------------------------------ MODULE SignalProofs ------------------------------
(***************************************************************************)
(* Signals keep contexts apart, are taken in order and never lost, for any *)
(* number of processes, threads and signals.                               *)
(***************************************************************************)
EXTENDS Signals, SequencesExt, SequenceTheorems, WellFoundedInduction, TLAPS

\* A set of numbers has a least element: induction over numbers is done with it.
LEMMA MinMember ==
  ASSUME NEW S \in SUBSET Nat, S # {}
  PROVE  Min(S) \in S /\ \A x \in S : Min(S) <= x
<1> DEFINE less == OpToRel(<, Nat)
<1>1. PICK x \in S : \A y \in S : ~(<<y, x>> \in less)
  BY NatLessThanWellFounded, WFMin, Zenon
<1>2. less = {ss \in Nat \X Nat : ss[1] < ss[2]}
  BY Zenon DEF OpToRel
<1> HIDE DEF less
<1>3. ASSUME NEW y \in S PROVE x <= y
  <2>1. x \in Nat /\ y \in Nat
    OBVIOUS
  <2>2. y < x => <<y, x>> \in less
    BY <1>2, <2>1
  <2> QED BY <1>1, <2>1, <2>2
<1> QED BY <1>3 DEF Min


----------------------------------------------------------------------------
\* The helpers of the model.

LEMMA WithProperties ==
  ASSUME NEW f, NEW x, NEW y
  PROVE  /\ DOMAIN With(f, x, y) = DOMAIN f \cup {x}
         /\ With(f, x, y)[x] = y
         /\ \A z \in DOMAIN f : z # x => With(f, x, y)[z] = f[z]
  BY DEF With

LEMMA WithoutProperties ==
  ASSUME NEW f, NEW x
  PROVE  /\ DOMAIN Without(f, x) = DOMAIN f \ {x}
         /\ \A z \in DOMAIN f : z # x => Without(f, x)[z] = f[z]
  BY DEF Without, Restrict

----------------------------------------------------------------------------
\* What handle_signals does.

\* Nothing leaves the pending signals but one that could be taken, the lowest of
\* them, or SIGCONT for a frozen process; the mask and the actions stay; a context
\* is saved only when the user's handler starts, and only if none is saved.
Handled(sg, c, out) ==
  /\ out.kind \in {"goes on", "killed", "panic"}
  /\ out.sg \in SignalImpls /\ out.ctx \in Contexts /\ out.ctx.of = c.of
  /\ out.sg.mask = sg.mask /\ out.sg.received \subseteq sg.received
  /\ \A s \in sg.received \ out.sg.received :
       /\ sg.received \ out.sg.received = {s} /\ s \notin sg.mask
       /\ IF sg.handling = Frozen THEN s = SIGCONT ELSE s = Min(sg.received \ sg.mask)
  /\ out.kind = "panic" => \E s \in sg.received : s > MaxSig
  /\ \/ out.ctx = c /\ out.sg.handling = sg.handling
     \/ out.ctx = c /\ sg.handling.kind # "user" /\ out.sg.handling \in {Idle, Frozen}
     \/ /\ sg.handling.kind # "user" /\ out.sg.handling = UserSignal(c)
        /\ out.ctx.at # "program" /\ out.kind = "goes on"

LEMMA HandleSignalsDoes ==
  ASSUME NEW sg \in SignalImpls, NEW c \in Contexts
  PROVE  Handled(sg, c, HandleSignals(sg, c))
<1>o. PICK out : out = HandleSignals(sg, c)
  OBVIOUS
<1> SUFFICES Handled(sg, c, out)
  BY <1>o
<1> DEFINE ready == Deliverable(sg)
           s == Min(ready)
<1>1. /\ sg.received \in SUBSET Sent /\ Sent \subseteq Nat /\ sg.mask \in Masks
      /\ sg.handling \in {Idle, Frozen} \cup {UserSignal(d) : d \in Contexts}
      /\ sg.actions \in [Sent -> {"default", "user", "zero"}]
      /\ ready = sg.received \ sg.mask
  BY SignalAssumption DEF SignalImpls, Deliverable
<1>2. /\ sg.handling.kind = "frozen" => sg.handling = Frozen
      /\ sg.handling.kind # "frozen" => sg.handling # Frozen
      /\ Idle.kind = "none" /\ Frozen.kind = "frozen"
  BY <1>1 DEF Idle, Frozen, UserSignal
<1>3. ready # {} => s \in ready /\ s \in Sent /\ s \in sg.received /\ s \notin sg.mask
  BY <1>1, MinMember
<1> HIDE DEF s, ready
<1>4. c.at \in {"program", "handler", "zero"} /\ c.of \in Tids /\ c.a0 \in Values
  BY DEF Contexts
\* A signal is taken out; the process may change what it is handling.
<1>5. ASSUME NEW x \in sg.received, x \notin sg.mask, NEW h \in {sg.handling, Idle, Frozen, UserSignal(c)},
             IF sg.handling = Frozen THEN x = SIGCONT ELSE x = s
      PROVE  LET left == [sg EXCEPT !.received = @ \ {x}, !.handling = h]
             IN /\ left \in SignalImpls /\ left.mask = sg.mask /\ left.handling = h
                /\ left.received = sg.received \ {x}
                /\ sg.received \ left.received = {x}
  <2>1. h \in {Idle, Frozen} \cup {UserSignal(d) : d \in Contexts}
    BY <1>1
  <2> QED BY <1>1, <1>5, <2>1 DEF SignalImpls
<1>6. [sg EXCEPT !.received = @ \ {s}] = [sg EXCEPT !.received = @ \ {s}, !.handling = sg.handling]
  BY DEF SignalImpls
<1>7. CASE out = Outcome("goes on", sg, c)
  <2>1. out.kind = "goes on" /\ out.sg = sg /\ out.ctx = c
    BY <1>7 DEF Outcome
  <2> QED BY <2>1 DEF Handled
<1>8. CASE /\ sg.handling.kind = "frozen" /\ SIGCONT \in ready
           /\ out = Outcome("goes on", [sg EXCEPT !.received = @ \ {SIGCONT}, !.handling = Idle], c)
  <2>1. SIGCONT \in sg.received /\ SIGCONT \notin sg.mask /\ sg.handling = Frozen
    BY <1>1, <1>2, <1>8
  <2> DEFINE left == [sg EXCEPT !.received = @ \ {SIGCONT}, !.handling = Idle]
  <2>2. /\ left \in SignalImpls /\ left.mask = sg.mask /\ left.handling = Idle
        /\ left.received = sg.received \ {SIGCONT}
        /\ sg.received \ left.received = {SIGCONT}
    BY <1>5, <2>1
  <2>3. out.kind = "goes on" /\ out.sg = left /\ out.ctx = c
    BY <1>8 DEF Outcome
  <2> HIDE DEF left
  <2>4. sg.handling.kind # "user"
    BY <1>8
  <2> QED BY <2>1, <2>2, <2>3, <2>4 DEF Handled
<1>9. CASE sg.handling.kind = "none" /\ ready # {} /\ out = Take(sg, c)
  <2> DEFINE left(h) == [sg EXCEPT !.received = @ \ {s}, !.handling = h]
  <2>1. /\ s \in Sent /\ s \in sg.received /\ s \notin sg.mask /\ sg.handling # Frozen
        /\ Fetched(sg) = s
    BY <1>2, <1>3, <1>9 DEF Fetched, s, ready
  <2>2. ASSUME NEW h \in {sg.handling, Idle, Frozen, UserSignal(c)}
        PROVE  /\ left(h) \in SignalImpls /\ left(h).mask = sg.mask /\ left(h).handling = h
               /\ left(h).received = sg.received \ {s}
               /\ sg.received \ left(h).received = {s}
    BY <1>5, <2>1
  <2>3. s = Min(sg.received \ sg.mask)
    BY <1>1 DEF s
  <2> HIDE DEF left
\* Whatever becomes of the signal, it alone is gone.
  <2>4. ASSUME NEW h \in {sg.handling, Idle, Frozen, UserSignal(c)}, out.sg = left(h),
               NEW d \in Contexts, out.ctx = d, d.of = c.of,
               out.kind \in {"goes on", "killed", "panic"}, out.kind = "panic" => s > MaxSig,
               \/ d = c /\ h \in {sg.handling, Idle, Frozen}
               \/ h = UserSignal(c) /\ d.at # "program" /\ out.kind = "goes on"
        PROVE  Handled(sg, c, out)
    <3>1. sg.handling.kind # "user" /\ \A x : x \in sg.received \ out.sg.received <=> x = s
      BY <1>9, <2>2, <2>4
    <3>2. \/ out.ctx = c /\ out.sg.handling = sg.handling
          \/ out.ctx = c /\ out.sg.handling \in {Idle, Frozen}
          \/ out.sg.handling = UserSignal(c) /\ out.ctx.at # "program" /\ out.kind = "goes on"
      BY <2>2, <2>4
    <3>3. out.sg \in SignalImpls /\ out.sg.mask = sg.mask /\ out.sg.received \subseteq sg.received
      BY <2>2, <2>4
    <3>4. sg.received \ out.sg.received = {s}
      BY <2>2, <2>4
    <3> QED BY <2>1, <2>3, <2>4, <3>1, <3>2, <3>3, <3>4 DEF Handled
  <2>5. out = IF s = SIGKILL THEN Outcome("killed", left(sg.handling), c)
              ELSE IF s = SIGSTOP THEN Outcome("goes on", left(Frozen), c)
              ELSE IF s > MaxSig THEN Outcome("panic", left(sg.handling), c)
              ELSE IF sg.actions[s] # "default"
                   THEN Outcome("goes on", left(UserSignal(c)),
                                [c EXCEPT !.at = IF sg.actions[s] = "user" THEN "handler" ELSE "zero",
                                          !.a0 = s])
                   ELSE Outcome(IF s \in Ignored THEN "goes on" ELSE "killed", left(sg.handling), c)
    <3>1. \A h : [[sg EXCEPT !.received = @ \ {s}] EXCEPT !.handling = h]
                   = [sg EXCEPT !.received = @ \ {s}, !.handling = h]
      BY DEF SignalImpls
    <3> QED BY <1>6, <1>9, <2>1, <3>1 DEF Take, left
  <2>6. \A k, g, d : /\ Outcome(k, g, d).kind = k /\ Outcome(k, g, d).sg = g
                     /\ Outcome(k, g, d).ctx = d
    BY DEF Outcome
  <2>7. SIGKILL # SIGSTOP
    BY DEF SIGKILL, SIGSTOP
  <2>8. CASE s = SIGKILL
    <3>1. out = Outcome("killed", left(sg.handling), c)
      BY <2>5, <2>8
    <3>2. out.kind = "killed" /\ out.sg = left(sg.handling) /\ out.ctx = c
      BY <3>1 DEF Outcome
    <3> QED BY <2>4, <3>2
  <2>9. CASE s = SIGSTOP
    <3>1. out = Outcome("goes on", left(Frozen), c)
      BY <2>5, <2>7, <2>9
    <3>2. out.kind = "goes on" /\ out.sg = left(Frozen) /\ out.ctx = c
      BY <3>1 DEF Outcome
    <3> QED BY <2>4, <3>2
  <2>10. CASE s # SIGKILL /\ s # SIGSTOP /\ s > MaxSig
    <3>1. out = Outcome("panic", left(sg.handling), c)
      BY <2>5, <2>10
    <3>2. out.kind = "panic" /\ out.sg = left(sg.handling) /\ out.ctx = c
      BY <3>1 DEF Outcome
    <3> QED BY <2>4, <2>10, <3>2
  <2>11. CASE s # SIGKILL /\ s # SIGSTOP /\ ~(s > MaxSig) /\ sg.actions[s] # "default"
    <3> DEFINE d == [c EXCEPT !.at = IF sg.actions[s] = "user" THEN "handler" ELSE "zero", !.a0 = s]
    <3>1. d \in Contexts /\ d.of = c.of /\ d.at # "program"
      BY <2>1, <1>4 DEF Contexts, Values
    <3>3. out = Outcome("goes on", left(UserSignal(c)), d)
      BY <2>5, <2>11
    <3>2. out.kind = "goes on" /\ out.sg = left(UserSignal(c)) /\ out.ctx = d
      BY <3>3 DEF Outcome
    <3> HIDE DEF d
    <3> QED BY <2>4, <3>1, <3>2
  <2>12. CASE s # SIGKILL /\ s # SIGSTOP /\ ~(s > MaxSig) /\ sg.actions[s] = "default"
    <3>1. PICK kind \in {"goes on", "killed"} : out = Outcome(kind, left(sg.handling), c)
      BY <2>5, <2>12
    <3>2. out.kind \in {"goes on", "killed"} /\ out.sg = left(sg.handling) /\ out.ctx = c
      BY <3>1 DEF Outcome
    <3> QED BY <2>4, <3>2
  <2> QED BY <2>8, <2>9, <2>10, <2>11, <2>12
<1>10. sg.handling.kind \in {"none", "frozen", "user"}
  BY <1>1 DEF Idle, Frozen, UserSignal
<1> QED BY <1>o, <1>7, <1>8, <1>9, <1>10 DEF HandleSignals, ready

----------------------------------------------------------------------------
\* The state, and what a call leaves for the rest of the trap, in the same form.

Now == Left(tid2pid, signals, ctx)

\* Threads, processes and contexts belong together and have ids below np and nt.
Typed(k, np, nt) ==
  /\ DOMAIN k.tids \subseteq 0 .. nt - 1
  /\ k.tids \in [DOMAIN k.tids -> 0 .. np - 1]
  /\ DOMAIN k.sigs = {k.tids[u] : u \in DOMAIN k.tids}
  /\ k.sigs \in [DOMAIN k.sigs -> SignalImpls]
  /\ DOMAIN k.ctxs = DOMAIN k.tids /\ k.ctxs \in [DOMAIN k.ctxs -> Contexts]

\* A thread's context is its own, what a process saves is the program of one
\* thread, and that thread alone of the process is in a handler.
Neat(k, nt) ==
  /\ \A u \in DOMAIN k.ctxs : k.ctxs[u].of = u
  /\ \A p \in DOMAIN k.sigs :
       LET h == k.sigs[p].handling
       IN h.kind = "user" => h.saved.at = "program" /\ h.saved.of < nt
  /\ \A u \in DOMAIN k.tids :
       LET h == k.sigs[k.tids[u]].handling
       IN k.ctxs[u].at # "program" <=> (h.kind = "user" /\ h.saved.of = u)

\* The invariant.  A thread id that is saved was handed out, so that no new thread
\* can be taken for the one in the handler.
SignalInv ==
  /\ TypeOK /\ OwnContext
  /\ IF panicked THEN \E p \in DOMAIN signals : \E x \in signals[p].received : x > MaxSig
     ELSE Neat(Now, next_tid)

----------------------------------------------------------------------------
\* The rest of the trap, step by step.

\* What handle_signals leaves of k.
Answered(t, k, out) ==
  Left(k.tids, [k.sigs EXCEPT ![k.tids[t]] = out.sg], [k.ctxs EXCEPT ![t] = out.ctx])

LEMMA AnsweredTyped ==
  ASSUME NEW k, NEW np, NEW nt, NEW t \in DOMAIN k.tids, NEW out, Typed(k, np, nt),
         out.sg \in SignalImpls, out.ctx \in Contexts
  PROVE  Typed(Answered(t, k, out), np, nt)
<1>1. PICK a : a = Answered(t, k, out)
  OBVIOUS
<1>2. /\ a.tids = k.tids /\ a.sigs = [k.sigs EXCEPT ![k.tids[t]] = out.sg]
      /\ a.ctxs = [k.ctxs EXCEPT ![t] = out.ctx]
  BY <1>1 DEF Answered, Left
<1>3. DOMAIN a.sigs = DOMAIN k.sigs /\ DOMAIN a.ctxs = DOMAIN k.ctxs
  BY <1>2
<1>4. a.sigs \in [DOMAIN k.sigs -> SignalImpls] /\ a.ctxs \in [DOMAIN k.ctxs -> Contexts]
  BY <1>2 DEF Typed
<1> QED BY <1>1, <1>2, <1>3, <1>4 DEF Typed

LEMMA AnsweredNeat ==
  ASSUME NEW k, NEW np, NEW nt \in Nat, NEW t \in DOMAIN k.tids, NEW out, Typed(k, np, nt),
         Neat(k, nt), Handled(k.sigs[k.tids[t]], k.ctxs[t], out)
  PROVE  Neat(Answered(t, k, out), nt)
<1>1. PICK a : a = Answered(t, k, out)
  OBVIOUS
<1>p. PICK p : p = k.tids[t]
  OBVIOUS
<1>2. /\ a.tids = k.tids /\ a.sigs = [k.sigs EXCEPT ![p] = out.sg]
      /\ a.ctxs = [k.ctxs EXCEPT ![t] = out.ctx]
  BY <1>1, <1>p DEF Answered, Left
<1>3. /\ p \in DOMAIN k.sigs /\ t \in DOMAIN k.ctxs /\ DOMAIN k.tids = DOMAIN k.ctxs
      /\ \A u \in DOMAIN k.tids : k.tids[u] \in DOMAIN k.sigs
      /\ DOMAIN a.sigs = DOMAIN k.sigs /\ DOMAIN a.ctxs = DOMAIN k.ctxs
  BY <1>2, <1>p DEF Typed
<1>4. /\ a.sigs[p] = out.sg /\ a.ctxs[t] = out.ctx
      /\ \A q \in DOMAIN k.sigs : q # p => a.sigs[q] = k.sigs[q]
      /\ \A u \in DOMAIN k.ctxs : u # t => a.ctxs[u] = k.ctxs[u]
  BY <1>2, <1>3
<1>5. t \in 0 .. nt - 1 /\ t < nt
  BY DEF Typed
<1>6. /\ \A u \in DOMAIN k.ctxs : k.ctxs[u].of = u
      /\ \A q \in DOMAIN k.sigs : k.sigs[q].handling.kind = "user" =>
            /\ k.sigs[q].handling.saved.at = "program" /\ k.sigs[q].handling.saved.of < nt
      /\ \A u \in DOMAIN k.tids : k.ctxs[u].at # "program" <=>
            /\ k.sigs[k.tids[u]].handling.kind = "user"
            /\ k.sigs[k.tids[u]].handling.saved.of = u
  BY DEF Neat
<1>7. /\ out.ctx.of = k.ctxs[t].of
      /\ \/ out.ctx = k.ctxs[t] /\ out.sg.handling = k.sigs[p].handling
         \/ out.ctx = k.ctxs[t] /\ k.sigs[p].handling.kind # "user" /\ out.sg.handling.kind # "user"
         \/ /\ k.sigs[p].handling.kind # "user" /\ out.sg.handling.kind = "user"
            /\ out.sg.handling.saved = k.ctxs[t] /\ out.ctx.at # "program"
  <2>1. /\ out.ctx.of = k.ctxs[t].of
        /\ \/ out.ctx = k.ctxs[t] /\ out.sg.handling = k.sigs[p].handling
           \/ /\ out.ctx = k.ctxs[t] /\ k.sigs[p].handling.kind # "user"
              /\ out.sg.handling \in {Idle, Frozen}
           \/ /\ k.sigs[p].handling.kind # "user" /\ out.sg.handling = UserSignal(k.ctxs[t])
              /\ out.ctx.at # "program"
    BY <1>p DEF Handled
  <2>2. /\ Idle.kind # "user" /\ Frozen.kind # "user"
        /\ UserSignal(k.ctxs[t]).kind = "user" /\ UserSignal(k.ctxs[t]).saved = k.ctxs[t]
    BY DEF Idle, Frozen, UserSignal
  <2> QED BY <2>1, <2>2
<1>8. \A u \in DOMAIN a.ctxs : a.ctxs[u].of = u
  BY <1>3, <1>4, <1>6, <1>7
<1>9. /\ out.sg.handling.kind = "user" =>
            out.sg.handling.saved.at = "program" /\ out.sg.handling.saved.of < nt
      /\ \A u \in DOMAIN k.tids : k.tids[u] = p =>
            (a.ctxs[u].at # "program" <=> /\ out.sg.handling.kind = "user"
                                         /\ out.sg.handling.saved.of = u)
  <2>1. CASE out.ctx = k.ctxs[t] /\ out.sg.handling = k.sigs[p].handling
    BY <1>3, <1>4, <1>6, <2>1
  <2>2. CASE /\ out.ctx = k.ctxs[t] /\ k.sigs[p].handling.kind # "user"
             /\ out.sg.handling.kind # "user"
    BY <1>3, <1>4, <1>6, <2>2
  <2>3. CASE /\ k.sigs[p].handling.kind # "user" /\ out.sg.handling.kind = "user"
             /\ out.sg.handling.saved = k.ctxs[t] /\ out.ctx.at # "program"
    BY <1>p, <1>3, <1>4, <1>5, <1>6, <2>3
  <2> QED BY <1>7, <2>1, <2>2, <2>3
<1>10. \A q \in DOMAIN a.sigs : a.sigs[q].handling.kind = "user" =>
          /\ a.sigs[q].handling.saved.at = "program" /\ a.sigs[q].handling.saved.of < nt
  BY <1>3, <1>4, <1>6, <1>9
<1>11. \A u \in DOMAIN a.tids : a.ctxs[u].at # "program" <=>
          /\ a.sigs[a.tids[u]].handling.kind = "user"
          /\ a.sigs[a.tids[u]].handling.saved.of = u
  <2> SUFFICES ASSUME NEW u \in DOMAIN k.tids
               PROVE  a.ctxs[u].at # "program" <=>
                        /\ a.sigs[k.tids[u]].handling.kind = "user"
                        /\ a.sigs[k.tids[u]].handling.saved.of = u
    BY <1>2
  <2>1. CASE k.tids[u] = p
    BY <1>4, <1>9, <2>1
  <2>2. CASE k.tids[u] # p
    BY <1>p, <1>3, <1>4, <1>6, <2>2
  <2> QED BY <2>1, <2>2
<1> QED BY <1>1, <1>8, <1>10, <1>11 DEF Neat

\* The end of a thread, and of its process if it was the last.
LEMMA EndedTyped ==
  ASSUME NEW k, NEW np, NEW nt, NEW t \in DOMAIN k.tids, Typed(k, np, nt), ThreadEnds(t, k)
  PROVE  /\ Typed(Left(tid2pid', signals', ctx'), np, nt) /\ DOMAIN interrupted' = DOMAIN signals'
         /\ DOMAIN signals' \subseteq DOMAIN k.sigs /\ DOMAIN tid2pid' = DOMAIN k.tids \ {t}
         /\ \A u \in DOMAIN tid2pid' : tid2pid'[u] = k.tids[u] /\ ctx'[u] = k.ctxs[u]
         /\ interrupted' = [q \in DOMAIN signals' |-> interrupted'[q]]
         /\ \A q \in DOMAIN signals' : /\ signals'[q] = k.sigs[q]
                /\ interrupted'[q] = IF q \in DOMAIN interrupted THEN interrupted[q] ELSE 0
<1>p. PICK p : p = k.tids[t]
  OBVIOUS
<1>r. PICK of : of = {u \in DOMAIN k.tids : k.tids[u] = p}
  OBVIOUS
<1>i. PICK kept : kept = [q \in DOMAIN k.sigs |->
                            IF q \in DOMAIN interrupted THEN interrupted[q] ELSE 0]
  OBVIOUS
<1>k. DOMAIN kept = DOMAIN k.sigs
  BY <1>i
<1>1. /\ tid2pid' = Without(k.tids, t) /\ ctx' = Without(k.ctxs, t)
      /\ signals' = IF of = {t} THEN Without(k.sigs, p) ELSE k.sigs
      /\ interrupted' = IF of = {t} THEN Without(kept, p) ELSE kept
  BY <1>p, <1>r, <1>i DEF ThreadEnds
<1>2. /\ DOMAIN tid2pid' = DOMAIN k.tids \ {t} /\ DOMAIN ctx' = DOMAIN k.ctxs \ {t}
      /\ DOMAIN k.ctxs = DOMAIN k.tids
      /\ \A u \in DOMAIN k.tids : u # t => tid2pid'[u] = k.tids[u] /\ ctx'[u] = k.ctxs[u]
  BY <1>1, WithoutProperties DEF Typed
<1>3. \A q : q \in DOMAIN signals' <=> q \in DOMAIN k.sigs /\ ~(of = {t} /\ q = p)
  <2>1. CASE of = {t}
    <3>1. signals' = Without(k.sigs, p)
      BY <1>1, <2>1
    <3>2. DOMAIN signals' = DOMAIN k.sigs \ {p}
      BY <3>1, WithoutProperties
    <3> QED BY <1>k, <2>1, <3>2
  <2>2. CASE of # {t}
    BY <1>1, <2>2
  <2> QED BY <2>1, <2>2
<1>4. \A q \in DOMAIN signals' : signals'[q] = k.sigs[q]
  BY <1>1, <1>3, WithoutProperties
<1>6. \A q : q \in DOMAIN interrupted' <=> q \in DOMAIN k.sigs /\ ~(of = {t} /\ q = p)
  <2>1. CASE of = {t}
    <3>1. interrupted' = Without(kept, p)
      BY <1>1, <2>1
    <3>2. DOMAIN interrupted' = DOMAIN kept \ {p}
      BY <3>1, WithoutProperties
    <3> QED BY <1>k, <2>1, <3>2
  <2>2. CASE of # {t}
    BY <1>1, <1>k, <2>2
  <2> QED BY <2>1, <2>2
<1>7. \A q \in DOMAIN interrupted' : interrupted'[q] = kept[q]
  BY <1>1, <1>k, <1>6, WithoutProperties
<1>8. DOMAIN interrupted' = DOMAIN signals'
  BY <1>3, <1>6
<1>9. \A q \in DOMAIN signals' :
         interrupted'[q] = IF q \in DOMAIN interrupted THEN interrupted[q] ELSE 0
  BY <1>i, <1>3, <1>7, <1>8
\* A process is left exactly if it has a thread left.
<1>10. DOMAIN signals' = {tid2pid'[u] : u \in DOMAIN tid2pid'}
  <2>1. \A q : q \in DOMAIN k.sigs <=> \E u \in DOMAIN k.tids : q = k.tids[u]
    BY DEF Typed
  <2>2. \A q : (\E u \in DOMAIN tid2pid' : q = tid2pid'[u])
                <=> (\E u \in DOMAIN k.tids : u # t /\ q = k.tids[u])
    BY <1>2
  <2>3. of # {t} => \E u \in DOMAIN k.tids : u # t /\ k.tids[u] = p
    BY <1>p, <1>r
  <2>4. of = {t} => \A u \in DOMAIN k.tids : k.tids[u] = p => u = t
    BY <1>r
  <2>5. ASSUME NEW q PROVE q \in DOMAIN signals' <=> \E u \in DOMAIN k.tids : u # t /\ q = k.tids[u]
    <3>1. CASE q = p
      BY <1>3, <2>1, <2>3, <2>4, <3>1
    <3>2. CASE q # p
      BY <1>p, <1>3, <2>1, <3>2
    <3> QED BY <3>1, <3>2
  <2> QED BY <2>2, <2>5
<1>11. tid2pid' \in [DOMAIN tid2pid' -> 0 .. np - 1] /\ DOMAIN tid2pid' \subseteq 0 .. nt - 1
  <2>1. tid2pid' = [u \in DOMAIN tid2pid' |-> tid2pid'[u]]
    BY <1>1 DEF Without, Restrict
  <2> QED BY <1>2, <2>1 DEF Typed
<1>12. ctx' \in [DOMAIN ctx' -> Contexts]
  <2>1. ctx' = [u \in DOMAIN ctx' |-> ctx'[u]]
    BY <1>1 DEF Without, Restrict
  <2> QED BY <1>2, <2>1 DEF Typed
<1>13. signals' \in [DOMAIN signals' -> SignalImpls]
  <2>1. signals' = [q \in DOMAIN signals' |-> signals'[q]]
    BY <1>1 DEF Without, Restrict, Typed
  <2> QED BY <1>3, <1>4, <2>1 DEF Typed
<1>14. Typed(Left(tid2pid', signals', ctx'), np, nt)
  BY <1>2, <1>10, <1>11, <1>12, <1>13 DEF Typed, Now, Left
<1>15. interrupted' = [q \in DOMAIN signals' |-> interrupted'[q]]
  BY <1>i, <1>1, <1>8 DEF Without, Restrict
<1> QED BY <1>2, <1>3, <1>4, <1>8, <1>9, <1>14, <1>15

LEMMA EndedNeat ==
  ASSUME NEW k, NEW np, NEW nt, NEW t \in DOMAIN k.tids, Typed(k, np, nt), Neat(k, nt),
         ThreadEnds(t, k)
  PROVE  Neat(Left(tid2pid', signals', ctx'), nt)
<1>1. /\ Typed(Left(tid2pid', signals', ctx'), np, nt)
      /\ DOMAIN signals' \subseteq DOMAIN k.sigs /\ DOMAIN tid2pid' = DOMAIN k.tids \ {t}
      /\ \A u \in DOMAIN tid2pid' : tid2pid'[u] = k.tids[u] /\ ctx'[u] = k.ctxs[u]
      /\ \A q \in DOMAIN signals' : signals'[q] = k.sigs[q]
  BY EndedTyped
<1>2. /\ DOMAIN ctx' = DOMAIN tid2pid' /\ DOMAIN k.ctxs = DOMAIN k.tids
      /\ \A u \in DOMAIN tid2pid' : tid2pid'[u] \in DOMAIN signals'
  BY <1>1 DEF Typed, Now, Left
<1>3. \A u \in DOMAIN ctx' : ctx'[u].of = u
  BY <1>1, <1>2 DEF Neat
<1>4. \A q \in DOMAIN signals' : signals'[q].handling.kind = "user" =>
         signals'[q].handling.saved.at = "program" /\ signals'[q].handling.saved.of < nt
  BY <1>1 DEF Neat
<1>5. \A u \in DOMAIN tid2pid' : ctx'[u].at # "program" <=>
         /\ signals'[tid2pid'[u]].handling.kind = "user"
         /\ signals'[tid2pid'[u]].handling.saved.of = u
  BY <1>1, <1>2 DEF Neat
<1> QED BY <1>3, <1>4, <1>5 DEF Neat, Now, Left

\* What a call may leave for the rest of the trap: what is pending stays pending,
\* and a frozen process stays frozen.
Sound(t, k, ret) ==
  /\ Typed(k, next_pid', next_tid') /\ ret \in Values
  /\ t \in DOMAIN tid2pid /\ t \in DOMAIN k.tids /\ k.tids[t] = tid2pid[t]
  /\ next_pid' \in next_pid .. MaxPid + 1 /\ next_tid' \in next_tid .. MaxTid + 1
  /\ \A q \in DOMAIN signals :
       /\ q \in DOMAIN k.sigs /\ signals[q].received \subseteq k.sigs[q].received
       /\ signals[q].handling = Frozen <=> k.sigs[q].handling = Frozen

\* How a trap ends, with what handle_signals did.
Ends(t, k, ret, out) ==
  /\ Handled(k.sigs[k.tids[t]], k.ctxs[t], out)
  /\ \/ /\ out.kind = "panic" /\ panicked' = TRUE
        /\ signals' = [signals EXCEPT ![k.tids[t]] = k.sigs[k.tids[t]]]
        /\ UNCHANGED <<tid2pid, ctx, interrupted>>
     \/ ThreadEnds(t, Answered(t, k, out)) /\ UNCHANGED panicked
     \/ /\ tid2pid' = Answered(t, k, out).tids
        /\ signals' = Answered(t, k, out).sigs
        /\ ctx' = [Answered(t, k, out).ctxs EXCEPT ![t].a0 = ret]
        /\ DOMAIN interrupted' = DOMAIN signals'
        /\ interrupted' = [q \in DOMAIN signals' |-> interrupted'[q]]
        /\ \A q \in DOMAIN signals' : \/ q \in DOMAIN interrupted /\ interrupted'[q] = interrupted[q]
                                     \/ interrupted'[q] \in {ret, 0}
        /\ UNCHANGED panicked

LEMMA TrapEnds ==
  ASSUME TypeOK, NEW t, NEW k, NEW ret, NEW exits, Sound(t, k, ret), EndTrap(t, k, ret, exits)
  PROVE  \E out : Ends(t, k, ret, out)
<1>p. PICK p : p = k.tids[t]
  OBVIOUS
<1>1. PICK out : out = HandleSignals(k.sigs[p], k.ctxs[t])
  OBVIOUS
<1>2. k.sigs[p] \in SignalImpls /\ k.ctxs[t] \in Contexts
  BY <1>p DEF Sound, Typed
<1>3. Handled(k.sigs[p], k.ctxs[t], out)
  BY <1>1, <1>2, HandleSignalsDoes
<1>4. PICK a : a = Answered(t, k, out)
  OBVIOUS
<1>5. a = Left(k.tids, [k.sigs EXCEPT ![p] = out.sg], [k.ctxs EXCEPT ![t] = out.ctx])
  BY <1>p, <1>4 DEF Answered
<1>6. \/ /\ out.kind = "panic" /\ panicked' = TRUE
         /\ signals' = [signals EXCEPT ![p] = k.sigs[p]]
         /\ UNCHANGED <<tid2pid, ctx, interrupted>>
      \/ ThreadEnds(t, a) /\ UNCHANGED panicked
      \/ /\ tid2pid' = a.tids /\ signals' = a.sigs
         /\ ctx' = [a.ctxs EXCEPT ![t].a0 = ret]
         /\ interrupted' = [q \in DOMAIN a.sigs |->
                IF q = p /\ (signals[p].handling = Idle /\ out.sg.handling.kind = "user") THEN ret
                ELSE IF q \in DOMAIN interrupted THEN interrupted[q] ELSE 0]
         /\ UNCHANGED panicked
  BY <1>p, <1>1, <1>5, Zenon DEF EndTrap
<1>7. CASE /\ tid2pid' = a.tids /\ signals' = a.sigs
           /\ ctx' = [a.ctxs EXCEPT ![t].a0 = ret]
           /\ interrupted' = [q \in DOMAIN a.sigs |->
                IF q = p /\ (signals[p].handling = Idle /\ out.sg.handling.kind = "user") THEN ret
                ELSE IF q \in DOMAIN interrupted THEN interrupted[q] ELSE 0]
           /\ UNCHANGED panicked
  <2>1. DOMAIN interrupted' = DOMAIN signals'
    BY <1>7
  <2>2. interrupted' = [q \in DOMAIN signals' |-> interrupted'[q]]
    BY <1>7
  <2>3. \A q \in DOMAIN signals' : \/ q \in DOMAIN interrupted /\ interrupted'[q] = interrupted[q]
                                   \/ interrupted'[q] \in {ret, 0}
    BY <1>7
  <2> QED BY <1>p, <1>3, <1>4, <1>7, <2>1, <2>2, <2>3 DEF Ends
<1> QED BY <1>p, <1>3, <1>4, <1>6, <1>7 DEF Ends

\* TypeOK in the form of Typed.
LEMMA TypeIsTyped ==
  TypeOK <=> /\ Typed(Now, next_pid, next_tid)
             /\ next_pid \in 1 .. MaxPid + 1 /\ next_tid \in 1 .. MaxTid + 1
             /\ DOMAIN interrupted = DOMAIN signals
             /\ interrupted \in [DOMAIN signals -> Values]
             /\ panicked \in BOOLEAN
  BY Zenon DEF TypeOK, Typed, Now, Left

LEMMA TypeIsTypedAfter ==
  TypeOK' <=> /\ Typed(Now, next_pid, next_tid)'
              /\ next_pid' \in 1 .. MaxPid + 1 /\ next_tid' \in 1 .. MaxTid + 1
              /\ DOMAIN interrupted' = DOMAIN signals'
              /\ interrupted' \in [DOMAIN signals' -> Values]
              /\ panicked' \in BOOLEAN
  BY Zenon DEF TypeOK, Typed, Now, Left

LEMMA WiderTyped ==
  ASSUME NEW k, NEW np \in Int, NEW nt \in Int, NEW np2 \in Int, NEW nt2 \in Int,
         Typed(k, np, nt), np <= np2, nt <= nt2
  PROVE  Typed(k, np2, nt2)
<1>1. 0 .. np - 1 \subseteq 0 .. np2 - 1 /\ 0 .. nt - 1 \subseteq 0 .. nt2 - 1
  OBVIOUS
<1>2. k.tids \in [DOMAIN k.tids -> 0 .. np2 - 1]
  BY <1>1 DEF Typed
<1> QED BY <1>1, <1>2 DEF Typed

LEMMA AfterTrapTyped ==
  ASSUME TypeOK, NEW t, NEW k, NEW ret, NEW exits, Sound(t, k, ret), EndTrap(t, k, ret, exits)
  PROVE  TypeOK'
<1>1. PICK out : Ends(t, k, ret, out)
  BY TrapEnds
<1>2. PICK a : a = Answered(t, k, out)
  OBVIOUS
<1>3. Typed(a, next_pid', next_tid') /\ t \in DOMAIN a.tids
  BY <1>1, <1>2, AnsweredTyped DEF Sound, Ends, Handled, Answered, Left
<1>4. /\ next_pid' \in 1 .. MaxPid + 1 /\ next_tid' \in 1 .. MaxTid + 1
      /\ next_pid' \in Int /\ next_tid' \in Int /\ next_pid \in Int /\ next_tid \in Int
      /\ next_pid <= next_pid' /\ next_tid <= next_tid'
  BY BoundAssumption, TypeIsTyped DEF Sound
<1>5. /\ DOMAIN interrupted = DOMAIN signals /\ interrupted \in [DOMAIN signals -> Values]
      /\ panicked \in BOOLEAN /\ 0 \in Values /\ ret \in Values
  BY TypeIsTyped DEF Sound, Values
<1>6. CASE /\ out.kind = "panic" /\ panicked' = TRUE
           /\ signals' = [signals EXCEPT ![k.tids[t]] = k.sigs[k.tids[t]]]
           /\ UNCHANGED <<tid2pid, ctx, interrupted>>
  <2>1. Typed(Now, next_pid', next_tid')
    BY <1>4, TypeIsTyped, WiderTyped
  <2>2. k.sigs[k.tids[t]] \in SignalImpls
    BY DEF Sound, Typed
  <2>3. signals \in [DOMAIN signals -> SignalImpls]
    BY <2>1 DEF Typed, Now, Left
  <2>4. DOMAIN signals' = DOMAIN signals /\ signals' \in [DOMAIN signals -> SignalImpls]
    BY <1>6, <2>2, <2>3
  <2>5. Typed(Now, next_pid, next_tid)'
    BY <1>6, <2>1, <2>4 DEF Typed, Now, Left
  <2> QED BY <1>4, <1>5, <1>6, <2>4, <2>5, TypeIsTypedAfter
<1>7. CASE ThreadEnds(t, a) /\ UNCHANGED panicked
  <2>1. /\ Typed(Left(tid2pid', signals', ctx'), next_pid', next_tid') /\ DOMAIN interrupted' = DOMAIN signals'
        /\ interrupted' = [q \in DOMAIN signals' |-> interrupted'[q]]
        /\ \A q \in DOMAIN signals' :
              interrupted'[q] = IF q \in DOMAIN interrupted THEN interrupted[q] ELSE 0
    BY <1>3, <1>7, EndedTyped
  <2>3. interrupted' \in [DOMAIN signals' -> Values]
    BY <1>5, <2>1
  <2>4. Typed(Now, next_pid, next_tid)'
    BY <2>1 DEF Now
  <2> QED BY <1>4, <1>5, <1>7, <2>1, <2>3, <2>4, TypeIsTypedAfter
<1>8. CASE /\ tid2pid' = a.tids /\ signals' = a.sigs
           /\ ctx' = [a.ctxs EXCEPT ![t].a0 = ret]
           /\ DOMAIN interrupted' = DOMAIN signals'
           /\ interrupted' = [q \in DOMAIN signals' |-> interrupted'[q]]
           /\ \A q \in DOMAIN signals' : \/ q \in DOMAIN interrupted /\ interrupted'[q] = interrupted[q]
                                        \/ interrupted'[q] \in {ret, 0}
           /\ UNCHANGED panicked
  <2>1. interrupted' \in [DOMAIN signals' -> Values]
    BY <1>5, <1>8
  <2>2. DOMAIN ctx' = DOMAIN a.ctxs /\ ctx' \in [DOMAIN a.ctxs -> Contexts]
    <3>1. a.ctxs \in [DOMAIN a.ctxs -> Contexts] /\ t \in DOMAIN a.ctxs
      BY <1>3 DEF Typed
    <3>2. [a.ctxs[t] EXCEPT !.a0 = ret] \in Contexts
      BY <1>5, <3>1 DEF Contexts
    <3> QED BY <1>8, <3>1, <3>2
  <2>3. Typed(Now, next_pid, next_tid)'
    BY <1>3, <1>8, <2>2 DEF Typed, Now, Left
  <2> QED BY <1>4, <1>5, <1>8, <2>1, <2>3, TypeIsTypedAfter
<1> QED BY <1>1, <1>2, <1>6, <1>7, <1>8 DEF Ends

LEMMA NeatIsOwnContext ==
  ASSUME Neat(Now, next_tid)' PROVE OwnContext'
  BY DEF Neat, Now, Left, OwnContext

LEMMA AfterTrapNeat ==
  ASSUME SignalInv, ~panicked, NEW t, NEW k, NEW ret, NEW exits, Sound(t, k, ret),
         Neat(k, next_tid'), EndTrap(t, k, ret, exits)
  PROVE  SignalInv'
<1>1. PICK out : Ends(t, k, ret, out)
  BY TrapEnds DEF SignalInv
<1>2. PICK a : a = Answered(t, k, out)
  OBVIOUS
<1>3. TypeOK /\ TypeOK' /\ next_tid' \in Nat
  <2>1. TypeOK /\ TypeOK'
    BY AfterTrapTyped DEF SignalInv
  <2> QED BY <2>1, BoundAssumption DEF TypeOK
<1>4. /\ Typed(a, next_pid', next_tid') /\ t \in DOMAIN a.tids
      /\ Neat(a, next_tid')
  <2>1. Handled(k.sigs[k.tids[t]], k.ctxs[t], out)
    BY <1>1 DEF Ends
  <2>2. /\ out.sg \in SignalImpls /\ out.ctx \in Contexts
        /\ Typed(k, next_pid', next_tid') /\ t \in DOMAIN k.tids
    BY <2>1 DEF Handled, Sound
  <2>3. Typed(a, next_pid', next_tid') /\ t \in DOMAIN a.tids
    BY <1>2, <2>2, AnsweredTyped DEF Answered, Left
  <2>4. Neat(a, next_tid')
    BY <1>2, <1>3, <2>1, <2>2, AnsweredNeat
  <2> QED BY <2>3, <2>4
<1>5. CASE /\ out.kind = "panic" /\ panicked' = TRUE
           /\ signals' = [signals EXCEPT ![k.tids[t]] = k.sigs[k.tids[t]]]
           /\ UNCHANGED <<tid2pid, ctx, interrupted>>
  <2>1. PICK p : p = k.tids[t]
    OBVIOUS
  <2>2. p \in DOMAIN k.sigs /\ p \in DOMAIN signals
    BY <1>3, <2>1 DEF Sound, Typed, TypeOK
  <2>3. /\ DOMAIN signals' = DOMAIN signals /\ signals'[p] = k.sigs[p]
        /\ \A q \in DOMAIN signals : q # p => signals'[q] = signals[q]
    BY <1>5, <2>1, <2>2
  <2>4. \E x \in signals'[p].received : x > MaxSig
    BY <1>1, <1>5, <2>1, <2>3 DEF Ends, Handled
  <2>5. OwnContext'
    <3>1. OwnContext /\ ctx' = ctx
      BY <1>5 DEF SignalInv
    <3>2. k.sigs[p].handling.kind = "user" => k.sigs[p].handling.saved.at = "program"
      BY <2>2 DEF Neat
    <3> QED BY <2>2, <2>3, <3>1, <3>2 DEF OwnContext
  <2> QED BY <1>3, <1>5, <2>2, <2>3, <2>4, <2>5 DEF SignalInv
<1>6. CASE ThreadEnds(t, a) /\ UNCHANGED panicked
  <2>1. Neat(Left(tid2pid', signals', ctx'), next_tid')
    BY <1>4, <1>6, EndedNeat
  <2>2. Neat(Now, next_tid)'
    BY <2>1 DEF Now
  <2> QED BY <1>3, <1>6, <2>2, NeatIsOwnContext DEF SignalInv
<1>7. CASE /\ tid2pid' = a.tids /\ signals' = a.sigs /\ ctx' = [a.ctxs EXCEPT ![t].a0 = ret]
           /\ UNCHANGED panicked
  <2>1. /\ DOMAIN ctx' = DOMAIN a.ctxs /\ DOMAIN a.tids = DOMAIN a.ctxs
        /\ \A u \in DOMAIN a.ctxs : ctx'[u].of = a.ctxs[u].of /\ ctx'[u].at = a.ctxs[u].at
    <3>1. a.ctxs[t] \in Contexts /\ DOMAIN a.tids = DOMAIN a.ctxs
      BY <1>4 DEF Typed
    <3>2. /\ [a.ctxs[t] EXCEPT !.a0 = ret].of = a.ctxs[t].of
          /\ [a.ctxs[t] EXCEPT !.a0 = ret].at = a.ctxs[t].at
      BY <3>1 DEF Contexts
    <3> QED BY <1>7, <3>1, <3>2
  <2>2. \A u \in DOMAIN ctx' : ctx'[u].of = u
    BY <1>4, <2>1 DEF Neat
  <2>3. \A u \in DOMAIN tid2pid' : ctx'[u].at # "program" <=>
           /\ signals'[tid2pid'[u]].handling.kind = "user"
           /\ signals'[tid2pid'[u]].handling.saved.of = u
    BY <1>4, <1>7, <2>1 DEF Neat
  <2>4. Neat(Now, next_tid)'
    BY <1>4, <1>7, <2>2, <2>3 DEF Neat, Now, Left
  <2> QED BY <1>3, <1>7, <2>4, NeatIsOwnContext DEF SignalInv
<1> QED BY <1>1, <1>2, <1>5, <1>6, <1>7 DEF Ends

\* The lowest of a set is the lowest of the part of the set that it is in.
LEMMA MinOfPart ==
  ASSUME NEW S \in SUBSET Nat, NEW T \in SUBSET S, Min(S) \in T
  PROVE  Min(T) = Min(S)
<1>1. /\ Min(S) \in S /\ \A y \in S : Min(S) <= y
      /\ Min(T) \in T /\ \A y \in T : Min(T) <= y
  BY MinMember
<1>2. PICK m, n : m = Min(S) /\ n = Min(T)
  OBVIOUS
<1>3. m \in Nat /\ n \in Nat /\ m <= n /\ n <= m
  BY <1>1, <1>2
<1> QED BY <1>2, <1>3

LEMMA AfterTrapInOrder ==
  ASSUME TypeOK, NEW t, NEW k, NEW ret, NEW exits, Sound(t, k, ret), EndTrap(t, k, ret, exits),
         NEW q \in DOMAIN signals, q \in DOMAIN signals'
  PROVE  InOrder(q)
<1>1. PICK out : Ends(t, k, ret, out)
  BY TrapEnds
<1>2. PICK a : a = Answered(t, k, out)
  OBVIOUS
<1>p. PICK p : p = k.tids[t]
  OBVIOUS
<1>3. /\ q \in DOMAIN k.sigs /\ signals[q].received \subseteq k.sigs[q].received
      /\ (signals[q].handling = Frozen <=> k.sigs[q].handling = Frozen)
      /\ p \in DOMAIN k.sigs /\ k.sigs[p] \in SignalImpls
  BY <1>p DEF Sound, Typed
<1>4. Handled(k.sigs[p], k.ctxs[t], out)
  BY <1>1, <1>p DEF Ends
<1>5. \/ q = p /\ signals'[q] = out.sg
      \/ signals'[q] = k.sigs[q] \/ signals'[q] = signals[q]
  <2>1. DOMAIN a.sigs = DOMAIN k.sigs /\ a.sigs[p] = out.sg /\ (q # p => a.sigs[q] = k.sigs[q])
    BY <1>2, <1>p, <1>3 DEF Answered, Left
  <2>2. CASE signals' = [signals EXCEPT ![p] = k.sigs[p]]
    BY <2>2
  <2>3. CASE ThreadEnds(t, a)
    <3>1. Typed(a, next_pid', next_tid') /\ t \in DOMAIN a.tids
      BY <1>1, <1>2, AnsweredTyped DEF Sound, Ends, Handled, Answered, Left
    <3>2. signals'[q] = a.sigs[q]
      BY <2>3, <3>1, EndedTyped
    <3> QED BY <2>1, <3>2
  <2>4. CASE signals' = a.sigs
    BY <2>1, <2>4
  <2> QED BY <1>1, <1>2, <1>p, <2>2, <2>3, <2>4 DEF Ends
<1>6. CASE signals'[q] = k.sigs[q] \/ signals'[q] = signals[q]
  BY <1>3, <1>6 DEF InOrder
<1>7. CASE q = p /\ signals'[q] = out.sg
  <2>1. SUFFICES ASSUME NEW x \in signals[p].received, x \notin out.sg.received
                 PROVE  /\ signals[p].received \ out.sg.received = {x} /\ x \notin out.sg.mask
                        /\ IF signals[p].handling = Frozen THEN x = SIGCONT
                           ELSE x = Min(signals[p].received \ out.sg.mask)
    BY <1>7 DEF InOrder
  <2>2. x \in k.sigs[p].received \ out.sg.received
    BY <1>3, <1>7, <2>1
  <2>3. /\ k.sigs[p].received \ out.sg.received = {x} /\ x \notin k.sigs[p].mask
        /\ out.sg.mask = k.sigs[p].mask
        /\ IF k.sigs[p].handling = Frozen THEN x = SIGCONT
           ELSE x = Min(k.sigs[p].received \ k.sigs[p].mask)
    BY <1>4, <2>2 DEF Handled
  <2>4. signals[p].received \ out.sg.received = {x} /\ x \notin out.sg.mask
    BY <1>3, <1>7, <2>1, <2>3
  <2>5. ASSUME signals[p].handling # Frozen PROVE x = Min(signals[p].received \ out.sg.mask)
    <3>1. x = Min(k.sigs[p].received \ out.sg.mask)
      BY <1>3, <1>7, <2>3, <2>5
    <3>2. /\ (k.sigs[p].received \ out.sg.mask) \in SUBSET Nat
          /\ (signals[p].received \ out.sg.mask) \in SUBSET (k.sigs[p].received \ out.sg.mask)
          /\ x \in signals[p].received \ out.sg.mask
      BY <1>3, <1>7, <2>1, <2>4, SignalAssumption DEF SignalImpls
    <3> QED BY <3>1, <3>2, MinOfPart
  <2> QED BY <1>3, <1>7, <2>3, <2>4, <2>5
<1> QED BY <1>5, <1>6, <1>7

----------------------------------------------------------------------------
\* What the calls leave for the rest of the trap.

\* The trap of t goes on soundly, and neatly if the program is tidy.
Continues(t, tidy) ==
  \E k, ret, exits :
    /\ Sound(t, k, ret) /\ EndTrap(t, k, ret, exits)
    /\ tidy /\ Neat(Now, next_tid) => Neat(k, next_tid')

LEMMA CalledProperties ==
  ASSUME TypeOK, NEW t, Traps(t)
  PROVE  /\ DOMAIN Called(t) = DOMAIN ctx /\ Called(t) \in [DOMAIN ctx -> Contexts]
         /\ DOMAIN ctx = DOMAIN tid2pid /\ t \in DOMAIN tid2pid /\ tid2pid[t] \in DOMAIN signals
         /\ \A u \in DOMAIN ctx : Called(t)[u].of = ctx[u].of /\ Called(t)[u].at = ctx[u].at
<1>1. t \in DOMAIN ctx /\ DOMAIN ctx = DOMAIN tid2pid /\ ctx \in [DOMAIN ctx -> Contexts]
  BY DEF Traps, TypeOK
<1>2. Called(t) = [ctx EXCEPT ![t] = [ctx[t] EXCEPT !.a0 = Arg]]
  BY DEF Called
<1>3. /\ [ctx[t] EXCEPT !.a0 = Arg] \in Contexts
      /\ [ctx[t] EXCEPT !.a0 = Arg].of = ctx[t].of /\ [ctx[t] EXCEPT !.a0 = Arg].at = ctx[t].at
  BY <1>1 DEF Contexts, Values
<1>4. DOMAIN Called(t) = DOMAIN ctx /\ Called(t) \in [DOMAIN ctx -> Contexts]
  BY <1>1, <1>2, <1>3
<1>5. \A u \in DOMAIN ctx : Called(t)[u].of = ctx[u].of /\ Called(t)[u].at = ctx[u].at
  BY <1>1, <1>2, <1>3
<1> QED BY <1>1, <1>4, <1>5 DEF Traps, TypeOK

\* Of the signals only what is pending, the masks and the actions change.
SignalsKept(sigs) ==
  /\ DOMAIN sigs = DOMAIN signals /\ sigs \in [DOMAIN signals -> SignalImpls]
  /\ \A q \in DOMAIN signals : /\ sigs[q].handling = signals[q].handling
                              /\ signals[q].received \subseteq sigs[q].received

LEMMA CallContinues ==
  ASSUME TypeOK, NEW t, Traps(t), NEW sigs, SignalsKept(sigs), NEW ret \in Values, NEW exits,
         EndTrap(t, Left(tid2pid, sigs, Called(t)), ret, exits),
         UNCHANGED <<next_pid, next_tid>>
  PROVE  Continues(t, TRUE)
<1>1. PICK k : k = Left(tid2pid, sigs, Called(t))
  OBVIOUS
<1>2. k.tids = tid2pid /\ k.sigs = sigs /\ k.ctxs = Called(t)
  BY <1>1 DEF Left
<1>3. /\ DOMAIN k.ctxs = DOMAIN ctx /\ k.ctxs \in [DOMAIN ctx -> Contexts]
      /\ DOMAIN ctx = DOMAIN tid2pid /\ t \in DOMAIN tid2pid
      /\ \A u \in DOMAIN ctx : k.ctxs[u].of = ctx[u].of /\ k.ctxs[u].at = ctx[u].at
  BY <1>2, CalledProperties
<1>4. Typed(k, next_pid', next_tid')
  BY <1>2, <1>3 DEF TypeOK, Typed, SignalsKept
<1>5. next_pid' \in next_pid .. MaxPid + 1 /\ next_tid' \in next_tid .. MaxTid + 1
  BY BoundAssumption DEF TypeOK
<1>6. Sound(t, k, ret)
  BY <1>2, <1>3, <1>4, <1>5 DEF Sound, SignalsKept
<1>7. ASSUME Neat(Now, next_tid) PROVE Neat(k, next_tid')
  <2>1. \A u \in DOMAIN tid2pid : tid2pid[u] \in DOMAIN signals
    BY DEF TypeOK
  <2>2. \A u \in DOMAIN k.ctxs : k.ctxs[u].of = u
    BY <1>3, <1>7 DEF Neat, Now, Left
  <2>3. \A q \in DOMAIN k.sigs : k.sigs[q].handling.kind = "user" =>
          k.sigs[q].handling.saved.at = "program" /\ k.sigs[q].handling.saved.of < next_tid'
    BY <1>2, <1>7 DEF Neat, Now, Left, SignalsKept
  <2>4. \A u \in DOMAIN k.tids : k.ctxs[u].at # "program" <=>
          k.sigs[k.tids[u]].handling.kind = "user" /\ k.sigs[k.tids[u]].handling.saved.of = u
    BY <1>2, <1>3, <1>7, <2>1 DEF Neat, Now, Left, SignalsKept
  <2> QED BY <2>2, <2>3, <2>4 DEF Neat
<1> QED BY <1>1, <1>6, <1>7 DEF Continues

\* Of one process something is set.
LEMMA SignalsSet ==
  ASSUME TypeOK, NEW p \in DOMAIN signals, NEW sg \in SignalImpls,
         sg.handling = signals[p].handling, signals[p].received \subseteq sg.received
  PROVE  SignalsKept([signals EXCEPT ![p] = sg])
<1>1. signals \in [DOMAIN signals -> SignalImpls]
  BY DEF TypeOK
<1>2. PICK sigs : sigs = [signals EXCEPT ![p] = sg]
  OBVIOUS
<1>3. DOMAIN sigs = DOMAIN signals /\ sigs \in [DOMAIN signals -> SignalImpls]
  BY <1>1, <1>2
<1>4. \A q \in DOMAIN signals : sigs[q] = IF q = p THEN sg ELSE signals[q]
  BY <1>2
<1> QED BY <1>2, <1>3, <1>4 DEF SignalsKept

\* A thread starts in process pp, old or new, whose id nobody saved yet.
NewThread(pp, sigs, c) ==
  /\ c \in Contexts /\ c.of = next_tid
  /\ next_tid <= MaxTid /\ next_tid' = next_tid + 1
  /\ next_pid' \in next_pid .. MaxPid + 1 /\ pp \in 0 .. next_pid' - 1
  /\ DOMAIN sigs = DOMAIN signals \cup {pp} /\ sigs \in [DOMAIN sigs -> SignalImpls]
  /\ \A q \in DOMAIN signals : sigs[q] = signals[q]
  /\ pp \in DOMAIN signals \/ sigs[pp].handling = Idle

LEMMA NewThreadContinues ==
  ASSUME TypeOK, NEW t, Traps(t), NEW pp, NEW sigs, NEW c, NewThread(pp, sigs, c), NEW exits,
         EndTrap(t, Left(With(tid2pid, next_tid, pp), sigs, With(Called(t), next_tid, c)), Data, exits)
  PROVE  Continues(t, c.at = "program")
<1> USE DEF NewThread
<1>1. PICK k : k = Left(With(tid2pid, next_tid, pp), sigs, With(Called(t), next_tid, c))
  OBVIOUS
<1>2. PICK n : n = next_tid
  OBVIOUS
<1>3. k.tids = With(tid2pid, n, pp) /\ k.sigs = sigs /\ k.ctxs = With(Called(t), n, c)
  BY <1>1, <1>2 DEF Left
<1>4. /\ n \in 1 .. MaxTid /\ n \in Nat /\ next_tid' = n + 1 /\ DOMAIN tid2pid \subseteq 0 .. n - 1
      /\ n \notin DOMAIN tid2pid /\ next_pid \in 1 .. MaxPid + 1 /\ next_pid' \in Int
      /\ next_pid <= next_pid'
  BY <1>2, BoundAssumption DEF TypeOK
<1>5. /\ DOMAIN Called(t) = DOMAIN tid2pid /\ Called(t) \in [DOMAIN tid2pid -> Contexts]
      /\ t \in DOMAIN tid2pid /\ DOMAIN ctx = DOMAIN tid2pid
      /\ \A u \in DOMAIN tid2pid : Called(t)[u].of = ctx[u].of /\ Called(t)[u].at = ctx[u].at
  BY CalledProperties
<1>6. /\ DOMAIN k.tids = DOMAIN tid2pid \cup {n} /\ DOMAIN k.ctxs = DOMAIN tid2pid \cup {n}
      /\ k.tids[n] = pp /\ k.ctxs[n] = c
      /\ \A u \in DOMAIN tid2pid : k.tids[u] = tid2pid[u] /\ k.ctxs[u] = Called(t)[u]
  <2>1. /\ DOMAIN k.tids = DOMAIN tid2pid \cup {n} /\ k.tids[n] = pp
        /\ \A u \in DOMAIN tid2pid : u # n => k.tids[u] = tid2pid[u]
    BY <1>3 DEF With
  <2>2. /\ DOMAIN k.ctxs = DOMAIN Called(t) \cup {n} /\ k.ctxs[n] = c
        /\ \A u \in DOMAIN Called(t) : u # n => k.ctxs[u] = Called(t)[u]
    BY <1>3 DEF With
  <2> QED BY <1>4, <1>5, <2>1, <2>2
<1>7. /\ DOMAIN signals = {tid2pid[u] : u \in DOMAIN tid2pid}
      /\ tid2pid \in [DOMAIN tid2pid -> 0 .. next_pid - 1]
  BY DEF TypeOK
<1>8. Typed(k, next_pid', next_tid')
  <2>1. k.tids = [u \in DOMAIN k.tids |-> k.tids[u]] /\ k.ctxs = [u \in DOMAIN k.ctxs |-> k.ctxs[u]]
    BY <1>3 DEF With
  <2>2. \A u \in DOMAIN tid2pid : tid2pid[u] \in 0 .. next_pid' - 1
    BY <1>4, <1>7
  <2>3. k.tids \in [DOMAIN k.tids -> 0 .. next_pid' - 1]
    BY <1>6, <2>1, <2>2
  <2>4. k.ctxs \in [DOMAIN k.ctxs -> Contexts]
    BY <1>5, <1>6, <2>1
  <2>5. DOMAIN k.tids \subseteq 0 .. next_tid' - 1
    BY <1>4, <1>6
  <2>6. DOMAIN k.sigs = {k.tids[u] : u \in DOMAIN k.tids}
    BY <1>3, <1>6, <1>7
  <2> QED BY <1>3, <1>6, <2>3, <2>4, <2>5, <2>6 DEF Typed
<1>9. Sound(t, k, Data)
  <2>1. next_tid' \in next_tid .. MaxTid + 1 /\ Data \in Values
    BY <1>2, <1>4, BoundAssumption DEF Values
  <2>2. \A q \in DOMAIN signals : q \in DOMAIN k.sigs /\ k.sigs[q] = signals[q]
    BY <1>3
  <2> QED BY <1>5, <1>6, <1>8, <2>1, <2>2 DEF Sound
<1>10. ASSUME c.at = "program", Neat(Now, next_tid) PROVE Neat(k, next_tid')
  <2>1. /\ \A u \in DOMAIN ctx : ctx[u].of = u
        /\ \A q \in DOMAIN signals : signals[q].handling.kind = "user" =>
              signals[q].handling.saved.at = "program" /\ signals[q].handling.saved.of < n
        /\ \A u \in DOMAIN tid2pid : ctx[u].at # "program" <=>
              signals[tid2pid[u]].handling.kind = "user" /\ signals[tid2pid[u]].handling.saved.of = u
    BY <1>2, <1>10 DEF Neat, Now, Left
  <2>2. \A u \in DOMAIN k.ctxs : k.ctxs[u].of = u
    BY <1>2, <1>5, <1>6, <2>1
  <2>3. /\ pp \notin DOMAIN signals => sigs[pp].handling.kind # "user"
        /\ \A q \in DOMAIN signals : signals[q].handling.kind = "user" =>
             signals[q].handling.saved.of \in Nat
    <3>1. Idle.kind # "user"
      BY DEF Idle
    <3>2. ASSUME NEW q \in DOMAIN signals, signals[q].handling.kind = "user"
          PROVE  signals[q].handling.saved.of \in Nat
      <4>1. signals[q].handling \in {Idle, Frozen} \cup {UserSignal(d) : d \in Contexts}
        BY DEF TypeOK, SignalImpls
      <4>2. PICK d \in Contexts : signals[q].handling = UserSignal(d)
        BY <3>2, <4>1 DEF Idle, Frozen
      <4> QED BY <4>2, BoundAssumption DEF UserSignal, Contexts, Tids
    <3> QED BY <3>1, <3>2
  <2>4. \A q \in DOMAIN k.sigs : k.sigs[q].handling.kind = "user" =>
          k.sigs[q].handling.saved.at = "program" /\ k.sigs[q].handling.saved.of < next_tid'
    <3> SUFFICES ASSUME NEW q \in DOMAIN sigs, sigs[q].handling.kind = "user"
                 PROVE  sigs[q].handling.saved.at = "program" /\ sigs[q].handling.saved.of < n + 1
      BY <1>3, <1>4
    <3>1. q \in DOMAIN signals /\ sigs[q] = signals[q]
      BY <2>3
    <3> QED BY <1>4, <2>1, <2>3, <3>1
  <2>5. \A u \in DOMAIN tid2pid : k.ctxs[u].at # "program" <=>
          k.sigs[k.tids[u]].handling.kind = "user" /\ k.sigs[k.tids[u]].handling.saved.of = u
    BY <1>3, <1>5, <1>6, <1>7, <2>1
  <2>6. ~(k.sigs[pp].handling.kind = "user" /\ k.sigs[pp].handling.saved.of = n)
    <3>1. CASE pp \in DOMAIN signals
      BY <1>3, <1>4, <2>1, <2>3, <3>1
    <3>2. CASE pp \notin DOMAIN signals
      BY <1>3, <2>3, <3>2
    <3> QED BY <3>1, <3>2
  <2>7. \A u \in DOMAIN k.tids : k.ctxs[u].at # "program" <=>
          k.sigs[k.tids[u]].handling.kind = "user" /\ k.sigs[k.tids[u]].handling.saved.of = u
    BY <1>6, <1>10, <2>5, <2>6
  <2> QED BY <2>2, <2>4, <2>7 DEF Neat
<1> QED BY <1>1, <1>9, <1>10 DEF Continues

LEMMA PlainCallContinues ==
  ASSUME TypeOK, NEW t, PlainCall(t), ~Fault(t)
  PROVE  Continues(t, TRUE)
<1>v. Data \in Values /\ -1 \in Values /\ 0 \in Values
  BY DEF Values
<1>t. /\ \A p \in DOMAIN signals : signals[p] \in SignalImpls
      /\ SignalsKept(signals)
  BY DEF TypeOK, SignalsKept
<1>o. Traps(t) => Own(t) \in DOMAIN signals
  BY CalledProperties DEF Own
<1>1. CASE OtherCall(t)
  BY <1>1, <1>v, <1>t, CallContinues DEF OtherCall, Call
<1>2. CASE Exit(t)
  BY <1>2, <1>v, <1>t, CallContinues DEF Exit
<1>3. ASSUME NEW p \in Pids, NEW x \in Sent, Kill(t, p, x) PROVE Continues(t, TRUE)
  <2>1. PICK sg : sg = [signals[p] EXCEPT !.received = @ \cup {x}]
    OBVIOUS
  <2>2. p \in DOMAIN signals /\ signals[p] \in SignalImpls
    BY <1>3, <1>t DEF Kill
  <2>3. /\ sg \in SignalImpls /\ sg.handling = signals[p].handling
        /\ signals[p].received \subseteq sg.received
    BY <2>1, <2>2 DEF SignalImpls
  <2>4. SignalsKept([signals EXCEPT ![p] = sg])
    BY <2>2, <2>3, SignalsSet
  <2>5. [signals EXCEPT ![p].received = @ \cup {x}] = [signals EXCEPT ![p] = sg]
    BY <2>1
  <2> QED BY <1>3, <1>v, <2>4, <2>5, CallContinues DEF Kill, Call
<1>4. ASSUME NEW x \in Caught, NEW action \in {"user", "zero"}, SigAction(t, x, action)
      PROVE  Continues(t, TRUE)
  <2>1. PICK p, sg : p = Own(t) /\ sg = [signals[p] EXCEPT !.actions[x] = action]
    OBVIOUS
  <2>2. p \in DOMAIN signals /\ signals[p] \in SignalImpls /\ x \in Sent
    BY <1>4, <1>t, <1>o, <2>1, SignalAssumption DEF SigAction
  <2>3. [signals[p].actions EXCEPT ![x] = action] \in [Sent -> {"default", "user", "zero"}]
    BY <2>2 DEF SignalImpls
  <2>4. /\ sg \in SignalImpls /\ sg.handling = signals[p].handling
        /\ signals[p].received \subseteq sg.received
    BY <2>1, <2>2, <2>3 DEF SignalImpls
  <2>5. SignalsKept([signals EXCEPT ![p] = sg])
    BY <2>2, <2>4, SignalsSet
  <2>6. [signals EXCEPT ![Own(t)].actions[x] = action] = [signals EXCEPT ![p] = sg]
    BY <2>1
  <2>7. CASE Catchable(x)
    BY <1>4, <1>v, <2>5, <2>6, <2>7, CallContinues DEF SigAction, Call
  <2>8. CASE ~Catchable(x)
    BY <1>4, <1>v, <1>t, <2>8, CallContinues DEF SigAction, Call
  <2> QED BY <2>7, <2>8
<1>5. ASSUME NEW m \in Masks, SigProcMask(t, m) PROVE Continues(t, TRUE)
  <2>1. PICK p, sg : p = Own(t) /\ sg = [signals[p] EXCEPT !.mask = m]
    OBVIOUS
  <2>2. p \in DOMAIN signals /\ signals[p] \in SignalImpls
    BY <1>5, <1>t, <1>o, <2>1 DEF SigProcMask
  <2>3. /\ sg \in SignalImpls /\ sg.handling = signals[p].handling
        /\ signals[p].received \subseteq sg.received
    BY <2>1, <2>2 DEF SignalImpls
  <2>4. SignalsKept([signals EXCEPT ![p] = sg])
    BY <2>2, <2>3, SignalsSet
  <2>5. [signals EXCEPT ![Own(t)].mask = m] = [signals EXCEPT ![p] = sg]
    BY <2>1
  <2> QED BY <1>5, <1>v, <2>4, <2>5, CallContinues DEF SigProcMask, Call
<1>6. CASE ThreadCreate(t)
  <2>1. PICK c : c = NewContext(next_tid)
    OBVIOUS
  <2>2. /\ Traps(t) /\ next_tid <= MaxTid /\ next_tid' = next_tid + 1 /\ next_pid' = next_pid
        /\ EndTrap(t, Left(With(tid2pid, next_tid, Own(t)), signals, With(Called(t), next_tid, c)),
                   Data, FALSE)
    BY <1>6, <2>1 DEF ThreadCreate
  <2>3. next_tid \in Tids /\ next_pid' \in next_pid .. MaxPid + 1
    BY <2>2, BoundAssumption DEF TypeOK, Tids
  <2>4. c \in Contexts /\ c.of = next_tid /\ c.at = "program"
    BY <2>1, <2>3 DEF NewContext, Contexts, Values
  <2>5. /\ Own(t) \in DOMAIN signals /\ Own(t) \in 0 .. next_pid' - 1
        /\ DOMAIN signals = DOMAIN signals \cup {Own(t)} /\ signals \in [DOMAIN signals -> SignalImpls]
    BY <1>o, <2>2 DEF TypeOK, Own, Traps
  <2>6. Continues(t, c.at = "program")
    <3>1. NewThread(Own(t), signals, c)
      BY <2>2, <2>3, <2>4, <2>5 DEF NewThread
    <3> QED BY <2>2, <3>1, NewThreadContinues
  <2> QED BY <2>4, <2>6 DEF Continues
<1> QED BY <1>1, <1>2, <1>3, <1>4, <1>5, <1>6 DEF PlainCall

LEMMA SigReturnContinues ==
  ASSUME TypeOK, NEW t, SigReturn(t)
  PROVE  Continues(t, ctx[t].at = "handler")
<1>1. PICK p, sg, c : p = Own(t) /\ sg = signals[p] /\ c = Called(t)[t]
  OBVIOUS
<1>2. PICK back : back = SigReturnOf(sg, c)
  OBVIOUS
<1>3. PICK k : k = Left(tid2pid, [signals EXCEPT ![p] = back[1]], [ctx EXCEPT ![t] = back[2]])
  OBVIOUS
<1>4. /\ Traps(t) /\ EndTrap(t, k, back[3], FALSE)
      /\ next_pid' = next_pid /\ next_tid' = next_tid
  BY <1>1, <1>2, <1>3 DEF SigReturn
<1>5. /\ k.tids = tid2pid /\ k.sigs = [signals EXCEPT ![p] = back[1]]
      /\ k.ctxs = [ctx EXCEPT ![t] = back[2]]
  BY <1>3 DEF Left
<1>6. /\ p = tid2pid[t] /\ t \in DOMAIN tid2pid /\ p \in DOMAIN signals /\ sg \in SignalImpls
      /\ DOMAIN ctx = DOMAIN tid2pid /\ ctx \in [DOMAIN ctx -> Contexts]
      /\ signals \in [DOMAIN signals -> SignalImpls]
      /\ DOMAIN signals = {tid2pid[u] : u \in DOMAIN tid2pid}
      /\ c \in Contexts /\ c.of = ctx[t].of /\ c.at = ctx[t].at
  BY <1>1, <1>4, CalledProperties DEF TypeOK, Own
<1>7. /\ sg.handling.kind = "user" => /\ back[1] = [sg EXCEPT !.handling = Idle]
                                      /\ back[2] = sg.handling.saved /\ back[3] = 0
      /\ sg.handling.kind # "user" => back[1] = sg /\ back[2] = c /\ back[3] = -1
  BY <1>2 DEF SigReturnOf
<1>8. sg.handling.kind = "user" => sg.handling.saved \in Contexts /\ sg.handling # Frozen
  <2>1. sg.handling \in {Idle, Frozen} \cup {UserSignal(d) : d \in Contexts}
    BY <1>6 DEF SignalImpls
  <2>2. Idle.kind # "user" /\ Frozen.kind # "user"
    BY DEF Idle, Frozen
  <2> QED BY <2>1, <2>2 DEF UserSignal
<1>9. /\ back[1] \in SignalImpls /\ back[2] \in Contexts /\ back[3] \in Values
      /\ back[1].received = sg.received
      /\ sg.handling.kind = "user" => back[1].handling = Idle
  <2>1. [sg EXCEPT !.handling = Idle] \in SignalImpls
    BY <1>6 DEF SignalImpls
  <2>2. /\ [sg EXCEPT !.handling = Idle].received = sg.received
        /\ [sg EXCEPT !.handling = Idle].handling = Idle
    BY <1>6 DEF SignalImpls
  <2>3. 0 \in Values /\ -1 \in Values
    BY DEF Values
  <2> QED BY <1>6, <1>7, <1>8, <2>1, <2>2, <2>3
<1>10. /\ DOMAIN k.sigs = DOMAIN signals /\ k.sigs \in [DOMAIN signals -> SignalImpls]
       /\ k.sigs[p] = back[1] /\ \A q \in DOMAIN signals : q # p => k.sigs[q] = signals[q]
  BY <1>5, <1>6, <1>9
<1>11. /\ DOMAIN k.ctxs = DOMAIN ctx /\ k.ctxs \in [DOMAIN ctx -> Contexts]
       /\ k.ctxs[t] = back[2] /\ \A u \in DOMAIN ctx : u # t => k.ctxs[u] = ctx[u]
  BY <1>5, <1>6, <1>9
<1>12. Sound(t, k, back[3])
  <2>1. Typed(k, next_pid', next_tid')
    BY <1>4, <1>5, <1>6, <1>10, <1>11 DEF TypeOK, Typed
  <2>2. next_pid' \in next_pid .. MaxPid + 1 /\ next_tid' \in next_tid .. MaxTid + 1
    BY <1>4, BoundAssumption DEF TypeOK
  <2>3. back[1].handling = Frozen <=> sg.handling = Frozen
    <3>1. Idle # Frozen
      BY DEF Idle, Frozen
    <3> QED BY <1>7, <1>8, <1>9, <3>1
  <2>4. \A q \in DOMAIN signals :
          /\ q \in DOMAIN k.sigs /\ signals[q].received \subseteq k.sigs[q].received
          /\ (signals[q].handling = Frozen <=> k.sigs[q].handling = Frozen)
    BY <1>1, <1>9, <1>10, <2>3
  <2> QED BY <1>5, <1>6, <1>9, <2>1, <2>2, <2>4 DEF Sound
<1>13. ASSUME ctx[t].at = "handler", Neat(Now, next_tid) PROVE Neat(k, next_tid')
  <2>1. /\ \A u \in DOMAIN ctx : ctx[u].of = u
        /\ \A q \in DOMAIN signals : signals[q].handling.kind = "user" =>
              signals[q].handling.saved.at = "program" /\ signals[q].handling.saved.of < next_tid
        /\ \A u \in DOMAIN tid2pid : ctx[u].at # "program" <=>
              signals[tid2pid[u]].handling.kind = "user" /\ signals[tid2pid[u]].handling.saved.of = u
    BY <1>13 DEF Neat, Now, Left
  <2>2. /\ sg.handling.kind = "user" /\ back[2].of = t /\ back[2].at = "program"
        /\ \A u \in DOMAIN tid2pid : tid2pid[u] = p /\ u # t => ctx[u].at = "program"
    BY <1>1, <1>6, <1>7, <1>13, <2>1
  <2>3. k.sigs[p].handling.kind # "user"
    BY <1>9, <1>10, <2>2 DEF Idle
  <2>4. \A u \in DOMAIN k.ctxs : k.ctxs[u].of = u
    BY <1>11, <2>1, <2>2
  <2>5. \A q \in DOMAIN k.sigs : k.sigs[q].handling.kind = "user" =>
          k.sigs[q].handling.saved.at = "program" /\ k.sigs[q].handling.saved.of < next_tid'
    BY <1>4, <1>10, <2>1, <2>3
  <2>6. ASSUME NEW u \in DOMAIN k.tids
        PROVE  k.ctxs[u].at # "program" <=>
                 k.sigs[k.tids[u]].handling.kind = "user" /\ k.sigs[k.tids[u]].handling.saved.of = u
    <3>1. u \in DOMAIN tid2pid /\ k.tids[u] = tid2pid[u] /\ tid2pid[u] \in DOMAIN signals
      BY <1>5, <1>6
    <3>2. CASE tid2pid[u] = p
      BY <1>6, <1>11, <2>2, <2>3, <3>1, <3>2
    <3>3. CASE tid2pid[u] # p
      BY <1>6, <1>10, <1>11, <2>1, <3>1, <3>3
    <3> QED BY <3>2, <3>3
  <2> QED BY <2>4, <2>5, <2>6 DEF Neat
<1> QED BY <1>4, <1>12, <1>13 DEF Continues

\* The main thread is a thread of its process.
LEMMA MainThreadProperties ==
  ASSUME TypeOK, NEW t, Traps(t)
  PROVE  MainThread(Own(t)) \in DOMAIN tid2pid /\ tid2pid[MainThread(Own(t))] = Own(t)
<1>1. ThreadsOf(Own(t)) \in SUBSET Nat /\ ThreadsOf(Own(t)) # {}
  BY DEF ThreadsOf, Own, Traps, TypeOK
<1>2. Min(ThreadsOf(Own(t))) \in ThreadsOf(Own(t))
  BY <1>1, MinMember
<1> QED BY <1>2 DEF MainThread, ThreadsOf

LEMMA ForkContinues ==
  ASSUME TypeOK, NEW t, Fork(t)
  PROVE  Continues(t, ctx[MainThread(Own(t))].at = "program")
<1>1. PICK p, m : p = Own(t) /\ m = MainThread(p)
  OBVIOUS
<1>2. PICK c : c = [Called(t)[m] EXCEPT !.of = next_tid, !.a0 = 0]
  OBVIOUS
<1>3. PICK sigs : sigs = With(signals, next_pid, FromFork(signals[p]))
  OBVIOUS
<1>4. /\ Traps(t) /\ next_pid <= MaxPid /\ next_tid <= MaxTid
      /\ next_tid' = next_tid + 1 /\ next_pid' = next_pid + 1
      /\ EndTrap(t, Left(With(tid2pid, next_tid, next_pid), sigs, With(Called(t), next_tid, c)),
                 Data, FALSE)
  BY <1>1, <1>2, <1>3 DEF Fork
<1>5. /\ p \in DOMAIN signals /\ m \in DOMAIN ctx /\ m \in DOMAIN tid2pid
      /\ Called(t)[m] \in Contexts /\ Called(t)[m].at = ctx[m].at
  BY <1>1, <1>4, CalledProperties, MainThreadProperties DEF Own
<1>6. /\ next_tid \in Tids /\ next_pid \in Nat /\ next_pid' \in next_pid .. MaxPid + 1
      /\ next_pid \in 0 .. next_pid' - 1
  BY <1>4, BoundAssumption DEF TypeOK, Tids
<1>7. c \in Contexts /\ c.of = next_tid /\ c.at = ctx[m].at
  BY <1>2, <1>5, <1>6 DEF Contexts, Values
<1>8. next_pid \notin DOMAIN signals
  <2>1. \A q \in DOMAIN signals : q \in 0 .. next_pid - 1
    BY DEF TypeOK
  <2> QED BY <1>6, <2>1
<1>9. /\ DOMAIN sigs = DOMAIN signals \cup {next_pid} /\ sigs[next_pid] = FromFork(signals[p])
      /\ \A q \in DOMAIN signals : sigs[q] = signals[q]
  BY <1>3, <1>8 DEF With
<1>10. FromFork(signals[p]) \in SignalImpls /\ FromFork(signals[p]).handling = Idle
  <2>1. signals[p] \in SignalImpls
    BY <1>5 DEF TypeOK
  <2> QED BY <2>1 DEF FromFork, SignalImpls
<1>11. sigs \in [DOMAIN sigs -> SignalImpls]
  <2>1. sigs = [q \in DOMAIN sigs |-> sigs[q]]
    BY <1>3 DEF With
  <2>2. \A q \in DOMAIN signals : signals[q] \in SignalImpls
    BY DEF TypeOK
  <2> QED BY <1>9, <1>10, <2>1, <2>2
<1>12. Continues(t, c.at = "program")
  <2>1. sigs[next_pid].handling = Idle
    BY <1>9, <1>10
  <2>2. /\ Traps(t) /\ next_tid <= MaxTid /\ next_tid' = next_tid + 1
        /\ EndTrap(t, Left(With(tid2pid, next_tid, next_pid), sigs, With(Called(t), next_tid, c)),
                   Data, FALSE)
    BY <1>4
  <2>3. NewThread(next_pid, sigs, c)
    BY <1>4, <1>6, <1>7, <1>9, <1>11, <2>1 DEF NewThread
  <2> QED BY <2>2, <2>3, NewThreadContinues
<1> QED BY <1>1, <1>7, <1>12 DEF Continues

LEMMA ExecContinues ==
  ASSUME TypeOK, NEW t, Exec(t)
  PROVE  Continues(t, ctx[MainThread(Own(t))].at = "program")
<1>1. PICK m : m = MainThread(Own(t))
  OBVIOUS
<1>2. PICK k : k = Left(tid2pid, signals, [Called(t) EXCEPT ![m] = NewContext(m)])
  OBVIOUS
<1>3. k.tids = tid2pid /\ k.sigs = signals /\ k.ctxs = [Called(t) EXCEPT ![m] = NewContext(m)]
  BY <1>2 DEF Left
<1>4. /\ Traps(t) /\ EndTrap(t, k, 0, FALSE) /\ next_pid' = next_pid /\ next_tid' = next_tid
  BY <1>1, <1>2 DEF Exec
<1>5. /\ DOMAIN Called(t) = DOMAIN ctx /\ Called(t) \in [DOMAIN ctx -> Contexts]
      /\ DOMAIN ctx = DOMAIN tid2pid /\ t \in DOMAIN tid2pid /\ m \in DOMAIN tid2pid
      /\ \A u \in DOMAIN ctx : Called(t)[u].of = ctx[u].of /\ Called(t)[u].at = ctx[u].at
  BY <1>1, <1>4, CalledProperties, MainThreadProperties
<1>6. NewContext(m) \in Contexts /\ NewContext(m).of = m /\ NewContext(m).at = "program"
  <2>1. m \in Tids
    BY <1>5, BoundAssumption DEF TypeOK, Tids
  <2> QED BY <2>1 DEF NewContext, Contexts, Values
<1>7. /\ DOMAIN k.ctxs = DOMAIN ctx /\ k.ctxs \in [DOMAIN ctx -> Contexts]
      /\ \A u \in DOMAIN ctx : k.ctxs[u] = IF u = m THEN NewContext(m) ELSE Called(t)[u]
  BY <1>3, <1>5, <1>6
<1>8. Sound(t, k, 0)
  <2>1. Typed(k, next_pid', next_tid')
    BY <1>3, <1>4, <1>5, <1>7 DEF TypeOK, Typed
  <2>2. next_pid' \in next_pid .. MaxPid + 1 /\ next_tid' \in next_tid .. MaxTid + 1
    BY <1>4, BoundAssumption DEF TypeOK
  <2> QED BY <1>3, <1>5, <2>1, <2>2 DEF Sound, Values
<1>9. ASSUME ctx[m].at = "program", Neat(Now, next_tid) PROVE Neat(k, next_tid')
  <2>1. \A u \in DOMAIN k.ctxs : k.ctxs[u].of = ctx[u].of /\ k.ctxs[u].at = ctx[u].at
    <3>1. ctx[m].of = m
      BY <1>5, <1>9 DEF Neat, Now, Left
    <3> QED BY <1>5, <1>6, <1>7, <1>9, <3>1
  <2> QED BY <1>3, <1>4, <1>5, <1>7, <1>9, <2>1 DEF Neat, Now, Left
<1> QED BY <1>1, <1>4, <1>8, <1>9 DEF Continues

----------------------------------------------------------------------------
\* The theorems.

LEMMA FaultStep ==
  ASSUME TypeOK, NEW t, Fault(t)
  PROVE  /\ TypeOK' /\ ~panicked /\ panicked' = panicked /\ next_tid' = next_tid
         /\ Neat(Now, next_tid) => Neat(Now, next_tid)'
         /\ \A q \in DOMAIN signals \cap DOMAIN signals' : InOrder(q)
<1>1. PICK k : k = Left(tid2pid, signals, ctx)
  OBVIOUS
<1>2. k.tids = tid2pid /\ k.sigs = signals /\ k.ctxs = ctx
  BY <1>1 DEF Left
<1>3. /\ ~panicked /\ panicked' = panicked /\ next_pid' = next_pid /\ next_tid' = next_tid
      /\ ThreadEnds(t, k) /\ t \in DOMAIN k.tids
  BY <1>1, <1>2 DEF Fault
<1>4. Typed(k, next_pid, next_tid)
  BY <1>1, TypeIsTyped DEF Now
<1>5. /\ Typed(Left(tid2pid', signals', ctx'), next_pid, next_tid)
      /\ DOMAIN interrupted' = DOMAIN signals'
      /\ interrupted' = [q \in DOMAIN signals' |-> interrupted'[q]]
      /\ \A q \in DOMAIN signals' : /\ signals'[q] = k.sigs[q]
             /\ interrupted'[q] = IF q \in DOMAIN interrupted THEN interrupted[q] ELSE 0
  BY <1>3, <1>4, EndedTyped
<1>6. TypeOK'
  <2>1. /\ DOMAIN interrupted = DOMAIN signals /\ interrupted \in [DOMAIN signals -> Values]
        /\ 0 \in Values
    BY TypeIsTyped DEF Values
  <2>2. interrupted' \in [DOMAIN signals' -> Values]
    BY <1>5, <2>1
  <2>3. Typed(Now, next_pid, next_tid)'
    BY <1>3, <1>5 DEF Now
  <2>4. /\ next_pid' \in 1 .. MaxPid + 1 /\ next_tid' \in 1 .. MaxTid + 1 /\ panicked' \in BOOLEAN
    BY <1>3, TypeIsTyped
  <2> QED BY <1>5, <2>2, <2>3, <2>4, TypeIsTypedAfter
<1>7. ASSUME Neat(Now, next_tid) PROVE Neat(Now, next_tid)'
  <2>1. Neat(Left(tid2pid', signals', ctx'), next_tid)
    BY <1>1, <1>3, <1>4, <1>7, EndedNeat DEF Now
  <2> QED BY <1>3, <2>1 DEF Now
<1>8. \A q \in DOMAIN signals \cap DOMAIN signals' : InOrder(q)
  BY <1>2, <1>5 DEF InOrder
<1> QED BY <1>3, <1>6, <1>7, <1>8

LEMMA ContinuesStep ==
  ASSUME TypeOK, NEW t, NEW tidy, Continues(t, tidy)
  PROVE  TypeOK' /\ \A q \in DOMAIN signals \cap DOMAIN signals' : InOrder(q)
<1>1. PICK k, ret, exits : Sound(t, k, ret) /\ EndTrap(t, k, ret, exits)
  BY DEF Continues
<1> QED BY <1>1, AfterTrapTyped, AfterTrapInOrder

LEMMA TrapStep ==
  ASSUME TypeOK, NEW t, Trap(t)
  PROVE  TypeOK' /\ \A q \in DOMAIN signals \cap DOMAIN signals' : InOrder(q)
<1>1. CASE Fault(t)
  BY <1>1, FaultStep
<1>2. CASE PlainCall(t) /\ ~Fault(t)
  BY <1>2, PlainCallContinues, ContinuesStep
<1>3. CASE SigReturn(t)
  BY <1>3, SigReturnContinues, ContinuesStep
<1>4. CASE Fork(t)
  BY <1>4, ForkContinues, ContinuesStep
<1>5. CASE Exec(t)
  BY <1>5, ExecContinues, ContinuesStep
<1> QED BY <1>1, <1>2, <1>3, <1>4, <1>5 DEF Trap

LEMMA InitTyped == Init => TypeOK
<1> SUFFICES ASSUME Init PROVE TypeOK
  OBVIOUS
<1>1. SignalNew \in SignalImpls
  BY SignalAssumption DEF SignalNew, SignalImpls, Idle
<1>2. NewContext(0) \in Contexts
  BY BoundAssumption DEF NewContext, Contexts, Values, Tids
<1>3. 0 .. next_tid - 1 = {0} /\ 0 .. next_pid - 1 = {0}
  BY DEF Init
<1>4. /\ tid2pid = [t \in {0} |-> 0] /\ signals = [p \in {0} |-> SignalNew]
      /\ ctx = [t \in {0} |-> NewContext(0)] /\ interrupted = [p \in {0} |-> 0]
      /\ next_pid = 1 /\ next_tid = 1 /\ panicked = FALSE
  BY DEF Init
<1>5. /\ DOMAIN tid2pid = {0} /\ DOMAIN signals = {0} /\ DOMAIN ctx = {0} /\ DOMAIN interrupted = {0}
      /\ tid2pid \in [{0} -> {0}] /\ tid2pid[0] = 0
  BY <1>4
<1>6. signals \in [{0} -> SignalImpls] /\ ctx \in [{0} -> Contexts]
  BY <1>1, <1>2, <1>4
<1>7. interrupted \in [{0} -> Values]
  BY <1>4 DEF Values
<1>8. {tid2pid[t] : t \in DOMAIN tid2pid} = {0}
  BY <1>5
<1>9. 1 \in 1 .. MaxPid + 1 /\ 1 \in 1 .. MaxTid + 1
  BY BoundAssumption
<1> QED BY <1>3, <1>4, <1>5, <1>6, <1>7, <1>8, <1>9 DEF TypeOK

LEMMA InitSignalInv == Init => SignalInv
<1> SUFFICES ASSUME Init PROVE SignalInv
  OBVIOUS
<1>1. TypeOK
  BY InitTyped
<1>2. Neat(Now, next_tid)
  BY DEF Init, Neat, Now, Left, SignalNew, NewContext, Idle
<1>3. OwnContext
  BY DEF Init, OwnContext, SignalNew, NewContext, Idle
<1> QED BY <1>1, <1>2, <1>3 DEF SignalInv, Init

\* A step that is tidy keeps the invariant.
LEMMA TidyStep ==
  ASSUME SignalInv, ~panicked, NEW t, Continues(t, TRUE)
  PROVE  SignalInv'
<1>1. Neat(Now, next_tid)
  BY DEF SignalInv
<1>2. PICK k, ret, exits : /\ Sound(t, k, ret) /\ EndTrap(t, k, ret, exits)
                           /\ Neat(k, next_tid')
  BY <1>1 DEF Continues
<1> QED BY <1>2, AfterTrapNeat

LEMMA DisciplinedStep ==
  ASSUME SignalInv, NEW t, Disciplined(t)
  PROVE  SignalInv'
<1>1. TypeOK
  BY DEF SignalInv
<1>2. CASE Fault(t)
  <2>1. /\ TypeOK' /\ ~panicked /\ panicked' = panicked
        /\ Neat(Now, next_tid) => Neat(Now, next_tid)'
    BY <1>1, <1>2, FaultStep
  <2> QED BY <2>1, NeatIsOwnContext DEF SignalInv
<1>3. CASE PlainCall(t) /\ ~Fault(t)
  <2>1. ~panicked
    BY <1>3 DEF PlainCall, OtherCall, Exit, ThreadCreate, Kill, SigAction, SigProcMask, Traps
  <2> QED BY <1>1, <1>3, <2>1, PlainCallContinues, TidyStep
<1>4. CASE ctx[t].at = "handler" /\ SigReturn(t)
  <2>1. ~panicked
    BY <1>4 DEF SigReturn, Traps
  <2>2. Continues(t, TRUE)
    BY <1>1, <1>4, SigReturnContinues DEF Continues
  <2> QED BY <2>1, <2>2, TidyStep
<1>5. CASE MainInProgram(t) /\ Fork(t)
  <2>1. ~panicked
    BY <1>5 DEF MainInProgram, Traps
  <2>2. Continues(t, TRUE)
    BY <1>1, <1>5, ForkContinues DEF Continues, MainInProgram
  <2> QED BY <2>1, <2>2, TidyStep
<1>6. CASE MainInProgram(t) /\ Exec(t)
  <2>1. ~panicked
    BY <1>6 DEF MainInProgram, Traps
  <2>2. Continues(t, TRUE)
    BY <1>1, <1>6, ExecContinues DEF Continues, MainInProgram
  <2> QED BY <2>1, <2>2, TidyStep
<1> QED BY <1>2, <1>3, <1>4, <1>5, <1>6 DEF Disciplined

LEMMA SignalInvImplies == SignalInv => HandlerMatches /\ OwnContext
<1> SUFFICES ASSUME SignalInv PROVE HandlerMatches /\ OwnContext
  OBVIOUS
<1>1. ASSUME ~panicked, NEW p \in DOMAIN signals
      PROVE  {t \in ThreadsOf(p) : ctx[t].at # "program"}
               = IF signals[p].handling.kind = "user"
                 THEN {signals[p].handling.saved.of} \cap ThreadsOf(p) ELSE {}
  <2>1. \A u \in ThreadsOf(p) : ctx[u].at # "program" <=>
           signals[p].handling.kind = "user" /\ signals[p].handling.saved.of = u
    BY <1>1 DEF SignalInv, Neat, Now, Left, ThreadsOf
  <2>2. CASE signals[p].handling.kind = "user"
    BY <2>1, <2>2
  <2>3. CASE signals[p].handling.kind # "user"
    BY <2>1, <2>3
  <2> QED BY <2>2, <2>3
<1>2. TypeOK /\ OwnContext
  BY DEF SignalInv
<1>3. panicked => \E p \in DOMAIN signals : \E x \in signals[p].received : x > MaxSig
  BY DEF SignalInv
<1> QED BY <1>1, <1>2, <1>3 DEF HandlerMatches

DisciplinedNext == (\E t \in Tids : Disciplined(t)) \/ Stopped

LEMMA SignalInvInductive == SpecDisciplined => []SignalInv
<1>1. ASSUME SignalInv, [DisciplinedNext]_vars PROVE SignalInv'
  <2>1. CASE \E t \in Tids : Disciplined(t)
    BY <1>1, <2>1, DisciplinedStep
  <2>2. CASE UNCHANGED vars
    <3>1. TypeOK'
      BY <1>1, <2>2 DEF SignalInv, TypeOK, vars
    <3>2. OwnContext'
      BY <1>1, <2>2 DEF SignalInv, OwnContext, vars
    <3>3. Neat(Now, next_tid) => Neat(Now, next_tid)'
      BY <2>2 DEF vars, Neat, Now, Left
    <3> QED BY <1>1, <2>2, <3>1, <3>2, <3>3 DEF SignalInv, vars
  <2> QED BY <1>1, <2>1, <2>2 DEF DisciplinedNext, Stopped
<1> QED BY <1>1, InitSignalInv, PTL DEF SpecDisciplined, DisciplinedNext

\* Whatever signals arrive when: a process is in a handler exactly when its
\* SignalImpl says so, and only a signal beyond `actions` panics the kernel.
THEOREM HandlersMatch == SpecDisciplined => []HandlerMatches
  BY SignalInvInductive, SignalInvImplies, PTL

\* No thread gets another one's context, and the one that is saved is a program's.
THEOREM ContextsKept == SpecDisciplined => []OwnContext
  BY SignalInvInductive, SignalInvImplies, PTL

\* Pending signals leave only by being taken, one per trap and the lowest first,
\* even if programs misuse sigreturn, fork and exec.
THEOREM SignalsTakenInOrder == (Spec => TakenInOrder) /\ (SpecDisciplined => TakenInOrder)
<1>1. ASSUME TypeOK, [Next]_vars
      PROVE  /\ TypeOK'
             /\ [\A p \in DOMAIN signals \cap DOMAIN signals' : InOrder(p)]_vars
  <2>1. CASE \E t \in Tids : Trap(t)
    BY <1>1, <2>1, TrapStep
  <2>2. CASE UNCHANGED vars
    BY <1>1, <2>2 DEF TypeOK, vars
  <2> QED BY <1>1, <2>1, <2>2 DEF Next, Stopped
<1>2. ASSUME [DisciplinedNext]_vars PROVE [Next]_vars
  BY <1>2 DEF DisciplinedNext, Disciplined, Next, Trap
<1> QED BY <1>1, <1>2, InitTyped, PTL DEF Spec, SpecDisciplined, DisciplinedNext, TakenInOrder
=============================================================================
