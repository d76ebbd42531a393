--------------------------- MODULE ProcLifeProofs ---------------------------
(***************************************************************************)
(* Proofs about ProcLife, for any number of processes, any MAX_PROCESS,    *)
(* any time slice and any sleep: scheduling and timers first and, on top   *)
(* of their invariant, the family tree and the asserts of the kernel.  The *)
(* scheduler and timer operators are used through the lemmas of            *)
(* SchedProofs only.                                                       *)
(***************************************************************************)
EXTENDS ProcLife, SchedProofs, FiniteSetTheorems

(* The process that has the CPU is runnable, unless it is about to call    *)
(* schedule() to sleep or to end.                                          *)
CpuState ==
  \/ S.state[S.cur] = "RUNNABLE"
  \/ S.state[S.cur] = "SLEEPING" /\ pc[S.cur] \in {"sleep1", "wait1"}
  \/ S.state[S.cur] = "ZOMBIE" /\ pc[S.cur] = "exit1"

(* Where processes can be: idleproc in its loop, a process interrupted by  *)
(* the timer in user mode, a zombie at the end of do_exit, and nowhere     *)
(* exactly if there is no process.                                         *)
Where ==
  /\ pc[Idle] = "idle"
  /\ irq = "timer" /\ S.cur \in User => pc[S.cur] = "user"
  /\ \A p \in Proc : S.state[p] = "ZOMBIE" => pc[p] \in {"exit1", "dead"}
  /\ \A p \in Proc : S.state[p] = "UNUSED" <=> pc[p] = "none"

(* Every process but idleproc has a parent.                                *)
HasParent ==
  \A c \in Proc : S.state[c] # "UNUSED" /\ c # Idle => parent[c] \in Proc

(* The timer list is well formed and its entries belong to processes in    *)
(* do_sleep; processes sleep in do_wait and do_sleep only.                 *)
TimerInv ==
  /\ TimerList(Proc, timers)
  /\ irq = "off" => HeadPending(timers)
  /\ \A p \in TimerOwners(timers) : pc[p] \in {"sleep1", "sleep2"}
  /\ \A p \in Proc : S.wait[p] = "TIMER" => p \in TimerOwners(timers)
  /\ \A p \in Proc : S.wait[p] \in {"NONE", "CHILD", "TIMER"}

(* The inductive invariant behind type correctness, the run queue and the  *)
(* timer list.                                                             *)
SchedInv ==
  TypeOK /\ RunQueueOK /\ CpuState /\ Where /\ HasParent /\ TimerInv

USE DEF TimerT

-----------------------------------------------------------------------------

(* proc_init and sched_init establish the invariant.                       *)
LEMMA InitSched == Init => SchedInv
<1> SUFFICES ASSUME Init PROVE SchedInv
  OBVIOUS
<1> USE IdleAssumption, InitAssumption, KThreadAssumption, NoProcAssumption
<1>1. Idle \notin Child /\ InitProc \notin Child /\ Child \subseteq Proc
      /\ \A p \in Proc : p \in Child \/ p = Idle \/ p = InitProc
  BY DEF Child, User
<1>2. /\ S.state = [p \in Proc |-> IF p \in Child THEN "UNUSED" ELSE "RUNNABLE"]
      /\ S.wait = [p \in Proc |-> "NONE"] /\ S.cur = Idle
      /\ S.rq = <<InitProc>> /\ S.oops = FALSE
  BY DEF Init
<1>3. S \in SchedType
  BY SliceAssumption DEF Init, SchedType, ProcState, WaitState
<1>4. TypeOK
  <2>1. timers \in Seq(TimerT(Proc))
    BY DEF Init
  <2>2. pc \in [Proc -> PCs]
    BY DEF Init, PCs
  <2>3. kids \in [Proc -> Seq(Proc)]
    BY DEF Init
  <2>4. /\ parent \in [Proc -> Proc \cup {NoProc}]
        /\ exiting \in [Proc -> BOOLEAN]
        /\ arg \in [Proc -> Proc \cup {NoProc}]
    BY DEF Init
  <2>5. irq = "off" /\ nr = 2 /\ halted = FALSE
    BY DEF Init
  <2>6. irq \in {"off", "timer"} /\ halted \in BOOLEAN
    BY <2>5, Zenon
  <2>7. nr \in Int
    BY <2>5
  <2> QED BY <1>3, <2>1, <2>2, <2>3, <2>4, <2>6, <2>7, Zenon DEF TypeOK
<1>5. RunQueueOK
  <2>1. DOMAIN S.rq = {1} /\ S.rq[1] = InitProc
    BY <1>2
  <2>2. ToSet(S.rq) = {InitProc}
    BY <2>1 DEF ToSet
  <2>3. RunQueueExact(S)
    BY <1>1, <1>2, <2>1, <2>2 DEF RunQueueExact
  <2>4. WaitStateExact(S)
    BY <1>1, <1>2 DEF WaitStateExact
  <2> QED BY <2>3, <2>4 DEF RunQueueOK
<1>6. CpuState
  BY <1>1, <1>2 DEF CpuState
<1>7. Where
  <2>1. pc[Idle] = "idle" /\ irq = "off"
    BY DEF Init
  <2>2. ASSUME NEW p \in Proc PROVE S.state[p] = "UNUSED" <=> pc[p] = "none"
    BY <1>1, <1>2 DEF Init
  <2> QED BY <1>2, <2>1, <2>2 DEF Where
<1>8. HasParent
  BY <1>1, <1>2 DEF Init, HasParent
<1>9. TimerInv
  BY <1>2, EmptyTimers DEF Init, TimerInv
<1> QED BY <1>4, <1>5, <1>6, <1>7, <1>8, <1>9 DEF SchedInv

-----------------------------------------------------------------------------
(* The parts of SchedInv that a step needs of the scheduler state.         *)

(* What the invariant says of the scheduler state, in the form in which    *)
(* the lemmas of SchedProofs ask for it.                                   *)
LEMMA SchedFacts ==
  ASSUME SchedInv
  PROVE  /\ SchedOK(S) /\ S.cur \in Proc
         /\ S.state \in [Proc -> ProcState] /\ S.wait \in [Proc -> WaitState]
         /\ \A p \in Proc : S.wait[p] # "NONE" <=> S.state[p] = "SLEEPING"
         /\ S.state[Idle] = "RUNNABLE" /\ S.state[S.cur] # "UNUSED"
         /\ S.oops \in BOOLEAN
BY DEF SchedInv, TypeOK, RunQueueOK, SchedOK, SchedType, WaitStateExact

(* The current process calls schedule() and will go on at l.               *)
LEMMA ScheduleStep ==
  ASSUME SchedInv, irq = "off", S' = Schedule(S),
         NEW l \in PCs \ {"none"}, pc' = [pc EXCEPT ![S.cur] = l],
         S.cur = Idle => l = "idle",
         S.state[S.cur] = "ZOMBIE" => l = "dead",
         pc[S.cur] \in {"sleep1", "sleep2"} => l = "sleep2",
         UNCHANGED <<parent, kids, exiting, arg, timers, irq, nr, halted>>
  PROVE  SchedInv'
<1>1. /\ SchedOK(S') /\ S'.state = S.state /\ S'.wait = S.wait
      /\ S'.oops = S.oops /\ S.state[S'.cur] = "RUNNABLE"
  BY SchedFacts, ScheduleOK
<1>2. S' \in SchedType /\ S'.cur \in Proc
  BY <1>1 DEF SchedOK, SchedType
<1>3. TypeOK'
  BY <1>2, SchedFacts DEF SchedInv, TypeOK
<1>4. RunQueueOK'
  BY <1>1 DEF SchedOK, RunQueueOK
<1>5. CpuState'
  BY <1>1 DEF CpuState
<1>6. Where'
  BY <1>1, SchedFacts, IdleAssumption DEF SchedInv, TypeOK, Where
<1>7. HasParent'
  BY <1>1 DEF SchedInv, HasParent
<1>8. TimerInv'
  BY <1>1, SchedFacts DEF SchedInv, TypeOK, TimerInv
<1> QED BY <1>3, <1>4, <1>5, <1>6, <1>7, <1>8 DEF SchedInv

(* The current process goes on at l with the scheduler state in order      *)
(* and nobody but itself put to sleep.                                     *)
LEMMA MoveStep ==
  ASSUME SchedInv, irq = "off", S.cur # Idle, S.state[S.cur] = "RUNNABLE",
         pc[S.cur] \notin {"sleep1", "sleep2"},
         SchedOK(S'), S'.cur = S.cur, S'.wait = S.wait, S'.state = S.state,
         NEW l \in PCs \ {"none"}, pc' = [pc EXCEPT ![S.cur] = l],
         arg' \in [Proc -> Proc \cup {NoProc}],
         exiting' \in [Proc -> BOOLEAN],
         UNCHANGED <<parent, kids, timers, irq, nr, halted>>
  PROVE  SchedInv'
<1>1. S' \in SchedType
  BY DEF SchedOK
<1>2. TypeOK'
  BY <1>1, SchedFacts DEF SchedInv, TypeOK
<1>3. RunQueueOK'
  BY DEF SchedOK, RunQueueOK
<1>4. CpuState'
  BY DEF CpuState
<1>5. Where'
  BY SchedFacts, IdleAssumption DEF SchedInv, TypeOK, Where
<1>6. HasParent'
  BY DEF SchedInv, HasParent
<1>7. TimerInv'
  BY SchedFacts DEF SchedInv, TypeOK, TimerInv
<1> QED BY <1>2, <1>3, <1>4, <1>5, <1>6, <1>7 DEF SchedInv

(* do_exit by the current process.                                         *)
LEMMA ExitStep ==
  ASSUME SchedInv, NEW p \in Proc, irq = "off", S.cur = p, p # Idle,
         S.state[p] = "RUNNABLE", pc[p] \notin {"sleep1", "sleep2"}, DoExit(p)
  PROVE  SchedInv'
<1>1. CASE p = InitProc
  <2>1. /\ S' = S /\ pc' = pc /\ parent' = parent /\ kids' = kids
        /\ exiting' = exiting /\ arg' = arg /\ timers' = timers
        /\ irq' = irq /\ nr' = nr /\ halted' = TRUE
    BY <1>1 DEF DoExit
  <2> QED BY <2>1 DEF SchedInv, TypeOK, RunQueueOK, CpuState, Where,
                      HasParent, TimerInv
<1>2. CASE p # InitProc
  <2> DEFINE Z == [S EXCEPT !.state[p] = "ZOMBIE"]
             W == WakeParent(Z, p)
             par == parent[p]
  <2>1. /\ S' = WakeAdopter(W, p) /\ pc' = [pc EXCEPT ![p] = "exit1"]
        /\ parent' = ParentAfterExit(p)
        /\ kids' = [kids EXCEPT ![p] = <<>>,
                                ![InitProc] = Reverse(kids[p]) \o @]
        /\ UNCHANGED <<exiting, arg, timers, irq, nr, halted>>
    BY <1>2 DEF DoExit, Goto
  <2>2. par \in Proc /\ S.wait[p] = "NONE"
    BY SchedFacts DEF SchedInv, HasParent
  <2>3. /\ SchedOK(Z) /\ Z.cur = p /\ Z.wait = S.wait /\ Z.oops = S.oops
        /\ Z.state = [S.state EXCEPT ![p] = "ZOMBIE"]
    <3>1. S \in SchedType /\ RunQueueExact(S) /\ WaitStateExact(S)
      BY SchedFacts DEF SchedOK
    <3>2. /\ Z \in SchedType /\ Z.cur = p /\ Z.wait = S.wait /\ Z.oops = S.oops
          /\ Z.rq = S.rq /\ Z.state = [S.state EXCEPT ![p] = "ZOMBIE"]
      BY <3>1 DEF SchedType, ProcState
    <3> HIDE DEF Z
    <3>3. RunQueueExact(Z)
      BY <3>1, <3>2 DEF RunQueueExact, SchedType
    <3>4. WaitStateExact(Z)
      BY <2>2, <3>1, <3>2, IdleAssumption DEF WaitStateExact, SchedType
    <3> QED BY <3>2, <3>3, <3>4 DEF SchedOK
  <2> HIDE DEF Z
  <2>4. /\ SchedOK(W) /\ W.cur = p
        /\ \E U \in SUBSET (Proc \ {p}) :
             /\ W.state = [q \in Proc |-> IF q \in U THEN "RUNNABLE" ELSE Z.state[q]]
             /\ W.wait = [q \in Proc |-> IF q \in U THEN "NONE" ELSE Z.wait[q]]
             /\ \A q \in U : Z.wait[q] = "CHILD"
    <3>0. Z.state \in [Proc -> ProcState] /\ Z.wait \in [Proc -> WaitState]
      BY <2>3 DEF SchedOK, SchedType
    <3>w. W = IF Z.wait[par] = "CHILD" THEN WakeupProc(Z, par) ELSE Z
      BY DEF WakeParent
    <3> HIDE DEF W, par
    <3>1. CASE Z.wait[par] = "CHILD"
      <4>1. W = WakeupProc(Z, par)
        BY <3>1, <3>w
      <4>2. /\ SchedOK(W) /\ W.cur = p
            /\ W.state = [Z.state EXCEPT ![par] = "RUNNABLE"]
            /\ W.wait = [Z.wait EXCEPT ![par] = "NONE"]
        BY <2>2, <2>3, <4>1, WakeupOK
      <4>3. par # p
        BY <2>2, <2>3, <3>1
      <4> DEFINE U == {par}
      <4>4. U \in SUBSET (Proc \ {p}) /\ \A q \in U : Z.wait[q] = "CHILD"
        BY <2>2, <3>1, <4>3
      <4>5. W.state = [q \in Proc |-> IF q \in U THEN "RUNNABLE" ELSE Z.state[q]]
        BY <3>0, <4>2
      <4>6. W.wait = [q \in Proc |-> IF q \in U THEN "NONE" ELSE Z.wait[q]]
        BY <3>0, <4>2
      <4> HIDE DEF U
      <4> QED BY <4>2, <4>4, <4>5, <4>6
    <3>2. CASE Z.wait[par] # "CHILD"
      <4>1. W = Z
        BY <3>2, <3>w
      <4> DEFINE U == {}
      <4>4. U \in SUBSET (Proc \ {p}) /\ \A q \in U : Z.wait[q] = "CHILD"
        OBVIOUS
      <4>5. W.state = [q \in Proc |-> IF q \in U THEN "RUNNABLE" ELSE Z.state[q]]
        BY <3>0, <4>1
      <4>6. W.wait = [q \in Proc |-> IF q \in U THEN "NONE" ELSE Z.wait[q]]
        BY <3>0, <4>1
      <4> HIDE DEF U
      <4> QED BY <2>3, <4>1, <4>4, <4>5, <4>6
    <3> QED BY <3>1, <3>2
  <2> HIDE DEF W
  <2>5. /\ SchedOK(S') /\ S'.cur = p
        /\ \E U \in SUBSET (Proc \ {p}) :
             /\ S'.state = [q \in Proc |-> IF q \in U THEN "RUNNABLE" ELSE Z.state[q]]
             /\ S'.wait = [q \in Proc |-> IF q \in U THEN "NONE" ELSE Z.wait[q]]
             /\ \A q \in U : Z.wait[q] = "CHILD"
    <3>1. PICK U \in SUBSET (Proc \ {p}) :
             /\ W.state = [q \in Proc |-> IF q \in U THEN "RUNNABLE" ELSE Z.state[q]]
             /\ W.wait = [q \in Proc |-> IF q \in U THEN "NONE" ELSE Z.wait[q]]
             /\ \A q \in U : Z.wait[q] = "CHILD"
      BY <2>4
    <3>2. CASE S' = WakeupProc(W, InitProc) /\ W.wait[InitProc] = "CHILD"
      <4>1. /\ SchedOK(S') /\ S'.cur = p
            /\ S'.state = [W.state EXCEPT ![InitProc] = "RUNNABLE"]
            /\ S'.wait = [W.wait EXCEPT ![InitProc] = "NONE"]
        BY <2>4, <3>2, WakeupOK, InitAssumption
      <4>2. U \cup {InitProc} \in SUBSET (Proc \ {p})
        BY <1>2, InitAssumption
      <4>3. Z.wait[InitProc] = "CHILD"
        BY <3>1, <3>2, InitAssumption
      <4> DEFINE V == U \cup {InitProc}
      <4>4. S'.state = [q \in Proc |-> IF q \in V THEN "RUNNABLE" ELSE Z.state[q]]
        <5> DEFINE f == W.state
                   g == S'.state
                   z == Z.state
        <5>1. /\ g = [f EXCEPT ![InitProc] = "RUNNABLE"]
              /\ f = [q \in Proc |-> IF q \in U THEN "RUNNABLE" ELSE z[q]]
          BY <3>1, <4>1
        <5> HIDE DEF f, g, z
        <5>2. g = [q \in Proc |-> IF q \in V THEN "RUNNABLE" ELSE z[q]]
          BY <5>1
        <5> QED BY <5>2 DEF f, g, z
      <4>5. S'.wait = [q \in Proc |-> IF q \in V THEN "NONE" ELSE Z.wait[q]]
        BY <3>1, <4>1
      <4>6. V \in SUBSET (Proc \ {p}) /\ \A q \in V : Z.wait[q] = "CHILD"
        BY <3>1, <4>2, <4>3
      <4> HIDE DEF V
      <4> QED BY <4>1, <4>4, <4>5, <4>6
    <3>3. CASE S' = W
      BY <2>4, <3>3
    <3> QED BY <2>1, <3>2, <3>3 DEF WakeAdopter
  <2>6. PICK U \in SUBSET (Proc \ {p}) :
             /\ S'.state = [q \in Proc |-> IF q \in U THEN "RUNNABLE" ELSE Z.state[q]]
             /\ S'.wait = [q \in Proc |-> IF q \in U THEN "NONE" ELSE Z.wait[q]]
             /\ \A q \in U : Z.wait[q] = "CHILD"
    BY <2>5
  <2>7. S' \in SchedType
    BY <2>5 DEF SchedOK
  <2>8. kids' \in [Proc -> Seq(Proc)]
    <3>1. kids[p] \in Seq(Proc) /\ kids[InitProc] \in Seq(Proc)
      BY InitAssumption DEF SchedInv, TypeOK
    <3>2. Reverse(kids[p]) \o kids[InitProc] \in Seq(Proc)
      BY <3>1, ReverseFacts, ConcatFacts
    <3> DEFINE h == Reverse(kids[p]) \o kids[InitProc]
    <3>3. kids' = [kids EXCEPT ![p] = <<>>, ![InitProc] = h]
      BY <1>2, <2>1, InitAssumption DEF SchedInv, TypeOK
    <3>4. h \in Seq(Proc) /\ <<>> \in Seq(Proc)
      BY <3>2
    <3> HIDE DEF h
    <3> QED BY <3>3, <3>4, InitAssumption DEF SchedInv, TypeOK
  <2>9. TypeOK'
    <3>1. parent' \in [Proc -> Proc \cup {NoProc}]
      BY <2>1, InitAssumption DEF ParentAfterExit, SchedInv, TypeOK
    <3>2. pc' \in [Proc -> PCs]
      BY <2>1 DEF SchedInv, TypeOK, PCs
    <3> QED BY <2>1, <2>7, <2>8, <3>1, <3>2 DEF SchedInv, TypeOK
  <2>10. RunQueueOK'
    BY <2>5 DEF SchedOK, RunQueueOK
  <2>11. CpuState'
    BY <2>1, <2>3, <2>5, <2>6, SchedFacts DEF CpuState, SchedInv, TypeOK
  <2>12. ASSUME NEW q \in Proc, S.state[q] = "UNUSED"
         PROVE  q \notin U
    BY <2>3, <2>6, <2>12, SchedFacts
  <2>13. Where'
    BY <2>1, <2>3, <2>5, <2>6, <2>12, SchedFacts, IdleAssumption
       DEF Where, SchedInv, TypeOK
  <2>14. HasParent'
    BY <2>1, <2>2, <2>3, <2>6, <2>12, SchedFacts, InitAssumption
       DEF HasParent, SchedInv, ParentAfterExit
  <2>15. TimerInv'
    <3>1. p \notin TimerOwners(timers)
      BY DEF SchedInv, TimerInv
    <3>2. \A q \in TimerOwners(timers) : pc'[q] \in {"sleep1", "sleep2"}
      BY <2>1, <3>1 DEF SchedInv, TimerInv, TypeOK
    <3>3. \A q \in Proc : S'.wait[q] \in {"NONE", S.wait[q]}
      BY <2>3, <2>6
    <3> HIDE DEF TimerT
    <3> QED BY <2>1, <3>2, <3>3 DEF TimerInv, SchedInv
  <2> QED BY <2>9, <2>10, <2>11, <2>13, <2>14, <2>15 DEF SchedInv
<1> QED BY <1>1, <1>2

(* do_fork by the current process.                                         *)
LEMMA ForkStep ==
  ASSUME SchedInv, NEW p \in Proc, irq = "off", S.cur = p, p # Idle,
         S.state[p] = "RUNNABLE", pc[p] \notin {"sleep1", "sleep2"},
         NEW c \in Proc, NEW l \in PCs \ {"none"}, DoFork(p, c, l)
  PROVE  SchedInv'
<1> DEFINE K == KAssert(S, S.wait[p] = "NONE")
           lc == IF c \in User THEN "user" ELSE "kern"
<1>1. S.state[c] = "UNUSED" /\ c # p /\ c # Idle /\ S.wait[p] = "NONE"
      /\ S.wait[c] = "NONE"
  BY SchedFacts DEF DoFork
<1>2. K = S
  BY <1>1, SchedFacts DEF KAssert, SchedOK, SchedType
<1>3. /\ S' = WakeupProc(S, c)
      /\ pc' = [pc EXCEPT ![c] = lc, ![p] = l]
      /\ parent' = [parent EXCEPT ![c] = p]
      /\ kids' = [kids EXCEPT ![p] = <<c>> \o @]
      /\ nr' = nr + 1
      /\ UNCHANGED <<exiting, arg, timers, irq, halted>>
  BY <1>2 DEF DoFork
<1>4. lc \in PCs /\ lc # "none"
  BY DEF PCs
<1> HIDE DEF lc, K
<1>5. /\ SchedOK(S') /\ S'.cur = p
      /\ S'.state = [S.state EXCEPT ![c] = "RUNNABLE"]
      /\ S'.wait = S.wait
  <2>1. /\ SchedOK(S') /\ S'.cur = p
        /\ S'.state = [S.state EXCEPT ![c] = "RUNNABLE"]
        /\ S'.wait = [S.wait EXCEPT ![c] = "NONE"]
    BY <1>3, SchedFacts, WakeupOK
  <2>2. S'.wait = S.wait
    BY <1>1, <2>1, SchedFacts
  <2> QED BY <2>1, <2>2
<1>6. TypeOK'
  <2>1. kids[p] \in Seq(Proc)
    BY DEF SchedInv, TypeOK
  <2>2. <<c>> \o kids[p] \in Seq(Proc)
    BY <2>1, PushFacts
  <2>3. kids' \in [Proc -> Seq(Proc)]
    BY <1>3, <2>2 DEF SchedInv, TypeOK
  <2>4. parent' \in [Proc -> Proc \cup {NoProc}] /\ pc' \in [Proc -> PCs]
    BY <1>3, <1>4 DEF SchedInv, TypeOK
  <2>5. nr' \in Int /\ S' \in SchedType
    BY <1>3, <1>5 DEF SchedInv, TypeOK, SchedOK
  <2> QED BY <1>3, <2>3, <2>4, <2>5 DEF SchedInv, TypeOK
<1>7. RunQueueOK'
  BY <1>5 DEF SchedOK, RunQueueOK
<1>8. CpuState'
  BY <1>1, <1>5, SchedFacts DEF CpuState
<1>9. Where'
  BY <1>1, <1>3, <1>4, <1>5, SchedFacts, IdleAssumption DEF Where, SchedInv, TypeOK
<1>10. HasParent'
  BY <1>1, <1>3, <1>5, SchedFacts DEF HasParent, SchedInv, TypeOK
<1>11. TimerInv'
  <2>1. c \notin TimerOwners(timers) /\ p \notin TimerOwners(timers)
    BY <1>1 DEF SchedInv, TimerInv, Where
  <2>2. \A q \in TimerOwners(timers) : pc'[q] \in {"sleep1", "sleep2"}
    BY <1>3, <2>1, OwnersIn DEF SchedInv, TimerInv, TypeOK
  <2> HIDE DEF TimerT
  <2> QED BY <1>3, <1>5, <2>2 DEF SchedInv, TimerInv
<1> QED BY <1>6, <1>7, <1>8, <1>9, <1>10, <1>11 DEF SchedInv

(* do_kill of q by the current process.                                    *)
LEMMA KillStep ==
  ASSUME SchedInv, NEW p \in User, NEW q \in Proc, SysKill(p, q)
  PROVE  SchedInv'
<1>1. /\ irq = "off" /\ S.cur = p /\ pc[p] = "user" /\ p \in Proc /\ p # Idle
      /\ exiting' = [exiting EXCEPT ![q] = TRUE]
      /\ S' = IF KillWakes(q) THEN WakeupProc(S, q) ELSE S
      /\ pc' = [pc EXCEPT ![p] = "trapret"]
      /\ UNCHANGED <<parent, kids, arg, timers, irq, nr, halted>>
  BY DEF SysKill, At, Goto, User
<1>2. S.state[p] = "RUNNABLE"
  BY <1>1 DEF SchedInv, CpuState
<1>3. exiting' \in [Proc -> BOOLEAN] /\ "trapret" \in PCs \ {"none"}
  BY <1>1 DEF SchedInv, TypeOK, PCs
<1>4. CASE ~KillWakes(q)
  <2>1. S' = S
    BY <1>1, <1>4
  <2>2. SchedOK(S') /\ arg' \in [Proc -> Proc \cup {NoProc}]
    BY <1>1, <2>1, SchedFacts DEF SchedInv, TypeOK
  <2> QED BY <1>1, <1>2, <1>3, <2>1, <2>2, MoveStep
<1>5. CASE KillWakes(q)
  <2>1. /\ SchedOK(S') /\ S'.cur = p
        /\ S'.state = [S.state EXCEPT ![q] = "RUNNABLE"]
        /\ S'.wait = [S.wait EXCEPT ![q] = "NONE"]
    BY <1>1, <1>5, SchedFacts, WakeupOK
  <2>2. S.state[q] = "SLEEPING"
    BY <1>5, SchedFacts DEF KillWakes, Interruptible
  <2>3. TypeOK'
    <3>1. S' \in SchedType
      BY <2>1 DEF SchedOK
    <3> QED BY <1>1, <1>3, <3>1 DEF SchedInv, TypeOK
  <2>4. RunQueueOK'
    BY <2>1 DEF SchedOK, RunQueueOK
  <2>5. CpuState'
    BY <1>1, <1>2, <2>1, <2>2, SchedFacts DEF CpuState
  <2>6. Where'
    <3>1. pc'[Idle] = "idle" /\ irq' = "off"
      BY <1>1, IdleAssumption DEF SchedInv, Where, TypeOK
    <3>2. \A x \in Proc : /\ S'.state[x] = "ZOMBIE" <=> S.state[x] = "ZOMBIE"
                          /\ S'.state[x] = "UNUSED" <=> S.state[x] = "UNUSED"
      BY <2>1, <2>2, SchedFacts
    <3>3. \A x \in Proc : x # p => pc'[x] = pc[x]
      BY <1>1 DEF SchedInv, TypeOK
    <3>4. pc'[p] = "trapret"
      BY <1>1 DEF SchedInv, TypeOK
    <3> QED BY <1>2, <3>1, <3>2, <3>3, <3>4 DEF Where, SchedInv
  <2>7. HasParent'
    BY <1>1, <2>1, <2>2, SchedFacts DEF HasParent, SchedInv
  <2>8. TimerInv'
    <3>1. \A x \in TimerOwners(timers) : pc'[x] \in {"sleep1", "sleep2"}
      BY <1>1, OwnersIn DEF SchedInv, TimerInv, TypeOK
    <3>2. \A x \in Proc : S'.wait[x] \in {"NONE", S.wait[x]}
      BY <2>1, SchedFacts
    <3> HIDE DEF TimerT
    <3> QED BY <1>1, <3>1, <3>2 DEF TimerInv, SchedInv
  <2> QED BY <2>3, <2>4, <2>5, <2>6, <2>7, <2>8 DEF SchedInv
<1> QED BY <1>4, <1>5

(* The current process goes to sleep, in do_wait or do_sleep.              *)
LEMMA BlockStep ==
  ASSUME SchedInv, irq = "off", S.cur # Idle, S.state[S.cur] = "RUNNABLE",
         pc[S.cur] \notin {"sleep1", "sleep2"},
         NEW w \in {"CHILD", "TIMER"}, S' = Block(S, w),
         NEW l \in {"sleep1", "wait1"}, pc' = [pc EXCEPT ![S.cur] = l],
         TimerList(Proc, timers'), HeadPending(timers'),
         \/ w = "CHILD" /\ l = "wait1" /\ timers' = timers
         \/ w = "TIMER" /\ l = "sleep1"
            /\ TimerOwners(timers') = TimerOwners(timers) \cup {S.cur},
         UNCHANGED <<parent, kids, exiting, arg, irq, nr, halted>>
  PROVE  SchedInv'
<1> DEFINE p == S.cur
<1>1. p \in Proc /\ w \in WaitState \ {"NONE"} /\ w # "NONE"
  BY SchedFacts DEF WaitState
<1>2. /\ SchedOK(S') /\ S'.cur = p
      /\ S'.state = [S.state EXCEPT ![p] = "SLEEPING"]
      /\ S'.wait = [S.wait EXCEPT ![p] = w]
  BY <1>1, SchedFacts, BlockOK
<1>3. TypeOK'
  <2>1. S' \in SchedType /\ l \in PCs
    BY <1>2 DEF SchedOK, PCs
  <2>2. timers' \in Seq([proc : Proc, expires : Nat])
    BY DEF TimerList
  <2> QED BY <2>1, <2>2 DEF SchedInv, TypeOK
<1>4. RunQueueOK'
  BY <1>2 DEF SchedOK, RunQueueOK
<1>5. CpuState'
  BY <1>1, <1>2, SchedFacts DEF CpuState, SchedInv, TypeOK
<1>6. Where'
  BY <1>1, <1>2, SchedFacts, IdleAssumption DEF Where, SchedInv, TypeOK
<1>7. HasParent'
  BY <1>1, <1>2, SchedFacts DEF HasParent, SchedInv
<1>8. TimerInv'
  <2>1. p \notin TimerOwners(timers) /\ TimerOwners(timers) \subseteq Proc
    BY OwnersIn DEF SchedInv, TimerInv
  <2>2. TimerOwners(timers') = TimerOwners(timers) \/
          (l = "sleep1" /\ TimerOwners(timers') = TimerOwners(timers) \cup {p})
    OBVIOUS
  <2>3. \A x \in TimerOwners(timers') : pc'[x] \in {"sleep1", "sleep2"}
    BY <1>1, <2>1, <2>2 DEF SchedInv, TimerInv, TypeOK
  <2>4. \A x \in Proc : S'.wait[x] = "TIMER" => x \in TimerOwners(timers')
    BY <1>1, <1>2, <2>2, SchedFacts DEF SchedInv, TimerInv
  <2>5. \A x \in Proc : S'.wait[x] \in {"NONE", "CHILD", "TIMER"}
    BY <1>1, <1>2, SchedFacts DEF SchedInv, TimerInv
  <2> HIDE DEF TimerT
  <2> QED BY <2>3, <2>4, <2>5 DEF TimerInv
<1> QED BY <1>3, <1>4, <1>5, <1>6, <1>7, <1>8 DEF SchedInv

(* do_sleep.                                                               *)
LEMMA SleepStep ==
  ASSUME SchedInv, NEW p \in Proc, NEW t \in 0..MaxSleep,
         irq = "off", S.cur = p, p # Idle, S.state[p] = "RUNNABLE",
         pc[p] \notin {"sleep1", "sleep2"}, DoSleep(p, t)
  PROVE  SchedInv'
<1>2. /\ t > 0 /\ S' = Block(S, "TIMER") /\ pc' = [pc EXCEPT ![p] = "sleep1"]
      /\ UNCHANGED <<parent, kids, exiting, arg, irq, nr, halted>>
  BY DEF DoSleep, Goto
<1>k. PICK k \in 1..(Len(timers) + 1) : \E r \in [1..k -> 0..t] :
         /\ AddWalk(timers, t, k, r)
         /\ timers' = InsertTimer(timers, k, p, r[k])
  BY DEF DoSleep
<1>3. PICK r \in [1..k -> 0..t] :
         /\ AddWalk(timers, t, k, r)
         /\ timers' = InsertTimer(timers, k, p, r[k])
  BY <1>k
<1>4. t \in Nat \ {0}
  BY <1>2, MaxSleepAssumption
<1>5. TimerList(Proc, timers) /\ HeadPending(timers) /\ p \notin TimerOwners(timers)
  BY DEF SchedInv, TimerInv
<1>6. /\ TimerList(Proc, timers') /\ HeadPending(timers')
      /\ TimerOwners(timers') = TimerOwners(timers) \cup {p}
  BY <1>3, <1>4, <1>5, InsertTimerOK
<1> QED BY <1>2, <1>6, BlockStep

(* do_sleep returns.                                                       *)
LEMMA SleepDoneStep ==
  ASSUME SchedInv, NEW p \in Proc, SleepDone(p)
  PROVE  SchedInv'
<1> DEFINE l == Caller(p)
<1>1. /\ irq = "off" /\ S.cur = p /\ pc[p] = "sleep2"
      /\ timers' = DelTimer(timers, p) /\ pc' = [pc EXCEPT ![p] = l]
      /\ UNCHANGED <<S, parent, kids, exiting, arg, irq, nr, halted>>
  BY DEF SleepDone, At, Goto
<1>2. p # Idle /\ S.state[p] = "RUNNABLE" /\ S.wait[p] = "NONE"
  <2>1. p # Idle /\ S.state[p] = "RUNNABLE"
    BY <1>1 DEF SchedInv, CpuState, Where
  <2> QED BY <2>1, SchedFacts
<1>3. l \in PCs \ {"none"}
  BY DEF Caller, PCs
<1> HIDE DEF l
<1>4. /\ TimerList(Proc, timers') /\ HeadPending(timers')
      /\ TimerOwners(timers') = TimerOwners(timers) \ {p} /\ TimerOwners(timers) \subseteq Proc
  BY <1>1, DelTimerOK, OwnersIn DEF SchedInv, TimerInv
<1>5. TypeOK'
  <2>1. timers' \in Seq([proc : Proc, expires : Nat])
    BY <1>4 DEF TimerList
  <2> QED BY <1>1, <1>3, <2>1 DEF SchedInv, TypeOK
<1>6. RunQueueOK' /\ HasParent'
  BY <1>1 DEF SchedInv, RunQueueOK, HasParent
<1>7. CpuState'
  BY <1>1, <1>2 DEF CpuState
<1>8. Where'
  BY <1>1, <1>2, <1>3, IdleAssumption DEF Where, SchedInv, TypeOK
<1>9. TimerInv'
  <2>1. \A x \in TimerOwners(timers') : pc'[x] \in {"sleep1", "sleep2"}
    BY <1>1, <1>4 DEF SchedInv, TimerInv, TypeOK
  <2>2. \A x \in Proc : S'.wait[x] = "TIMER" => x \in TimerOwners(timers')
    BY <1>1, <1>2, <1>4 DEF SchedInv, TimerInv
  <2>3. \A x \in Proc : S'.wait[x] \in {"NONE", "CHILD", "TIMER"}
    BY <1>1 DEF SchedInv, TimerInv
  <2> HIDE DEF TimerT
  <2> QED BY <1>4, <2>1, <2>2, <2>3 DEF TimerInv
<1> QED BY <1>5, <1>6, <1>7, <1>8, <1>9 DEF SchedInv

(* do_wait reaps a zombie: the slot is free again.                         *)
LEMMA ReapStep ==
  ASSUME SchedInv, NEW p \in Proc, WaitReap(p)
  PROVE  SchedInv'
<1> DEFINE l == Caller(p)
<1>1. irq = "off" /\ S.cur = p /\ pc[p] = "wait"
  BY DEF WaitReap, At
<1>k. PICK k \in DOMAIN kids[p] :
       /\ S.state[kids[p][k]] = "ZOMBIE"
       /\ S' = [S EXCEPT !.state[kids[p][k]] = "UNUSED",
                         !.slice[kids[p][k]] = 0,
                         !.resched[kids[p][k]] = FALSE]
       /\ exiting' = [exiting EXCEPT ![kids[p][k]] = FALSE]
       /\ kids' = [kids EXCEPT ![p] = RemoveAt(@, k)]
       /\ parent' = [parent EXCEPT ![kids[p][k]] = NoProc]
       /\ pc' = [pc EXCEPT ![kids[p][k]] = "none", ![p] = l]
       /\ nr' = nr - 1
  BY DEF WaitReap
<1> DEFINE c == kids[p][k]
<1>2. /\ arg' = [arg EXCEPT ![p] = NoProc]
      /\ UNCHANGED <<timers, irq, halted>>
  BY DEF WaitReap
<1>3. kids[p] \in Seq(Proc) /\ c \in Proc /\ k \in 1..Len(kids[p])
  BY DEF SchedInv, TypeOK
<1>4. l \in PCs \ {"none"}
  BY DEF Caller, PCs
<1> HIDE DEF c, l
<1>5. /\ S.state[c] = "ZOMBIE"
      /\ S' = [S EXCEPT !.state[c] = "UNUSED", !.slice[c] = 0, !.resched[c] = FALSE]
      /\ exiting' = [exiting EXCEPT ![c] = FALSE]
      /\ kids' = [kids EXCEPT ![p] = RemoveAt(kids[p], k)]
      /\ parent' = [parent EXCEPT ![c] = NoProc]
      /\ pc' = [pc EXCEPT ![c] = "none", ![p] = l]
      /\ nr' = nr - 1
  BY <1>k DEF c
<1>6. /\ p # Idle /\ S.state[p] = "RUNNABLE" /\ c # p /\ c # Idle
      /\ S.wait[c] = "NONE"
  <2>1. p # Idle /\ S.state[p] = "RUNNABLE"
    BY <1>1 DEF SchedInv, CpuState, Where
  <2> QED BY <1>3, <1>5, <2>1, SchedFacts
<1>7. /\ S' \in SchedType /\ S'.cur = S.cur /\ S'.wait = S.wait /\ S'.rq = S.rq
      /\ S'.state = [S.state EXCEPT ![c] = "UNUSED"] /\ S'.oops = S.oops
  <2>1. S \in SchedType
    BY DEF SchedInv, TypeOK
  <2>2. /\ S'.cur = S.cur /\ S'.wait = S.wait /\ S'.rq = S.rq
        /\ S'.oops = S.oops
        /\ S'.state = [S.state EXCEPT ![c] = "UNUSED"]
        /\ S'.slice = [S.slice EXCEPT ![c] = 0]
        /\ S'.resched = [S.resched EXCEPT ![c] = FALSE]
    BY <1>5, <2>1 DEF SchedType
  <2>3. /\ S'.state \in [Proc -> ProcState] /\ S'.slice \in [Proc -> 0..MaxSlice]
        /\ S'.resched \in [Proc -> BOOLEAN]
    BY <1>3, <2>1, <2>2, SliceAssumption DEF SchedType, ProcState
  <2>4. S' = [S EXCEPT !.state = S'.state, !.slice = S'.slice,
                       !.resched = S'.resched]
    BY <1>5, <2>1, <2>2 DEF SchedType
  <2> QED BY <2>1, <2>2, <2>3, <2>4 DEF SchedType
<1>8. RunQueueOK'
  <2>1. RunQueueExact(S) /\ WaitStateExact(S)
    BY DEF SchedInv, RunQueueOK
  <2>2. RunQueueExact(S')
    BY <1>3, <1>5, <1>7, <2>1, SchedFacts DEF RunQueueExact
  <2>3. WaitStateExact(S')
    BY <1>1, <1>3, <1>5, <1>6, <1>7, <2>1, SchedFacts, IdleAssumption
       DEF WaitStateExact
  <2> QED BY <2>2, <2>3 DEF RunQueueOK
<1>9. TypeOK'
  <2>1. RemoveAt(kids[p], k) \in Seq(Proc)
    BY <1>3, RemoveAtIs
  <2>2. kids' \in [Proc -> Seq(Proc)]
    BY <1>5, <2>1 DEF SchedInv, TypeOK
  <2>3. pc' \in [Proc -> PCs]
    BY <1>4, <1>5 DEF SchedInv, TypeOK, PCs
  <2>4. /\ parent' \in [Proc -> Proc \cup {NoProc}]
        /\ exiting' \in [Proc -> BOOLEAN]
        /\ arg' \in [Proc -> Proc \cup {NoProc}]
    BY <1>2, <1>5 DEF SchedInv, TypeOK
  <2>5. nr' \in Int
    BY <1>5 DEF SchedInv, TypeOK
  <2> QED BY <1>2, <1>7, <2>2, <2>3, <2>4, <2>5 DEF SchedInv, TypeOK
<1>10. CpuState'
  BY <1>1, <1>3, <1>6, <1>7, SchedFacts DEF CpuState
<1>11. Where'
  BY <1>1, <1>2, <1>3, <1>4, <1>5, <1>6, <1>7, SchedFacts, IdleAssumption
     DEF Where, SchedInv, TypeOK
<1>12. HasParent'
  BY <1>3, <1>5, <1>7, SchedFacts DEF HasParent, SchedInv, TypeOK
<1>13. TimerInv'
  <2>1. c \notin TimerOwners(timers) /\ p \notin TimerOwners(timers)
    BY <1>1, <1>3, <1>5 DEF SchedInv, TimerInv, Where
  <2>2. \A x \in TimerOwners(timers) : pc'[x] \in {"sleep1", "sleep2"}
    BY <1>5, <2>1, OwnersIn DEF SchedInv, TimerInv, TypeOK
  <2> HIDE DEF TimerT
  <2> QED BY <1>2, <1>7, <2>2 DEF SchedInv, TimerInv
<1> QED BY <1>8, <1>9, <1>10, <1>11, <1>12, <1>13 DEF SchedInv

-----------------------------------------------------------------------------
(* The timer interrupt.                                                    *)

(* The first step of run_timer_list, which takes a tick off the first      *)
(* timer.                                                                  *)
LEMMA TickStartStep ==
  ASSUME SchedInv, TickStart
  PROVE  SchedInv'
<1>1. /\ irq = "off" /\ irq' = "timer" /\ timers' = CountDown(timers)
      /\ S.cur \in User => pc[S.cur] = "user"
      /\ S' = KAssert(S, ~Expired(timers))
      /\ UNCHANGED <<pc, parent, kids, exiting, arg, nr, halted>>
  BY DEF TickStart
<1>2. /\ SchedOK(S') /\ S'.state = S.state /\ S'.wait = S.wait /\ S'.cur = S.cur
  <2>1. (~Expired(timers)) \in BOOLEAN
    OBVIOUS
  <2> QED BY <1>1, <2>1, SchedFacts, KAssertOK
<1>3. TimerList(Proc, timers') /\ TimerOwners(timers') = TimerOwners(timers)
  BY <1>1, CountDownOK DEF SchedInv, TimerInv
<1>4. TypeOK'
  <2>1. timers' \in Seq([proc : Proc, expires : Nat]) /\ S' \in SchedType
    BY <1>2, <1>3 DEF TimerList, SchedOK
  <2> QED BY <1>1, <2>1 DEF SchedInv, TypeOK
<1>5. RunQueueOK'
  BY <1>2 DEF SchedOK, RunQueueOK
<1>6. CpuState' /\ HasParent'
  BY <1>1, <1>2 DEF SchedInv, CpuState, HasParent
<1>7. Where'
  BY <1>1, <1>2 DEF SchedInv, Where
<1>8. TimerInv'
  <2>1. \A p \in TimerOwners(timers') : pc'[p] \in {"sleep1", "sleep2"}
    BY <1>1, <1>3 DEF SchedInv, TimerInv
  <2>2. \A p \in Proc : /\ S'.wait[p] = "TIMER" => p \in TimerOwners(timers')
                        /\ S'.wait[p] \in {"NONE", "CHILD", "TIMER"}
    BY <1>2, <1>3 DEF SchedInv, TimerInv
  <2> HIDE DEF TimerT
  <2> QED BY <1>1, <1>3, <2>1, <2>2 DEF TimerInv
<1> QED BY <1>4, <1>5, <1>6, <1>7, <1>8 DEF SchedInv

(* A turn of its loop, which wakes a sleeper and drops its timer.          *)
LEMMA TickExpireStep ==
  ASSUME SchedInv, TickExpire
  PROVE  SchedInv'
<1> DEFINE p == timers[1].proc
           b == S.wait[p] \in Interruptible \cup {"NONE"}
           K == KAssert(S, b)
<1>1. /\ irq = "timer" /\ timers # <<>> /\ S' = WakeupProc(K, p)
      /\ timers' = Tail(timers)
      /\ UNCHANGED <<pc, parent, kids, exiting, arg, irq, nr, halted>>
  BY DEF TickExpire, Expired
<1>2. /\ TimerList(Proc, timers') /\ p \in TimerOwners(timers) /\ p \in Proc
      /\ TimerOwners(timers') = TimerOwners(timers) \ {p}
  BY <1>1, DropTimerOK DEF SchedInv, TimerInv
<1>3. b \in BOOLEAN
  OBVIOUS
<1> HIDE DEF p, b
<1>4. /\ SchedOK(K) /\ K.state = S.state /\ K.wait = S.wait /\ K.cur = S.cur
  BY <1>3, SchedFacts, KAssertOK
<1> HIDE DEF K
<1>5. /\ SchedOK(S') /\ S'.cur = S.cur
      /\ S'.state = [S.state EXCEPT ![p] = "RUNNABLE"]
      /\ S'.wait = [S.wait EXCEPT ![p] = "NONE"]
  <2>1. /\ SchedOK(WakeupProc(K, p)) /\ WakeupProc(K, p).cur = K.cur
        /\ WakeupProc(K, p).state = [K.state EXCEPT ![p] = "RUNNABLE"]
        /\ WakeupProc(K, p).wait = [K.wait EXCEPT ![p] = "NONE"]
    BY <1>2, <1>4, WakeupOK
  <2> QED BY <1>1, <1>4, <2>1
<1>6. S.state[p] \notin {"ZOMBIE", "UNUSED"} /\ p # Idle
  BY <1>2 DEF SchedInv, TimerInv, Where
<1>7. TypeOK'
  <2>1. timers' \in Seq([proc : Proc, expires : Nat]) /\ S' \in SchedType
    BY <1>2, <1>5 DEF TimerList, SchedOK
  <2> QED BY <1>1, <2>1 DEF SchedInv, TypeOK
<1>8. RunQueueOK'
  BY <1>5 DEF SchedOK, RunQueueOK
<1>9. CpuState' /\ HasParent'
  BY <1>1, <1>2, <1>5, <1>6, SchedFacts DEF SchedInv, CpuState, HasParent
<1>10. Where'
  <2>1. \A x \in Proc : /\ S'.state[x] = "ZOMBIE" <=> S.state[x] = "ZOMBIE"
                        /\ S'.state[x] = "UNUSED" <=> S.state[x] = "UNUSED"
    BY <1>2, <1>5, <1>6, SchedFacts
  <2> QED BY <1>1, <1>5, <2>1 DEF SchedInv, Where
<1>11. TimerInv'
  <2>1. \A x \in TimerOwners(timers') : pc'[x] \in {"sleep1", "sleep2"}
    BY <1>1, <1>2 DEF SchedInv, TimerInv
  <2>2. \A x \in Proc : /\ S'.wait[x] = "TIMER" => x \in TimerOwners(timers')
                        /\ S'.wait[x] \in {"NONE", "CHILD", "TIMER"}
    BY <1>2, <1>5, SchedFacts DEF SchedInv, TimerInv
  <2> HIDE DEF TimerT
  <2> QED BY <1>1, <1>2, <2>1, <2>2 DEF TimerInv
<1> QED BY <1>7, <1>8, <1>9, <1>10, <1>11 DEF SchedInv

(* The end of the timer interrupt, where the tick is charged to the        *)
(* current process.                                                        *)
LEMMA TickEndStep ==
  ASSUME SchedInv, TickEnd
  PROVE  SchedInv'
<1>1. /\ irq = "timer" /\ irq' = "off" /\ ~Expired(timers)
      /\ S' = ProcTick(S)
      /\ pc' = IF S.cur \in User THEN [pc EXCEPT ![S.cur] = "trapret"] ELSE pc
      /\ UNCHANGED <<parent, kids, exiting, arg, timers, nr, halted>>
  BY DEF TickEnd
<1>2. /\ SchedOK(S') /\ S'.state = S.state /\ S'.wait = S.wait /\ S'.cur = S.cur
  BY <1>1, SchedFacts, ProcTickOK
<1>3. S.cur \in User => pc[S.cur] = "user" /\ S.state[S.cur] = "RUNNABLE"
  BY <1>1 DEF SchedInv, Where, CpuState
<1>4. TypeOK'
  <2>1. S' \in SchedType /\ "trapret" \in PCs
    BY <1>2 DEF SchedOK, PCs
  <2> QED BY <1>1, <2>1 DEF SchedInv, TypeOK
<1>5. RunQueueOK' /\ HasParent'
  BY <1>1, <1>2 DEF SchedOK, RunQueueOK, SchedInv, HasParent
<1>6. CpuState'
  BY <1>1, <1>2, <1>3 DEF SchedInv, CpuState
<1>7. Where'
  <2>1. \A x \in Proc : pc'[x] = IF x = S.cur /\ x \in User THEN "trapret" ELSE pc[x]
    BY <1>1 DEF SchedInv, TypeOK
  <2> QED BY <1>1, <1>2, <1>3, <2>1, SchedFacts, IdleAssumption
          DEF SchedInv, Where, User
<1>8. TimerInv'
  <2>1. \A x \in TimerOwners(timers) : pc'[x] \in {"sleep1", "sleep2"}
    BY <1>1, <1>3, OwnersIn DEF SchedInv, TimerInv, TypeOK
  <2>2. HeadPending(timers)
    <3>1. ASSUME timers # <<>> PROVE timers[1].expires \in Nat
      <4>1. timers \in Seq(TimerT(Proc))
        BY DEF SchedInv, TypeOK
      <4> HIDE DEF TimerT
      <4>2. timers[1] \in TimerT(Proc)
        BY <3>1, <4>1
      <4> QED BY <4>2 DEF TimerT
    <3> QED BY <1>1, <3>1 DEF HeadPending, Expired
  <2> HIDE DEF TimerT
  <2> QED BY <1>1, <1>2, <2>1, <2>2 DEF SchedInv, TimerInv
<1> QED BY <1>4, <1>5, <1>6, <1>7, <1>8 DEF SchedInv

-----------------------------------------------------------------------------

(* A system call keeps the invariant.                                      *)
LEMMA SyscallStep ==
  ASSUME SchedInv, NEW p \in User, Syscall(p)
  PROVE  SchedInv'
<1>1. p \in Proc /\ p # Idle /\ User \subseteq Proc /\ Child \subseteq Proc
  BY KThreadAssumption DEF User, Child
<1>2. ASSUME At(p, "user")
      PROVE  /\ irq = "off" /\ S.cur = p /\ pc[p] = "user"
             /\ S.state[p] = "RUNNABLE" /\ S.cur # Idle
             /\ pc[S.cur] \notin {"sleep1", "sleep2"}
  BY <1>1, <1>2 DEF At, SchedInv, CpuState
<1>3. "trapret" \in PCs \ {"none"} /\ "wait" \in PCs \ {"none"}
  BY DEF PCs
<1>4. SchedOK(S) /\ exiting \in [Proc -> BOOLEAN]
      /\ arg \in [Proc -> Proc \cup {NoProc}]
  BY SchedFacts DEF SchedInv, TypeOK
<1>5. CASE SysFork(p)
  <2>1. PICK c \in User : At(p, "user") /\ DoFork(p, c, "trapret")
    BY <1>5 DEF SysFork
  <2> QED BY <1>1, <1>2, <1>3, <2>1, ForkStep
<1>6. CASE SysForkFails(p)
  <2>1. /\ At(p, "user") /\ pc' = [pc EXCEPT ![p] = "trapret"]
        /\ UNCHANGED <<S, parent, kids, exiting, arg, timers, irq, nr, halted>>
    BY <1>6 DEF SysForkFails, Goto
  <2> QED BY <1>1, <1>2, <1>3, <1>4, <2>1, MoveStep
<1>7. CASE SysExit(p)
  <2>1. At(p, "user") /\ DoExit(p)
    BY <1>7 DEF SysExit
  <2> QED BY <1>1, <1>2, <2>1, ExitStep
<1>8. CASE SysYield(p)
  <2>1. /\ At(p, "user") /\ pc' = [pc EXCEPT ![p] = "trapret"]
        /\ S' = [S EXCEPT !.resched[p] = TRUE]
        /\ UNCHANGED <<parent, kids, exiting, arg, timers, irq, nr, halted>>
    BY <1>8 DEF SysYield, Goto
  <2>2. /\ S' \in SchedType /\ S'.cur = S.cur /\ S'.wait = S.wait
        /\ S'.state = S.state /\ S'.rq = S.rq
    BY <1>1, <1>4, <2>1 DEF SchedOK, SchedType
  <2>3. SchedOK(S')
    BY <1>4, <2>2 DEF SchedOK, RunQueueExact, WaitStateExact
  <2> QED BY <1>1, <1>2, <1>3, <1>4, <2>1, <2>2, <2>3, MoveStep
<1>9. CASE \E a \in Child \cup {NoProc} : SysWait(p, a)
  <2>1. PICK a \in Child \cup {NoProc} : SysWait(p, a)
    BY <1>9
  <2>2. /\ At(p, "user") /\ pc' = [pc EXCEPT ![p] = "wait"]
        /\ arg' = [arg EXCEPT ![p] = a]
        /\ UNCHANGED <<S, parent, kids, exiting, timers, irq, nr, halted>>
    BY <2>1 DEF SysWait, Goto
  <2>3. arg' \in [Proc -> Proc \cup {NoProc}]
    BY <1>1, <1>4, <2>2
  <2> QED BY <1>1, <1>2, <1>3, <1>4, <2>2, <2>3, MoveStep
<1>10. CASE \E q \in Proc : SysKill(p, q)
  BY <1>10, KillStep
<1>11. CASE \E t \in 0..MaxSleep : SysSleep(p, t)
  <2>1. PICK t \in 0..MaxSleep : At(p, "user") /\ DoSleep(p, t)
    BY <1>11 DEF SysSleep
  <2> QED BY <1>1, <1>2, <2>1, SleepStep
<1> QED BY <1>5, <1>6, <1>7, <1>8, <1>9, <1>10, <1>11 DEF Syscall

(* The kernel's own steps for a process keep the invariant.                *)
LEMMA KernelStepStep ==
  ASSUME SchedInv, NEW p \in Proc, KernelStep(p)
  PROVE  SchedInv'
<1> USE DEF Goto
<1>1. ASSUME NEW l \in {"sleep1", "sleep2", "exit1", "trapret", "wait",
                        "wait1", "wait2"}, At(p, l)
      PROVE  /\ irq = "off" /\ S.cur = p /\ pc[p] = l /\ p # Idle
             /\ l \notin {"sleep1", "wait1", "exit1"} => S.state[p] = "RUNNABLE"
             /\ l # "exit1" => S.state[p] # "ZOMBIE"
  BY <1>1 DEF At, SchedInv, CpuState, Where
<1>2. /\ {"dead", "sleep2", "wait2", "user", "trapret", "fini", "wait"}
           \subseteq PCs \ {"none"}
  BY DEF PCs
<1>3. SchedOK(S) /\ exiting \in [Proc -> BOOLEAN]
      /\ arg \in [Proc -> Proc \cup {NoProc}]
  BY SchedFacts DEF SchedInv, TypeOK
<1>4. CASE SleepSchedule(p)
  <2>1. At(p, "sleep1")
    BY <1>4 DEF SleepSchedule
  <2> QED BY <1>1, <1>2, <1>4, <2>1, ScheduleStep DEF SleepSchedule
<1>5. CASE SleepDone(p)
  BY <1>5, SleepDoneStep
<1>6. CASE ExitSchedule(p)
  <2>1. At(p, "exit1")
    BY <1>6 DEF ExitSchedule
  <2> QED BY <1>1, <1>2, <1>6, <2>1, ScheduleStep DEF ExitSchedule
<1>7. CASE TrapReturn(p)
  <2>1. At(p, "trapret")
    BY <1>7 DEF TrapReturn
  <2>2. /\ irq = "off" /\ S.cur = p /\ pc[p] = "trapret" /\ p # Idle
        /\ S.state[p] = "RUNNABLE"
    BY <1>1, <2>1
  <2>3. CASE DoExit(p)
    BY <2>2, <2>3, ExitStep
  <2>4. CASE /\ S' = IF S.resched[p] THEN Schedule(S) ELSE S
             /\ pc' = [pc EXCEPT ![p] = "user"]
             /\ UNCHANGED <<parent, kids, exiting, arg, timers, irq, nr, halted>>
    <3>1. CASE S' = Schedule(S)
      BY <1>2, <2>2, <2>4, <3>1, ScheduleStep
    <3>2. CASE S' = S
      BY <1>2, <1>3, <2>2, <2>4, <3>2, MoveStep
    <3> QED BY <2>4, <3>1, <3>2
  <2> QED BY <1>7, <2>3, <2>4 DEF TrapReturn
<1>8. CASE WaitReap(p)
  BY <1>8, ReapStep
<1>9. CASE WaitBlock(p)
  <2>1. At(p, "wait")
    BY <1>9 DEF WaitBlock
  <2>2. /\ irq = "off" /\ S.cur = p /\ pc[p] = "wait" /\ p # Idle
        /\ S.state[p] = "RUNNABLE"
    BY <1>1, <2>1
  <2>3. /\ S' = Block(S, "CHILD") /\ pc' = [pc EXCEPT ![p] = "wait1"]
        /\ UNCHANGED <<parent, kids, exiting, arg, timers, irq, nr, halted>>
    BY <1>9 DEF WaitBlock
  <2>4. TimerList(Proc, timers') /\ HeadPending(timers') /\ timers' = timers
    BY <2>2, <2>3 DEF SchedInv, TimerInv
  <2> QED BY <2>2, <2>3, <2>4, BlockStep
<1>10. CASE WaitNoKid(p)
  <2> DEFINE b == p = InitProc => arg[p] = NoProc
             l == IF p = InitProc THEN "fini" ELSE "trapret"
  <2>1. At(p, "wait")
    BY <1>10 DEF WaitNoKid
  <2>2. /\ irq = "off" /\ S.cur = p /\ pc[p] = "wait" /\ p # Idle
        /\ S.state[p] = "RUNNABLE"
    BY <1>1, <2>1
  <2>3. /\ S' = KAssert(S, b) /\ pc' = [pc EXCEPT ![p] = l]
        /\ arg' = [arg EXCEPT ![p] = NoProc]
        /\ UNCHANGED <<parent, kids, exiting, timers, irq, nr, halted>>
    BY <1>10 DEF WaitNoKid
  <2>4. b \in BOOLEAN /\ l \in PCs \ {"none"}
    BY <1>2
  <2> HIDE DEF b, l
  <2>5. /\ SchedOK(S') /\ S'.cur = S.cur /\ S'.state = S.state
        /\ S'.wait = S.wait /\ arg' \in [Proc -> Proc \cup {NoProc}]
    BY <1>3, <2>3, <2>4, KAssertOK
  <2> QED BY <1>3, <2>2, <2>3, <2>4, <2>5, MoveStep
<1>11. CASE WaitSchedule(p)
  <2>1. At(p, "wait1")
    BY <1>11 DEF WaitSchedule
  <2> QED BY <1>1, <1>2, <1>11, <2>1, ScheduleStep DEF WaitSchedule
<1>12. CASE WaitAgain(p)
  <2>1. At(p, "wait2")
    BY <1>12 DEF WaitAgain
  <2>2. /\ irq = "off" /\ S.cur = p /\ pc[p] = "wait2" /\ p # Idle
        /\ S.state[p] = "RUNNABLE"
    BY <1>1, <2>1
  <2>3. CASE DoExit(p)
    BY <2>2, <2>3, ExitStep
  <2>4. CASE /\ pc' = [pc EXCEPT ![p] = "wait"]
             /\ UNCHANGED <<S, parent, kids, exiting, arg, timers, irq, nr,
                            halted>>
    BY <1>2, <1>3, <2>2, <2>4, MoveStep
  <2> QED BY <1>12, <2>3, <2>4 DEF WaitAgain
<1> QED BY <1>4, <1>5, <1>6, <1>7, <1>8, <1>9, <1>10, <1>11, <1>12
        DEF KernelStep

(* The steps of initproc keep the invariant.                               *)
LEMMA InitStepStep ==
  ASSUME SchedInv, InitStep
  PROVE  SchedInv'
<1> USE DEF Goto
<1>0. InitProc \in Proc /\ InitProc # Idle /\ User \subseteq Proc
      /\ KThread \subseteq Proc
  BY InitAssumption, KThreadAssumption DEF User
<1>1. ASSUME NEW l \in {"fork0", "forks", "joins", "resched", "fini"},
             At(InitProc, l)
      PROVE  /\ irq = "off" /\ S.cur = InitProc /\ pc[InitProc] = l
             /\ S.state[InitProc] = "RUNNABLE"
             /\ pc[S.cur] \notin {"sleep1", "sleep2"} /\ S.cur # Idle
  BY <1>0, <1>1 DEF At, SchedInv, CpuState
<1>2. {"forks", "wait"} \subseteq PCs \ {"none"}
  BY DEF PCs
<1>3. SchedOK(S) /\ exiting \in [Proc -> BOOLEAN]
      /\ arg \in [Proc -> Proc \cup {NoProc}]
  BY SchedFacts DEF SchedInv, TypeOK
<1>4. CASE InitFork
  <2>1. PICK c \in User \cup KThread :
           /\ DoFork(InitProc, c, "forks")
           /\ At(InitProc, "fork0") \/ At(InitProc, "forks")
    BY <1>4 DEF InitFork
  <2>2. irq = "off" /\ S.cur = InitProc /\ S.state[InitProc] = "RUNNABLE"
        /\ pc[InitProc] \notin {"sleep1", "sleep2"}
    BY <1>1, <2>1
  <2>3. c \in Proc
    BY <1>0
  <2> QED BY <1>0, <1>2, <2>1, <2>2, <2>3, ForkStep
<1>5. CASE InitJoin
  <2> DEFINE a == IF \E c \in KThread : pc[c] # "none"
                  THEN CHOOSE c \in KThread : pc[c] # "none" ELSE NoProc
  <2>1. /\ At(InitProc, "forks") \/ At(InitProc, "joins")
        /\ arg' = [arg EXCEPT ![InitProc] = a]
        /\ pc' = [pc EXCEPT ![InitProc] = "wait"]
        /\ UNCHANGED <<S, parent, kids, exiting, timers, irq, nr, halted>>
    BY <1>5 DEF InitJoin
  <2>2. /\ irq = "off" /\ S.cur = InitProc /\ S.state[S.cur] = "RUNNABLE"
        /\ pc[S.cur] \notin {"sleep1", "sleep2"} /\ S.cur # Idle
    BY <1>1, <2>1
  <2>3. a \in Proc \cup {NoProc}
    BY <1>0
  <2> HIDE DEF a
  <2>4. arg' \in [Proc -> Proc \cup {NoProc}]
    BY <1>0, <1>3, <2>1, <2>3
  <2> QED BY <1>2, <1>3, <2>1, <2>2, <2>4, MoveStep
<1>6. CASE InitReschedule
  <2>1. At(InitProc, "resched")
    BY <1>6 DEF InitReschedule
  <2>2. /\ irq = "off" /\ S.cur = InitProc /\ S.state[S.cur] = "RUNNABLE"
        /\ pc[S.cur] \notin {"sleep1", "sleep2"} /\ S.cur # Idle
    BY <1>1, <2>1
  <2> QED BY <1>2, <1>6, <2>2, ScheduleStep DEF InitReschedule
<1>7. CASE InitFinish
  <2> DEFINE b == kids[InitProc] = <<>> /\ nr = 2
  <2>1. /\ S' = KAssert(S, b) /\ halted' = TRUE
        /\ UNCHANGED <<pc, parent, kids, exiting, arg, timers, irq, nr>>
    BY <1>7 DEF InitFinish
  <2>2. b \in BOOLEAN
    OBVIOUS
  <2> HIDE DEF b
  <2>3. /\ SchedOK(S') /\ S'.cur = S.cur /\ S'.state = S.state
        /\ S'.wait = S.wait
    BY <1>3, <2>1, <2>2, KAssertOK
  <2>4. TypeOK' /\ RunQueueOK'
    BY <2>1, <2>3 DEF SchedOK, RunQueueOK, SchedInv, TypeOK
  <2>5. CpuState' /\ Where' /\ HasParent'
    BY <2>1, <2>3 DEF SchedInv, CpuState, Where, HasParent
  <2>6. TimerInv'
    BY <2>1, <2>3 DEF SchedInv, TimerInv
  <2> QED BY <2>4, <2>5, <2>6 DEF SchedInv
<1> QED BY <1>4, <1>5, <1>6, <1>7 DEF InitStep

(* Every step of the system keeps the invariant.                           *)
LEMMA SchedInvStep == SchedInv /\ [Next]_vars => SchedInv'
<1> SUFFICES ASSUME SchedInv, [Next]_vars PROVE SchedInv'
  OBVIOUS
<1>1. CASE \E p \in User : Syscall(p)
  BY <1>1, SyscallStep
<1>2. ASSUME NEW p \in KThread, Thread(p) PROVE SchedInv'
  <2>1. p \in Proc /\ p # Idle
    BY KThreadAssumption
  <2>2. ASSUME At(p, "kern")
        PROVE  /\ irq = "off" /\ S.cur = p /\ pc[p] \notin {"sleep1", "sleep2"}
               /\ S.state[p] = "RUNNABLE"
    BY <2>2 DEF At, SchedInv, CpuState
  <2>3. CASE \E t \in 0..MaxSleep : At(p, "kern") /\ DoSleep(p, t)
    BY <2>1, <2>2, <2>3, SleepStep
  <2>4. CASE At(p, "kern") /\ DoExit(p)
    BY <2>1, <2>2, <2>4, ExitStep
  <2> QED BY <1>2, <2>3, <2>4 DEF Thread
<1>3. CASE \E p \in Proc : KernelStep(p)
  BY <1>3, KernelStepStep
<1>4. CASE IdleLoop
  <2>1. /\ irq = "off" /\ S.cur = Idle /\ S' = Schedule(S) /\ pc' = pc
        /\ pc[Idle] = "idle" /\ S.state[Idle] = "RUNNABLE"
        /\ UNCHANGED <<parent, kids, exiting, arg, timers, irq, nr, halted>>
    BY <1>4, SchedFacts DEF IdleLoop, At
  <2>2. pc' = [pc EXCEPT ![S.cur] = "idle"] /\ "idle" \in PCs \ {"none"}
    BY <2>1 DEF SchedInv, TypeOK, PCs
  <2> QED BY <2>1, <2>2, ScheduleStep
<1>5. CASE InitStep
  BY <1>5, InitStepStep
<1>6. CASE TickStart
  BY <1>6, TickStartStep
<1>7. CASE TickExpire
  BY <1>7, TickExpireStep
<1>8. CASE TickEnd
  BY <1>8, TickEndStep
<1>9. CASE UNCHANGED vars
  BY <1>9 DEF vars, SchedInv, TypeOK, RunQueueOK, CpuState, Where, HasParent,
              TimerInv
<1> QED BY <1>1, <1>2, <1>3, <1>4, <1>5, <1>6, <1>7, <1>8, <1>9
        DEF Next, Stopped

(* The inductive invariant holds in every reachable state.                 *)
THEOREM SchedInvHolds == Spec => []SchedInv
BY InitSched, SchedInvStep, PTL DEF Spec

(* Every variable keeps its type: no timer count and no time slice becomes *)
(* negative, and every list holds processes.                               *)
THEOREM TypeCorrect == Spec => []TypeOK
<1>1. SchedInv => TypeOK
  BY DEF SchedInv
<1> QED BY <1>1, SchedInvHolds, PTL

(* The run queue of the round-robin class holds, once each, exactly the    *)
(* runnable processes that wait for the CPU, and a process has a           *)
(* wait_state exactly while it sleeps, whatever fork, exit, wait, kill,    *)
(* sleep, yield and the timer interrupt do.                                *)
THEOREM RunQueueCorrect == Spec => []RunQueueOK
<1>1. SchedInv => RunQueueOK
  BY DEF SchedInv
<1> QED BY <1>1, SchedInvHolds, PTL

(* The timer list refers to no kernel stack that do_sleep has left, and    *)
(* every process that sleeps on a timer has one.                           *)
THEOREM TimersCorrect == Spec => []TimersLive
<1>1. SchedInv => TimersLive
  <2> SUFFICES ASSUME SchedInv PROVE TimersLive
    OBVIOUS
  <2>1. TimerInv
    BY DEF SchedInv
  <2>2. \A i \in DOMAIN timers : timers[i].proc \in TimerOwners(timers)
    BY DEF TimerOwners
  <2> HIDE DEF TimerT
  <2> QED BY <2>1, <2>2 DEF TimerInv, TimersLive, TimerList
<1> QED BY <1>1, SchedInvHolds, PTL

-----------------------------------------------------------------------------
(* The family tree and the asserts.                                        *)

(* The processes there are.                                                *)
Live == {p \in Proc : S.state[p] # "UNUSED"}

(* No cycle, and no endless chain, of parents among the processes made     *)
(* after boot.                                                             *)
Grounded(par) ==
  \A Q \in SUBSET Child :
    Q # {} /\ (\A c \in Q : par[c] # NoProc) => \E c \in Q : par[c] \notin Q

(* No list of children holds a process twice.                              *)
OnceEach ==
  \A p \in Proc : \A i, j \in DOMAIN kids[p] : kids[p][i] = kids[p][j] => i = j

(* The lists of children and the parent pointers say the same.             *)
Mutual == \A p, c \in Proc : c \in ToSet(kids[p]) <=> parent[c] = p

(* Every process but idleproc has a parent ...                             *)
Parented ==
  \A c \in Proc : parent[c] = NoProc <=> S.state[c] = "UNUSED" \/ c = Idle

(* ... that is alive.                                                      *)
ParentAlive ==
  \A c \in Proc :
    parent[c] # NoProc => S.state[parent[c]] \in {"RUNNABLE", "SLEEPING"}

Kinship == OnceEach /\ Mutual /\ Parented /\ ParentAlive

(* nr_process counts the processes.                                        *)
Counted ==
  IsFiniteSet(Live) /\ nr = Cardinality(Live) /\ nr <= MaxProcess

(* initproc lives until it halts the machine, it is the only child of      *)
(* idleproc, and the threads of check_sync are its children.               *)
KernelFamily ==
  /\ S.state[InitProc] \in {"RUNNABLE", "SLEEPING"}
  /\ \A c \in Proc : parent[c] = Idle => c = InitProc
  /\ \A c \in KThread : S.state[c] # "UNUSED" => parent[c] = InitProc

(* What initproc waits for is there to be waited for, and at the end of    *)
(* init_main it has the CPU and no child.                                  *)
InitWaits ==
  /\ arg[InitProc] # NoProc =>
       arg[InitProc] \in KThread /\ S.state[arg[InitProc]] # "UNUSED"
  /\ pc[InitProc] = "fini" => S.cur = InitProc /\ kids[InitProc] = <<>>

(* The inductive invariant behind the family tree, the wakeups of do_wait  *)
(* and the asserts.                                                        *)
TreeInv ==
  /\ Kinship /\ Grounded(parent) /\ Counted /\ KernelFamily /\ InitWaits
  /\ NoLostChild /\ NoAssertFails

-----------------------------------------------------------------------------

(* The boot processes are not among those made later.                      *)
LEMMA Slots ==
  /\ Child \subseteq Proc /\ User \subseteq Proc /\ KThread \subseteq Proc
  /\ Idle \notin Child /\ InitProc \notin Child
  /\ Idle \in Proc /\ InitProc \in Proc /\ InitProc # Idle
  /\ NoProc \notin Proc
  /\ \A p \in Proc : p \in Child \/ p = Idle \/ p = InitProc
BY IdleAssumption, InitAssumption, KThreadAssumption, NoProcAssumption
   DEF Child, User

(* proc_init makes two processes, one the child of the other.              *)
LEMMA InitTree == Init => TreeInv
<1> SUFFICES ASSUME Init PROVE TreeInv
  OBVIOUS
<1>1. /\ S.state = [p \in Proc |-> IF p \in Child THEN "UNUSED" ELSE "RUNNABLE"]
      /\ S.wait = [p \in Proc |-> "NONE"] /\ S.cur = Idle /\ S.oops = FALSE
  BY DEF Init
<1>2. /\ parent = [p \in Proc |-> IF p = InitProc THEN Idle ELSE NoProc]
      /\ kids = [p \in Proc |-> IF p = Idle THEN <<InitProc>> ELSE <<>>]
      /\ arg = [p \in Proc |-> NoProc] /\ nr = 2
  BY DEF Init
<1>3. ToSet(<<InitProc>>) = {InitProc} /\ ToSet(<<>>) = {}
      /\ DOMAIN <<InitProc>> = {1}
  <2>1. DOMAIN <<InitProc>> = {1} /\ <<InitProc>>[1] = InitProc
    OBVIOUS
  <2> QED BY <2>1 DEF ToSet
<1>4. Kinship
  <2>1. OnceEach
    BY <1>2, <1>3 DEF OnceEach
  <2>2. Mutual
    BY <1>2, <1>3, Slots DEF Mutual
  <2>3. Parented
    BY <1>1, <1>2, Slots DEF Parented
  <2>4. ParentAlive
    BY <1>1, <1>2, Slots DEF ParentAlive
  <2> QED BY <2>1, <2>2, <2>3, <2>4 DEF Kinship
<1>5. Grounded(parent)
  BY <1>2, Slots DEF Grounded
<1>6. Counted
  <2>1. Live = {Idle} \cup {InitProc}
    BY <1>1, Slots DEF Live
  <2>2. IsFiniteSet({Idle}) /\ Cardinality({Idle}) = 1
    BY FS_Singleton
  <2>3. IsFiniteSet(Live) /\ Cardinality(Live) = 2
    BY <2>1, <2>2, FS_AddElement, Slots
  <2> QED BY <1>2, <2>3, BootAssumption DEF Counted
<1>7. KernelFamily
  BY <1>1, <1>2, Slots, KThreadAssumption DEF KernelFamily, Child
<1>8. InitWaits
  <2>1. pc[InitProc] = "fork0"
    BY Slots DEF Init
  <2> QED BY <1>2, <2>1, Slots DEF InitWaits
<1>9. NoLostChild /\ NoAssertFails
  BY <1>1 DEF NoLostChild, NoAssertFails
<1> QED BY <1>4, <1>5, <1>6, <1>7, <1>8, <1>9 DEF TreeInv

-----------------------------------------------------------------------------
(* Steps by kind.                                                          *)

(* Steps that leave the family as it is: processes only go to sleep and    *)
(* wake up.                                                                *)
LEMMA QuietStep ==
  ASSUME SchedInv, TreeInv, SchedInv', UNCHANGED <<parent, kids, nr>>,
         \A q \in Proc : \/ S'.state[q] = S.state[q]
                         \/ /\ S.state[q] \in {"RUNNABLE", "SLEEPING"}
                            /\ S'.state[q] \in {"RUNNABLE", "SLEEPING"},
         \A q \in Proc : S'.wait[q] = "CHILD" =>
           /\ arg'[q] = arg[q]
           /\ \/ S.wait[q] = "CHILD"
              \/ \A c \in Awaited(q) : S.state[c] # "ZOMBIE",
         \/ arg'[InitProc] \in {arg[InitProc], NoProc}
         \/ arg'[InitProc] \in KThread /\ S.state[arg'[InitProc]] # "UNUSED",
         pc'[InitProc] = "fini" => S'.cur = InitProc /\ kids[InitProc] = <<>>,
         ~S'.oops
  PROVE  TreeInv'
<1>1. /\ \A q \in Proc : S'.state[q] = "UNUSED" <=> S.state[q] = "UNUSED"
      /\ \A q \in Proc : S'.state[q] = "ZOMBIE" <=> S.state[q] = "ZOMBIE"
      /\ \A q \in Proc : S'.state[q] \in {"RUNNABLE", "SLEEPING"} <=>
                          S.state[q] \in {"RUNNABLE", "SLEEPING"}
  OBVIOUS
<1>2. /\ parent' = parent /\ kids' = kids /\ nr' = nr
      /\ parent \in [Proc -> Proc \cup {NoProc}] /\ kids \in [Proc -> Seq(Proc)]
  BY DEF SchedInv, TypeOK
<1>3. Kinship'
  <2>1. OnceEach' /\ Mutual'
    BY <1>2 DEF TreeInv, Kinship, OnceEach, Mutual
  <2>2. Parented'
    BY <1>1, <1>2 DEF TreeInv, Kinship, Parented
  <2>3. ParentAlive'
    <3> SUFFICES ASSUME NEW c \in Proc, parent'[c] # NoProc
                 PROVE  S'.state[parent'[c]] \in {"RUNNABLE", "SLEEPING"}
      BY DEF ParentAlive
    <3>1. parent'[c] = parent[c] /\ parent[c] \in Proc
      BY <1>2
    <3>2. S.state[parent[c]] \in {"RUNNABLE", "SLEEPING"}
      BY <3>1 DEF TreeInv, Kinship, ParentAlive
    <3> QED BY <1>1, <3>1, <3>2
  <2> QED BY <2>1, <2>2, <2>3 DEF Kinship
<1>4. Grounded(parent)'
  BY <1>2 DEF TreeInv, Grounded
<1>5. Counted'
  <2>1. Live' = Live
    BY <1>1 DEF Live
  <2> QED BY <1>2, <2>1 DEF TreeInv, Counted
<1>6. KernelFamily'
  <2>1. InitProc \in Proc /\ \A c \in KThread : c \in Proc
    BY Slots
  <2> QED BY <1>1, <1>2, <2>1 DEF TreeInv, KernelFamily
<1>7. InitWaits'
  BY <1>1, <1>2, Slots DEF TreeInv, InitWaits
<1>8. NoLostChild'
  <2> SUFFICES ASSUME NEW p \in Proc, S'.wait[p] = "CHILD",
                      NEW c \in Awaited(p)'
               PROVE  S'.state[c] # "ZOMBIE"
    BY DEF NoLostChild
  <2>0. kids[p] \in Seq(Proc) /\ c \in ToSet(kids[p])
    BY <1>2 DEF Awaited
  <2>1. c \in ToSet(kids[p]) /\ c \in Proc
    BY <2>0, MembersIn
  <2>2. c \in Awaited(p)
    BY <1>2 DEF Awaited
  <2>3. S.state[c] # "ZOMBIE"
    BY <2>2 DEF TreeInv, NoLostChild
  <2> QED BY <1>1, <2>1, <2>3
<1> QED BY <1>3, <1>4, <1>5, <1>6, <1>7, <1>8 DEF TreeInv, NoAssertFails

(* A process that sleeps in do_wait is woken if b holds.                   *)
LEMMA WakeWaiter ==
  ASSUME NEW T, SchedOK(T), NEW q \in Proc, NEW b \in BOOLEAN, NEW W,
         W = IF T.wait[q] = "CHILD" /\ b THEN WakeupProc(T, q) ELSE T
  PROVE  /\ SchedOK(W) /\ W.cur = T.cur /\ W.oops = T.oops
         /\ \A x \in Proc :
              IF x = q /\ T.wait[q] = "CHILD" /\ b
              THEN W.state[x] = "RUNNABLE" /\ W.wait[x] = "NONE"
              ELSE W.state[x] = T.state[x] /\ W.wait[x] = T.wait[x]
<1>1. /\ T.state \in [Proc -> ProcState] /\ T.wait \in [Proc -> WaitState]
      /\ T.oops \in BOOLEAN
      /\ T.wait[q] # "NONE" => T.state[q] = "SLEEPING"
  BY DEF SchedOK, SchedType, WaitStateExact
<1>2. CASE T.wait[q] = "CHILD" /\ b
  <2>1. W = WakeupProc(T, q) /\ T.state[q] # "ZOMBIE"
    BY <1>1, <1>2
  <2>2. /\ SchedOK(W) /\ W.cur = T.cur /\ W.oops = (T.oops \/ FALSE)
        /\ W.state = [T.state EXCEPT ![q] = "RUNNABLE"]
        /\ W.wait = [T.wait EXCEPT ![q] = "NONE"]
    BY <2>1, WakeupOK
  <2> QED BY <1>1, <1>2, <2>2
<1>3. CASE ~(T.wait[q] = "CHILD" /\ b)
  BY <1>3
<1> QED BY <1>2, <1>3

(* No process is its own parent.                                           *)
LEMMA NotOwnParent ==
  ASSUME SchedInv, TreeInv, NEW p \in Child
  PROVE  parent[p] # p
<1>1. {p} \in SUBSET Child /\ {p} # {} /\ p # NoProc
  BY Slots
<1>2. ASSUME parent[p] = p PROVE FALSE
  <2>1. \A c \in {p} : parent[c] # NoProc
    BY <1>1, <1>2
  <2>2. \E c \in {p} : parent[c] \notin {p}
    BY <1>1, <2>1 DEF TreeInv, Grounded
  <2> QED BY <1>2, <2>2
<1> QED BY <1>2

(* What do_exit of a process other than initproc does to the processes: it *)
(* ends, and it wakes its parent and initproc where they wait for this.    *)
Woken(p, x) ==
  /\ S.wait[x] = "CHILD"
  /\ \/ x = parent[p]
     \/ x = InitProc /\ \E c \in ToSet(kids[p]) : S.state[c] = "ZOMBIE"

(* The scheduler state after do_exit.                                      *)
LEMMA ExitEffect ==
  ASSUME SchedInv, TreeInv, NEW p \in Child, S.cur = p,
         S.state[p] = "RUNNABLE", DoExit(p)
  PROVE  /\ S'.cur = p /\ S'.oops = S.oops
         /\ \A x \in Proc :
              S'.state[x] = IF x = p THEN "ZOMBIE"
                            ELSE IF Woken(p, x) THEN "RUNNABLE" ELSE S.state[x]
         /\ \A x \in Proc :
              S'.wait[x] = IF Woken(p, x) THEN "NONE" ELSE S.wait[x]
<1> DEFINE Z == [S EXCEPT !.state[p] = "ZOMBIE"]
           W == WakeParent(Z, p)
           par == parent[p]
           a == TRUE
           b == \E c \in ToSet(kids[p]) : W.state[c] = "ZOMBIE"
<1>1. p \in Proc /\ p # InitProc /\ p # Idle /\ S.wait[p] = "NONE"
  BY Slots, SchedFacts
<1>2. par \in Proc /\ par # p
  BY <1>1, NotOwnParent DEF SchedInv, HasParent
<1>3. /\ SchedOK(Z) /\ Z.cur = p /\ Z.wait = S.wait /\ Z.oops = S.oops
      /\ Z.state = [S.state EXCEPT ![p] = "ZOMBIE"]
  <2>1. S \in SchedType /\ RunQueueExact(S) /\ WaitStateExact(S)
    BY SchedFacts DEF SchedOK
  <2>2. /\ Z \in SchedType /\ Z.cur = p /\ Z.wait = S.wait /\ Z.oops = S.oops
        /\ Z.rq = S.rq /\ Z.state = [S.state EXCEPT ![p] = "ZOMBIE"]
    BY <2>1 DEF SchedType, ProcState
  <2> HIDE DEF Z
  <2>3. RunQueueExact(Z)
    BY <1>1, <2>1, <2>2 DEF RunQueueExact, SchedType
  <2>4. WaitStateExact(Z)
    BY <1>1, <2>1, <2>2, IdleAssumption DEF WaitStateExact, SchedType
  <2> QED BY <2>2, <2>3, <2>4 DEF SchedOK
<1>t. a \in BOOLEAN /\ a
  OBVIOUS
<1>4. W = IF Z.wait[par] = "CHILD" /\ a THEN WakeupProc(Z, par) ELSE Z
  BY DEF WakeParent
<1>5. S' = IF W.wait[InitProc] = "CHILD" /\ b THEN WakeupProc(W, InitProc) ELSE W
  BY <1>1 DEF DoExit, WakeAdopter
<1> HIDE DEF Z, W, par, a
<1>6. /\ SchedOK(W) /\ W.cur = p /\ W.oops = S.oops
      /\ \A x \in Proc :
           IF x = par /\ Z.wait[par] = "CHILD"
           THEN W.state[x] = "RUNNABLE" /\ W.wait[x] = "NONE"
           ELSE W.state[x] = Z.state[x] /\ W.wait[x] = Z.wait[x]
  <2>1. SchedOK(Z) /\ par \in Proc
    BY <1>2, <1>3
  <2>2. /\ SchedOK(W) /\ W.cur = Z.cur /\ W.oops = Z.oops
        /\ \A x \in Proc :
             IF x = par /\ Z.wait[par] = "CHILD" /\ a
             THEN W.state[x] = "RUNNABLE" /\ W.wait[x] = "NONE"
             ELSE W.state[x] = Z.state[x] /\ W.wait[x] = Z.wait[x]
    <3>1. a \in BOOLEAN
      BY <1>t
    <3> QED BY <3>1, <1>4, <2>1, WakeWaiter
  <2> QED BY <1>3, <1>t, <2>2
<1>7. \A x \in Proc :
        /\ W.state[x] = IF x = p THEN "ZOMBIE"
                        ELSE IF x = par /\ S.wait[par] = "CHILD" THEN "RUNNABLE"
                        ELSE S.state[x]
        /\ W.wait[x] = IF x = par /\ S.wait[par] = "CHILD" THEN "NONE"
                       ELSE S.wait[x]
  BY <1>1, <1>2, <1>3, <1>6, SchedFacts
<1>8. b <=> \E c \in ToSet(kids[p]) : S.state[c] = "ZOMBIE"
  <2>1. ASSUME NEW c \in ToSet(kids[p]) PROVE c \in Proc /\ c # p
    <3>1. kids[p] \in Seq(Proc)
      BY <1>1 DEF SchedInv, TypeOK
    <3>2. c \in Proc
      BY <3>1, MembersIn
    <3>3. parent[c] = p
      BY <1>1, <3>2 DEF TreeInv, Kinship, Mutual
    <3> QED BY <1>2, <3>2, <3>3 DEF par
  <2>2. S.wait[par] = "CHILD" => S.state[par] = "SLEEPING"
    BY <1>2, SchedFacts
  <2> QED BY <1>7, <2>1, <2>2
<1>9. b \in BOOLEAN
  OBVIOUS
<1> HIDE DEF b
<1>10. /\ S'.cur = p /\ S'.oops = S.oops
       /\ \A x \in Proc :
            IF x = InitProc /\ W.wait[InitProc] = "CHILD" /\ b
            THEN S'.state[x] = "RUNNABLE" /\ S'.wait[x] = "NONE"
            ELSE S'.state[x] = W.state[x] /\ S'.wait[x] = W.wait[x]
  BY <1>5, <1>6, <1>9, WakeWaiter, Slots
<1>11. ASSUME NEW x \in Proc
       PROVE  /\ S'.state[x] = IF x = p THEN "ZOMBIE"
                           ELSE IF Woken(p, x) THEN "RUNNABLE" ELSE S.state[x]
              /\ S'.wait[x] = IF Woken(p, x) THEN "NONE" ELSE S.wait[x]
  <2>1. Woken(p, x) <=> S.wait[x] = "CHILD" /\ (x = par \/ (x = InitProc /\ b))
    BY <1>8 DEF Woken, par
  <2>2. x = p => ~Woken(p, x)
    BY <1>1 DEF Woken
  <2> QED BY <1>1, <1>7, <1>10, <2>1, <2>2
<1> QED BY <1>10, <1>11

(* What every proof below needs of the family and its types.               *)
LEMMA TreeFacts ==
  ASSUME SchedInv, TreeInv
  PROVE  /\ parent \in [Proc -> Proc \cup {NoProc}]
         /\ kids \in [Proc -> Seq(Proc)] /\ pc \in [Proc -> PCs]
         /\ arg \in [Proc -> Proc \cup {NoProc}] /\ nr \in Int
         /\ Kinship /\ Grounded(parent) /\ Counted /\ KernelFamily
         /\ InitWaits /\ NoLostChild /\ ~S.oops
BY DEF SchedInv, TypeOK, TreeInv, NoAssertFails

(* do_fork adds a child at the head of the list of its parent.             *)
LEMMA ForkTree ==
  ASSUME SchedInv, TreeInv, NEW p \in Proc, S.cur = p, p # Idle,
         S.state[p] = "RUNNABLE", NEW c \in Child, NEW l, l # "fini",
         c \in KThread => p = InitProc, DoFork(p, c, l)
  PROVE  TreeInv'
<1>0. /\ parent \in [Proc -> Proc \cup {NoProc}]
      /\ kids \in [Proc -> Seq(Proc)] /\ pc \in [Proc -> PCs]
      /\ Kinship /\ ~S.oops /\ NoProc \notin Proc
  BY TreeFacts, Slots
<1>1. /\ S.state[c] = "UNUSED" /\ c \in Proc /\ c # p /\ S.wait[p] = "NONE"
      /\ S.wait[c] = "NONE" /\ c # Idle /\ c # InitProc
  BY SchedFacts, Slots DEF DoFork
<1>2. KAssert(S, S.wait[p] = "NONE") = S
  BY <1>1, SchedFacts DEF KAssert, SchedOK, SchedType
<1>3. /\ S' = WakeupProc(S, c) /\ nr < MaxProcess
      /\ pc' = [pc EXCEPT ![c] = IF c \in User THEN "user" ELSE "kern", ![p] = l]
      /\ parent' = [parent EXCEPT ![c] = p]
      /\ kids' = [kids EXCEPT ![p] = <<c>> \o kids[p]]
      /\ nr' = nr + 1 /\ arg' = arg
  BY <1>2 DEF DoFork, ForkAllowed
<1>4. /\ S'.cur = p /\ S'.state = [S.state EXCEPT ![c] = "RUNNABLE"]
      /\ S'.wait = S.wait /\ ~S'.oops
  <2>1. /\ S'.cur = p /\ S'.state = [S.state EXCEPT ![c] = "RUNNABLE"]
        /\ S'.wait = [S.wait EXCEPT ![c] = "NONE"]
        /\ S'.oops = (S.oops \/ S.state[c] = "ZOMBIE")
    BY <1>1, <1>3, SchedFacts, WakeupOK
  <2> QED BY <1>0, <1>1, <2>1, SchedFacts
<1>5. /\ S.state \in [Proc -> ProcState]
      /\ \A q \in Proc : S'.state[q] = IF q = c THEN "RUNNABLE" ELSE S.state[q]
      /\ \A q \in Proc : parent'[q] = IF q = c THEN p ELSE parent[q]
  BY <1>0, <1>1, <1>3, <1>4, SchedFacts
<1>6. parent[c] = NoProc /\ \A d \in Proc : parent[d] # c
  BY <1>0, <1>1 DEF Kinship, Parented, ParentAlive
<1>7. /\ <<c>> \o kids[p] \in Seq(Proc)
      /\ ToSet(<<c>> \o kids[p]) = ToSet(kids[p]) \cup {c}
      /\ \A i, j \in DOMAIN (<<c>> \o kids[p]) :
           (<<c>> \o kids[p])[i] = (<<c>> \o kids[p])[j] => i = j
  <2>1. kids[p] \in Seq(Proc) /\ c \notin ToSet(kids[p])
        /\ \A i, j \in DOMAIN kids[p] : kids[p][i] = kids[p][j] => i = j
    BY <1>0, <1>1, <1>6 DEF Kinship, OnceEach, Mutual
  <2> QED BY <1>1, <2>1, PushFacts
<1>8. Kinship'
  <2> DEFINE h == <<c>> \o kids[p]
  <2> HIDE DEF h
  <2>1. \A q \in Proc : kids'[q] = IF q = p THEN h ELSE kids[q]
    BY <1>0, <1>3 DEF h
  <2>2. OnceEach'
    BY <1>0, <1>7, <2>1 DEF Kinship, OnceEach, h
  <2>3. Mutual'
    <3> SUFFICES ASSUME NEW q \in Proc, NEW d \in Proc
                 PROVE  d \in ToSet(kids'[q]) <=> parent'[d] = q
      BY DEF Mutual
    <3>1. d \in ToSet(kids[q]) <=> parent[d] = q
      BY <1>0 DEF Kinship, Mutual
    <3>2. ToSet(kids'[q]) = IF q = p THEN ToSet(kids[q]) \cup {c} ELSE ToSet(kids[q])
      BY <1>7, <2>1 DEF h
    <3> QED BY <1>0, <1>5, <1>6, <3>1, <3>2
  <2>4. Parented'
    BY <1>0, <1>1, <1>5 DEF Kinship, Parented
  <2>5. ParentAlive'
    <3> SUFFICES ASSUME NEW d \in Proc, parent'[d] # NoProc
                 PROVE  S'.state[parent'[d]] \in {"RUNNABLE", "SLEEPING"}
      BY DEF ParentAlive
    <3>1. CASE d = c
      BY <1>1, <1>5, <3>1
    <3>2. CASE d # c
      <4>1. parent'[d] = parent[d] /\ parent[d] \in Proc /\ parent[d] # c
        BY <1>0, <1>5, <1>6, <3>2
      <4>2. S.state[parent[d]] \in {"RUNNABLE", "SLEEPING"}
        BY <1>0, <4>1 DEF Kinship, ParentAlive
      <4> QED BY <1>5, <4>1, <4>2
    <3> QED BY <3>1, <3>2
  <2> QED BY <2>2, <2>3, <2>4, <2>5 DEF Kinship
<1>9. Grounded(parent)'
  <2> SUFFICES ASSUME NEW Q \in SUBSET Child, Q # {},
                      \A d \in Q : parent'[d] # NoProc
               PROVE  \E d \in Q : parent'[d] \notin Q
    BY DEF Grounded
  <2>1. CASE Q = {c}
    BY <1>1, <1>5, <2>1
  <2>2. CASE Q # {c}
    <3> DEFINE R == Q \ {c}
    <3>1. R \in SUBSET Child /\ R # {} /\ \A d \in R : parent[d] # NoProc
      BY <1>5, <2>2, Slots
    <3>2. PICK d \in R : parent[d] \notin R
      BY <3>1, TreeFacts DEF Grounded
    <3>3. d \in Proc /\ d # c /\ parent[d] # c
      BY <1>6, Slots
    <3> QED BY <1>5, <3>2, <3>3
  <2> QED BY <2>1, <2>2
<1>10. Counted'
  <2>1. Live' = Live \cup {c} /\ c \notin Live
    BY <1>1, <1>5 DEF Live
  <2>2. IsFiniteSet(Live') /\ Cardinality(Live') = Cardinality(Live) + 1
    BY <2>1, FS_AddElement, TreeFacts DEF Counted
  <2>3. nr' = Cardinality(Live') /\ nr' <= MaxProcess
    BY <1>3, <2>2, BootAssumption, TreeFacts DEF Counted
  <2> QED BY <2>2, <2>3 DEF Counted
<1>11. KernelFamily'
  BY <1>1, <1>5, TreeFacts, Slots DEF KernelFamily
<1>12. InitWaits'
  <2>1. pc'[InitProc] # "fini"
    BY <1>0, <1>1, <1>3, TreeFacts, Slots DEF InitWaits
  <2> QED BY <1>1, <1>3, <1>5, <2>1, TreeFacts, Slots DEF InitWaits
<1>13. NoLostChild'
  <2> SUFFICES ASSUME NEW q \in Proc, S'.wait[q] = "CHILD",
                      NEW d \in Awaited(q)'
               PROVE  S'.state[d] # "ZOMBIE"
    BY DEF NoLostChild
  <2>1. q # p /\ kids'[q] = kids[q] /\ S.wait[q] = "CHILD" /\ arg' = arg
    BY <1>0, <1>1, <1>3, <1>4
  <2>2. d \in Awaited(q) /\ kids[q] \in Seq(Proc) /\ d \in ToSet(kids[q])
    BY <1>0, <2>1 DEF Awaited
  <2>3. d \in Proc
    BY <2>2, MembersIn
  <2> QED BY <1>5, <2>1, <2>2, <2>3, TreeFacts DEF NoLostChild
<1> QED BY <1>4, <1>8, <1>9, <1>10, <1>11, <1>12, <1>13 DEF TreeInv, NoAssertFails

(* do_exit hands the children of a process to initproc.                    *)
LEMMA ExitTree ==
  ASSUME SchedInv, TreeInv, NEW p \in Proc, S.cur = p, p # Idle,
         S.state[p] = "RUNNABLE", DoExit(p)
  PROVE  TreeInv'
<1>1. CASE p = InitProc
  <2>1. /\ S' = S /\ pc' = pc /\ parent' = parent /\ kids' = kids
        /\ arg' = arg /\ nr' = nr
    BY <1>1 DEF DoExit
  <2>2. Kinship' /\ Grounded(parent)' /\ Counted'
    BY <2>1, TreeFacts DEF Kinship, OnceEach, Mutual, Parented, ParentAlive,
                           Grounded, Counted, Live
  <2>3. KernelFamily' /\ InitWaits' /\ NoLostChild' /\ ~S'.oops
    BY <2>1, TreeFacts DEF KernelFamily, InitWaits, NoLostChild, Awaited
  <2> QED BY <2>2, <2>3 DEF TreeInv, NoAssertFails
<1>2. CASE p # InitProc
  <2> DEFINE h == Reverse(kids[p]) \o kids[InitProc]
  <2>0. /\ parent \in [Proc -> Proc \cup {NoProc}]
        /\ kids \in [Proc -> Seq(Proc)] /\ pc \in [Proc -> PCs]
        /\ OnceEach /\ Mutual /\ Parented /\ ParentAlive /\ NoProc \notin Proc
    BY TreeFacts, Slots DEF Kinship
  <2>1. p \in Child /\ InitProc \in Proc /\ S.wait[p] = "NONE"
    BY <1>2, Slots, SchedFacts
  <2>2. parent[p] # p
    BY <2>1, NotOwnParent
  <2>3. /\ pc' = [pc EXCEPT ![p] = "exit1"] /\ parent' = ParentAfterExit(p)
        /\ kids' = [kids EXCEPT ![p] = <<>>, ![InitProc] = h]
        /\ arg' = arg /\ nr' = nr
    BY <1>2, <2>0, <2>1 DEF DoExit, Goto
  <2>4. \A c \in Proc : parent'[c] = IF parent[c] = p THEN InitProc ELSE parent[c]
    BY <2>0, <2>3 DEF ParentAfterExit, Mutual
  <2>5. /\ S'.cur = p /\ ~S'.oops
        /\ \A x \in Proc :
             S'.state[x] = IF x = p THEN "ZOMBIE"
                           ELSE IF Woken(p, x) THEN "RUNNABLE" ELSE S.state[x]
        /\ \A x \in Proc :
             S'.wait[x] = IF Woken(p, x) THEN "NONE" ELSE S.wait[x]
    BY <2>1, ExitEffect, TreeFacts
  <2>6. \A x \in Proc : Woken(p, x) => S.state[x] = "SLEEPING"
    BY SchedFacts DEF Woken
  <2>7. \A x \in Proc : x # p =>
          /\ S'.state[x] = "UNUSED" <=> S.state[x] = "UNUSED"
          /\ S'.state[x] = "ZOMBIE" <=> S.state[x] = "ZOMBIE"
          /\ S.state[x] \in {"RUNNABLE", "SLEEPING"} =>
               S'.state[x] \in {"RUNNABLE", "SLEEPING"}
    BY <2>5, <2>6
  <2>8. /\ h \in Seq(Proc) /\ ToSet(h) = ToSet(kids[p]) \cup ToSet(kids[InitProc])
        /\ \A i, j \in DOMAIN h : h[i] = h[j] => i = j
    <3> DEFINE r == Reverse(kids[p])
    <3>1. kids[p] \in Seq(Proc) /\ kids[InitProc] \in Seq(Proc)
      BY <2>0, <2>1
    <3>2. /\ \A i, j \in DOMAIN kids[p] : kids[p][i] = kids[p][j] => i = j
          /\ \A i, j \in DOMAIN kids[InitProc] :
               kids[InitProc][i] = kids[InitProc][j] => i = j
      BY <2>0, <2>1 DEF OnceEach
    <3>3. /\ r \in Seq(Proc) /\ ToSet(r) = ToSet(kids[p])
          /\ \A i, j \in DOMAIN r : r[i] = r[j] => i = j
      BY <3>1, <3>2, ReverseFacts
    <3>4. ToSet(kids[p]) \cap ToSet(kids[InitProc]) = {}
      <4>1. ToSet(kids[p]) \subseteq Proc
        BY <3>1, MembersIn
      <4> QED BY <1>2, <2>0, <2>1, <4>1 DEF Mutual
    <3> DEFINE t == kids[InitProc]
    <3>5. /\ t \in Seq(Proc) /\ ToSet(r) \cap ToSet(t) = {}
          /\ \A i, j \in DOMAIN t : t[i] = t[j] => i = j
      BY <3>1, <3>2, <3>3, <3>4
    <3> HIDE DEF r, t
    <3>6. /\ r \o t \in Seq(Proc) /\ ToSet(r \o t) = ToSet(r) \cup ToSet(t)
          /\ \A i, j \in DOMAIN (r \o t) : (r \o t)[i] = (r \o t)[j] => i = j
      BY <3>3, <3>5, ConcatFacts
    <3> QED BY <3>3, <3>6 DEF r, t
  <2> HIDE DEF h
  <2>9. \A q \in Proc : kids'[q] = IF q = p THEN <<>>
                                   ELSE IF q = InitProc THEN h ELSE kids[q]
    BY <1>2, <2>0, <2>1, <2>3
  <2>10. Kinship'
    <3>1. OnceEach'
      <4> SUFFICES ASSUME NEW q \in Proc
                   PROVE  \A i, j \in DOMAIN kids'[q] :
                            kids'[q][i] = kids'[q][j] => i = j
        BY DEF OnceEach
      <4>1. kids'[q] \in {<<>>, h, kids[q]}
        BY <2>9
      <4>2. \A i, j \in DOMAIN kids[q] : kids[q][i] = kids[q][j] => i = j
        BY <2>0 DEF OnceEach
      <4> QED BY <2>8, <4>1, <4>2
    <3>2. Mutual'
      <4> SUFFICES ASSUME NEW q \in Proc, NEW d \in Proc
                   PROVE  d \in ToSet(kids'[q]) <=> parent'[d] = q
        BY DEF Mutual
      <4>1. \A x \in Proc : d \in ToSet(kids[x]) <=> parent[d] = x
        BY <2>0 DEF Mutual
      <4>2. ToSet(kids'[q]) = IF q = p THEN {}
                              ELSE IF q = InitProc
                              THEN ToSet(kids[p]) \cup ToSet(kids[InitProc])
                              ELSE ToSet(kids[q])
        <5>1. ToSet(<<>>) = {}
          BY DEF ToSet
        <5> QED BY <2>8, <2>9, <5>1
      <4> QED BY <1>2, <2>1, <2>4, <4>1, <4>2
    <3>3. Parented'
      BY <2>0, <2>1, <2>4, <2>5, <2>7 DEF Parented
    <3>4. ParentAlive'
      <4> SUFFICES ASSUME NEW d \in Proc, parent'[d] # NoProc
                   PROVE  S'.state[parent'[d]] \in {"RUNNABLE", "SLEEPING"}
        BY DEF ParentAlive
      <4>1. CASE parent[d] = p
        BY <1>2, <2>1, <2>4, <2>7, <4>1, TreeFacts DEF KernelFamily
      <4>2. CASE parent[d] # p
        <5>1. parent'[d] = parent[d] /\ parent[d] \in Proc
          BY <2>0, <2>4, <4>2
        <5>2. S.state[parent[d]] \in {"RUNNABLE", "SLEEPING"}
          BY <2>0, <5>1 DEF ParentAlive
        <5> QED BY <2>7, <4>2, <5>1, <5>2
      <4> QED BY <4>1, <4>2
    <3> QED BY <3>1, <3>2, <3>3, <3>4 DEF Kinship
  <2>11. Grounded(parent)'
    <3> SUFFICES ASSUME NEW Q \in SUBSET Child, Q # {},
                        \A d \in Q : parent'[d] # NoProc
                 PROVE  \E d \in Q : parent'[d] \notin Q
      BY DEF Grounded
    <3>1. \A d \in Q : d \in Proc
      BY Slots
    <3>2. CASE \E d \in Q : parent[d] = p
      BY <2>4, <3>1, <3>2, Slots
    <3>3. CASE \A d \in Q : parent[d] # p
      <4>1. \A d \in Q : parent'[d] = parent[d]
        BY <2>4, <3>1, <3>3
      <4>2. \E d \in Q : parent[d] \notin Q
        BY <4>1, TreeFacts DEF Grounded
      <4> QED BY <4>1, <4>2
    <3> QED BY <3>2, <3>3
  <2>12. Counted'
    <3>1. S.state[p] # "UNUSED" /\ S'.state[p] # "UNUSED"
      BY <2>5
    <3>2. Live' = Live
      BY <2>7, <3>1 DEF Live
    <3> QED BY <2>3, <3>2, TreeFacts DEF Counted
  <2>13. KernelFamily'
    <3>1. S'.state[InitProc] \in {"RUNNABLE", "SLEEPING"}
      BY <1>2, <2>1, <2>7, TreeFacts DEF KernelFamily
    <3>2. \A c \in Proc : parent'[c] = Idle => c = InitProc
      BY <2>4, TreeFacts, Slots DEF KernelFamily
    <3>3. ASSUME NEW c \in KThread, S'.state[c] # "UNUSED"
          PROVE  parent'[c] = InitProc
      <4>1. c \in Proc /\ S.state[c] # "UNUSED"
        BY <2>7, <3>3, Slots
      <4> QED BY <2>4, <4>1, TreeFacts DEF KernelFamily
    <3> QED BY <3>1, <3>2, <3>3 DEF KernelFamily
  <2>14. InitWaits'
    <3>1. pc'[InitProc] # "fini"
      BY <1>2, <2>0, <2>1, <2>3, TreeFacts DEF InitWaits
    <3>2. ASSUME arg[InitProc] # NoProc
          PROVE  arg[InitProc] \in KThread /\ S'.state[arg[InitProc]] # "UNUSED"
      <4>1. /\ arg[InitProc] \in KThread /\ arg[InitProc] \in Proc
            /\ S.state[arg[InitProc]] # "UNUSED"
        BY <3>2, TreeFacts, Slots DEF InitWaits
      <4> QED BY <2>5, <2>7, <4>1
    <3> QED BY <2>3, <3>1, <3>2 DEF InitWaits
  <2>15. NoLostChild'
    <3> SUFFICES ASSUME NEW q \in Proc, S'.wait[q] = "CHILD",
                        NEW d \in Awaited(q)'
                 PROVE  S'.state[d] # "ZOMBIE"
      BY DEF NoLostChild
    <3>1. S.wait[q] = "CHILD" /\ ~Woken(p, q) /\ q # p
      BY <2>1, <2>5
    <3>2. q # parent[p]
      BY <3>1 DEF Woken
    <3>3. d \in ToSet(kids'[q]) /\ arg[q] \in {NoProc, d}
      BY <2>3 DEF Awaited
    <3>4. CASE d \in ToSet(kids[q])
      <4>1. kids[q] \in Seq(Proc)
        BY <2>0
      <4>2. d \in Proc
        BY <3>4, <4>1, MembersIn
      <4>3. d # p
        BY <2>0, <3>2, <3>4, <4>2 DEF Mutual
      <4>4. d \in Awaited(q)
        BY <3>3, <3>4 DEF Awaited
      <4>5. S.state[d] # "ZOMBIE"
        BY <3>1, <4>4, TreeFacts DEF NoLostChild
      <4> QED BY <2>7, <4>2, <4>3, <4>5
    <3>5. CASE q = InitProc /\ d \in ToSet(kids[p])
      <4>1. kids[p] \in Seq(Proc)
        BY <2>0
      <4>2. d \in Proc
        BY <3>5, <4>1, MembersIn
      <4>3. d # p
        BY <2>0, <2>2, <3>5, <4>2 DEF Mutual
      <4>4. S.state[d] # "ZOMBIE"
        BY <3>1, <3>5 DEF Woken
      <4> QED BY <2>7, <4>2, <4>3, <4>4
    <3> QED BY <2>8, <2>9, <3>1, <3>3, <3>4, <3>5
  <2> QED BY <2>5, <2>10, <2>11, <2>12, <2>13, <2>14, <2>15 DEF TreeInv, NoAssertFails
<1> QED BY <1>1, <1>2

(* do_wait takes a zombie out of the family.                               *)
LEMMA ReapTree ==
  ASSUME SchedInv, TreeInv, NEW p \in Proc, WaitReap(p)
  PROVE  /\ TreeInv'
         /\ S'.cur = S.cur
         /\ \A q \in Proc : S'.state[q] # S.state[q] =>
              S'.state[q] = "UNUSED" /\ parent[q] = S.cur
<1> DEFINE l == Caller(p)
<1>0. /\ parent \in [Proc -> Proc \cup {NoProc}]
      /\ kids \in [Proc -> Seq(Proc)] /\ pc \in [Proc -> PCs]
      /\ arg \in [Proc -> Proc \cup {NoProc}] /\ S.state \in [Proc -> ProcState]
      /\ OnceEach /\ Mutual /\ Parented /\ ParentAlive /\ NoProc \notin Proc
  BY TreeFacts, SchedFacts, Slots DEF Kinship
<1>1. S.cur = p /\ pc[p] = "wait" /\ S.state[p] = "RUNNABLE" /\ S.wait[p] = "NONE"
  <2>1. S.cur = p /\ pc[p] = "wait"
    BY DEF WaitReap, At
  <2>2. S.state[p] = "RUNNABLE"
    BY <2>1 DEF SchedInv, CpuState
  <2> QED BY <2>1, <2>2, SchedFacts
<1>k. PICK k \in DOMAIN kids[p] :
       /\ S.state[kids[p][k]] = "ZOMBIE"
       /\ S' = [S EXCEPT !.state[kids[p][k]] = "UNUSED",
                         !.slice[kids[p][k]] = 0,
                         !.resched[kids[p][k]] = FALSE]
       /\ kids' = [kids EXCEPT ![p] = RemoveAt(@, k)]
       /\ parent' = [parent EXCEPT ![kids[p][k]] = NoProc]
       /\ pc' = [pc EXCEPT ![kids[p][k]] = "none", ![p] = l]
       /\ nr' = nr - 1
  BY DEF WaitReap
<1> DEFINE c == kids[p][k]
           h == RemoveAt(kids[p], k)
<1>2. l # "fini" /\ arg' = [arg EXCEPT ![p] = NoProc]
  BY DEF WaitReap, Caller
<1>3. kids[p] \in Seq(Proc) /\ c \in Proc /\ k \in 1..Len(kids[p])
      /\ c \in ToSet(kids[p])
  <2>1. kids[p] \in Seq(Proc)
    BY <1>0
  <2> QED BY <2>1, MembersIn
<1>4. /\ ToSet(h) = ToSet(kids[p]) \ {c}
      /\ \A i, j \in DOMAIN h : h[i] = h[j] => i = j
  <2>1. \A i, j \in DOMAIN kids[p] : kids[p][i] = kids[p][j] => i = j
    BY <1>0 DEF OnceEach
  <2> QED BY <1>3, <2>1, RemoveAtFacts
<1> HIDE DEF c, l, h
<1>5. /\ S.state[c] = "ZOMBIE" /\ nr' = nr - 1
      /\ S'.state = [S.state EXCEPT ![c] = "UNUSED"] /\ S'.wait = S.wait
      /\ S'.cur = S.cur /\ S'.oops = S.oops
      /\ kids' = [kids EXCEPT ![p] = h]
      /\ parent' = [parent EXCEPT ![c] = NoProc]
      /\ pc' = [pc EXCEPT ![c] = "none", ![p] = l]
  BY <1>k DEF c, h, SchedInv, TypeOK, SchedType
<1>6. /\ parent[c] = p /\ c # p /\ c # Idle /\ c # InitProc
      /\ \A d \in Proc : parent[d] # c
  <2>1. parent[c] = p
    BY <1>0, <1>3 DEF Mutual
  <2>2. c # p /\ c # Idle /\ c # InitProc
    BY <1>1, <1>5, SchedFacts, TreeFacts DEF KernelFamily
  <2>3. ASSUME NEW d \in Proc, parent[d] = c PROVE FALSE
    BY <1>0, <1>3, <1>5, <2>3 DEF ParentAlive
  <2> QED BY <2>1, <2>2, <2>3
<1>7. /\ \A q \in Proc : S'.state[q] = IF q = c THEN "UNUSED" ELSE S.state[q]
      /\ \A q \in Proc : parent'[q] = IF q = c THEN NoProc ELSE parent[q]
      /\ \A q \in Proc : kids'[q] = IF q = p THEN h ELSE kids[q]
      /\ \A q \in Proc : arg'[q] = IF q = p THEN NoProc ELSE arg[q]
  BY <1>0, <1>2, <1>3, <1>5
<1>8. Kinship'
  <2>1. OnceEach'
    <3> SUFFICES ASSUME NEW q \in Proc
                 PROVE  \A i, j \in DOMAIN kids'[q] :
                          kids'[q][i] = kids'[q][j] => i = j
      BY DEF OnceEach
    <3>1. kids'[q] \in {h, kids[q]}
      BY <1>7
    <3>2. \A i, j \in DOMAIN kids[q] : kids[q][i] = kids[q][j] => i = j
      BY <1>0 DEF OnceEach
    <3> QED BY <1>4, <3>1, <3>2
  <2>2. Mutual'
    <3> SUFFICES ASSUME NEW q \in Proc, NEW d \in Proc
                 PROVE  d \in ToSet(kids'[q]) <=> parent'[d] = q
      BY DEF Mutual
    <3>1. d \in ToSet(kids[q]) <=> parent[d] = q
      BY <1>0 DEF Mutual
    <3>2. ToSet(kids'[q]) = IF q = p THEN ToSet(kids[q]) \ {c} ELSE ToSet(kids[q])
      BY <1>4, <1>7
    <3> QED BY <1>0, <1>6, <1>7, <3>1, <3>2
  <2>3. Parented'
    BY <1>0, <1>6, <1>7 DEF Parented
  <2>4. ParentAlive'
    <3> SUFFICES ASSUME NEW d \in Proc, parent'[d] # NoProc
                 PROVE  S'.state[parent'[d]] \in {"RUNNABLE", "SLEEPING"}
      BY DEF ParentAlive
    <3>1. parent'[d] = parent[d] /\ parent[d] \in Proc /\ parent[d] # c
      BY <1>0, <1>6, <1>7
    <3>2. S.state[parent[d]] \in {"RUNNABLE", "SLEEPING"}
      BY <1>0, <3>1 DEF ParentAlive
    <3> QED BY <1>7, <3>1, <3>2
  <2> QED BY <2>1, <2>2, <2>3, <2>4 DEF Kinship
<1>9. Grounded(parent)'
  <2> SUFFICES ASSUME NEW Q \in SUBSET Child, Q # {},
                      \A d \in Q : parent'[d] # NoProc
               PROVE  \E d \in Q : parent'[d] \notin Q
    BY DEF Grounded
  <2>1. \A d \in Q : d \in Proc /\ parent'[d] = parent[d]
    BY <1>7, Slots
  <2>2. \E d \in Q : parent[d] \notin Q
    BY <2>1, TreeFacts DEF Grounded
  <2> QED BY <2>1, <2>2
<1>10. Counted'
  <2>1. Live' = Live \ {c} /\ c \in Live
    BY <1>3, <1>5, <1>7 DEF Live
  <2>2. IsFiniteSet(Live') /\ Cardinality(Live') = Cardinality(Live) - 1
    BY <2>1, FS_RemoveElement, TreeFacts DEF Counted
  <2>3. nr' = Cardinality(Live') /\ nr' <= MaxProcess
    BY <1>5, <2>2, BootAssumption, TreeFacts DEF Counted
  <2> QED BY <2>2, <2>3 DEF Counted
<1>11. KernelFamily'
  <2>1. S'.state[InitProc] \in {"RUNNABLE", "SLEEPING"}
    BY <1>6, <1>7, TreeFacts, Slots DEF KernelFamily
  <2>2. \A d \in Proc : parent'[d] = Idle => d = InitProc
    BY <1>7, TreeFacts, Slots DEF KernelFamily
  <2>3. ASSUME NEW d \in KThread, S'.state[d] # "UNUSED"
        PROVE  parent'[d] = InitProc
    <3>1. d \in Proc /\ d # c
      BY <1>7, <2>3, Slots
    <3> QED BY <1>7, <2>3, <3>1, TreeFacts DEF KernelFamily
  <2> QED BY <2>1, <2>2, <2>3 DEF KernelFamily
<1>12. InitWaits'
  <2>1. pc'[InitProc] # "fini"
    BY <1>0, <1>1, <1>2, <1>5, <1>6, TreeFacts, Slots DEF InitWaits
  <2>2. ASSUME arg'[InitProc] # NoProc
        PROVE  arg'[InitProc] \in KThread /\ S'.state[arg'[InitProc]] # "UNUSED"
    <3>1. p # InitProc /\ arg'[InitProc] = arg[InitProc]
      BY <1>7, <2>2, Slots
    <3>2. /\ arg[InitProc] \in KThread /\ arg[InitProc] \in Proc
          /\ S.state[arg[InitProc]] # "UNUSED"
      BY <2>2, <3>1, TreeFacts, Slots DEF InitWaits
    <3>3. arg[InitProc] # c
      BY <1>6, <3>1, <3>2, TreeFacts DEF KernelFamily
    <3> QED BY <1>7, <3>1, <3>2, <3>3
  <2> QED BY <2>1, <2>2 DEF InitWaits
<1>13. NoLostChild'
  <2> SUFFICES ASSUME NEW q \in Proc, S'.wait[q] = "CHILD",
                      NEW d \in Awaited(q)'
               PROVE  S'.state[d] # "ZOMBIE"
    BY DEF NoLostChild
  <2>1. q # p /\ kids'[q] = kids[q] /\ S.wait[q] = "CHILD" /\ arg'[q] = arg[q]
    BY <1>1, <1>5, <1>7
  <2>2. d \in Awaited(q) /\ kids[q] \in Seq(Proc) /\ d \in ToSet(kids[q])
    BY <1>0, <2>1 DEF Awaited
  <2>3. d \in Proc
    BY <2>2, MembersIn
  <2> QED BY <1>7, <2>1, <2>2, <2>3, TreeFacts DEF NoLostChild
<1>14. TreeInv'
  BY <1>5, <1>8, <1>9, <1>10, <1>11, <1>12, <1>13, TreeFacts
     DEF TreeInv, NoAssertFails
<1> QED BY <1>1, <1>5, <1>6, <1>7, <1>14

-----------------------------------------------------------------------------
(* Every step is of one of four kinds.                                     *)

(* The family stays as it is, see QuietStep.                               *)
Quiet ==
  /\ UNCHANGED <<parent, kids, nr>>
  /\ \A q \in Proc : \/ S'.state[q] = S.state[q]
                     \/ /\ S.state[q] \in {"RUNNABLE", "SLEEPING"}
                        /\ S'.state[q] \in {"RUNNABLE", "SLEEPING"}
  /\ \A q \in Proc : S'.wait[q] = "CHILD" =>
       /\ arg'[q] = arg[q]
       /\ \/ S.wait[q] = "CHILD"
          \/ \A c \in Awaited(q) : S.state[c] # "ZOMBIE"
  /\ \/ arg'[InitProc] \in {arg[InitProc], NoProc}
     \/ arg'[InitProc] \in KThread /\ S.state[arg'[InitProc]] # "UNUSED"
  /\ pc'[InitProc] = "fini" => S'.cur = InitProc /\ kids[InitProc] = <<>>
  /\ ~S'.oops

(* Process p has the CPU and can use it.                                   *)
Running(p) == p \in Proc /\ p # Idle /\ S.cur = p /\ S.state[p] = "RUNNABLE"

Forks ==
  \E p \in Proc : \E c \in Child : \E l \in PCs :
    /\ Running(p) /\ l # "fini" /\ (c \in KThread => p = InitProc)
    /\ DoFork(p, c, l)

Exits == \E p \in Proc : Running(p) /\ DoExit(p)

Reaps == \E p \in Proc : WaitReap(p)

(* A process in the kernel or in user mode, but not about to call          *)
(* schedule() for good, is running.                                        *)
LEMMA AtRuns ==
  ASSUME SchedInv, NEW p \in Proc, NEW l, At(p, l),
         l \notin {"idle", "sleep1", "wait1", "exit1"}
  PROVE  Running(p) /\ pc[p] = l
<1>1. S.cur = p /\ pc[p] = l
  BY DEF At
<1>2. S.state[p] = "RUNNABLE"
  BY <1>1 DEF SchedInv, CpuState
<1>3. p # Idle
  BY <1>1 DEF SchedInv, Where
<1> QED BY <1>1, <1>2, <1>3 DEF Running

(* The current process goes on elsewhere and may give up the CPU.          *)
LEMMA MoveQuiet ==
  ASSUME SchedInv, TreeInv, S'.state = S.state, S'.wait = S.wait,
         S'.oops = S.oops, NEW l, l # "fini", pc' = [pc EXCEPT ![S.cur] = l],
         UNCHANGED <<parent, kids, arg, nr>>
  PROVE  Quiet
<1>1. pc'[InitProc] # "fini"
  <2>1. pc \in [Proc -> PCs] /\ S.cur \in Proc /\ InitProc \in Proc /\ InitWaits
    BY TreeFacts, SchedFacts, Slots
  <2>2. S.cur = InitProc => pc'[InitProc] = l
    BY <2>1
  <2>3. S.cur # InitProc => pc'[InitProc] = pc[InitProc]
    BY <2>1
  <2> QED BY <2>1, <2>2, <2>3 DEF InitWaits
<1>2. ~S'.oops
  BY TreeFacts
<1> QED BY <1>1, <1>2 DEF Quiet

(* The same for a step that leaves the scheduler alone or calls schedule().*)
LEMMA GoQuiet ==
  ASSUME SchedInv, TreeInv, S' = S \/ S' = Schedule(S),
         NEW l, l # "fini", pc' = [pc EXCEPT ![S.cur] = l],
         UNCHANGED <<parent, kids, arg, nr>>
  PROVE  Quiet
<1>1. S'.state = S.state /\ S'.wait = S.wait /\ S'.oops = S.oops
  BY SchedFacts, ScheduleOK
<1> QED BY <1>1, MoveQuiet

(* The current process goes to sleep, but not for a child that is dead.    *)
LEMMA BlockQuiet ==
  ASSUME SchedInv, TreeInv, NEW p \in Proc, Running(p),
         NEW w \in {"CHILD", "TIMER"}, S' = Block(S, w),
         w = "CHILD" => \A c \in Awaited(p) : S.state[c] # "ZOMBIE",
         NEW l, l # "fini", pc' = [pc EXCEPT ![p] = l],
         UNCHANGED <<parent, kids, arg, nr>>
  PROVE  Quiet
<1>1. /\ S'.state = [S.state EXCEPT ![p] = "SLEEPING"]
      /\ S'.wait = [S.wait EXCEPT ![p] = w] /\ S'.oops = S.oops
      /\ w \in WaitState \ {"NONE"}
  BY SchedFacts, BlockOK DEF Running, WaitState
<1>2. pc'[InitProc] # "fini"
  <2>1. pc \in [Proc -> PCs] /\ S.cur = p /\ InitProc \in Proc /\ InitWaits
    BY TreeFacts, Slots DEF Running
  <2> QED BY <2>1 DEF InitWaits
<1>3. \A q \in Proc : /\ S'.state[q] = IF q = p THEN "SLEEPING" ELSE S.state[q]
                      /\ S'.wait[q] = IF q = p THEN w ELSE S.wait[q]
  BY <1>1, SchedFacts
<1>4. ~S'.oops
  BY <1>1, TreeFacts
<1> QED BY <1>2, <1>3, <1>4 DEF Quiet, Running

(* A process that is not dead is woken.                                    *)
LEMMA WakeQuiet ==
  ASSUME SchedInv, TreeInv, NEW q \in Proc, S.state[q] \in {"RUNNABLE", "SLEEPING"},
         S' = WakeupProc(S, q), UNCHANGED <<parent, kids, arg, nr>>,
         pc'[InitProc] = "fini" => pc[InitProc] = "fini"
  PROVE  Quiet
<1>1. /\ S'.state = [S.state EXCEPT ![q] = "RUNNABLE"]
      /\ S'.wait = [S.wait EXCEPT ![q] = "NONE"] /\ S'.cur = S.cur
      /\ S'.oops = (S.oops \/ S.state[q] = "ZOMBIE")
  BY SchedFacts, WakeupOK
<1>2. pc'[InitProc] = "fini" => S'.cur = InitProc /\ kids[InitProc] = <<>>
  BY <1>1, TreeFacts DEF InitWaits
<1>3. \A x \in Proc : /\ S'.state[x] = IF x = q THEN "RUNNABLE" ELSE S.state[x]
                      /\ S'.wait[x] = IF x = q THEN "NONE" ELSE S.wait[x]
  BY <1>1, SchedFacts
<1>4. ~S'.oops
  BY <1>1, TreeFacts
<1> QED BY <1>2, <1>3, <1>4 DEF Quiet

(* A system call.                                                          *)
LEMMA SyscallKind ==
  ASSUME SchedInv, TreeInv, NEW p \in User, Syscall(p)
  PROVE  Quiet \/ Forks \/ Exits
<1>1. p \in Proc /\ p \notin KThread /\ User \subseteq Child
      /\ p # InitProc
  BY DEF User, Child
<1>2. Running(p) /\ pc[p] = "user"
  BY <1>1, AtRuns DEF Syscall, SysFork, SysForkFails, SysExit, SysYield,
                      SysWait, SysKill, SysSleep
<1>c. S.cur = p
  BY <1>2 DEF Running
<1>3. CASE SysFork(p)
  <2>1. PICK c \in User : DoFork(p, c, "trapret")
    BY <1>3 DEF SysFork
  <2>2. "trapret" \in PCs /\ "trapret" # "fini" /\ c \in Child /\ c \notin KThread
    BY DEF PCs, Child, User
  <2> QED BY <1>1, <1>2, <2>1, <2>2 DEF Forks
<1>4. CASE SysForkFails(p)
  <2>1. S' = S /\ pc' = [pc EXCEPT ![S.cur] = "trapret"]
        /\ UNCHANGED <<parent, kids, arg, nr>>
    BY <1>4, <1>c DEF SysForkFails, Goto
  <2> QED BY <2>1, GoQuiet
<1>5. CASE SysExit(p)
  BY <1>1, <1>2, <1>5 DEF SysExit, Exits
<1>6. CASE SysYield(p)
  <2>1. /\ S' = [S EXCEPT !.resched[p] = TRUE]
        /\ pc' = [pc EXCEPT ![S.cur] = "trapret"]
        /\ UNCHANGED <<parent, kids, arg, nr>>
    BY <1>6, <1>c DEF SysYield, Goto
  <2>2. S'.state = S.state /\ S'.wait = S.wait /\ S'.oops = S.oops
    BY <2>1 DEF SchedInv, TypeOK, SchedType
  <2> QED BY <2>1, <2>2, MoveQuiet
<1>7. ASSUME NEW a \in Child \cup {NoProc}, SysWait(p, a) PROVE Quiet
  <2>1. /\ S' = S /\ pc' = [pc EXCEPT ![p] = "wait"]
        /\ arg' = [arg EXCEPT ![p] = a] /\ UNCHANGED <<parent, kids, nr>>
    BY <1>7 DEF SysWait, Goto
  <2>2. S.wait[p] = "NONE"
    BY <1>1, <1>2, SchedFacts DEF Running
  <2>3. \A q \in Proc : q # p => arg'[q] = arg[q] /\ pc'[q] = pc[q]
    BY <2>1, TreeFacts
  <2>4. pc'[InitProc] # "fini"
    BY <1>1, <1>c, <2>3, Slots, TreeFacts DEF InitWaits
  <2>5. ~S'.oops
    BY <2>1, TreeFacts
  <2> QED BY <1>1, <2>1, <2>2, <2>3, <2>4, <2>5, Slots DEF Quiet
<1>8. ASSUME NEW q \in Proc, SysKill(p, q) PROVE Quiet
  <2>1. /\ S' = IF KillWakes(q) THEN WakeupProc(S, q) ELSE S
        /\ pc' = [pc EXCEPT ![S.cur] = "trapret"]
        /\ UNCHANGED <<parent, kids, arg, nr>>
    BY <1>8, <1>c DEF SysKill, Goto
  <2>2. CASE KillWakes(q)
    <3>1. S.state[q] \in {"RUNNABLE", "SLEEPING"}
      BY <2>2, SchedFacts DEF KillWakes, Interruptible
    <3>2. pc'[InitProc] = pc[InitProc]
      BY <1>1, <1>c, <2>1, Slots, TreeFacts
    <3> QED BY <2>1, <2>2, <3>1, <3>2, WakeQuiet
  <2>3. CASE ~KillWakes(q)
    BY <2>1, <2>3, GoQuiet
  <2> QED BY <2>2, <2>3
<1>9. ASSUME NEW t \in 0..MaxSleep, SysSleep(p, t) PROVE Quiet
  <2>1. /\ S' = Block(S, "TIMER") /\ pc' = [pc EXCEPT ![p] = "sleep1"]
        /\ UNCHANGED <<parent, kids, arg, nr>>
    BY <1>9 DEF SysSleep, DoSleep, Goto
  <2> QED BY <1>1, <1>2, <2>1, BlockQuiet
<1> QED BY <1>3, <1>4, <1>5, <1>6, <1>7, <1>8, <1>9 DEF Syscall

(* A step of a kernel thread of check_sync.                                *)
LEMMA ThreadKind ==
  ASSUME SchedInv, TreeInv, NEW p \in KThread, Thread(p)
  PROVE  Quiet \/ Exits
<1>1. p \in Proc
  BY Slots
<1>2. Running(p)
  BY <1>1, AtRuns DEF Thread
<1>3. ASSUME NEW t \in 0..MaxSleep, DoSleep(p, t) PROVE Quiet
  <2>1. /\ S' = Block(S, "TIMER") /\ pc' = [pc EXCEPT ![p] = "sleep1"]
        /\ UNCHANGED <<parent, kids, arg, nr>>
    BY <1>3 DEF DoSleep, Goto
  <2> QED BY <1>1, <1>2, <2>1, BlockQuiet
<1> QED BY <1>1, <1>2, <1>3 DEF Thread, Exits

(* What do_wait finds: initproc is told that it has no child only when it  *)
(* has asked for any and has none.                                         *)
LEMMA NoKidQuiet ==
  ASSUME SchedInv, TreeInv, NEW p \in Proc, WaitNoKid(p)
  PROVE  Quiet
<1>0. /\ parent \in [Proc -> Proc \cup {NoProc}] /\ kids \in [Proc -> Seq(Proc)]
      /\ pc \in [Proc -> PCs] /\ arg \in [Proc -> Proc \cup {NoProc}]
      /\ Mutual /\ KernelFamily /\ InitWaits /\ ~S.oops
      /\ InitProc \in Proc /\ NoProc \notin Proc
  BY TreeFacts, Slots DEF Kinship
<1>1. Running(p) /\ pc[p] = "wait"
  BY AtRuns DEF WaitNoKid
<1>2. /\ S.cur = p /\ S.wait[p] = "NONE" /\ Awaited(p) = {}
      /\ S' = KAssert(S, p = InitProc => arg[p] = NoProc)
      /\ pc' = [pc EXCEPT ![p] = IF p = InitProc THEN "fini" ELSE "trapret"]
      /\ arg' = [arg EXCEPT ![p] = NoProc] /\ UNCHANGED <<parent, kids, nr>>
  BY <1>1, SchedFacts DEF WaitNoKid, Goto, Running
<1>3. ASSUME p = InitProc PROVE arg[p] = NoProc /\ kids[p] = <<>>
  <2>1. ASSUME arg[p] # NoProc PROVE FALSE
    <3>1. /\ arg[p] \in KThread /\ arg[p] \in Proc /\ parent[arg[p]] = p
      BY <1>0, <1>3, <2>1 DEF InitWaits, KernelFamily
    <3>2. arg[p] \in ToSet(kids[p])
      BY <1>0, <3>1 DEF Mutual
    <3> QED BY <1>2, <3>2 DEF Awaited
  <2>2. Awaited(p) = ToSet(kids[p])
    BY <2>1 DEF Awaited
  <2>3. kids[p] \in Seq(Proc) /\ ToSet(kids[p]) = {}
    BY <1>0, <1>2, <2>2
  <2>4. ASSUME NEW s \in Seq(Proc), ToSet(s) = {} PROVE s = <<>>
    <3>1. DOMAIN s = 1..Len(s) /\ Len(s) \in Nat
      OBVIOUS
    <3>2. DOMAIN s = {}
      BY <2>4 DEF ToSet
    <3> QED BY <3>1, <3>2
  <2> QED BY <2>1, <2>3, <2>4
<1> DEFINE b == p = InitProc => arg[p] = NoProc
<1>4. b \in BOOLEAN /\ b
  BY <1>3
<1>5. S' = KAssert(S, b)
  BY <1>2
<1> HIDE DEF b
<1>6. /\ S'.state = S.state /\ S'.wait = S.wait /\ S'.cur = S.cur
      /\ S'.oops = (S.oops \/ ~b)
  BY <1>4, <1>5, SchedFacts, KAssertOK
<1>7. ~S'.oops
  BY <1>0, <1>4, <1>6
<1>8. pc'[InitProc] = "fini" => S'.cur = InitProc /\ kids[InitProc] = <<>>
  <2>1. p = InitProc => S'.cur = InitProc /\ kids[InitProc] = <<>>
    BY <1>2, <1>3, <1>6
  <2>2. p # InitProc => pc'[InitProc] # "fini"
    BY <1>0, <1>2 DEF InitWaits
  <2> QED BY <2>1, <2>2
<1>9. \A q \in Proc : arg'[q] = IF q = p THEN NoProc ELSE arg[q]
  BY <1>0, <1>2
<1> QED BY <1>0, <1>2, <1>6, <1>7, <1>8, <1>9 DEF Quiet

(* A step of the kernel on behalf of a process.                            *)
LEMMA KernelKind ==
  ASSUME SchedInv, TreeInv, NEW p \in Proc, KernelStep(p)
  PROVE  Quiet \/ Exits \/ Reaps
<1>1. S.cur = p
  BY DEF KernelStep, SleepSchedule, SleepDone, ExitSchedule, TrapReturn,
         WaitReap, WaitBlock, WaitNoKid, WaitSchedule, WaitAgain, At
<1>2. ASSUME NEW l, l # "fini", Goto(p, l), S' = S \/ S' = Schedule(S),
             UNCHANGED <<parent, kids, arg, nr>>
      PROVE  Quiet
  BY <1>1, <1>2, GoQuiet DEF Goto
<1>3. CASE SleepSchedule(p) \/ ExitSchedule(p) \/ WaitSchedule(p)
  BY <1>2, <1>3 DEF SleepSchedule, ExitSchedule, WaitSchedule
<1>4. CASE SleepDone(p)
  <2>1. Caller(p) # "fini"
    BY DEF Caller
  <2>2. Goto(p, Caller(p)) /\ S' = S /\ UNCHANGED <<parent, kids, arg, nr>>
    BY <1>4 DEF SleepDone
  <2> HIDE DEF Caller
  <2> QED BY <1>2, <2>1, <2>2
<1>5. CASE TrapReturn(p)
  <2>1. Running(p)
    BY <1>5, AtRuns DEF TrapReturn
  <2>2. CASE DoExit(p)
    BY <2>1, <2>2 DEF Exits
  <2>3. CASE ~DoExit(p)
    BY <1>2, <1>5, <2>3 DEF TrapReturn
  <2> QED BY <2>2, <2>3
<1>6. CASE WaitReap(p)
  BY <1>6 DEF Reaps
<1>7. CASE WaitBlock(p)
  <2>1. Running(p)
    BY <1>7, AtRuns DEF WaitBlock
  <2>2. /\ S' = Block(S, "CHILD") /\ pc' = [pc EXCEPT ![p] = "wait1"]
        /\ \A c \in Awaited(p) : S.state[c] # "ZOMBIE"
        /\ UNCHANGED <<parent, kids, arg, nr>>
    BY <1>7 DEF WaitBlock, Goto
  <2> QED BY <2>1, <2>2, BlockQuiet
<1>8. CASE WaitNoKid(p)
  BY <1>8, NoKidQuiet
<1>9. CASE WaitAgain(p)
  <2>1. Running(p)
    BY <1>9, AtRuns DEF WaitAgain
  <2>2. CASE DoExit(p)
    BY <2>1, <2>2 DEF Exits
  <2>3. CASE ~DoExit(p)
    BY <1>2, <1>9, <2>3 DEF WaitAgain
  <2> QED BY <2>2, <2>3
<1> QED BY <1>3, <1>4, <1>5, <1>6, <1>7, <1>8, <1>9 DEF KernelStep

(* At the end of init_main only idleproc and initproc are left: every      *)
(* other process would have an ancestor among the children of initproc.    *)
LEMMA NobodyLeft ==
  ASSUME SchedInv, TreeInv, pc[InitProc] = "fini"
  PROVE  kids[InitProc] = <<>> /\ nr = 2
<1>0. /\ parent \in [Proc -> Proc \cup {NoProc}] /\ Mutual /\ Parented
      /\ ParentAlive /\ Grounded(parent) /\ KernelFamily /\ Counted
      /\ S.state[Idle] = "RUNNABLE"
  BY TreeFacts, SchedFacts DEF Kinship
<1>1. kids[InitProc] = <<>> /\ ToSet(kids[InitProc]) = {}
  BY TreeFacts DEF InitWaits, ToSet
<1> DEFINE Q == {c \in Child : S.state[c] # "UNUSED"}
<1>2. ASSUME Q # {} PROVE FALSE
  <2>1. Q \in SUBSET Child /\ \A c \in Q : parent[c] # NoProc
    BY <1>0, Slots DEF Parented
  <2>2. PICK c \in Q : parent[c] \notin Q
    BY <1>0, <1>2, <2>1 DEF Grounded
  <2>3. c \in Proc /\ c # InitProc /\ parent[c] \in Proc
    BY <1>0, <2>1, Slots
  <2>4. S.state[parent[c]] # "UNUSED"
    BY <1>0, <2>1, <2>3 DEF ParentAlive
  <2>5. parent[c] \in {Idle, InitProc}
    BY <2>2, <2>3, <2>4, Slots
  <2>6. parent[c] # InitProc
    BY <1>0, <1>1, <2>3, Slots DEF Mutual
  <2> QED BY <1>0, <2>3, <2>5, <2>6 DEF KernelFamily
<1>3. Live = {Idle} \cup {InitProc}
  BY <1>0, <1>2, Slots DEF Live, KernelFamily
<1>4. IsFiniteSet({Idle}) /\ Cardinality({Idle}) = 1
  BY FS_Singleton
<1>5. Cardinality({Idle} \cup {InitProc}) = Cardinality({Idle}) + 1
  <2>1. InitProc \notin {Idle}
    BY Slots
  <2> QED BY <1>4, <2>1, FS_AddElement
<1>6. nr = Cardinality({Idle} \cup {InitProc})
  BY <1>0, <1>3 DEF Counted
<1>7. nr = 2
  BY <1>4, <1>5, <1>6
<1> QED BY <1>1, <1>7

(* A step of init_main.                                                    *)
LEMMA InitKind ==
  ASSUME SchedInv, TreeInv, InitStep
  PROVE  Quiet \/ Forks
<1>0. /\ InitProc \in Proc /\ pc \in [Proc -> PCs] /\ KThread \subseteq Proc
      /\ arg \in [Proc -> Proc \cup {NoProc}] /\ InitWaits /\ ~S.oops
  BY TreeFacts, Slots
<1>1. Running(InitProc)
  BY <1>0, AtRuns DEF InitStep, InitFork, InitJoin, InitReschedule, InitFinish
<1>2. S.cur = InitProc /\ S.wait[InitProc] = "NONE"
  BY <1>0, <1>1, SchedFacts DEF Running
<1>3. CASE InitFork
  <2>1. PICK c \in User \cup KThread : DoFork(InitProc, c, "forks")
    BY <1>3 DEF InitFork
  <2>2. "forks" \in PCs /\ "forks" # "fini" /\ c \in Child
    BY DEF PCs, Child
  <2> QED BY <1>0, <1>1, <2>1, <2>2 DEF Forks
<1>4. CASE InitJoin
  <2> DEFINE a == IF \E c \in KThread : pc[c] # "none"
                  THEN CHOOSE c \in KThread : pc[c] # "none" ELSE NoProc
  <2>1. /\ S' = S /\ pc' = [pc EXCEPT ![InitProc] = "wait"]
        /\ arg' = [arg EXCEPT ![InitProc] = a] /\ UNCHANGED <<parent, kids, nr>>
    BY <1>4 DEF InitJoin, Goto
  <2>2. a = NoProc \/ (a \in KThread /\ pc[a] # "none")
    OBVIOUS
  <2> HIDE DEF a
  <2>3. a = NoProc \/ (a \in KThread /\ S.state[a] # "UNUSED")
    BY <1>0, <2>2 DEF SchedInv, Where
  <2>4. /\ pc'[InitProc] = "wait" /\ arg'[InitProc] = a
        /\ \A q \in Proc : q # InitProc => arg'[q] = arg[q]
    BY <1>0, <2>1
  <2> QED BY <1>0, <1>2, <2>1, <2>3, <2>4 DEF Quiet
<1>5. CASE InitReschedule
  <2>1. /\ S' = Schedule(S) /\ pc' = [pc EXCEPT ![S.cur] = "wait"]
        /\ UNCHANGED <<parent, kids, arg, nr>>
    BY <1>2, <1>5 DEF InitReschedule, Goto
  <2> QED BY <2>1, GoQuiet
<1>6. CASE InitFinish
  <2> DEFINE b == kids[InitProc] = <<>> /\ nr = 2
  <2>1. pc[InitProc] = "fini" /\ S' = KAssert(S, b)
        /\ UNCHANGED <<pc, parent, kids, arg, nr>>
    BY <1>6 DEF InitFinish, At
  <2>2. b \in BOOLEAN /\ b
    BY <2>1, NobodyLeft
  <2> HIDE DEF b
  <2>3. /\ S'.state = S.state /\ S'.wait = S.wait /\ S'.cur = S.cur
        /\ S'.oops = (S.oops \/ ~b)
    BY <2>1, <2>2, SchedFacts, KAssertOK
  <2>4. kids[InitProc] = <<>>
    BY <2>2 DEF b
  <2>5. ~S'.oops
    BY <1>0, <2>2, <2>3
  <2> QED BY <1>2, <2>1, <2>3, <2>4, <2>5 DEF Quiet
<1> QED BY <1>3, <1>4, <1>5, <1>6 DEF InitStep

(* A step of the timer interrupt.                                          *)
LEMMA TickKind ==
  ASSUME SchedInv, TreeInv, TickStart \/ TickExpire \/ TickEnd
  PROVE  Quiet
<1>0. /\ pc \in [Proc -> PCs] /\ InitWaits /\ ~S.oops /\ InitProc \in Proc
      /\ InitProc \notin User /\ S.cur \in Proc /\ TimerInv
  BY TreeFacts, SchedFacts, Slots DEF Child, SchedInv
<1>1. ASSUME S'.state = S.state, S'.wait = S.wait, S'.cur = S.cur, ~S'.oops,
             UNCHANGED <<parent, kids, arg, nr>>,
             pc'[InitProc] = pc[InitProc]
      PROVE  Quiet
  BY <1>0, <1>1 DEF Quiet, InitWaits
<1>2. CASE TickStart
  <2> DEFINE b == ~Expired(timers)
  <2>1. irq = "off" /\ S' = KAssert(S, b) /\ UNCHANGED <<pc, parent, kids, arg, nr>>
    BY <1>2 DEF TickStart
  <2>2. b \in BOOLEAN /\ b
    <3>1. HeadPending(timers) /\ timers \in Seq(TimerT(Proc))
      BY <1>0, <2>1 DEF TimerInv, TimerList
    <3>2. timers # <<>> => timers[1].expires # 0
      BY <3>1 DEF HeadPending
    <3> QED BY <3>2 DEF Expired
  <2> HIDE DEF b
  <2>3. /\ S'.state = S.state /\ S'.wait = S.wait /\ S'.cur = S.cur
        /\ S'.oops = (S.oops \/ ~b)
    BY <2>1, <2>2, SchedFacts, KAssertOK
  <2>4. ~S'.oops
    BY <1>0, <2>2, <2>3
  <2> QED BY <1>1, <2>1, <2>3, <2>4
<1>3. CASE TickExpire
  <2> DEFINE p == timers[1].proc
             b == S.wait[p] \in Interruptible \cup {"NONE"}
  <2>1. /\ timers # <<>> /\ S' = WakeupProc(KAssert(S, b), p)
        /\ UNCHANGED <<pc, parent, kids, arg, nr>>
    BY <1>3 DEF TickExpire, Expired
  <2>2. p \in TimerOwners(timers) /\ p \in Proc
    BY <1>0, <2>1, DropTimerOK DEF TimerInv
  <2>3. pc[p] \in {"sleep1", "sleep2"} /\ S.wait[p] \in {"NONE", "CHILD", "TIMER"}
    BY <1>0, <2>2 DEF TimerInv
  <2>4. S.state[p] \in {"RUNNABLE", "SLEEPING"}
    <3>1. S.state[p] \in ProcState
      BY <2>2, SchedFacts
    <3>2. S.state[p] # "ZOMBIE" /\ S.state[p] # "UNUSED"
      BY <2>2, <2>3 DEF SchedInv, Where
    <3> QED BY <3>1, <3>2 DEF ProcState
  <2>5. b = TRUE
    BY <2>3 DEF Interruptible
  <2>6. KAssert(S, TRUE) = S
    BY DEF KAssert, SchedInv, TypeOK, SchedType
  <2> HIDE DEF p, b
  <2>7. S' = WakeupProc(S, p)
    BY <2>1, <2>5, <2>6
  <2> QED BY <2>1, <2>2, <2>4, <2>7, WakeQuiet
<1>4. CASE TickEnd
  <2>1. /\ S' = ProcTick(S) /\ UNCHANGED <<parent, kids, arg, nr>>
        /\ pc' = IF S.cur \in User THEN [pc EXCEPT ![S.cur] = "trapret"] ELSE pc
    BY <1>4 DEF TickEnd
  <2>2. /\ S'.state = S.state /\ S'.wait = S.wait /\ S'.cur = S.cur
        /\ S'.oops = S.oops
    BY <2>1, SchedFacts, ProcTickOK
  <2>3. pc'[InitProc] = pc[InitProc]
    BY <1>0, <2>1
  <2> QED BY <1>0, <1>1, <2>1, <2>2, <2>3
<1> QED BY <1>2, <1>3, <1>4

(* Every step of the kernel is of one of the four kinds.                   *)
LEMMA StepKinds ==
  ASSUME SchedInv, TreeInv, [Next]_vars
  PROVE  Quiet \/ Forks \/ Exits \/ Reaps
<1>1. CASE IdleLoop
  <2>1. /\ S.cur = Idle /\ S' = Schedule(S) /\ pc[Idle] = "idle"
        /\ pc' = pc /\ UNCHANGED <<parent, kids, arg, nr>>
    BY <1>1 DEF IdleLoop, At
  <2>2. pc' = [pc EXCEPT ![S.cur] = "idle"] /\ "idle" # "fini"
    BY <2>1, TreeFacts, SchedFacts
  <2> QED BY <2>1, <2>2, GoQuiet
<1>2. CASE UNCHANGED vars
  <2>1. S' = S /\ pc' = pc /\ UNCHANGED <<parent, kids, arg, nr>>
    BY <1>2 DEF vars
  <2> QED BY <2>1, TreeFacts DEF Quiet, InitWaits
<1> QED BY <1>1, <1>2, SyscallKind, ThreadKind, KernelKind, InitKind, TickKind
        DEF Next, Stopped

-----------------------------------------------------------------------------

(* TreeInv is inductive relative to SchedInv.                              *)
LEMMA TreeInvStep == SchedInv /\ TreeInv /\ [Next]_vars => TreeInv'
<1> SUFFICES ASSUME SchedInv, TreeInv, [Next]_vars PROVE TreeInv'
  OBVIOUS
<1>1. CASE Quiet
  <2>1. SchedInv'
    BY SchedInvStep
  <2> QED BY <1>1, <2>1, QuietStep DEF Quiet
<1>2. CASE Forks
  <2>1. PICK p \in Proc, c \in Child, l \in PCs :
          /\ Running(p) /\ l # "fini" /\ (c \in KThread => p = InitProc)
          /\ DoFork(p, c, l)
    BY <1>2 DEF Forks
  <2>2. S.cur = p /\ p # Idle /\ S.state[p] = "RUNNABLE"
    BY <2>1 DEF Running
  <2> QED BY <2>1, <2>2, ForkTree
<1>3. CASE Exits
  BY <1>3, ExitTree DEF Exits, Running
<1>4. CASE Reaps
  BY <1>4, ReapTree DEF Reaps
<1> QED BY <1>1, <1>2, <1>3, <1>4, StepKinds

(* A zombie stays one until its parent, which has the CPU and keeps it,    *)
(* frees it.                                                               *)
ReapedByParent ==
  \A p \in Proc :
    S.state[p] = "ZOMBIE" /\ S'.state[p] # "ZOMBIE"
      => S'.state[p] = "UNUSED" /\ parent[p] = S.cur /\ S'.cur = S.cur

(* Only a reap by the parent ends a zombie, and the parent is current then. *)
LEMMA ZombieStep == SchedInv /\ TreeInv /\ [Next]_vars => ReapedByParent
<1> SUFFICES ASSUME SchedInv, TreeInv, [Next]_vars PROVE ReapedByParent
  OBVIOUS
<1>1. CASE Quiet
  BY <1>1 DEF Quiet, ReapedByParent
<1>2. CASE Forks
  <2>1. PICK p \in Proc, c \in Child, l \in PCs : Running(p) /\ DoFork(p, c, l)
    BY <1>2 DEF Forks
  <2>2. c \in Proc /\ S.wait[p] = "NONE" /\ S.state[c] = "UNUSED"
    BY <2>1, Slots, SchedFacts DEF Running, DoFork
  <2>3. S' = WakeupProc(S, c)
    BY <2>1, <2>2 DEF DoFork, KAssert, SchedInv, TypeOK, SchedType
  <2>4. S'.state = [S.state EXCEPT ![c] = "RUNNABLE"]
    BY <2>2, <2>3, SchedFacts, WakeupOK
  <2> QED BY <2>2, <2>4, SchedFacts DEF ReapedByParent
<1>3. CASE Exits
  <2>1. PICK p \in Proc : Running(p) /\ DoExit(p)
    BY <1>3 DEF Exits
  <2>2. S.cur = p /\ S.state[p] = "RUNNABLE" /\ p # Idle
    BY <2>1 DEF Running
  <2>3. CASE p = InitProc
    BY <2>1, <2>3 DEF DoExit, ReapedByParent
  <2>4. CASE p # InitProc
    <3>1. p \in Child
      BY <2>2, <2>4, Slots
    <3>2. \A x \in Proc :
            S'.state[x] = IF x = p THEN "ZOMBIE"
                          ELSE IF Woken(p, x) THEN "RUNNABLE" ELSE S.state[x]
      BY <2>1, <2>2, <3>1, ExitEffect
    <3>3. \A x \in Proc : Woken(p, x) => S.state[x] = "SLEEPING"
      BY SchedFacts DEF Woken
    <3> QED BY <3>2, <3>3 DEF ReapedByParent
  <2> QED BY <2>3, <2>4
<1>4. CASE Reaps
  BY <1>4, ReapTree DEF Reaps, ReapedByParent
<1> QED BY <1>1, <1>2, <1>3, <1>4, StepKinds

(* The invariant of the family holds in every reachable state.             *)
THEOREM TreeInvHolds == Spec => []TreeInv
BY InitTree, TreeInvStep, SchedInvHolds, PTL DEF Spec

(* The family tree of set_links, remove_links and do_exit is one: lists of *)
(* children and parent pointers agree, parents are alive, there is no      *)
(* cycle, and nr_process counts the processes, within MAX_PROCESS.         *)
THEOREM FamilyTreeCorrect == Spec => []FamilyTree
<1>1. TreeInv => FamilyTree
  BY DEF TreeInv, Kinship, OnceEach, Mutual, Parented, ParentAlive, Grounded,
         Counted, Live, FamilyTree
<1> QED BY <1>1, TreeInvHolds, PTL

(* No wakeup is lost between do_exit and do_wait, for any number of        *)
(* processes and whichever of them inherit zombies.                        *)
THEOREM NoLostChildCorrect == Spec => []NoLostChild
<1>1. TreeInv => NoLostChild
  BY DEF TreeInv
<1> QED BY <1>1, TreeInvHolds, PTL

(* No assert of the modelled code fails: not those of wakeup_proc,         *)
(* RR_enqueue, do_fork and run_timer_list, and not those of check_sync and *)
(* init_main that every thread was waited for and nobody is left.          *)
THEOREM AssertsHold == Spec => []NoAssertFails
<1>1. TreeInv => NoAssertFails
  BY DEF TreeInv
<1> QED BY <1>1, TreeInvHolds, PTL

(* A zombie is freed by do_wait of its parent and by nothing else.         *)
THEOREM ZombiesReaped == Spec => ZombieReapedByParent
<1>1. SchedInv /\ TreeInv /\ [Next]_vars => [ReapedByParent]_vars
  BY ZombieStep
<1> QED BY <1>1, SchedInvHolds, TreeInvHolds, PTL
        DEF Spec, ZombieReapedByParent, ReapedByParent

=============================================================================
