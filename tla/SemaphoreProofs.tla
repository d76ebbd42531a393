-------------------------- MODULE SemaphoreProofs --------------------------
(***************************************************************************)
(* Proofs about Semaphore, for any number of threads and of semaphores and *)
(* any initial values: the wait queues are exact, units are handed out in  *)
(* order, and up() and down() implement the atomic semaphore of AtomicSem. *)
(* The last part is about the philosophers of PhiSema that use them, for   *)
(* any number of them: neighbours never eat at the same time, no fork is   *)
(* forgotten, and there is no deadlock.                                    *)
(***************************************************************************)
EXTENDS PhiSema, SchedProofs, FiniteSetTheorems

InDown == {"down1", "down2"}

(* The thread that has the CPU can run, unless it is about to call         *)
(* schedule() to sleep or to end.                                          *)
CpuState ==
  S.cur # Idle =>
    \/ S.state[S.cur] = "RUNNABLE"
    \/ S.state[S.cur] = "SLEEPING" /\ pc[S.cur] \in {"down1", "sleep1"}
    \/ S.state[S.cur] = "ZOMBIE" /\ pc[S.cur] = "exit1"

(* Threads sleep on a semaphore in down() only, and a thread in down()     *)
(* that does not sleep has been woken by up().                             *)
Where ==
  \A p \in Thread :
    /\ S.wait[p] = "KSEM" => pc[p] \in InDown
    /\ pc[p] \in InDown => S.wait[p] = "KSEM" \/ flags[p] = "KSEM"

(* Nobody waits for a unit that is there.                                  *)
NoneWaits == \A s \in Sem : value[s] > 0 => queue[s] = <<>>

(* A wait queue holds threads, each of them once ...                       *)
QueuedOnce ==
  \A s \in Sem :
    /\ ToSet(queue[s]) \subseteq Thread
    /\ \A i, j \in DOMAIN queue[s] : queue[s][i] = queue[s][j] => i = j

(* ... and exactly those that sleep on its semaphore.                      *)
Queued ==
  \A s \in Sem, p \in Thread :
    p \in ToSet(queue[s]) <=> S.wait[p] = "KSEM" /\ on[p] = s

(* The inductive invariant.                                                *)
SemInv ==
  /\ TypeOK /\ ~S.oops /\ SchedOK(S)
  /\ CpuState /\ Where /\ NoneWaits /\ QueuedOnce /\ Queued

(* Semaphores and interrupts may be used in any order, and no bound on the *)
(* values is needed.                                                       *)
AnyStep ==
  \/ \E p \in Thread :
       \/ \E s \in Sem : Down(p, s) \/ Up(p, s)
       \/ Sleep(p) \/ Exit(p) \/ KernelStep(p)
  \/ IdleLoop \/ Interrupt

-----------------------------------------------------------------------------

(* What the steps need of the scheduler state.                             *)
LEMMA SemFacts ==
  ASSUME SemInv
  PROVE  /\ SchedOK(S) /\ S.cur \in Proc /\ S.oops = FALSE
         /\ S.state \in [Proc -> ProcState] /\ S.wait \in [Proc -> WaitState]
         /\ \A p \in Proc : S.wait[p] # "NONE" <=> S.state[p] = "SLEEPING"
         /\ S.state[Idle] = "RUNNABLE"
         /\ value \in [Sem -> Nat] /\ queue \in [Sem -> Seq(Proc)]
         /\ flags \in [Thread -> {"INTERRUPTED", "KSEM"}]
         /\ on \in [Thread -> Sem]
         /\ pc \in [Thread -> {"run", "down1", "down2", "sleep1", "sleep2",
                               "exit1", "dead"}]
         /\ Idle \in Proc /\ Thread \subseteq Proc /\ Idle \notin Thread
         /\ \A p \in Proc : p # Idle => p \in Thread
<1>1. /\ SchedOK(S) /\ S.cur \in Proc
      /\ S.state \in [Proc -> ProcState] /\ S.wait \in [Proc -> WaitState]
      /\ \A p \in Proc : S.wait[p] # "NONE" <=> S.state[p] = "SLEEPING"
      /\ S.state[Idle] = "RUNNABLE"
  BY DEF SemInv, SchedOK, SchedType, WaitStateExact
<1>2. S.oops = FALSE
  BY DEF SemInv, SchedOK, SchedType
<1>3. /\ Idle \in Proc /\ Thread \subseteq Proc /\ Idle \notin Thread
      /\ \A p \in Proc : p # Idle => p \in Thread
  BY IdleAssumption DEF Thread
<1>4. /\ value \in [Sem -> Nat] /\ queue \in [Sem -> Seq(Proc)]
      /\ flags \in [Thread -> {"INTERRUPTED", "KSEM"}]
      /\ on \in [Thread -> Sem]
      /\ pc \in [Thread -> {"run", "down1", "down2", "sleep1", "sleep2",
                            "exit1", "dead"}]
  BY DEF SemInv, TypeOK
<1> QED BY <1>1, <1>2, <1>3, <1>4

(* A thread in its own code or back from schedule() is running.            *)
LEMMA AtRuns ==
  ASSUME SemInv, NEW p \in Thread, NEW l, At(p, l),
         l \notin {"down1", "sleep1", "exit1"}
  PROVE  /\ S.cur = p /\ pc[p] = l /\ S.state[p] = "RUNNABLE"
         /\ S.wait[p] = "NONE" /\ p # Idle /\ p \in Proc
<1>1. S.cur = p /\ pc[p] = l /\ p # Idle /\ p \in Proc
  BY SemFacts DEF At
<1>2. S.state[p] = "RUNNABLE"
  BY <1>1 DEF SemInv, CpuState
<1> QED BY <1>1, <1>2, SemFacts

(* The threads have been created.                                          *)
LEMMA InitSem == Init => SemInv
<1> SUFFICES ASSUME Init PROVE SemInv
  OBVIOUS
<1> DEFINE n == Cardinality(Thread)
<1>0. /\ Idle \in Proc /\ Thread \subseteq Proc /\ Idle \notin Thread
      /\ \A p \in Proc : p # Idle => p \in Thread
  BY IdleAssumption DEF Thread
<1>1. IsFiniteSet(Thread) /\ n \in Nat
  BY <1>0, ProcAssumption, FS_Subset, FS_CardinalityType
<1>2. PICK q \in [1..n -> Thread] :
        /\ \A t \in Thread : \E i \in DOMAIN q : q[i] = t
        /\ S = [ state   |-> [p \in Proc |-> "RUNNABLE"],
                 wait    |-> [p \in Proc |-> "NONE"],
                 cur     |-> Idle,
                 rq      |-> q,
                 slice   |-> [p \in Proc |-> IF p = Idle THEN 0 ELSE MaxSlice],
                 resched |-> [p \in Proc |-> p = Idle],
                 oops    |-> FALSE ]
  BY DEF Init
<1>3. /\ S.state = [p \in Proc |-> "RUNNABLE"] /\ S.wait = [p \in Proc |-> "NONE"]
      /\ S.cur = Idle /\ S.rq = q /\ S.oops = FALSE
  BY <1>2
<1>4. \A i, j \in 1..n : q[i] = q[j] => i = j
  <2>1. q \in Surjection(1..n, Thread)
    BY <1>2 DEF Surjection
  <2>2. IsFiniteSet(1..n) /\ Cardinality(1..n) = n
    BY <1>1, FS_Interval
  <2>3. q \in Injection(1..n, Thread)
    BY <2>1, <2>2, FS_SurjSameCardinalityImpliesInj
  <2> QED BY <2>3 DEF Injection, IsInjective
<1> HIDE DEF n
<1>5. q \in Seq(Proc) /\ DOMAIN q = 1..n /\ ToSet(q) = Thread
  <2>1. q \in [1..n -> Proc]
    BY <1>0
  <2>2. q \in Seq(Proc)
    BY <1>1, <2>1, IsList
  <2> QED BY <1>2, <2>2 DEF ToSet
<1>6. SchedOK(S)
  <2>1. S \in SchedType
    BY <1>0, <1>2, <1>5, SliceAssumption DEF SchedType, ProcState, WaitState
  <2>2. RunQueueExact(S)
    BY <1>0, <1>3, <1>4, <1>5 DEF RunQueueExact
  <2>3. WaitStateExact(S)
    BY <1>0, <1>3 DEF WaitStateExact
  <2> QED BY <2>1, <2>2, <2>3 DEF SchedOK
<1>7. /\ value = Value0 /\ queue = [s \in Sem |-> <<>>]
      /\ flags = [p \in Thread |-> "INTERRUPTED"]
      /\ on = [p \in Thread |-> CHOOSE s \in Sem : TRUE]
      /\ pc = [p \in Thread |-> "run"]
  BY DEF Init
<1>8. TypeOK
  <2>1. (CHOOSE s \in Sem : TRUE) \in Sem
    BY SemAssumption
  <2>2. on \in [Thread -> Sem]
    BY <1>7, <2>1
  <2>3. queue \in [Sem -> Seq(Proc)] /\ value \in [Sem -> Nat]
    BY <1>7, ValueAssumption
  <2> QED BY <1>6, <1>7, <2>2, <2>3 DEF TypeOK, SchedOK
<1>9. \A s \in Sem : ToSet(queue[s]) = {} /\ DOMAIN queue[s] = {}
  BY <1>7 DEF ToSet
<1>10. NoneWaits /\ QueuedOnce /\ Queued
  BY <1>0, <1>3, <1>7, <1>9 DEF NoneWaits, QueuedOnce, Queued
<1>11. CpuState /\ Where
  BY <1>0, <1>3, <1>7 DEF CpuState, Where, InDown
<1> QED BY <1>3, <1>6, <1>8, <1>10, <1>11 DEF SemInv

-----------------------------------------------------------------------------
(* Steps by kind.                                                          *)

(* Steps that touch no semaphore: nobody goes to sleep on one or is woken  *)
(* from it, and threads may leave down() once they have been woken.        *)
LEMMA PlainStep ==
  ASSUME SemInv, UNCHANGED <<value, queue, flags, on>>,
         SchedOK(S'), ~S'.oops, CpuState',
         pc' \in [Thread -> {"run", "down1", "down2", "sleep1", "sleep2",
                             "exit1", "dead"}],
         \A p \in Thread : /\ S'.wait[p] = "KSEM" <=> S.wait[p] = "KSEM"
                           /\ S.wait[p] = "KSEM" => pc'[p] \in InDown
                           /\ pc'[p] \in InDown => pc[p] \in InDown
  PROVE  SemInv'
<1>1. TypeOK'
  BY DEF SemInv, TypeOK, SchedOK
<1>2. Where'
  BY DEF SemInv, Where
<1>3. NoneWaits' /\ QueuedOnce'
  BY DEF SemInv, NoneWaits, QueuedOnce
<1>4. Queued'
  BY DEF SemInv, Queued
<1> QED BY <1>1, <1>2, <1>3, <1>4 DEF SemInv

(* The current thread gives up the CPU and will go on at l.                *)
LEMMA ScheduleStep ==
  ASSUME SemInv, NEW p \in Thread, NEW l, NEW m, At(p, l), S' = Schedule(S),
         <<l, m>> \in {<<"down1", "down2">>, <<"sleep1", "sleep2">>,
                       <<"exit1", "dead">>},
         pc' = [pc EXCEPT ![p] = m], UNCHANGED <<value, queue, flags, on>>
  PROVE  SemInv'
<1>1. /\ SchedOK(S') /\ S'.wait = S.wait /\ S'.state = S.state
      /\ S'.oops = S.oops /\ S.state[S'.cur] = "RUNNABLE"
  BY SemFacts, ScheduleOK
<1>2. pc[p] = l
  BY DEF At
<1>3. CpuState'
  BY <1>1 DEF CpuState
<1>4. pc' \in [Thread -> {"run", "down1", "down2", "sleep1", "sleep2",
                          "exit1", "dead"}]
  BY SemFacts
<1>5. \A q \in Thread : pc'[q] \in InDown <=> pc[q] \in InDown
  BY <1>2, SemFacts DEF InDown
<1>6. \A q \in Thread : S.wait[q] = "KSEM" => pc[q] \in InDown
  BY DEF SemInv, Where
<1> QED BY <1>1, <1>3, <1>4, <1>5, <1>6, PlainStep, SemFacts

(* down() takes a unit that is there.                                      *)
LEMMA TakeStep ==
  ASSUME SemInv, NEW p \in Thread, NEW s \in Sem, DownTakes(p, s)
  PROVE  SemInv'
<1>1. /\ value[s] > 0 /\ value' = [value EXCEPT ![s] = @ - 1]
      /\ UNCHANGED <<S, queue, flags, on, pc>>
  BY DEF DownTakes
<1>2. value' \in [Sem -> Nat]
  BY <1>1, SemFacts
<1>3. TypeOK'
  BY <1>1, <1>2 DEF SemInv, TypeOK
<1>4. NoneWaits'
  BY <1>1, SemFacts DEF SemInv, NoneWaits
<1>5. QueuedOnce' /\ Queued' /\ CpuState' /\ Where'
  BY <1>1 DEF SemInv, QueuedOnce, Queued, CpuState, Where
<1> QED BY <1>1, <1>3, <1>4, <1>5 DEF SemInv

(* down() finds none and queues the thread.                                *)
LEMMA WaitStep ==
  ASSUME SemInv, NEW p \in Thread, NEW s \in Sem, DownWaits(p, s)
  PROVE  /\ SemInv'
         /\ ToSet(queue'[s]) = ToSet(queue[s]) \cup {p}
         /\ p \notin ToSet(queue[s])
<1>1. /\ S.cur = p /\ pc[p] = "run" /\ S.state[p] = "RUNNABLE"
      /\ S.wait[p] = "NONE" /\ p # Idle /\ p \in Proc
  BY AtRuns DEF DownWaits
<1> DEFINE h == Append(queue[s], p)
<1>2. /\ ~(value[s] > 0) /\ S' = Block(S, "KSEM")
      /\ queue' = [queue EXCEPT ![s] = h]
      /\ flags' = [flags EXCEPT ![p] = "INTERRUPTED"]
      /\ on' = [on EXCEPT ![p] = s] /\ pc' = [pc EXCEPT ![p] = "down1"]
      /\ value' = value
  BY DEF DownWaits, Goto
<1>3. p \notin ToSet(queue[s])
  BY <1>1 DEF SemInv, Queued
<1>4. /\ h \in Seq(Proc) /\ ToSet(h) = ToSet(queue[s]) \cup {p}
      /\ \A i, j \in DOMAIN h : h[i] = h[j] => i = j
  <2>1. queue[s] \in Seq(Proc)
    BY SemFacts
  <2>2. \A i, j \in DOMAIN queue[s] : queue[s][i] = queue[s][j] => i = j
    BY DEF SemInv, QueuedOnce
  <2> QED BY <1>1, <1>3, <2>1, <2>2, AppendFacts
<1> HIDE DEF h
<1>5. /\ SchedOK(S') /\ S'.state = [S.state EXCEPT ![p] = "SLEEPING"]
      /\ S'.wait = [S.wait EXCEPT ![p] = "KSEM"] /\ S'.cur = p /\ ~S'.oops
  <2>1. "KSEM" \in WaitState \ {"NONE"}
    BY DEF WaitState
  <2> QED BY <1>1, <1>2, <2>1, SemFacts, BlockOK
<1>6. /\ \A q \in Proc : S'.wait[q] = IF q = p THEN "KSEM" ELSE S.wait[q]
      /\ \A q \in Thread : on'[q] = IF q = p THEN s ELSE on[q]
      /\ \A q \in Thread : pc'[q] = IF q = p THEN "down1" ELSE pc[q]
      /\ \A q \in Thread : flags'[q] = IF q = p THEN "INTERRUPTED" ELSE flags[q]
      /\ \A x \in Sem : queue'[x] = IF x = s THEN h ELSE queue[x]
  BY <1>2, <1>5, SemFacts
<1>7. TypeOK'
  <2>1. queue' \in [Sem -> Seq(Proc)]
    BY <1>2, <1>4, SemFacts
  <2>2. /\ flags' \in [Thread -> {"INTERRUPTED", "KSEM"}]
        /\ on' \in [Thread -> Sem]
        /\ pc' \in [Thread -> {"run", "down1", "down2", "sleep1", "sleep2",
                               "exit1", "dead"}]
    BY <1>2, SemFacts
  <2> QED BY <1>2, <1>5, <2>1, <2>2, SemFacts DEF TypeOK, SchedOK
<1>8. CpuState'
  BY <1>5, <1>6, SemFacts DEF CpuState
<1>9. Where'
  BY <1>6, SemFacts DEF SemInv, Where, InDown
<1>10. NoneWaits'
  BY <1>2, <1>6 DEF SemInv, NoneWaits
<1>11. QueuedOnce'
  <2> SUFFICES ASSUME NEW x \in Sem
               PROVE  /\ ToSet(queue'[x]) \subseteq Thread
                      /\ \A i, j \in DOMAIN queue'[x] :
                           queue'[x][i] = queue'[x][j] => i = j
    BY DEF QueuedOnce
  <2>1. CASE x = s
    BY <1>4, <1>6, <2>1 DEF SemInv, QueuedOnce
  <2>2. CASE x # s
    BY <1>6, <2>2 DEF SemInv, QueuedOnce
  <2> QED BY <2>1, <2>2
<1>12. Queued'
  <2> SUFFICES ASSUME NEW x \in Sem, NEW q \in Thread
               PROVE  q \in ToSet(queue'[x]) <=> S'.wait[q] = "KSEM" /\ on'[q] = x
    BY DEF Queued
  <2>1. q \in ToSet(queue[x]) <=> S.wait[q] = "KSEM" /\ on[q] = x
    BY DEF SemInv, Queued
  <2> QED BY <1>1, <1>4, <1>6, <2>1, SemFacts
<1> QED BY <1>3, <1>4, <1>5, <1>6, <1>7, <1>8, <1>9, <1>10, <1>11, <1>12 DEF SemInv

(* up() counts the unit if nobody waits, and hands it to the first thread  *)
(* of the queue otherwise.                                                 *)
LEMMA UpStep ==
  ASSUME SemInv, NEW s \in Sem, UpEffect(s), UNCHANGED <<on, pc>>
  PROVE  /\ SemInv'
         /\ S'.cur = S.cur
         /\ \/ /\ queue[s] = <<>> /\ queue' = queue
               /\ value' = [value EXCEPT ![s] = @ + 1]
            \/ /\ queue[s] # <<>> /\ value' = value
               /\ Head(queue[s]) \in ToSet(queue[s])
               /\ queue' = [queue EXCEPT ![s] = Tail(@)]
               /\ ToSet(queue'[s]) = ToSet(queue[s]) \ {Head(queue[s])}
<1>1. CASE queue[s] = <<>>
  <2>1. /\ value' = [value EXCEPT ![s] = @ + 1]
        /\ UNCHANGED <<S, queue, flags, on, pc>>
    BY <1>1 DEF UpEffect
  <2>2. TypeOK'
    BY <2>1, SemFacts DEF SemInv, TypeOK
  <2>3. NoneWaits'
    BY <1>1, <2>1, SemFacts DEF SemInv, NoneWaits
  <2>4. QueuedOnce' /\ Queued' /\ CpuState' /\ Where'
    BY <2>1 DEF SemInv, QueuedOnce, Queued, CpuState, Where
  <2> QED BY <1>1, <2>1, <2>2, <2>3, <2>4 DEF SemInv
<1>2. CASE queue[s] # <<>>
  <2> DEFINE w == Head(queue[s])
             h == Tail(queue[s])
             b == S.wait[w] = "KSEM"
  <2>1. /\ S' = WakeupProc(KAssert(S, b), w)
        /\ flags' = [flags EXCEPT ![w] = "KSEM"]
        /\ queue' = [queue EXCEPT ![s] = h]
        /\ value' = value /\ on' = on /\ pc' = pc
    BY <1>2 DEF UpEffect
  <2>2. /\ h \in Seq(Proc) /\ w \in ToSet(queue[s])
        /\ ToSet(h) = ToSet(queue[s]) \ {w}
        /\ \A i, j \in DOMAIN h : h[i] = h[j] => i = j
    <3>1. queue[s] \in Seq(Proc)
      BY SemFacts
    <3>2. \A i, j \in DOMAIN queue[s] : queue[s][i] = queue[s][j] => i = j
      BY DEF SemInv, QueuedOnce
    <3> QED BY <1>2, <3>1, <3>2, TailFacts
  <2>3. w \in Thread /\ w \in Proc /\ S.wait[w] = "KSEM" /\ on[w] = s
        /\ S.state[w] = "SLEEPING"
    BY <2>2, SemFacts DEF SemInv, QueuedOnce, Queued
  <2>4. b = TRUE /\ KAssert(S, TRUE) = S
    BY <2>3 DEF KAssert, SemInv, SchedOK, SchedType
  <2> HIDE DEF w, h, b
  <2>5. /\ SchedOK(S') /\ S'.state = [S.state EXCEPT ![w] = "RUNNABLE"]
        /\ S'.wait = [S.wait EXCEPT ![w] = "NONE"] /\ S'.cur = S.cur
        /\ S'.oops = (S.oops \/ S.state[w] = "ZOMBIE")
    <3>1. S' = WakeupProc(S, w)
      BY <2>1, <2>4, Zenon
    <3>2. SchedOK(S)
      BY SemFacts
    <3> QED BY <2>3, <3>1, <3>2, WakeupOK
  <2>6. ~S'.oops
    BY <2>3, <2>5, SemFacts
  <2>7. /\ \A q \in Proc : S'.wait[q] = IF q = w THEN "NONE" ELSE S.wait[q]
        /\ \A q \in Proc : S'.state[q] = IF q = w THEN "RUNNABLE" ELSE S.state[q]
        /\ \A q \in Thread : flags'[q] = IF q = w THEN "KSEM" ELSE flags[q]
        /\ \A x \in Sem : queue'[x] = IF x = s THEN h ELSE queue[x]
    BY <2>1, <2>3, <2>5, SemFacts
  <2>8. TypeOK'
    <3>1. queue' \in [Sem -> Seq(Proc)]
      BY <2>1, <2>2, SemFacts
    <3>2. flags' \in [Thread -> {"INTERRUPTED", "KSEM"}]
      BY <2>1, SemFacts
    <3> QED BY <2>1, <2>5, <3>1, <3>2, SemFacts DEF TypeOK, SchedOK
  <2>9. CpuState'
    BY <2>1, <2>5, <2>7, SemFacts DEF SemInv, CpuState
  <2>10. Where'
    <3> SUFFICES ASSUME NEW q \in Thread
                 PROVE  /\ S'.wait[q] = "KSEM" => pc'[q] \in InDown
                        /\ pc'[q] \in InDown =>
                             S'.wait[q] = "KSEM" \/ flags'[q] = "KSEM"
      BY DEF Where
    <3>1. /\ S.wait[q] = "KSEM" => pc[q] \in InDown
          /\ pc[q] \in InDown => S.wait[q] = "KSEM" \/ flags[q] = "KSEM"
      BY DEF SemInv, Where
    <3>2. q \in Proc /\ pc'[q] = pc[q]
      BY <2>1, SemFacts
    <3> QED BY <2>7, <3>1, <3>2
  <2>11. NoneWaits'
    BY <1>2, <2>1, <2>7 DEF SemInv, NoneWaits
  <2>12. QueuedOnce'
    <3> SUFFICES ASSUME NEW x \in Sem
                 PROVE  /\ ToSet(queue'[x]) \subseteq Thread
                        /\ \A i, j \in DOMAIN queue'[x] :
                             queue'[x][i] = queue'[x][j] => i = j
      BY DEF QueuedOnce
    <3>1. CASE x = s
      BY <2>2, <2>7, <3>1 DEF SemInv, QueuedOnce
    <3>2. CASE x # s
      BY <2>7, <3>2 DEF SemInv, QueuedOnce
    <3> QED BY <3>1, <3>2
  <2>13. Queued'
    <3> SUFFICES ASSUME NEW x \in Sem, NEW q \in Thread
                 PROVE  q \in ToSet(queue'[x]) <=> S'.wait[q] = "KSEM" /\ on'[q] = x
      BY DEF Queued
    <3>1. q \in ToSet(queue[x]) <=> S.wait[q] = "KSEM" /\ on[q] = x
      BY DEF SemInv, Queued
    <3> QED BY <2>1, <2>2, <2>3, <2>7, <3>1, SemFacts
  <2>14. SemInv'
    BY <2>5, <2>6, <2>8, <2>9, <2>10, <2>11, <2>12, <2>13 DEF SemInv
  <2>15. /\ w \in ToSet(queue[s]) /\ queue' = [queue EXCEPT ![s] = Tail(@)]
         /\ ToSet(queue'[s]) = ToSet(queue[s]) \ {w}
    BY <2>1, <2>2, <2>7 DEF h
  <2> QED BY <1>2, <2>1, <2>5, <2>14, <2>15 DEF w
<1> QED BY <1>1, <1>2

(* down() returns with the unit that up() has handed over; the wait_t is   *)
(* no longer queued.                                                       *)
LEMMA ReturnStep ==
  ASSUME SemInv, NEW p \in Thread, DownReturns(p)
  PROVE  /\ SemInv' /\ UNCHANGED <<value, queue, flags, on>>
         /\ pc[p] = "down2" /\ pc' = [pc EXCEPT ![p] = "run"]
         /\ p \notin ToSet(queue[on[p]])
         /\ S' = S
<1>1. /\ S.cur = p /\ pc[p] = "down2" /\ S.state[p] = "RUNNABLE"
      /\ S.wait[p] = "NONE" /\ p # Idle /\ p \in Proc
  BY AtRuns DEF DownReturns
<1>2. on[p] \in Sem /\ p \notin ToSet(queue[on[p]]) /\ flags[p] = "KSEM"
  BY <1>1, SemFacts DEF SemInv, Queued, Where, InDown
<1>3. /\ queue' = queue /\ S' = KAssert(S, flags[p] = "KSEM")
      /\ pc' = [pc EXCEPT ![p] = "run"] /\ UNCHANGED <<value, flags, on>>
  BY <1>2, SemFacts DEF DownReturns, Goto
<1>4. S' = S
  BY <1>2, <1>3 DEF KAssert, SemInv, SchedOK, SchedType
<1>5. pc' \in [Thread -> {"run", "down1", "down2", "sleep1", "sleep2",
                          "exit1", "dead"}]
  BY <1>3, SemFacts
<1>6. ASSUME NEW q \in Thread
      PROVE  /\ S.wait[q] = "KSEM" => pc'[q] \in InDown
             /\ pc'[q] \in InDown => pc[q] \in InDown
  BY <1>1, <1>3, SemFacts DEF SemInv, Where, InDown
<1>7. CpuState'
  BY <1>1, <1>4 DEF CpuState
<1>8. SemInv'
  BY <1>3, <1>4, <1>5, <1>6, <1>7, PlainStep, SemFacts
<1> QED BY <1>1, <1>2, <1>3, <1>4, <1>8

(* do_sleep, up to schedule().                                             *)
LEMMA SleepStep ==
  ASSUME SemInv, NEW p \in Thread, Sleep(p)
  PROVE  SemInv' /\ S'.cur = S.cur
<1>1. /\ S.cur = p /\ pc[p] = "run" /\ S.state[p] = "RUNNABLE"
      /\ S.wait[p] = "NONE" /\ p # Idle /\ p \in Proc
  BY AtRuns DEF Sleep
<1>2. /\ S' = Block(S, "TIMER") /\ pc' = [pc EXCEPT ![p] = "sleep1"]
      /\ UNCHANGED <<value, queue, flags, on>>
  BY DEF Sleep, Goto
<1>3. /\ SchedOK(S') /\ S'.state = [S.state EXCEPT ![p] = "SLEEPING"]
      /\ S'.wait = [S.wait EXCEPT ![p] = "TIMER"] /\ S'.cur = p /\ ~S'.oops
  <2>1. "TIMER" \in WaitState \ {"NONE"}
    BY DEF WaitState
  <2> QED BY <1>1, <1>2, <2>1, SemFacts, BlockOK
<1>4. /\ \A q \in Proc : S'.wait[q] = IF q = p THEN "TIMER" ELSE S.wait[q]
      /\ \A q \in Thread : pc'[q] = IF q = p THEN "sleep1" ELSE pc[q]
      /\ S'.state[p] = "SLEEPING"
  BY <1>1, <1>2, <1>3, SemFacts
<1>5. CpuState'
  BY <1>3, <1>4 DEF CpuState
<1>6. pc' \in [Thread -> {"run", "down1", "down2", "sleep1", "sleep2",
                          "exit1", "dead"}]
  BY <1>2, SemFacts
<1>7. ASSUME NEW q \in Thread
      PROVE  /\ S'.wait[q] = "KSEM" <=> S.wait[q] = "KSEM"
             /\ S.wait[q] = "KSEM" => pc'[q] \in InDown
             /\ pc'[q] \in InDown => pc[q] \in InDown
  BY <1>1, <1>4, SemFacts DEF SemInv, Where, InDown
<1> QED BY <1>1, <1>2, <1>3, <1>5, <1>6, <1>7, PlainStep

(* The sleep is over.                                                      *)
LEMMA AwakeStep ==
  ASSUME SemInv, NEW p \in Thread, SleepReturns(p)
  PROVE  SemInv'
<1>1. /\ S.cur = p /\ pc[p] = "sleep2" /\ S.state[p] = "RUNNABLE"
      /\ S.wait[p] = "NONE" /\ p # Idle /\ p \in Proc
  BY AtRuns DEF SleepReturns
<1>2. pc' = [pc EXCEPT ![p] = "run"] /\ UNCHANGED <<S, value, queue, flags, on>>
  BY DEF SleepReturns, Goto
<1>3. CpuState'
  BY <1>1, <1>2 DEF CpuState
<1>4. pc' \in [Thread -> {"run", "down1", "down2", "sleep1", "sleep2",
                          "exit1", "dead"}]
  BY <1>2, SemFacts
<1>5. ASSUME NEW q \in Thread
      PROVE  /\ S.wait[q] = "KSEM" => pc'[q] \in InDown
             /\ pc'[q] \in InDown => pc[q] \in InDown
  BY <1>1, <1>2, SemFacts DEF SemInv, Where, InDown
<1> QED BY <1>2, <1>3, <1>4, <1>5, PlainStep, SemFacts

(* do_exit, up to schedule().                                              *)
LEMMA ExitStep ==
  ASSUME SemInv, NEW p \in Thread, Exit(p)
  PROVE  SemInv' /\ S'.cur = S.cur
<1>1. /\ S.cur = p /\ pc[p] = "run" /\ S.state[p] = "RUNNABLE"
      /\ S.wait[p] = "NONE" /\ p # Idle /\ p \in Proc
  BY AtRuns DEF Exit
<1> DEFINE Z == [S EXCEPT !.state[p] = "ZOMBIE"]
<1>2. /\ S' = Z /\ pc' = [pc EXCEPT ![p] = "exit1"]
      /\ UNCHANGED <<value, queue, flags, on>>
  BY DEF Exit, Goto
<1>3. /\ SchedOK(Z) /\ Z.cur = p /\ Z.wait = S.wait /\ ~Z.oops
      /\ Z.state[p] = "ZOMBIE"
  <2>1. S \in SchedType /\ RunQueueExact(S) /\ WaitStateExact(S)
    BY SemFacts DEF SchedOK
  <2>2. /\ Z \in SchedType /\ Z.cur = p /\ Z.wait = S.wait /\ Z.oops = S.oops
        /\ Z.rq = S.rq /\ Z.state = [S.state EXCEPT ![p] = "ZOMBIE"]
    BY <1>1, <2>1 DEF SchedType, ProcState
  <2> HIDE DEF Z
  <2>3. RunQueueExact(Z)
    BY <1>1, <2>1, <2>2 DEF RunQueueExact, SchedType
  <2>4. WaitStateExact(Z)
    BY <1>1, <2>1, <2>2, IdleAssumption DEF WaitStateExact, SchedType
  <2> QED BY <1>1, <2>2, <2>3, <2>4, SemFacts DEF SchedOK
<1> HIDE DEF Z
<1>4. pc'[p] = "exit1"
  BY <1>2, SemFacts
<1>5. CpuState'
  BY <1>2, <1>3, <1>4 DEF CpuState
<1>6. pc' \in [Thread -> {"run", "down1", "down2", "sleep1", "sleep2",
                          "exit1", "dead"}]
  BY <1>2, SemFacts
<1>7. ASSUME NEW q \in Thread
      PROVE  /\ S.wait[q] = "KSEM" => pc'[q] \in InDown
             /\ pc'[q] \in InDown => pc[q] \in InDown
  BY <1>1, <1>2, SemFacts DEF SemInv, Where, InDown
<1> QED BY <1>1, <1>2, <1>3, <1>5, <1>6, <1>7, PlainStep

(* The timer interrupt wakes no thread that waits for a semaphore.         *)
LEMMA AlarmStep ==
  ASSUME SemInv, NEW p \in Thread, Alarm(p)
  PROVE  SemInv' /\ S'.cur = S.cur
<1>1. /\ S.wait[p] \in Interruptible /\ S' = WakeupProc(S, p) /\ p \in Proc
      /\ UNCHANGED <<value, queue, flags, on, pc>>
  BY SemFacts DEF Alarm
<1>2. S.wait[p] # "KSEM" /\ S.state[p] = "SLEEPING"
  BY <1>1, SemFacts DEF Interruptible
<1>3. /\ SchedOK(S') /\ S'.state = [S.state EXCEPT ![p] = "RUNNABLE"]
      /\ S'.wait = [S.wait EXCEPT ![p] = "NONE"] /\ S'.cur = S.cur
      /\ S'.oops = (S.oops \/ S.state[p] = "ZOMBIE")
  <2>1. SchedOK(S)
    BY SemFacts
  <2> QED BY <1>1, <2>1, WakeupOK
<1>4. /\ \A q \in Proc : S'.wait[q] = IF q = p THEN "NONE" ELSE S.wait[q]
      /\ \A q \in Proc : S'.state[q] = IF q = p THEN "RUNNABLE" ELSE S.state[q]
  BY <1>1, <1>3, SemFacts
<1>5. ~S'.oops
  BY <1>2, <1>3, SemFacts
<1>6. CpuState'
  BY <1>1, <1>3, <1>4, SemFacts DEF SemInv, CpuState
<1>7. ASSUME NEW q \in Thread
      PROVE  /\ S'.wait[q] = "KSEM" <=> S.wait[q] = "KSEM"
             /\ S.wait[q] = "KSEM" => pc'[q] \in InDown
  BY <1>1, <1>2, <1>4, SemFacts DEF SemInv, Where
<1>8. pc' \in [Thread -> {"run", "down1", "down2", "sleep1", "sleep2",
                          "exit1", "dead"}]
  BY <1>1, SemFacts
<1> QED BY <1>1, <1>3, <1>5, <1>6, <1>7, <1>8, PlainStep

(* A tick, and idleproc giving up the CPU.                                 *)
LEMMA CpuStep ==
  ASSUME SemInv, ClockTick \/ IdleLoop
  PROVE  SemInv' /\ UNCHANGED <<value, queue, flags, on, pc>>
<1>1. /\ S' = ProcTick(S) \/ S' = Schedule(S)
      /\ UNCHANGED <<value, queue, flags, on, pc>>
  BY DEF ClockTick, IdleLoop
<1>2. /\ SchedOK(S') /\ S'.wait = S.wait /\ S'.state = S.state /\ ~S'.oops
      /\ S'.cur = S.cur \/ S.state[S'.cur] = "RUNNABLE"
  <2>1. SchedOK(S) /\ ~S.oops
    BY SemFacts
  <2>2. CASE S' = ProcTick(S)
    BY <2>1, <2>2, ProcTickOK
  <2>3. CASE S' = Schedule(S)
    BY <2>1, <2>3, ScheduleOK
  <2> QED BY <1>1, <2>2, <2>3
<1>3. CpuState'
  BY <1>1, <1>2 DEF SemInv, CpuState
<1>4. \A q \in Thread : S.wait[q] = "KSEM" => pc'[q] \in InDown
  BY <1>1 DEF SemInv, Where
<1>5. pc' \in [Thread -> {"run", "down1", "down2", "sleep1", "sleep2",
                          "exit1", "dead"}]
  BY <1>1, SemFacts
<1> QED BY <1>1, <1>2, <1>3, <1>4, <1>5, PlainStep

-----------------------------------------------------------------------------

(* Threads may use semaphores in any order, and interrupts come at any     *)
(* time.                                                                   *)
LEMMA SemInvStep == SemInv /\ [AnyStep]_vars => SemInv'
<1> SUFFICES ASSUME SemInv, [AnyStep]_vars PROVE SemInv'
  OBVIOUS
<1>1. CASE UNCHANGED vars
  BY <1>1 DEF vars, SemInv, TypeOK, CpuState, Where, NoneWaits, QueuedOnce,
              Queued
<1>2. ASSUME NEW p \in Thread, NEW s \in Sem, Down(p, s) PROVE SemInv'
  BY <1>2, TakeStep, WaitStep DEF Down
<1>3. ASSUME NEW p \in Thread, NEW s \in Sem, Up(p, s) PROVE SemInv'
  BY <1>3, UpStep DEF Up
<1>4. ASSUME NEW p \in Thread, Sleep(p) \/ Exit(p) PROVE SemInv'
  BY <1>4, SleepStep, ExitStep
<1>5. ASSUME NEW p \in Thread, KernelStep(p) PROVE SemInv'
  <2>1. CASE DownSchedule(p)
    BY <2>1, ScheduleStep DEF DownSchedule, Goto
  <2>2. CASE SleepSchedule(p)
    BY <2>2, ScheduleStep DEF SleepSchedule, Goto
  <2>3. CASE ExitSchedule(p)
    BY <2>3, ScheduleStep DEF ExitSchedule, Goto
  <2>4. CASE DownReturns(p)
    BY <2>4, ReturnStep
  <2>5. CASE SleepReturns(p)
    BY <2>5, AwakeStep
  <2> QED BY <1>5, <2>1, <2>2, <2>3, <2>4, <2>5 DEF KernelStep
<1>6. CASE IdleLoop \/ Interrupt
  BY <1>6, CpuStep, AlarmStep DEF Interrupt
<1> QED BY <1>1, <1>2, <1>3, <1>4, <1>5, <1>6 DEF AnyStep

(* The bound on the values only leaves steps out.                          *)
LEMMA NextIsAny == Next => AnyStep
  BY DEF Next, AnyStep, Call, TryDown, Down

(* For any number of threads and semaphores and any initial values, the    *)
(* invariant above holds.                                                  *)
THEOREM SemInvHolds == Spec => []SemInv
<1>1. SemInv /\ [Next]_vars => SemInv'
  BY NextIsAny, SemInvStep
<1> QED BY InitSem, <1>1, PTL DEF Spec

(* No thread waits for a unit that is there, and a wait queue holds, once  *)
(* each, exactly the threads that sleep on its semaphore; the asserts of   *)
(* __up, down(), wakeup_proc and RR_enqueue hold.                          *)
THEOREM QueuesCorrect == Spec => []QueuesExact
<1>1. SemInv => QueuesExact
  BY DEF SemInv, QueuesExact, SchedOK, NoneWaits, QueuedOnce, Queued
<1> QED BY <1>1, SemInvHolds, PTL

-----------------------------------------------------------------------------
(* Units are handed out in order.                                          *)

(* What a step does to the wait queues: nothing, a thread joins one, or    *)
(* the first thread of one leaves.                                         *)
LEMMA QueueStep ==
  ASSUME SemInv, [AnyStep]_vars, NEW s \in Sem
  PROVE  \/ ToSet(queue[s]) \subseteq ToSet(queue'[s])
         \/ /\ queue[s] # <<>>
            /\ ToSet(queue'[s]) = ToSet(queue[s]) \ {Head(queue[s])}
<1>1. CASE UNCHANGED queue
  BY <1>1
<1>2. ASSUME NEW p \in Thread, NEW x \in Sem, DownWaits(p, x)
      PROVE  ToSet(queue[s]) \subseteq ToSet(queue'[s])
  <2>1. ToSet(queue'[x]) = ToSet(queue[x]) \cup {p}
    BY <1>2, WaitStep
  <2>2. s # x => queue'[s] = queue[s]
    BY <1>2, SemFacts DEF DownWaits
  <2> QED BY <2>1, <2>2
<1>3. ASSUME NEW p \in Thread, NEW x \in Sem, Up(p, x), ~UNCHANGED queue
      PROVE  \/ queue'[s] = queue[s]
             \/ /\ queue[s] # <<>>
                /\ ToSet(queue'[s]) = ToSet(queue[s]) \ {Head(queue[s])}
  <2>1. /\ queue[x] # <<>> /\ queue' = [queue EXCEPT ![x] = Tail(@)]
        /\ ToSet(queue'[x]) = ToSet(queue[x]) \ {Head(queue[x])}
    BY <1>3, UpStep DEF Up
  <2> QED BY <2>1, SemFacts
<1>4. ASSUME NEW p \in Thread, KernelStep(p)
      PROVE  UNCHANGED queue
  BY <1>4, ReturnStep DEF KernelStep, DownSchedule, SleepSchedule,
                          ExitSchedule, SleepReturns
<1>5. ASSUME NEW p \in Thread, Sleep(p) \/ Exit(p) \/ Alarm(p)
      PROVE  UNCHANGED queue
  BY <1>5 DEF Sleep, Exit, Alarm
<1>6. ASSUME NEW p \in Thread, NEW x \in Sem, DownTakes(p, x)
      PROVE  UNCHANGED queue
  BY <1>6 DEF DownTakes
<1>7. ClockTick \/ IdleLoop \/ UNCHANGED vars => UNCHANGED queue
  BY DEF ClockTick, IdleLoop, vars
<1> QED BY <1>1, <1>2, <1>3, <1>4, <1>5, <1>6, <1>7
        DEF AnyStep, Down, Interrupt

(* A thread that leaves a wait queue was before all those that stay: up()  *)
(* hands the unit to the first of the queue, and nobody overtakes.         *)
THEOREM FifoCorrect == Spec => FifoHandOff
<1> DEFINE Ordered ==
      \A s \in Sem : \A p, q \in ToSet(queue[s]) :
        p \notin ToSet(queue'[s]) /\ q \in ToSet(queue'[s])
          => \E i, j \in DOMAIN queue[s] :
               i < j /\ queue[s][i] = p /\ queue[s][j] = q
<1>1. ASSUME SemInv, [Next]_vars PROVE Ordered
  <2> SUFFICES ASSUME NEW s \in Sem,
                      NEW p \in ToSet(queue[s]), NEW q \in ToSet(queue[s]),
                      p \notin ToSet(queue'[s]), q \in ToSet(queue'[s])
               PROVE  \E i, j \in DOMAIN queue[s] :
                        i < j /\ queue[s][i] = p /\ queue[s][j] = q
    OBVIOUS
  <2>1. queue[s] # <<>> /\ ToSet(queue'[s]) = ToSet(queue[s]) \ {Head(queue[s])}
    BY <1>1, NextIsAny, QueueStep
  <2>2. p = Head(queue[s]) /\ q # Head(queue[s])
    BY <2>1
  <2>3. queue[s] \in Seq(Proc)
    BY <1>1, SemFacts
  <2>4. PICK j \in DOMAIN queue[s] : queue[s][j] = q
    BY DEF ToSet
  <2>5. Head(queue[s]) = queue[s][1] /\ 1 \in DOMAIN queue[s] /\ j \in Nat /\ j >= 1
    BY <2>1, <2>3, <2>4
  <2>6. 1 < j
    BY <2>2, <2>4, <2>5
  <2> QED BY <2>2, <2>4, <2>5, <2>6
<1>2. SemInv /\ [Next]_vars => [Ordered]_vars
  BY <1>1
<1> QED BY <1>2, SemInvHolds, PTL DEF Spec, FifoHandOff

-----------------------------------------------------------------------------
(* up() and down() implement the atomic semaphore.                         *)

(* The threads that own a unit are finitely many.                          *)
LEMMA GrantedFinite ==
  \A s : IsFiniteSet(Granted(s)) /\ Cardinality(Granted(s)) \in Nat
<1> TAKE s
<1>1. Granted(s) \subseteq Proc
  BY DEF Granted, Thread
<1> QED BY <1>1, ProcAssumption, FS_Subset, FS_CardinalityType

(* Units change hands in up() and down() only.                             *)
LEMMA GrantedKept ==
  ASSUME SemInv, UNCHANGED <<queue, on>>,
         \A p \in Thread : pc'[p] \in InDown <=> pc[p] \in InDown
  PROVE  \A s \in Sem : Granted(s)' = Granted(s)
  BY DEF Granted, InDown

(* A thread that waits owns nothing yet ...                                *)
LEMMA GrantedWait ==
  ASSUME SemInv, NEW p \in Thread, NEW s \in Sem, DownWaits(p, s)
  PROVE  \A x \in Sem : Granted(x)' = Granted(x)
<1> TAKE x \in Sem
<1>1. pc[p] = "run" /\ pc' = [pc EXCEPT ![p] = "down1"]
      /\ on' = [on EXCEPT ![p] = s]
      /\ queue' = [queue EXCEPT ![s] = Append(@, p)]
  BY DEF DownWaits, Goto, At
<1>2. ToSet(queue'[s]) = ToSet(queue[s]) \cup {p}
  BY WaitStep
<1>3. \A y \in Sem : y # s => queue'[y] = queue[y]
  BY <1>1, SemFacts
<1>4. \A q \in Thread : q # p => pc'[q] = pc[q] /\ on'[q] = on[q]
  BY <1>1, SemFacts
<1>5. on'[p] = s
  BY <1>1, SemFacts
<1>6. ASSUME NEW q \in Thread
      PROVE  q \in Granted(x)' <=> q \in Granted(x)
  <2>1. CASE q = p
    BY <1>1, <1>2, <1>5, <2>1 DEF Granted
  <2>2. CASE q # p
    BY <1>2, <1>3, <1>4, <2>2 DEF Granted
  <2> QED BY <2>1, <2>2
<1>7. Granted(x) \subseteq Thread /\ Granted(x)' \subseteq Thread
  BY DEF Granted
<1> QED BY <1>6, <1>7

(* ... until up() has chosen it ...                                        *)
LEMMA GrantedUp ==
  ASSUME SemInv, NEW s \in Sem, UpEffect(s), UNCHANGED <<on, pc>>
  PROVE  /\ queue[s] = <<>> => \A x \in Sem : Granted(x)' = Granted(x)
         /\ queue[s] # <<>> =>
              /\ Head(queue[s]) \in Thread \ Granted(s)
              /\ Head(queue[s]) \in ToSet(queue[s])
              /\ \A x \in Sem : Granted(x)' =
                   IF x = s THEN Granted(s) \cup {Head(queue[s])} ELSE Granted(x)
<1>1. CASE queue[s] = <<>>
  <2>1. queue' = queue
    BY <1>1, UpStep
  <2> QED BY <1>1, <2>1, GrantedKept
<1>2. CASE queue[s] # <<>>
  <2> DEFINE w == Head(queue[s])
  <2>1. /\ w \in ToSet(queue[s]) /\ queue' = [queue EXCEPT ![s] = Tail(@)]
        /\ ToSet(queue'[s]) = ToSet(queue[s]) \ {w}
    BY <1>2, UpStep
  <2> HIDE DEF w
  <2>2. w \in Thread /\ S.wait[w] = "KSEM" /\ on[w] = s
    BY <2>1 DEF SemInv, QueuedOnce, Queued
  <2>3. pc[w] \in InDown
    BY <2>2 DEF SemInv, Where
  <2>4. w \notin Granted(s)
    BY <2>1 DEF Granted
  <2>5. \A x \in Sem : x # s => queue'[x] = queue[x]
    BY <2>1, SemFacts
  <2>6. ASSUME NEW x \in Sem
        PROVE  Granted(x)' = IF x = s THEN Granted(s) \cup {w} ELSE Granted(x)
    <3>1. CASE x = s
      <4>1. \A q \in Thread : q \in Granted(s)' <=> q \in Granted(s) \/ q = w
        BY <2>1, <2>2, <2>3 DEF Granted, InDown
      <4>2. Granted(s) \subseteq Thread /\ Granted(s)' \subseteq Thread
        BY DEF Granted
      <4> QED BY <2>2, <3>1, <4>1, <4>2
    <3>2. CASE x # s
      BY <2>5, <3>2 DEF Granted
    <3> QED BY <3>1, <3>2
  <2> QED BY <1>2, <2>1, <2>2, <2>4, <2>6 DEF w
<1> QED BY <1>1, <1>2

(* ... and no longer once down() has returned.                             *)
LEMMA GrantedReturn ==
  ASSUME SemInv, NEW p \in Thread, DownReturns(p)
  PROVE  /\ on[p] \in Sem /\ p \in Granted(on[p])
         /\ \A x \in Sem : Granted(x)' =
              IF x = on[p] THEN Granted(x) \ {p} ELSE Granted(x)
<1>1. /\ UNCHANGED <<queue, on>> /\ pc[p] = "down2"
      /\ pc' = [pc EXCEPT ![p] = "run"] /\ p \notin ToSet(queue[on[p]])
  BY ReturnStep
<1>2. on[p] \in Sem /\ p \in Granted(on[p])
  BY <1>1, SemFacts DEF Granted
<1>3. \A q \in Thread : pc'[q] = IF q = p THEN "run" ELSE pc[q]
  BY <1>1, SemFacts
<1>4. ASSUME NEW x \in Sem
      PROVE  Granted(x)' = IF x = on[p] THEN Granted(x) \ {p} ELSE Granted(x)
  <2>1. \A q \in Thread : q \in Granted(x)' <=> q \in Granted(x) /\ q # p
    BY <1>1, <1>3 DEF Granted
  <2>2. Granted(x) \subseteq Thread /\ Granted(x)' \subseteq Thread
    BY DEF Granted
  <2>3. x # on[p] => p \notin Granted(x)
    BY DEF Granted
  <2> QED BY <2>1, <2>2, <2>3
<1> QED BY <1>2, <1>4

(* The units of a semaphore: those in its value and those handed over.     *)
Units == [s \in Sem |-> value[s] + Cardinality(Granted(s))]

(* Every other step leaves the units alone.                                *)
LEMMA UnitsKept ==
  ASSUME UNCHANGED value, \A s \in Sem : Granted(s)' = Granted(s)
  PROVE  UNCHANGED Units
  BY DEF Units

(* Every step is up() of one unit, the down() of one that is there, or     *)
(* changes no units.                                                       *)
LEMMA UnitStep ==
  ASSUME SemInv, [AnyStep]_vars
  PROVE  \/ UNCHANGED Units
         \/ \E s \in Sem :
              \/ Units' = [Units EXCEPT ![s] = @ + 1]
              \/ Units[s] > 0 /\ Units' = [Units EXCEPT ![s] = @ - 1]
<1> DEFINE C(s) == Cardinality(Granted(s))
<1>0. /\ \A s \in Sem : Units[s] = value[s] + C(s) /\ Units'[s] = value'[s] + C(s)'
      /\ DOMAIN Units = Sem /\ Units' = [s \in Sem |-> Units'[s]]
      /\ Units = [s \in Sem |-> Units[s]]
  BY DEF Units
<1>1. /\ \A s \in Sem : value[s] \in Nat
      /\ \A s \in Sem : C(s) \in Nat /\ IsFiniteSet(Granted(s))
  BY SemFacts, GrantedFinite
<1>2. ASSUME NEW p \in Thread, NEW s \in Sem, DownTakes(p, s)
      PROVE  Units[s] > 0 /\ Units' = [Units EXCEPT ![s] = @ - 1]
  <2>1. /\ value[s] > 0 /\ value' = [value EXCEPT ![s] = @ - 1]
        /\ UNCHANGED <<queue, on, pc>>
    BY <1>2 DEF DownTakes
  <2>2. \A x \in Sem : C(x)' = C(x)
    BY <2>1, GrantedKept
  <2>3. \A x \in Sem : value'[x] = IF x = s THEN value[s] - 1 ELSE value[x]
    BY <2>1, SemFacts
  <2> HIDE DEF C
  <2>4. \A x \in Sem : Units'[x] = IF x = s THEN Units[s] - 1 ELSE Units[x]
    BY <1>0, <1>1, <2>2, <2>3
  <2>5. Units[s] > 0
    BY <1>0, <1>1, <2>1
  <2>6. Units' = [Units EXCEPT ![s] = @ - 1]
    BY <1>0, <2>4, Zenon
  <2> QED BY <2>5, <2>6
<1>3. ASSUME NEW p \in Thread, NEW s \in Sem, DownWaits(p, s)
      PROVE  UNCHANGED Units
  BY <1>3, GrantedWait, UnitsKept DEF DownWaits
<1>4. ASSUME NEW p \in Thread, NEW s \in Sem, Up(p, s)
      PROVE  Units' = [Units EXCEPT ![s] = @ + 1]
  <2>0. UpEffect(s) /\ UNCHANGED <<on, pc>>
    BY <1>4 DEF Up
  <2>1. CASE queue[s] = <<>>
    <3>1. value' = [value EXCEPT ![s] = @ + 1]
      BY <2>0, <2>1, UpStep
    <3>2. \A x \in Sem : C(x)' = C(x)
      BY <2>0, <2>1, GrantedUp
    <3>3. \A x \in Sem : value'[x] = IF x = s THEN value[s] + 1 ELSE value[x]
      BY <3>1, SemFacts
    <3> HIDE DEF C
    <3>4. \A x \in Sem : Units'[x] = IF x = s THEN Units[s] + 1 ELSE Units[x]
      BY <1>0, <1>1, <3>2, <3>3
    <3> QED BY <1>0, <3>4, Zenon
  <2>2. CASE queue[s] # <<>>
    <3> DEFINE w == Head(queue[s])
    <3>1. value' = value
      BY <2>0, <2>2, UpStep
    <3>2. /\ w \notin Granted(s)
          /\ \A x \in Sem : Granted(x)' =
               IF x = s THEN Granted(s) \cup {w} ELSE Granted(x)
      BY <2>0, <2>2, GrantedUp
    <3> HIDE DEF w
    <3>3. Cardinality(Granted(s) \cup {w}) = Cardinality(Granted(s)) + 1
      BY <1>1, <3>2, FS_AddElement
    <3>4. \A x \in Sem : C(x)' = IF x = s THEN C(s) + 1 ELSE C(x)
      BY <3>2, <3>3
    <3> HIDE DEF C
    <3>5. \A x \in Sem : Units'[x] = IF x = s THEN Units[s] + 1 ELSE Units[x]
      BY <1>0, <1>1, <3>1, <3>4
    <3> QED BY <1>0, <3>5, Zenon
  <2> QED BY <2>1, <2>2
<1>5. ASSUME NEW p \in Thread, DownReturns(p)
      PROVE  \E s \in Sem :
               Units[s] > 0 /\ Units' = [Units EXCEPT ![s] = @ - 1]
  <2> DEFINE s == on[p]
  <2>1. /\ s \in Sem /\ p \in Granted(s) /\ value' = value
        /\ \A x \in Sem : Granted(x)' =
             IF x = s THEN Granted(x) \ {p} ELSE Granted(x)
    BY <1>5, GrantedReturn, ReturnStep
  <2> HIDE DEF s
  <2>2. Cardinality(Granted(s) \ {p}) = Cardinality(Granted(s)) - 1
    BY <1>1, <2>1, FS_RemoveElement
  <2>3. \A x \in Sem : C(x)' = IF x = s THEN C(s) - 1 ELSE C(x)
    BY <2>1, <2>2
  <2>4. C(s) > 0
    <3>1. IsFiniteSet(Granted(s) \ {p}) /\ Cardinality(Granted(s) \ {p}) \in Nat
      BY <1>1, <2>1, FS_RemoveElement, FS_CardinalityType
    <3> QED BY <1>1, <2>1, <2>2, <3>1
  <2> HIDE DEF C
  <2>5. \A x \in Sem : Units'[x] = IF x = s THEN Units[s] - 1 ELSE Units[x]
    BY <1>0, <1>1, <2>1, <2>3
  <2>6. Units[s] > 0
    BY <1>0, <1>1, <2>1, <2>4
  <2>7. Units' = [Units EXCEPT ![s] = @ - 1]
    BY <1>0, <2>1, <2>5, Zenon
  <2> QED BY <2>1, <2>6, <2>7
<1>6. ASSUME NEW p \in Thread, KernelStep(p), ~DownReturns(p)
      PROVE  UNCHANGED Units
  <2>1. UNCHANGED <<value, queue, on>>
    BY <1>6 DEF KernelStep, DownSchedule, SleepSchedule, SleepReturns,
                ExitSchedule
  <2>2. \A q \in Thread : pc'[q] \in InDown <=> pc[q] \in InDown
    BY <1>6, SemFacts DEF KernelStep, DownSchedule, SleepSchedule,
                SleepReturns, ExitSchedule, Goto, At, InDown
  <2> QED BY <2>1, <2>2, GrantedKept, UnitsKept
<1>7. ASSUME NEW p \in Thread, Sleep(p) \/ Exit(p) \/ Alarm(p)
      PROVE  UNCHANGED Units
  <2>1. UNCHANGED <<value, queue, on>>
    BY <1>7 DEF Sleep, Exit, Alarm
  <2>2. \A q \in Thread : pc'[q] \in InDown <=> pc[q] \in InDown
    BY <1>7, SemFacts DEF Sleep, Exit, Alarm, Goto, At, InDown
  <2> QED BY <2>1, <2>2, GrantedKept, UnitsKept
<1>8. ClockTick \/ IdleLoop \/ UNCHANGED vars => UNCHANGED Units
  <2>1. ClockTick \/ IdleLoop \/ UNCHANGED vars =>
          UNCHANGED <<value, queue, on, pc>>
    BY DEF ClockTick, IdleLoop, vars
  <2> QED BY <2>1, GrantedKept, UnitsKept
<1> QED BY <1>2, <1>3, <1>4, <1>5, <1>6, <1>7, <1>8
        DEF AnyStep, Down, Interrupt

(* up() and down(), split over wait queues, hand-off and schedule(),       *)
(* implement the atomic semaphore: a unit is neither lost nor given to two *)
(* threads, whatever the interleaving.                                     *)
THEOREM SemaphoreLinearizable == Spec => Linearizable
<1>1. Init => Count!Init
  <2> SUFFICES ASSUME Init PROVE Units = Value0
    BY DEF Count!Init, Units
  <2>1. value = Value0 /\ pc = [p \in Thread |-> "run"]
    BY DEF Init
  <2>2. \A s \in Sem : Granted(s) = {}
    BY <2>1 DEF Granted
  <2>3. \A s \in Sem : Cardinality(Granted(s)) = 0
    BY <2>2, FS_EmptySet
  <2>4. \A s \in Sem : value[s] + Cardinality(Granted(s)) = Value0[s]
    BY <2>1, <2>3, ValueAssumption
  <2> QED BY <2>4, ValueAssumption DEF Units
<1>2. ASSUME SemInv, [Next]_vars
      PROVE  [Count!Next]_Units
  <2>1. \/ UNCHANGED Units
        \/ \E s \in Sem :
              \/ Units' = [Units EXCEPT ![s] = @ + 1]
              \/ Units[s] > 0 /\ Units' = [Units EXCEPT ![s] = @ - 1]
    BY <1>2, NextIsAny, UnitStep
  <2> QED BY <2>1 DEF Count!Next, Count!V, Count!P, Units
<1>3. SemInv /\ [Next]_vars =>
        [Count!Next]_([s \in Sem |-> value[s] + Cardinality(Granted(s))])
  BY <1>2 DEF Units
<1> QED BY <1>1, <1>3, SemInvHolds, PTL DEF Spec, Linearizable, Count!Spec

-----------------------------------------------------------------------------
(* Who waits after a step of a semaphore.                                  *)

(* Thread p waits for a semaphore.                                         *)
Waits(p) == p \in ToSet(queue[on[p]])

(* A thread that waits is in down().                                       *)
LEMMA WaitsInDown ==
  ASSUME SemInv
  PROVE  \A p \in Thread : Waits(p) => pc[p] \in InDown
  BY SemFacts DEF SemInv, Queued, Where, Waits

(* down() makes the current thread wait ...                                *)
LEMMA WaitsDown ==
  ASSUME SemInv, NEW p \in Thread, NEW s \in Sem, DownWaits(p, s)
  PROVE  /\ ~Waits(p)
         /\ \A q \in Thread : Waits(q)' <=> Waits(q) \/ q = p
<1>1. /\ pc[p] = "run" /\ on' = [on EXCEPT ![p] = s]
      /\ queue' = [queue EXCEPT ![s] = Append(@, p)]
  BY DEF DownWaits, At
<1>2. ToSet(queue'[s]) = ToSet(queue[s]) \cup {p}
  BY WaitStep
<1>3. /\ \A x \in Sem : x # s => queue'[x] = queue[x]
      /\ \A q \in Thread : on'[q] = IF q = p THEN s ELSE on[q]
      /\ \A q \in Thread : on[q] \in Sem
  BY <1>1, SemFacts
<1>4. ~Waits(p)
  BY <1>1, WaitsInDown DEF InDown
<1> QED BY <1>2, <1>3, <1>4 DEF Waits

(* ... and up() lets the first thread of the queue go on.                  *)
LEMMA WaitsUp ==
  ASSUME SemInv, NEW s \in Sem, UpEffect(s), UNCHANGED <<on, pc>>
  PROVE  /\ queue[s] = <<>> =>
              /\ value' = [value EXCEPT ![s] = @ + 1]
              /\ \A q \in Thread : Waits(q)' <=> Waits(q)
         /\ queue[s] # <<>> =>
              /\ value' = value
              /\ \E w \in Thread :
                   /\ Waits(w) /\ on[w] = s
                   /\ \A q \in Thread : Waits(q)' <=> Waits(q) /\ q # w
<1>1. CASE queue[s] = <<>>
  BY <1>1, UpStep DEF Waits
<1>2. CASE queue[s] # <<>>
  <2> DEFINE w == Head(queue[s])
  <2>1. /\ w \in ToSet(queue[s]) /\ queue' = [queue EXCEPT ![s] = Tail(@)]
        /\ ToSet(queue'[s]) = ToSet(queue[s]) \ {w} /\ value' = value
    BY <1>2, UpStep
  <2> HIDE DEF w
  <2>2. w \in Thread /\ on[w] = s
    BY <2>1 DEF SemInv, QueuedOnce, Queued
  <2>3. /\ \A x \in Sem : x # s => queue'[x] = queue[x]
        /\ \A q \in Thread : on[q] \in Sem
    BY <2>1, SemFacts
  <2>4. \A q \in Thread : Waits(q)' <=> Waits(q) /\ q # w
    BY <2>1, <2>2, <2>3 DEF Waits
  <2>5. Waits(w)
    BY <2>1, <2>2 DEF Waits
  <2> QED BY <1>2, <2>1, <2>2, <2>4, <2>5
<1> QED BY <1>1, <1>2

(* The queue of a semaphore that somebody waits for is not empty.          *)
LEMMA QueueNotEmpty ==
  ASSUME NEW q \in Thread, Waits(q)
  PROVE  queue[on[q]] # <<>>
  BY DEF Waits, ToSet

-----------------------------------------------------------------------------
(* The table of the philosophers.                                          *)

(* No two neighbours are EATING.                                           *)
NotBoth(e) ==
  \A i \in Phil : e[i] = "EATING" => e[LEFT(i)] # "EATING" /\ e[RIGHT(i)] # "EATING"

(* A hungry philosopher has a neighbour that eats, or the one on its left  *)
(* is about to look after it.                                              *)
Served(e, l) ==
  \A h \in Phil : e[h] = "HUNGRY" =>
    e[LEFT(h)] = "EATING" \/ e[RIGHT(h)] = "EATING" \/ l[LEFT(h)] = "right"

(* Division with a remainder.                                              *)
LEMMA ModIs ==
  ASSUME NEW n \in Nat \ {0}, NEW x \in Nat, x < n
  PROVE  x % n = x /\ (x + n) % n = x
  OBVIOUS

(* The seats around the table.                                             *)
LEMMA Neighbours ==
  ASSUME AtLeastTwo
  PROVE  \A i \in Phil :
           /\ LEFT(i) \in Phil /\ RIGHT(i) \in Phil
           /\ LEFT(i) # i /\ RIGHT(i) # i
           /\ LEFT(RIGHT(i)) = i /\ RIGHT(LEFT(i)) = i
<1>1. N \in Nat \ {0, 1}
  BY DEF AtLeastTwo
<1>2. \A x \in 0..(N - 1) : x % N = x /\ (x + N) % N = x
  BY <1>1, ModIs
<1>3. N % N = 0
  BY <1>1, <1>2
<1>4. ASSUME NEW i \in Phil
      PROVE  /\ RIGHT(i) = IF i = N - 1 THEN 0 ELSE i + 1
             /\ LEFT(i) = IF i = 0 THEN N - 1 ELSE i - 1
  <2>1. CASE i = N - 1
    <3>1. i + 1 = N /\ i # 0 /\ i - 1 \in 0..(N - 1) /\ i - 1 + N = (i - 1) + N
      BY <1>1, <2>1
    <3> QED BY <1>1, <1>2, <1>3, <2>1, <3>1 DEF RIGHT, LEFT
  <2>2. CASE i = 0
    <3>1. i + 1 \in 0..(N - 1) /\ i - 1 + N = N - 1 /\ N - 1 \in 0..(N - 1)
      BY <1>1, <2>2
    <3> QED BY <1>1, <1>2, <2>2, <3>1 DEF RIGHT, LEFT
  <2>3. CASE i # 0 /\ i # N - 1
    <3>1. i + 1 \in 0..(N - 1) /\ i - 1 \in 0..(N - 1)
      BY <1>1, <2>3 DEF Phil
    <3> QED BY <1>1, <1>2, <2>3, <3>1 DEF RIGHT, LEFT
  <2> QED BY <2>1, <2>2, <2>3
<1>5. \A i \in Phil : LEFT(i) \in Phil /\ RIGHT(i) \in Phil /\ LEFT(i) # i /\ RIGHT(i) # i
  BY <1>1, <1>4 DEF Phil
<1>6. \A i \in Phil : LEFT(RIGHT(i)) = i /\ RIGHT(LEFT(i)) = i
  BY <1>1, <1>4, <1>5 DEF Phil
<1> QED BY <1>5, <1>6

(* phi_test_condvar lets no two neighbours eat.                            *)
LEMMA TestApart ==
  ASSUME AtLeastTwo, NEW e \in [Phil -> {"THINKING", "HUNGRY", "EATING"}], NotBoth(e),
         NEW j \in Phil, CanEat(e, j), NEW f, f = [e EXCEPT ![j] = "EATING"]
  PROVE  NotBoth(f) /\ f \in [Phil -> {"THINKING", "HUNGRY", "EATING"}]
<1>1. \A i \in Phil : f[i] = IF i = j THEN "EATING" ELSE e[i]
  OBVIOUS
<1> SUFFICES ASSUME NEW i \in Phil, f[i] = "EATING"
             PROVE  f[LEFT(i)] # "EATING" /\ f[RIGHT(i)] # "EATING"
  BY DEF NotBoth
<1>2. /\ LEFT(i) \in Phil /\ RIGHT(i) \in Phil /\ LEFT(i) # i /\ RIGHT(i) # i
      /\ LEFT(RIGHT(i)) = i /\ RIGHT(LEFT(i)) = i
  BY Neighbours
<1>3. CASE i = j
  BY <1>1, <1>2, <1>3 DEF CanEat
<1>4. CASE i # j
  <2>1. e[i] = "EATING"
    BY <1>1, <1>4
  <2>2. LEFT(i) # j /\ RIGHT(i) # j
    BY <1>2, <2>1 DEF CanEat
  <2>3. e[LEFT(i)] # "EATING" /\ e[RIGHT(i)] # "EATING"
    BY <2>1 DEF NotBoth
  <2> QED BY <1>1, <1>2, <2>2, <2>3
<1> QED BY <1>3, <1>4

(* phi_test_condvar of j, when the states are e.                           *)
Tested(e, j) == IF CanEat(e, j) THEN [e EXCEPT ![j] = "EATING"] ELSE e

(* It looks after j.                                                       *)
LEMMA TestServes ==
  ASSUME AtLeastTwo, NEW e \in [Phil -> {"THINKING", "HUNGRY", "EATING"}], NEW l, NEW j \in Phil,
         \A h \in Phil \ {j} : e[h] = "HUNGRY" =>
           e[LEFT(h)] = "EATING" \/ e[RIGHT(h)] = "EATING" \/ l[LEFT(h)] = "right"
  PROVE  Served(Tested(e, j), l)
<1> DEFINE f == Tested(e, j)
<1>1. \A i \in Phil : /\ f[i] # e[i] => f[i] = "EATING"
                      /\ i = j /\ f[i] = "HUNGRY" => e[i] = "HUNGRY" /\ ~CanEat(e, j)
  BY DEF Tested
<1> HIDE DEF f
<1>2. \A i \in Phil : e[i] = "EATING" => f[i] = "EATING"
  BY <1>1
<1> SUFFICES ASSUME NEW h \in Phil, f[h] = "HUNGRY"
             PROVE  f[LEFT(h)] = "EATING" \/ f[RIGHT(h)] = "EATING" \/ l[LEFT(h)] = "right"
  BY DEF Served, f
<1>3. LEFT(h) \in Phil /\ RIGHT(h) \in Phil
  BY Neighbours
<1>4. e[h] = "HUNGRY"
  BY <1>1
<1>5. CASE h = j
  <2>1. ~CanEat(e, h)
    BY <1>1, <1>5
  <2>2. e[LEFT(h)] = "EATING" \/ e[RIGHT(h)] = "EATING"
    BY <1>4, <2>1 DEF CanEat
  <2> QED BY <1>2, <1>3, <2>2
<1>6. CASE h # j
  BY <1>2, <1>3, <1>4, <1>6
<1> QED BY <1>5, <1>6

-----------------------------------------------------------------------------
(* How the threads of the philosophers sleep and end.                      *)

(* Threads sleep in do_sleep and in down() only, and a thread that has     *)
(* ended makes no more steps of its own.                                   *)
Alive ==
  \A p \in Thread :
    /\ S.state[p] \in {"RUNNABLE", "SLEEPING", "ZOMBIE"}
    /\ S.wait[p] \in {"NONE", "TIMER", "KSEM"}
    /\ S.state[p] = "ZOMBIE" => pc[p] \in {"exit1", "dead"}

(* What may happen to the state of a thread: nothing; it blocks; it is     *)
(* woken; or it ends.                                                      *)
Still == S'.state = S.state /\ S'.wait = S.wait

Blocks(p, w) ==
  /\ S'.state = [S.state EXCEPT ![p] = "SLEEPING"] /\ S'.wait = [S.wait EXCEPT ![p] = w]

Woken(p) ==
  /\ S'.state = [S.state EXCEPT ![p] = "RUNNABLE"] /\ S'.wait = [S.wait EXCEPT ![p] = "NONE"]

Dies(p) == S'.state = [S.state EXCEPT ![p] = "ZOMBIE"] /\ S'.wait = S.wait

(* A call of a thread.                                                     *)
LEMMA CallKind ==
  ASSUME SemInv, NEW p \in Thread, NEW s \in Sem,
         Down(p, s) \/ Up(p, s) \/ Sleep(p) \/ Exit(p)
  PROVE  /\ pc[p] = "run"
         /\ \/ Still /\ pc' = pc
            \/ \E w \in {"TIMER", "KSEM"} : Blocks(p, w)
               /\ \E l \in {"down1", "sleep1"} : pc' = [pc EXCEPT ![p] = l]
            \/ \E w \in Thread : Woken(w) /\ pc' = pc
            \/ Exit(p) /\ Dies(p) /\ pc' = [pc EXCEPT ![p] = "exit1"]
<1>1. SchedOK(S) /\ p # Idle /\ p \in Proc
  BY SemFacts
<1>2. S.cur = p /\ pc[p] = "run"
  BY DEF Down, DownTakes, DownWaits, Up, Sleep, Exit, At
<1>3. CASE DownTakes(p, s)
  BY <1>2, <1>3 DEF DownTakes, Still
<1>4. CASE DownWaits(p, s)
  <2>1. S' = Block(S, "KSEM") /\ pc' = [pc EXCEPT ![p] = "down1"]
    BY <1>4 DEF DownWaits, Goto
  <2>2. Blocks(p, "KSEM")
    BY <1>1, <1>2, <2>1, BlockOK DEF Blocks, WaitState
  <2> QED BY <1>2, <2>1, <2>2
<1>5. CASE Sleep(p)
  <2>1. S' = Block(S, "TIMER") /\ pc' = [pc EXCEPT ![p] = "sleep1"]
    BY <1>5 DEF Sleep, Goto
  <2>2. Blocks(p, "TIMER")
    BY <1>1, <1>2, <2>1, BlockOK DEF Blocks, WaitState
  <2> QED BY <1>2, <2>1, <2>2
<1>6. CASE Up(p, s)
  <2>1. CASE queue[s] = <<>>
    BY <1>2, <1>6, <2>1 DEF Up, UpEffect, Still
  <2>2. CASE queue[s] # <<>>
    <3>1. PICK w, b : /\ w = Head(queue[s]) /\ b = (S.wait[w] = "KSEM")
                      /\ S' = WakeupProc(KAssert(S, b), w) /\ pc' = pc
      BY <1>6, <2>2 DEF Up, UpEffect
    <3>2. UpEffect(s) /\ UNCHANGED <<on, pc>>
      BY <1>6 DEF Up
    <3>3. w \in ToSet(queue[s])
      BY <2>2, <3>1, <3>2, UpStep
    <3>4. w \in Thread /\ w \in Proc
      BY <3>3, SemFacts DEF SemInv, QueuedOnce
    <3>5. b \in BOOLEAN
      BY <3>1
    <3>6. PICK T : T = KAssert(S, b)
      OBVIOUS
    <3>7. SchedOK(T) /\ T.state = S.state /\ T.wait = S.wait
      BY <1>1, <3>5, <3>6, KAssertOK
    <3>8. S' = WakeupProc(T, w)
      BY <3>1, <3>6
    <3>9. Woken(w)
      BY <3>4, <3>7, <3>8, WakeupOK DEF Woken
    <3> QED BY <1>2, <3>1, <3>4, <3>9
  <2> QED BY <2>1, <2>2
<1>7. CASE Exit(p)
  <2>1. S' = [S EXCEPT !.state[p] = "ZOMBIE"] /\ pc' = [pc EXCEPT ![p] = "exit1"]
    BY <1>7 DEF Exit, Goto
  <2>2. Dies(p)
    BY <1>1, <2>1 DEF Dies, SchedOK, SchedType
  <2> QED BY <1>2, <1>7, <2>1, <2>2
<1> QED BY <1>3, <1>4, <1>5, <1>6, <1>7 DEF Down

(* A step that no thread makes in its own code.                            *)
LEMMA KernelKind ==
  ASSUME SemInv,
         \/ \E p \in Thread : KernelStep(p) \/ Alarm(p)
         \/ IdleLoop \/ ClockTick \/ UNCHANGED vars
  PROVE  \/ \E w \in Thread : Woken(w) /\ pc' = pc
         \/ Still /\ pc' = pc
         \/ /\ Still
            /\ \E p \in Thread : \E l, m :
                 /\ pc[p] = l /\ pc' = [pc EXCEPT ![p] = m]
                 /\ <<l, m>> \in {<<"down1", "down2">>, <<"down2", "run">>,
                                  <<"sleep1", "sleep2">>, <<"sleep2", "run">>,
                                  <<"exit1", "dead">>}
<1>1. SchedOK(S) /\ Thread \subseteq Proc
  BY SemFacts
<1>2. S' = Schedule(S) => Still
  BY <1>1, ScheduleOK DEF Still
<1>3. ASSUME NEW p \in Thread, KernelStep(p)
      PROVE  /\ Still
             /\ \E l, m : /\ pc[p] = l /\ pc' = [pc EXCEPT ![p] = m]
                          /\ <<l, m>> \in {<<"down1", "down2">>, <<"down2", "run">>,
                                           <<"sleep1", "sleep2">>, <<"sleep2", "run">>,
                                           <<"exit1", "dead">>}
  <2>1. Still
    <3>1. CASE DownReturns(p)
      BY <3>1, ReturnStep DEF Still
    <3> QED BY <1>2, <1>3, <3>1 DEF KernelStep, DownSchedule, SleepSchedule, SleepReturns,
                                    ExitSchedule, Still
  <2>2. \E l, m : /\ pc[p] = l /\ pc' = [pc EXCEPT ![p] = m]
                  /\ <<l, m>> \in {<<"down1", "down2">>, <<"down2", "run">>,
                                   <<"sleep1", "sleep2">>, <<"sleep2", "run">>,
                                   <<"exit1", "dead">>}
    BY <1>3 DEF KernelStep, DownSchedule, DownReturns, SleepSchedule, SleepReturns,
         ExitSchedule, At, Goto
  <2> QED BY <2>1, <2>2
<1>4. ASSUME NEW p \in Thread, Alarm(p) PROVE Woken(p) /\ pc' = pc
  <2>1. S' = WakeupProc(S, p) /\ pc' = pc /\ p \in Proc
    BY <1>1, <1>4 DEF Alarm
  <2> QED BY <1>1, <2>1, WakeupOK DEF Woken
<1>5. CASE IdleLoop \/ ClockTick \/ UNCHANGED vars
  <2>1. S' = ProcTick(S) => Still
    BY <1>1, ProcTickOK DEF Still
  <2> QED BY <1>2, <1>5, <2>1 DEF IdleLoop, ClockTick, vars, Still
<1> QED BY <1>3, <1>4, <1>5

(* Calls(p): philosopher p uses a semaphore or sleeps.                     *)
Calls(p) == \E s \in Sem : Down(p, s) \/ Up(p, s) \/ Sleep(p)

Kernels ==
  \/ \E p \in Thread : KernelStep(p) \/ Alarm(p)
  \/ IdleLoop \/ ClockTick \/ UNCHANGED vars

(* Only philosophers that have quit have ended.                            *)
Over == \A i \in Phil : S.state[i] = "ZOMBIE" => step[i] = "quit"

(* Whatever the philosophers do, this stays so.                            *)
LEMMA AliveKept ==
  ASSUME SemInv, Thread = Phil, Alive, Over,
         \/ \E i \in Phil : Exit(i) /\ step'[i] = "quit"
         \/ Kernels \/ \E i \in Phil : Calls(i),
         \A q \in Phil : step'[q] # step[q] => pc[q] = "run"
  PROVE  Alive' /\ Over'
<1>1. /\ Thread \subseteq Proc
      /\ S.state \in [Proc -> ProcState] /\ S.wait \in [Proc -> WaitState]
      /\ pc \in [Thread -> {"run", "down1", "down2", "sleep1", "sleep2", "exit1", "dead"}]
  BY SemFacts
<1>2. Sem # {}
  BY SemAssumption
<1>3. \A q \in Phil : S.state[q] = "ZOMBIE" => step'[q] = "quit"
  BY <1>1 DEF Over, Alive
<1>4. CASE Kernels
  <2>1. CASE \E w \in Thread : Woken(w) /\ pc' = pc
    BY <1>1, <1>3, <2>1 DEF Woken, Alive, Over
  <2>2. CASE Still /\ pc' = pc
    BY <1>1, <1>3, <2>2 DEF Still, Alive, Over
  <2>3. ASSUME Still, NEW p \in Thread, NEW l, NEW m,
               pc[p] = l, pc' = [pc EXCEPT ![p] = m],
               <<l, m>> \in {<<"down1", "down2">>, <<"down2", "run">>,
                             <<"sleep1", "sleep2">>, <<"sleep2", "run">>,
                             <<"exit1", "dead">>}
        PROVE  Alive' /\ Over'
    <3>1. \A q \in Thread : pc'[q] = IF q = p THEN m ELSE pc[q]
      BY <1>1, <2>3
    <3> QED BY <1>1, <1>3, <2>3, <3>1 DEF Still, Alive, Over
  <2> QED BY <1>1, <1>4, <2>1, <2>2, <2>3, KernelKind DEF Kernels
<1>5. ASSUME NEW p \in Phil, NEW s \in Sem,
             (Exit(p) /\ step'[p] = "quit") \/ Down(p, s) \/ Up(p, s) \/ Sleep(p)
      PROVE  Alive' /\ Over'
  <2>1. Down(p, s) \/ Up(p, s) \/ Sleep(p) \/ Exit(p)
    BY <1>5
  <2>2. CASE \E w \in Thread : Woken(w) /\ pc' = pc
    BY <1>1, <1>3, <2>2 DEF Woken, Alive, Over
  <2>3. CASE Still /\ pc' = pc
    BY <1>1, <1>3, <2>3 DEF Still, Alive, Over
  <2>4. ASSUME NEW w \in {"TIMER", "KSEM"}, Blocks(p, w),
               NEW l \in {"down1", "sleep1"}, pc' = [pc EXCEPT ![p] = l]
        PROVE  Alive' /\ Over'
    BY <1>1, <1>3, <2>4 DEF Blocks, Alive, Over
  <2>5. CASE Exit(p) /\ Dies(p) /\ pc' = [pc EXCEPT ![p] = "exit1"]
    <3>1. ~Down(p, s) /\ ~Up(p, s) /\ ~Sleep(p)
      BY <1>1, <2>5 DEF Down, DownTakes, DownWaits, Up, Sleep, Exit, At, Goto
    <3>2. step'[p] = "quit"
      BY <1>5, <3>1
    <3> QED BY <1>1, <1>3, <2>5, <3>2 DEF Dies, Alive, Over
  <2> QED BY <1>1, <2>1, <2>2, <2>3, <2>4, <2>5, CallKind
<1> QED BY <1>2, <1>4, <1>5 DEF Calls

(* The threads have been created and none has run.                         *)
LEMMA AliveStart ==
  ASSUME Thread = Phil, Init
  PROVE  Alive /\ Over
<1>1. S.state = [p \in Proc |-> "RUNNABLE"] /\ S.wait = [p \in Proc |-> "NONE"]
  BY DEF Init
<1>2. Thread \subseteq Proc
  BY DEF Thread
<1> QED BY <1>1, <1>2 DEF Alive, Over

(* If nobody can go on, whoever has not ended waits for a semaphore.       *)
LEMMA AllWait ==
  ASSUME SemInv, Thread = Phil, Alive,
         \A i \in Phil : S.state[i] # "RUNNABLE" /\ S.wait[i] # "TIMER"
  PROVE  \A i \in Phil : S.state[i] # "ZOMBIE" => Waits(i)
<1> SUFFICES ASSUME NEW i \in Phil, S.state[i] # "ZOMBIE"
             PROVE  Waits(i)
  OBVIOUS
<1>1. S.state[i] = "SLEEPING" /\ i \in Proc
  BY SemFacts DEF Alive
<1>2. S.wait[i] = "KSEM"
  BY <1>1, SemFacts DEF Alive
<1>3. on[i] \in Sem
  BY SemFacts
<1> QED BY <1>2, <1>3 DEF SemInv, Queued, Waits

-----------------------------------------------------------------------------
(* The philosophers that use semaphores.                                   *)

(* What the code of philosopher i, state_sema[i] and the private semaphore *)
(* of i say of one another: l is its step, e its state, v the value of the *)
(* semaphore, and w says that it waits.  Who has been told to eat has a    *)
(* unit, or has taken it.                                                  *)
SitsSema(l, e, v, w) ==
  \/ l \in {"think", "take", "hungry", "right", "done", "quit"}
     /\ e = "THINKING" /\ v = 0
  \/ l \in {"leave", "wait"} /\ e = "HUNGRY" /\ v = 0
  \/ l \in {"leave", "wait"} /\ e = "EATING" /\ v = 1
  \/ l = "eat" /\ w /\ e = "HUNGRY" /\ v = 0
  \/ l = "eat" /\ ~w /\ e = "EATING" /\ v = 0
  \/ l \in {"put", "left"} /\ e = "EATING" /\ v = 0

SeatedSema(i) == SitsSema(step[i], state_sema[i], value[i], Waits(i))

(* Where philosopher i can be while it is in a function of the kernel: p   *)
(* is its place there, s the semaphore, l its step.                        *)
InKernel(i, p, s, l) ==
  /\ p \in InDown => \/ l \in {"hungry", "left"} /\ s = mutex
                     \/ l = "eat" /\ s = i
  /\ p \notin InDown \cup {"run"} => l \in {"take", "put", "quit"}

PlaceSema(i) == InKernel(i, pc[i], on[i], step[i])

(* The philosophers between down(&mutex) and up(&mutex).                   *)
Critical ==
  {i \in Phil : \/ step[i] \in {"leave", "right", "done"}
                \/ step[i] \in {"hungry", "left"} /\ ~Waits(i)}

(* The mutex is free, or one of them is there.                             *)
Locked ==
  \/ value[mutex] = 1 /\ Critical = {}
  \/ value[mutex] = 0 /\ \E p \in Phil : Critical = {p}

SemaTypes ==
  /\ state_sema \in [Phil -> {"THINKING", "HUNGRY", "EATING"}]
  /\ step \in [Phil -> {"think", "take", "hungry", "leave", "wait", "eat", "put",
                        "left", "right", "done", "quit"}]

(* The inductive invariant.                                                *)
SemaInv ==
  /\ SemInv /\ SemaTypes
  /\ \A i \in Phil : SeatedSema(i) /\ PlaceSema(i)
  /\ Locked
  /\ NotBoth(state_sema) /\ Served(state_sema, step)

-----------------------------------------------------------------------------

(* What the steps need of the variables.                                   *)
LEMMA SemaFacts ==
  ASSUME SemaSeats, SemaInv
  PROVE  /\ SemInv /\ AtLeastTwo /\ Thread = Phil /\ Sem = Phil \cup {mutex}
         /\ mutex \notin Phil /\ mutex \in Sem /\ Phil \subseteq Sem
         /\ step \in [Phil -> {"think", "take", "hungry", "leave", "wait", "eat", "put",
                               "left", "right", "done", "quit"}]
         /\ state_sema \in [Phil -> {"THINKING", "HUNGRY", "EATING"}]
         /\ value \in [Sem -> Nat] /\ on \in [Phil -> Sem]
         /\ pc \in [Phil -> {"run", "down1", "down2", "sleep1", "sleep2", "exit1", "dead"}]
         /\ \A i \in Phil : SeatedSema(i) /\ PlaceSema(i)
         /\ \A i \in Phil : Waits(i) => pc[i] \in InDown
<1>1. /\ SemInv /\ AtLeastTwo /\ Thread = Phil /\ Sem = Phil \cup {mutex}
      /\ mutex \notin Phil
  BY DEF SemaSeats, SemaInv
<1>2. /\ value \in [Sem -> Nat] /\ on \in [Phil -> Sem]
      /\ pc \in [Phil -> {"run", "down1", "down2", "sleep1", "sleep2", "exit1", "dead"}]
  BY <1>1, SemFacts
<1>3. \A i \in Phil : Waits(i) => pc[i] \in InDown
  BY <1>1, WaitsInDown
<1> QED BY <1>1, <1>2, <1>3 DEF SemaInv, SemaTypes

(* Only philosopher i waits for semaphore i.                               *)
LEMMA WaitsForIt ==
  ASSUME SemaSeats, SemaInv, NEW w \in Phil, Waits(w)
  PROVE  /\ on[w] = mutex => step[w] \in {"hungry", "left"}
         /\ on[w] # mutex => on[w] = w /\ step[w] = "eat"
         /\ step[w] = "eat" => on[w] = w
<1>1. pc[w] \in InDown /\ PlaceSema(w) /\ mutex \notin Phil
  BY SemaFacts
<1> QED BY <1>1 DEF PlaceSema, InKernel

(* A philosopher in its own code does not wait, and it is the one in the   *)
(* critical section if its step is there.                                  *)
LEMMA CriticalIs ==
  ASSUME SemaSeats, SemaInv, NEW i \in Phil, pc[i] = "run"
  PROVE  /\ ~Waits(i)
         /\ step[i] \in {"hungry", "leave", "left", "right", "done"} =>
              Critical = {i} /\ value[mutex] = 0
<1>1. ~Waits(i)
  BY SemaFacts DEF InDown
<1>2. ASSUME step[i] \in {"hungry", "leave", "left", "right", "done"}
      PROVE  Critical = {i} /\ value[mutex] = 0
  <2>1. i \in Critical
    BY <1>1, <1>2 DEF Critical
  <2> QED BY <2>1 DEF SemaInv, Locked
<1> QED BY <1>1, <1>2

(* Only philosophers in A move, and no other begins or ceases to wait for  *)
(* its private semaphore.                                                  *)
OnlySema(A) ==
  \A q \in Phil \ A :
    /\ step'[q] = step[q] /\ pc'[q] = pc[q] /\ on'[q] = on[q]
    /\ state_sema'[q] = state_sema[q] /\ value'[q] = value[q]
    /\ step[q] = "eat" => (Waits(q)' <=> Waits(q))

(* The parts of a step put together.                                       *)
LEMMA SemaAssemble ==
  ASSUME SemaSeats, SemaInv, NEW A, OnlySema(A),
         \A i \in Phil \cap A : SeatedSema(i)' /\ PlaceSema(i)',
         SemInv', SemaTypes', Locked', NotBoth(state_sema'), Served(state_sema', step')
  PROVE  SemaInv'
<1>1. ASSUME NEW q \in Phil \ A PROVE SeatedSema(q)' /\ PlaceSema(q)'
  <2>1. SeatedSema(q) /\ PlaceSema(q)
    BY SemaFacts
  <2>2. SeatedSema(q)'
    BY <2>1 DEF OnlySema, SeatedSema, SitsSema
  <2>3. PlaceSema(q)'
    BY <2>1 DEF OnlySema, PlaceSema, InKernel
  <2> QED BY <2>2, <2>3
<1> QED BY <1>1 DEF SemaInv

(* A step that changes no state and leaves no debt.                        *)
LEMMA SameSema ==
  ASSUME SemaSeats, SemaInv, state_sema' = state_sema, NEW i \in Phil, step[i] # "right",
         NEW m \in {"think", "take", "hungry", "leave", "wait", "eat", "put",
                    "left", "right", "done", "quit"},
         step' = [step EXCEPT ![i] = m]
  PROVE  SemaTypes' /\ NotBoth(state_sema') /\ Served(state_sema', step')
<1>1. SemaTypes'
  BY SemaFacts DEF SemaTypes
<1>2. \A q \in Phil : step[q] = "right" => step'[q] = "right"
  BY SemaFacts
<1>3. \A h \in Phil : LEFT(h) \in Phil
  BY SemaFacts, Neighbours
<1> QED BY <1>1, <1>2, <1>3 DEF SemaInv, NotBoth, Served

(* down(&mutex) *)
LEMMA SemaEnters ==
  ASSUME SemaSeats, SemaInv, SemInv', NEW i \in Phil, Down(i, mutex), NEW l, NEW m,
         <<l, m>> \in {<<"take", "hungry">>, <<"put", "left">>}, Step(i, l, m),
         state_sema' = state_sema
  PROVE  SemaInv'
<1>1. /\ pc[i] = "run" /\ step[i] = l /\ step' = [step EXCEPT ![i] = m]
      /\ \A q \in Phil : step'[q] = IF q = i THEN m ELSE step[q]
  BY SemaFacts DEF Down, DownTakes, DownWaits, At, Step
<1>2. SemaTypes' /\ NotBoth(state_sema') /\ Served(state_sema', step')
  BY <1>1, SameSema
<1>3. ~Waits(i) /\ SeatedSema(i) /\ i \in Thread /\ mutex \in Sem
  BY <1>1, CriticalIs, SemaFacts
<1>4. CASE DownTakes(i, mutex)
  <2>1. /\ value[mutex] > 0 /\ value' = [value EXCEPT ![mutex] = @ - 1]
        /\ pc' = pc /\ on' = on /\ queue' = queue
    BY <1>4 DEF DownTakes
  <2>2. \A q \in Phil : Waits(q)' <=> Waits(q)
    BY <2>1 DEF Waits
  <2>3. value[mutex] = 1 /\ Critical = {}
    BY <2>1 DEF SemaInv, Locked
  <2>4. value'[mutex] = 0 /\ \A q \in Phil : value'[q] = value[q]
    BY <2>1, <2>3, SemaFacts
  <2>5. Critical' = {i}
    BY <1>1, <1>3, <2>2, <2>3 DEF Critical
  <2>6. SeatedSema(i)' /\ PlaceSema(i)'
    <3>1. SeatedSema(i)'
      BY <1>1, <1>3, <2>4 DEF SeatedSema, SitsSema
    <3>2. PlaceSema(i)'
      BY <1>1, <2>1 DEF PlaceSema, InKernel, InDown
    <3> QED BY <3>1, <3>2
  <2>7. Locked'
    BY <2>4, <2>5 DEF Locked
  <2>8. OnlySema({i})
    BY <1>1, <2>1, <2>2, <2>4 DEF OnlySema
  <2> QED BY <1>2, <2>6, <2>7, <2>8, SemaAssemble
<1>5. CASE DownWaits(i, mutex)
  <2>1. /\ value' = value /\ pc' = [pc EXCEPT ![i] = "down1"]
        /\ on' = [on EXCEPT ![i] = mutex]
    BY <1>5 DEF DownWaits, Goto
  <2>2. /\ pc'[i] = "down1" /\ on'[i] = mutex
        /\ \A q \in Phil \ {i} : pc'[q] = pc[q] /\ on'[q] = on[q]
    BY <2>1, SemaFacts
  <2>3. \A q \in Phil : Waits(q)' <=> Waits(q) \/ q = i
    BY <1>3, <1>5, SemaFacts, WaitsDown
  <2>4. Critical' = Critical
    BY <1>1, <2>3 DEF Critical
  <2>5. Locked'
    BY <2>1, <2>4 DEF SemaInv, Locked
  <2>6. SeatedSema(i)'
    BY <1>1, <1>3, <2>1 DEF SeatedSema, SitsSema
  <2>7. PlaceSema(i)'
    BY <1>1, <2>2 DEF PlaceSema, InKernel, InDown
  <2>8. OnlySema({i})
    BY <1>1, <2>1, <2>2, <2>3 DEF OnlySema
  <2> QED BY <1>2, <2>5, <2>6, <2>7, <2>8, SemaAssemble
<1> QED BY <1>4, <1>5 DEF Down

(* up(&mutex): the critical section is empty, or the first that waits is   *)
(* in it.                                                                  *)
LEMMA SemaLeaves ==
  ASSUME SemaSeats, SemaInv, SemInv', NEW i \in Phil, Up(i, mutex), NEW l, NEW m,
         <<l, m>> \in {<<"leave", "wait">>, <<"done", "think">>, <<"done", "quit">>},
         Step(i, l, m), state_sema' = state_sema
  PROVE  SemaInv'
<1>1. /\ pc[i] = "run" /\ step[i] = l /\ step' = [step EXCEPT ![i] = m]
      /\ \A q \in Phil : step'[q] = IF q = i THEN m ELSE step[q]
      /\ UpEffect(mutex) /\ on' = on /\ pc' = pc
  BY SemaFacts DEF Up, At, Step
<1>2. SemaTypes' /\ NotBoth(state_sema') /\ Served(state_sema', step')
  BY <1>1, SameSema
<1>3. ~Waits(i) /\ SeatedSema(i) /\ Thread = Phil /\ mutex \in Sem
  BY <1>1, CriticalIs, SemaFacts
<1>4. Critical = {i} /\ value[mutex] = 0
  BY <1>1, CriticalIs
<1>5. PlaceSema(i)'
  BY <1>1 DEF PlaceSema, InKernel, InDown
<1>6. CASE queue[mutex] = <<>>
  <2>1. /\ value' = [value EXCEPT ![mutex] = @ + 1]
        /\ \A q \in Phil : Waits(q)' <=> Waits(q)
    BY <1>1, <1>3, <1>6, SemaFacts, WaitsUp
  <2>2. value'[mutex] = 1 /\ \A q \in Phil : value'[q] = value[q]
    BY <1>4, <2>1, SemaFacts
  <2>3. Critical' = {}
    BY <1>1, <1>4, <2>1 DEF Critical
  <2>4. SeatedSema(i)'
    BY <1>1, <1>3, <2>2 DEF SeatedSema, SitsSema
  <2>5. Locked'
    BY <2>2, <2>3 DEF Locked
  <2>6. OnlySema({i})
    BY <1>1, <2>1, <2>2 DEF OnlySema
  <2> QED BY <1>2, <1>5, <2>4, <2>5, <2>6, SemaAssemble
<1>7. CASE queue[mutex] # <<>>
  <2>1. PICK w \in Phil : /\ value' = value /\ Waits(w) /\ on[w] = mutex
                          /\ \A q \in Phil : Waits(q)' <=> Waits(q) /\ q # w
    BY <1>1, <1>3, <1>7, SemaFacts, WaitsUp
  <2>2. step[w] \in {"hungry", "left"} /\ w # i
    BY <1>3, <2>1, WaitsForIt
  <2>3. Critical' = {w}
    BY <1>1, <1>4, <2>1, <2>2 DEF Critical
  <2>4. SeatedSema(i)'
    BY <1>1, <1>3, <2>1 DEF SeatedSema, SitsSema
  <2>5. Locked'
    BY <1>4, <2>1, <2>3 DEF Locked
  <2>6. \A q \in Phil \ {i} : step[q] = "eat" => (Waits(q)' <=> Waits(q))
    BY <2>1, <2>2
  <2>7. OnlySema({i})
    BY <1>1, <2>1, <2>6 DEF OnlySema
  <2> QED BY <1>2, <1>5, <2>4, <2>5, <2>7, SemaAssemble
<1> QED BY <1>6, <1>7

(* down(&s[i]): the unit is there exactly if philosopher i has been told   *)
(* to eat.                                                                 *)
LEMMA SemaWaits ==
  ASSUME SemaSeats, SemaInv, SemInv', NEW i \in Phil, Down(i, i),
         Step(i, "wait", "eat"), state_sema' = state_sema
  PROVE  SemaInv'
<1>1. /\ pc[i] = "run" /\ step[i] = "wait" /\ step' = [step EXCEPT ![i] = "eat"]
      /\ \A q \in Phil : step'[q] = IF q = i THEN "eat" ELSE step[q]
  BY SemaFacts DEF Down, DownTakes, DownWaits, At, Step
<1>2. SemaTypes' /\ NotBoth(state_sema') /\ Served(state_sema', step')
  BY <1>1, SameSema
<1>3. ~Waits(i) /\ SeatedSema(i) /\ i \in Thread /\ i \in Sem /\ i # mutex
  BY <1>1, CriticalIs, SemaFacts
<1>4. CASE DownTakes(i, i)
  <2>1. /\ value[i] > 0 /\ value' = [value EXCEPT ![i] = @ - 1]
        /\ pc' = pc /\ on' = on /\ queue' = queue
    BY <1>4 DEF DownTakes
  <2>2. \A q \in Phil : Waits(q)' <=> Waits(q)
    BY <2>1 DEF Waits
  <2>3. value[i] = 1 /\ state_sema[i] = "EATING"
    BY <1>1, <1>3, <2>1 DEF SeatedSema, SitsSema
  <2>4. value'[i] = 0 /\ value'[mutex] = value[mutex]
        /\ \A q \in Phil \ {i} : value'[q] = value[q]
    BY <1>3, <2>1, <2>3, SemaFacts
  <2>5. Critical' = Critical
    BY <1>1, <2>2 DEF Critical
  <2>6. SeatedSema(i)'
    BY <1>1, <1>3, <2>2, <2>3, <2>4 DEF SeatedSema, SitsSema
  <2>7. PlaceSema(i)'
    BY <1>1, <2>1 DEF PlaceSema, InKernel, InDown
  <2>8. Locked'
    BY <2>4, <2>5 DEF SemaInv, Locked
  <2>9. OnlySema({i})
    BY <1>1, <2>1, <2>2, <2>4 DEF OnlySema
  <2> QED BY <1>2, <2>6, <2>7, <2>8, <2>9, SemaAssemble
<1>5. CASE DownWaits(i, i)
  <2>1. /\ ~(value[i] > 0) /\ value' = value /\ pc' = [pc EXCEPT ![i] = "down1"]
        /\ on' = [on EXCEPT ![i] = i]
    BY <1>5 DEF DownWaits, Goto
  <2>2. /\ pc'[i] = "down1" /\ on'[i] = i
        /\ \A q \in Phil \ {i} : pc'[q] = pc[q] /\ on'[q] = on[q]
    BY <1>3, <2>1, SemaFacts
  <2>3. \A q \in Phil : Waits(q)' <=> Waits(q) \/ q = i
    BY <1>3, <1>5, SemaFacts, WaitsDown
  <2>4. Critical' = Critical
    BY <1>1, <2>3 DEF Critical
  <2>5. Locked'
    BY <2>1, <2>4 DEF SemaInv, Locked
  <2>6. SeatedSema(i)'
    <3>1. value[i] = 0 /\ state_sema[i] = "HUNGRY"
      BY <1>1, <1>3, <2>1 DEF SeatedSema, SitsSema
    <3> QED BY <1>1, <2>1, <2>3, <3>1 DEF SeatedSema, SitsSema
  <2>7. PlaceSema(i)'
    BY <1>1, <2>2 DEF PlaceSema, InKernel, InDown
  <2>8. OnlySema({i})
    BY <1>1, <2>1, <2>2, <2>3 DEF OnlySema
  <2> QED BY <1>2, <2>5, <2>6, <2>7, <2>8, SemaAssemble
<1> QED BY <1>4, <1>5 DEF Down

(* phi_test_sema(j) by philosopher i, whose step becomes m while the       *)
(* states are e: j is told to eat and gets a unit, at once if it waits for *)
(* it.                                                                     *)
LEMMA SemaTests ==
  ASSUME SemaSeats, SemaInv, SemInv', NEW i \in Phil, NEW j \in Phil, NEW e,
         phi_test_sema(i, j, e), NEW m, step' = [step EXCEPT ![i] = m],
         \/ step[i] = "hungry" /\ m = "leave" /\ j = i /\ e[i] = "HUNGRY"
         \/ step[i] = "left" /\ m = "right" /\ j # i /\ e[i] = "THINKING"
         \/ step[i] = "right" /\ m = "done" /\ j # i /\ e[i] = "THINKING",
         e \in [Phil -> {"THINKING", "HUNGRY", "EATING"}],
         \A q \in Phil \ {i} : e[q] = state_sema[q],
         \A h \in Phil \ {j} : e[h] = "HUNGRY" =>
           e[LEFT(h)] = "EATING" \/ e[RIGHT(h)] = "EATING" \/ step'[LEFT(h)] = "right"
  PROVE  SemaInv'
<1>1. /\ pc[i] = "run" /\ on' = on /\ pc' = pc
      /\ \A q \in Phil : step'[q] = IF q = i THEN m ELSE step[q]
      /\ step' \in [Phil -> {"think", "take", "hungry", "leave", "wait", "eat", "put",
                             "left", "right", "done", "quit"}]
  BY SemaFacts DEF phi_test_sema, Up, At, vars
<1>2. /\ ~Waits(i) /\ SeatedSema(i) /\ SeatedSema(j) /\ PlaceSema(j) /\ AtLeastTwo
      /\ Thread = Phil /\ j \in Sem /\ j # mutex
      /\ Critical = {i} /\ value[mutex] = 0
  BY <1>1, CriticalIs, SemaFacts
<1>3. state_sema' = Tested(e, j)
  BY DEF phi_test_sema, Tested
<1>4. NotBoth(e)
  <2>1. NotBoth(state_sema)
    BY DEF SemaInv
  <2> QED BY <1>2, <2>1, Neighbours DEF NotBoth
<1>5. SemaTypes' /\ NotBoth(state_sema')
  <2>1. CASE CanEat(e, j)
    BY <1>1, <1>2, <1>3, <1>4, <2>1, TestApart DEF Tested, SemaTypes
  <2>2. CASE ~CanEat(e, j)
    BY <1>1, <1>3, <1>4, <2>2 DEF Tested, SemaTypes
  <2> QED BY <2>1, <2>2
<1>6. Served(state_sema', step')
  <2>1. PICK k : k = step'
    OBVIOUS
  <2>2. \A h \in Phil \ {j} : e[h] = "HUNGRY" =>
          e[LEFT(h)] = "EATING" \/ e[RIGHT(h)] = "EATING" \/ k[LEFT(h)] = "right"
    BY <2>1
  <2>3. AtLeastTwo /\ e \in [Phil -> {"THINKING", "HUNGRY", "EATING"}] /\ j \in Phil
    BY <1>2
  <2>4. Served(Tested(e, j), k)
    BY ONLY <2>2, <2>3, TestServes
  <2> QED BY <1>3, <2>1, <2>4
<1>7. value[i] = 0 /\ PlaceSema(i)'
  <2>1. value[i] = 0
    BY <1>2 DEF SeatedSema, SitsSema
  <2>2. PlaceSema(i)'
    BY <1>1 DEF PlaceSema, InKernel, InDown
  <2> QED BY <2>1, <2>2
<1>8. CASE CanEat(e, j)
  <2>1. \A q \in Phil : state_sema'[q] = IF q = j THEN "EATING" ELSE e[q]
    BY <1>3, <1>8 DEF Tested
  <2>2. UpEffect(j)
    BY <1>8 DEF phi_test_sema, Up
  <2>3. j # i => step[j] \in {"wait", "eat"} /\ value[j] = 0
                 /\ (step[j] = "eat" <=> Waits(j))
    <3> SUFFICES ASSUME j # i
                 PROVE  step[j] \in {"wait", "eat"} /\ value[j] = 0
                        /\ (step[j] = "eat" <=> Waits(j))
      OBVIOUS
    <3>1. state_sema[j] = "HUNGRY" /\ j \notin Critical
      BY <1>2, <1>8 DEF CanEat
    <3>2. step[j] # "leave"
      BY <3>1 DEF Critical
    <3>3. step[j] \in {"wait", "eat"} /\ value[j] = 0 /\ (step[j] = "eat" => Waits(j))
      BY <1>2, <3>1, <3>2 DEF SeatedSema, SitsSema
    <3>4. Waits(j) => step[j] # "wait"
      BY WaitsForIt
    <3> QED BY <3>3, <3>4
  <2>4. CASE queue[j] = <<>>
    <3>1. value' = [value EXCEPT ![j] = @ + 1] /\ \A q \in Phil : Waits(q)' <=> Waits(q)
      BY <1>1, <1>2, <2>2, <2>4, SemaFacts, WaitsUp
    <3>2. value[j] = 0 /\ ~Waits(j)
      <4>1. Waits(j) => on[j] = j
        BY <1>2, <2>3, WaitsForIt
      <4> QED BY <1>2, <1>7, <2>3, <2>4, <4>1, QueueNotEmpty
    <3>3. /\ value'[j] = 1 /\ value'[mutex] = 0
          /\ \A q \in Phil \ {j} : value'[q] = value[q]
      BY <1>2, <3>1, <3>2, SemaFacts
    <3>4. Critical' = {i}
      BY <1>1, <1>2, <3>1 DEF Critical
    <3>5. Locked'
      BY <3>3, <3>4 DEF Locked
    <3>6. SeatedSema(i)'
      BY <1>1, <1>7, <2>1, <3>3 DEF SeatedSema, SitsSema
    <3>7. SeatedSema(j)' /\ PlaceSema(j)'
      <4>1. CASE j # i
        <5>1. step'[j] = "wait" /\ state_sema'[j] = "EATING"
          BY <1>1, <2>1, <2>3, <3>2, <4>1
        <5>2. SeatedSema(j)'
          BY <3>3, <5>1 DEF SeatedSema, SitsSema
        <5>3. PlaceSema(j)'
          BY <1>1, <1>2, <4>1 DEF PlaceSema, InKernel
        <5> QED BY <5>2, <5>3
      <4> QED BY <1>7, <3>6, <4>1
    <3>8. OnlySema({i, j})
      BY <1>1, <2>1, <3>1, <3>3 DEF OnlySema
    <3> QED BY <1>5, <1>6, <1>7, <3>5, <3>6, <3>7, <3>8, SemaAssemble
  <2>5. CASE queue[j] # <<>>
    <3>1. PICK w \in Phil : /\ value' = value /\ Waits(w) /\ on[w] = j
                            /\ \A q \in Phil : Waits(q)' <=> Waits(q) /\ q # w
      BY <1>1, <1>2, <2>2, <2>5, SemaFacts, WaitsUp
    <3>2. w = j /\ j # i /\ step[j] = "eat" /\ value[j] = 0
      BY <1>2, <2>3, <3>1, WaitsForIt
    <3>3. Critical' = {i}
      BY <1>1, <1>2, <3>1, <3>2 DEF Critical
    <3>4. Locked'
      BY <1>2, <3>1, <3>3 DEF Locked
    <3>5. SeatedSema(i)'
      BY <1>1, <1>7, <2>1, <3>1, <3>2 DEF SeatedSema, SitsSema
    <3>6. SeatedSema(j)'
      BY <1>1, <2>1, <3>1, <3>2 DEF SeatedSema, SitsSema
    <3>7. PlaceSema(j)'
      BY <1>1, <1>2, <3>2 DEF PlaceSema, InKernel
    <3>8. OnlySema({i, j})
      BY <1>1, <2>1, <3>1, <3>2 DEF OnlySema
    <3>9. \A q \in Phil \cap {i, j} : SeatedSema(q)' /\ PlaceSema(q)'
      BY <1>7, <3>5, <3>6, <3>7
    <3> QED BY <1>5, <1>6, <3>4, <3>8, <3>9, SemaAssemble
  <2> QED BY <2>4, <2>5
<1>9. CASE ~CanEat(e, j)
  <2>1. state_sema' = e /\ value' = value /\ queue' = queue
    BY <1>3, <1>9 DEF phi_test_sema, Tested, vars
  <2>2. \A q \in Phil : Waits(q)' <=> Waits(q)
    BY <1>1, <2>1 DEF Waits
  <2>3. Critical' = {i}
    BY <1>1, <1>2, <2>2 DEF Critical
  <2>4. Locked'
    BY <1>2, <2>1, <2>3 DEF Locked
  <2>5. SeatedSema(i)'
    BY <1>1, <1>7, <2>1 DEF SeatedSema, SitsSema
  <2>6. OnlySema({i})
    BY <1>1, <2>1, <2>2 DEF OnlySema
  <2> QED BY <1>5, <1>6, <1>7, <2>4, <2>5, <2>6, SemaAssemble
<1> QED BY <1>8, <1>9

(* phi_take_forks_sema looks at its own forks, ...                         *)
LEMMA SemaHungry ==
  ASSUME SemaSeats, SemaInv, SemInv', NEW i \in Phil, Step(i, "hungry", "leave"),
         phi_test_sema(i, i, [state_sema EXCEPT ![i] = "HUNGRY"])
  PROVE  SemaInv'
<1>1. PICK e : e = [state_sema EXCEPT ![i] = "HUNGRY"]
  OBVIOUS
<1>2. /\ e \in [Phil -> {"THINKING", "HUNGRY", "EATING"}] /\ e[i] = "HUNGRY"
      /\ \A q \in Phil \ {i} : e[q] = state_sema[q]
  BY <1>1, SemaFacts
<1>3. /\ step[i] = "hungry" /\ step' = [step EXCEPT ![i] = "leave"]
      /\ \A q \in Phil : step'[q] = IF q = i THEN "leave" ELSE step[q]
  BY SemaFacts DEF Step
<1>4. state_sema[i] = "THINKING" /\ phi_test_sema(i, i, e)
  BY <1>1, <1>3, SemaFacts DEF SeatedSema, SitsSema
<1>5. \A h \in Phil \ {i} : e[h] = "HUNGRY" =>
        e[LEFT(h)] = "EATING" \/ e[RIGHT(h)] = "EATING" \/ step'[LEFT(h)] = "right"
  <2>1. \A h \in Phil : LEFT(h) \in Phil /\ RIGHT(h) \in Phil
    BY SemaFacts, Neighbours
  <2>2. \A q \in Phil : /\ state_sema[q] = "EATING" => e[q] = "EATING"
                        /\ step[q] = "right" => step'[q] = "right"
    BY <1>2, <1>3, <1>4
  <2> QED BY <1>2, <2>1, <2>2 DEF SemaInv, Served
<1> QED BY <1>2, <1>3, <1>4, <1>5, SemaTests

(* ... phi_put_forks_sema at those of its neighbours.                      *)
LEMMA SemaLeft ==
  ASSUME SemaSeats, SemaInv, SemInv', NEW i \in Phil, Step(i, "left", "right"),
         phi_test_sema(i, LEFT(i), [state_sema EXCEPT ![i] = "THINKING"])
  PROVE  SemaInv'
<1>1. PICK e, j : e = [state_sema EXCEPT ![i] = "THINKING"] /\ j = LEFT(i)
  OBVIOUS
<1>2. /\ e \in [Phil -> {"THINKING", "HUNGRY", "EATING"}] /\ e[i] = "THINKING"
      /\ \A q \in Phil \ {i} : e[q] = state_sema[q]
  BY <1>1, SemaFacts
<1>3. /\ step[i] = "left" /\ step' = [step EXCEPT ![i] = "right"]
      /\ \A q \in Phil : step'[q] = IF q = i THEN "right" ELSE step[q]
  BY SemaFacts DEF Step
<1>4. phi_test_sema(i, j, e) /\ j \in Phil /\ j # i
  BY <1>1, SemaFacts, Neighbours
<1>5. \A h \in Phil \ {j} : e[h] = "HUNGRY" =>
        e[LEFT(h)] = "EATING" \/ e[RIGHT(h)] = "EATING" \/ step'[LEFT(h)] = "right"
  <2> SUFFICES ASSUME NEW h \in Phil \ {j}, e[h] = "HUNGRY"
               PROVE  e[LEFT(h)] = "EATING" \/ e[RIGHT(h)] = "EATING" \/ step'[LEFT(h)] = "right"
    OBVIOUS
  <2>1. h # i /\ state_sema[h] = "HUNGRY"
    BY <1>2
  <2>2. LEFT(h) \in Phil /\ RIGHT(h) \in Phil /\ LEFT(RIGHT(h)) = h
    BY SemaFacts, Neighbours
  <2>3. RIGHT(h) # i
    BY <1>1, <2>2
  <2>4. \/ state_sema[LEFT(h)] = "EATING" \/ state_sema[RIGHT(h)] = "EATING"
        \/ step[LEFT(h)] = "right"
    BY <2>1 DEF SemaInv, Served
  <2> QED BY <1>2, <1>3, <2>2, <2>3, <2>4
<1> QED BY <1>2, <1>3, <1>4, <1>5, SemaTests

(* The other neighbour.                                                    *)
LEMMA SemaRight ==
  ASSUME SemaSeats, SemaInv, SemInv', NEW i \in Phil, TestRightSema(i)
  PROVE  SemaInv'
<1>1. PICK e, j : e = state_sema /\ j = RIGHT(i)
  OBVIOUS
<1>2. /\ step[i] = "right" /\ step' = [step EXCEPT ![i] = "done"]
      /\ \A q \in Phil : step'[q] = IF q = i THEN "done" ELSE step[q]
  BY SemaFacts DEF TestRightSema, Step
<1>3. /\ e \in [Phil -> {"THINKING", "HUNGRY", "EATING"}] /\ e[i] = "THINKING"
      /\ \A q \in Phil \ {i} : e[q] = state_sema[q]
  BY <1>1, <1>2, SemaFacts DEF SeatedSema, SitsSema
<1>4. phi_test_sema(i, j, e) /\ j \in Phil /\ j # i
  BY <1>1, SemaFacts, Neighbours DEF TestRightSema
<1>5. \A h \in Phil \ {j} : e[h] = "HUNGRY" =>
        e[LEFT(h)] = "EATING" \/ e[RIGHT(h)] = "EATING" \/ step'[LEFT(h)] = "right"
  <2> SUFFICES ASSUME NEW h \in Phil \ {j}, e[h] = "HUNGRY"
               PROVE  e[LEFT(h)] = "EATING" \/ e[RIGHT(h)] = "EATING" \/ step'[LEFT(h)] = "right"
    OBVIOUS
  <2>1. LEFT(h) \in Phil /\ RIGHT(LEFT(h)) = h
    BY SemaFacts, Neighbours
  <2>2. LEFT(h) # i
    BY <1>1, <2>1
  <2>3. e[LEFT(h)] = "EATING" \/ e[RIGHT(h)] = "EATING" \/ step[LEFT(h)] = "right"
    BY <1>1 DEF SemaInv, Served
  <2> QED BY <1>2, <2>1, <2>2, <2>3
<1> QED BY <1>2, <1>3, <1>4, <1>5, SemaTests

(* do_sleep, the end of a thread, and what the kernel does for it: nobody  *)
(* begins or ceases to wait for a semaphore.                               *)
LEMMA SemaQuiet ==
  ASSUME SemaSeats, SemaInv, SemInv', NEW i \in Phil, NEW m,
         UNCHANGED <<value, queue, on, state_sema>>, step' = [step EXCEPT ![i] = m],
         \/ m = step[i]
         \/ <<step[i], m>> \in {<<"think", "take">>, <<"eat", "put">>} /\ pc[i] = "run",
         PlaceSema(i)', \A q \in Phil \ {i} : pc'[q] = pc[q]
  PROVE  SemaInv'
<1>1. \A q \in Phil : step'[q] = IF q = i THEN m ELSE step[q]
  BY SemaFacts
<1>2. \A q \in Phil : Waits(q)' <=> Waits(q)
  BY DEF Waits
<1>3. SeatedSema(i) /\ step \in [Phil -> {"think", "take", "hungry", "leave", "wait",
                                          "eat", "put", "left", "right", "done", "quit"}]
  BY SemaFacts
<1>4. SemaTypes' /\ NotBoth(state_sema') /\ Served(state_sema', step')
  <2>1. CASE m = step[i]
    BY <1>3, <2>1 DEF SemaInv, SemaTypes
  <2>2. CASE m # step[i]
    <3>1. m \in {"take", "put"} /\ step[i] # "right"
      BY <2>2
    <3> QED BY <3>1, SameSema
  <2> QED BY <2>1, <2>2
<1>5. Critical' = Critical
  BY <1>1, <1>2 DEF Critical
<1>6. Locked'
  BY <1>5 DEF SemaInv, Locked
<1>7. SeatedSema(i)'
  <2>1. pc[i] = "run" => ~Waits(i)
    BY CriticalIs
  <2> QED BY <1>1, <1>2, <1>3, <2>1 DEF SeatedSema, SitsSema
<1>8. OnlySema({i})
  BY <1>1, <1>2 DEF OnlySema
<1> QED BY <1>4, <1>6, <1>7, <1>8, SemaAssemble

(* What a philosopher does.                                                *)
LEMMA PhilosopherSemaStep ==
  ASSUME SemaSeats, SemaInv, SemInv', NEW i \in Phil, PhilosopherSema(i)
  PROVE  SemaInv'
<1>1. CASE ThinkSema(i) \/ EatSema(i)
  <2>1. PICK l, m : /\ <<l, m>> \in {<<"think", "take">>, <<"eat", "put">>}
                    /\ Step(i, l, m) /\ Sleep(i) /\ state_sema' = state_sema
    BY <1>1 DEF ThinkSema, EatSema
  <2>2. /\ pc[i] = "run" /\ UNCHANGED <<value, queue, on>>
        /\ pc' = [pc EXCEPT ![i] = "sleep1"]
        /\ step[i] = l /\ step' = [step EXCEPT ![i] = m]
    BY <2>1 DEF Sleep, At, Goto, Step
  <2>3. pc'[i] = "sleep1" /\ step'[i] = m /\ \A q \in Phil \ {i} : pc'[q] = pc[q]
    BY <2>2, SemaFacts
  <2>4. PlaceSema(i)'
    BY <2>1, <2>3 DEF PlaceSema, InKernel, InDown
  <2> QED BY <2>1, <2>2, <2>3, <2>4, SemaQuiet
<1>2. CASE TakeForksSema(i)
  <2>1. CASE Step(i, "take", "hungry") /\ Down(i, mutex) /\ state_sema' = state_sema
    BY <2>1, SemaEnters
  <2>2. CASE Step(i, "leave", "wait") /\ Up(i, mutex) /\ state_sema' = state_sema
    BY <2>2, SemaLeaves
  <2> QED BY <1>2, <2>1, <2>2, SemaHungry, SemaWaits DEF TakeForksSema
<1>3. CASE PutForksSema(i)
  <2>1. CASE Step(i, "put", "left") /\ Down(i, mutex) /\ state_sema' = state_sema
    BY <2>1, SemaEnters
  <2>2. CASE NextRound(i) /\ Up(i, mutex) /\ state_sema' = state_sema
    <3>1. Step(i, "done", "think") \/ Step(i, "done", "quit")
      BY <2>2 DEF NextRound
    <3> QED BY <2>2, <3>1, SemaLeaves
  <2> QED BY <1>3, <2>1, <2>2, SemaLeft, SemaRight DEF PutForksSema
<1>4. CASE QuitSema(i)
  <2>1. /\ UNCHANGED <<value, queue, on, state_sema, step>>
        /\ pc' = [pc EXCEPT ![i] = "exit1"] /\ step[i] = "quit"
    BY <1>4 DEF QuitSema, Exit, Goto
  <2>2. /\ pc'[i] = "exit1" /\ \A q \in Phil \ {i} : pc'[q] = pc[q]
        /\ step' = [step EXCEPT ![i] = step[i]]
    BY <2>1, SemaFacts
  <2>3. PlaceSema(i)'
    BY <2>1, <2>2 DEF PlaceSema, InKernel, InDown
  <2> QED BY <2>1, <2>2, <2>3, SemaQuiet
<1> QED BY <1>1, <1>2, <1>3, <1>4 DEF PhilosopherSema

(* What the kernel does.                                                   *)
LEMMA KernelSemaStep ==
  ASSUME SemaSeats, SemaInv, SemInv', Kernels, UNCHANGED <<state_sema, step>>
  PROVE  SemaInv'
<1>1. SemInv /\ Thread = Phil
  BY SemaFacts
<1>2. ASSUME NEW i \in Phil, KernelStep(i) PROVE SemaInv'
  <2>1. PICK l, m :
          /\ pc[i] = l /\ pc' = [pc EXCEPT ![i] = m]
          /\ <<l, m>> \in {<<"down1", "down2">>, <<"down2", "run">>,
                           <<"sleep1", "sleep2">>, <<"sleep2", "run">>,
                           <<"exit1", "dead">>}
    BY <1>2 DEF KernelStep, DownSchedule, DownReturns, SleepSchedule, SleepReturns,
         ExitSchedule, At, Goto
  <2>2. UNCHANGED <<value, queue, on>>
    BY <1>1, <1>2, ReturnStep DEF KernelStep, DownSchedule, SleepSchedule,
         SleepReturns, ExitSchedule
  <2>3. /\ pc'[i] = m /\ \A q \in Phil \ {i} : pc'[q] = pc[q]
        /\ step' = [step EXCEPT ![i] = step[i]] /\ PlaceSema(i)
    BY <2>1, SemaFacts
  <2>4. PlaceSema(i)'
    BY <2>1, <2>2, <2>3 DEF PlaceSema, InKernel, InDown
  <2> QED BY <2>2, <2>3, <2>4, SemaQuiet
<1>3. CASE IdleLoop \/ ClockTick \/ UNCHANGED vars \/ \E i \in Phil : Alarm(i)
  <2>1. UNCHANGED <<value, queue, on, pc>>
    BY <1>3 DEF IdleLoop, ClockTick, vars, Alarm
  <2>2. \A q \in Phil : Waits(q)' <=> Waits(q)
    BY <2>1 DEF Waits
  <2>3. Critical' = Critical
    BY <2>2 DEF Critical
  <2>4. Locked' /\ SemaTypes' /\ NotBoth(state_sema') /\ Served(state_sema', step')
    BY <2>1, <2>3 DEF SemaInv, Locked, SemaTypes
  <2>5. {} \in SUBSET Phil /\ (\A i \in {} : SeatedSema(i)' /\ PlaceSema(i)')
    OBVIOUS
  <2>6. OnlySema({})
    BY <2>1, <2>2 DEF OnlySema
  <2> QED BY <2>4, <2>5, <2>6, SemaAssemble
<1> QED BY <1>1, <1>2, <1>3 DEF Kernels

(* What a step of the philosophers is to the kernel.                       *)
LEMMA SemaIs ==
  ASSUME SemaSeats, SemaInv, [SemaNext]_semavars
  PROVE  /\ \/ \E i \in Phil : Exit(i) /\ step'[i] = "quit"
            \/ Kernels \/ \E i \in Phil : Calls(i)
         /\ \A q \in Phil : step'[q] # step[q] => pc[q] = "run"
         /\ (\E i \in Phil : PhilosopherSema(i)) \/ (Kernels /\ UNCHANGED <<state_sema, step>>)
<1>1. /\ Thread = Phil /\ mutex \in Sem /\ Phil \subseteq Sem /\ AtLeastTwo
      /\ step \in [Phil -> {"think", "take", "hungry", "leave", "wait", "eat", "put",
                            "left", "right", "done", "quit"}]
  BY SemaFacts
<1>2. ASSUME NEW i \in Phil, NEW j \in Phil, NEW e, phi_test_sema(i, j, e)
      PROVE  pc[i] = "run" /\ (Kernels \/ Calls(i))
  <2>1. pc[i] = "run" /\ (Up(i, j) \/ UNCHANGED vars)
    BY <1>2 DEF phi_test_sema, Up, At
  <2> QED BY <1>1, <2>1 DEF Kernels, Calls
<1>3. ASSUME NEW i \in Phil, NEW s \in Sem, Down(i, s) \/ Up(i, s) \/ Sleep(i)
      PROVE  pc[i] = "run" /\ Calls(i)
  BY <1>3 DEF Down, DownTakes, DownWaits, Up, Sleep, At, Calls
<1>4. ASSUME NEW i \in Phil, PhilosopherSema(i)
      PROVE  \/ Exit(i) /\ step'[i] = "quit" /\ step' = step
             \/ /\ Kernels \/ Calls(i)
                /\ pc[i] = "run" /\ \A q \in Phil \ {i} : step'[q] = step[q]
  <2>0. i \in Sem /\ LEFT(i) \in Phil /\ RIGHT(i) \in Phil
    BY <1>1, Neighbours
  <2>1. CASE ThinkSema(i) \/ EatSema(i)
    <3>1. \A q \in Phil \ {i} : step'[q] = step[q]
      BY <1>1, <2>1 DEF ThinkSema, EatSema, Step
    <3> QED BY <1>3, <2>0, <2>1, <3>1 DEF ThinkSema, EatSema
  <2>2. CASE TakeForksSema(i)
    <3>1. \A q \in Phil \ {i} : step'[q] = step[q]
      BY <1>1, <2>2 DEF TakeForksSema, Step
    <3> QED BY <1>1, <1>2, <1>3, <2>0, <2>2, <3>1 DEF TakeForksSema
  <2>3. CASE PutForksSema(i)
    <3>1. \A q \in Phil \ {i} : step'[q] = step[q]
      BY <1>1, <2>3 DEF PutForksSema, TestRightSema, NextRound, Step
    <3> QED BY <1>1, <1>2, <1>3, <2>0, <2>3, <3>1 DEF PutForksSema, TestRightSema
  <2>4. CASE QuitSema(i)
    BY <2>4 DEF QuitSema
  <2> QED BY <1>4, <2>1, <2>2, <2>3, <2>4 DEF PhilosopherSema
<1>5. CASE \E i \in Phil : PhilosopherSema(i)
  BY <1>4, <1>5
<1>6. CASE ~\E i \in Phil : PhilosopherSema(i)
  BY <1>1, <1>6 DEF SemaNext, CpuSema, semavars, Kernels
<1> QED BY <1>5, <1>6

(* Every step keeps the invariant.                                         *)
LEMMA SemaStep ==
  ASSUME SemaSeats, SemaInv, [SemaNext]_semavars
  PROVE  SemaInv'
<1>1. SemInv'
  <2>1. SemInv /\ Thread = Phil
    BY SemaFacts
  <2>2. \A i \in Phil : Calls(i) => AnyStep
    BY <2>1 DEF Calls, AnyStep
  <2>3. Kernels => AnyStep \/ UNCHANGED vars
    BY <2>1 DEF Kernels, AnyStep, Interrupt
  <2>4. \A i \in Phil : Exit(i) => AnyStep
    BY <2>1 DEF AnyStep
  <2>5. [AnyStep]_vars
    BY <2>2, <2>3, <2>4, SemaIs
  <2> QED BY <2>1, <2>5, SemInvStep
<1> QED BY <1>1, SemaIs, PhilosopherSemaStep, KernelSemaStep

(* check_sync has created the philosophers.                                *)
LEMMA SemaStart == SemaSeats /\ SemaInit => SemaInv
<1> SUFFICES ASSUME SemaSeats, SemaInit PROVE SemaInv
  OBVIOUS
<1>1. SemInv /\ Thread = Phil /\ Sem = Phil \cup {mutex} /\ mutex \notin Phil
  BY InitSem DEF SemaInit, SemaSeats
<1>2. /\ state_sema = [i \in Phil |-> "THINKING"] /\ step = [i \in Phil |-> "think"]
      /\ pc = [p \in Thread |-> "run"] /\ value = Value0
  BY DEF SemaInit, Init
<1>3. value[mutex] = 1 /\ \A i \in Phil : value[i] = 0
  BY <1>1, <1>2 DEF SemaSeats
<1>4. SemaTypes /\ NotBoth(state_sema) /\ Served(state_sema, step)
  BY <1>2 DEF SemaTypes, NotBoth, Served
<1>5. Critical = {}
  BY <1>2 DEF Critical
<1>6. \A i \in Phil : SeatedSema(i)
  BY <1>2, <1>3 DEF SeatedSema, SitsSema
<1>7. \A i \in Phil : PlaceSema(i)
  BY <1>1, <1>2 DEF PlaceSema, InKernel, InDown
<1> QED BY <1>1, <1>3, <1>4, <1>5, <1>6, <1>7 DEF SemaInv, Locked

(* Nobody changes seats.                                                   *)
LEMMA SemaSeatsKept == SemaSeats => []SemaSeats
  BY DEF SemaSeats, AtLeastTwo

(* The invariant of the philosophers that use semaphores, for any number   *)
(* of them.                                                                *)
THEOREM SemaInvHolds == SemaSeats /\ SemaSpec => []SemaInv
<1>1. SemaSeats /\ SemaInv /\ [SemaNext]_semavars => SemaInv'
  BY SemaStep
<1> QED BY <1>1, SemaSeatsKept, SemaStart, PTL DEF SemaSpec

(* For any number of philosophers, neighbours never eat at the same time:  *)
(* who returns from down(&s[i]) has been told to eat.                      *)
THEOREM SemaNeighboursApart == SemaSeats /\ SemaSpec => []SemaApart
<1>1. ASSUME SemaSeats, SemaInv PROVE SemaApart
  <2>1. ASSUME NEW i \in Phil, EatsSema(i) PROVE state_sema[i] = "EATING"
    <3>1. pc[i] = "run" => ~Waits(i)
      BY <1>1, CriticalIs
    <3>2. SeatedSema(i)
      BY <1>1, SemaFacts
    <3> QED BY <2>1, <3>1, <3>2 DEF EatsSema, SeatedSema, SitsSema
  <2>2. \A i \in Phil : LEFT(i) \in Phil /\ RIGHT(i) \in Phil
    BY <1>1, SemaFacts, Neighbours
  <2>3. NotBoth(state_sema)
    BY <1>1 DEF SemaInv
  <2> QED BY <2>1, <2>2, <2>3 DEF SemaApart, NotBoth
<1>2. SemaSeats /\ SemaInv => SemaApart
  BY <1>1
<1> QED BY <1>2, SemaSeatsKept, SemaInvHolds, PTL

(* No fork is forgotten in a state of the invariant.                       *)
LEMMA FreeSemaServed ==
  ASSUME SemaSeats, SemaInv PROVE SemaServed
<1> SUFFICES ASSUME value[mutex] = 1, NEW h \in Phil, state_sema[h] = "HUNGRY"
             PROVE  \E j \in {LEFT(h), RIGHT(h)} : state_sema[j] = "EATING"
  BY DEF SemaServed
<1>1. Critical = {} /\ LEFT(h) \in Phil
  BY SemaFacts, Neighbours DEF SemaInv, Locked
<1>2. step[LEFT(h)] # "right"
  BY <1>1 DEF Critical
<1> QED BY <1>2 DEF SemaInv, Served

(* For any number of philosophers, no fork is forgotten: when nobody is in *)
(* the critical section, a hungry philosopher has a neighbour that eats;   *)
(* and no semaphore goes above 1, so that no forks are granted twice.      *)
THEOREM SemaForksServed ==
  SemaSeats /\ SemaSpec => [](SemaServed /\ \A s \in Sem : value[s] <= 1)
<1>1. ASSUME SemaSeats, SemaInv PROVE \A s \in Sem : value[s] <= 1
  <2>1. \A i \in Phil : value[i] \in {0, 1}
    BY <1>1, SemaFacts DEF SeatedSema, SitsSema
  <2>2. value[mutex] \in {0, 1}
    BY <1>1 DEF SemaInv, Locked
  <2> QED BY <1>1, <2>1, <2>2, SemaFacts
<1>2. SemaSeats /\ SemaInv => SemaServed /\ \A s \in Sem : value[s] <= 1
  BY <1>1, FreeSemaServed
<1> QED BY <1>2, SemaSeatsKept, SemaInvHolds, PTL

(* For any number of philosophers and of rounds there is no deadlock:      *)
(* until all have quit, one of them can run or will be woken by its timer. *)
THEOREM SemaNeverStuck == SemaSeats /\ SemaSpec => []SemaNotStuck
<1> DEFINE Inv == SemaInv /\ Alive /\ Over
<1>1. ASSUME SemaSeats, Inv PROVE SemaNotStuck
  <2> SUFFICES ASSUME NEW i \in Phil, S.state[i] # "ZOMBIE",
                      \A j \in Phil : S.state[j] # "RUNNABLE" /\ S.wait[j] # "TIMER"
               PROVE  FALSE
    BY DEF SemaNotStuck
  <2>1. \A j \in Phil : S.state[j] # "ZOMBIE" => Waits(j)
    BY <1>1, SemaFacts, AllWait
  <2>2. Critical = {}
    <3> SUFFICES ASSUME NEW p \in Critical PROVE FALSE
      OBVIOUS
    <3>1. p \in Phil /\ PlaceSema(p)
      BY <1>1, SemaFacts DEF Critical
    <3>2. step[p] \in {"hungry", "leave", "left", "right", "done"} /\ ~Waits(p)
      BY <1>1, <3>1, WaitsForIt DEF Critical
    <3>3. pc[p] \notin {"exit1", "dead"}
      BY <3>1, <3>2 DEF PlaceSema, InKernel, InDown
    <3> QED BY <1>1, <2>1, <3>1, <3>2, <3>3, SemaFacts DEF Alive
  <2>3. value[mutex] = 1 /\ queue[mutex] = <<>>
    BY <1>1, <2>2, SemaFacts DEF SemaInv, Locked, SemInv, NoneWaits
  <2>4. ASSUME NEW j \in Phil, Waits(j) PROVE state_sema[j] = "HUNGRY"
    <3>1. on[j] # mutex
      BY <1>1, <2>3, <2>4, SemaFacts, QueueNotEmpty
    <3>2. step[j] = "eat" /\ SeatedSema(j)
      BY <1>1, <2>4, <3>1, WaitsForIt, SemaFacts
    <3> QED BY <2>4, <3>2 DEF SeatedSema, SitsSema
  <2>5. PICK j \in {LEFT(i), RIGHT(i)} : state_sema[j] = "EATING"
    BY <1>1, <2>1, <2>3, <2>4, FreeSemaServed DEF SemaServed
  <2>6. j \in Phil /\ SeatedSema(j)
    BY <1>1, Neighbours, SemaFacts
  <2>7. S.state[j] # "ZOMBIE"
    BY <1>1, <2>5, <2>6 DEF Over, SeatedSema, SitsSema
  <2> QED BY <2>1, <2>4, <2>5, <2>6, <2>7
<1>2. SemaSeats /\ Inv => SemaNotStuck
  BY <1>1
<1>3. SemaSeats /\ Inv /\ [SemaNext]_semavars => Inv'
  BY SemaStep, SemaIs, AliveKept, SemaFacts
<1>4. SemaSeats /\ SemaInit => Inv
  BY SemaStart, AliveStart DEF SemaSeats, SemaInit
<1> QED BY <1>2, <1>3, <1>4, SemaSeatsKept, PTL DEF SemaSpec

=============================================================================
