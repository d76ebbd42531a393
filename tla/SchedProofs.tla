---------------------------- MODULE SchedProofs ----------------------------
(***************************************************************************)
(* What the operators of SchedOps preserve, for any set of processes and   *)
(* any time slice, and those of TimerOps for any number of timers.  Each   *)
(* lemma is about one C function, so that the proof about a handler cites  *)
(* one lemma per call the handler makes.                                   *)
(***************************************************************************)
EXTENDS SchedOps, TimerOps, ListProofs, TLAPS

(* A scheduler state as the kernel leaves it whenever interrupts are on.   *)
SchedOK(T) == T \in SchedType /\ RunQueueExact(T) /\ WaitStateExact(T)

-----------------------------------------------------------------------------

(* RR_enqueue of a process that is neither idleproc nor queued.            *)
LEMMA EnqueueOK ==
  ASSUME NEW T \in SchedType, NEW p \in Proc, p # Idle, p \notin ToSet(T.rq),
         \A i, j \in DOMAIN T.rq : T.rq[i] = T.rq[j] => i = j
  PROVE  /\ Enqueue(T, p) \in SchedType
         /\ Enqueue(T, p).state = T.state
         /\ Enqueue(T, p).wait = T.wait
         /\ Enqueue(T, p).cur = T.cur
         /\ Enqueue(T, p).oops = T.oops
         /\ ToSet(Enqueue(T, p).rq) = ToSet(T.rq) \cup {p}
         /\ \A i, j \in DOMAIN Enqueue(T, p).rq :
              Enqueue(T, p).rq[i] = Enqueue(T, p).rq[j] => i = j
<1> DEFINE E == Enqueue(T, p)
<1>1. T.rq \in Seq(Proc)
  BY DEF SchedType
<1>2. /\ Append(T.rq, p) \in Seq(Proc)
      /\ ToSet(Append(T.rq, p)) = ToSet(T.rq) \cup {p}
      /\ \A i, j \in DOMAIN Append(T.rq, p) :
           Append(T.rq, p)[i] = Append(T.rq, p)[j] => i = j
  BY <1>1, AppendFacts
<1>3. /\ E.state = T.state /\ E.wait = T.wait /\ E.cur = T.cur
      /\ E.rq = Append(T.rq, p) /\ E.oops = T.oops
      /\ E.resched = T.resched
      /\ E.slice = [T.slice EXCEPT ![p] =
                      IF @ <= 0 \/ @ > MaxSlice THEN MaxSlice ELSE @]
      /\ E = [T EXCEPT !.slice = E.slice, !.rq = E.rq]
  BY DEF Enqueue, KAssert, SchedType
<1>4. E.slice \in [Proc -> 0..MaxSlice]
  BY <1>3, SliceAssumption DEF SchedType
<1>5. E \in SchedType
  BY <1>2, <1>3, <1>4 DEF SchedType
<1> QED BY <1>2, <1>3, <1>5

(* wakeup_proc makes p runnable and keeps the scheduler state in order;    *)
(* its assert fails only for a zombie.                                     *)
LEMMA WakeupOK ==
  ASSUME NEW T, SchedOK(T), NEW p \in Proc
  PROVE  /\ SchedOK(WakeupProc(T, p))
         /\ WakeupProc(T, p).state = [T.state EXCEPT ![p] = "RUNNABLE"]
         /\ WakeupProc(T, p).wait = [T.wait EXCEPT ![p] = "NONE"]
         /\ WakeupProc(T, p).cur = T.cur
         /\ WakeupProc(T, p).oops = (T.oops \/ T.state[p] = "ZOMBIE")
<1> DEFINE A == KAssert(T, T.state[p] # "ZOMBIE")
           R == [A EXCEPT !.state[p] = "RUNNABLE", !.wait[p] = "NONE"]
<1>1. T \in SchedType /\ RunQueueExact(T) /\ WaitStateExact(T)
  BY DEF SchedOK
<1>2. /\ A \in SchedType /\ A.state = T.state /\ A.wait = T.wait
      /\ A.cur = T.cur /\ A.rq = T.rq
      /\ A.oops = (T.oops \/ T.state[p] = "ZOMBIE")
  BY <1>1 DEF KAssert, SchedType
<1>3. /\ R \in SchedType /\ R.cur = T.cur /\ R.rq = T.rq
      /\ R.state = [T.state EXCEPT ![p] = "RUNNABLE"]
      /\ R.wait = [T.wait EXCEPT ![p] = "NONE"]
      /\ R.oops = A.oops
  <2> HIDE DEF A
  <2> QED BY <1>2 DEF SchedType, ProcState, WaitState
<1>4. CASE T.state[p] = "RUNNABLE"
  <2>1. WakeupProc(T, p) = A
    BY <1>4 DEF WakeupProc
  <2>2. T.wait[p] = "NONE"
    BY <1>1, <1>4 DEF WaitStateExact
  <2>3. T.state = [T.state EXCEPT ![p] = "RUNNABLE"]
        /\ T.wait = [T.wait EXCEPT ![p] = "NONE"]
    BY <1>1, <1>4, <2>2 DEF SchedType
  <2>4. SchedOK(A)
    <3> HIDE DEF A
    <3> QED BY <1>1, <1>2 DEF SchedOK, RunQueueExact, WaitStateExact
  <2> HIDE DEF A
  <2> QED BY <1>2, <2>1, <2>3, <2>4
<1>5. CASE T.state[p] # "RUNNABLE" /\ p = T.cur
  <2>1. WakeupProc(T, p) = R
    BY <1>5 DEF WakeupProc
  <2>2. RunQueueExact(R) /\ WaitStateExact(R)
    <3> HIDE DEF R
    <3> QED BY <1>1, <1>3, <1>5 DEF RunQueueExact, WaitStateExact, SchedType
  <2> HIDE DEF R, A
  <2> QED BY <1>2, <1>3, <2>1, <2>2 DEF SchedOK
<1>6. CASE T.state[p] # "RUNNABLE" /\ p # T.cur
  <2>1. WakeupProc(T, p) = Enqueue(R, p)
    BY <1>6 DEF WakeupProc
  <2> HIDE DEF R, A
  <2>2. p # Idle /\ p \notin ToSet(R.rq)
    BY <1>1, <1>3, <1>6 DEF RunQueueExact, WaitStateExact
  <2>3. \A i, j \in DOMAIN R.rq : R.rq[i] = R.rq[j] => i = j
    BY <1>1, <1>3 DEF RunQueueExact
  <2> DEFINE E == Enqueue(R, p)
  <2>4. /\ E \in SchedType /\ E.state = R.state /\ E.wait = R.wait
        /\ E.cur = R.cur /\ E.oops = R.oops
        /\ ToSet(E.rq) = ToSet(R.rq) \cup {p}
        /\ \A i, j \in DOMAIN E.rq : E.rq[i] = E.rq[j] => i = j
    BY <1>3, <2>2, <2>3, EnqueueOK
  <2> HIDE DEF E
  <2>5. RunQueueExact(E)
    BY <1>1, <1>3, <1>6, <2>2, <2>4 DEF RunQueueExact, SchedType
  <2>6. WaitStateExact(E)
    BY <1>1, <1>3, <1>6, <2>2, <2>4, IdleAssumption DEF WaitStateExact, SchedType
  <2> QED BY <1>2, <1>3, <2>1, <2>4, <2>5, <2>6 DEF SchedOK, E
<1> QED BY <1>4, <1>5, <1>6

(* schedule() changes who is current and nothing else that a process can   *)
(* see; who gets the CPU is runnable.                                      *)
LEMMA ScheduleOK ==
  ASSUME NEW T, SchedOK(T)
  PROVE  /\ SchedOK(Schedule(T))
         /\ Schedule(T).state = T.state
         /\ Schedule(T).wait = T.wait
         /\ Schedule(T).oops = T.oops
         /\ T.state[Schedule(T).cur] = "RUNNABLE"
<1> DEFINE C == [T EXCEPT !.resched[T.cur] = FALSE]
           D == IF C.state[C.cur] = "RUNNABLE" THEN Enqueue(C, C.cur) ELSE C
<1>1. T \in SchedType /\ RunQueueExact(T) /\ WaitStateExact(T)
  BY DEF SchedOK
<1>2. /\ C \in SchedType /\ C.state = T.state /\ C.wait = T.wait
      /\ C.cur = T.cur /\ C.rq = T.rq /\ C.oops = T.oops
  BY <1>1 DEF SchedType
<1>3. RunQueueExact(C) /\ WaitStateExact(C)
  <2> HIDE DEF C
  <2> QED BY <1>1, <1>2 DEF RunQueueExact, WaitStateExact
<1>4. Schedule(T) = Dispatch(D)
  BY DEF Schedule
<1>5. /\ D \in SchedType /\ D.state = T.state /\ D.wait = T.wait
      /\ D.oops = T.oops
      /\ \A i, j \in DOMAIN D.rq : D.rq[i] = D.rq[j] => i = j
      /\ \A p \in Proc : p \in ToSet(D.rq)
                           <=> T.state[p] = "RUNNABLE" /\ p # Idle
  <2> HIDE DEF C
  <2>1. CASE C.state[C.cur] # "RUNNABLE"
    BY <1>2, <1>3, <2>1 DEF RunQueueExact
  <2>2. CASE C.state[C.cur] = "RUNNABLE" /\ C.cur = Idle
    <3>1. D = C
      BY <2>2 DEF Enqueue
    <3> QED BY <1>2, <1>3, <2>2, <3>1 DEF RunQueueExact
  <2>3. CASE C.state[C.cur] = "RUNNABLE" /\ C.cur # Idle
    <3>1. C.cur \in Proc /\ C.cur \notin ToSet(C.rq)
      BY <1>2, <1>3 DEF RunQueueExact, SchedType
    <3>2. \A i, j \in DOMAIN C.rq : C.rq[i] = C.rq[j] => i = j
      BY <1>3 DEF RunQueueExact
    <3> DEFINE E == Enqueue(C, C.cur)
    <3>3. /\ E \in SchedType /\ E.state = C.state /\ E.wait = C.wait
          /\ E.oops = C.oops /\ ToSet(E.rq) = ToSet(C.rq) \cup {C.cur}
          /\ \A i, j \in DOMAIN E.rq : E.rq[i] = E.rq[j] => i = j
      BY <1>2, <2>3, <3>1, <3>2, EnqueueOK
    <3>4. D = E
      BY <2>3
    <3> HIDE DEF D, E
    <3> QED BY <1>2, <1>3, <2>3, <3>1, <3>3, <3>4 DEF RunQueueExact
  <2> QED BY <2>1, <2>2, <2>3
<1> HIDE DEF D
<1>6. CASE D.rq = <<>>
  <2>1. ToSet(D.rq) = {}
    BY <1>6 DEF ToSet
  <2> DEFINE N == [D EXCEPT !.cur = Idle]
  <2>2. /\ N \in SchedType /\ N.state = T.state /\ N.wait = T.wait
        /\ N.oops = T.oops /\ N.cur = Idle /\ N.rq = D.rq
    BY <1>5, IdleAssumption DEF SchedType
  <2>3. Schedule(T) = N
    BY <1>4, <1>6 DEF Dispatch
  <2> HIDE DEF N
  <2>4. RunQueueExact(N) /\ WaitStateExact(N)
    BY <1>1, <1>5, <2>1, <2>2 DEF RunQueueExact, WaitStateExact
  <2> QED BY <1>1, <2>2, <2>3, <2>4 DEF SchedOK, WaitStateExact
<1>7. CASE D.rq # <<>>
  <2>0. D.rq \in Seq(Proc)
    BY <1>5 DEF SchedType
  <2>1. /\ Tail(D.rq) \in Seq(Proc)
        /\ Head(D.rq) \in Proc /\ Head(D.rq) \in ToSet(D.rq)
        /\ ToSet(Tail(D.rq)) = ToSet(D.rq) \ {Head(D.rq)}
        /\ \A i, j \in DOMAIN Tail(D.rq) :
             Tail(D.rq)[i] = Tail(D.rq)[j] => i = j
    BY <1>5, <1>7, <2>0, TailFacts
  <2> DEFINE h == Head(D.rq)
             t == Tail(D.rq)
             N == [D EXCEPT !.cur = h, !.rq = t]
  <2>3. Schedule(T) = N
    BY <1>4, <1>7 DEF Dispatch
  <2> HIDE DEF h, t
  <2>2. /\ N \in SchedType /\ N.state = T.state /\ N.wait = T.wait
        /\ N.oops = T.oops /\ N.cur = h /\ N.rq = t
    BY <1>5, <2>1 DEF SchedType, h, t
  <2> HIDE DEF N
  <2>4. T.state[h] = "RUNNABLE" /\ h # Idle
    BY <1>5, <2>1 DEF h
  <2>5. RunQueueExact(N)
    BY <1>5, <2>1, <2>2, <2>4 DEF RunQueueExact, h, t
  <2>6. WaitStateExact(N)
    BY <1>1, <2>2, <2>4 DEF WaitStateExact
  <2> QED BY <2>2, <2>3, <2>4, <2>5, <2>6 DEF SchedOK
<1> QED BY <1>6, <1>7

(* The clock tick touches the slice and need_resched of the current        *)
(* process only.                                                           *)
LEMMA ProcTickOK ==
  ASSUME NEW T, SchedOK(T)
  PROVE  /\ SchedOK(ProcTick(T))
         /\ ProcTick(T).state = T.state
         /\ ProcTick(T).wait = T.wait
         /\ ProcTick(T).cur = T.cur
         /\ ProcTick(T).oops = T.oops
<1> DEFINE N == ProcTick(T)
<1>1. T \in SchedType /\ RunQueueExact(T) /\ WaitStateExact(T)
  BY DEF SchedOK
<1>2. T.cur \in Proc /\ T.slice[T.cur] \in 0..MaxSlice
      /\ T.resched[T.cur] \in BOOLEAN
  BY <1>1 DEF SchedType
<1>3. /\ N \in SchedType /\ N.state = T.state /\ N.wait = T.wait
      /\ N.cur = T.cur /\ N.rq = T.rq /\ N.oops = T.oops
  <2>1. CASE T.cur = Idle
    BY <1>1, <1>2, <2>1, IdleAssumption DEF ProcTick, SchedType
  <2>2. CASE T.cur # Idle
    <3> DEFINE left == IF T.slice[T.cur] > 0 THEN T.slice[T.cur] - 1
                                             ELSE T.slice[T.cur]
               r == T.resched[T.cur] \/ left = 0
    <3>1. left \in 0..MaxSlice /\ r \in BOOLEAN
      BY <1>2, SliceAssumption
    <3>2. N = [T EXCEPT !.slice[T.cur] = left, !.resched[T.cur] = r]
      BY <1>1, <1>2, <2>2 DEF ProcTick, SchedType
    <3> HIDE DEF left, r, N
    <3> QED BY <1>1, <1>2, <3>1, <3>2 DEF SchedType
  <2> QED BY <2>1, <2>2
<1> HIDE DEF N
<1>4. RunQueueExact(N) /\ WaitStateExact(N)
  BY <1>1, <1>3 DEF RunQueueExact, WaitStateExact
<1> QED BY <1>3, <1>4 DEF SchedOK, N

(* A process other than idleproc goes to sleep, still current.             *)
LEMMA BlockOK ==
  ASSUME NEW T, SchedOK(T), T.cur # Idle, NEW w \in WaitState \ {"NONE"}
  PROVE  /\ SchedOK(Block(T, w))
         /\ Block(T, w).state = [T.state EXCEPT ![T.cur] = "SLEEPING"]
         /\ Block(T, w).wait = [T.wait EXCEPT ![T.cur] = w]
         /\ Block(T, w).cur = T.cur
         /\ Block(T, w).oops = T.oops
<1> DEFINE N == Block(T, w)
<1>1. T \in SchedType /\ RunQueueExact(T) /\ WaitStateExact(T)
  BY DEF SchedOK
<1>2. /\ N \in SchedType /\ N.cur = T.cur /\ N.rq = T.rq /\ N.oops = T.oops
      /\ N.state = [T.state EXCEPT ![T.cur] = "SLEEPING"]
      /\ N.wait = [T.wait EXCEPT ![T.cur] = w]
  BY <1>1 DEF Block, SchedType, ProcState, WaitState
<1> HIDE DEF N
<1>3. RunQueueExact(N) /\ WaitStateExact(N)
  BY <1>1, <1>2, IdleAssumption DEF RunQueueExact, WaitStateExact, SchedType
<1> QED BY <1>2, <1>3 DEF SchedOK, N

(* An assert leaves the scheduler state alone.                             *)
LEMMA KAssertOK ==
  ASSUME NEW T, SchedOK(T), NEW c \in BOOLEAN
  PROVE  /\ SchedOK(KAssert(T, c))
         /\ KAssert(T, c).state = T.state
         /\ KAssert(T, c).wait = T.wait
         /\ KAssert(T, c).cur = T.cur
         /\ KAssert(T, c).oops = (T.oops \/ ~c)
<1> DEFINE N == KAssert(T, c)
<1>1. T \in SchedType /\ RunQueueExact(T) /\ WaitStateExact(T)
  BY DEF SchedOK
<1>2. /\ N \in SchedType /\ N.cur = T.cur /\ N.rq = T.rq
      /\ N.state = T.state /\ N.wait = T.wait /\ N.oops = (T.oops \/ ~c)
  BY <1>1 DEF KAssert, SchedType
<1> HIDE DEF N
<1>3. RunQueueExact(N) /\ WaitStateExact(N)
  BY <1>1, <1>2 DEF RunQueueExact, WaitStateExact
<1> QED BY <1>2, <1>3 DEF SchedOK, N

-----------------------------------------------------------------------------
(***************************************************************************)
(* What add_timer, del_timer and the steps of run_timer_list do to the     *)
(* timer list, for any number of timers: no entry gets a negative count,   *)
(* the first one is never due outside the interrupt handler, and a process *)
(* has at most one timer.                                                  *)
(***************************************************************************)

(* timer_t, with the process it wakes.                                     *)
TimerT(P) == [proc : P, expires : Nat]

(* A timer list over the processes P: at most one entry per process.       *)
TimerList(P, tl) ==
  /\ tl \in Seq(TimerT(P))
  /\ \A i, j \in DOMAIN tl : tl[i].proc = tl[j].proc => i = j

(* The first entry still has ticks to go.                                  *)
HeadPending(tl) == tl # <<>> => tl[1].expires > 0

(* The empty list is a timer list, and no process owns an entry of it.     *)
LEMMA EmptyTimers ==
  ASSUME NEW P
  PROVE  TimerList(P, <<>>) /\ HeadPending(<<>>) /\ TimerOwners(<<>>) = {}
BY DEF TimerList, HeadPending, TimerOwners

(* The owners of the entries of a timer list are processes.                *)
LEMMA OwnersIn ==
  ASSUME NEW P, NEW tl, TimerList(P, tl)
  PROVE  TimerOwners(tl) \subseteq P
<1>1. \A i \in DOMAIN tl : tl[i] \in TimerT(P)
  BY ListIs DEF TimerList
<1> QED BY <1>1 DEF TimerOwners, TimerT

(* add_timer: the new timer is in the list and the others stay.            *)
LEMMA InsertTimerOK ==
  ASSUME NEW P, NEW tl, TimerList(P, tl), HeadPending(tl),
         NEW p \in P, p \notin TimerOwners(tl), NEW t \in Nat \ {0},
         NEW k \in 1..(Len(tl) + 1), NEW r \in [1..k -> 0..t],
         AddWalk(tl, t, k, r)
  PROVE  /\ TimerList(P, InsertTimer(tl, k, p, r[k]))
         /\ HeadPending(InsertTimer(tl, k, p, r[k]))
         /\ TimerOwners(InsertTimer(tl, k, p, r[k])) = TimerOwners(tl) \cup {p}
<1> DEFINE n == Len(tl)
           A == TimerT(P)
           left == r[k]
           f == [i \in DOMAIN tl |->
                   IF i = k THEN [tl[i] EXCEPT !.expires = @ - left] ELSE tl[i]]
           e == [proc |-> p, expires |-> left]
           u == InsertTimer(tl, k, p, left)
<1>1. /\ tl \in Seq(A) /\ n \in Nat /\ DOMAIN tl = 1..n
      /\ \A i \in 1..n : tl[i] \in A
  BY ListIs DEF TimerList
<1>2. left \in Nat /\ (k <= n => left < tl[k].expires) /\ (k = 1 => left = t)
  <2>1. k \in 1..k
    BY <1>1
  <2> QED BY <1>1, <2>1 DEF AddWalk
<1> HIDE DEF left, n
<1>3. /\ f \in [1..n -> A]
      /\ \A i \in 1..n : f[i].proc = tl[i].proc
      /\ \A i \in 1..n : i # k => f[i] = tl[i]
  <2>1. \A i \in 1..n : f[i] \in A /\ f[i].proc = tl[i].proc
                        /\ (i # k => f[i] = tl[i])
    <3> SUFFICES ASSUME NEW i \in 1..n
                 PROVE  f[i] \in A /\ f[i].proc = tl[i].proc
                        /\ (i # k => f[i] = tl[i])
      OBVIOUS
    <3>1. tl[i] \in A
      BY <1>1
    <3>2. CASE i = k
      <4>1. f[i] = [tl[i] EXCEPT !.expires = @ - left]
        BY <1>1, <3>2
      <4>2. tl[i].expires - left \in Nat
        BY <1>1, <1>2, <3>1, <3>2 DEF TimerT
      <4> QED BY <3>1, <3>2, <4>1, <4>2 DEF TimerT
    <3>3. CASE i # k
      BY <1>1, <3>1, <3>3
    <3> QED BY <3>2, <3>3
  <2>2. f = [i \in 1..n |-> f[i]]
    BY <1>1
  <2> HIDE DEF f
  <2> QED BY <2>1, <2>2
<1>4. f \in Seq(A) /\ Len(f) = n
  BY <1>1, <1>3, IsList
<1>5. e \in A /\ e.proc = p /\ e.expires = left
  BY <1>2 DEF TimerT
<1>6. u = InsertAt(f, k, e)
  BY DEF InsertTimer
<1> HIDE DEF f, e, u, A
<1>7. k \in 1..(Len(f) + 1)
  BY <1>4 DEF n
<1>8. /\ u \in Seq(A) /\ Len(u) = n + 1
      /\ \A i \in 1..(n + 1) : u[i] = IF i < k THEN f[i]
                                      ELSE IF i = k THEN e ELSE f[i - 1]
  <2>1. f \in Seq(A) /\ e \in A
    BY <1>4, <1>5
  <2>2. \A j \in 1..(Len(f) + 1) :
          /\ InsertAt(f, j, e) \in Seq(A)
          /\ Len(InsertAt(f, j, e)) = Len(f) + 1
          /\ \A i \in 1..(Len(f) + 1) :
               InsertAt(f, j, e)[i] = IF i < j THEN f[i]
                                      ELSE IF i = j THEN e ELSE f[i - 1]
    BY <2>1, InsertAtIs
  <2> QED BY <1>4, <1>6, <1>7, <2>2
<1>9. DOMAIN u = 1..(n + 1) /\ k \in 1..(n + 1)
  BY <1>4, <1>7, <1>8
<1>10. \A i \in 1..(n + 1) :
         u[i].proc = IF i < k THEN tl[i].proc
                     ELSE IF i = k THEN p ELSE tl[i - 1].proc
  <2> SUFFICES ASSUME NEW i \in 1..(n + 1)
               PROVE  u[i].proc = IF i < k THEN tl[i].proc
                                  ELSE IF i = k THEN p ELSE tl[i - 1].proc
    OBVIOUS
  <2>1. (i < k => i \in 1..n) /\ (i > k => i - 1 \in 1..n)
    BY <1>1, <1>9
  <2>2. i < k \/ i = k \/ i > k
    BY <1>9
  <2> QED BY <1>3, <1>5, <1>8, <1>9, <2>1, <2>2
<1>11. ASSUME NEW i \in 1..(n + 1), NEW j \in 1..(n + 1),
              u[i].proc = u[j].proc
       PROVE  i = j
  <2> DEFINE g(x) == IF x < k THEN x ELSE x - 1
  <2>1. \A x \in 1..n : tl[x].proc # p
    BY <1>1 DEF TimerOwners
  <2>2. \A x \in 1..(n + 1) : x # k => g(x) \in 1..n /\ u[x].proc = tl[g(x)].proc
    BY <1>1, <1>9, <1>10
  <2>3. u[k].proc = p
    BY <1>9, <1>10
  <2>4. CASE i = k \/ j = k
    BY <1>11, <2>1, <2>2, <2>3, <2>4
  <2>5. CASE i # k /\ j # k
    <3>1. g(i) = g(j)
      <4> HIDE DEF g
      <4> QED BY <1>1, <1>11, <2>2, <2>5 DEF TimerList
    <3> QED BY <1>9, <2>5, <3>1
  <2> QED BY <2>4, <2>5
<1>12. TimerList(P, u)
  BY <1>8, <1>9, <1>11 DEF TimerList, A
<1>13. HeadPending(u)
  <2>1. CASE k = 1
    BY <1>2, <1>5, <1>8, <1>9, <2>1 DEF HeadPending
  <2>2. CASE k # 1
    <3>1. 1 < k /\ 1 \in 1..n /\ 1 \in 1..(n + 1) /\ tl # <<>>
      BY <1>1, <1>9, <2>2
    <3>2. u[1] = tl[1]
      BY <1>3, <1>8, <3>1
    <3> QED BY <3>1, <3>2 DEF HeadPending
  <2> QED BY <2>1, <2>2
<1>14. TimerOwners(u) = TimerOwners(tl) \cup {p}
  <2>1. ASSUME NEW x \in TimerOwners(u) PROVE x \in TimerOwners(tl) \cup {p}
    <3>1. PICK i \in 1..(n + 1) : x = u[i].proc
      BY <1>9 DEF TimerOwners
    <3>2. i < k => i \in 1..n
      BY <1>1, <1>9
    <3>3. i > k => i - 1 \in 1..n
      BY <1>1, <1>9
    <3>4. i < k \/ i = k \/ (i > k /\ ~(i < k) /\ i # k)
      BY <1>9
    <3>5. CASE i < k
      BY <1>1, <1>10, <3>1, <3>2, <3>5 DEF TimerOwners
    <3>6. CASE i = k
      <4>1. ~(k < k)
        BY <1>9
      <4> QED BY <1>10, <3>1, <3>6, <4>1
    <3>7. CASE i > k /\ ~(i < k) /\ i # k
      <4>1. x = tl[i - 1].proc
        BY <1>10, <3>1, <3>7
      <4> QED BY <1>1, <3>3, <3>7, <4>1 DEF TimerOwners
    <3> QED BY <3>4, <3>5, <3>6, <3>7
  <2>2. ASSUME NEW x \in TimerOwners(tl) PROVE x \in TimerOwners(u)
    <3>1. PICK i \in 1..n : x = tl[i].proc
      BY <1>1 DEF TimerOwners
    <3>2. CASE i < k
      <4>1. i \in 1..(n + 1)
        BY <1>1
      <4> QED BY <1>9, <1>10, <3>1, <3>2, <4>1 DEF TimerOwners
    <3>3. CASE ~(i < k)
      <4>1. i + 1 \in 1..(n + 1) /\ ~(i + 1 < k) /\ i + 1 # k /\ (i + 1) - 1 = i
        BY <1>1, <1>9, <3>3
      <4>2. u[i + 1].proc = x
        BY <1>10, <3>1, <4>1
      <4> QED BY <1>9, <4>1, <4>2 DEF TimerOwners
    <3> QED BY <3>2, <3>3
  <2>3. p \in TimerOwners(u)
    <3>1. u[k].proc = p
      BY <1>9, <1>10
    <3> QED BY <1>9, <3>1 DEF TimerOwners
  <2> QED BY <2>1, <2>2, <2>3
<1> QED BY <1>12, <1>13, <1>14 DEF u, left

(* del_timer: the timer of p is gone and the others stay.                  *)
LEMMA DelTimerOK ==
  ASSUME NEW P, NEW tl, TimerList(P, tl), HeadPending(tl), NEW p \in P
  PROVE  /\ TimerList(P, DelTimer(tl, p))
         /\ HeadPending(DelTimer(tl, p))
         /\ TimerOwners(DelTimer(tl, p)) = TimerOwners(tl) \ {p}
<1>1. CASE p \notin TimerOwners(tl)
  BY <1>1 DEF DelTimer
<1>2. CASE p \in TimerOwners(tl)
  <2> DEFINE n == Len(tl)
             A == TimerT(P)
             k == CHOOSE i \in DOMAIN tl : tl[i].proc = p
             f == [i \in DOMAIN tl |->
                     IF i = k + 1
                     THEN [tl[i] EXCEPT !.expires = @ + tl[k].expires]
                     ELSE tl[i]]
             u == DelTimer(tl, p)
  <2>1. /\ tl \in Seq(A) /\ n \in Nat /\ DOMAIN tl = 1..n
        /\ \A i \in 1..n : tl[i] \in A
    BY ListIs DEF TimerList
  <2>2. k \in 1..n /\ tl[k].proc = p
    BY <1>2, <2>1 DEF TimerOwners
  <2>3. u = RemoveAt(f, k)
    BY <1>2 DEF DelTimer
  <2> HIDE DEF k, n
  <2>4. \A i \in 1..n : /\ f[i] \in A /\ f[i].proc = tl[i].proc
                        /\ f[i].expires >= tl[i].expires
                        /\ (i = k + 1 => f[i].expires = tl[i].expires + tl[k].expires)
                        /\ (i # k + 1 => f[i] = tl[i])
    <3> SUFFICES ASSUME NEW i \in 1..n
                 PROVE  /\ f[i] \in A /\ f[i].proc = tl[i].proc
                        /\ f[i].expires >= tl[i].expires
                        /\ (i = k + 1 => f[i].expires = tl[i].expires + tl[k].expires)
                        /\ (i # k + 1 => f[i] = tl[i])
      OBVIOUS
    <3>1. tl[i] \in A /\ tl[k] \in A
      BY <2>1, <2>2
    <3>2. CASE i = k + 1
      <4>1. f[i] = [tl[i] EXCEPT !.expires = @ + tl[k].expires]
        BY <2>1, <3>2
      <4> QED BY <3>1, <3>2, <4>1 DEF TimerT
    <3>3. CASE i # k + 1
      <4>1. f[i] = tl[i]
        BY <2>1, <3>3
      <4> QED BY <3>1, <3>3, <4>1 DEF TimerT
    <3> QED BY <3>2, <3>3
  <2>5. f \in [1..n -> A]
    <3>1. f = [i \in 1..n |-> f[i]]
      BY <2>1
    <3> HIDE DEF f
    <3> QED BY <2>4, <3>1
  <2>6. f \in Seq(A) /\ Len(f) = n
    BY <2>1, <2>5, IsList
  <2> HIDE DEF f, u, A
  <2>7. k \in 1..Len(f)
    BY <2>2, <2>6
  <2>8. /\ u \in Seq(A) /\ Len(u) = n - 1
        /\ \A i \in 1..(n - 1) : u[i] = IF i < k THEN f[i] ELSE f[i + 1]
    BY <2>3, <2>6, <2>7, RemoveAtIs
  <2>9. DOMAIN u = 1..(n - 1)
    BY <2>8, <2>1
  <2> DEFINE g(x) == IF x < k THEN x ELSE x + 1
  <2>10. \A x \in 1..(n - 1) : g(x) \in 1..n /\ g(x) # k
                               /\ u[x] = f[g(x)] /\ u[x].proc = tl[g(x)].proc
    <3> SUFFICES ASSUME NEW x \in 1..(n - 1)
                 PROVE  g(x) \in 1..n /\ g(x) # k
                        /\ u[x] = f[g(x)] /\ u[x].proc = tl[g(x)].proc
      OBVIOUS
    <3>1. g(x) \in 1..n /\ g(x) # k
      BY <2>1, <2>2
    <3>2. u[x] = f[g(x)]
      BY <2>8
    <3> QED BY <2>4, <3>1, <3>2
  <2>11. \A x, y \in 1..(n - 1) : g(x) = g(y) => x = y
    BY <2>1, <2>2
  <2>12. \A y \in 1..n : y # k => \E x \in 1..(n - 1) : g(x) = y
    <3> SUFFICES ASSUME NEW y \in 1..n, y # k
                 PROVE  \E x \in 1..(n - 1) : g(x) = y
      OBVIOUS
    <3>1. CASE y < k
      <4>1. y \in 1..(n - 1) /\ g(y) = y
        BY <2>1, <2>2, <3>1
      <4> QED BY <4>1
    <3>2. CASE ~(y < k)
      <4>1. y - 1 \in 1..(n - 1) /\ g(y - 1) = y
        BY <2>1, <2>2, <3>2
      <4> QED BY <4>1
    <3> QED BY <3>1, <3>2
  <2>13. HeadPending(u)
    <3> SUFFICES ASSUME u # <<>> PROVE u[1].expires > 0
      BY DEF HeadPending
    <3>1. 1 \in 1..(n - 1) /\ tl # <<>> /\ 1 \in 1..n
      BY <2>1, <2>8
    <3>2. tl[1].expires > 0 /\ tl[1] \in A /\ tl[k] \in A
      BY <2>1, <2>2, <3>1 DEF HeadPending
    <3>3. CASE k = 1
      <4>1. u[1] = f[2] /\ 2 \in 1..n
        BY <2>1, <2>8, <3>1, <3>3
      <4>2. f[2].expires = tl[2].expires + tl[1].expires /\ tl[2] \in A
        BY <2>1, <2>4, <3>3, <4>1
      <4> QED BY <3>2, <4>1, <4>2 DEF A, TimerT
    <3>4. CASE k # 1
      <4>1. u[1] = f[1]
        BY <2>2, <2>8, <3>1, <3>4
      <4>2. f[1] \in A /\ f[1].expires >= tl[1].expires
        BY <2>4, <3>1
      <4> QED BY <3>2, <4>1, <4>2 DEF A, TimerT
    <3> QED BY <3>3, <3>4
  <2> HIDE DEF g
  <2>14. TimerList(P, u)
    <3>1. ASSUME NEW x \in 1..(n - 1), NEW y \in 1..(n - 1), u[x].proc = u[y].proc
          PROVE  x = y
      <4>1. g(x) = g(y)
        BY <2>1, <2>10, <3>1 DEF TimerList
      <4> QED BY <2>11, <4>1
    <3> QED BY <2>8, <2>9, <3>1 DEF TimerList, A
  <2>15. TimerOwners(u) = TimerOwners(tl) \ {p}
    <3>1. ASSUME NEW x \in TimerOwners(u) PROVE x \in TimerOwners(tl) \ {p}
      <4>1. PICK i \in 1..(n - 1) : x = u[i].proc
        BY <2>9 DEF TimerOwners
      <4>2. tl[g(i)].proc # p
        BY <2>1, <2>2, <2>10 DEF TimerList
      <4> QED BY <2>1, <2>10, <4>1, <4>2 DEF TimerOwners
    <3>2. ASSUME NEW x \in TimerOwners(tl) \ {p} PROVE x \in TimerOwners(u)
      <4>1. PICK i \in 1..n : x = tl[i].proc /\ i # k
        BY <2>1, <2>2 DEF TimerOwners
      <4>2. PICK j \in 1..(n - 1) : g(j) = i
        BY <2>12, <4>1
      <4>3. u[j].proc = x
        BY <2>10, <4>1, <4>2
      <4> QED BY <2>9, <4>3 DEF TimerOwners
    <3> QED BY <3>1, <3>2
  <2> QED BY <2>13, <2>14, <2>15 DEF u
<1> QED BY <1>1, <1>2

(* The first step of run_timer_list.                                       *)
LEMMA CountDownOK ==
  ASSUME NEW P, NEW tl, TimerList(P, tl), HeadPending(tl)
  PROVE  TimerList(P, CountDown(tl)) /\ TimerOwners(CountDown(tl)) = TimerOwners(tl)
<1>1. CASE tl = <<>>
  BY <1>1 DEF CountDown
<1>2. CASE tl # <<>>
  <2> DEFINE n == Len(tl)
             A == TimerT(P)
             e == [tl[1] EXCEPT !.expires = @ - 1]
             u == [tl EXCEPT ![1] = e]
  <2>1. /\ tl \in Seq(A) /\ n \in Nat /\ DOMAIN tl = 1..n
        /\ \A i \in 1..n : tl[i] \in A
    BY ListIs DEF TimerList
  <2>2. 1 \in 1..n /\ tl[1] \in A /\ tl[1].expires > 0
    BY <1>2, <2>1 DEF HeadPending
  <2>3. CountDown(tl) = u
    BY <1>2 DEF CountDown
  <2>4. e \in A /\ e.proc = tl[1].proc
    BY <2>2 DEF TimerT
  <2> HIDE DEF e, A
  <2>5. u \in Seq(A) /\ DOMAIN u = 1..n /\ \A i \in 1..n : u[i].proc = tl[i].proc
    BY <2>1, <2>2, <2>4
  <2> HIDE DEF u
  <2>6. TimerList(P, u)
    BY <2>1, <2>5 DEF TimerList, A
  <2>7. TimerOwners(u) = TimerOwners(tl)
    BY <2>1, <2>5 DEF TimerOwners
  <2> QED BY <2>3, <2>6, <2>7
<1> QED BY <1>1, <1>2

(* The timer that has expired is dropped.                                  *)
LEMMA DropTimerOK ==
  ASSUME NEW P, NEW tl, TimerList(P, tl), tl # <<>>
  PROVE  /\ TimerList(P, Tail(tl))
         /\ tl[1].proc \in TimerOwners(tl)
         /\ TimerOwners(tl) \subseteq P
         /\ TimerOwners(Tail(tl)) = TimerOwners(tl) \ {tl[1].proc}
<1> DEFINE n == Len(tl)
           A == TimerT(P)
           u == Tail(tl)
<1>0. /\ tl \in Seq(A) /\ n \in Nat /\ DOMAIN tl = 1..n
      /\ \A i \in 1..n : tl[i] \in A
  BY ListIs DEF TimerList
<1> HIDE DEF A
<1>1. /\ tl \in Seq(A) /\ n \in Nat \ {0} /\ DOMAIN tl = 1..n
      /\ \A i \in 1..n : tl[i] \in A
  BY <1>0
<1>2. /\ u \in Seq(A) /\ Len(u) = n - 1
      /\ \A i \in 1..(n - 1) : u[i] = tl[i + 1]
  BY <1>1
<1>3. DOMAIN u = 1..(n - 1)
  BY <1>1, <1>2
<1> HIDE DEF n, u
<1>4. 1 \in 1..n /\ \A i \in 1..(n - 1) : i + 1 \in 1..n /\ i + 1 # 1
  BY <1>1
<1>5. ASSUME NEW x \in 1..(n - 1), NEW y \in 1..(n - 1), u[x].proc = u[y].proc
      PROVE  x = y
  <2>1. x + 1 = y + 1
    BY <1>1, <1>2, <1>4, <1>5 DEF TimerList
  <2> QED BY <2>1, <1>1
<1>6. TimerList(P, u)
  BY <1>2, <1>3, <1>5 DEF TimerList, A
<1>7. tl[1].proc \in TimerOwners(tl) /\ TimerOwners(tl) \subseteq P
  BY <1>1, <1>4 DEF TimerOwners, A, TimerT
<1>8. ASSUME NEW x \in TimerOwners(u) PROVE x \in TimerOwners(tl) \ {tl[1].proc}
  <2>1. PICK i \in 1..(n - 1) : x = tl[i + 1].proc
    BY <1>2, <1>3 DEF TimerOwners
  <2>2. tl[i + 1].proc # tl[1].proc
    BY <1>1, <1>4 DEF TimerList
  <2> QED BY <1>1, <1>4, <2>1, <2>2 DEF TimerOwners
<1>9. ASSUME NEW x \in TimerOwners(tl) \ {tl[1].proc} PROVE x \in TimerOwners(u)
  <2>1. PICK i \in 1..n : x = tl[i].proc /\ i # 1
    BY <1>1 DEF TimerOwners
  <2>2. i - 1 \in 1..(n - 1) /\ (i - 1) + 1 = i
    BY <1>1, <2>1
  <2>3. u[i - 1] = tl[i]
    BY <1>2, <2>2
  <2> QED BY <1>3, <2>1, <2>2, <2>3 DEF TimerOwners
<1> QED BY <1>6, <1>7, <1>8, <1>9 DEF u

=============================================================================
