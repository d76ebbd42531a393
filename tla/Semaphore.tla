----------------------------- MODULE Semaphore -----------------------------
(***************************************************************************)
(* Semaphores and wait queues (kern/sync/sem.c, wait.c) on the scheduler   *)
(* of SchedOps, used by kernel threads.                                    *)
(*                                                                         *)
(* A kernel thread is not preempted: it gives up the CPU only by calling   *)
(* schedule().  A timer interrupt may come at any of its steps, and wakes  *)
(* threads that sleep in do_sleep.  The specification below lets every     *)
(* thread call up, down, try_down and do_sleep in any order; a program     *)
(* that uses semaphores restricts it.  A wait_t lives on the stack of the  *)
(* thread that sleeps, so that the thread names it.                        *)
(***************************************************************************)
EXTENDS SchedOps, FiniteSets

CONSTANTS
  Sem,        (* the semaphores                                            *)
  Value0,     (* the values given to sem_init                              *)
  MaxValue    (* bound: no up() of a semaphore that has this value         *)

ASSUME ProcAssumption  == IsFiniteSet(Proc)
ASSUME SemAssumption   == Sem # {}
ASSUME ValueAssumption == Value0 \in [Sem -> Nat]

VARIABLES
  S,       (* scheduler state, see SchedOps                                *)
  value,   (* sem->value                                                   *)
  queue,   (* sem->wait_queue, first to last                               *)
  flags,   (* wakeup_flags of the wait_t of each thread                    *)
  on,      (* the semaphore that a thread in __down was called with        *)
  pc       (* "run" in the thread's own code, else where it is in the      *)
           (* kernel function it has called                                *)

vars == <<S, value, queue, flags, on, pc>>

Thread == Proc \ {Idle}

TypeOK ==
  /\ S \in SchedType
  /\ value \in [Sem -> Nat]
  /\ queue \in [Sem -> Seq(Proc)]
  /\ flags \in [Thread -> {"INTERRUPTED", "KSEM"}]
  /\ on \in [Thread -> Sem]
  /\ pc \in [Thread -> {"run", "down1", "down2", "sleep1", "sleep2",
                        "exit1", "dead"}]

(* The threads have been created and idleproc is about to schedule.        *)
Init ==
  /\ \E q \in [1..Cardinality(Thread) -> Thread] :
       /\ \A t \in Thread : \E i \in DOMAIN q : q[i] = t
       /\ S = [ state   |-> [p \in Proc |-> "RUNNABLE"],
                wait    |-> [p \in Proc |-> "NONE"],
                cur     |-> Idle,
                rq      |-> q,
                slice   |-> [p \in Proc |-> IF p = Idle THEN 0 ELSE MaxSlice],
                resched |-> [p \in Proc |-> p = Idle],
                oops    |-> FALSE ]
  /\ value = Value0
  /\ queue = [s \in Sem |-> <<>>]
  /\ flags = [p \in Thread |-> "INTERRUPTED"]
  /\ on = [p \in Thread |-> CHOOSE s \in Sem : TRUE]   (* not read yet *)
  /\ pc = [p \in Thread |-> "run"]

-----------------------------------------------------------------------------

At(p, l) == ~S.oops /\ S.cur = p /\ pc[p] = l

Goto(p, l) == pc' = [pc EXCEPT ![p] = l]

(* down() when a unit is there ...                                         *)
DownTakes(p, s) ==
  /\ At(p, "run")
  /\ value[s] > 0
  /\ value' = [value EXCEPT ![s] = @ - 1]
  /\ UNCHANGED <<S, queue, flags, on, pc>>

(* ... and when there is none: wait_current_set, up to schedule().         *)
DownWaits(p, s) ==
  /\ At(p, "run")
  /\ ~(value[s] > 0)
  /\ S' = Block(S, "KSEM")
  /\ queue' = [queue EXCEPT ![s] = Append(@, p)]
  /\ flags' = [flags EXCEPT ![p] = "INTERRUPTED"]
  /\ on' = [on EXCEPT ![p] = s]
  /\ Goto(p, "down1")
  /\ UNCHANGED value

Down(p, s) == DownTakes(p, s) \/ DownWaits(p, s)

DownSchedule(p) ==
  /\ At(p, "down1")
  /\ S' = Schedule(S)
  /\ Goto(p, "down2")
  /\ UNCHANGED <<value, queue, flags, on>>

(* wait_current_del, and the assert of down() on the result of __down().   *)
DownReturns(p) ==
  /\ At(p, "down2")
  /\ queue' = [queue EXCEPT ![on[p]] = IF p \in ToSet(@) THEN Remove(@, p)
                                                        ELSE @]
  /\ S' = KAssert(S, flags[p] = "KSEM")
  /\ Goto(p, "run")
  /\ UNCHANGED <<value, flags, on>>

(* Fault: the unit handed to a waiting thread is counted as well.          *)
UpEffect_Both(s) ==
  LET w == IF queue[s] = <<>> THEN {} ELSE {Head(queue[s])} IN
  /\ value' = [value EXCEPT ![s] = @ + 1]
  /\ S' = IF w = {} THEN S ELSE WakeupProc(S, Head(queue[s]))
  /\ queue' = [queue EXCEPT ![s] = IF w = {} THEN @ ELSE Tail(@)]
  /\ flags' = [p \in Thread |-> IF p \in w THEN "KSEM" ELSE flags[p]]

(* Fault: the thread that came last is woken first.                        *)
UpEffect_Lifo(s) ==
  LET w == IF queue[s] = <<>> THEN {} ELSE {Last(queue[s])} IN
  /\ value' = [value EXCEPT ![s] = IF w = {} THEN @ + 1 ELSE @]
  /\ S' = IF w = {} THEN S ELSE WakeupProc(S, Last(queue[s]))
  /\ queue' = [queue EXCEPT ![s] = IF w = {} THEN @ ELSE Front(@)]
  /\ flags' = [p \in Thread |-> IF p \in w THEN "KSEM" ELSE flags[p]]

(* __up: a waiting thread is handed the unit, which is not counted.        *)
UpEffect(s) ==
  \/ /\ queue[s] = <<>>
     /\ value' = [value EXCEPT ![s] = @ + 1]
     /\ UNCHANGED <<S, queue, flags>>
  \/ /\ queue[s] # <<>>
     /\ LET w == Head(queue[s]) IN
        /\ S' = WakeupProc(KAssert(S, S.wait[w] = "KSEM"), w)
        /\ flags' = [flags EXCEPT ![w] = "KSEM"]
     /\ queue' = [queue EXCEPT ![s] = Tail(@)]
     /\ UNCHANGED value

Up(p, s) == At(p, "run") /\ UpEffect(s) /\ UNCHANGED <<on, pc>>

(* try_down, which fails when there is no unit.                            *)
TryDown(p, s) == DownTakes(p, s)

(* do_sleep, see ProcLife.                                                 *)
Sleep(p) ==
  /\ At(p, "run")
  /\ S' = Block(S, "TIMER")
  /\ Goto(p, "sleep1")
  /\ UNCHANGED <<value, queue, flags, on>>

SleepSchedule(p) ==
  /\ At(p, "sleep1")
  /\ S' = Schedule(S)
  /\ Goto(p, "sleep2")
  /\ UNCHANGED <<value, queue, flags, on>>

SleepReturns(p) ==
  /\ At(p, "sleep2")
  /\ Goto(p, "run")
  /\ UNCHANGED <<S, value, queue, flags, on>>

(* The thread's function returns: do_exit, see ProcLife.                   *)
Exit(p) ==
  /\ At(p, "run")
  /\ S' = [S EXCEPT !.state[p] = "ZOMBIE"]
  /\ Goto(p, "exit1")
  /\ UNCHANGED <<value, queue, flags, on>>

ExitSchedule(p) ==
  /\ At(p, "exit1")
  /\ S' = Schedule(S)
  /\ Goto(p, "dead")
  /\ UNCHANGED <<value, queue, flags, on>>

(* Fault: any sleeper is woken.                                            *)
Alarm_Anyone(p) ==
  /\ ~S.oops
  /\ S.state[p] = "SLEEPING"
  /\ S' = WakeupProc(S, p)
  /\ UNCHANGED <<value, queue, flags, on, pc>>

(* The timer interrupt wakes a thread whose sleep is over; do_kill wakes   *)
(* such a thread early and no other kind of sleeper of this module.        *)
Alarm(p) ==
  /\ ~S.oops
  /\ S.wait[p] \in Interruptible
  /\ S' = WakeupProc(S, p)
  /\ UNCHANGED <<value, queue, flags, on, pc>>

ClockTick ==
  /\ ~S.oops
  /\ S' = ProcTick(S)
  /\ UNCHANGED <<value, queue, flags, on, pc>>

IdleLoop ==
  /\ ~S.oops
  /\ S.cur = Idle /\ S.resched[Idle]
  /\ S' = Schedule(S)
  /\ UNCHANGED <<value, queue, flags, on, pc>>

-----------------------------------------------------------------------------

(* What the kernel does for thread p once it has been called.              *)
KernelStep(p) ==
  \/ DownSchedule(p) \/ DownReturns(p)
  \/ SleepSchedule(p) \/ SleepReturns(p)
  \/ ExitSchedule(p)

(* What thread p may call.                                                 *)
Call(p) ==
  \/ \E s \in Sem : Down(p, s) \/ TryDown(p, s)
  \/ \E s \in Sem : value[s] < MaxValue /\ Up(p, s)
  \/ Sleep(p) \/ Exit(p)

Interrupt == ClockTick \/ \E p \in Thread : Alarm(p)

Next ==
  \/ \E p \in Thread : Call(p) \/ KernelStep(p)
  \/ IdleLoop
  \/ Interrupt

Spec == Init /\ [][Next]_vars

-----------------------------------------------------------------------------

(* The threads of semaphore s that up() has woken and that have not yet    *)
(* returned from down(): each of them owns a unit.                         *)
Granted(s) ==
  {p \in Thread : pc[p] \in {"down1", "down2"} /\ on[p] = s
                  /\ p \notin ToSet(queue[s])}

(* Refinement: a semaphore counts the units in its value and those handed  *)
(* to threads on their way back from down().                               *)
Count == INSTANCE AtomicSem
           WITH count <- [s \in Sem |-> value[s] + Cardinality(Granted(s))]

(* up() and down() as the code splits them, over wait queues, hand-off and *)
(* schedule(), implement the atomic semaphore: no unit is lost or granted  *)
(* twice however the threads and interrupts interleave.                    *)
Linearizable == Count!Spec

(* No thread waits for a unit that is there, and the wait queues hold,     *)
(* once each, exactly the threads that sleep on their semaphore; the run   *)
(* queue is right as in ProcLife.  The asserts of __up (the first waiter   *)
(* sleeps with WT_KSEM), down() (it was up() that ended the sleep),        *)
(* wakeup_proc and RR_enqueue hold: no interrupt and no kill wakes a       *)
(* thread that waits for a semaphore.                                      *)
QueuesExact ==
  /\ TypeOK /\ ~S.oops
  /\ RunQueueExact(S) /\ WaitStateExact(S)
  /\ \A s \in Sem : value[s] > 0 => queue[s] = <<>>
  /\ \A s \in Sem : \A i, j \in DOMAIN queue[s] :
       queue[s][i] = queue[s][j] => i = j
  /\ \A s \in Sem, p \in Thread :
       p \in ToSet(queue[s]) <=> S.wait[p] = "KSEM" /\ on[p] = s

(* Units are handed out in the order in which the threads asked.           *)
FifoHandOff ==
  [][\A s \in Sem : \A p, q \in ToSet(queue[s]) :
       p \notin ToSet(queue'[s]) /\ q \in ToSet(queue'[s])
         => \E i, j \in DOMAIN queue[s] :
              i < j /\ queue[s][i] = p /\ queue[s][j] = q]_vars

=============================================================================
