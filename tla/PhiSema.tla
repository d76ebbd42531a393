------------------------------ MODULE PhiSema ------------------------------
(***************************************************************************)
(* The dining philosophers of kern/sync/check_sync.c that use semaphores:  *)
(* kernel threads 0..N-1, each with a private semaphore of its own number, *)
(* and the semaphore mutex.  A kernel thread gives up the CPU only inside  *)
(* down() and do_sleep, so that what it does between two calls is one      *)
(* step.                                                                   *)
(***************************************************************************)
EXTENDS Semaphore, PhiTable

CONSTANT mutex

VARIABLE state_sema

semavars == <<vars, state_sema, iter, step>>

(* Each philosopher has a thread and a semaphore of its own, and only the  *)
(* mutex is initialised with a unit.                                       *)
SemaSeats ==
  /\ AtLeastTwo /\ Thread = Phil
  /\ mutex \notin Phil /\ Sem = Phil \cup {mutex}
  /\ Value0 = [s \in Sem |-> IF s = mutex THEN 1 ELSE 0]

SemaTypeOK ==
  /\ TypeOK
  /\ \A s \in Sem : value[s] <= 1
  /\ state_sema \in [Phil -> {"THINKING", "HUNGRY", "EATING"}]
  /\ iter \in [Phil -> 1..TIMES]
  /\ step \in [Phil -> {"think", "take", "hungry", "leave", "wait", "eat", "put",
                        "left", "right", "done", "quit"}]

(* check_sync has created the threads, in the order of their numbers.      *)
SemaInit ==
  /\ Init
  /\ S.rq = [k \in 1..N |-> k - 1]
  /\ state_sema = [i \in Phil |-> "THINKING"]
  /\ iter = [i \in Phil |-> 1]
  /\ step = [i \in Phil |-> "think"]

-----------------------------------------------------------------------------

(* phi_test_sema(j) by philosopher i, when state_sema has become st.       *)
phi_test_sema(i, j, st) ==
  \/ /\ CanEat(st, j)
     /\ state_sema' = [st EXCEPT ![j] = "EATING"]
     /\ Up(i, j)
  \/ /\ ~CanEat(st, j)
     /\ state_sema' = st
     /\ At(i, "run") /\ UNCHANGED vars

ThinkSema(i) ==
  /\ Step(i, "think", "take")
  /\ Sleep(i)
  /\ UNCHANGED <<state_sema, iter>>

(* phi_take_forks_sema *)
TakeForksSema(i) ==
  \/ /\ Step(i, "take", "hungry")
     /\ Down(i, mutex)
     /\ UNCHANGED <<state_sema, iter>>
  \/ /\ Step(i, "hungry", "leave")
     /\ phi_test_sema(i, i, [state_sema EXCEPT ![i] = "HUNGRY"])
     /\ UNCHANGED iter
  \/ /\ Step(i, "leave", "wait")
     /\ Up(i, mutex)
     /\ UNCHANGED <<state_sema, iter>>
  \/ /\ Step(i, "wait", "eat")
     /\ Down(i, i)
     /\ UNCHANGED <<state_sema, iter>>

EatSema(i) ==
  /\ Step(i, "eat", "put")
  /\ Sleep(i)
  /\ UNCHANGED <<state_sema, iter>>

(* Fault: the philosopher on the right is not told of the free forks.      *)
TestRightSema_Skipped(i) ==
  /\ Step(i, "right", "done")
  /\ At(i, "run") /\ UNCHANGED <<vars, state_sema, iter>>

TestRightSema(i) ==
  /\ Step(i, "right", "done")
  /\ phi_test_sema(i, RIGHT(i), state_sema)
  /\ UNCHANGED iter

(* phi_put_forks_sema, and the loop of philosopher_using_semaphore.        *)
PutForksSema(i) ==
  \/ /\ Step(i, "put", "left")
     /\ Down(i, mutex)
     /\ UNCHANGED <<state_sema, iter>>
  \/ /\ Step(i, "left", "right")
     /\ phi_test_sema(i, LEFT(i), [state_sema EXCEPT ![i] = "THINKING"])
     /\ UNCHANGED iter
  \/ TestRightSema(i)
  \/ /\ NextRound(i)
     /\ Up(i, mutex)
     /\ UNCHANGED state_sema

QuitSema(i) ==
  /\ step[i] = "quit"
  /\ Exit(i)
  /\ UNCHANGED <<state_sema, iter, step>>

PhilosopherSema(i) ==
  \/ ThinkSema(i) \/ TakeForksSema(i) \/ EatSema(i) \/ PutForksSema(i) \/ QuitSema(i)

CpuSema ==
  \/ \E i \in Phil : PhilosopherSema(i)
  \/ /\ IdleLoop \/ \E i \in Phil : KernelStep(i)
     /\ UNCHANGED <<state_sema, iter, step>>

SemaNext ==
  \/ CpuSema
  \/ /\ ClockTick \/ \E i \in Phil : Alarm(i)
     /\ UNCHANGED <<state_sema, iter, step>>

SemaSpec == SemaInit /\ [][SemaNext]_semavars

-----------------------------------------------------------------------------

(* Philosopher i holds both forks: it has returned from down(&s[i]) and    *)
(* has not yet put them back.                                              *)
EatsSema(i) ==
  \/ step[i] = "eat" /\ pc[i] = "run"
  \/ step[i] = "put"
  \/ step[i] = "left" /\ pc[i] # "run"

(* Neighbours never eat at the same time, and who eats is recorded as      *)
(* EATING: the private semaphores grant what the states say.               *)
SemaApart ==
  \A i \in Phil : EatsSema(i) => /\ state_sema[i] = "EATING"
                                 /\ ~EatsSema(LEFT(i)) /\ ~EatsSema(RIGHT(i))

(* No fork is forgotten: when nobody is in the critical section, a hungry  *)
(* philosopher has a neighbour that eats, who will serve it.               *)
SemaServed ==
  value[mutex] = 1 =>
    \A i \in Phil : state_sema[i] = "HUNGRY" =>
      \E j \in {LEFT(i), RIGHT(i)} : state_sema[j] = "EATING"

(* No deadlock: until all have quit, some philosopher runs, waits for the  *)
(* CPU or sleeps on a timer.  Rounds are finite, so all of them finish and *)
(* check_sync returns.                                                     *)
SemaNotStuck ==
  (\E i \in Phil : S.state[i] # "ZOMBIE") =>
    \E i \in Phil : S.state[i] = "RUNNABLE" \/ S.wait[i] = "TIMER"

=============================================================================
