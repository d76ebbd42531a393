----------------------------- MODULE PhiCondvar -----------------------------
(***************************************************************************)
(* The dining philosophers of kern/sync/check_sync.c that use the monitor  *)
(* mtp: kernel threads 0..N-1, philosopher i waiting on condition variable *)
(* i.  What a thread does between two calls that may give up the CPU is    *)
(* one step.                                                               *)
(***************************************************************************)
EXTENDS Monitor, PhiTable

VARIABLE state_condvar

phivars == <<monvars, state_condvar, iter, step>>

(* Each philosopher has a thread and a condition variable of its own.      *)
Seats == AtLeastTwo /\ Thread = Phil /\ Cond = Phil

PhiTypeOK ==
  /\ MonTypeOK
  /\ state_condvar \in [Phil -> {"THINKING", "HUNGRY", "EATING"}]
  /\ iter \in [Phil -> 1..TIMES]
  /\ step \in [Phil -> {"think", "take", "hungry", "check", "leave", "eat",
                        "put", "left", "right", "done", "quit"}]

(* check_sync has set up the monitor and created the threads, in the order *)
(* of their numbers.                                                       *)
PhiInit ==
  /\ MonInit
  /\ S.rq = [k \in 1..N |-> k - 1]
  /\ state_condvar = [i \in Phil |-> "THINKING"]
  /\ iter = [i \in Phil |-> 1]
  /\ step = [i \in Phil |-> "think"]

-----------------------------------------------------------------------------

(* phi_test_condvar(j) by philosopher i, up to where cond_signal may give  *)
(* up the CPU, when state_condvar has become st.                           *)
phi_test_condvar(i, j, st) ==
  \/ /\ CanEat(st, j)
     /\ state_condvar' = [st EXCEPT ![j] = "EATING"]
     /\ Signal(i, j) \/ SignalNobody(i, j)
  \/ /\ ~CanEat(st, j)
     /\ state_condvar' = st
     /\ MonAt(i, "in") /\ UNCHANGED monvars

think(i) ==
  /\ Step(i, "think", "take")
  /\ Sleeps(i)
  /\ UNCHANGED <<state_condvar, iter>>

(* Fault: a philosopher that cannot eat does not wait.                     *)
WaitForForks_Skipped(i) ==
  /\ Step(i, "check", "leave")
  /\ MonAt(i, "in") /\ UNCHANGED <<monvars, state_condvar, iter>>

(* The middle of phi_take_forks_condvar.                                   *)
WaitForForks(i) ==
  /\ Step(i, "check", "leave")
  /\ \/ state_condvar[i] # "EATING" /\ Wait(i, i)
     \/ state_condvar[i] = "EATING" /\ MonAt(i, "in") /\ UNCHANGED monvars
  /\ UNCHANGED <<state_condvar, iter>>

(* phi_take_forks_condvar *)
TakeForks(i) ==
  \/ /\ Step(i, "take", "hungry")
     /\ Enter(i)
     /\ UNCHANGED <<state_condvar, iter>>
  \/ /\ Step(i, "hungry", "check")
     /\ phi_test_condvar(i, i, [state_condvar EXCEPT ![i] = "HUNGRY"])
     /\ UNCHANGED iter
  \/ WaitForForks(i)
  \/ /\ Step(i, "leave", "eat")
     /\ Leave(i)
     /\ UNCHANGED <<state_condvar, iter>>

eat(i) ==
  /\ Step(i, "eat", "put")
  /\ Sleeps(i)
  /\ UNCHANGED <<state_condvar, iter>>

(* Fault: the philosopher on the right is not told of the free forks.      *)
TestRight_Skipped(i) ==
  /\ Step(i, "right", "done")
  /\ MonAt(i, "in") /\ UNCHANGED <<monvars, state_condvar, iter>>

TestRight(i) ==
  /\ Step(i, "right", "done")
  /\ phi_test_condvar(i, RIGHT(i), state_condvar)
  /\ UNCHANGED iter

(* phi_put_forks_condvar, and the loop of philosopher_using_condvar.       *)
PutForks(i) ==
  \/ /\ Step(i, "put", "left")
     /\ Enter(i)
     /\ UNCHANGED <<state_condvar, iter>>
  \/ /\ Step(i, "left", "right")
     /\ phi_test_condvar(i, LEFT(i), [state_condvar EXCEPT ![i] = "THINKING"])
     /\ UNCHANGED iter
  \/ TestRight(i)
  \/ /\ NextRound(i)
     /\ Leave(i)
     /\ UNCHANGED state_condvar

quit(i) ==
  /\ step[i] = "quit"
  /\ Exits(i)
  /\ UNCHANGED <<state_condvar, iter, step>>

Philosopher(i) ==
  \/ think(i) \/ TakeForks(i) \/ eat(i) \/ PutForks(i) \/ quit(i)

Cpu ==
  \/ \E i \in Phil : Philosopher(i)
  \/ /\ CpuInKernel \/ \E i \in Phil : MonitorStep(i)
     /\ UNCHANGED <<state_condvar, iter, step>>

PhiNext ==
  \/ Cpu
  \/ /\ MonTick \/ \E i \in Phil : MonAlarm(i)
     /\ UNCHANGED <<state_condvar, iter, step>>

PhiSpec == PhiInit /\ [][PhiNext]_phivars

-----------------------------------------------------------------------------

(* Philosopher i holds both forks: it has left phi_take_forks_condvar and  *)
(* has not yet entered the monitor to put them back.                       *)
Eats(i) ==
  \/ step[i] \in {"eat", "put"}
  \/ step[i] = "left" /\ i \notin Owners

(* Neighbours never eat at the same time, and who eats is recorded as      *)
(* EATING, although cond_wait is called under an if and not in a loop.     *)
NeighboursApart ==
  \A i \in Phil : Eats(i) => /\ state_condvar[i] = "EATING"
                             /\ ~Eats(LEFT(i)) /\ ~Eats(RIGHT(i))

(* No fork is forgotten: when the monitor is free, a hungry philosopher    *)
(* has a neighbour that eats, who will serve it.                           *)
ForksServed ==
  value[Mutex] = 1 =>
    \A i \in Phil : state_condvar[i] = "HUNGRY" =>
      \E j \in {LEFT(i), RIGHT(i)} : state_condvar[j] = "EATING"

(* No deadlock: until all have quit, some philosopher runs, waits for the  *)
(* CPU or sleeps on a timer.  Rounds are finite, so all of them finish and *)
(* check_sync returns.                                                     *)
NobodyStuck ==
  (\E i \in Phil : S.state[i] # "ZOMBIE") =>
    \E i \in Phil : S.state[i] = "RUNNABLE" \/ S.wait[i] = "TIMER"

=============================================================================
