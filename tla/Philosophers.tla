---------------------------- MODULE Philosophers ----------------------------
(***************************************************************************)
(* The two groups of philosophers that check_sync creates share nothing    *)
(* but the CPU.  They are explored one at a time: solution says which      *)
(* group runs.                                                             *)
(***************************************************************************)
EXTENDS Naturals

CONSTANTS N, TIMES, MaxSlice

VARIABLES
  solution,
  S, value, queue, flags, on, pc, state, iter, step,   (* of both          *)
  count, next_count, cv, at                            (* of the monitor   *)

monitor == <<count, next_count, cv, at>>

vars == <<solution, S, value, queue, flags, on, pc, state, iter, step, monitor>>

Sema    == INSTANCE PhiSema
             WITH state_sema <- state,
                  Proc <- 0..N, Idle <- N, mutex <- N, Sem <- 0..N,
                  Value0 <- [s \in 0..N |-> IF s = N THEN 1 ELSE 0],
                  MaxValue <- 1
Condvar == INSTANCE PhiCondvar
             WITH state_condvar <- state,
                  Proc <- 0..N, Idle <- N, Nobody <- N + 1,
                  Cond <- 0..(N - 1), Mutex <- N, NextSem <- N + 1, Sem <- 0..(N + 1),
                  Value0 <- [s \in 0..(N + 1) |-> IF s = N THEN 1 ELSE 0],
                  MaxValue <- 1

Init ==
  \/ /\ solution = "sema" /\ Sema!SemaInit
     /\ count = <<>> /\ next_count = 0 /\ cv = <<>> /\ at = <<>>
  \/ solution = "condvar" /\ Condvar!PhiInit

Next ==
  \/ solution = "sema" /\ Sema!SemaNext /\ UNCHANGED <<solution, monitor>>
  \/ solution = "condvar" /\ Condvar!PhiNext /\ UNCHANGED solution

Spec == Init /\ [][Next]_vars

(* Neighbours never eat at the same time, with phi_take_forks_sema and     *)
(* with phi_take_forks_condvar, and who eats is recorded as EATING.        *)
NeighboursApart ==
  IF solution = "sema" THEN Sema!SemaApart ELSE Condvar!NeighboursApart

(* No fork is forgotten by phi_put_forks_sema or phi_put_forks_condvar: a  *)
(* hungry philosopher outside the critical section has a neighbour that    *)
(* eats.  With semaphores, none of them goes above 1: no forks are granted *)
(* twice.                                                                  *)
ForksServed ==
  IF solution = "sema" THEN Sema!SemaTypeOK /\ Sema!SemaServed
                       ELSE Condvar!PhiTypeOK /\ Condvar!ForksServed

(* No deadlock in either solution: until all philosophers have returned,   *)
(* one of them can go on.                                                  *)
NobodyStuck ==
  IF solution = "sema" THEN Sema!SemaNotStuck ELSE Condvar!NobodyStuck

=============================================================================
