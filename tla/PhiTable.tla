------------------------------ MODULE PhiTable ------------------------------
(***************************************************************************)
(* What the two solutions of the dining philosophers in check_sync.c have  *)
(* in common: the seats around the table, the test for the forks and the   *)
(* rounds of a philosopher.                                                *)
(***************************************************************************)
EXTENDS Integers

CONSTANTS
  N,         (* the number of philosophers                                 *)
  TIMES      (* the rounds that each of them makes                         *)

VARIABLES
  iter,      (* the rounds begun by each philosopher                       *)
  step       (* what a philosopher does when it is next in its own code    *)

Phil == 0..(N - 1)
LEFT(i)  == (i - 1 + N) % N
RIGHT(i) == (i + 1) % N

(* Nobody sits next to itself.                                             *)
AtLeastTwo == N \in Nat \ {0, 1}

Step(i, l, m) ==
  /\ step[i] = l
  /\ step' = [step EXCEPT ![i] = m]

(* The condition in phi_test_sema and phi_test_condvar.                    *)
CanEat(st, i) ==
  /\ st[i] = "HUNGRY"
  /\ st[LEFT(i)] # "EATING" /\ st[RIGHT(i)] # "EATING"

(* The loop of a philosopher.                                              *)
MoreRounds(i) == iter[i] < TIMES

NextRound(i) ==
  /\ Step(i, "done", IF MoreRounds(i) THEN "think" ELSE "quit")
  /\ iter' = [iter EXCEPT ![i] = IF MoreRounds(i) THEN @ + 1 ELSE @]

=============================================================================
