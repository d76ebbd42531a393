------------------------------ MODULE AtomicSem ------------------------------
(***************************************************************************)
(* What a semaphore of kern/sync promises its users: down() and up() are   *)
(* atomic, a unit that up() adds is taken by exactly one down(), and       *)
(* down() does not return before there is a unit for it.                   *)
(***************************************************************************)
EXTENDS Integers

CONSTANTS
  Sem,      (* the semaphores                                              *)
  Value0    (* their initial values, the arguments of sem_init             *)

VARIABLE count

Init == count = Value0

V(s) == count' = [count EXCEPT ![s] = @ + 1]

P(s) == count[s] > 0 /\ count' = [count EXCEPT ![s] = @ - 1]

Next == \E s \in Sem : V(s) \/ P(s)

Spec == Init /\ [][Next]_count

=============================================================================
