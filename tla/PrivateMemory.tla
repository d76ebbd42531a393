--------------------------- MODULE PrivateMemory ---------------------------
(***************************************************************************)
(* What address spaces promise to programs: a process has a memory of its  *)
(* own, which changes by its own stores, by pages that are added to it,    *)
(* and as a whole when it ends or its program cannot be loaded; a new      *)
(* process has a copy of its parent's.                                     *)
(***************************************************************************)
CONSTANTS Proc, Va, Val, NoVal

VARIABLE mem     (* the word at an address, NoVal if no page is there      *)

Empty == [va \in Va |-> NoVal]

Init == mem = [p \in Proc |-> Empty]

(* m and n are the memories before and after a step.                       *)

(* A store, or a new page with a program's data or whatever its frame held *)
Store(m, n, p) ==
  \E va \in Va : n[p][va] \in Val /\ n = [m EXCEPT ![p][va] = n[p][va]]

Fork(m, n, c) ==
  m[c] = Empty /\ \E p \in Proc : n = [m EXCEPT ![c] = m[p]]

Drop(m, n, p) == n = [m EXCEPT ![p] = Empty]

Next ==
  \E m \in {mem}, n \in {mem'} : \E p \in Proc :
    Store(m, n, p) \/ Fork(m, n, p) \/ Drop(m, n, p)

Spec == Init /\ [][Next]_mem

=============================================================================
