------------------------------- MODULE MCSync -------------------------------
(***************************************************************************)
(* Threads that use semaphores in any order, and threads that use a        *)
(* monitor.  They are explored one at a time: which says which group runs. *)
(* The first group has the semaphores of the monitor to itself and leaves  *)
(* its mutex alone.                                                        *)
(***************************************************************************)
EXTENDS Monitor, TLC

VARIABLE which

OnlyMutex == [s \in Sem |-> IF s = Mutex THEN 1 ELSE 0]

Threads == Permutations(Thread)

SyncInit == which \in {"sem", "monitor"} /\ MonInit

SyncNext ==
  \/ /\ which = "sem" /\ Next /\ UNCHANGED <<which, mvars>>
     /\ value'[Mutex] = value[Mutex] /\ queue'[Mutex] = queue[Mutex]
  \/ which = "monitor" /\ MonNext /\ UNCHANGED which

SyncSpec == SyncInit /\ [][SyncNext]_<<which, monvars>>

=============================================================================
