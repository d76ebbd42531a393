---------------------------- MODULE HoareMonitor ----------------------------
(***************************************************************************)
(* What the monitors of kern/sync/monitor.c promise: one thread at a time  *)
(* is inside, a thread that is signalled goes on at once in the place of   *)
(* the one that signals, and a thread that has signalled comes back before *)
(* any thread that still waits to enter.                                   *)
(***************************************************************************)
EXTENDS FiniteSets

CONSTANTS
  Thread,
  Cond,      (* the condition variables of the monitor                     *)
  Nobody

VARIABLES
  owner,     (* the thread inside, or Nobody                               *)
  entry,     (* threads that wait to enter                                 *)
  urgent,    (* threads that have signalled and wait to go on              *)
  waiting    (* for each condition variable, the threads that wait on it   *)

vars == <<owner, entry, urgent, waiting>>

Init ==
  /\ owner = Nobody
  /\ entry = {}
  /\ urgent = {}
  /\ waiting = [c \in Cond |-> {}]

Enter(p) ==
  /\ owner = Nobody
  /\ owner' = p
  /\ UNCHANGED <<entry, urgent, waiting>>

Ask(p) ==
  /\ owner \notin {Nobody, p}
  /\ entry' = entry \cup {p}
  /\ UNCHANGED <<owner, urgent, waiting>>

(* The owner gives up the monitor: to a thread that has signalled, if      *)
(* there is none to one that waits to enter, if there is none to nobody.   *)
Pass ==
  \/ \E u \in urgent : /\ owner' = u /\ urgent' = urgent \ {u}
                       /\ UNCHANGED entry
  \/ /\ urgent = {}
     /\ \E e \in entry : owner' = e /\ entry' = entry \ {e}
     /\ UNCHANGED urgent
  \/ /\ urgent = {} /\ entry = {}
     /\ owner' = Nobody
     /\ UNCHANGED <<entry, urgent>>

Leave(p) == owner = p /\ Pass /\ UNCHANGED waiting

Wait(p, c) ==
  /\ owner = p
  /\ waiting' = [waiting EXCEPT ![c] = @ \cup {p}]
  /\ Pass

Signal(p, c) ==
  /\ owner = p
  /\ \E w \in waiting[c] :
       /\ owner' = w
       /\ waiting' = [waiting EXCEPT ![c] = @ \ {w}]
  /\ urgent' = urgent \cup {p}
  /\ UNCHANGED entry

Next ==
  \E p \in Thread :
    \/ Enter(p) \/ Ask(p) \/ Leave(p)
    \/ \E c \in Cond : Wait(p, c) \/ Signal(p, c)

Spec == Init /\ [][Next]_vars

=============================================================================
