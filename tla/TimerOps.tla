------------------------------ MODULE TimerOps ------------------------------
(***************************************************************************)
(* The kernel's timer list (timer_list of kern/schedule/sched.c) as pure   *)
(* operators.  It is a delta list: an entry's expires counts the ticks     *)
(* that remain after the entry before it has expired.  An entry is a       *)
(* timer_t on the kernel stack of the process that sleeps on it, so the    *)
(* process names the entry.                                                *)
(***************************************************************************)
EXTENDS Integers, Sequences, SequencesExt

TimerOwners(tl) == {tl[i].proc : i \in DOMAIN tl}

(* The walk of add_timer over the list: r[i] is timer->expires when the    *)
(* walk reaches entry i, and it stops before entry k, the first one that   *)
(* expires later than the new timer, or past the end.                      *)
AddWalk(tl, t, k, r) ==
  /\ r[1] = t
  /\ \A i \in 1..(k - 1) : /\ r[i] >= tl[i].expires
                           /\ r[i + 1] = r[i] - tl[i].expires
  /\ k <= Len(tl) => r[k] < tl[k].expires

(* add_timer once the walk has stopped before entry k with left ticks      *)
(* to go: the entry that follows now counts from the new one.              *)
InsertTimer(tl, k, p, left) ==
  InsertAt([i \in DOMAIN tl |->
              IF i = k THEN [tl[i] EXCEPT !.expires = @ - left] ELSE tl[i]],
           k, [proc |-> p, expires |-> left])

(* Fault: the ticks of the deleted entry are dropped.                      *)
DelTimer_DropsTicks(tl, p) ==
  IF p \in TimerOwners(tl)
  THEN RemoveAt(tl, CHOOSE i \in DOMAIN tl : tl[i].proc = p)
  ELSE tl

(* del_timer: the entry that follows inherits the ticks of the deleted one *)
(* and a timer that is not in the list is left alone.                      *)
DelTimer(tl, p) ==
  IF p \in TimerOwners(tl)
  THEN LET k == CHOOSE i \in DOMAIN tl : tl[i].proc = p
       IN  RemoveAt([i \in DOMAIN tl |->
                       IF i = k + 1
                       THEN [tl[i] EXCEPT !.expires = @ + tl[k].expires]
                       ELSE tl[i]], k)
  ELSE tl

(* The first step of run_timer_list: one tick off the first entry.         *)
CountDown(tl) ==
  IF tl = <<>> THEN tl ELSE [tl EXCEPT ![1].expires = @ - 1]

(* The condition of its loop.                                              *)
Expired(tl) == tl # <<>> /\ tl[1].expires = 0

=============================================================================
