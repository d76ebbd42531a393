------------------------------ MODULE SchedOps ------------------------------
(***************************************************************************)
(* The scheduler core of the lab8 kernel (kern/schedule/sched.c with the   *)
(* round-robin class of default_sched.c) as pure operators on a record     *)
(*                                                                         *)
(*    state    proc->state, "UNUSED" for a slot with no proc_struct        *)
(*    wait     proc->wait_state, "NONE" for 0                              *)
(*    cur      current                                                     *)
(*    rq       rq->run_list from head to tail; a process has rq # NULL     *)
(*             and a non-empty run_link exactly when it is in it           *)
(*    slice    proc->time_slice                                            *)
(*    resched  proc->need_resched                                          *)
(*    oops     a history bit: some assert() of the kernel has failed       *)
(*                                                                         *)
(* Each operator is one C function, so that a handler which calls several  *)
(* of them is their composition.  All of them run with interrupts off      *)
(* (local_intr_save), hence atomically.  proc->runs and rq->proc_num are   *)
(* never read by the kernel and are left out.                              *)
(***************************************************************************)
EXTENDS Integers, Sequences, SequencesExt

CONSTANTS
  Proc,       (* the proc_struct slots                                     *)
  Idle,       (* idleproc                                                  *)
  MaxSlice    (* MAX_TIME_SLICE                                            *)

ASSUME IdleAssumption  == Idle \in Proc
ASSUME SliceAssumption == MaxSlice \in Nat \ {0}

ProcState == {"UNUSED", "RUNNABLE", "SLEEPING", "ZOMBIE"}

WaitState == {"NONE", "CHILD", "TIMER", "KSEM", "KBD"}

(* The wait states whose word has the WT_INTERRUPTED bit.                  *)
Interruptible == {"CHILD", "TIMER", "KBD"}

SchedType ==
  [ state   : [Proc -> ProcState],
    wait    : [Proc -> WaitState],
    cur     : Proc,
    rq      : Seq(Proc),
    slice   : [Proc -> 0..MaxSlice],
    resched : [Proc -> BOOLEAN],
    oops    : BOOLEAN ]

-----------------------------------------------------------------------------

(* assert(c) *)
KAssert(S, c) == [S EXCEPT !.oops = @ \/ ~c]

(* Fault: a process is queued at the front.                                *)
Enqueue_AtFront(S, p) ==
  IF p = Idle THEN S
  ELSE [S EXCEPT !.slice[p] = MaxSlice, !.rq = <<p>> \o @]

(* sched_class_enqueue and RR_enqueue: idleproc is never queued; a slice   *)
(* that is used up or was never given is refilled.                         *)
Enqueue(S, p) ==
  IF p = Idle
  THEN S
  ELSE [KAssert(S, p \notin ToSet(S.rq)) EXCEPT
          !.slice[p] = IF @ <= 0 \/ @ > MaxSlice THEN MaxSlice ELSE @,
          !.rq       = Append(@, p)]

(* Fault: the current process is queued as well.                           *)
WakeupProc_QueuesCurrent(S, p) ==
  IF S.state[p] = "RUNNABLE" THEN S
  ELSE Enqueue([S EXCEPT !.state[p] = "RUNNABLE", !.wait[p] = "NONE"], p)

(* Fault: the current process is taken to be awake.                        *)
WakeupProc_SkipsCurrent(S, p) ==
  IF S.state[p] = "RUNNABLE" \/ p = S.cur THEN S
  ELSE Enqueue([S EXCEPT !.state[p] = "RUNNABLE", !.wait[p] = "NONE"], p)

(* wakeup_proc: a runnable process only gets a warning; the current        *)
(* process is made runnable but left for schedule() to queue.              *)
WakeupProc(S, p) ==
  LET A == KAssert(S, S.state[p] # "ZOMBIE")
      R == [A EXCEPT !.state[p] = "RUNNABLE", !.wait[p] = "NONE"]
  IN  CASE S.state[p] = "RUNNABLE"                  -> A
        [] S.state[p] # "RUNNABLE" /\ p = S.cur     -> R
        [] S.state[p] # "RUNNABLE" /\ p # S.cur     -> Enqueue(R, p)

(* RR_pick_next and RR_dequeue: the head of the queue, idleproc if empty.  *)
Dispatch(S) ==
  IF S.rq = <<>>
  THEN [S EXCEPT !.cur = Idle]
  ELSE [S EXCEPT !.cur = Head(S.rq), !.rq = Tail(S.rq)]

(* schedule, with proc_run making the chosen process current.              *)
Schedule(S) ==
  LET C == [S EXCEPT !.resched[S.cur] = FALSE]
  IN  Dispatch(IF C.state[C.cur] = "RUNNABLE" THEN Enqueue(C, C.cur) ELSE C)

(* Fault: the slice is decremented below 0.                                *)
ProcTick_Unguarded(S) ==
  IF S.cur = Idle THEN [S EXCEPT !.resched[Idle] = TRUE]
  ELSE [S EXCEPT !.slice[S.cur] = @ - 1,
                 !.resched[S.cur] = @ \/ S.slice[S.cur] = 1]

(* sched_class_proc_tick and RR_proc_tick, for the current process.        *)
ProcTick(S) ==
  LET p    == S.cur
      left == IF S.slice[p] > 0 THEN S.slice[p] - 1 ELSE S.slice[p]
  IN  IF p = Idle
      THEN [S EXCEPT !.resched[p] = TRUE]
      ELSE [S EXCEPT !.slice[p]   = left,
                     !.resched[p] = @ \/ left = 0]

(* What a process does to block: state and wait_state are set before       *)
(* schedule() is called, with the process still current.                   *)
Block(S, w) ==
  [S EXCEPT !.state[S.cur] = "SLEEPING", !.wait[S.cur] = w]

-----------------------------------------------------------------------------

(* The run queue holds, once each, exactly the runnable processes that are *)
(* neither current nor idleproc: none is lost and none is queued twice.    *)
RunQueueExact(S) ==
  /\ \A i, j \in DOMAIN S.rq : S.rq[i] = S.rq[j] => i = j
  /\ \A p \in Proc :
       p \in ToSet(S.rq) <=>
         S.state[p] = "RUNNABLE" /\ p # S.cur /\ p # Idle

(* A process has a wait_state exactly while it sleeps, idleproc never      *)
(* sleeps, and no free slot and no zombie other than the one still inside  *)
(* do_exit has the CPU.                                                    *)
WaitStateExact(S) ==
  /\ \A p \in Proc : S.wait[p] # "NONE" <=> S.state[p] = "SLEEPING"
  /\ S.state[Idle] = "RUNNABLE"
  /\ S.state[S.cur] # "UNUSED"

=============================================================================
