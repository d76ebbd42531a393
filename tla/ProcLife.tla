------------------------------ MODULE ProcLife ------------------------------
(***************************************************************************)
(* The life of processes in the lab8 kernel: fork, exit, wait, kill,       *)
(* sleep and yield (kern/process/proc.c), the timer interrupt              *)
(* (kern/trap/trap.c, run_timer_list) and the scheduler (SchedOps).        *)
(*                                                                         *)
(* One CPU, and a kernel that is never preempted: the current process      *)
(* takes every step but the interrupt's.  A trap from user mode runs with  *)
(* interrupts off, so the timer can interrupt a user process only in user  *)
(* mode (pc = "user"); kernel threads, which are idleproc, initproc and    *)
(* the threads of check_sync, it can interrupt at any step.                *)
(* A proc_struct slot stands for its pid.                                  *)
(***************************************************************************)
EXTENDS SchedOps, TimerOps, FiniteSets

CONSTANTS
  InitProc,     (* initproc                                                *)
  KThread,      (* the threads that check_sync creates                     *)
  NoProc,       (* the NULL proc_struct pointer                            *)
  MaxProcess,   (* MAX_PROCESS                                             *)
  MaxSleep      (* bound: the longest do_sleep the model considers         *)

ASSUME InitAssumption     == InitProc \in Proc /\ InitProc # Idle
ASSUME KThreadAssumption  == KThread \subseteq Proc \ {Idle, InitProc}
ASSUME NoProcAssumption   == NoProc \notin Proc
ASSUME BootAssumption     == MaxProcess \in Nat /\ MaxProcess > 2
ASSUME MaxSleepAssumption == MaxSleep \in Nat

VARIABLES
  S,         (* scheduler state, see SchedOps                              *)
  pc,        (* where each process is in the kernel                        *)
  parent,    (* proc->parent                                               *)
  kids,      (* the list cptr, cptr->optr, ...: children, youngest first   *)
  exiting,   (* PF_EXITING in proc->flags                                  *)
  arg,       (* the pid given to do_wait, NoProc for 0 (any child)         *)
  timers,    (* timer_list                                                 *)
  irq,       (* "off", or "timer" while run_timer_list is in its loop      *)
  nr,        (* nr_process                                                 *)
  halted     (* do_exit has panicked with "initproc exit."                 *)

vars == <<S, pc, parent, kids, exiting, arg, timers, irq, nr, halted>>

(* The slots of user processes and of all processes made after boot.       *)
User  == Proc \ ({Idle, InitProc} \cup KThread)
Child == User \cup KThread

PCs == {"none", "idle", "fork0", "forks", "joins", "user", "kern", "trapret",
        "wait", "wait1", "wait2", "sleep1", "sleep2", "exit1", "resched",
        "fini", "dead"}

TypeOK ==
  /\ S \in SchedType
  /\ pc \in [Proc -> PCs]
  /\ parent \in [Proc -> Proc \cup {NoProc}]
  /\ kids \in [Proc -> Seq(Proc)]
  /\ exiting \in [Proc -> BOOLEAN]
  /\ arg \in [Proc -> Proc \cup {NoProc}]
  /\ timers \in Seq([proc : Proc, expires : Nat])
  /\ irq \in {"off", "timer"}
  /\ nr \in Int
  /\ halted \in BOOLEAN

(* proc_init and sched_init: idleproc has the CPU and asks to be           *)
(* rescheduled, initproc is its child and waits in the run queue.          *)
Init ==
  /\ S = [ state   |-> [p \in Proc |-> IF p \in Child THEN "UNUSED"
                                                      ELSE "RUNNABLE"],
           wait    |-> [p \in Proc |-> "NONE"],
           cur     |-> Idle,
           rq      |-> <<InitProc>>,
           slice   |-> [p \in Proc |-> IF p = InitProc THEN MaxSlice ELSE 0],
           resched |-> [p \in Proc |-> p = Idle],
           oops    |-> FALSE ]
  /\ pc = [p \in Proc |-> CASE p = Idle  -> "idle"
                            [] p = InitProc -> "fork0"
                            [] OTHER     -> "none"]
  /\ parent = [p \in Proc |-> IF p = InitProc THEN Idle ELSE NoProc]
  /\ kids = [p \in Proc |-> IF p = Idle THEN <<InitProc>> ELSE <<>>]
  /\ exiting = [p \in Proc |-> FALSE]
  /\ arg = [p \in Proc |-> NoProc]
  /\ timers = <<>>
  /\ irq = "off"
  /\ nr = 2
  /\ halted = FALSE

-----------------------------------------------------------------------------

(* The kernel has not stopped in a panic.                                  *)
Up == ~halted /\ ~S.oops

(* Process p executes the kernel or user code at pc.                       *)
At(p, l) == Up /\ irq = "off" /\ S.cur = p /\ pc[p] = l

Goto(p, l) == pc' = [pc EXCEPT ![p] = l]

(* Where a function called by p returns to: a system call to the tail of   *)
(* trap(), a kernel thread to its own code.                                *)
Caller(p) ==
  CASE p \in User    -> "trapret"
    [] p \in KThread -> "kern"
    [] OTHER         -> IF arg[p] = NoProc THEN "resched" ELSE "joins"

ForkAllowed == nr < MaxProcess

(* do_fork of c by p: alloc_proc, get_pid, set_links, wakeup_proc.  The    *)
(* child starts in forkret, which goes straight to user mode or to the     *)
(* function of the thread.                                                 *)
DoFork(p, c, l) ==
  /\ ForkAllowed
  /\ S.state[c] = "UNUSED"
  /\ S' = WakeupProc(KAssert(S, S.wait[p] = "NONE"), c)
  /\ pc' = [pc EXCEPT ![c] = IF c \in User THEN "user" ELSE "kern", ![p] = l]
  /\ parent' = [parent EXCEPT ![c] = p]
  /\ kids' = [kids EXCEPT ![p] = <<c>> \o @]
  /\ nr' = nr + 1
  /\ UNCHANGED <<exiting, arg, timers, irq, halted>>

(* Fault: do_exit does not wake its parent.                                *)
WakeParent_Never(Z, p) == Z

(* do_exit wakes a parent that sleeps in do_wait.                          *)
WakeParent(Z, p) ==
  IF Z.wait[parent[p]] = "CHILD" THEN WakeupProc(Z, parent[p]) ELSE Z

(* Fault: initproc is not told of the zombies it inherits.                 *)
WakeAdopter_Never(W, p) == W

(* It hands its children to initproc, which it wakes if one is a zombie.   *)
WakeAdopter(W, p) ==
  IF /\ W.wait[InitProc] = "CHILD"
     /\ \E c \in ToSet(kids[p]) : W.state[c] = "ZOMBIE"
  THEN WakeupProc(W, InitProc)
  ELSE W

(* Fault: orphans keep their dead parent.                                  *)
ParentAfterExit_Kept(p) == parent

ParentAfterExit(p) ==
  [c \in Proc |-> IF c \in ToSet(kids[p]) THEN InitProc ELSE parent[c]]

(* do_exit of p up to schedule(): it becomes a zombie, its parent is       *)
(* woken, and its children are put, one after the other, at the head of    *)
(* the list of initproc.                                                   *)
DoExit(p) ==
  IF p = InitProc
  THEN /\ halted' = TRUE
       /\ UNCHANGED <<S, pc, parent, kids, exiting, arg, timers, irq, nr>>
  ELSE /\ S' = WakeAdopter(WakeParent([S EXCEPT !.state[p] = "ZOMBIE"], p), p)
       /\ Goto(p, "exit1")
       /\ parent' = ParentAfterExit(p)
       /\ kids' = [kids EXCEPT ![p] = <<>>,
                               ![InitProc] = Reverse(kids[p]) \o @]
       /\ UNCHANGED <<exiting, arg, timers, irq, nr, halted>>

(* schedule() at the end of do_exit gives up the CPU for good.             *)
ExitSchedule(p) ==
  /\ At(p, "exit1")
  /\ S' = Schedule(S)
  /\ Goto(p, "dead")
  /\ UNCHANGED <<parent, kids, exiting, arg, timers, irq, nr, halted>>

-----------------------------------------------------------------------------
(* System calls of a process in user mode.                                 *)

SysFork(p) == At(p, "user") /\ \E c \in User : DoFork(p, c, "trapret")

(* do_fork fails: too many processes, or no memory for one of its parts.   *)
(* So do do_wait with a bad pointer, do_kill of a process that is unknown  *)
(* or already being killed and do_sleep(0), which change nothing either.   *)
SysForkFails(p) ==
  /\ At(p, "user")
  /\ Goto(p, "trapret")
  /\ UNCHANGED <<S, parent, kids, exiting, arg, timers, irq, nr, halted>>

SysExit(p) == At(p, "user") /\ DoExit(p)

SysWait(p, a) ==
  /\ At(p, "user")
  /\ arg' = [arg EXCEPT ![p] = a]
  /\ Goto(p, "wait")
  /\ UNCHANGED <<S, parent, kids, exiting, timers, irq, nr, halted>>

(* Fault: do_kill wakes the process whatever it is doing.                  *)
KillWakes_Always(q) == TRUE

KillWakes(q) == S.wait[q] \in Interruptible

(* do_kill: find_proc knows every process but idleproc, zombies included.  *)
SysKill(p, q) ==
  /\ At(p, "user")
  /\ q # Idle /\ S.state[q] # "UNUSED" /\ ~exiting[q]
  /\ exiting' = [exiting EXCEPT ![q] = TRUE]
  /\ S' = IF KillWakes(q) THEN WakeupProc(S, q) ELSE S
  /\ Goto(p, "trapret")
  /\ UNCHANGED <<parent, kids, arg, timers, irq, nr, halted>>

SysYield(p) ==
  /\ At(p, "user")
  /\ S' = [S EXCEPT !.resched[p] = TRUE]
  /\ Goto(p, "trapret")
  /\ UNCHANGED <<parent, kids, exiting, arg, timers, irq, nr, halted>>

(* do_sleep up to schedule(); the timer may expire, and wake the process,  *)
(* before schedule() is called.                                            *)
DoSleep(p, t) ==
  /\ t > 0
  /\ S' = Block(S, "TIMER")
  /\ \E k \in 1..(Len(timers) + 1) : \E r \in [1..k -> 0..t] :
       /\ AddWalk(timers, t, k, r)
       /\ timers' = InsertTimer(timers, k, p, r[k])
  /\ Goto(p, "sleep1")
  /\ UNCHANGED <<parent, kids, exiting, arg, irq, nr, halted>>

SysSleep(p, t) == At(p, "user") /\ DoSleep(p, t)

SleepSchedule(p) ==
  /\ At(p, "sleep1")
  /\ S' = Schedule(S)
  /\ Goto(p, "sleep2")
  /\ UNCHANGED <<parent, kids, exiting, arg, timers, irq, nr, halted>>

(* Fault: do_sleep returns with its timer still in the list.               *)
SleepDone_KeepsTimer(p) ==
  /\ At(p, "sleep2")
  /\ Goto(p, Caller(p))
  /\ UNCHANGED <<S, parent, kids, exiting, arg, timers, irq, nr, halted>>

(* The process runs again: do_sleep deletes the timer, which is still in   *)
(* the list if a kill ended the sleep.                                     *)
SleepDone(p) ==
  /\ At(p, "sleep2")
  /\ timers' = DelTimer(timers, p)
  /\ Goto(p, Caller(p))
  /\ UNCHANGED <<S, parent, kids, exiting, arg, irq, nr, halted>>

(* Fault: PF_EXITING is not looked at on the way to user mode.             *)
MustExit_Never(p) == FALSE

MustExit(p) == exiting[p]

(* The tail of trap() for a trap from user mode.  What schedule() returns  *)
(* to is user mode: PF_EXITING is not looked at again.                     *)
TrapReturn(p) ==
  /\ At(p, "trapret")
  /\ \/ MustExit(p) /\ DoExit(p)
     \/ /\ ~MustExit(p)
        /\ S' = IF S.resched[p] THEN Schedule(S) ELSE S
        /\ Goto(p, "user")
        /\ UNCHANGED <<parent, kids, exiting, arg, timers, irq, nr, halted>>

-----------------------------------------------------------------------------
(* do_wait, called by a process or by initproc.                            *)

(* haskid: the children that the call may wait for.                        *)
Awaited(p) == {c \in ToSet(kids[p]) : arg[p] \in {NoProc, c}}

(* found: the first zombie of the list is unlinked and freed.  A free slot *)
(* has the fields that alloc_proc will give it.                            *)
WaitReap(p) ==
  /\ At(p, "wait")
  /\ \E k \in DOMAIN kids[p] :
       LET c == kids[p][k] IN
       /\ c \in Awaited(p) /\ S.state[c] = "ZOMBIE"
       /\ \A j \in 1..(k - 1) :
            ~(kids[p][j] \in Awaited(p) /\ S.state[kids[p][j]] = "ZOMBIE")
       /\ S' = [S EXCEPT !.state[c] = "UNUSED", !.slice[c] = 0,
                         !.resched[c] = FALSE]
       /\ exiting' = [exiting EXCEPT ![c] = FALSE]
       /\ kids' = [kids EXCEPT ![p] = RemoveAt(@, k)]
       /\ parent' = [parent EXCEPT ![c] = NoProc]
       /\ pc' = [pc EXCEPT ![c] = "none", ![p] = Caller(p)]
       /\ nr' = nr - 1
  /\ arg' = [arg EXCEPT ![p] = NoProc]
  /\ UNCHANGED <<timers, irq, halted>>

(* No zombie among them: sleep, up to schedule().                          *)
WaitBlock(p) ==
  /\ At(p, "wait")
  /\ Awaited(p) # {}
  /\ \A c \in Awaited(p) : S.state[c] # "ZOMBIE"
  /\ S' = Block(S, "CHILD")
  /\ Goto(p, "wait1")
  /\ UNCHANGED <<parent, kids, exiting, arg, timers, irq, nr, halted>>

(* Nobody to wait for: -E_BAD_PROC, which ends the loop of init_main and   *)
(* which check_sync asserts never happens.                                 *)
WaitNoKid(p) ==
  /\ At(p, "wait")
  /\ Awaited(p) = {}
  /\ S' = KAssert(S, p = InitProc => arg[p] = NoProc)
  /\ Goto(p, IF p = InitProc THEN "fini" ELSE "trapret")
  /\ arg' = [arg EXCEPT ![p] = NoProc]
  /\ UNCHANGED <<parent, kids, exiting, timers, irq, nr, halted>>

WaitSchedule(p) ==
  /\ At(p, "wait1")
  /\ S' = Schedule(S)
  /\ Goto(p, "wait2")
  /\ UNCHANGED <<parent, kids, exiting, arg, timers, irq, nr, halted>>

WaitAgain(p) ==
  /\ At(p, "wait2")
  /\ \/ exiting[p] /\ DoExit(p)
     \/ /\ ~exiting[p]
        /\ Goto(p, "wait")
        /\ UNCHANGED <<S, parent, kids, exiting, arg, timers, irq, nr, halted>>

-----------------------------------------------------------------------------
(* idleproc and initproc.                                                  *)

(* cpu_idle *)
IdleLoop ==
  /\ At(Idle, "idle")
  /\ S.resched[Idle]
  /\ S' = Schedule(S)
  /\ UNCHANGED <<pc, parent, kids, exiting, arg, timers, irq, nr, halted>>

(* init_main creates the first user process, check_sync its threads.  The  *)
(* panics for a kernel_thread that fails are left out (nothing else has    *)
(* taken a process yet), and the two rounds of check_sync, each with       *)
(* threads of its own, are one ...                                         *)
InitFork ==
  \/ At(InitProc, "fork0") /\ \E c \in User : DoFork(InitProc, c, "forks")
  \/ At(InitProc, "forks") /\ \E c \in KThread : DoFork(InitProc, c, "forks")

(* ... which check_sync then waits for, each by its pid; init_main reaps   *)
(* any child ...                                                           *)
InitJoin ==
  /\ \/ At(InitProc, "forks") /\ \A c \in KThread : pc[c] # "none"
     \/ At(InitProc, "joins")
  /\ arg' = [arg EXCEPT ![InitProc] =
                 IF \E c \in KThread : pc[c] # "none"
                 THEN CHOOSE c \in KThread : pc[c] # "none" ELSE NoProc]
  /\ Goto(InitProc, "wait")
  /\ UNCHANGED <<S, parent, kids, exiting, timers, irq, nr, halted>>

InitReschedule ==
  /\ At(InitProc, "resched")
  /\ S' = Schedule(S)
  /\ Goto(InitProc, "wait")
  /\ UNCHANGED <<parent, kids, exiting, arg, timers, irq, nr, halted>>

(* ... until it has none, checks that no process is left and exits.        *)
InitFinish ==
  /\ At(InitProc, "fini")
  /\ S' = KAssert(S, kids[InitProc] = <<>> /\ nr = 2)
  /\ halted' = TRUE
  /\ UNCHANGED <<pc, parent, kids, exiting, arg, timers, irq, nr>>

-----------------------------------------------------------------------------
(* The timer interrupt: interrupt_handler and run_timer_list.              *)

TickStart ==
  /\ Up /\ irq = "off"
  /\ S.cur \in User => pc[S.cur] = "user"
  /\ irq' = "timer"
  /\ S' = KAssert(S, ~Expired(timers))
  /\ timers' = CountDown(timers)
  /\ UNCHANGED <<pc, parent, kids, exiting, arg, nr, halted>>

(* One turn of the loop: wake the sleeper and drop its timer.              *)
TickExpire ==
  /\ Up /\ irq = "timer"
  /\ Expired(timers)
  /\ LET p == timers[1].proc
     IN  S' = WakeupProc(KAssert(S, S.wait[p] \in Interruptible \cup {"NONE"}), p)
  /\ timers' = Tail(timers)
  /\ UNCHANGED <<pc, parent, kids, exiting, arg, irq, nr, halted>>

(* The tick is charged to the current process; a process that was in user  *)
(* mode leaves through the tail of trap().                                 *)
TickEnd ==
  /\ Up /\ irq = "timer"
  /\ ~Expired(timers)
  /\ S' = ProcTick(S)
  /\ irq' = "off"
  /\ pc' = IF S.cur \in User THEN [pc EXCEPT ![S.cur] = "trapret"] ELSE pc
  /\ UNCHANGED <<parent, kids, exiting, arg, timers, nr, halted>>

(* After a panic the machine stays where it is.                            *)
Stopped == ~Up /\ UNCHANGED vars

-----------------------------------------------------------------------------

Syscall(p) ==
  \/ SysFork(p) \/ SysForkFails(p) \/ SysExit(p) \/ SysYield(p)
  \/ \E a \in Child \cup {NoProc} : SysWait(p, a)
  \/ \E q \in Proc : SysKill(p, q)
  \/ \E t \in 0..MaxSleep : SysSleep(p, t)

(* What a thread of check_sync does: sleep, and return from its function.  *)
Thread(p) ==
  \/ At(p, "kern") /\ \E t \in 0..MaxSleep : DoSleep(p, t)
  \/ At(p, "kern") /\ DoExit(p)

(* The kernel's own steps on behalf of p.                                  *)
KernelStep(p) ==
  \/ SleepSchedule(p) \/ SleepDone(p) \/ ExitSchedule(p) \/ TrapReturn(p)
  \/ WaitReap(p) \/ WaitBlock(p) \/ WaitNoKid(p) \/ WaitSchedule(p)
  \/ WaitAgain(p)

InitStep == InitFork \/ InitJoin \/ InitReschedule \/ InitFinish

Next ==
  \/ \E p \in User : Syscall(p)
  \/ \E p \in KThread : Thread(p)
  \/ \E p \in Proc : KernelStep(p)
  \/ IdleLoop \/ InitStep
  \/ TickStart \/ TickExpire \/ TickEnd
  \/ Stopped

Spec == Init /\ [][Next]_vars

-----------------------------------------------------------------------------
(* Fairness.  The code of the current process that is not in user mode is  *)
(* executed between two timer interrupts, which come 100 times a second,   *)
(* so it is not held up for ever although each interrupt suspends it.  A   *)
(* timer interrupt that arrives while sstatus.SIE is off stays pending in  *)
(* sip and is taken once interrupts are on.  Both are strong fairness.     *)
(* The handler itself runs to its end.  A thread of check_sync stops       *)
(* after TIMES rounds.  A user process may compute for ever.               *)
CpuStep ==
  \/ \E p \in Proc : KernelStep(p)
  \/ \E p \in KThread : Thread(p)
  \/ IdleLoop \/ InitStep

Fairness ==
  /\ SF_vars(CpuStep)
  /\ SF_vars(TickStart)
  /\ WF_vars(TickExpire \/ TickEnd)
  /\ \A p \in KThread : SF_vars(At(p, "kern") /\ DoExit(p))

FairSpec == Spec /\ Fairness

-----------------------------------------------------------------------------
(* Safety.                                                                 *)

(* Run queue discipline of wakeup_proc, schedule and the handlers that     *)
(* call them: every runnable process is current, idleproc or in the queue  *)
(* exactly once, and a process has a wait_state exactly while it sleeps.   *)
RunQueueOK == RunQueueExact(S) /\ WaitStateExact(S)

(* No assert() fires: none of RR_enqueue, wakeup_proc (zombie), do_fork    *)
(* (wait_state), run_timer_list (expired head, uninterruptible sleeper),   *)
(* check_sync (do_wait of a thread) and of the final checks of init_main.  *)
NoAssertFails == ~S.oops

(* No wakeup is lost between do_exit and do_wait: a process that sleeps in *)
(* do_wait has no zombie among the children it waits for, whether a child  *)
(* exited or came to initproc already dead.                                *)
NoLostChild ==
  \A p \in Proc : S.wait[p] = "CHILD" =>
    \A c \in Awaited(p) : S.state[c] # "ZOMBIE"

(* The family tree of set_links, remove_links and do_exit: a list of       *)
(* children and the parent pointers say the same, everyone but idleproc    *)
(* has a parent that is alive, and there is no cycle, so that every        *)
(* process descends from initproc.  nr_process, which fork counts up and   *)
(* wait counts down, is the number of all of them and within its limit.    *)
FamilyTree ==
  /\ nr = Cardinality({p \in Proc : S.state[p] # "UNUSED"}) /\ nr <= MaxProcess
  /\ \A p \in Proc : \A i, j \in DOMAIN kids[p] :
       kids[p][i] = kids[p][j] => i = j
  /\ \A p, c \in Proc : c \in ToSet(kids[p]) <=> parent[c] = p
  /\ \A c \in Proc : parent[c] = NoProc <=> S.state[c] = "UNUSED" \/ c = Idle
  /\ \A c \in Proc : parent[c] # NoProc =>
       S.state[parent[c]] \in {"RUNNABLE", "SLEEPING"}
  /\ \A Q \in SUBSET Child :
       Q # {} /\ (\A c \in Q : parent[c] # NoProc)
         => \E c \in Q : parent[c] \notin Q

(* A timer_t lives on a kernel stack: it is in timer_list only while its   *)
(* process is inside do_sleep, a process that sleeps on a timer has one,   *)
(* and no process has two.                                                 *)
TimersLive ==
  /\ \A i \in DOMAIN timers : pc[timers[i].proc] \in {"sleep1", "sleep2"}
  /\ \A i, j \in DOMAIN timers : timers[i].proc = timers[j].proc => i = j
  /\ \A p \in Proc : S.wait[p] = "TIMER" => p \in TimerOwners(timers)

(* The proc_struct of a zombie is freed only by do_wait of its parent and  *)
(* never runs again: kill, timer and exit of others leave it alone.        *)
ZombieReapedByParent ==
  [][\A p \in Proc :
       S.state[p] = "ZOMBIE" /\ S'.state[p] # "ZOMBIE"
         => S'.state[p] = "UNUSED" /\ parent[p] = S.cur /\ S'.cur = S.cur]_vars

-----------------------------------------------------------------------------
(* Liveness, under FairSpec.                                               *)

(* Round robin starves nobody: a runnable process gets the CPU.            *)
NoStarvation ==
  \A p \in Child : S.state[p] = "RUNNABLE" ~> (S.cur = p \/ ~Up)

(* do_kill kills: a user process with PF_EXITING set ends, wherever it     *)
(* was: computing, asleep on a timer or waiting for a child.               *)
KilledDies ==
  \A p \in User : exiting[p] ~> (S.state[p] \in {"ZOMBIE", "UNUSED"} \/ ~Up)

(* What the code does: a killed process ends or has gone to sleep in a     *)
(* do_wait that it entered after the kill, from where only the exit of a   *)
(* child brings it back.                                                   *)
KilledDiesOrWaits ==
  \A p \in User :
    exiting[p] ~> \/ S.state[p] \in {"ZOMBIE", "UNUSED"}
                  \/ S.wait[p] = "CHILD"
                  \/ ~Up

(* initproc reaps every zombie it is the parent of, orphans included.      *)
OrphanReaped ==
  \A p \in Child : (S.state[p] = "ZOMBIE" /\ parent[p] = InitProc)
                     ~> (S.state[p] = "UNUSED" \/ ~Up)

(* do_sleep returns.                                                       *)
SleepEnds ==
  \A p \in Child : pc[p] = "sleep2" ~> (pc[p] # "sleep2" \/ ~Up)

=============================================================================
