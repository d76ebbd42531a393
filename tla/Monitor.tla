------------------------------ MODULE Monitor ------------------------------
(***************************************************************************)
(* Monitors with condition variables (kern/sync/monitor.c) built from the  *)
(* semaphores of module Semaphore: mutex, next, and one per condition      *)
(* variable.  The specification lets every thread enter the monitor, wait  *)
(* on and signal any condition variable and leave, in any order; a program *)
(* that uses the monitor restricts it.                                     *)
(***************************************************************************)
EXTENDS Semaphore

CONSTANTS
  Cond,       (* mtp->cv[i], named like its semaphore                      *)
  Mutex,      (* mtp->mutex                                                *)
  NextSem,    (* mtp->next                                                 *)
  Nobody

(* monitor_init: the semaphores are those of the monitor, and only the     *)
(* mutex is free.                                                          *)
ASSUME CondAssumption ==
  /\ Cond # {} /\ Mutex \notin Cond /\ NextSem \notin Cond /\ Mutex # NextSem
  /\ Sem = Cond \cup {Mutex, NextSem}
  /\ Value0 = [s \in Sem |-> IF s = Mutex THEN 1 ELSE 0]
  /\ MaxValue \in Nat \ {0}
  /\ Nobody \notin Proc

VARIABLES
  count,        (* cvp->count                                              *)
  next_count,   (* mtp->next_count                                         *)
  cv,           (* the condition variable a thread has called cond_wait on *)
  at            (* where a thread is in the monitor's code once it is back *)
                (* from the semaphore function it has called               *)

mvars   == <<count, next_count, cv, at>>
monvars == <<vars, mvars>>

MonTypeOK ==
  /\ TypeOK
  /\ count \in [Cond -> Nat]
  /\ next_count \in Nat
  /\ cv \in [Thread -> Cond]
  /\ at \in [Thread -> {"out", "in", "sig1", "sig2", "wait1", "wait2"}]

(* Before any thread runs.                                                 *)
MonInit ==
  /\ Init
  /\ count = [c \in Cond |-> 0]
  /\ next_count = 0
  /\ cv = [p \in Thread |-> CHOOSE c \in Cond : TRUE]   (* not read yet *)
  /\ at = [p \in Thread |-> "out"]

-----------------------------------------------------------------------------

(* Thread p is in its own or in the monitor's code, at l.                  *)
MonAt(p, l) == At(p, "run") /\ at[p] = l

MonGoto(p, l) == at' = [at EXCEPT ![p] = l]

Enter(p) ==
  /\ MonAt(p, "out")
  /\ Down(p, Mutex)
  /\ MonGoto(p, "in")
  /\ UNCHANGED <<count, next_count, cv>>

(* Fault: the mutex is given up although a thread that has signalled       *)
(* waits inside.                                                           *)
Release_MutexOnly(p) == Up(p, Mutex)

(* The end of a monitor routine, and of the first half of cond_wait.       *)
Release(p) == Up(p, IF next_count > 0 THEN NextSem ELSE Mutex)

Leave(p) ==
  /\ MonAt(p, "in")
  /\ Release(p)
  /\ MonGoto(p, "out")
  /\ UNCHANGED <<count, next_count, cv>>

(* cond_signal up to down(next), which is left out if nobody waits.        *)
Signal(p, c) ==
  /\ MonAt(p, "in")
  /\ count[c] > 0
  /\ next_count' = next_count + 1
  /\ Up(p, c)
  /\ MonGoto(p, "sig1")
  /\ UNCHANGED <<count, cv>>

SignalNobody(p, c) == MonAt(p, "in") /\ count[c] = 0 /\ UNCHANGED monvars

(* Fault: the signalling thread goes on without waiting.                   *)
SignalWaits_Skipped(p) ==
  /\ MonAt(p, "sig1")
  /\ MonGoto(p, "sig2")
  /\ UNCHANGED <<vars, count, next_count, cv>>

SignalWaits(p) ==
  /\ MonAt(p, "sig1")
  /\ Down(p, NextSem)
  /\ MonGoto(p, "sig2")
  /\ UNCHANGED <<count, next_count, cv>>

SignalReturns(p) ==
  /\ MonAt(p, "sig2")
  /\ next_count' = next_count - 1
  /\ MonGoto(p, "in")
  /\ UNCHANGED <<vars, count, cv>>

(* cond_wait up to down(cvp->sem).                                         *)
Wait(p, c) ==
  /\ MonAt(p, "in")
  /\ count' = [count EXCEPT ![c] = @ + 1]
  /\ Release(p)
  /\ cv' = [cv EXCEPT ![p] = c]
  /\ MonGoto(p, "wait1")
  /\ UNCHANGED next_count

WaitSleeps(p) ==
  /\ MonAt(p, "wait1")
  /\ Down(p, cv[p])
  /\ MonGoto(p, "wait2")
  /\ UNCHANGED <<count, next_count, cv>>

(* Fault: cvp->count is not decremented.                                   *)
WaitReturns_Counted(p) ==
  /\ MonAt(p, "wait2")
  /\ MonGoto(p, "in")
  /\ UNCHANGED <<vars, count, next_count, cv>>

WaitReturns(p) ==
  /\ MonAt(p, "wait2")
  /\ count' = [count EXCEPT ![cv[p]] = @ - 1]
  /\ MonGoto(p, "in")
  /\ UNCHANGED <<vars, next_count, cv>>

(* Outside the monitor a thread sleeps and ends.                           *)
Sleeps(p) == MonAt(p, "out") /\ Sleep(p) /\ UNCHANGED mvars

Exits(p) == MonAt(p, "out") /\ Exit(p) /\ UNCHANGED mvars

(* The steps that the monitor's code does not make: the semaphore          *)
(* functions once called, idleproc and the timer interrupt.                *)
CpuInKernel ==
  /\ IdleLoop \/ \E p \in Thread : KernelStep(p)
  /\ UNCHANGED mvars

MonAlarm(p) == Alarm(p) /\ UNCHANGED mvars

MonTick == ClockTick /\ UNCHANGED mvars

MonitorStep(p) ==
  SignalWaits(p) \/ SignalReturns(p) \/ WaitSleeps(p) \/ WaitReturns(p)

MonNext ==
  \/ \E p \in Thread :
       \/ Enter(p) \/ Leave(p) \/ Sleeps(p) \/ Exits(p)
       \/ \E c \in Cond : Signal(p, c) \/ SignalNobody(p, c) \/ Wait(p, c)
       \/ MonitorStep(p) \/ MonAlarm(p)
  \/ CpuInKernel \/ MonTick

MonSpec == MonInit /\ [][MonNext]_monvars

-----------------------------------------------------------------------------

(* The threads that own the monitor: they run its code, or have been woken *)
(* by the up() that gave it to them.                                       *)
Awake(p, s) == pc[p] = "run" \/ p \in Granted(s)

Owners ==
  {p \in Thread : \/ at[p] = "in" /\ Awake(p, Mutex)
                  \/ at[p] = "sig2" /\ Awake(p, NextSem)
                  \/ at[p] = "wait2" /\ Awake(p, cv[p])}

(* One thread at a time is inside, and the mutex is free exactly when none *)
(* is, the hand-over from a signalling to a signalled thread included.     *)
OneOwner ==
  IF value[Mutex] = 0 THEN Cardinality(Owners) = 1 ELSE Owners = {}

(* next_count and cvp->count, which cond_signal and cond_wait read to      *)
(* decide whom to wake, count the threads that really wait.                *)
CountsExact ==
  /\ MonTypeOK
  /\ next_count = Cardinality({p \in Thread : at[p] \in {"sig1", "sig2"}})
  /\ \A c \in Cond : count[c] =
       Cardinality({p \in Thread : at[p] \in {"wait1", "wait2"} /\ cv[p] = c})

(* The monitor's mutual exclusion and its counts are right.                *)
MonitorExact == CountsExact /\ OneOwner

Hoare == INSTANCE HoareMonitor
  WITH owner   <- IF Owners = {} THEN Nobody ELSE CHOOSE p \in Owners : TRUE,
       entry   <- {p \in Thread : at[p] = "in"} \ Owners,
       urgent  <- {p \in Thread : at[p] \in {"sig1", "sig2"}} \ Owners,
       waiting <- [c \in Cond |-> {p \in Thread : at[p] \in {"wait1", "wait2"}
                                                  /\ cv[p] = c} \ Owners]

(* monitor.c implements the monitor of HoareMonitor with its semaphores:   *)
(* in particular a signalled thread finds the state as the signalling one  *)
(* left it, and nobody enters in between.                                  *)
IsHoareMonitor == Hoare!Spec

(* What monitor.c itself does to a semaphore is what a thread may do that  *)
(* uses semaphores in any order, and never lets one go above 1.            *)
UsesSemaphores ==
  [][\/ UNCHANGED mvars \/ UNCHANGED vars
     \/ Next /\ \A s \in Sem : value'[s] <= 1]_monvars

=============================================================================
