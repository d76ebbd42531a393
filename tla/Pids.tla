-------------------------------- MODULE Pids --------------------------------
(***************************************************************************)
(* Process ids and the links between processes (kern/process/proc.c):      *)
(* get_pid with its interval of ids known to be free, proc_list, and the   *)
(* pointers cptr (youngest child), optr and yptr (older and younger        *)
(* sibling) that do_fork, do_exit and do_wait update.  idleproc (pid 0) is *)
(* in no list and is left out; initproc never exits.                       *)
(***************************************************************************)
EXTENDS Integers, Sequences, FiniteSets, SequencesExt

CONSTANTS
  Slot,      (* room for proc_structs, MAX_PROCESS without idleproc        *)
  initproc,
  NoSlot,    (* NULL                                                       *)
  MAX_PID

VARIABLES
  pid,         (* proc->pid, 0 if there is no process                      *)
  proc_list,   (* the one added last first                                 *)
  last_pid, next_safe,
  kin,         (* parent, cptr, optr, yptr                                 *)
  zombie

vars == <<pid, proc_list, last_pid, next_safe, kin, zombie>>

Live == {s \in Slot : pid[s] # 0}

TypeOK ==
  /\ pid \in [Slot -> 0..(MAX_PID - 1)]
  /\ proc_list \in Seq(Slot)
  /\ last_pid \in 1..MAX_PID /\ next_safe \in 1..MAX_PID
  /\ kin \in [Slot -> [parent : Slot \cup {NoSlot}, cptr : Slot \cup {NoSlot},
                       optr : Slot \cup {NoSlot}, yptr : Slot \cup {NoSlot}]]
  /\ zombie \subseteq Slot

NoKin == [parent |-> NoSlot, cptr |-> NoSlot, optr |-> NoSlot, yptr |-> NoSlot]

(* proc_init has made initproc, a child of idleproc, which get_pid gave 1. *)
Init ==
  /\ pid = [s \in Slot |-> IF s = initproc THEN 1 ELSE 0]
  /\ proc_list = <<initproc>>
  /\ last_pid = 1 /\ next_safe = MAX_PID
  /\ kin = [s \in Slot |-> NoKin]
  /\ zombie = {}

-----------------------------------------------------------------------------
(* get_pid *)

(* Fault: the list is not looked through again from its head.              *)
RECURSIVE Scan_OneWay(_, _, _)
Scan_OneWay(i, last, safe) ==
  IF i > Len(proc_list) THEN [last |-> last, safe |-> safe]
  ELSE LET q == pid[proc_list[i]] IN
       IF q = last
       THEN Scan_OneWay(i + 1, IF last + 1 >= MAX_PID THEN 1 ELSE last + 1, safe)
       ELSE Scan_OneWay(i + 1, last, IF q > last /\ safe > q THEN q ELSE safe)

(* The loop from the i-th process on.                                      *)
RECURSIVE Scan(_, _, _)
Scan(i, last, safe) ==
  IF i > Len(proc_list) THEN [last |-> last, safe |-> safe]
  ELSE LET q == pid[proc_list[i]] IN
       IF q # last
       THEN Scan(i + 1, last, IF q > last /\ safe > q THEN q ELSE safe)
       ELSE IF last + 1 < safe THEN Scan(i + 1, last + 1, safe)
       ELSE Scan(1, IF last + 1 >= MAX_PID THEN 1 ELSE last + 1, MAX_PID)

get_pid ==
  IF last_pid + 1 >= MAX_PID THEN Scan(1, 1, MAX_PID)
  ELSE IF last_pid + 1 >= next_safe THEN Scan(1, last_pid + 1, MAX_PID)
  ELSE [last |-> last_pid + 1, safe |-> next_safe]

-----------------------------------------------------------------------------
(* Links *)

Set(k, s, field, v) == IF s = NoSlot THEN k ELSE [k EXCEPT ![s][field] = v]

(* s becomes the youngest child of p: set_links, and the loop of do_exit.  *)
Adopt(k, p, s) ==
  [Set(k, k[p].cptr, "yptr", s)
     EXCEPT ![s].parent = p, ![s].yptr = NoSlot, ![s].optr = k[p].cptr, ![p].cptr = s]

(* Fault: the pointer of the older sibling is forgotten.                   *)
remove_links_Half(k, s) ==
  IF k[s].yptr # NoSlot THEN Set(k, k[s].yptr, "optr", k[s].optr)
  ELSE Set(k, k[s].parent, "cptr", k[s].optr)

remove_links(k, s) ==
  LET j == Set(k, k[s].optr, "yptr", k[s].yptr) IN
  IF k[s].yptr # NoSlot THEN Set(j, k[s].yptr, "optr", k[s].optr)
  ELSE Set(j, k[s].parent, "cptr", k[s].optr)

RECURSIVE Orphan(_, _)
Orphan(k, p) ==
  IF k[p].cptr = NoSlot THEN k
  ELSE Orphan(Adopt([k EXCEPT ![p].cptr = k[k[p].cptr].optr], initproc, k[p].cptr), p)

-----------------------------------------------------------------------------

(* do_fork of s by p: get_pid and set_links.                               *)
Fork(p, s) ==
  /\ p \in Live \ zombie /\ s \notin Live
  /\ \E g \in {get_pid} :
       /\ pid' = [pid EXCEPT ![s] = g.last]
       /\ last_pid' = g.last /\ next_safe' = g.safe
  /\ proc_list' = <<s>> \o proc_list
  /\ kin' = Adopt(kin, p, s)
  /\ UNCHANGED zombie

(* do_exit: the children go to initproc.                                   *)
Exit(p) ==
  /\ p \in Live \ (zombie \cup {initproc})
  /\ zombie' = zombie \cup {p}
  /\ kin' = Orphan(kin, p)
  /\ UNCHANGED <<pid, proc_list, last_pid, next_safe>>

(* do_wait by the parent of c: remove_links, and the proc_struct is freed. *)
Reap(c) ==
  /\ c \in zombie /\ kin[c].parent \notin zombie
  /\ zombie' = zombie \ {c}
  /\ pid' = [pid EXCEPT ![c] = 0]
  /\ proc_list' = Remove(proc_list, c)
  /\ kin' = [remove_links(kin, c) EXCEPT ![c] = NoKin]
  /\ UNCHANGED <<last_pid, next_safe>>

Next ==
  \/ \E p, s \in Slot : Fork(p, s)
  \/ \E p \in Slot : Exit(p) \/ Reap(p)

Spec == Init /\ [][Next]_vars

-----------------------------------------------------------------------------

(* No two processes have the same id, however often the ids have wrapped   *)
(* around; and the interval between last_pid and next_safe, which get_pid  *)
(* hands out without a look at the list, has none that is in use.          *)
PidsUnique ==
  /\ TypeOK
  /\ \A s, t \in Live : pid[s] = pid[t] => s = t
  /\ \A s \in Live : ~(last_pid < pid[s] /\ pid[s] < next_safe)
  /\ ToSet(proc_list) = Live /\ IsInjective(proc_list)

RECURSIVE Kids(_, _)
Kids(s, n) == IF s = NoSlot \/ n = 0 THEN <<>> ELSE <<s>> \o Kids(kin[s].optr, n - 1)

(* The pointers agree over every order of fork, exit, orphaning and reap:  *)
(* from cptr along optr one finds the children of a process, each once,    *)
(* and yptr leads back; nothing points to a process that is gone.          *)
LinksAgree ==
  \A p \in Live : \E ks \in {Kids(kin[p].cptr, Cardinality(Slot) + 1)} :
    /\ IsInjective(ks)
    /\ ToSet(ks) = {s \in Live : kin[s].parent = p}
    /\ \A i \in DOMAIN ks : kin[ks[i]].yptr = IF i = 1 THEN NoSlot ELSE ks[i - 1]

=============================================================================
