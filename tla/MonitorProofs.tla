--------------------------- MODULE MonitorProofs ---------------------------
(***************************************************************************)
(* Proofs about Monitor, for any number of threads and of condition        *)
(* variables: one thread at a time is inside, the counts that cond_signal  *)
(* and cond_wait go by are exact, monitor.c uses its semaphores as locks,  *)
(* and it implements the monitor of HoareMonitor.  The last part is about  *)
(* the philosophers of PhiCondvar that use it, for any number of them:     *)
(* neighbours never eat at the same time, no fork is forgotten, and there  *)
(* is no deadlock.                                                         *)
(***************************************************************************)
EXTENDS PhiCondvar, SemaphoreProofs

(* Where a thread that has the monitor, or wants it back, can be.          *)
Place ==
  \A p \in Thread :
    /\ pc[p] \in InDown => \/ at[p] = "in" /\ on[p] = Mutex
                           \/ at[p] = "sig2" /\ on[p] = NextSem
                           \/ at[p] = "wait2" /\ on[p] = cv[p]
    /\ pc[p] \notin InDown \cup {"run"} => at[p] = "out"
    /\ at[p] \in {"sig1", "wait1"} => S.cur = p /\ pc[p] = "run"

(* The mutex is a lock, and the others only hand units over.               *)
Binary ==
  \A s \in Sem : value[s] = 0 \/ (s = Mutex /\ value[s] = 1)

(* The mutex is free, or one thread owns the monitor.                      *)
Owned ==
  \/ value[Mutex] = 1 /\ Owners = {}
  \/ value[Mutex] = 0 /\ \E p \in Thread : Owners = {p}

(* The inductive invariant.                                                *)
MonInv == SemInv /\ Place /\ Binary /\ CountsExact /\ Owned

(* The threads inside or at the door, those that have signalled, and those *)
(* that wait for a condition.                                              *)
Inside     == {p \in Thread : at[p] = "in"}
Urgent     == {p \in Thread : at[p] \in {"sig1", "sig2"}}
Waiting(c) == {p \in Thread : at[p] \in {"wait1", "wait2"} /\ cv[p] = c}

-----------------------------------------------------------------------------

(* The semaphores of the monitor.                                          *)
LEMMA MonSems ==
  /\ Mutex \in Sem /\ NextSem \in Sem /\ Mutex # NextSem /\ Cond \subseteq Sem
  /\ \A c \in Cond : c # Mutex /\ c # NextSem
  /\ Nobody \notin Thread
  BY CondAssumption DEF Thread

(* What the steps need to know of the variables.                           *)
LEMMA MonFacts ==
  ASSUME MonInv
  PROVE  /\ SemInv
         /\ count \in [Cond -> Nat] /\ next_count \in Nat
         /\ cv \in [Thread -> Cond]
         /\ at \in [Thread -> {"out", "in", "sig1", "sig2", "wait1", "wait2"}]
         /\ on \in [Thread -> Sem] /\ value \in [Sem -> Nat]
         /\ next_count = Cardinality(Urgent)
         /\ \A c \in Cond : count[c] = Cardinality(Waiting(c))
<1>1. /\ SemInv
      /\ count \in [Cond -> Nat] /\ next_count \in Nat
      /\ cv \in [Thread -> Cond]
      /\ at \in [Thread -> {"out", "in", "sig1", "sig2", "wait1", "wait2"}]
  BY DEF MonInv, CountsExact, MonTypeOK
<1>2. /\ next_count = Cardinality(Urgent)
      /\ \A c \in Cond : count[c] = Cardinality(Waiting(c))
  BY DEF MonInv, CountsExact, Urgent, Waiting
<1> QED BY <1>1, <1>2, SemFacts

(* The owners are the threads inside the monitor's code that do not wait   *)
(* and are not on their way to down().                                     *)
LEMMA OwnersAre ==
  SemInv /\ Place =>
    Owners = {p \in Thread : at[p] \in {"in", "sig2", "wait2"} /\ ~Waits(p)}
<1> SUFFICES ASSUME SemInv, Place, NEW p \in Thread
             PROVE  p \in Owners <=> at[p] \in {"in", "sig2", "wait2"} /\ ~Waits(p)
  BY DEF Owners
<1>1. CASE pc[p] = "run"
  BY <1>1, WaitsInDown DEF Owners, Awake, InDown
<1>2. CASE pc[p] \in InDown
  <2>1. \/ at[p] = "in" /\ on[p] = Mutex
        \/ at[p] = "sig2" /\ on[p] = NextSem
        \/ at[p] = "wait2" /\ on[p] = cv[p]
    BY <1>2 DEF Place
  <2>2. \A s : p \in Granted(s) <=> on[p] = s /\ ~Waits(p)
    BY <1>2 DEF Granted, InDown, Waits
  <2>3. pc[p] # "run"
    BY <1>2 DEF InDown
  <2> QED BY <2>1, <2>2, <2>3 DEF Owners, Awake
<1>3. CASE pc[p] \notin InDown \cup {"run"}
  BY <1>3 DEF Place, Owners
<1> QED BY <1>1, <1>2, <1>3

(* The same, in the next state.                                            *)
LEMMA OwnersAreNext ==
  SemInv' /\ Place' =>
    (Owners = {p \in Thread : at[p] \in {"in", "sig2", "wait2"} /\ ~Waits(p)})'
  BY OwnersAre, PTL

(* Before any thread runs.                                                 *)
LEMMA InitMon == MonInit => MonInv
<1> SUFFICES ASSUME MonInit PROVE MonInv
  OBVIOUS
<1>1. /\ SemInv /\ value = Value0 /\ pc = [p \in Thread |-> "run"]
      /\ count = [c \in Cond |-> 0] /\ next_count = 0
      /\ cv = [p \in Thread |-> CHOOSE c \in Cond : TRUE]
      /\ at = [p \in Thread |-> "out"]
  BY InitSem DEF MonInit, Init
<1>2. Place /\ Owners = {}
  BY <1>1 DEF Place, InDown, Owners
<1>3. /\ \A s \in Sem : value[s] = IF s = Mutex THEN 1 ELSE 0
      /\ value[Mutex] = 1
  BY <1>1, CondAssumption
<1>4. Binary /\ Owned
  <2>1. Binary
    BY <1>3 DEF Binary
  <2>2. Owned
    BY <1>2, <1>3 DEF Owned
  <2> QED BY <2>1, <2>2
<1>5. MonTypeOK
  <2>1. cv \in [Thread -> Cond]
    <3>1. (CHOOSE c \in Cond : TRUE) \in Cond
      BY CondAssumption
    <3> QED BY <1>1, <3>1
  <2> QED BY <1>1, <2>1 DEF MonTypeOK, SemInv
<1>6. Urgent = {} /\ \A c \in Cond : Waiting(c) = {}
  BY <1>1 DEF Urgent, Waiting
<1>7. CountsExact
  BY <1>1, <1>5, <1>6, FS_EmptySet DEF CountsExact, Urgent, Waiting
<1> QED BY <1>1, <1>2, <1>4, <1>7 DEF MonInv

-----------------------------------------------------------------------------
(* What a step does to the monitor.                                        *)

(* Nothing.                                                                *)
Quiet ==
  /\ Owners' = Owners /\ value'[Mutex] = value[Mutex]
  /\ Inside' = Inside /\ Urgent' = Urgent
  /\ \A c \in Cond : Waiting(c)' = Waiting(c)
  /\ UNCHANGED <<count, next_count>>

(* A thread finds it free ...                                              *)
Enters(p) ==
  /\ Owners = {} /\ Owners' = {p} /\ value'[Mutex] = 0
  /\ p \notin Inside \cup Urgent /\ \A c \in Cond : p \notin Waiting(c)
  /\ Inside' = Inside \cup {p} /\ Urgent' = Urgent
  /\ \A c \in Cond : Waiting(c)' = Waiting(c)
  /\ UNCHANGED <<count, next_count>>

(* ... or stops at the door.                                               *)
Asks(p) ==
  /\ Owners # {} /\ p \notin Owners /\ Owners' = Owners
  /\ value'[Mutex] = value[Mutex]
  /\ Inside' = Inside \cup {p} /\ Urgent' = Urgent
  /\ \A c \in Cond : Waiting(c)' = Waiting(c)
  /\ UNCHANGED <<count, next_count>>

(* The owner gives it up: to a thread that has signalled, else to one at   *)
(* the door, else to nobody.                                               *)
Passes(p) ==
  /\ p \in Inside /\ Owners = {p}
  /\ Inside' = Inside \ {p} /\ Urgent' = Urgent /\ next_count' = next_count
  /\ \/ \E w \in Urgent : Owners' = {w} /\ value'[Mutex] = 0
     \/ /\ Urgent = {}
        /\ \E w \in Inside \ {p} : Owners' = {w} /\ value'[Mutex] = 0
     \/ /\ Urgent = {} /\ Inside = {p}
        /\ Owners' = {} /\ value'[Mutex] = 1

Leaves(p) ==
  /\ Passes(p) /\ count' = count
  /\ \A c \in Cond : Waiting(c)' = Waiting(c)

BeginsWait(p, c) ==
  /\ Passes(p) /\ count' = [count EXCEPT ![c] = @ + 1]
  /\ \A x \in Cond :
       Waiting(x)' = IF x = c THEN Waiting(c) \cup {p} ELSE Waiting(x)

(* The owner hands it to a thread that waits for a condition.              *)
Signals(p, c) ==
  /\ p \in Inside /\ Owners = {p}
  /\ \E w \in Waiting(c) : Owners' = {w}
  /\ value'[Mutex] = value[Mutex]
  /\ Inside' = Inside \ {p} /\ Urgent' = Urgent \cup {p}
  /\ next_count' = next_count + 1 /\ count' = count
  /\ \A x \in Cond : Waiting(x)' = Waiting(x)

(* The new owner leaves cond_signal or cond_wait.                          *)
EndsSignal(p) ==
  /\ p \in Urgent /\ Owners = {p} /\ Owners' = {p}
  /\ value'[Mutex] = value[Mutex]
  /\ Inside' = Inside \cup {p} /\ Urgent' = Urgent \ {p}
  /\ next_count' = next_count - 1 /\ count' = count
  /\ \A x \in Cond : Waiting(x)' = Waiting(x)

EndsWait(p, c) ==
  /\ p \in Waiting(c) /\ Owners = {p} /\ Owners' = {p}
  /\ value'[Mutex] = value[Mutex]
  /\ Inside' = Inside \cup {p} /\ Urgent' = Urgent
  /\ next_count' = next_count /\ count' = [count EXCEPT ![c] = @ - 1]
  /\ \A x \in Cond :
       Waiting(x)' = IF x = c THEN Waiting(c) \ {p} ELSE Waiting(x)

MonKind ==
  \/ Quiet
  \/ \E p \in Thread :
       \/ Enters(p) \/ Asks(p) \/ Leaves(p) \/ EndsSignal(p)
       \/ \E c \in Cond : BeginsWait(p, c) \/ Signals(p, c) \/ EndsWait(p, c)

(* A thread is in one place.                                               *)
LEMMA Apart ==
  /\ Inside \subseteq Thread /\ Urgent \subseteq Thread
  /\ Inside \cap Urgent = {} /\ Owners \subseteq Thread
  /\ \A c : /\ Waiting(c) \subseteq Thread
            /\ Inside \cap Waiting(c) = {} /\ Urgent \cap Waiting(c) = {}
  /\ \A c, x : c # x => Waiting(c) \cap Waiting(x) = {}
<1>1. /\ Inside \subseteq Thread /\ Urgent \subseteq Thread
      /\ Inside \cap Urgent = {} /\ Owners \subseteq Thread
  BY DEF Inside, Urgent, Owners
<1>2. \A c : /\ Waiting(c) \subseteq Thread
             /\ Inside \cap Waiting(c) = {} /\ Urgent \cap Waiting(c) = {}
  BY DEF Inside, Urgent, Waiting
<1>3. \A c, x : c # x => Waiting(c) \cap Waiting(x) = {}
  BY DEF Waiting
<1> QED BY <1>1, <1>2, <1>3

(* The sets of threads are finite.                                         *)
LEMMA MonFinite ==
  ASSUME NEW A, A \subseteq Thread
  PROVE  /\ IsFiniteSet(A) /\ Cardinality(A) \in Nat
         /\ \A p : p \notin A => Cardinality(A \cup {p}) = Cardinality(A) + 1
         /\ \A p \in A : Cardinality(A \ {p}) = Cardinality(A) - 1
<1>1. IsFiniteSet(A) /\ Cardinality(A) \in Nat
  BY ProcAssumption, FS_Subset, FS_CardinalityType DEF Thread
<1> QED BY <1>1, FS_AddElement, FS_RemoveElement

(* The counts and the mutex go with any of these.                          *)
LEMMA KindCounts ==
  ASSUME MonInv, MonKind, MonTypeOK'
  PROVE  CountsExact' /\ Owned'
<1>0. /\ next_count = Cardinality(Urgent)
      /\ \A c \in Cond : count[c] = Cardinality(Waiting(c))
      /\ count \in [Cond -> Nat]
  BY MonFacts
<1> DEFINE C(c) == Cardinality(Waiting(c))
           U == Cardinality(Urgent)
<1>1. U' = next_count'
  <2>1. CASE Urgent' = Urgent /\ next_count' = next_count
    BY <1>0, <2>1
  <2>2. ASSUME NEW p \in Thread, p \notin Urgent, Urgent' = Urgent \cup {p},
               next_count' = next_count + 1
        PROVE  U' = next_count'
    BY <1>0, <2>2, Apart, MonFinite
  <2>3. ASSUME NEW p \in Urgent, Urgent' = Urgent \ {p},
               next_count' = next_count - 1
        PROVE  U' = next_count'
    BY <1>0, <2>3, Apart, MonFinite
  <2>4. \A p \in Inside : p \notin Urgent
    BY Apart
  <2> HIDE DEF U
  <2> QED BY <2>1, <2>2, <2>3, <2>4
          DEF MonKind, Quiet, Enters, Asks, Leaves, Passes, BeginsWait,
              Signals, EndsSignal, EndsWait
<1>2. \A x \in Cond : C(x)' = count'[x]
  <2>1. CASE count' = count /\ \A x \in Cond : Waiting(x)' = Waiting(x)
    BY <1>0, <2>1
  <2>2. ASSUME NEW p \in Thread, NEW c \in Cond, BeginsWait(p, c)
        PROVE  \A x \in Cond : C(x)' = count'[x]
    <3>1. /\ count' = [count EXCEPT ![c] = @ + 1]
          /\ \A x \in Cond :
               Waiting(x)' = IF x = c THEN Waiting(c) \cup {p} ELSE Waiting(x)
      BY <2>2 DEF BeginsWait
    <3>2. p \notin Waiting(c) /\ Waiting(c) \subseteq Thread
      BY <2>2, Apart DEF BeginsWait, Passes
    <3>3. Cardinality(Waiting(c) \cup {p}) = Cardinality(Waiting(c)) + 1
      BY <3>2, MonFinite
    <3> QED BY <1>0, <3>1, <3>3
  <2>3. ASSUME NEW p \in Thread, NEW c \in Cond, EndsWait(p, c)
        PROVE  \A x \in Cond : C(x)' = count'[x]
    <3>1. /\ count' = [count EXCEPT ![c] = @ - 1] /\ p \in Waiting(c)
          /\ \A x \in Cond :
               Waiting(x)' = IF x = c THEN Waiting(c) \ {p} ELSE Waiting(x)
      BY <2>3 DEF EndsWait
    <3>2. Cardinality(Waiting(c) \ {p}) = Cardinality(Waiting(c)) - 1
      BY <3>1, Apart, MonFinite
    <3> QED BY <1>0, <3>1, <3>2
  <2> HIDE DEF C
  <2> QED BY <2>1, <2>2, <2>3
          DEF MonKind, Quiet, Enters, Asks, Leaves, Passes, Signals, EndsSignal
<1>3. CountsExact'
  <2>1. /\ next_count' = Cardinality(Urgent)'
        /\ \A c \in Cond : count'[c] = Cardinality(Waiting(c))'
    BY <1>1, <1>2
  <2> QED BY <2>1 DEF CountsExact, Urgent, Waiting
<1>4. Owned'
  <2>1. Owned
    BY DEF MonInv
  <2>2. CASE Owners' = Owners /\ value'[Mutex] = value[Mutex]
    BY <2>1, <2>2 DEF Owned
  <2>3. CASE \E p \in Thread : Owners' = {p} /\ value'[Mutex] = 0
    BY <2>3 DEF Owned
  <2>4. CASE Owners' = {} /\ value'[Mutex] = 1
    BY <2>4 DEF Owned
  <2>5. \A p \in Thread : Owners = {p} => value[Mutex] = 0
    BY <2>1 DEF Owned
  <2>6. ASSUME NEW p \in Thread, Passes(p) PROVE Owned'
    <3>1. \A q \in Urgent \cup Inside : q \in Thread
      BY Apart
    <3> QED BY <2>3, <2>4, <2>6, <3>1 DEF Passes
  <2>7. ASSUME NEW p \in Thread, NEW c \in Cond, Signals(p, c) PROVE Owned'
    <3>1. Waiting(c) \subseteq Thread
      BY Apart
    <3> QED BY <2>3, <2>5, <2>7, <3>1 DEF Signals
  <2> QED BY <2>2, <2>3, <2>6, <2>7
          DEF MonKind, Quiet, Enters, Asks, Leaves, BeginsWait,
              EndsSignal, EndsWait
<1> QED BY <1>3, <1>4

-----------------------------------------------------------------------------
(* Steps of the monitor's code.                                            *)

(* A thread in its own or in the monitor's code has the CPU, and no other  *)
(* is between two semaphore operations.                                    *)
LEMMA MonRuns ==
  ASSUME MonInv, NEW p \in Thread, NEW l, MonAt(p, l)
  PROVE  /\ S.cur = p /\ pc[p] = "run" /\ at[p] = l /\ ~Waits(p)
         /\ \A q \in Thread : q # p => at[q] \notin {"sig1", "wait1"}
<1>1. S.cur = p /\ pc[p] = "run" /\ at[p] = l
  BY DEF MonAt, At
<1>2. ~Waits(p)
  BY <1>1, MonFacts, WaitsInDown DEF InDown
<1>3. \A q \in Thread : q # p => at[q] \notin {"sig1", "wait1"}
  BY <1>1 DEF MonInv, Place
<1> QED BY <1>1, <1>2, <1>3

(* In the monitor it is the owner, and all others inside wait.             *)
LEMMA OwnerRuns ==
  ASSUME MonInv, NEW p \in Thread, NEW l \in {"in", "sig2", "wait2"},
         MonAt(p, l)
  PROVE  /\ Owners = {p} /\ value[Mutex] = 0
         /\ \A q \in Thread : q # p /\ at[q] # "out" => Waits(q)
<1>1. at[p] = l /\ ~Waits(p)
      /\ \A q \in Thread : q # p => at[q] \notin {"sig1", "wait1"}
  BY MonRuns
<1>2. Owners = {q \in Thread : at[q] \in {"in", "sig2", "wait2"} /\ ~Waits(q)}
  BY OwnersAre DEF MonInv
<1>3. p \in Owners
  BY <1>1, <1>2
<1>4. Owners = {p} /\ value[Mutex] = 0
  BY <1>3 DEF MonInv, Owned
<1>5. \A q \in Thread : at[q] \in {"out", "in", "sig1", "sig2", "wait1", "wait2"}
  BY MonFacts
<1> QED BY <1>1, <1>2, <1>4, <1>5

(* A thread that waits for a semaphore of the monitor has its place.       *)
LEMMA WaitsWhere ==
  ASSUME MonInv, NEW q \in Thread, Waits(q)
  PROVE  /\ on[q] = Mutex => at[q] = "in"
         /\ on[q] = NextSem => at[q] = "sig2"
         /\ \A c \in Cond : on[q] = c => at[q] = "wait2" /\ cv[q] = c
         /\ at[q] = "in" => on[q] = Mutex
         /\ at[q] = "sig2" => on[q] = NextSem
         /\ at[q] = "wait2" => on[q] = cv[q]
<1>1. pc[q] \in InDown
  BY MonFacts, WaitsInDown
<1>2. \/ at[q] = "in" /\ on[q] = Mutex
      \/ at[q] = "sig2" /\ on[q] = NextSem
      \/ at[q] = "wait2" /\ on[q] = cv[q]
  BY <1>1 DEF MonInv, Place
<1>3. cv[q] \in Cond
  BY MonFacts
<1> QED BY <1>2, <1>3, MonSems

(* up() in the monitor's code: what is common to all of them.              *)
LEMMA MonUp ==
  ASSUME MonInv, NEW p \in Thread, NEW s \in Sem, Up(p, s)
  PROVE  /\ SemInv' /\ S'.cur = S.cur /\ pc' = pc /\ on' = on
         /\ value' \in [Sem -> Nat]
         /\ \/ /\ queue[s] = <<>> /\ value' = [value EXCEPT ![s] = @ + 1]
               /\ \A q \in Thread : Waits(q)' <=> Waits(q)
            \/ /\ value' = value
               /\ \E w \in Thread :
                    /\ Waits(w) /\ on[w] = s
                    /\ \A q \in Thread : Waits(q)' <=> Waits(q) /\ q # w
<1>1. UpEffect(s) /\ UNCHANGED <<on, pc>> /\ SemInv
  BY MonFacts DEF Up
<1>2. SemInv' /\ S'.cur = S.cur
  BY <1>1, UpStep
<1>3. value' \in [Sem -> Nat]
  BY <1>2 DEF SemInv, TypeOK
<1> QED BY <1>1, <1>2, <1>3, WaitsUp

(* up(next) if a thread has signalled, else up(mutex): the thread that is  *)
(* let go on is one of those that the counts stand for.                    *)
LEMMA ReleaseGives ==
  ASSUME MonInv, NEW p \in Thread, MonAt(p, "in"), Release(p)
  PROVE  /\ SemInv' /\ S'.cur = S.cur /\ pc' = pc /\ on' = on
         /\ Binary'
         /\ \/ \E w \in Urgent :
                 /\ w # p /\ at[w] = "sig2" /\ value'[Mutex] = 0
                 /\ \A q \in Thread : Waits(q)' <=> Waits(q) /\ q # w
            \/ /\ Urgent = {}
               /\ \E w \in Inside :
                    /\ w # p /\ value'[Mutex] = 0
                    /\ \A q \in Thread : Waits(q)' <=> Waits(q) /\ q # w
            \/ /\ Urgent = {} /\ Inside = {p} /\ value'[Mutex] = 1
               /\ \A q \in Thread : Waits(q)' <=> Waits(q)
<1> DEFINE s == IF next_count > 0 THEN NextSem ELSE Mutex
<1>1. s \in Sem /\ Up(p, s)
  BY MonSems DEF Release
<1>2. /\ SemInv' /\ S'.cur = S.cur /\ pc' = pc /\ on' = on
      /\ \/ /\ queue[s] = <<>> /\ value' = [value EXCEPT ![s] = @ + 1]
            /\ \A q \in Thread : Waits(q)' <=> Waits(q)
         \/ /\ value' = value
            /\ \E w \in Thread :
                 /\ Waits(w) /\ on[w] = s
                 /\ \A q \in Thread : Waits(q)' <=> Waits(q) /\ q # w
  <2> HIDE DEF s
  <2> QED BY <1>1, MonUp
<1>3. /\ at[p] = "in" /\ ~Waits(p) /\ value[Mutex] = 0
      /\ \A q \in Thread : q # p /\ at[q] # "out" => Waits(q)
      /\ \A q \in Thread : q # p => at[q] \notin {"sig1", "wait1"}
  BY MonRuns, OwnerRuns
<1>4. Urgent \subseteq Thread /\ Inside \subseteq Thread
      /\ next_count = Cardinality(Urgent)
  BY Apart, MonFacts
<1>5. CASE next_count > 0
  <2>1. s = NextSem
    BY <1>5
  <2> HIDE DEF s
  <2>2. Urgent # {}
    BY <1>4, <1>5, FS_EmptySet
  <2>3. PICK u \in Thread : at[u] \in {"sig1", "sig2"}
    BY <2>2 DEF Urgent
  <2>4. Waits(u) /\ at[u] = "sig2"
    BY <1>3, <2>3
  <2>5. queue[s] # <<>>
    BY <2>1, <2>4, WaitsWhere, QueueNotEmpty
  <2>6. PICK w \in Thread :
          /\ Waits(w) /\ on[w] = s
          /\ \A q \in Thread : Waits(q)' <=> Waits(q) /\ q # w
    BY <1>2, <2>5
  <2>7. value' = value
    BY <1>2, <2>5
  <2>8. at[w] = "sig2" /\ w # p
    BY <1>3, <2>1, <2>6, WaitsWhere
  <2>9. w \in Urgent
    BY <2>8 DEF Urgent
  <2>10. Binary' /\ value'[Mutex] = 0
    BY <1>3, <2>7 DEF MonInv, Binary
  <2> QED BY <1>2, <2>6, <2>8, <2>9, <2>10
<1>6. CASE ~(next_count > 0)
  <2>1. s = Mutex
    BY <1>6
  <2> HIDE DEF s
  <2>2. Urgent = {}
    <3>1. next_count = 0
      BY <1>6, MonFacts
    <3>2. IsFiniteSet(Urgent)
      BY <1>4, MonFinite
    <3> QED BY <1>4, <3>1, <3>2, FS_EmptySet
  <2>3. CASE queue[s] = <<>> /\ value' = [value EXCEPT ![s] = @ + 1]
             /\ \A q \in Thread : Waits(q)' <=> Waits(q)
    <3>1. \A x \in Sem : value'[x] = IF x = Mutex THEN 1 ELSE value[x]
      BY <1>3, <2>1, <2>3, MonFacts
    <3>2. Binary' /\ value'[Mutex] = 1
      BY <3>1, MonSems DEF MonInv, Binary
    <3>3. Inside = {p}
      <4>1. ASSUME NEW q \in Thread, q # p, at[q] = "in" PROVE FALSE
        <5>1. Waits(q)
          BY <1>3, <4>1
        <5>2. on[q] = Mutex
          BY <4>1, <5>1, WaitsWhere
        <5> QED BY <2>1, <2>3, <5>1, <5>2, QueueNotEmpty
      <4> QED BY <1>3, <4>1 DEF Inside
    <3> QED BY <1>2, <2>2, <2>3, <3>2, <3>3
  <2>4. CASE value' = value /\ \E w \in Thread :
                 /\ Waits(w) /\ on[w] = s
                 /\ \A q \in Thread : Waits(q)' <=> Waits(q) /\ q # w
    <3>1. PICK w \in Thread :
                 /\ Waits(w) /\ on[w] = s
                 /\ \A q \in Thread : Waits(q)' <=> Waits(q) /\ q # w
      BY <2>4
    <3>2. at[w] = "in" /\ w # p
      BY <1>3, <2>1, <3>1, WaitsWhere
    <3>3. w \in Inside
      BY <3>2 DEF Inside
    <3>4. Binary' /\ value'[Mutex] = 0
      BY <1>3, <2>4 DEF MonInv, Binary
    <3> QED BY <1>2, <2>2, <3>1, <3>2, <3>3, <3>4
  <2> QED BY <1>2, <2>3, <2>4
<1> QED BY <1>5, <1>6

(* What each step is shown to do.                                          *)
Sound == SemInv' /\ Place' /\ Binary' /\ MonTypeOK' /\ MonKind

(* The owner gives up the monitor and goes on at l.                        *)
LEMMA PassStep ==
  ASSUME MonInv, NEW p \in Thread, MonAt(p, "in"), Release(p),
         NEW l \in {"out", "wait1"}, at' = [at EXCEPT ![p] = l],
         \A q \in Thread : q # p => cv'[q] = cv[q], UNCHANGED next_count
  PROVE  SemInv' /\ Place' /\ Binary' /\ Passes(p)
<1>1. /\ SemInv' /\ S'.cur = S.cur /\ pc' = pc /\ on' = on /\ Binary'
  BY ReleaseGives
<1>2. /\ S.cur = p /\ pc[p] = "run" /\ at[p] = "in" /\ ~Waits(p)
      /\ \A q \in Thread : q # p => at[q] \notin {"sig1", "wait1"}
      /\ Owners = {p}
      /\ \A q \in Thread : q # p /\ at[q] # "out" => Waits(q)
  BY MonRuns, OwnerRuns
<1>3. \A q \in Thread : at'[q] = IF q = p THEN l ELSE at[q]
  BY MonFacts
<1>4. Place'
  BY <1>1, <1>2, <1>3 DEF MonInv, Place, InDown
<1>5. Owners' = {q \in Thread : at'[q] \in {"in", "sig2", "wait2"} /\ ~Waits(q)'}
  BY <1>1, <1>4, OwnersAreNext
<1>6. Inside' = Inside \ {p} /\ p \in Inside
  BY <1>2, <1>3 DEF Inside
<1>7. Urgent' = Urgent
  BY <1>2, <1>3 DEF Urgent
<1>8. ASSUME NEW w \in Thread, w # p, at[w] \in {"in", "sig2"},
             \A q \in Thread : Waits(q)' <=> Waits(q) /\ q # w
      PROVE  Owners' = {w}
  <2>1. \A q \in Thread : q \in Owners' <=> q = w
    BY <1>2, <1>3, <1>5, <1>8
  <2> QED BY <1>5, <1>8, <2>1
<1>9. ASSUME \A q \in Thread : Waits(q)' <=> Waits(q)
      PROVE  Owners' = {}
  <2>1. \A q \in Thread : q \notin Owners'
    BY <1>2, <1>3, <1>5, <1>9
  <2> QED BY <1>5, <2>1
<1>10. Passes(p)
  <2>1. CASE \E w \in Urgent :
               /\ w # p /\ at[w] = "sig2" /\ value'[Mutex] = 0
               /\ \A q \in Thread : Waits(q)' <=> Waits(q) /\ q # w
    <3>1. PICK w \in Urgent :
               /\ w # p /\ at[w] = "sig2" /\ value'[Mutex] = 0
               /\ \A q \in Thread : Waits(q)' <=> Waits(q) /\ q # w
      BY <2>1
    <3>2. Owners' = {w}
      BY <1>8, <3>1, Apart
    <3> QED BY <1>2, <1>6, <1>7, <3>1, <3>2 DEF Passes
  <2>2. CASE /\ Urgent = {}
             /\ \E w \in Inside :
                  /\ w # p /\ value'[Mutex] = 0
                  /\ \A q \in Thread : Waits(q)' <=> Waits(q) /\ q # w
    <3>1. PICK w \in Inside :
                  /\ w # p /\ value'[Mutex] = 0
                  /\ \A q \in Thread : Waits(q)' <=> Waits(q) /\ q # w
      BY <2>2
    <3>2. w \in Thread /\ at[w] = "in"
      BY <3>1 DEF Inside
    <3>3. Owners' = {w}
      BY <1>8, <3>1, <3>2
    <3> QED BY <1>2, <1>6, <1>7, <2>2, <3>1, <3>3 DEF Passes
  <2>3. CASE /\ Urgent = {} /\ Inside = {p} /\ value'[Mutex] = 1
             /\ \A q \in Thread : Waits(q)' <=> Waits(q)
    BY <1>2, <1>6, <1>7, <1>9, <2>3 DEF Passes
  <2> QED BY <2>1, <2>2, <2>3, ReleaseGives
<1> QED BY <1>1, <1>4, <1>10

(* The end of a monitor routine.                                           *)
LEMMA LeaveStep ==
  ASSUME MonInv, NEW p \in Thread, Leave(p)
  PROVE  Sound /\ Leaves(p)
<1>1. /\ MonAt(p, "in") /\ Release(p) /\ at' = [at EXCEPT ![p] = "out"]
      /\ UNCHANGED <<count, next_count, cv>>
  BY DEF Leave, MonGoto
<1>2. SemInv' /\ Place' /\ Binary' /\ Passes(p)
  BY <1>1, PassStep
<1>3. MonTypeOK'
  BY <1>1, <1>2, MonFacts DEF MonTypeOK, SemInv
<1>4. \A c \in Cond : Waiting(c)' = Waiting(c)
  <2>1. at[p] = "in" /\ \A q \in Thread : at'[q] = IF q = p THEN "out" ELSE at[q]
    BY <1>1, MonFacts, MonRuns
  <2> QED BY <1>1, <2>1 DEF Waiting
<1> QED BY <1>1, <1>2, <1>3, <1>4 DEF Sound, MonKind, Leaves

(* cond_wait up to down(cvp->sem).                                         *)
LEMMA CondWaitStep ==
  ASSUME MonInv, NEW p \in Thread, NEW c \in Cond, Wait(p, c)
  PROVE  Sound /\ BeginsWait(p, c)
<1>1. /\ MonAt(p, "in") /\ Release(p) /\ at' = [at EXCEPT ![p] = "wait1"]
      /\ count' = [count EXCEPT ![c] = @ + 1] /\ cv' = [cv EXCEPT ![p] = c]
      /\ UNCHANGED next_count
  BY DEF Wait, MonGoto
<1>2. /\ \A q \in Thread : cv'[q] = IF q = p THEN c ELSE cv[q]
      /\ \A q \in Thread : at'[q] = IF q = p THEN "wait1" ELSE at[q]
      /\ at[p] = "in"
  BY <1>1, MonFacts, MonRuns
<1>3. SemInv' /\ Place' /\ Binary' /\ Passes(p)
  BY <1>1, <1>2, PassStep
<1>4. MonTypeOK'
  BY <1>1, <1>3, MonFacts DEF MonTypeOK, SemInv
<1>5. \A x \in Cond :
        Waiting(x)' = IF x = c THEN Waiting(c) \cup {p} ELSE Waiting(x)
  BY <1>2 DEF Waiting
<1> QED BY <1>1, <1>3, <1>4, <1>5 DEF Sound, MonKind, BeginsWait

(* cond_signal up to down(next): somebody does wait for the condition.     *)
LEMMA SignalStep ==
  ASSUME MonInv, NEW p \in Thread, NEW c \in Cond, Signal(p, c)
  PROVE  Sound /\ Signals(p, c)
<1>1. /\ MonAt(p, "in") /\ count[c] > 0 /\ Up(p, c)
      /\ at' = [at EXCEPT ![p] = "sig1"]
      /\ next_count' = next_count + 1 /\ UNCHANGED <<count, cv>>
  BY DEF Signal, MonGoto
<1>2. /\ S.cur = p /\ pc[p] = "run" /\ at[p] = "in" /\ ~Waits(p)
      /\ \A q \in Thread : q # p => at[q] \notin {"sig1", "wait1"}
      /\ Owners = {p} /\ value[Mutex] = 0
      /\ \A q \in Thread : q # p /\ at[q] # "out" => Waits(q)
  BY <1>1, MonRuns, OwnerRuns
<1>3. \A q \in Thread : at'[q] = IF q = p THEN "sig1" ELSE at[q]
  BY <1>1, MonFacts
<1>4. c \in Sem
  BY MonSems
<1>5. /\ SemInv' /\ S'.cur = S.cur /\ pc' = pc /\ on' = on
      /\ \/ queue[c] = <<>>
         \/ /\ value' = value
            /\ \E w \in Thread :
                 /\ Waits(w) /\ on[w] = c
                 /\ \A q \in Thread : Waits(q)' <=> Waits(q) /\ q # w
  BY <1>1, <1>4, MonUp
<1>6. queue[c] # <<>>
  <2>1. Waiting(c) # {}
    <3>1. Cardinality(Waiting(c)) > 0
      BY <1>1, MonFacts
    <3>2. Waiting(c) = {} => Cardinality(Waiting(c)) = 0
      BY FS_EmptySet
    <3> QED BY <3>1, <3>2
  <2>2. PICK u \in Thread : at[u] \in {"wait1", "wait2"} /\ cv[u] = c
    BY <2>1 DEF Waiting
  <2>3. Waits(u) /\ at[u] = "wait2"
    BY <1>2, <2>2
  <2> QED BY <2>2, <2>3, WaitsWhere, QueueNotEmpty
<1>7. PICK w \in Thread :
        /\ Waits(w) /\ on[w] = c
        /\ \A q \in Thread : Waits(q)' <=> Waits(q) /\ q # w
  BY <1>5, <1>6
<1>8. value' = value
  BY <1>5, <1>6
<1>9. at[w] = "wait2" /\ cv[w] = c /\ w # p
  BY <1>2, <1>7, WaitsWhere
<1>10. Place'
  BY <1>1, <1>2, <1>3, <1>5 DEF MonInv, Place, InDown
<1>11. Binary'
  BY <1>8 DEF MonInv, Binary
<1>12. MonTypeOK'
  BY <1>1, <1>5, MonFacts DEF MonTypeOK, SemInv
<1>13. Owners' = {w}
  <2>1. Owners' = {q \in Thread : at'[q] \in {"in", "sig2", "wait2"} /\ ~Waits(q)'}
    BY <1>5, <1>10, OwnersAreNext
  <2>2. \A q \in Thread : q \in Owners' <=> q = w
    BY <1>2, <1>3, <1>7, <1>9, <2>1
  <2> QED BY <2>1, <2>2
<1>14. w \in Waiting(c) /\ p \in Inside
  BY <1>2, <1>9 DEF Waiting, Inside
<1>15. /\ Inside' = Inside \ {p} /\ Urgent' = Urgent \cup {p}
       /\ \A x \in Cond : Waiting(x)' = Waiting(x)
  BY <1>1, <1>2, <1>3 DEF Inside, Urgent, Waiting
<1>16. Signals(p, c)
  BY <1>1, <1>2, <1>8, <1>13, <1>14, <1>15 DEF Signals
<1> QED BY <1>5, <1>10, <1>11, <1>12, <1>16 DEF Sound, MonKind

(* down() of a semaphore that has no unit: the thread is not the owner     *)
(* before and not after.                                                   *)
LEMMA DownStep ==
  ASSUME MonInv, NEW p \in Thread, NEW s \in Sem, NEW l, NEW m, MonAt(p, l),
         DownWaits(p, s), at' = [at EXCEPT ![p] = m],
         UNCHANGED <<count, next_count, cv>>,
         \/ l = "out" /\ m = "in" /\ s = Mutex
         \/ l = "sig1" /\ m = "sig2" /\ s = NextSem
         \/ l = "wait1" /\ m = "wait2" /\ s = cv[p]
  PROVE  /\ SemInv' /\ Place' /\ Binary' /\ MonTypeOK'
         /\ Owners' = Owners /\ p \notin Owners /\ value' = value
<1>1. /\ S.cur = p /\ pc[p] = "run" /\ at[p] = l /\ ~Waits(p)
      /\ \A q \in Thread : q # p => at[q] \notin {"sig1", "wait1"}
  BY MonRuns
<1>2. SemInv'
  BY MonFacts, WaitStep
<1>3. /\ value' = value /\ pc' = [pc EXCEPT ![p] = "down1"]
      /\ on' = [on EXCEPT ![p] = s]
  BY DEF DownWaits, Goto
<1>4. \A q \in Thread : Waits(q)' <=> Waits(q) \/ q = p
  BY MonFacts, WaitsDown
<1>5. /\ \A q \in Thread : pc'[q] = IF q = p THEN "down1" ELSE pc[q]
      /\ \A q \in Thread : on'[q] = IF q = p THEN s ELSE on[q]
      /\ \A q \in Thread : at'[q] = IF q = p THEN m ELSE at[q]
  BY <1>3, MonFacts, SemFacts
<1>6. Place'
  <2> SUFFICES ASSUME NEW q \in Thread
               PROVE
    /\ pc'[q] \in InDown => \/ at'[q] = "in" /\ on'[q] = Mutex
                            \/ at'[q] = "sig2" /\ on'[q] = NextSem
                            \/ at'[q] = "wait2" /\ on'[q] = cv'[q]
    /\ pc'[q] \notin InDown \cup {"run"} => at'[q] = "out"
    /\ at'[q] \in {"sig1", "wait1"} => S'.cur = q /\ pc'[q] = "run"
    BY DEF Place
  <2>1. CASE q = p
    BY <1>5, <2>1 DEF InDown
  <2>2. CASE q # p
    BY <1>1, <1>5, <2>2 DEF MonInv, Place
  <2> QED BY <2>1, <2>2
<1>7. Binary'
  BY <1>3 DEF MonInv, Binary
<1>8. MonTypeOK'
  BY <1>2, MonFacts DEF MonTypeOK, SemInv
<1>9. /\ Owners = {q \in Thread : at[q] \in {"in", "sig2", "wait2"} /\ ~Waits(q)}
      /\ Owners' = {q \in Thread : at'[q] \in {"in", "sig2", "wait2"} /\ ~Waits(q)'}
  BY <1>2, <1>6, OwnersAre, OwnersAreNext DEF MonInv
<1>10. p \notin Owners
  BY <1>1, <1>9
<1>11. \A q \in Thread : q \in Owners' <=> q \in Owners
  BY <1>1, <1>4, <1>5, <1>9
<1> QED BY <1>2, <1>3, <1>6, <1>7, <1>8, <1>9, <1>10, <1>11

(* A thread enters, or stops at the door.                                  *)
LEMMA EnterStep ==
  ASSUME MonInv, NEW p \in Thread, Enter(p)
  PROVE  Sound /\ (Enters(p) \/ Asks(p))
<1>1. /\ MonAt(p, "out") /\ Down(p, Mutex) /\ at' = [at EXCEPT ![p] = "in"]
      /\ UNCHANGED <<count, next_count, cv>>
  BY DEF Enter, MonGoto
<1>2. /\ S.cur = p /\ pc[p] = "run" /\ at[p] = "out" /\ ~Waits(p)
      /\ \A q \in Thread : q # p => at[q] \notin {"sig1", "wait1"}
  BY <1>1, MonRuns
<1>3. \A q \in Thread : at'[q] = IF q = p THEN "in" ELSE at[q]
  BY <1>1, MonFacts
<1>4. /\ Inside' = Inside \cup {p} /\ Urgent' = Urgent
      /\ \A x \in Cond : Waiting(x)' = Waiting(x)
  BY <1>1, <1>2, <1>3 DEF Inside, Urgent, Waiting
<1>5. Mutex \in Sem
  BY MonSems
<1>6. CASE DownTakes(p, Mutex)
  <2>1. /\ value[Mutex] > 0 /\ value' = [value EXCEPT ![Mutex] = @ - 1]
        /\ UNCHANGED <<S, queue, on, pc>>
    BY <1>6 DEF DownTakes
  <2>2. SemInv'
    BY <1>5, <1>6, MonFacts, TakeStep
  <2>3. Place'
    BY <1>1, <1>2, <1>3, <2>1 DEF MonInv, Place, InDown
  <2>4. value[Mutex] = 1 /\ Owners = {}
    BY <2>1 DEF MonInv, Owned
  <2>5. \A s \in Sem : value'[s] = IF s = Mutex THEN 0 ELSE value[s]
    BY <2>1, <2>4, MonFacts
  <2>6. Binary' /\ value'[Mutex] = 0
    BY <1>5, <2>5 DEF MonInv, Binary
  <2>7. MonTypeOK'
    BY <1>1, <2>2, MonFacts DEF MonTypeOK, SemInv
  <2>8. /\ Owners = {q \in Thread : at[q] \in {"in", "sig2", "wait2"} /\ ~Waits(q)}
        /\ Owners' = {q \in Thread : at'[q] \in {"in", "sig2", "wait2"} /\ ~Waits(q)'}
    BY <2>2, <2>3, OwnersAre, OwnersAreNext DEF MonInv
  <2>9. \A q \in Thread : Waits(q)' <=> Waits(q)
    BY <2>1 DEF Waits
  <2>10. \A q \in Thread : q \in Owners' <=> q = p
    BY <1>2, <1>3, <2>4, <2>8, <2>9
  <2>11. Owners' = {p}
    BY <2>8, <2>10
  <2>12. Enters(p)
    <3>1. p \notin Inside \cup Urgent /\ \A c \in Cond : p \notin Waiting(c)
      BY <1>2 DEF Inside, Urgent, Waiting
    <3> QED BY <1>1, <1>4, <2>4, <2>6, <2>11, <3>1 DEF Enters
  <2> QED BY <2>2, <2>3, <2>6, <2>7, <2>12 DEF Sound, MonKind
<1>7. CASE DownWaits(p, Mutex)
  <2>1. /\ SemInv' /\ Place' /\ Binary' /\ MonTypeOK'
        /\ Owners' = Owners /\ p \notin Owners /\ value' = value
    BY <1>1, <1>5, <1>7, DownStep
  <2>2. ~(value[Mutex] > 0)
    BY <1>7 DEF DownWaits
  <2>3. Owners # {}
    BY <2>2 DEF MonInv, Owned
  <2>4. Asks(p)
    BY <1>1, <1>4, <2>1, <2>3 DEF Asks
  <2> QED BY <2>1, <2>4 DEF Sound, MonKind
<1> QED BY <1>1, <1>6, <1>7 DEF Down

(* down(next) and down(cvp->sem) always wait.                              *)
LEMMA SleepInsideStep ==
  ASSUME MonInv, NEW p \in Thread, SignalWaits(p) \/ WaitSleeps(p)
  PROVE  Sound /\ Quiet
<1> SUFFICES ASSUME NEW l, NEW m, NEW s, MonAt(p, l), Down(p, s),
                    at' = [at EXCEPT ![p] = m],
                    UNCHANGED <<count, next_count, cv>>,
                    \/ l = "sig1" /\ m = "sig2" /\ s = NextSem
                    \/ l = "wait1" /\ m = "wait2" /\ s = cv[p]
             PROVE  Sound /\ Quiet
  BY DEF SignalWaits, WaitSleeps, MonGoto
<1>1. s \in Sem /\ s # Mutex
  BY MonSems, MonFacts
<1>2. value[s] = 0
  BY <1>1 DEF MonInv, Binary
<1>3. DownWaits(p, s)
  BY <1>2 DEF Down, DownTakes
<1>4. /\ SemInv' /\ Place' /\ Binary' /\ MonTypeOK'
      /\ Owners' = Owners /\ value' = value
  BY <1>1, <1>3, DownStep
<1>5. at[p] = l /\ \A q \in Thread : at'[q] = IF q = p THEN m ELSE at[q]
  BY MonFacts, MonRuns
<1>6. /\ Inside' = Inside /\ Urgent' = Urgent
      /\ \A x \in Cond : Waiting(x)' = Waiting(x)
  BY <1>5 DEF Inside, Urgent, Waiting
<1>7. Quiet
  BY <1>4, <1>6 DEF Quiet
<1> QED BY <1>4, <1>7 DEF Sound, MonKind

(* The new owner leaves cond_signal or cond_wait.                          *)
LEMMA BackInsideStep ==
  ASSUME MonInv, NEW p \in Thread, SignalReturns(p) \/ WaitReturns(p)
  PROVE  /\ Sound
         /\ SignalReturns(p) => EndsSignal(p)
         /\ WaitReturns(p) => EndsWait(p, cv[p])
<1>1. PICK l \in {"sig2", "wait2"} : MonAt(p, l) /\ at' = [at EXCEPT ![p] = "in"]
  BY DEF SignalReturns, WaitReturns, MonGoto
<1>2. /\ S.cur = p /\ pc[p] = "run" /\ at[p] = l /\ ~Waits(p)
      /\ \A q \in Thread : q # p => at[q] \notin {"sig1", "wait1"}
      /\ Owners = {p} /\ value[Mutex] = 0
      /\ \A q \in Thread : q # p /\ at[q] # "out" => Waits(q)
  BY <1>1, MonRuns, OwnerRuns
<1>3. \A q \in Thread : at'[q] = IF q = p THEN "in" ELSE at[q]
  BY <1>1, MonFacts
<1>4. UNCHANGED <<S, value, queue, flags, on, pc>> /\ cv' = cv
  BY DEF SignalReturns, WaitReturns, vars
<1>5. SemInv' /\ Binary'
  <2>1. SemInv /\ UNCHANGED vars
    BY <1>4, MonFacts DEF vars
  <2>2. SemInv'
    BY <2>1, SemInvStep
  <2> QED BY <1>4, <2>2 DEF MonInv, Binary
<1>6. Place'
  BY <1>2, <1>3, <1>4 DEF MonInv, Place, InDown
<1>7. Owners' = {q \in Thread : at'[q] \in {"in", "sig2", "wait2"} /\ ~Waits(q)'}
  BY <1>5, <1>6, OwnersAreNext
<1>8. \A q \in Thread : Waits(q)' <=> Waits(q)
  BY <1>4 DEF Waits
<1>9. Owners' = {p}
  <2>1. \A q \in Thread : q \in Owners' <=> q = p
    BY <1>2, <1>3, <1>7, <1>8
  <2> QED BY <1>7, <2>1
<1>10. CASE SignalReturns(p)
  <2>1. at[p] = "sig2" /\ next_count' = next_count - 1 /\ count' = count
    BY <1>10 DEF SignalReturns, MonAt
  <2>2. p \in Urgent
    BY <2>1 DEF Urgent
  <2>3. next_count' \in Nat
    <3>1. Urgent \subseteq Thread /\ next_count = Cardinality(Urgent)
      BY Apart, MonFacts
    <3>2. IsFiniteSet(Urgent \ {p}) /\ Cardinality(Urgent \ {p}) \in Nat
      BY <3>1, MonFinite, FS_RemoveElement, FS_CardinalityType
    <3>3. Cardinality(Urgent \ {p}) = Cardinality(Urgent) - 1
      BY <2>2, <3>1, MonFinite
    <3> QED BY <2>1, <3>1, <3>2, <3>3
  <2>4. MonTypeOK'
    BY <1>1, <1>4, <1>5, <2>1, <2>3, MonFacts DEF MonTypeOK, SemInv
  <2>5. /\ Inside' = Inside \cup {p} /\ Urgent' = Urgent \ {p}
        /\ \A x \in Cond : Waiting(x)' = Waiting(x)
    BY <1>3, <1>4, <2>1 DEF Inside, Urgent, Waiting
  <2>6. EndsSignal(p)
    BY <1>2, <1>4, <1>9, <2>1, <2>2, <2>5 DEF EndsSignal
  <2>7. ~WaitReturns(p)
    BY <2>1 DEF WaitReturns, MonAt
  <2> QED BY <1>5, <1>6, <2>4, <2>6, <2>7 DEF Sound, MonKind
<1>11. CASE WaitReturns(p)
  <2> DEFINE c == cv[p]
  <2>1. /\ at[p] = "wait2" /\ count' = [count EXCEPT ![c] = @ - 1]
        /\ next_count' = next_count /\ c \in Cond
    BY <1>11, MonFacts DEF WaitReturns, MonAt
  <2>2. p \in Waiting(c)
    BY <2>1 DEF Waiting
  <2>3. count' \in [Cond -> Nat]
    <3> HIDE DEF c
    <3>1. Waiting(c) \subseteq Thread /\ count[c] = Cardinality(Waiting(c))
      BY <2>1, Apart, MonFacts
    <3>2. IsFiniteSet(Waiting(c) \ {p}) /\ Cardinality(Waiting(c) \ {p}) \in Nat
      BY <3>1, MonFinite, FS_RemoveElement, FS_CardinalityType
    <3>3. Cardinality(Waiting(c) \ {p}) = Cardinality(Waiting(c)) - 1
      BY <2>2, <3>1, MonFinite
    <3>4. count[c] - 1 \in Nat
      BY <3>1, <3>2, <3>3
    <3> QED BY <2>1, <3>4, MonFacts
  <2>4. MonTypeOK'
    BY <1>1, <1>4, <1>5, <2>1, <2>3, MonFacts DEF MonTypeOK, SemInv
  <2>5. /\ Inside' = Inside \cup {p} /\ Urgent' = Urgent
        /\ \A x \in Cond :
             Waiting(x)' = IF x = c THEN Waiting(c) \ {p} ELSE Waiting(x)
    BY <1>3, <1>4, <2>1 DEF Inside, Urgent, Waiting
  <2>6. EndsWait(p, c)
    BY <1>2, <1>4, <1>9, <2>1, <2>2, <2>5 DEF EndsWait
  <2>7. ~SignalReturns(p)
    BY <2>1 DEF SignalReturns, MonAt
  <2> QED BY <1>5, <1>6, <2>1, <2>4, <2>6, <2>7 DEF Sound, MonKind
<1> QED BY <1>10, <1>11

-----------------------------------------------------------------------------
(* Steps outside the monitor's code.                                       *)

(* Nobody starts or ends to wait for a semaphore.                          *)
LEMMA QuietMon ==
  ASSUME MonInv, SemInv', UNCHANGED mvars, UNCHANGED <<value, queue, on>>,
         \A q \in Thread :
           /\ pc'[q] \in InDown => pc[q] \in InDown
           /\ pc'[q] \notin InDown \cup {"run"} => at[q] = "out"
           /\ at[q] \in {"sig1", "wait1"} => S'.cur = q /\ pc'[q] = "run"
  PROVE  Sound /\ Quiet
<1>1. UNCHANGED <<count, next_count, cv, at>>
  BY DEF mvars
<1>2. Place'
  <2> SUFFICES ASSUME NEW q \in Thread
               PROVE
    /\ pc'[q] \in InDown => \/ at[q] = "in" /\ on[q] = Mutex
                            \/ at[q] = "sig2" /\ on[q] = NextSem
                            \/ at[q] = "wait2" /\ on[q] = cv[q]
    /\ pc'[q] \notin InDown \cup {"run"} => at[q] = "out"
    /\ at[q] \in {"sig1", "wait1"} => S'.cur = q /\ pc'[q] = "run"
    BY <1>1 DEF Place
  <2> QED BY DEF MonInv, Place
<1>3. Binary'
  BY DEF MonInv, Binary
<1>4. MonTypeOK'
  BY <1>1, MonFacts DEF MonTypeOK, SemInv
<1>5. /\ Owners = {q \in Thread : at[q] \in {"in", "sig2", "wait2"} /\ ~Waits(q)}
      /\ Owners' = {q \in Thread : at'[q] \in {"in", "sig2", "wait2"} /\ ~Waits(q)'}
  BY <1>2, OwnersAre, OwnersAreNext DEF MonInv
<1>6. Owners' = Owners
  BY <1>1, <1>5 DEF Waits
<1>7. Quiet
  BY <1>1, <1>6 DEF Quiet, Inside, Urgent, Waiting
<1> QED BY <1>2, <1>3, <1>4, <1>7 DEF Sound, MonKind

(* Sleeping and ending outside, interrupts and idleproc.                   *)
LEMMA OutsideStep ==
  ASSUME MonInv, UNCHANGED mvars,
         \/ \E p \in Thread : MonAt(p, "out") /\ (Sleep(p) \/ Exit(p))
         \/ \E p \in Thread : Alarm(p)
         \/ ClockTick \/ IdleLoop \/ UNCHANGED vars
  PROVE  Sound /\ Quiet
<1>0. SemInv
  BY MonFacts
<1>1. SemInv'
  <2>1. [AnyStep]_vars
    BY DEF AnyStep, Interrupt
  <2> QED BY <1>0, <2>1, SemInvStep
<1>2. UNCHANGED <<value, queue, on>>
  BY DEF Sleep, Exit, Alarm, ClockTick, IdleLoop, vars
<1>3. ASSUME NEW q \in Thread
      PROVE  /\ pc'[q] \in InDown => pc[q] \in InDown
             /\ pc'[q] \notin InDown \cup {"run"} => at[q] = "out"
             /\ at[q] \in {"sig1", "wait1"} => S'.cur = q /\ pc'[q] = "run"
  <2>0. /\ pc[q] \notin InDown \cup {"run"} => at[q] = "out"
        /\ at[q] \in {"sig1", "wait1"} => S.cur = q /\ pc[q] = "run"
    BY DEF MonInv, Place
  <2>1. ASSUME NEW p \in Thread, MonAt(p, "out"), Sleep(p) \/ Exit(p)
        PROVE  /\ pc'[q] \in InDown => pc[q] \in InDown
               /\ pc'[q] \notin InDown \cup {"run"} => at[q] = "out"
               /\ at[q] \in {"sig1", "wait1"} => S'.cur = q /\ pc'[q] = "run"
    <3>1. at[p] = "out" /\ S'.cur = S.cur
      BY <1>0, <2>1, SleepStep, ExitStep DEF MonAt
    <3>2. PICK l \in {"sleep1", "exit1"} : pc' = [pc EXCEPT ![p] = l]
      BY <2>1 DEF Sleep, Exit, Goto
    <3>3. pc'[q] = IF q = p THEN l ELSE pc[q]
      BY <1>0, <3>2, SemFacts
    <3> QED BY <2>0, <3>1, <3>3 DEF InDown
  <2>2. ASSUME NEW p \in Thread, Alarm(p) PROVE S'.cur = S.cur /\ pc' = pc
    BY <1>0, <2>2, AlarmStep DEF Alarm
  <2>3. CASE ClockTick
    <3>1. SchedOK(S) /\ S' = ProcTick(S) /\ pc' = pc
      BY <1>0, <2>3, SemFacts DEF ClockTick
    <3>2. S'.cur = S.cur
      BY <3>1, ProcTickOK
    <3> QED BY <2>0, <3>1, <3>2
  <2>4. CASE IdleLoop
    <3>1. S.cur = Idle /\ pc' = pc /\ q # Idle
      BY <2>4 DEF IdleLoop, Thread
    <3> QED BY <2>0, <3>1
  <2>5. CASE UNCHANGED vars
    BY <2>0, <2>5 DEF vars
  <2> QED BY <2>0, <2>1, <2>2, <2>3, <2>4, <2>5
<1> QED BY <1>1, <1>2, <1>3, QuietMon

(* The semaphore functions once called, schedule() and do_exit.            *)
LEMMA KernelMon ==
  ASSUME MonInv, UNCHANGED mvars, NEW p \in Thread, KernelStep(p)
  PROVE  Sound /\ Quiet
<1>0. SemInv
  BY MonFacts
<1>1. SemInv'
  <2>1. [AnyStep]_vars
    BY DEF AnyStep
  <2> QED BY <1>0, <2>1, SemInvStep
<1>2. PICK l, m :
        /\ S.cur = p /\ pc[p] = l /\ pc' = [pc EXCEPT ![p] = m]
        /\ <<l, m>> \in {<<"down1", "down2">>, <<"down2", "run">>,
                         <<"sleep1", "sleep2">>, <<"sleep2", "run">>,
                         <<"exit1", "dead">>}
  BY DEF KernelStep, DownSchedule, DownReturns, SleepSchedule, SleepReturns,
         ExitSchedule, At, Goto
<1>3. UNCHANGED <<value, queue, on>>
  BY <1>0, ReturnStep DEF KernelStep, DownSchedule, SleepSchedule,
         SleepReturns, ExitSchedule
<1>4. ASSUME NEW q \in Thread
      PROVE  /\ pc'[q] \in InDown => pc[q] \in InDown
             /\ pc'[q] \notin InDown \cup {"run"} => at[q] = "out"
             /\ at[q] \in {"sig1", "wait1"} => S'.cur = q /\ pc'[q] = "run"
  <2>0. /\ pc[q] \notin InDown \cup {"run"} => at[q] = "out"
        /\ at[q] \in {"sig1", "wait1"} => S.cur = q /\ pc[q] = "run"
    BY DEF MonInv, Place
  <2>1. pc'[q] = IF q = p THEN m ELSE pc[q]
    BY <1>0, <1>2, SemFacts
  <2> QED BY <1>2, <2>0, <2>1 DEF InDown
<1> QED BY <1>1, <1>3, <1>4, QuietMon

-----------------------------------------------------------------------------

(* Every step of the monitor's users is of one of the kinds above.         *)
LEMMA MonSound ==
  ASSUME MonInv, [MonNext]_monvars
  PROVE  Sound
<1>1. CASE UNCHANGED monvars
  BY <1>1, OutsideStep DEF monvars
<1>2. ASSUME NEW p \in Thread, Enter(p) \/ Leave(p)
      PROVE  Sound
  BY <1>2, EnterStep, LeaveStep
<1>3. ASSUME NEW p \in Thread, Sleeps(p) \/ Exits(p) \/ MonAlarm(p)
      PROVE  Sound
  BY <1>3, OutsideStep DEF Sleeps, Exits, MonAlarm
<1>4. ASSUME NEW p \in Thread, NEW c \in Cond, Signal(p, c) \/ Wait(p, c)
      PROVE  Sound
  BY <1>4, SignalStep, CondWaitStep
<1>5. ASSUME NEW p \in Thread, NEW c \in Cond, SignalNobody(p, c)
      PROVE  UNCHANGED monvars
  BY <1>5 DEF SignalNobody
<1>6. ASSUME NEW p \in Thread, MonitorStep(p)
      PROVE  Sound
  BY <1>6, SleepInsideStep, BackInsideStep DEF MonitorStep
<1>7. CASE CpuInKernel
  BY <1>7, OutsideStep, KernelMon DEF CpuInKernel
<1>8. CASE MonTick
  BY <1>8, OutsideStep DEF MonTick
<1> QED BY <1>1, <1>2, <1>3, <1>4, <1>5, <1>6, <1>7, <1>8 DEF MonNext

(* Every step keeps the invariant.                                         *)
LEMMA MonInvStep == MonInv /\ [MonNext]_monvars => MonInv'
<1> SUFFICES ASSUME MonInv, [MonNext]_monvars PROVE MonInv'
  OBVIOUS
<1>1. SemInv' /\ Place' /\ Binary' /\ MonTypeOK' /\ MonKind
  BY MonSound DEF Sound
<1> QED BY <1>1, KindCounts DEF MonInv

(* The semaphores of the monitor, the places of its threads and its counts *)
(* agree in every reachable state, whatever cond_signal and cond_wait hand *)
(* over, for any number of threads and condition variables.                *)
THEOREM MonInvHolds == MonSpec => []MonInv
  BY InitMon, MonInvStep, PTL DEF MonSpec

(* Mutual exclusion, through all hand-overs, and the counts by which       *)
(* cond_signal and cond_wait choose whom to wake, for any number of        *)
(* threads and condition variables.                                        *)
THEOREM MonitorCorrect == MonSpec => []MonitorExact
<1>1. MonInv => MonitorExact
  <2> SUFFICES ASSUME MonInv PROVE OneOwner
    BY DEF MonitorExact, MonInv
  <2>1. CASE value[Mutex] = 1 /\ Owners = {}
    BY <2>1 DEF OneOwner
  <2>2. ASSUME NEW p \in Thread, Owners = {p}, value[Mutex] = 0
        PROVE  OneOwner
    BY <2>2, FS_Singleton DEF OneOwner
  <2> QED BY <2>1, <2>2 DEF MonInv, Owned
<1> QED BY <1>1, MonInvHolds, PTL

-----------------------------------------------------------------------------
(* The monitor as a user of semaphores.                                    *)

(* The owner may call up(), since no semaphore has a unit.                 *)
LEMMA OwnerUps ==
  ASSUME MonInv, NEW p \in Thread, MonAt(p, "in"), NEW s \in Sem, Up(p, s)
  PROVE  Next
<1>1. value[s] = 0
  BY OwnerRuns DEF MonInv, Binary
<1>2. value[s] < MaxValue
  BY <1>1, CondAssumption
<1> QED BY <1>2 DEF Next, Call

(* monitor.c only does to its semaphores what any thread may do, so that   *)
(* what is proved of semaphores holds of those of a monitor, and none of   *)
(* them ever holds more than one unit.                                     *)
THEOREM MonitorUsesSemaphores == MonSpec => UsesSemaphores
<1> DEFINE Use == \/ UNCHANGED mvars \/ UNCHANGED vars
                  \/ Next /\ \A s \in Sem : value'[s] <= 1
<1>1. ASSUME MonInv, [MonNext]_monvars PROVE [Use]_monvars
  <2>0. \A s \in Sem : value'[s] <= 1
    BY <1>1, MonSound DEF Sound, Binary
  <2>1. ASSUME NEW p \in Thread, NEW s \in Sem, Down(p, s) PROVE Next
    BY <2>1 DEF Next, Call
  <2>2. ASSUME NEW p \in Thread, Enter(p) \/ SignalWaits(p) \/ WaitSleeps(p)
        PROVE  Next
    <3>1. Mutex \in Sem /\ NextSem \in Sem /\ cv[p] \in Sem
      BY <1>1, MonFacts, MonSems
    <3> QED BY <2>1, <2>2, <3>1 DEF Enter, SignalWaits, WaitSleeps
  <2>3. ASSUME NEW p \in Thread, MonAt(p, "in"), Release(p) PROVE Next
    <3>1. PICK s \in Sem : Up(p, s)
      BY <2>3, MonSems DEF Release
    <3> QED BY <1>1, <2>3, <3>1, OwnerUps
  <2>4. ASSUME NEW p \in Thread, NEW c \in Cond, Signal(p, c) PROVE Next
    BY <1>1, <2>4, MonSems, OwnerUps DEF Signal
  <2>5. ASSUME NEW p \in Thread, SignalReturns(p) \/ WaitReturns(p)
        PROVE  UNCHANGED vars
    BY <2>5 DEF SignalReturns, WaitReturns
  <2>6. ASSUME NEW p \in Thread, Sleeps(p) \/ Exits(p) \/ MonAlarm(p)
        PROVE  UNCHANGED mvars
    BY <2>6 DEF Sleeps, Exits, MonAlarm
  <2>7. ASSUME NEW p \in Thread, NEW c \in Cond, SignalNobody(p, c)
        PROVE  UNCHANGED monvars
    BY <2>7 DEF SignalNobody
  <2>8. CpuInKernel \/ MonTick => UNCHANGED mvars
    BY DEF CpuInKernel, MonTick
  <2> QED BY <1>1, <2>0, <2>2, <2>3, <2>4, <2>5, <2>6, <2>7, <2>8
          DEF MonNext, MonitorStep, Leave, Wait
<1>2. MonInv /\ [MonNext]_monvars => [Use]_monvars
  BY <1>1
<1> QED BY <1>2, MonInvHolds, PTL DEF MonSpec, UsesSemaphores

-----------------------------------------------------------------------------
(* The monitor implements the one of HoareMonitor.                         *)

(* The refinement mapping.                                                 *)
HOwner   == IF Owners = {} THEN Nobody ELSE CHOOSE p \in Owners : TRUE
HEntry   == Inside \ Owners
HUrgent  == Urgent \ Owners
HWaiting == [c \in Cond |-> Waiting(c) \ Owners]

(* Who owns the monitor, by the set of owners, in this state ...           *)
LEMMA HoareOwner ==
  /\ Owners = {} => HOwner = Nobody
  /\ \A p : Owners = {p} => HOwner = p
  BY DEF HOwner

(* ... and in the next one.                                                *)
LEMMA HoareOwnerNext ==
  /\ Owners' = {} => HOwner' = Nobody
  /\ \A p : Owners' = {p} => HOwner' = p
  BY DEF HOwner

(* Giving up the monitor.                                                  *)
LEMMA HoarePass ==
  ASSUME NEW p \in Thread, Passes(p),
         \A c \in Cond : Waiting(c)' \in {Waiting(c), Waiting(c) \cup {p}}
  PROVE  /\ HOwner = p /\ Hoare!Pass
         /\ \A c \in Cond : Waiting(c)' \cap Owners' = {}
<1>1. /\ p \in Inside /\ Owners = {p}
      /\ Inside' = Inside \ {p} /\ Urgent' = Urgent
  BY DEF Passes
<1>2. HOwner = p
  BY <1>1, HoareOwner
<1>3. HUrgent = Urgent /\ HEntry = Inside \ {p} /\ p \notin Urgent
  BY <1>1, Apart DEF HUrgent, HEntry
<1>4. HUrgent' = Urgent \ Owners' /\ HEntry' = (Inside \ {p}) \ Owners'
  BY <1>1 DEF HUrgent, HEntry
<1>5. CASE \E w \in Urgent : Owners' = {w}
  <2>1. PICK w \in Urgent : Owners' = {w}
    BY <1>5
  <2>2. w \notin Inside /\ w # p /\ \A c : w \notin Waiting(c)
    BY <1>3, <2>1, Apart
  <2>3. HOwner' = w
    BY <2>1, HoareOwnerNext
  <2>4. HEntry' = HEntry /\ HUrgent' = HUrgent \ {w} /\ w \in HUrgent
    BY <1>3, <1>4, <2>1, <2>2
  <2>5. Hoare!Pass
    BY <2>3, <2>4 DEF Hoare!Pass, HOwner, HEntry, HUrgent, Inside, Urgent
  <2> QED BY <1>2, <2>1, <2>2, <2>5
<1>6. CASE Urgent = {} /\ \E w \in Inside \ {p} : Owners' = {w}
  <2>1. PICK w \in Inside \ {p} : Owners' = {w}
    BY <1>6
  <2>2. \A c : w \notin Waiting(c)
    BY <2>1, Apart
  <2>3. HOwner' = w
    BY <2>1, HoareOwnerNext
  <2>4. HEntry' = HEntry \ {w} /\ w \in HEntry /\ HUrgent = {} /\ HUrgent' = {}
    BY <1>3, <1>4, <1>6, <2>1
  <2>5. Hoare!Pass
    BY <2>3, <2>4 DEF Hoare!Pass, HOwner, HEntry, HUrgent, Inside, Urgent
  <2> QED BY <1>2, <2>1, <2>2, <2>5
<1>7. CASE Urgent = {} /\ Inside = {p} /\ Owners' = {}
  <2>1. HOwner' = Nobody
    BY <1>7, HoareOwnerNext
  <2>2. HEntry' = {} /\ HEntry = {} /\ HUrgent = {} /\ HUrgent' = {}
    BY <1>3, <1>4, <1>7
  <2>3. Hoare!Pass
    BY <2>1, <2>2 DEF Hoare!Pass, HOwner, HEntry, HUrgent, Inside, Urgent
  <2> QED BY <1>2, <1>7, <2>3
<1> QED BY <1>5, <1>6, <1>7 DEF Passes

(* Each kind of step of the monitor is a step of HoareMonitor, or changes  *)
(* nothing that it shows.                                                  *)
LEMMA HoareStep ==
  ASSUME MonInv, MonKind
  PROVE  Hoare!Next \/ UNCHANGED <<HOwner, HEntry, HUrgent, HWaiting>>
<1>0. ASSUME \A c \in Cond : (Waiting(c) \ Owners)' = Waiting(c) \ Owners
      PROVE  HWaiting' = HWaiting
  BY <1>0 DEF HWaiting
<1>1. CASE Quiet
  <2>1. Owners' = Owners
    BY <1>1 DEF Quiet
  <2>2. HOwner' = HOwner
    BY <2>1 DEF HOwner
  <2>3. HEntry' = HEntry /\ HUrgent' = HUrgent
    BY <1>1 DEF Quiet, HEntry, HUrgent
  <2>4. HWaiting' = HWaiting
    BY <1>0, <1>1, <2>1 DEF Quiet
  <2> QED BY <2>2, <2>3, <2>4
<1>2. ASSUME NEW p \in Thread, Enters(p) PROVE Hoare!Next
  <2>1. HOwner = Nobody /\ HOwner' = p
    BY <1>2, HoareOwner, HoareOwnerNext DEF Enters
  <2>2. HEntry' = HEntry /\ HUrgent' = HUrgent
    BY <1>2 DEF Enters, HEntry, HUrgent
  <2>3. HWaiting' = HWaiting
    BY <1>0, <1>2 DEF Enters
  <2>4. Hoare!Enter(p)
    BY <2>1, <2>2, <2>3
       DEF Hoare!Enter, HOwner, HEntry, HUrgent, HWaiting, Inside, Urgent, Waiting
  <2> QED BY <2>4 DEF Hoare!Next
<1>3. ASSUME NEW p \in Thread, Asks(p) PROVE Hoare!Next
  <2>1. PICK o \in Thread : Owners = {o}
    BY <1>3 DEF Asks, MonInv, Owned
  <2>2. Owners' = {o} /\ o # p /\ o # Nobody
    BY <1>3, <2>1, MonSems DEF Asks
  <2>3. HOwner = o /\ HOwner' = o
    BY <2>1, <2>2, HoareOwner, HoareOwnerNext
  <2>4. HEntry' = HEntry \cup {p} /\ HUrgent' = HUrgent
    BY <1>3, <2>1, <2>2 DEF Asks, HEntry, HUrgent
  <2>5. HWaiting' = HWaiting
    BY <1>0, <1>3 DEF Asks
  <2>6. Hoare!Ask(p)
    BY <2>2, <2>3, <2>4, <2>5
       DEF Hoare!Ask, HOwner, HEntry, HUrgent, HWaiting, Inside, Urgent, Waiting
  <2> QED BY <2>6 DEF Hoare!Next
<1>4. ASSUME NEW p \in Thread, Leaves(p) PROVE Hoare!Next
  <2>1. /\ HOwner = p /\ Hoare!Pass
        /\ \A c \in Cond : Waiting(c)' \cap Owners' = {}
    BY <1>4, HoarePass DEF Leaves
  <2>2. Owners = {p} /\ \A c \in Cond : p \notin Waiting(c)
    BY <1>4, Apart DEF Leaves, Passes
  <2>3. HWaiting' = HWaiting
    BY <1>0, <1>4, <2>1, <2>2 DEF Leaves
  <2>4. Hoare!Leave(p)
    BY <2>1, <2>3 DEF Hoare!Leave, HOwner, HWaiting, Waiting
  <2> QED BY <2>4 DEF Hoare!Next
<1>5. ASSUME NEW p \in Thread, NEW c \in Cond, BeginsWait(p, c)
      PROVE  Hoare!Next
  <2>0. /\ Passes(p)
        /\ \A x \in Cond :
             Waiting(x)' = IF x = c THEN Waiting(c) \cup {p} ELSE Waiting(x)
    BY <1>5 DEF BeginsWait
  <2>1. /\ HOwner = p /\ Hoare!Pass
        /\ \A x \in Cond : Waiting(x)' \cap Owners' = {}
    BY <2>0, HoarePass
  <2>2. Owners = {p} /\ \A x \in Cond : p \notin Waiting(x)
    BY <2>0, Apart DEF Passes
  <2>3. \A x \in Cond : HWaiting[x] = Waiting(x) /\ HWaiting'[x] = Waiting(x)'
    <3>1. \A x \in Cond : Waiting(x) \ Owners = Waiting(x)
      BY <2>2
    <3>2. \A x \in Cond : (Waiting(x) \ Owners)' = Waiting(x)'
      BY <2>1
    <3> QED BY <3>1, <3>2 DEF HWaiting
  <2>4. /\ HWaiting = [x \in Cond |-> HWaiting[x]]
        /\ HWaiting' = [x \in Cond |-> HWaiting'[x]]
    BY DEF HWaiting
  <2>5. HWaiting' = [HWaiting EXCEPT ![c] = @ \cup {p}]
    BY <2>0, <2>3, <2>4
  <2>6. Hoare!Wait(p, c)
    BY <2>1, <2>5 DEF Hoare!Wait, HOwner, HWaiting, Waiting
  <2> QED BY <2>6 DEF Hoare!Next
<1>6. ASSUME NEW p \in Thread, NEW c \in Cond, Signals(p, c)
      PROVE  Hoare!Next
  <2>1. PICK w \in Waiting(c) : Owners' = {w}
    BY <1>6 DEF Signals
  <2>2. /\ Owners = {p} /\ p \in Inside /\ Inside' = Inside \ {p}
        /\ Urgent' = Urgent \cup {p}
        /\ \A x \in Cond : Waiting(x)' = Waiting(x)
    BY <1>6 DEF Signals
  <2>3. /\ w \notin Inside /\ w \notin Urgent /\ w # p /\ p \notin Urgent
        /\ \A x \in Cond : p \notin Waiting(x)
        /\ \A x \in Cond : x # c => w \notin Waiting(x)
    BY <2>1, <2>2, Apart
  <2>4. HOwner = p /\ HOwner' = w
    BY <2>1, <2>2, HoareOwner, HoareOwnerNext
  <2>5. HEntry' = HEntry /\ HUrgent' = HUrgent \cup {p}
    BY <2>1, <2>2, <2>3 DEF HEntry, HUrgent
  <2>6. /\ \A x \in Cond : HWaiting[x] = Waiting(x)
        /\ \A x \in Cond : HWaiting'[x] =
             IF x = c THEN Waiting(c) \ {w} ELSE Waiting(x)
    <3>1. \A x \in Cond : Waiting(x) \ Owners = Waiting(x)
      BY <2>2, <2>3
    <3>2. \A x \in Cond : (Waiting(x) \ Owners)' =
            IF x = c THEN Waiting(c) \ {w} ELSE Waiting(x)
      BY <2>1, <2>2, <2>3
    <3> QED BY <3>1, <3>2 DEF HWaiting
  <2>7. /\ HWaiting = [x \in Cond |-> HWaiting[x]]
        /\ HWaiting' = [x \in Cond |-> HWaiting'[x]]
    BY DEF HWaiting
  <2>8. HWaiting' = [HWaiting EXCEPT ![c] = @ \ {w}] /\ w \in HWaiting[c]
    BY <2>1, <2>6, <2>7
  <2>9. Hoare!Signal(p, c)
    BY <2>4, <2>5, <2>8
       DEF Hoare!Signal, HOwner, HEntry, HUrgent, HWaiting, Inside, Urgent, Waiting
  <2> QED BY <2>9 DEF Hoare!Next
<1>7. ASSUME NEW p \in Thread, NEW c \in Cond, EndsSignal(p) \/ EndsWait(p, c)
      PROVE  UNCHANGED <<HOwner, HEntry, HUrgent, HWaiting>>
  <2>1. /\ Owners = {p} /\ Owners' = {p} /\ Inside' = Inside \cup {p}
        /\ Urgent' \in {Urgent, Urgent \ {p}}
        /\ \A x \in Cond : Waiting(x)' \in {Waiting(x), Waiting(x) \ {p}}
    BY <1>7 DEF EndsSignal, EndsWait
  <2>2. HOwner' = HOwner
    BY <2>1, HoareOwner, HoareOwnerNext
  <2>3. HEntry' = HEntry /\ HUrgent' = HUrgent
    BY <2>1 DEF HEntry, HUrgent
  <2>4. HWaiting' = HWaiting
    BY <1>0, <2>1
  <2> QED BY <2>2, <2>3, <2>4
<1>8. Cond # {}
  BY CondAssumption
<1> QED BY <1>1, <1>2, <1>3, <1>4, <1>5, <1>6, <1>7, <1>8 DEF MonKind

(* monitor.c implements the monitor of HoareMonitor: a signalled thread    *)
(* goes on in the place of the signalling one, which comes back before any *)
(* thread at the door.                                                     *)
THEOREM MonitorIsHoare == MonSpec => IsHoareMonitor
<1>1. MonInit => Hoare!Init
  <2> SUFFICES ASSUME MonInit PROVE Hoare!Init
    OBVIOUS
  <2>1. at = [p \in Thread |-> "out"]
    BY DEF MonInit
  <2>2. Owners = {} /\ Inside = {} /\ Urgent = {} /\ \A c \in Cond : Waiting(c) = {}
    BY <2>1 DEF Owners, Inside, Urgent, Waiting
  <2>3. /\ HOwner = Nobody /\ HEntry = {} /\ HUrgent = {}
        /\ HWaiting = [c \in Cond |-> {}]
    BY <2>2 DEF HOwner, HEntry, HUrgent, HWaiting
  <2> QED BY <2>3 DEF Hoare!Init, HOwner, HEntry, HUrgent, HWaiting,
                      Inside, Urgent, Waiting
<1>2. MonInv /\ [MonNext]_monvars => [Hoare!Next]_(Hoare!vars)
  <2> SUFFICES ASSUME MonInv, [MonNext]_monvars
               PROVE  Hoare!Next \/ UNCHANGED Hoare!vars
    OBVIOUS
  <2>1. Hoare!Next \/ UNCHANGED <<HOwner, HEntry, HUrgent, HWaiting>>
    BY MonSound, HoareStep DEF Sound
  <2> QED BY <2>1 DEF Hoare!vars, HOwner, HEntry, HUrgent, HWaiting,
                      Inside, Urgent, Waiting
<1> QED BY <1>1, <1>2, MonInvHolds, PTL DEF MonSpec, IsHoareMonitor, Hoare!Spec

-----------------------------------------------------------------------------
(* The philosophers that use the monitor.                                  *)

(* What the code of philosopher i, the monitor's code, state_condvar[i]    *)
(* and who owns the monitor say of one another: l is its step, a its place *)
(* in the monitor, e its state, and o says that it owns the monitor.       *)
Sits(l, a, e, o) ==
  \/ l \in {"think", "take", "quit"} /\ a = "out" /\ e = "THINKING"
  \/ l = "hungry" /\ a = "in" /\ e = "THINKING"
  \/ l = "check" /\ a = "in" /\ o /\ e \in {"HUNGRY", "EATING"}
  \/ l = "leave" /\ a \in {"in", "wait2"} /\ o /\ e = "EATING"
  \/ l = "leave" /\ a \in {"wait1", "wait2"} /\ ~o /\ e = "HUNGRY"
  \/ l \in {"eat", "put"} /\ a = "out" /\ e = "EATING"
  \/ l = "left" /\ a = "in" /\ e = "EATING"
  \/ l \in {"right", "done"} /\ a = "in" /\ o /\ e = "THINKING"
  \/ l \in {"right", "done"} /\ a \in {"sig1", "sig2"} /\ e = "THINKING"

Seated(i) ==
  /\ Sits(step[i], at[i], state_condvar[i], i \in Owners)
  /\ at[i] \in {"wait1", "wait2"} => cv[i] = i

PhiTypes ==
  /\ state_condvar \in [Phil -> {"THINKING", "HUNGRY", "EATING"}]
  /\ step \in [Phil -> {"think", "take", "hungry", "check", "leave", "eat",
                        "put", "left", "right", "done", "quit"}]

(* The inductive invariant.                                                *)
PhiInv ==
  /\ MonInv /\ PhiTypes
  /\ \A i \in Phil : Seated(i)
  /\ NotBoth(state_condvar) /\ Served(state_condvar, step)
  /\ Urgent # {} => Owners # {}

-----------------------------------------------------------------------------

(* Nobody sits next to itself.                                             *)
LEMMA SeatsTwo == Seats => AtLeastTwo
  BY DEF Seats

(* What the steps need of the variables.                                   *)
LEMMA PhiFacts ==
  ASSUME Seats, PhiInv
  PROVE  /\ MonInv /\ PhiTypes /\ Thread = Phil /\ Cond = Phil
         /\ step \in [Phil -> {"think", "take", "hungry", "check", "leave", "eat",
                               "put", "left", "right", "done", "quit"}]
         /\ state_condvar \in [Phil -> {"THINKING", "HUNGRY", "EATING"}]
         /\ at \in [Phil -> {"out", "in", "sig1", "sig2", "wait1", "wait2"}]
         /\ cv \in [Phil -> Phil] /\ Owners \subseteq Phil
         /\ \A i \in Phil : Seated(i)
<1>1. MonInv /\ PhiTypes /\ Thread = Phil /\ Cond = Phil
  BY DEF PhiInv, Seats
<1>2. /\ at \in [Phil -> {"out", "in", "sig1", "sig2", "wait1", "wait2"}]
      /\ cv \in [Phil -> Phil]
  BY <1>1, MonFacts
<1>3. Owners \subseteq Phil
  BY <1>1 DEF Owners
<1> QED BY <1>1, <1>2, <1>3 DEF PhiInv, PhiTypes

(* Only philosopher i waits for condition variable i, if anybody does.     *)
LEMMA WaitingIs ==
  ASSUME Seats, PhiInv, NEW c \in Phil
  PROVE  /\ \A w \in Waiting(c) : w = c
         /\ at[c] \in {"wait1", "wait2"} => c \in Waiting(c) /\ count[c] > 0
         /\ at[c] \notin {"wait1", "wait2"} => count[c] = 0
<1>1. Thread = Phil /\ Cond = Phil /\ MonInv /\ \A i \in Phil : Seated(i)
  BY PhiFacts
<1>2. \A w \in Waiting(c) : w = c
  BY <1>1 DEF Waiting, Seated
<1>3. at[c] \in {"wait1", "wait2"} <=> c \in Waiting(c)
  BY <1>1 DEF Waiting, Seated
<1>4. count[c] = Cardinality(Waiting(c)) /\ Waiting(c) \subseteq Thread
  BY <1>1, MonFacts, Apart
<1>5. CASE c \in Waiting(c)
  <2>1. Waiting(c) = {c}
    BY <1>2, <1>5
  <2>2. count[c] = 1
    BY <1>4, <2>1, FS_Singleton
  <2> QED BY <1>2, <1>3, <1>5, <2>2
<1>6. CASE c \notin Waiting(c)
  <2>1. Waiting(c) = {}
    BY <1>2, <1>6
  <2>2. count[c] = 0
    BY <1>4, <2>1, FS_EmptySet
  <2> QED BY <1>2, <1>3, <1>6, <2>2
<1> QED BY <1>5, <1>6

(* Only philosophers in A move, and the monitor is taken from no other and *)
(* given to none that waits for a condition.                               *)
Only(A) ==
  \A q \in Phil \ A :
    /\ step'[q] = step[q] /\ at'[q] = at[q] /\ cv'[q] = cv[q]
    /\ state_condvar'[q] = state_condvar[q]
    /\ q \in Owners => q \in Owners'
    /\ q \in Owners' => q \in Owners \/ at[q] \notin {"wait1", "wait2"}

(* The others keep their seats.                                            *)
LEMMA OthersSit ==
  ASSUME Seats, PhiInv, NEW A, Only(A)
  PROVE  \A q \in Phil \ A : Seated(q)'
<1> SUFFICES ASSUME NEW q \in Phil \ A PROVE Seated(q)'
  OBVIOUS
<1>1. /\ Sits(step[q], at[q], state_condvar[q], q \in Owners)
      /\ at[q] \in {"wait1", "wait2"} => cv[q] = q
  BY PhiFacts DEF Seated
<1>2. /\ step'[q] = step[q] /\ at'[q] = at[q] /\ cv'[q] = cv[q]
      /\ state_condvar'[q] = state_condvar[q]
      /\ q \in Owners => q \in Owners'
      /\ q \in Owners' => q \in Owners \/ at[q] \notin {"wait1", "wait2"}
  BY DEF Only
<1>3. Sits(step[q], at[q], state_condvar[q], q \in Owners')
  BY <1>1, <1>2 DEF Sits
<1> QED BY <1>1, <1>2, <1>3 DEF Seated

(* When a thread that has signalled waits, somebody owns the monitor.      *)
LEMMA UrgentStep ==
  ASSUME PhiInv, MonKind
  PROVE  Urgent' # {} => Owners' # {}
  BY DEF PhiInv, MonKind, Quiet, Enters, Asks, Leaves, Passes, BeginsWait, Signals,
         EndsSignal, EndsWait

(* Philosophers only do what any thread that uses the monitor may do.      *)
LEMMA PhiUsesMonitor ==
  ASSUME Seats, [PhiNext]_phivars
  PROVE  [MonNext]_monvars
<1>1. Thread = Phil /\ Cond = Phil
  BY DEF Seats
<1>2. CASE UNCHANGED phivars
  BY <1>2 DEF phivars
<1>3. ASSUME NEW i \in Phil, NEW j \in Phil, NEW e, phi_test_condvar(i, j, e)
      PROVE  [MonNext]_monvars
  BY <1>1, <1>3 DEF phi_test_condvar, MonNext
<1>4. ASSUME NEW i \in Phil, Philosopher(i)
      PROVE  [MonNext]_monvars
  <2>1. CASE think(i) \/ eat(i) \/ quit(i)
    BY <1>1, <2>1 DEF think, eat, quit, MonNext
  <2>2. CASE TakeForks(i)
    <3>1. CASE Enter(i) \/ Leave(i)
      BY <1>1, <3>1 DEF MonNext
    <3>2. CASE WaitForForks(i)
      BY <1>1, <3>2 DEF WaitForForks, MonNext
    <3> QED BY <1>3, <2>2, <3>1, <3>2 DEF TakeForks
  <2>3. CASE PutForks(i)
    <3>0. LEFT(i) \in Phil /\ RIGHT(i) \in Phil
      BY Neighbours, SeatsTwo
    <3>1. CASE Enter(i) \/ Leave(i)
      BY <1>1, <3>1 DEF MonNext
    <3>2. CASE TestRight(i)
      BY <1>3, <3>0, <3>2 DEF TestRight
    <3> QED BY <1>3, <2>3, <3>0, <3>1, <3>2 DEF PutForks
  <2> QED BY <1>4, <2>1, <2>2, <2>3 DEF Philosopher
<1>5. CASE \E i \in Phil : MonitorStep(i) \/ MonAlarm(i)
  BY <1>1, <1>5 DEF MonNext
<1>6. CASE CpuInKernel \/ MonTick
  BY <1>6 DEF MonNext
<1> QED BY <1>2, <1>4, <1>5, <1>6 DEF PhiNext, Cpu

(* A step that moves philosophers in A only, and leaves them seated.       *)
LEMMA Assemble ==
  ASSUME Seats, PhiInv, [PhiNext]_phivars, NEW A, Only(A), \A i \in Phil \cap A : Seated(i)',
         PhiTypes', NotBoth(state_condvar'), Served(state_condvar', step')
  PROVE  PhiInv'
<1>1. MonInv
  BY PhiFacts
<1>2. [MonNext]_monvars
  BY PhiUsesMonitor
<1>3. MonInv' /\ MonKind
  BY <1>1, <1>2, MonInvStep, MonSound DEF Sound
<1>4. \A q \in Phil : Seated(q)'
  BY OthersSit
<1>5. Urgent' # {} => Owners' # {}
  BY <1>3, UrgentStep
<1> QED BY <1>3, <1>4, <1>5 DEF PhiInv

(* A step that changes no state and has no neighbour to look after.        *)
LEMMA SameStates ==
  ASSUME Seats, PhiInv, state_condvar' = state_condvar, NEW i \in Phil, step[i] # "right",
         NEW m \in {"think", "take", "hungry", "check", "leave", "eat",
                    "put", "left", "right", "done", "quit"},
         step' = [step EXCEPT ![i] = m]
  PROVE  PhiTypes' /\ NotBoth(state_condvar') /\ Served(state_condvar', step')
<1>1. PhiTypes'
  BY PhiFacts DEF PhiTypes
<1>2. \A q \in Phil : step[q] = "right" => step'[q] = "right"
  BY PhiFacts
<1>3. \A h \in Phil : LEFT(h) \in Phil
  BY Neighbours, SeatsTwo
<1> QED BY <1>1, <1>2, <1>3 DEF PhiInv, NotBoth, Served

(* The one who gives up the monitor gives it to nobody that waits for a    *)
(* condition.                                                              *)
LEMMA PassesOn ==
  ASSUME Seats, PhiInv, NEW i \in Phil, Passes(i)
  PROVE  /\ i \in Owners /\ i \notin Owners'
         /\ \A q \in Phil \ {i} :
              /\ q \in Owners => q \in Owners'
              /\ q \in Owners' => q \in Owners \/ at[q] \notin {"wait1", "wait2"}
<1>1. Owners = {i} /\ i \in Inside
  BY DEF Passes
<1>2. \A q \in Owners' : q \in Urgent \/ (q \in Inside /\ q # i)
  BY DEF Passes
<1>3. \A q \in Owners' : q # i /\ at[q] \notin {"wait1", "wait2"}
  BY <1>1, <1>2 DEF Inside, Urgent
<1> QED BY <1>1, <1>3

(* do_sleep, outside the monitor.                                          *)
LEMMA PhiSleeps ==
  ASSUME Seats, PhiInv, [PhiNext]_phivars, NEW i \in Phil, think(i) \/ eat(i)
  PROVE  PhiInv'
<1>1. PICK l, m : /\ <<l, m>> \in {<<"think", "take">>, <<"eat", "put">>}
                  /\ Step(i, l, m) /\ Sleeps(i) /\ state_condvar' = state_condvar
  BY DEF think, eat
<1>2. /\ MonInv /\ i \in Thread /\ \A q \in Phil : Seated(q)
      /\ step[i] = l /\ step' = [step EXCEPT ![i] = m]
      /\ \A q \in Phil : step'[q] = IF q = i THEN m ELSE step[q]
  BY <1>1, PhiFacts DEF Step
<1>3. UNCHANGED mvars /\ MonAt(i, "out") /\ Sleep(i)
  BY <1>1 DEF Sleeps
<1>4. Owners' = Owners /\ at' = at /\ cv' = cv
  BY <1>2, <1>3, OutsideStep DEF Quiet, mvars
<1>5. PhiTypes' /\ NotBoth(state_condvar') /\ Served(state_condvar', step')
  BY <1>1, <1>2, SameStates
<1>6. Only({i})
  BY <1>1, <1>2, <1>4 DEF Only
<1>7. Seated(i)'
  BY <1>1, <1>2, <1>4 DEF Seated, Sits
<1> QED BY <1>5, <1>6, <1>7, Assemble

(* The beginning of phi_take_forks_condvar and of phi_put_forks_condvar.   *)
LEMMA PhiEnters ==
  ASSUME Seats, PhiInv, [PhiNext]_phivars, NEW i \in Phil, Enter(i), NEW l, NEW m,
         <<l, m>> \in {<<"take", "hungry">>, <<"put", "left">>}, Step(i, l, m),
         state_condvar' = state_condvar
  PROVE  PhiInv'
<1>1. /\ MonInv /\ i \in Thread /\ \A q \in Phil : Seated(q)
      /\ step[i] = l /\ step' = [step EXCEPT ![i] = m]
      /\ \A q \in Phil : step'[q] = IF q = i THEN m ELSE step[q]
  BY PhiFacts DEF Step
<1>2. cv' = cv /\ \A q \in Phil : at'[q] = IF q = i THEN "in" ELSE at[q]
  BY PhiFacts DEF Enter, MonGoto
<1>3. (Owners = {} /\ Owners' = {i}) \/ Owners' = Owners
  BY <1>1, EnterStep DEF Enters, Asks
<1>4. PhiTypes' /\ NotBoth(state_condvar') /\ Served(state_condvar', step')
  BY <1>1, SameStates
<1>5. Only({i})
  BY <1>1, <1>2, <1>3 DEF Only
<1>6. Seated(i)'
  BY <1>1, <1>2 DEF Seated, Sits
<1> QED BY <1>4, <1>5, <1>6, Assemble

(* The end of phi_take_forks_condvar and of phi_put_forks_condvar.         *)
LEMMA PhiLeaves ==
  ASSUME Seats, PhiInv, [PhiNext]_phivars, NEW i \in Phil, Leave(i), NEW l, NEW m,
         <<l, m>> \in {<<"leave", "eat">>, <<"done", "think">>, <<"done", "quit">>},
         Step(i, l, m), state_condvar' = state_condvar
  PROVE  PhiInv'
<1>1. /\ MonInv /\ i \in Thread /\ \A q \in Phil : Seated(q)
      /\ step[i] = l /\ step' = [step EXCEPT ![i] = m]
      /\ \A q \in Phil : step'[q] = IF q = i THEN m ELSE step[q]
  BY PhiFacts DEF Step
<1>2. /\ cv' = cv /\ at[i] = "in"
      /\ \A q \in Phil : at'[q] = IF q = i THEN "out" ELSE at[q]
  BY PhiFacts DEF Leave, MonGoto, MonAt
<1>3. Passes(i)
  BY <1>1, LeaveStep DEF Leaves
<1>4. PhiTypes' /\ NotBoth(state_condvar') /\ Served(state_condvar', step')
  BY <1>1, SameStates
<1>5. Only({i})
  BY <1>1, <1>2, <1>3, PassesOn DEF Only
<1>6. Seated(i)'
  BY <1>1, <1>2 DEF Seated, Sits
<1> QED BY <1>4, <1>5, <1>6, Assemble

(* The middle of phi_take_forks_condvar: cond_wait, or the forks are had.  *)
LEMMA PhiWaits ==
  ASSUME Seats, PhiInv, [PhiNext]_phivars, NEW i \in Phil, WaitForForks(i)
  PROVE  PhiInv'
<1>1. /\ MonInv /\ i \in Thread /\ i \in Cond /\ \A q \in Phil : Seated(q)
      /\ step[i] = "check" /\ step' = [step EXCEPT ![i] = "leave"]
      /\ \A q \in Phil : step'[q] = IF q = i THEN "leave" ELSE step[q]
      /\ state_condvar' = state_condvar
  BY PhiFacts DEF WaitForForks, Step
<1>2. at[i] = "in" /\ i \in Owners /\ state_condvar[i] \in {"HUNGRY", "EATING"}
  BY <1>1 DEF Seated, Sits
<1>3. PhiTypes' /\ NotBoth(state_condvar') /\ Served(state_condvar', step')
  BY <1>1, SameStates
<1>4. CASE state_condvar[i] # "EATING" /\ Wait(i, i)
  <2>1. /\ \A q \in Phil : at'[q] = IF q = i THEN "wait1" ELSE at[q]
        /\ \A q \in Phil : cv'[q] = IF q = i THEN i ELSE cv[q]
    BY <1>4, PhiFacts DEF Wait, MonGoto
  <2>2. Passes(i)
    BY <1>1, <1>4, CondWaitStep DEF BeginsWait
  <2>3. Only({i}) /\ i \notin Owners'
    BY <1>1, <2>1, <2>2, PassesOn DEF Only
  <2>4. Seated(i)'
    BY <1>1, <1>2, <1>4, <2>1, <2>3 DEF Seated, Sits
  <2> QED BY <1>3, <2>3, <2>4, Assemble
<1>5. CASE state_condvar[i] = "EATING" /\ UNCHANGED monvars
  <2>1. at' = at /\ cv' = cv /\ Owners' = Owners
    BY <1>5 DEF monvars, mvars, vars, Owners, Awake, Granted
  <2>2. Only({i})
    BY <1>1, <2>1 DEF Only
  <2>3. Seated(i)'
    BY <1>1, <1>2, <1>5, <2>1 DEF Seated, Sits
  <2> QED BY <1>3, <2>2, <2>3, Assemble
<1> QED BY <1>4, <1>5 DEF WaitForForks

(* phi_test_condvar of a philosopher by itself, which signals nobody.      *)
LEMMA PhiHungry ==
  ASSUME Seats, PhiInv, [PhiNext]_phivars, NEW i \in Phil, Step(i, "hungry", "check"),
         phi_test_condvar(i, i, [state_condvar EXCEPT ![i] = "HUNGRY"])
  PROVE  PhiInv'
<1>1. PICK e : e = [state_condvar EXCEPT ![i] = "HUNGRY"]
  OBVIOUS
<1>2. /\ e \in [Phil -> {"THINKING", "HUNGRY", "EATING"}]
      /\ \A q \in Phil : e[q] = IF q = i THEN "HUNGRY" ELSE state_condvar[q]
  BY <1>1, PhiFacts
<1>3. /\ MonInv /\ i \in Thread /\ \A q \in Phil : Seated(q)
      /\ step[i] = "hungry" /\ step' = [step EXCEPT ![i] = "check"]
      /\ \A q \in Phil : step'[q] = IF q = i THEN "check" ELSE step[q]
      /\ step' \in [Phil -> {"think", "take", "hungry", "check", "leave", "eat",
                             "put", "left", "right", "done", "quit"}]
  BY PhiFacts DEF Step
<1>4. at[i] = "in" /\ state_condvar[i] = "THINKING"
  BY <1>3 DEF Seated, Sits
<1>5. phi_test_condvar(i, i, e)
  BY <1>1
<1>6. count[i] = 0
  BY <1>4, WaitingIs
<1>7. MonAt(i, "in") /\ UNCHANGED monvars
  BY <1>5, <1>6 DEF phi_test_condvar, Signal, SignalNobody
<1>8. at' = at /\ cv' = cv /\ Owners' = Owners
  BY <1>7 DEF monvars, mvars, vars, Owners, Awake, Granted
<1>9. i \in Owners
  BY <1>3, <1>7, OwnerRuns
<1>10. state_condvar' = Tested(e, i)
  BY <1>5 DEF phi_test_condvar, Tested
<1>11. NotBoth(e)
  <2>1. NotBoth(state_condvar)
    BY DEF PhiInv
  <2> QED BY <1>2, <2>1, Neighbours, SeatsTwo DEF NotBoth
<1>12. PhiTypes' /\ NotBoth(state_condvar')
  <2>1. CASE CanEat(e, i)
    BY <1>2, <1>3, <1>10, <1>11, <2>1, TestApart, SeatsTwo DEF Tested, PhiTypes
  <2>2. CASE ~CanEat(e, i)
    BY <1>2, <1>3, <1>10, <1>11, <2>2 DEF Tested, PhiTypes
  <2> QED BY <2>1, <2>2
<1>13. Served(state_condvar', step')
  <2>1. \A h \in Phil : LEFT(h) \in Phil /\ RIGHT(h) \in Phil
    BY Neighbours, SeatsTwo
  <2>2. \A q \in Phil : /\ state_condvar[q] = "EATING" => e[q] = "EATING"
                        /\ step[q] = "right" => step'[q] = "right"
    BY <1>2, <1>3, <1>4
  <2>3. \A h \in Phil \ {i} : e[h] = "HUNGRY" =>
          e[LEFT(h)] = "EATING" \/ e[RIGHT(h)] = "EATING" \/ step'[LEFT(h)] = "right"
    BY <1>2, <2>1, <2>2 DEF PhiInv, Served
  <2> QED BY <1>2, <1>10, <2>3, TestServes, SeatsTwo
<1>14. \A q \in Phil : /\ q # i => state_condvar'[q] = state_condvar[q]
                       /\ q = i => state_condvar'[q] \in {"HUNGRY", "EATING"}
  BY <1>2, <1>10 DEF Tested
<1>15. Only({i})
  BY <1>3, <1>8, <1>14 DEF Only
<1>16. Seated(i)'
  BY <1>3, <1>4, <1>8, <1>9, <1>14 DEF Seated, Sits
<1> QED BY <1>12, <1>13, <1>15, <1>16, Assemble

(* phi_test_condvar of a neighbour: when it can eat it does wait, and it   *)
(* gets the monitor.                                                       *)
LEMMA PhiServes ==
  ASSUME Seats, PhiInv, [PhiNext]_phivars, NEW i \in Phil, NEW j \in Phil, j # i,
         NEW m \in {"right", "done"}, NEW e, phi_test_condvar(i, j, e),
         step' = [step EXCEPT ![i] = m],
         e \in [Phil -> {"THINKING", "HUNGRY", "EATING"}], e[i] = "THINKING",
         \A q \in Phil \ {i} : e[q] = state_condvar[q],
         \A h \in Phil \ {j} : e[h] = "HUNGRY" =>
           e[LEFT(h)] = "EATING" \/ e[RIGHT(h)] = "EATING" \/ step'[LEFT(h)] = "right"
  PROVE  PhiInv'
<1>1. /\ MonInv /\ i \in Thread /\ j \in Thread /\ j \in Cond /\ \A q \in Phil : Seated(q)
      /\ \A q \in Phil : step'[q] = IF q = i THEN m ELSE step[q]
      /\ step' \in [Phil -> {"think", "take", "hungry", "check", "leave", "eat",
                             "put", "left", "right", "done", "quit"}]
  BY PhiFacts
<1>2. MonAt(i, "in")
  BY DEF phi_test_condvar, Signal, SignalNobody
<1>3. Owners = {i} /\ at[i] = "in" /\ at[j] \notin {"sig1", "wait1"}
  BY <1>1, <1>2, OwnerRuns, MonRuns
<1>4. state_condvar' = Tested(e, j)
  BY DEF phi_test_condvar, Tested
<1>5. NotBoth(e)
  <2>1. NotBoth(state_condvar)
    BY DEF PhiInv
  <2> QED BY <2>1, Neighbours, SeatsTwo DEF NotBoth
<1>6. PhiTypes' /\ NotBoth(state_condvar')
  <2>1. CASE CanEat(e, j)
    BY <1>1, <1>4, <1>5, <2>1, TestApart, SeatsTwo DEF Tested, PhiTypes
  <2>2. CASE ~CanEat(e, j)
    BY <1>1, <1>4, <1>5, <2>2 DEF Tested, PhiTypes
  <2> QED BY <2>1, <2>2
<1>7. Served(state_condvar', step')
  <2>1. PICK l : l = step'
    OBVIOUS
  <2>2. \A h \in Phil \ {j} : e[h] = "HUNGRY" =>
          e[LEFT(h)] = "EATING" \/ e[RIGHT(h)] = "EATING" \/ l[LEFT(h)] = "right"
    BY <2>1
  <2>3. Seats /\ e \in [Phil -> {"THINKING", "HUNGRY", "EATING"}] /\ j \in Phil
    OBVIOUS
  <2>4. Served(Tested(e, j), l)
    BY ONLY <2>2, <2>3, TestServes, SeatsTwo
  <2> QED BY <1>4, <2>1, <2>4
<1>8. CASE CanEat(e, j)
  <2>1. state_condvar[j] = "HUNGRY" /\ j \notin Owners
    BY <1>3, <1>8 DEF CanEat
  <2>2. step[j] = "leave" /\ at[j] = "wait2" /\ cv[j] = j
    BY <1>1, <1>3, <2>1 DEF Seated, Sits
  <2>3. count[j] > 0
    BY <2>2, WaitingIs
  <2>4. Signal(i, j)
    BY <1>8, <2>3 DEF phi_test_condvar, SignalNobody
  <2>5. cv' = cv /\ \A q \in Phil : at'[q] = IF q = i THEN "sig1" ELSE at[q]
    BY <2>4, PhiFacts DEF Signal, MonGoto
  <2>6. Owners' = {j}
    <3>1. PICK w \in Waiting(j) : Owners' = {w}
      BY <1>1, <2>4, SignalStep DEF Signals
    <3> QED BY <3>1, WaitingIs
  <2>7. \A q \in Phil : state_condvar'[q] = IF q = j THEN "EATING" ELSE e[q]
    BY <1>4, <1>8 DEF Tested
  <2>8. Only({i, j})
    BY <1>1, <1>3, <2>5, <2>6, <2>7 DEF Only
  <2>9. Seated(i)'
    BY <1>1, <2>5, <2>7 DEF Seated, Sits
  <2>10. Seated(j)'
    BY <1>1, <2>2, <2>5, <2>6, <2>7 DEF Seated, Sits
  <2> QED BY <1>6, <1>7, <2>8, <2>9, <2>10, Assemble
<1>9. CASE ~CanEat(e, j)
  <2>1. state_condvar' = e /\ UNCHANGED monvars
    BY <1>4, <1>9 DEF phi_test_condvar, Tested
  <2>2. at' = at /\ cv' = cv /\ Owners' = Owners
    BY <2>1 DEF monvars, mvars, vars, Owners, Awake, Granted
  <2>3. Only({i})
    BY <1>1, <2>1, <2>2 DEF Only
  <2>4. Seated(i)'
    BY <1>1, <1>3, <2>1, <2>2 DEF Seated, Sits
  <2> QED BY <1>6, <1>7, <2>3, <2>4, Assemble
<1> QED BY <1>8, <1>9

(* phi_put_forks_condvar looks after the neighbour on the left ...         *)
LEMMA PhiLeft ==
  ASSUME Seats, PhiInv, [PhiNext]_phivars, NEW i \in Phil, Step(i, "left", "right"),
         phi_test_condvar(i, LEFT(i), [state_condvar EXCEPT ![i] = "THINKING"])
  PROVE  PhiInv'
<1>1. PICK e, j : e = [state_condvar EXCEPT ![i] = "THINKING"] /\ j = LEFT(i)
  OBVIOUS
<1>2. /\ e \in [Phil -> {"THINKING", "HUNGRY", "EATING"}] /\ e[i] = "THINKING"
      /\ \A q \in Phil \ {i} : e[q] = state_condvar[q]
  BY <1>1, PhiFacts
<1>3. /\ step' = [step EXCEPT ![i] = "right"]
      /\ \A q \in Phil : step'[q] = IF q = i THEN "right" ELSE step[q]
  BY PhiFacts DEF Step
<1>4. phi_test_condvar(i, j, e) /\ j \in Phil /\ j # i
  BY <1>1, Neighbours, SeatsTwo
<1>5. \A h \in Phil \ {j} : e[h] = "HUNGRY" =>
        e[LEFT(h)] = "EATING" \/ e[RIGHT(h)] = "EATING" \/ step'[LEFT(h)] = "right"
  <2> SUFFICES ASSUME NEW h \in Phil \ {j}, e[h] = "HUNGRY"
               PROVE  e[LEFT(h)] = "EATING" \/ e[RIGHT(h)] = "EATING" \/ step'[LEFT(h)] = "right"
    OBVIOUS
  <2>1. h # i /\ state_condvar[h] = "HUNGRY"
    BY <1>2
  <2>2. LEFT(h) \in Phil /\ RIGHT(h) \in Phil /\ LEFT(RIGHT(h)) = h
    BY Neighbours, SeatsTwo
  <2>3. RIGHT(h) # i
    BY <1>1, <2>2
  <2>4. \/ state_condvar[LEFT(h)] = "EATING" \/ state_condvar[RIGHT(h)] = "EATING"
        \/ step[LEFT(h)] = "right"
    BY <2>1 DEF PhiInv, Served
  <2> QED BY <1>2, <1>3, <2>2, <2>3, <2>4
<1> QED BY <1>2, <1>3, <1>4, <1>5, PhiServes

(* ... and after the one on the right.                                     *)
LEMMA PhiRight ==
  ASSUME Seats, PhiInv, [PhiNext]_phivars, NEW i \in Phil, TestRight(i)
  PROVE  PhiInv'
<1>1. PICK e, j : e = state_condvar /\ j = RIGHT(i)
  OBVIOUS
<1>2. /\ step[i] = "right" /\ step' = [step EXCEPT ![i] = "done"]
      /\ \A q \in Phil : step'[q] = IF q = i THEN "done" ELSE step[q]
  BY PhiFacts DEF TestRight, Step
<1>3. /\ e \in [Phil -> {"THINKING", "HUNGRY", "EATING"}] /\ e[i] = "THINKING"
      /\ \A q \in Phil \ {i} : e[q] = state_condvar[q]
  BY <1>1, <1>2, PhiFacts DEF Seated, Sits
<1>4. phi_test_condvar(i, j, e) /\ j \in Phil /\ j # i
  BY <1>1, Neighbours, SeatsTwo DEF TestRight
<1>5. \A h \in Phil \ {j} : e[h] = "HUNGRY" =>
        e[LEFT(h)] = "EATING" \/ e[RIGHT(h)] = "EATING" \/ step'[LEFT(h)] = "right"
  <2> SUFFICES ASSUME NEW h \in Phil \ {j}, e[h] = "HUNGRY"
               PROVE  e[LEFT(h)] = "EATING" \/ e[RIGHT(h)] = "EATING" \/ step'[LEFT(h)] = "right"
    OBVIOUS
  <2>1. LEFT(h) \in Phil /\ RIGHT(LEFT(h)) = h
    BY Neighbours, SeatsTwo
  <2>2. LEFT(h) # i
    BY <1>1, <2>1
  <2>3. e[LEFT(h)] = "EATING" \/ e[RIGHT(h)] = "EATING" \/ step[LEFT(h)] = "right"
    BY <1>1 DEF PhiInv, Served
  <2> QED BY <1>2, <2>1, <2>2, <2>3
<1> QED BY <1>2, <1>3, <1>4, <1>5, PhiServes

(* cond_signal and cond_wait once called.                                  *)
LEMMA PhiInMonitor ==
  ASSUME Seats, PhiInv, [PhiNext]_phivars, NEW i \in Phil, MonitorStep(i),
         UNCHANGED <<state_condvar, step>>
  PROVE  PhiInv'
<1>1. /\ MonInv /\ i \in Thread /\ \A q \in Phil : Seated(q)
      /\ PhiTypes /\ NotBoth(state_condvar) /\ Served(state_condvar, step)
  BY PhiFacts DEF PhiInv
<1>2. PhiTypes' /\ NotBoth(state_condvar') /\ Served(state_condvar', step')
  BY <1>1 DEF PhiTypes
<1>3. PICK a, b : /\ <<a, b>> \in {<<"sig1", "sig2">>, <<"wait1", "wait2">>,
                                   <<"sig2", "in">>, <<"wait2", "in">>}
                  /\ at[i] = a /\ cv' = cv
                  /\ \A q \in Phil : at'[q] = IF q = i THEN b ELSE at[q]
                  /\ b = "in" => Owners = {i} /\ Owners' = {i}
                  /\ b # "in" => Owners' = Owners
  <2>1. CASE SignalWaits(i)
    <3>1. Owners' = Owners
      BY <1>1, <2>1, SleepInsideStep DEF Quiet
    <3> QED BY <2>1, <3>1, PhiFacts DEF SignalWaits, MonAt, MonGoto
  <2>2. CASE WaitSleeps(i)
    <3>1. Owners' = Owners
      BY <1>1, <2>2, SleepInsideStep DEF Quiet
    <3> QED BY <2>2, <3>1, PhiFacts DEF WaitSleeps, MonAt, MonGoto
  <2>3. CASE SignalReturns(i)
    <3>1. Owners = {i} /\ Owners' = {i}
      BY <1>1, <2>3, BackInsideStep DEF EndsSignal
    <3> QED BY <2>3, <3>1, PhiFacts DEF SignalReturns, MonAt, MonGoto
  <2>4. CASE WaitReturns(i)
    <3>1. Owners = {i} /\ Owners' = {i}
      BY <1>1, <2>4, BackInsideStep DEF EndsWait
    <3> QED BY <2>4, <3>1, PhiFacts DEF WaitReturns, MonAt, MonGoto
  <2> QED BY <2>1, <2>2, <2>3, <2>4 DEF MonitorStep
<1>4. Only({i})
  BY <1>1, <1>3 DEF Only
<1>5. Seated(i)'
  BY <1>1, <1>3 DEF Seated, Sits
<1> QED BY <1>2, <1>4, <1>5, Assemble

(* The kernel once called, idleproc, interrupts and do_exit.               *)
LEMMA PhiKernel ==
  ASSUME Seats, PhiInv, [PhiNext]_phivars, UNCHANGED <<state_condvar, step>>,
         \/ CpuInKernel \/ MonTick \/ UNCHANGED monvars
         \/ \E i \in Phil : MonAlarm(i) \/ Exits(i)
  PROVE  PhiInv'
<1>1. /\ MonInv /\ Thread = Phil /\ \A q \in Phil : Seated(q)
      /\ PhiTypes /\ NotBoth(state_condvar) /\ Served(state_condvar, step)
  BY PhiFacts DEF PhiInv
<1>2. UNCHANGED mvars
  BY DEF CpuInKernel, MonTick, MonAlarm, Exits, monvars
<1>3. Quiet
  BY <1>1, <1>2, OutsideStep, KernelMon DEF CpuInKernel, MonTick, MonAlarm, Exits, monvars
<1>4. PhiTypes' /\ NotBoth(state_condvar') /\ Served(state_condvar', step')
  BY <1>1 DEF PhiTypes
<1>5. Only({})
  BY <1>2, <1>3 DEF Only, Quiet, mvars
<1> QED BY <1>4, <1>5, Assemble

(* Every step keeps the invariant.                                         *)
LEMMA PhiStep == Seats /\ PhiInv /\ [PhiNext]_phivars => PhiInv'
<1> SUFFICES ASSUME Seats, PhiInv, [PhiNext]_phivars PROVE PhiInv'
  OBVIOUS
<1>1. CASE UNCHANGED phivars
  BY <1>1, PhiKernel DEF phivars
<1>2. ASSUME NEW i \in Phil, Philosopher(i) PROVE PhiInv'
  <2>1. CASE think(i) \/ eat(i)
    BY <2>1, PhiSleeps
  <2>2. CASE quit(i)
    BY <2>2, PhiKernel DEF quit
  <2>3. CASE TakeForks(i)
    BY <2>3, PhiEnters, PhiHungry, PhiWaits, PhiLeaves DEF TakeForks
  <2>4. CASE PutForks(i)
    <3>1. NextRound(i) => Step(i, "done", "think") \/ Step(i, "done", "quit")
      BY DEF NextRound
    <3> QED BY <2>4, <3>1, PhiEnters, PhiLeft, PhiRight, PhiLeaves DEF PutForks
  <2> QED BY <1>2, <2>1, <2>2, <2>3, <2>4 DEF Philosopher
<1>3. ASSUME NEW i \in Phil, MonitorStep(i), UNCHANGED <<state_condvar, iter, step>>
      PROVE  PhiInv'
  BY <1>3, PhiInMonitor
<1>4. ASSUME CpuInKernel \/ MonTick \/ \E i \in Phil : MonAlarm(i),
             UNCHANGED <<state_condvar, iter, step>>
      PROVE  PhiInv'
  BY <1>4, PhiKernel
<1> QED BY <1>1, <1>2, <1>3, <1>4 DEF PhiNext, Cpu

(* Before any philosopher runs.                                            *)
LEMMA PhiStart == Seats /\ PhiInit => PhiInv
<1> SUFFICES ASSUME Seats, PhiInit PROVE PhiInv
  OBVIOUS
<1>1. MonInv /\ Thread = Phil
  BY InitMon DEF PhiInit, Seats
<1>2. /\ state_condvar = [i \in Phil |-> "THINKING"] /\ step = [i \in Phil |-> "think"]
      /\ at = [p \in Thread |-> "out"]
  BY DEF PhiInit, MonInit
<1>3. PhiTypes /\ Urgent = {} /\ \A i \in Phil : Seated(i)
  BY <1>1, <1>2 DEF PhiTypes, Urgent, Seated, Sits
<1>4. NotBoth(state_condvar) /\ Served(state_condvar, step)
  BY <1>2 DEF NotBoth, Served
<1> QED BY <1>1, <1>3, <1>4 DEF PhiInv

(* Nobody changes seats.                                                   *)
LEMMA SeatsKept == Seats => []Seats
  BY DEF Seats

(* The invariant of the philosophers that use the monitor, for any number  *)
(* of them.                                                                *)
THEOREM PhiInvHolds == Seats /\ PhiSpec => []PhiInv
<1>1. Seats /\ PhiInv /\ [PhiNext]_phivars => PhiInv'
  BY PhiStep
<1> QED BY <1>1, SeatsKept, PhiStart, PTL DEF PhiSpec

(* For any number of philosophers, neighbours never eat at the same time,  *)
(* although phi_take_forks_condvar calls cond_wait under an if.            *)
THEOREM PhiApart == Seats /\ PhiSpec => []NeighboursApart
<1>1. ASSUME Seats, PhiInv PROVE NeighboursApart
  <2>1. \A i \in Phil : Eats(i) => state_condvar[i] = "EATING"
    BY <1>1, PhiFacts DEF Eats, Seated, Sits
  <2>2. \A i \in Phil : LEFT(i) \in Phil /\ RIGHT(i) \in Phil
    BY <1>1, Neighbours, SeatsTwo
  <2>3. NotBoth(state_condvar)
    BY <1>1 DEF PhiInv
  <2> QED BY <2>1, <2>2, <2>3 DEF NeighboursApart, NotBoth
<1>2. Seats /\ PhiInv => NeighboursApart
  BY <1>1
<1> QED BY <1>2, SeatsKept, PhiInvHolds, PTL

(* No fork is forgotten in a state of the invariant.                       *)
LEMMA FreeServed ==
  ASSUME Seats, PhiInv PROVE ForksServed
<1> SUFFICES ASSUME value[Mutex] = 1, NEW h \in Phil, state_condvar[h] = "HUNGRY"
             PROVE  \E j \in {LEFT(h), RIGHT(h)} : state_condvar[j] = "EATING"
  BY DEF ForksServed
<1>1. Owners = {} /\ Urgent = {}
  BY DEF PhiInv, MonInv, Owned
<1>2. LEFT(h) \in Phil /\ Seated(LEFT(h)) /\ Thread = Phil
  BY PhiFacts, Neighbours, SeatsTwo
<1>3. step[LEFT(h)] # "right"
  BY <1>1, <1>2 DEF Seated, Sits, Urgent
<1> QED BY <1>3 DEF PhiInv, Served

(* For any number of philosophers, no fork is forgotten: when the monitor  *)
(* is free, a hungry philosopher has a neighbour that eats.                *)
THEOREM PhiServed == Seats /\ PhiSpec => []ForksServed
<1>1. Seats /\ PhiInv => ForksServed
  BY FreeServed
<1> QED BY <1>1, SeatsKept, PhiInvHolds, PTL

-----------------------------------------------------------------------------
(* Somebody can always go on.                                              *)

(* What a step of the philosophers is to the kernel.                       *)
LEMMA PhiIs ==
  ASSUME Seats, PhiInv, [PhiNext]_phivars
  PROVE  /\ \/ \E i \in Phil : quit(i)
            \/ Kernels \/ \E i \in Phil : Calls(i)
         /\ \A q \in Phil : step'[q] # step[q] => pc[q] = "run"
<1>1. /\ MonInv /\ Thread = Phil /\ Cond = Phil /\ Cond \subseteq Sem
      /\ Mutex \in Sem /\ NextSem \in Sem /\ cv \in [Phil -> Phil]
      /\ step \in [Phil -> {"think", "take", "hungry", "check", "leave", "eat",
                            "put", "left", "right", "done", "quit"}]
  BY PhiFacts, MonSems
<1> DEFINE Goes(i) == (Kernels \/ Calls(i)) /\ pc[i] = "run"
<1>2. ASSUME NEW i \in Phil, Enter(i) \/ Leave(i) \/ Sleeps(i) \/ Wait(i, i)
      PROVE  Goes(i)
  <2>1. pc[i] = "run"
    BY <1>2 DEF Enter, Leave, Sleeps, Wait, MonAt, At
  <2>2. Calls(i)
    BY <1>1, <1>2 DEF Enter, Leave, Sleeps, Wait, Release, Calls
  <2> QED BY <2>1, <2>2
<1>3. ASSUME NEW i \in Phil, NEW j \in Phil, NEW e, phi_test_condvar(i, j, e)
      PROVE  Goes(i)
  <2>1. pc[i] = "run"
    BY <1>3 DEF phi_test_condvar, Signal, SignalNobody, MonAt, At
  <2>2. Calls(i) \/ UNCHANGED vars
    BY <1>1, <1>3 DEF phi_test_condvar, Signal, SignalNobody, Calls, monvars
  <2> QED BY <2>1, <2>2 DEF Kernels
<1>4. ASSUME NEW i \in Phil, Philosopher(i)
      PROVE  \/ quit(i)
             \/ Goes(i) /\ \A q \in Phil \ {i} : step'[q] = step[q]
  <2>1. CASE think(i) \/ eat(i)
    <3>1. \A q \in Phil \ {i} : step'[q] = step[q]
      BY <1>1, <2>1 DEF think, eat, Step
    <3> QED BY <1>2, <2>1, <3>1 DEF think, eat
  <2>2. CASE TakeForks(i)
    <3>1. \A q \in Phil \ {i} : step'[q] = step[q]
      BY <1>1, <2>2 DEF TakeForks, WaitForForks, Step
    <3>2. CASE WaitForForks(i)
      <4>1. CASE Wait(i, i)
        BY <1>2, <3>1, <4>1
      <4>2. CASE MonAt(i, "in") /\ UNCHANGED monvars
        BY <3>1, <4>2 DEF MonAt, At, monvars, Kernels
      <4> QED BY <3>2, <4>1, <4>2 DEF WaitForForks
    <3> QED BY <1>2, <1>3, <2>2, <3>1, <3>2 DEF TakeForks
  <2>3. CASE PutForks(i)
    <3>0. LEFT(i) \in Phil /\ RIGHT(i) \in Phil
      BY Neighbours, SeatsTwo
    <3>1. \A q \in Phil \ {i} : step'[q] = step[q]
      BY <1>1, <2>3 DEF PutForks, TestRight, NextRound, Step
    <3> QED BY <1>2, <1>3, <2>3, <3>0, <3>1 DEF PutForks, TestRight
  <2> QED BY <1>4, <2>1, <2>2, <2>3 DEF Philosopher
<1>5. ASSUME NEW i \in Phil, MonitorStep(i)
      PROVE  Kernels \/ Calls(i)
  <2>1. cv[i] \in Sem
    BY <1>1
  <2>2. CASE SignalWaits(i) \/ WaitSleeps(i)
    BY <1>1, <2>1, <2>2 DEF SignalWaits, WaitSleeps, Calls
  <2>3. CASE SignalReturns(i) \/ WaitReturns(i)
    BY <2>3 DEF SignalReturns, WaitReturns, Kernels
  <2> QED BY <1>5, <2>2, <2>3 DEF MonitorStep
<1>6. ASSUME CpuInKernel \/ MonTick \/ \E i \in Phil : MonAlarm(i)
      PROVE  Kernels
  BY <1>1, <1>6 DEF CpuInKernel, MonTick, MonAlarm, Kernels
<1>7. ASSUME UNCHANGED phivars PROVE Kernels /\ step' = step
  BY <1>7 DEF phivars, monvars, Kernels
<1>8. ASSUME NEW i \in Phil, quit(i) PROVE step' = step
  BY <1>8 DEF quit
<1>9. CASE \E i \in Phil : Philosopher(i)
  BY <1>4, <1>8, <1>9
<1>10. CASE ~\E i \in Phil : Philosopher(i)
  <2>1. step' = step
    BY <1>7, <1>10 DEF PhiNext, Cpu, phivars
  <2>2. Kernels \/ \E i \in Phil : Calls(i)
    BY <1>5, <1>6, <1>7, <1>10 DEF PhiNext, Cpu
  <2> QED BY <2>1, <2>2
<1> QED BY <1>9, <1>10

(* Every step keeps Alive and Over.                                        *)
LEMMA AliveStep ==
  ASSUME Seats, PhiInv, [PhiNext]_phivars, Alive, Over
  PROVE  Alive' /\ Over'
<1>1. SemInv /\ Thread = Phil
  BY PhiFacts, MonFacts
<1>2. \A i \in Phil : quit(i) => Exit(i) /\ step'[i] = "quit"
  BY DEF quit, Exits
<1> QED BY <1>1, <1>2, PhiIs, AliveKept

(* An owner of the monitor has not ended and does not wait.                *)
LEMMA OwnerGoesOn ==
  ASSUME Seats, PhiInv, Alive, NEW p \in Owners
  PROVE  p \in Phil /\ S.state[p] # "ZOMBIE" /\ ~Waits(p)
<1>1. MonInv /\ Thread = Phil /\ SemInv /\ Place
  BY PhiFacts, MonFacts DEF MonInv
<1>2. p \in Thread /\ at[p] \in {"in", "sig2", "wait2"} /\ ~Waits(p)
  BY <1>1, OwnersAre
<1>3. pc[p] \notin {"exit1", "dead"}
  BY <1>1, <1>2 DEF Place, InDown
<1> QED BY <1>1, <1>2, <1>3 DEF Alive

(* Whoever waits while nobody owns the monitor is hungry.                  *)
LEMMA WaiterHungry ==
  ASSUME Seats, PhiInv, Owners = {}, NEW i \in Phil, Waits(i)
  PROVE  state_condvar[i] = "HUNGRY"
<1>1. MonInv /\ Thread = Phil /\ SemInv /\ Cond = Phil /\ Seated(i)
  BY PhiFacts, MonFacts
<1>2. value[Mutex] = 1 /\ Urgent = {}
  BY DEF PhiInv, MonInv, Owned
<1>3. queue[Mutex] = <<>>
  BY <1>1, <1>2, MonSems DEF SemInv, NoneWaits
<1>4. on[i] # Mutex
  BY <1>1, <1>3, QueueNotEmpty
<1>5. on[i] # NextSem
  BY <1>1, <1>2, WaitsWhere DEF Urgent
<1>6. on[i] \in Cond
  BY <1>1, <1>4, <1>5, MonFacts, CondAssumption
<1>7. at[i] = "wait2"
  BY <1>1, <1>6, WaitsWhere
<1> QED BY <1>1, <1>7 DEF Seated, Sits

(* For any number of philosophers and of rounds there is no deadlock:      *)
(* until all have quit, one of them can run or will be woken by its timer. *)
THEOREM PhiNotStuck == Seats /\ PhiSpec => []NobodyStuck
<1> DEFINE Inv == PhiInv /\ Alive /\ Over
<1>1. ASSUME Seats, Inv PROVE NobodyStuck
  <2> SUFFICES ASSUME NEW i \in Phil, S.state[i] # "ZOMBIE",
                      \A j \in Phil : S.state[j] # "RUNNABLE" /\ S.wait[j] # "TIMER"
               PROVE  FALSE
    BY DEF NobodyStuck
  <2>1. \A j \in Phil : S.state[j] # "ZOMBIE" => Waits(j)
    BY <1>1, PhiFacts, MonFacts, AllWait
  <2>2. Owners = {}
    BY <1>1, <2>1, OwnerGoesOn
  <2>3. \A j \in Phil : Waits(j) => state_condvar[j] = "HUNGRY"
    BY <1>1, <2>2, WaiterHungry
  <2>4. value[Mutex] = 1
    BY <1>1, <2>2 DEF PhiInv, MonInv, Owned
  <2>5. PICK j \in {LEFT(i), RIGHT(i)} : state_condvar[j] = "EATING"
    BY <1>1, <2>1, <2>3, <2>4, FreeServed DEF ForksServed
  <2>6. j \in Phil /\ Seated(j)
    BY <1>1, Neighbours, SeatsTwo, PhiFacts
  <2>7. S.state[j] # "ZOMBIE"
    BY <1>1, <2>5, <2>6 DEF Over, Seated, Sits
  <2> QED BY <2>1, <2>3, <2>5, <2>6, <2>7
<1>2. Seats /\ Inv => NobodyStuck
  BY <1>1
<1>3. Seats /\ Inv /\ [PhiNext]_phivars => Inv'
  BY PhiStep, AliveStep
<1>4. Seats /\ PhiInit => Inv
  BY PhiStart, AliveStart DEF Seats, PhiInit, MonInit
<1> QED BY <1>2, <1>3, <1>4, SeatsKept, PTL DEF PhiSpec

=============================================================================
