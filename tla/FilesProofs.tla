---------------------------- MODULE FilesProofs ----------------------------
(***************************************************************************)
(* Proofs about Files, for any number of processes, descriptors, files and *)
(* directories and any size of the ring buffer.                            *)
(*                                                                         *)
(* The console: no reader of stdin misses a wake-up, and no character is   *)
(* delivered twice or out of order.                                        *)
(*                                                                         *)
(* The inodes and the fd_arrays: every inode is counted exactly, when      *)
(* programs ask of an object only what it can do.  A call computes on a    *)
(* record of the inodes, the fd_array and oops.  The lemmas named ...K say *)
(* what the functions of inode.c, vfslookup.c and file.c make of such a    *)
(* record, in terms of two functions only: R, the references of every      *)
(* inode, and O, its openings.  The lemmas on Ent and Home count the       *)
(* entries and working directories that point to an inode.  The lemmas     *)
(* named ...Refs put both together for each system call.                   *)
(***************************************************************************)
EXTENDS Files, ListProofs, FiniteSetTheorems

(* What the console needs to know of the types.                            *)
StdinType ==
  /\ pc \in [Proc -> {"free", "thread", "panic", "user", "kbd", "dying"}]
  /\ call \in [Proc -> [d : Fd, left : 0..MaxLen, flags : {"INT", "KBD"},
                        awake : BOOLEAN]]
  /\ ring \in [buf : [0..(BufSize - 1) -> Nat], rpos : Nat, wpos : Nat]
  /\ queue \in Seq(Proc)
  /\ input \in [typed : Nat, got : Seq(Nat), full : BOOLEAN]

(* The positions in the ring of the characters that wait, and character i. *)
Live    == ring.rpos..(ring.wpos - 1)
Char(i) == ring.buf[i % BufSize]

(* The ring holds characters that were typed, each once, none of them      *)
(* delivered ...                                                           *)
RingExact ==
  /\ ring.rpos <= ring.wpos /\ ring.wpos <= ring.rpos + BufSize
  /\ ToSet(input.got) \subseteq 1..input.typed
  /\ \A i, j \in DOMAIN input.got : input.got[i] = input.got[j] => i = j
  /\ \A i \in Live : Char(i) \in 1..input.typed /\ Char(i) \notin ToSet(input.got)
  /\ \A i, j \in Live : Char(i) = Char(j) => i = j

(* ... and, as long as it never was full, the next ones in order.          *)
Sequenced ==
  ~input.full => /\ ring.wpos = input.typed
                 /\ input.got = [i \in 1..ring.rpos |-> i]
                 /\ \A i \in Live : Char(i) = i + 1

(* The inductive invariant.                                                *)
StdinInv == StdinType /\ ReadersWoken /\ RingExact /\ Sequenced

-----------------------------------------------------------------------------
(* Positions of a ring.                                                    *)

(* Division with a remainder.                                              *)
LEMMA DivMod ==
  ASSUME NEW b \in Nat \ {0}, NEW x \in Nat
  PROVE  /\ x = b * (x \div b) + (x % b)
         /\ x % b \in 0..(b - 1) /\ x \div b \in Nat
  OBVIOUS

(* A multiple of b that is less than b is not positive.                    *)
LEMMA LessThanOne ==
  ASSUME NEW b \in Nat \ {0}, NEW k \in Int, b * k < b
  PROVE  k <= 0
  OBVIOUS

(* Positions less than the size of the ring apart have different slots.    *)
LEMMA SlotsDiffer ==
  ASSUME NEW b \in Nat \ {0}, NEW x \in Nat, NEW y \in Nat, x < y, y - x < b
  PROVE  x % b # y % b
<1> SUFFICES ASSUME x % b = y % b PROVE FALSE
  OBVIOUS
<1> DEFINE i == x \div b
           j == y \div b
<1>1. /\ x = b * i + (x % b) /\ y = b * j + (y % b)
      /\ i \in Nat /\ j \in Nat /\ x % b \in 0..(b - 1)
  BY DivMod
<1> HIDE DEF i, j
<1>2. b * j - b * i = y - x
  BY <1>1
<1>3. b * j - b * i = b * (j - i)
  BY <1>1
<1>4. j - i <= 0
  BY <1>1, <1>2, <1>3, LessThanOne
<1>5. b * (j - i) <= 0
  BY <1>1, <1>4
<1> QED BY <1>2, <1>3, <1>5

-----------------------------------------------------------------------------

(* What the invariant says of the ring and the readers, part by part.      *)
LEMMA StdinFacts ==
  ASSUME StdinInv
  PROVE  /\ pc \in [Proc -> {"free", "thread", "panic", "user", "kbd", "dying"}]
         /\ call \in [Proc -> [d : Fd, left : 0..MaxLen, flags : {"INT", "KBD"},
                               awake : BOOLEAN]]
         /\ ring = [buf |-> ring.buf, rpos |-> ring.rpos, wpos |-> ring.wpos]
         /\ ring.buf \in [0..(BufSize - 1) -> Nat]
         /\ ring.rpos \in Nat /\ ring.wpos \in Nat
         /\ ring.rpos <= ring.wpos /\ ring.wpos <= ring.rpos + BufSize
         /\ queue \in Seq(Proc)
         /\ input = [typed |-> input.typed, got |-> input.got, full |-> input.full]
         /\ input.typed \in Nat /\ input.got \in Seq(Nat) /\ input.full \in BOOLEAN
         /\ BufSize \in Nat \ {0} /\ MaxLen \in Nat
<1>1. /\ pc \in [Proc -> {"free", "thread", "panic", "user", "kbd", "dying"}]
      /\ call \in [Proc -> [d : Fd, left : 0..MaxLen, flags : {"INT", "KBD"},
                            awake : BOOLEAN]]
      /\ ring \in [buf : [0..(BufSize - 1) -> Nat], rpos : Nat, wpos : Nat]
      /\ queue \in Seq(Proc)
      /\ input \in [typed : Nat, got : Seq(Nat), full : BOOLEAN]
  BY DEF StdinInv, StdinType
<1>2. ring.rpos <= ring.wpos /\ ring.wpos <= ring.rpos + BufSize
  BY DEF StdinInv, RingExact
<1>3. /\ ring = [buf |-> ring.buf, rpos |-> ring.rpos, wpos |-> ring.wpos]
      /\ ring.buf \in [0..(BufSize - 1) -> Nat]
      /\ ring.rpos \in Nat /\ ring.wpos \in Nat
  BY <1>1
<1>4. /\ input = [typed |-> input.typed, got |-> input.got, full |-> input.full]
      /\ input.typed \in Nat /\ input.got \in Seq(Nat) /\ input.full \in BOOLEAN
  BY <1>1
<1>5. BufSize \in Nat \ {0} /\ MaxLen \in Nat
  BY FilesAssumption
<1> QED BY <1>1, <1>2, <1>3, <1>4, <1>5

(* Before any process reads.                                               *)
LEMMA InitStdin == Init => StdinInv
<1> SUFFICES ASSUME Init PROVE StdinInv
  OBVIOUS
<1>1. /\ call = [p \in Proc |-> NoCall]
      /\ ring = [buf |-> [i \in 0..(BufSize - 1) |-> 0], rpos |-> 0, wpos |-> 0]
      /\ queue = <<>>
      /\ input = [typed |-> 0, got |-> <<>>, full |-> FALSE]
  BY DEF Init
<1>2. PICK u \in Proc : pc = [p \in Proc |-> IF p = u THEN "thread" ELSE "free"]
  BY DEF Init
<1>3. NoCall \in [d : Fd, left : 0..MaxLen, flags : {"INT", "KBD"}, awake : BOOLEAN]
  BY FilesAssumption DEF NoCall, Fd
<1>4. StdinType
  BY <1>1, <1>2, <1>3, FilesAssumption DEF StdinType
<1>5. ToSet(queue) = {} /\ DOMAIN queue = {} /\ ToSet(input.got) = {}
      /\ DOMAIN input.got = {} /\ Live = {}
  BY <1>1 DEF ToSet, Live
<1>6. ReadersWoken
  BY <1>1, <1>2, <1>5 DEF ReadersWoken
<1>7. RingExact
  BY <1>1, <1>5, FilesAssumption DEF RingExact
<1>8. Sequenced
  <2>1. <<>> = [i \in 1..0 |-> i]
    OBVIOUS
  <2> QED BY <1>1, <1>5, <2>1 DEF Sequenced
<1> QED BY <1>4, <1>6, <1>7, <1>8 DEF StdinInv

-----------------------------------------------------------------------------

(* A call that does not read stdin: nobody enters or leaves                *)
(* dev_stdin_read.                                                         *)
LEMMA OtherCall ==
  ASSUME StdinInv, UNCHANGED stdin,
         pc' \in [Proc -> {"free", "thread", "panic", "user", "kbd", "dying"}],
         \A p \in Proc : pc'[p] = "kbd" <=> pc[p] = "kbd"
  PROVE  StdinInv'
<1>1. UNCHANGED <<call, ring, queue, input>>
  BY DEF stdin
<1>2. StdinType'
  BY <1>1 DEF StdinInv, StdinType
<1>3. ReadersWoken'
  <2>1. queue \in Seq(Proc)
    BY StdinFacts
  <2>2. ToSet(queue) \subseteq Proc
    BY <2>1, MembersIn
  <2> QED BY <1>1, <2>2 DEF StdinInv, ReadersWoken
<1>4. RingExact' /\ Sequenced'
  BY <1>1 DEF StdinInv, RingExact, Sequenced, Live, Char
<1> QED BY <1>2, <1>3, <1>4 DEF StdinInv

(* do_kill wakes a reader and leaves it in the wait queue.                 *)
LEMMA KillStep ==
  ASSUME StdinInv, NEW p \in Proc, Kill(p)
  PROVE  StdinInv'
<1>1. /\ call' = [call EXCEPT ![p].awake = TRUE]
      /\ UNCHANGED <<pc, ring, queue, input>>
  BY DEF Kill
<1>2. \A q \in Proc : /\ call'[q].flags = call[q].flags
                      /\ call'[q].awake = FALSE => call[q].awake = FALSE
                      /\ q # p => call'[q] = call[q]
  BY <1>1, StdinFacts
<1>3. call' \in [Proc -> [d : Fd, left : 0..MaxLen, flags : {"INT", "KBD"},
                          awake : BOOLEAN]]
  BY <1>1, StdinFacts
<1>4. StdinType'
  BY <1>1, <1>3 DEF StdinInv, StdinType
<1>5. ReadersWoken'
  <2>1. queue \in Seq(Proc)
    BY StdinFacts
  <2>2. ToSet(queue) \subseteq Proc
    BY <2>1, MembersIn
  <2>3. \A q \in Proc : ~call'[q].awake => ~call[q].awake
    BY <1>1, StdinFacts
  <2> QED BY <1>1, <1>2, <2>2, <2>3 DEF StdinInv, ReadersWoken
<1>6. RingExact' /\ Sequenced'
  BY <1>1 DEF StdinInv, RingExact, Sequenced, Live, Char
<1> QED BY <1>4, <1>5, <1>6 DEF StdinInv

(* wait_current_del takes the process out of the queue and nobody else.    *)
LEMMA DelFacts ==
  ASSUME StdinInv, NEW p \in Proc
  PROVE  /\ wait_current_del(queue, p) \in Seq(Proc)
         /\ ToSet(wait_current_del(queue, p)) = ToSet(queue) \ {p}
         /\ \A i, j \in DOMAIN wait_current_del(queue, p) :
              wait_current_del(queue, p)[i] = wait_current_del(queue, p)[j] => i = j
<1>0. queue \in Seq(Proc)
  BY StdinFacts
<1>1. \A i, j \in DOMAIN queue : queue[i] = queue[j] => i = j
  BY DEF StdinInv, ReadersWoken
<1>2. CASE p \in ToSet(queue)
  <2> DEFINE k == CHOOSE i \in DOMAIN queue : queue[i] = p
  <2>1. k \in DOMAIN queue /\ queue[k] = p
    BY <1>2 DEF ToSet
  <2>2. wait_current_del(queue, p) = RemoveAt(queue, k)
    BY <1>2 DEF wait_current_del
  <2> HIDE DEF k
  <2> QED BY <1>0, <1>1, <2>1, <2>2, RemoveAtFacts
<1>3. CASE p \notin ToSet(queue)
  BY <1>0, <1>1, <1>3 DEF wait_current_del
<1> QED BY <1>2, <1>3

(* A woken reader that has been killed leaves the queue.                   *)
LEMMA InterruptedStep ==
  ASSUME StdinInv, NEW p \in Proc, Interrupted(p)
  PROVE  StdinInv'
<1>1. /\ queue' = wait_current_del(queue, p)
      /\ call' = [call EXCEPT ![p] = NoCall]
      /\ pc' = [pc EXCEPT ![p] = IF killed[p] THEN "dying" ELSE "user"]
      /\ UNCHANGED <<ring, input>>
  BY DEF Interrupted, Back
<1>2. /\ queue' \in Seq(Proc) /\ ToSet(queue') = ToSet(queue) \ {p}
      /\ \A i, j \in DOMAIN queue' : queue'[i] = queue'[j] => i = j
  BY <1>1, DelFacts
<1>3. NoCall \in [d : Fd, left : 0..MaxLen, flags : {"INT", "KBD"}, awake : BOOLEAN]
  BY FilesAssumption DEF NoCall, Fd
<1>4. StdinType'
  BY <1>1, <1>2, <1>3 DEF StdinInv, StdinType
<1>5. ReadersWoken'
  <2>1. \A q \in Proc : q # p => call'[q] = call[q] /\ pc'[q] = pc[q]
    BY <1>1, StdinFacts
  <2>2. pc'[p] # "kbd"
    BY <1>1, StdinFacts
  <2>3. ToSet(queue') \subseteq Proc /\ p \notin ToSet(queue')
    BY <1>2, MembersIn
  <2> QED BY <1>1, <1>2, <2>1, <2>2, <2>3 DEF StdinInv, ReadersWoken
<1>6. RingExact' /\ Sequenced'
  BY <1>1 DEF StdinInv, RingExact, Sequenced, Live, Char
<1> QED BY <1>4, <1>5, <1>6 DEF StdinInv

(* A character is written at wpos, whether or not there is room, and every *)
(* reader in the queue is woken.                                           *)
LEMMA KeyStep ==
  ASSUME StdinInv, Key
  PROVE  StdinInv'
<1> DEFINE b == BufSize
           r == ring.rpos
           w == ring.wpos
           x == input.typed + 1
<1>1. /\ r \in Nat /\ w \in Nat /\ r <= w /\ w <= r + b /\ b \in Nat \ {0}
      /\ x \in Nat \ {0} /\ ring.buf \in [0..(b - 1) -> Nat]
      /\ input.got \in Seq(Nat) /\ input.full \in BOOLEAN
  BY StdinFacts
<1>2. \A i \in Nat : i % b \in 0..(b - 1)
  BY <1>1, DivMod
<1>3. /\ ring'.rpos = r
      /\ ring'.wpos = IF w - r < b THEN w + 1 ELSE w
      /\ ring'.buf = [ring.buf EXCEPT ![w % b] = x]
      /\ ring' = [buf |-> ring'.buf, rpos |-> ring'.rpos, wpos |-> ring'.wpos]
  <2>1. ring' = [ring EXCEPT !.buf[w % b] = x, !.wpos = IF Room THEN @ + 1 ELSE @]
    BY DEF Key
  <2>2. ring = [buf |-> ring.buf, rpos |-> ring.rpos, wpos |-> ring.wpos]
    BY StdinFacts
  <2> QED BY <2>1, <2>2 DEF Room
<1>4. /\ input'.typed = x /\ input'.got = input.got
      /\ input'.full = (input.full \/ w - r = b)
      /\ input' = [typed |-> input'.typed, got |-> input'.got, full |-> input'.full]
  <2>1. input' = [input EXCEPT !.typed = @ + 1, !.full = @ \/ w - r = b]
    BY DEF Key
  <2>2. input = [typed |-> input.typed, got |-> input.got, full |-> input.full]
    BY StdinFacts
  <2> QED BY <2>1, <2>2
<1>5. /\ call' = WakeKbd(queue, call) /\ queue' = <<>> /\ UNCHANGED pc
  BY DEF Key, procs
<1> HIDE DEF b, r, w, x
<1>6. \A i \in Nat : ring'.buf[i % b] = IF i % b = w % b THEN x ELSE ring.buf[i % b]
  BY <1>1, <1>2, <1>3
<1>7. StdinType'
  <2>1. call' \in [Proc -> [d : Fd, left : 0..MaxLen, flags : {"INT", "KBD"},
                            awake : BOOLEAN]]
    BY <1>5, StdinFacts DEF WakeKbd
  <2>2. ring'.buf \in [0..(b - 1) -> Nat]
    BY <1>1, <1>2, <1>3
  <2>3. ring' \in [buf : [0..(b - 1) -> Nat], rpos : Nat, wpos : Nat]
    <3>1. ring'.rpos \in Nat /\ ring'.wpos \in Nat
      BY <1>1, <1>3
    <3>2. ring' = [buf |-> ring'.buf, rpos |-> ring'.rpos, wpos |-> ring'.wpos]
      BY <1>3
    <3> QED BY <2>2, <3>1, <3>2
  <2>4. input' \in [typed : Nat, got : Seq(Nat), full : BOOLEAN]
    BY <1>1, <1>4
  <2>5. queue' \in Seq(Proc)
    BY <1>5
  <2> QED BY <1>5, <2>1, <2>3, <2>4, <2>5 DEF StdinInv, StdinType, b
<1>8. ReadersWoken'
  <2>1. ToSet(queue') = {} /\ DOMAIN queue' = {}
    BY <1>5 DEF ToSet
  <2>2. \A p \in Proc : p \in ToSet(queue) => call'[p].awake
    BY <1>5, StdinFacts DEF WakeKbd
  <2>3. \A p \in Proc : p \notin ToSet(queue) => call'[p] = call[p]
    BY <1>5, StdinFacts DEF WakeKbd
  <2>4. \A p \in Proc : pc[p] = "kbd" /\ p \notin ToSet(queue) => call[p].awake
    BY DEF StdinInv, ReadersWoken
  <2>5. \A p \in Proc : pc'[p] = "kbd" => call'[p].awake
    BY <1>5, <2>2, <2>3, <2>4
  <2> QED BY <2>1, <2>5 DEF ReadersWoken
<1>9. \A i \in Live' : i \in Nat /\ i >= r /\ (i \in Live \/ i = w)
  BY <1>1, <1>3 DEF Live, r, w
<1>10. \A i, j \in Live' : i < j => j - i < b
  BY <1>1, <1>3, <1>9 DEF Live, r, w
<1>11. \A i \in Live' : \/ i % b = w % b /\ Char(i)' = x
                        \/ i % b # w % b /\ i \in Live /\ Char(i)' = Char(i)
  BY <1>6, <1>9 DEF Char, b
<1>12. RingExact'
  <2>1. /\ ToSet(input.got) \subseteq 1..input.typed
        /\ \A i, j \in DOMAIN input.got : input.got[i] = input.got[j] => i = j
        /\ \A i \in Live : Char(i) \in 1..input.typed /\ Char(i) \notin ToSet(input.got)
        /\ \A i, j \in Live : Char(i) = Char(j) => i = j
    BY DEF StdinInv, RingExact
  <2>2. input.typed \in Nat /\ x = input.typed + 1
    BY StdinFacts DEF x
  <2>3. x \notin ToSet(input.got) /\ ToSet(input.got) \subseteq 1..x
    BY <2>1, <2>2
  <2>4. \A i \in Live' : Char(i)' \in 1..x /\ Char(i)' \notin ToSet(input.got)
    BY <1>11, <2>1, <2>2, <2>3
  <2>5. \A i, j \in Live' : Char(i)' = Char(j)' => i = j
    <3> SUFFICES ASSUME NEW i \in Live', NEW j \in Live', Char(i)' = Char(j)'
                 PROVE  i = j
      OBVIOUS
    <3>1. \A k \in Live : Char(k) # x
      BY <2>1, <2>2
    <3>2. CASE i \in Live /\ Char(i)' = Char(i) /\ j \in Live /\ Char(j)' = Char(j)
      BY <2>1, <3>2
    <3>3. CASE i % b = w % b /\ j % b = w % b
      <4>1. ~(i < j) /\ ~(j < i)
        BY <1>1, <1>9, <1>10, <3>3, SlotsDiffer
      <4> QED BY <1>9, <4>1
    <3> QED BY <1>11, <3>1, <3>2, <3>3
  <2>6. ring'.rpos <= ring'.wpos /\ ring'.wpos <= ring'.rpos + b
    BY <1>1, <1>3
  <2> QED BY <1>4, <2>1, <2>3, <2>4, <2>5, <2>6 DEF RingExact, b
<1>13. Sequenced'
  <2> SUFFICES ASSUME ~input'.full
               PROVE  /\ ring'.wpos = input'.typed
                      /\ input'.got = [i \in 1..ring'.rpos |-> i]
                      /\ \A i \in Live' : Char(i)' = i + 1
    BY DEF Sequenced
  <2>0. ~input.full /\ ~(w - r = b)
    BY <1>4, Zenon
  <2>1. ~input.full /\ w - r < b
    BY <1>1, <2>0
  <2>2. /\ w = input.typed /\ input.got = [i \in 1..r |-> i]
        /\ \A i \in Live : Char(i) = i + 1
    BY <2>1 DEF StdinInv, Sequenced, w, r
  <2>3. ring'.wpos = w + 1 /\ x = w + 1
    BY <1>3, <2>1, <2>2 DEF x
  <2>4. \A i \in Live' : i % b = w % b => i = w
    <3> SUFFICES ASSUME NEW i \in Live', i % b = w % b PROVE i = w
      OBVIOUS
    <3>1. w \in Live' /\ i <= w
      BY <1>1, <1>3, <2>3 DEF Live
    <3>2. ~(i < w)
      BY <1>1, <1>9, <1>10, <3>1, SlotsDiffer
    <3> QED BY <1>1, <1>9, <3>1, <3>2
  <2>5. \A i \in Live' : Char(i)' = i + 1
    BY <1>11, <2>2, <2>3, <2>4
  <2> QED BY <1>3, <1>4, <2>2, <2>3, <2>5
<1> QED BY <1>7, <1>8, <1>12, <1>13 DEF StdinInv

(* dev_stdin_read takes n characters from the ring, and either returns or  *)
(* joins the queue with the ring empty.                                    *)
LEMMA ReadStep ==
  ASSUME StdinInv, NEW p \in Proc, NEW c, c.d \in Fd, c.left \in 0..MaxLen,
         ReadOn(p, c)
  PROVE  StdinInv'
<1> DEFINE b == BufSize
           r == ring.rpos
           w == ring.wpos
           n == IF c.left <= w - r THEN c.left ELSE w - r
           t == [i \in 1..n |-> ring.buf[(r + i - 1) % b]]
<1>1. /\ r \in Nat /\ w \in Nat /\ r <= w /\ w <= r + b /\ b \in Nat \ {0}
      /\ ring.buf \in [0..(b - 1) -> Nat]
      /\ input.got \in Seq(Nat) /\ MaxLen \in Nat
  BY StdinFacts
<1>2. n \in Nat /\ n <= w - r /\ n <= c.left
  BY <1>1
<1>3. ring' = [ring EXCEPT !.rpos = @ + n] /\ input' = [input EXCEPT !.got = @ \o t]
  BY DEF ReadOn
<1>4. \/ /\ n = c.left
         /\ call' = [call EXCEPT ![p] = NoCall]
         /\ queue' = wait_current_del(queue, p)
         /\ pc' = [pc EXCEPT ![p] = IF killed[p] THEN "dying" ELSE "user"]
      \/ /\ n # c.left
         /\ call' = [call EXCEPT ![p] = [d |-> c.d, left |-> c.left - n,
                                         flags |-> "INT", awake |-> FALSE]]
         /\ queue' = Append(wait_current_del(queue, p), p)
         /\ pc' = [pc EXCEPT ![p] = "kbd"]
  BY DEF ReadOn, Back
<1>5. n # c.left => n = w - r
  OBVIOUS
<1> HIDE DEF n
<1>6. \A i \in 1..n : /\ r + i - 1 \in Live /\ r + i - 1 \in Nat
                      /\ t[i] = Char(r + i - 1)
  BY <1>1, <1>2 DEF Live, Char
<1>7. t \in Seq(Nat) /\ Len(t) = n
  <2>1. \A i \in 1..n : ring.buf[(r + i - 1) % b] \in Nat
    BY <1>1, <1>6, DivMod
  <2>2. t \in [1..n -> Nat]
    BY <2>1
  <2> QED BY <1>2, <2>2, IsList
<1>8. DOMAIN t = 1..n
  OBVIOUS
<1> HIDE DEF t
<1>9. /\ ring'.rpos = r + n /\ ring'.wpos = w /\ ring'.buf = ring.buf
      /\ ring' = [buf |-> ring'.buf, rpos |-> ring'.rpos, wpos |-> ring'.wpos]
  <2>1. ring = [buf |-> ring.buf, rpos |-> ring.rpos, wpos |-> ring.wpos]
    BY StdinFacts
  <2> QED BY <1>3, <2>1
<1>10. /\ input'.typed = input.typed /\ input'.full = input.full
       /\ input'.got = input.got \o t
       /\ input' = [typed |-> input'.typed, got |-> input'.got, full |-> input'.full]
  <2>1. input = [typed |-> input.typed, got |-> input.got, full |-> input.full]
    BY StdinFacts
  <2> QED BY <1>3, <2>1
<1> HIDE DEF b, r, w
<1>11. Live' = (r + n)..(w - 1) /\ Live = r..(w - 1) /\ Live' \subseteq Live
  BY <1>1, <1>2, <1>9 DEF Live, r, w
<1>12. \A i \in Live' : Char(i)' = Char(i)
  BY <1>9 DEF Char
<1>13. StdinType'
  <2>1. NoCall \in [d : Fd, left : 0..MaxLen, flags : {"INT", "KBD"}, awake : BOOLEAN]
    BY FilesAssumption DEF NoCall, Fd
  <2>2. c.left - n \in 0..MaxLen
    BY <1>1, <1>2
  <2>3. [d |-> c.d, left |-> c.left - n, flags |-> "INT", awake |-> FALSE]
          \in [d : Fd, left : 0..MaxLen, flags : {"INT", "KBD"}, awake : BOOLEAN]
    BY <2>2
  <2>4. /\ pc' \in [Proc -> {"free", "thread", "panic", "user", "kbd", "dying"}]
        /\ call' \in [Proc -> [d : Fd, left : 0..MaxLen, flags : {"INT", "KBD"},
                               awake : BOOLEAN]]
    <3> DEFINE S == [d : Fd, left : 0..MaxLen, flags : {"INT", "KBD"}, awake : BOOLEAN]
    <3>1. PICK v \in S : call' = [call EXCEPT ![p] = v]
      BY <1>4, <2>1, <2>3
    <3>2. call \in [Proc -> S]
      BY StdinFacts
    <3> HIDE DEF S
    <3>3. call' \in [Proc -> S]
      BY <3>1, <3>2
    <3>4. PICK u \in {"free", "thread", "panic", "user", "kbd", "dying"} : pc' = [pc EXCEPT ![p] = u]
      BY <1>4
    <3>5. pc' \in [Proc -> {"free", "thread", "panic", "user", "kbd", "dying"}]
      BY <3>4, StdinFacts
    <3> QED BY <3>3, <3>5 DEF S
  <2>5. queue' \in Seq(Proc)
    <3> DEFINE Q == wait_current_del(queue, p)
    <3>1. Q \in Seq(Proc) /\ (queue' = Q \/ queue' = Append(Q, p))
      BY <1>4, DelFacts
    <3> HIDE DEF Q
    <3> QED BY <3>1
  <2>6. ring'.rpos \in Nat /\ ring'.wpos \in Nat /\ ring'.buf \in [0..(b - 1) -> Nat]
    BY <1>1, <1>2, <1>9
  <2>7. ring' \in [buf : [0..(b - 1) -> Nat], rpos : Nat, wpos : Nat]
    BY <1>9, <2>6
  <2>8. input'.got \in Seq(Nat) /\ input'.typed \in Nat /\ input'.full \in BOOLEAN
    BY <1>1, <1>7, <1>10, StdinFacts, ConcatFacts
  <2>9. input' \in [typed : Nat, got : Seq(Nat), full : BOOLEAN]
    BY <1>10, <2>8
  <2> QED BY <2>4, <2>5, <2>7, <2>9 DEF StdinType, b
<1>14. ReadersWoken'
  <2> DEFINE Q == wait_current_del(queue, p)
  <2>1. /\ Q \in Seq(Proc) /\ ToSet(Q) = ToSet(queue) \ {p}
        /\ \A i, j \in DOMAIN Q : Q[i] = Q[j] => i = j
    BY DelFacts
  <2>2. queue' = Q \/ queue' = Append(Q, p)
    BY <1>4
  <2> HIDE DEF Q
  <2>3. \A i, j \in DOMAIN queue' : queue'[i] = queue'[j] => i = j
    BY <2>1, <2>2, AppendFacts
  <2>4. \A q \in Proc : q # p => call'[q] = call[q] /\ pc'[q] = pc[q]
    BY <1>4, StdinFacts
  <2>5. \A q \in Proc : q # p /\ pc[q] = "kbd" /\ ~call[q].awake =>
                          q \in ToSet(queue) /\ r = w
    BY DEF StdinInv, ReadersWoken, r, w
  <2>6. r = w => ring'.rpos = ring'.wpos
    BY <1>1, <1>2, <1>9
  <2>7. \A q \in ToSet(queue) : q \in Proc /\ pc[q] = "kbd" /\ call[q].flags = "INT"
    <3>1. queue \in Seq(Proc)
      BY StdinFacts
    <3> QED BY <3>1, MembersIn DEF StdinInv, ReadersWoken
  <2>8. CASE n = c.left
    <3>1. ToSet(queue') = ToSet(queue) \ {p}
      BY <1>4, <2>1, <2>8 DEF Q
    <3>2. pc'[p] # "kbd"
      BY <1>4, <2>8, StdinFacts
    <3> QED BY <2>3, <2>4, <2>5, <2>6, <2>7, <3>1, <3>2 DEF ReadersWoken
  <2>9. CASE n # c.left
    <3>1. ToSet(queue') = ToSet(queue) \cup {p}
      <4>1. queue' = Append(Q, p)
        BY <1>4, <2>9 DEF Q
      <4>2. ToSet(queue') = ToSet(Q) \cup {p}
        BY <2>1, <4>1, AppendFacts
      <4> QED BY <2>1, <4>2
    <3>2. pc'[p] = "kbd" /\ call'[p].flags = "INT"
      BY <1>4, <2>9, StdinFacts
    <3>3. ring'.rpos = ring'.wpos
      BY <1>1, <1>2, <1>5, <1>9, <2>9
    <3> QED BY <2>3, <2>4, <2>5, <2>7, <3>1, <3>2, <3>3 DEF ReadersWoken
  <2> QED BY <2>8, <2>9
<1>15. RingExact'
  <2>1. /\ ToSet(input.got) \subseteq 1..input.typed
        /\ \A i, j \in DOMAIN input.got : input.got[i] = input.got[j] => i = j
        /\ \A i \in Live : Char(i) \in 1..input.typed /\ Char(i) \notin ToSet(input.got)
        /\ \A i, j \in Live : Char(i) = Char(j) => i = j
    BY DEF StdinInv, RingExact
  <2>2. ToSet(t) = {t[i] : i \in 1..n}
    BY <1>8 DEF ToSet
  <2>3. ToSet(input.got) \cap ToSet(t) = {} /\ ToSet(t) \subseteq 1..input.typed
    BY <1>6, <2>1, <2>2
  <2>4. \A i, j \in DOMAIN t : t[i] = t[j] => i = j
    <3> SUFFICES ASSUME NEW i \in 1..n, NEW j \in 1..n, t[i] = t[j] PROVE i = j
      BY <1>8
    <3>1. r + i - 1 = r + j - 1
      BY <1>6, <2>1
    <3> QED BY <1>1, <1>2, <3>1
  <2>5. /\ ToSet(input'.got) = ToSet(input.got) \cup ToSet(t)
        /\ \A i, j \in DOMAIN input'.got : input'.got[i] = input'.got[j] => i = j
    <3> DEFINE g == input.got
    <3>1. g \in Seq(Nat) /\ \A i, j \in DOMAIN g : g[i] = g[j] => i = j
      BY <1>1, <2>1
    <3>2. ToSet(g) \cap ToSet(t) = {} /\ input'.got = g \o t
      BY <1>10, <2>3
    <3> HIDE DEF g
    <3>3. /\ ToSet(g \o t) = ToSet(g) \cup ToSet(t)
          /\ \A i, j \in DOMAIN (g \o t) : (g \o t)[i] = (g \o t)[j] => i = j
      BY <1>7, <2>4, <3>1, <3>2, ConcatFacts
    <3> QED BY <3>2, <3>3 DEF g
  <2>6. \A i \in Live' : Char(i) \notin ToSet(t)
    <3> SUFFICES ASSUME NEW i \in Live', NEW k \in 1..n, Char(i) = t[k] PROVE FALSE
      BY <2>2
    <3>1. i = r + k - 1
      BY <1>6, <1>11, <2>1
    <3> QED BY <1>1, <1>2, <1>11, <3>1
  <2>7. \A i \in Live' : /\ Char(i)' \in 1..input'.typed
                         /\ Char(i)' \notin ToSet(input'.got)
    BY <1>10, <1>11, <1>12, <2>1, <2>5, <2>6
  <2>8. \A i, j \in Live' : Char(i)' = Char(j)' => i = j
    BY <1>11, <1>12, <2>1
  <2>9. ring'.rpos <= ring'.wpos /\ ring'.wpos <= ring'.rpos + b
    BY <1>1, <1>2, <1>9
  <2>10. ToSet(input'.got) \subseteq 1..input'.typed
    BY <1>10, <2>1, <2>3, <2>5
  <2> QED BY <2>5, <2>7, <2>8, <2>9, <2>10 DEF RingExact, b
<1>16. Sequenced'
  <2> SUFFICES ASSUME ~input.full
               PROVE  /\ ring'.wpos = input'.typed
                      /\ input'.got = [i \in 1..ring'.rpos |-> i]
                      /\ \A i \in Live' : Char(i)' = i + 1
    BY <1>10 DEF Sequenced
  <2>1. /\ w = input.typed /\ input.got = [i \in 1..r |-> i]
        /\ \A i \in Live : Char(i) = i + 1
    BY DEF StdinInv, Sequenced, w, r
  <2>2. \A i \in 1..n : t[i] = r + i
    BY <1>1, <1>2, <1>6, <2>1
  <2>3. Len(input.got) = r /\ \A i \in 1..r : input.got[i] = i
    <3>1. [i \in 1..r |-> i] \in [1..r -> Nat]
      BY <1>1
    <3> QED BY <1>1, <2>1, <3>1, IsList
  <2>4. /\ input'.got \in Seq(Nat) /\ Len(input'.got) = r + n
        /\ \A i \in 1..(r + n) : input'.got[i] = i
    <3>1. /\ input'.got \in Seq(Nat) /\ Len(input'.got) = r + n
          /\ \A i \in 1..(r + n) :
               input'.got[i] = IF i <= r THEN input.got[i] ELSE t[i - r]
      <4> DEFINE g == input.got
      <4>1. g \in Seq(Nat) /\ Len(g) = r /\ input'.got = g \o t
        BY <1>1, <1>10, <2>3
      <4> HIDE DEF g
      <4>2. /\ g \o t \in Seq(Nat) /\ Len(g \o t) = Len(g) + Len(t)
            /\ \A i \in 1..(Len(g) + Len(t)) :
                 (g \o t)[i] = IF i <= Len(g) THEN g[i] ELSE t[i - Len(g)]
        BY <1>7, <4>1, ConcatProperties
      <4> QED BY <1>7, <4>1, <4>2 DEF g
    <3>2. \A i \in 1..(r + n) : ~(i <= r) => i - r \in 1..n /\ r + (i - r) = i
      BY <1>1, <1>2
    <3>3. ASSUME NEW i \in 1..(r + n)
          PROVE  input'.got[i] = i
      <4>1. CASE i <= r
        <5>1. i \in 1..r
          BY <1>1, <4>1
        <5>2. input'.got[i] = input.got[i] /\ input.got[i] = i
          BY <2>3, <3>1, <4>1, <5>1
        <5> QED BY <5>2
      <4>2. CASE ~(i <= r)
        <5>1. t[i - r] = r + (i - r)
          BY <2>2, <3>2, <4>2
        <5> QED BY <3>1, <3>2, <4>2, <5>1
      <4> QED BY <4>1, <4>2
    <3> QED BY <3>1, <3>3
  <2>5. input'.got = [i \in 1..(r + n) |-> i]
    <3> DEFINE g == input'.got
    <3>1. g \in Seq(Nat) /\ Len(g) = r + n /\ \A i \in 1..(r + n) : g[i] = i
      BY <2>4
    <3> HIDE DEF g
    <3>2. DOMAIN g = 1..(r + n) /\ g = [i \in DOMAIN g |-> g[i]]
      BY <3>1
    <3>3. g = [i \in 1..(r + n) |-> i]
      BY <3>1, <3>2
    <3> QED BY <3>3 DEF g
  <2> QED BY <1>9, <1>10, <1>11, <1>12, <2>1, <2>5
<1> QED BY <1>13, <1>14, <1>15, <1>16 DEF StdinInv

-----------------------------------------------------------------------------

(* A system call keeps the invariant.                                      *)
LEMMA SysCallStep ==
  ASSUME StdinInv, NEW p \in Proc, SysCall(p)
  PROVE  StdinInv'
<1>1. ASSUME NEW d \in Fd, NEW len \in 1..MaxLen, ReadStdin(p, d, len)
      PROVE  StdinInv'
  <2> DEFINE c == [d |-> d, left |-> len]
  <2>1. ReadOn(p, c) /\ c.d \in Fd /\ c.left \in 0..MaxLen
    BY <1>1, FilesAssumption DEF ReadStdin
  <2> HIDE DEF c
  <2> QED BY <2>1, ReadStep
<1>2. ASSUME NEW c \in Proc, Fork(p, c)
      PROVE  StdinInv'
  <2>1. /\ UNCHANGED stdin /\ pc[p] = "user" /\ pc[c] = "free"
        /\ pc' = [pc EXCEPT ![p] = IF killed[p] THEN "dying" ELSE "user",
                            ![c] = "user"]
    BY <1>2 DEF Fork, InUser
  <2>2. /\ pc' \in [Proc -> {"free", "thread", "panic", "user", "kbd", "dying"}]
        /\ \A q \in Proc : pc'[q] = "kbd" <=> pc[q] = "kbd"
    BY <2>1, StdinFacts
  <2> QED BY <2>1, <2>2, OtherCall
<1>3. ASSUME UNCHANGED stdin, pc[p] = "user", Back(p)
      PROVE  StdinInv'
  <2>1. /\ pc' \in [Proc -> {"free", "thread", "panic", "user", "kbd", "dying"}]
        /\ \A q \in Proc : pc'[q] = "kbd" <=> pc[q] = "kbd"
    BY <1>3, StdinFacts DEF Back
  <2> QED BY <1>3, <2>1, OtherCall
<1>4. ASSUME NEW o \in Opens, NEW mem \in BOOLEAN, Open(p, o.path, o.flags, mem)
      PROVE  StdinInv'
  BY <1>3, <1>4 DEF Open, InUser
<1>5. ASSUME NEW d \in Fd, Close(p, d)
      PROVE  StdinInv'
  BY <1>3, <1>5 DEF Close, InUser
<1>6. ASSUME NEW d \in Fd, NEW to \in Fd, Dup(p, d, to)
      PROVE  StdinInv'
  BY <1>3, <1>6 DEF Dup, InUser
<1>7. ASSUME NEW d \in Fd, NEW op \in Ops, Use(p, d, op)
      PROVE  StdinInv'
  BY <1>3, <1>7 DEF Use, InUser
<1>8. ASSUME NEW path \in Walks, NEW mem \in BOOLEAN, Chdir(p, path, mem)
      PROVE  StdinInv'
  BY <1>3, <1>8 DEF Chdir, InUser
<1>9. ASSUME NEW fits \in BOOLEAN, Getcwd(p, fits)
      PROVE  StdinInv'
  BY <1>3, <1>9 DEF Getcwd, InUser
<1>10. ASSUME ExecRefused(p)
       PROVE  StdinInv'
  BY <1>3, <1>10 DEF ExecRefused, InUser
<1> QED BY <1>1, <1>2, <1>4, <1>5, <1>6, <1>7, <1>8, <1>9, <1>10 DEF SysCall

(* user_main does not read.                                                *)
LEMMA UserMainStep ==
  ASSUME StdinInv, NEW p \in Proc, UserMain(p)
  PROVE  StdinInv'
<1>1. UNCHANGED stdin
  BY DEF UserMain, OpenStd, Exec, ThreadFails
<1>2. PICK u \in {"thread", "panic", "user"} : pc' = [pc EXCEPT ![p] = u]
  <2>1. CASE \E dev \in Device : OpenStd(p, dev)
    <3>1. pc[p] = "thread" /\ pc' = pc
      BY <2>1 DEF OpenStd, InThread
    <3>2. pc' = [pc EXCEPT ![p] = "thread"]
      BY <3>1, StdinFacts
    <3> QED BY <3>2
  <2>2. CASE \E f \in File, mem \in BOOLEAN : Exec(p, f, mem)
    BY <2>2 DEF Exec
  <2>3. CASE ThreadFails(p)
    BY <2>3 DEF ThreadFails
  <2> QED BY <2>1, <2>2, <2>3 DEF UserMain
<1>3. pc[p] = "thread"
  BY DEF UserMain, OpenStd, Exec, ThreadFails, InThread
<1>4. /\ pc' \in [Proc -> {"free", "thread", "panic", "user", "kbd", "dying"}]
      /\ \A q \in Proc : pc'[q] = "kbd" <=> pc[q] = "kbd"
  BY <1>2, <1>3, StdinFacts
<1> QED BY <1>1, <1>4, OtherCall

(* Every step keeps the invariant.                                         *)
LEMMA NextStdin == StdinInv /\ [Next]_vars => StdinInv'
<1> SUFFICES ASSUME StdinInv, [Next]_vars PROVE StdinInv'
  OBVIOUS
<1>1. ASSUME NEW p \in Proc, Exit(p)
      PROVE  StdinInv'
  <2>1. UNCHANGED stdin /\ pc[p] \in {"user", "dying"} /\ pc' = [pc EXCEPT ![p] = "free"]
    BY <1>1 DEF Exit
  <2>2. /\ pc' \in [Proc -> {"free", "thread", "panic", "user", "kbd", "dying"}]
        /\ \A q \in Proc : pc'[q] = "kbd" <=> pc[q] = "kbd"
    BY <2>1, StdinFacts
  <2> QED BY <2>1, <2>2, OtherCall
<1>2. ASSUME NEW p \in Proc, Resume(p)
      PROVE  StdinInv'
  <2>1. ReadOn(p, call[p]) /\ call[p].d \in Fd /\ call[p].left \in 0..MaxLen
    BY <1>2, StdinFacts DEF Resume
  <2> QED BY <2>1, ReadStep
<1>3. CASE UNCHANGED vars
  <2>1. UNCHANGED stdin /\ UNCHANGED pc
    BY <1>3 DEF vars, stdin
  <2>2. pc' \in [Proc -> {"free", "thread", "panic", "user", "kbd", "dying"}]
    BY <2>1, StdinFacts
  <2> QED BY <2>1, <2>2, OtherCall
<1> QED BY <1>1, <1>2, <1>3, UserMainStep, SysCallStep, KillStep, InterruptedStep, KeyStep DEF Next

-----------------------------------------------------------------------------

(* The inductive invariant holds throughout.                               *)
THEOREM StdinInvHolds == Spec => []StdinInv
<1>1. Init => StdinInv
  BY InitStdin
<1>2. StdinInv /\ [Next]_vars => StdinInv'
  BY NextStdin
<1> QED BY <1>1, <1>2, PTL DEF Spec

(* No wake-up of a reader of stdin is lost: dev_stdin_read sleeps only in  *)
(* the wait queue and only while the ring is empty, over every history of  *)
(* characters, reads and kills, for any ring and any number of readers.    *)
THEOREM ReadersCorrect == Spec => []ReadersWoken
<1>1. StdinInv => ReadersWoken
  BY DEF StdinInv
<1> QED BY <1>1, StdinInvHolds, PTL

(* No character is delivered twice, and without an overflow of the ring    *)
(* the readers get them in the order typed, without a gap.                 *)
THEOREM InOrderCorrect == Spec => []InOrder
<1>1. StdinInv => InOrder
  BY DEF StdinInv, RingExact, Sequenced, InOrder
<1> QED BY <1>1, StdinInvHolds, PTL

-----------------------------------------------------------------------------
(* The counts of inodes and open files.                                    *)

(* An entry of an fd_array, and the tables of all processes.               *)
EntryT == [status : {"NONE", "INIT", "OPENED", "CLOSED"}, count : Nat,
           node : Node \cup {NoNode}, rd : BOOLEAN, wr : BOOLEAN]
Tables == [Proc -> [Fd -> EntryT]]

(* An inode with r references and o openings; those of all inodes.         *)
Cell(n, r, o) == [ref |-> r, open |-> o,
                  reclaim |-> IF r > 0 /\ n \notin Device THEN 1 ELSE 0,
                  mem |-> r > 0]
Nodes(R, O) == [n \in Node |-> Cell(n, R[n], O[n])]

(* Numbers that inode_check accepts; devices stay.                         *)
Sane(R, O) ==
  /\ R \in [Node -> Nat] /\ O \in [Node -> Nat]
  /\ \A n \in Node : O[n] <= R[n] /\ (n \in Device => R[n] > 0)

(* A call at work on the fd_array F, when no assert has failed.            *)
KS(F, R, O) == [node |-> Nodes(R, O), fd |-> F, oops |-> "no"]

Up(R, n) == [R EXCEPT ![n] = @ + 1]
Dn(R, n) == [R EXCEPT ![n] = @ - 1]

-----------------------------------------------------------------------------
(* A node is a device, a directory or a file, and only one of them.        *)
LEMMA NodeFacts ==
  /\ Device \subseteq Node /\ Dir \subseteq Node /\ File \subseteq Node
  /\ Root \in Dir /\ Stdin \in Device /\ Stdout \in Device /\ SubDir \subseteq Dir
  /\ NoNode \notin Node /\ Stdin # Stdout
  /\ \A n \in Node : \/ n \in Device /\ n \notin Dir /\ n \notin File
                     \/ n \in Dir /\ n \notin Device /\ n \notin File
                     \/ n \in File /\ n \notin Device /\ n \notin Dir
<1>1. /\ Stdin # Stdout /\ NoNode \notin Node
      /\ File \cap Dir = {} /\ Device \cap (File \cup Dir) = {}
  BY FilesAssumption, Zenon
<1>2. /\ NoNode \notin Node
      /\ \A n \in Node : \/ n \in Device /\ n \notin Dir /\ n \notin File
                         \/ n \in Dir /\ n \notin Device /\ n \notin File
                         \/ n \in File /\ n \notin Device /\ n \notin Dir
  BY <1>1 DEF Node
<1> QED BY <1>1, <1>2 DEF Node, Device, Dir

(* The operations that every inode has, and those of its type.             *)
LEMMA OpFacts ==
  ASSUME NEW n \in Node
  PROVE  /\ HasOp(n, "open") /\ HasOp(n, "close") /\ HasOp(n, "fstat") /\ HasOp(n, "gettype")
         /\ n \notin Device => HasOp(n, "reclaim") /\ HasOp(n, "fsync")
         /\ n \notin Dir => HasOp(n, "read") /\ HasOp(n, "write")
         /\ n \notin File => HasOp(n, "lookup")
         /\ n \in Dir => HasOp(n, "namefile")
         /\ n \in File => HasOp(n, "truncate")
<1>1. CASE n \in Device
  BY <1>1, NodeFacts DEF HasOp
<1>2. CASE n \in Dir
  BY <1>2, NodeFacts DEF HasOp
<1>3. CASE n \in File
  BY <1>3, NodeFacts DEF HasOp
<1> QED BY <1>1, <1>2, <1>3, NodeFacts

(* The fields of an inode with r references and o openings ...             *)
LEMMA CellFacts ==
  ASSUME NEW n, NEW r \in Nat, NEW o
  PROVE  /\ Cell(n, r, o).ref = r /\ Cell(n, r, o).open = o
         /\ Cell(n, r, o).reclaim = IF r > 0 /\ n \notin Device THEN 1 ELSE 0
         /\ Cell(n, r, o).mem <=> r > 0
<1>1. Cell(n, r, o).ref = r /\ Cell(n, r, o).open = o
  BY DEF Cell
<1>2. Cell(n, r, o).reclaim = IF r > 0 /\ n \notin Device THEN 1 ELSE 0
  BY DEF Cell
<1>3. Cell(n, r, o).mem <=> r > 0
  BY DEF Cell
<1> QED BY <1>1, <1>2, <1>3

(* ... and of inode n, with the bounds that inode_check asks for.          *)
LEMMA NodeCell ==
  ASSUME NEW R, NEW O, Sane(R, O), NEW n \in Node
  PROVE  /\ Nodes(R, O)[n] = Cell(n, R[n], O[n])
         /\ R[n] \in Nat /\ O[n] \in Nat /\ O[n] <= R[n]
         /\ Nodes(R, O)[n].ref = R[n] /\ Nodes(R, O)[n].open = O[n]
         /\ Nodes(R, O)[n].reclaim = IF R[n] > 0 /\ n \notin Device THEN 1 ELSE 0
         /\ Nodes(R, O)[n].mem <=> R[n] > 0
<1>1. R[n] \in Nat /\ O[n] \in Nat /\ O[n] <= R[n] /\ Nodes(R, O)[n] = Cell(n, R[n], O[n])
  BY DEF Nodes, Sane
<1>2. /\ Cell(n, R[n], O[n]).ref = R[n] /\ Cell(n, R[n], O[n]).open = O[n]
      /\ Cell(n, R[n], O[n]).reclaim = IF R[n] > 0 /\ n \notin Device THEN 1 ELSE 0
      /\ Cell(n, R[n], O[n]).mem <=> R[n] > 0
  BY <1>1, CellFacts
<1> QED BY <1>1, <1>2

(* An inode in memory gets another number of references ...                *)
LEMMA CellRef ==
  ASSUME NEW n, NEW r \in Nat, NEW o, NEW s \in Nat, r > 0, s > 0
  PROVE  [Cell(n, r, o) EXCEPT !.ref = s] = Cell(n, s, o)
<1>1. /\ (r > 0) = TRUE /\ (s > 0) = TRUE
  OBVIOUS
<1> QED BY <1>1 DEF Cell

(* ... or of openings ...                                                  *)
LEMMA CellOpen ==
  ASSUME NEW n, NEW r \in Nat, NEW o, NEW s
  PROVE  [Cell(n, r, o) EXCEPT !.open = s] = Cell(n, r, s)
BY DEF Cell

(* ... or loses the last reference, before vop_reclaim is called.          *)
LEMMA CellDrop ==
  ASSUME NEW n, n \notin Device
  PROVE  [Cell(n, 1, 0) EXCEPT !.ref = 0]
           = [ref |-> 0, open |-> 0, reclaim |-> 1, mem |-> TRUE]
<1>1. Cell(n, 1, 0) = [ref |-> 1, open |-> 0, reclaim |-> 1, mem |-> TRUE]
  <2>1. (1 > 0) = TRUE
    OBVIOUS
  <2> QED BY <2>1 DEF Cell
<1>2. ASSUME NEW t PROVE [[ref |-> 1, open |-> 0, reclaim |-> 1, mem |-> t] EXCEPT !.ref = 0]
            = [ref |-> 0, open |-> 0, reclaim |-> 1, mem |-> t]
  OBVIOUS
<1> QED BY <1>1, <1>2, Zenon

(* One inode among all: another number of references ...                   *)
LEMMA NodesRef ==
  ASSUME NEW R, NEW O, Sane(R, O), NEW n \in Node, NEW r \in Nat
  PROVE  [Nodes(R, O) EXCEPT ![n] = Cell(n, r, O[n])] = Nodes([R EXCEPT ![n] = r], O)
BY DEF Nodes, Sane

(* ... or of openings.                                                     *)
LEMMA NodesOpen ==
  ASSUME NEW R, NEW O, Sane(R, O), NEW n \in Node, NEW o \in Nat
  PROVE  [Nodes(R, O) EXCEPT ![n] = Cell(n, R[n], o)] = Nodes(R, [O EXCEPT ![n] = o])
BY DEF Nodes, Sane

(* __vop_op and inode_check let a call on a referenced inode pass.         *)
LEMMA VopK ==
  ASSUME NEW F, NEW R, NEW O, Sane(R, O), NEW n \in Node, R[n] > 0,
         NEW op, HasOp(n, op)
  PROVE  Vop(KS(F, R, O), n, op) = KS(F, R, O)
<1>1. Nodes(R, O)[n].mem /\ Nodes(R, O)[n].ref >= Nodes(R, O)[n].open
  BY NodeCell
<1> QED BY <1>1 DEF Vop, KAssert, KS

(* vop_ref_inc adds a reference.                                           *)
LEMMA RefIncK ==
  ASSUME NEW F, NEW R, NEW O, Sane(R, O), NEW n \in Node, R[n] > 0
  PROVE  /\ vop_ref_inc(KS(F, R, O), n) = KS(F, Up(R, n), O)
         /\ Sane(Up(R, n), O)
<1>0. /\ R[n] \in Nat /\ R[n] + 1 \in Nat /\ R[n] + 1 > 0
      /\ Nodes(R, O)[n] = Cell(n, R[n], O[n]) /\ Nodes(R, O)[n].ref = R[n]
  BY NodeCell
<1>1. Sane(Up(R, n), O)
  BY DEF Sane, Up
<1>2. [Nodes(R, O)[n] EXCEPT !.ref = Nodes(R, O)[n].ref + 1] = Cell(n, R[n] + 1, O[n])
  BY <1>0, CellRef
<1>3. [Nodes(R, O) EXCEPT ![n].ref = @ + 1] = Nodes(Up(R, n), O)
  BY <1>0, <1>2, NodesRef DEF Up
<1> QED BY <1>1, <1>3 DEF vop_ref_inc, KS

(* vop_open_inc adds an opening, for which there is a reference.           *)
LEMMA OpenIncK ==
  ASSUME NEW F, NEW R, NEW O, Sane(R, O), NEW n \in Node, O[n] < R[n]
  PROVE  /\ vop_open_inc(KS(F, R, O), n) = KS(F, R, Up(O, n))
         /\ Sane(R, Up(O, n))
<1>0. /\ R[n] \in Nat /\ O[n] + 1 \in Nat
      /\ Nodes(R, O)[n] = Cell(n, R[n], O[n]) /\ Nodes(R, O)[n].open = O[n]
  BY NodeCell
<1>1. Sane(R, Up(O, n))
  BY DEF Sane, Up
<1>2. [Nodes(R, O)[n] EXCEPT !.open = Nodes(R, O)[n].open + 1] = Cell(n, R[n], O[n] + 1)
  BY <1>0, CellOpen
<1>3. [Nodes(R, O) EXCEPT ![n].open = @ + 1] = Nodes(R, Up(O, n))
  BY <1>0, <1>2, NodesOpen DEF Up
<1> QED BY <1>1, <1>3 DEF vop_open_inc, KS

(* sfs_load_inode adds a reference, whether the inode was in memory or     *)
(* not.                                                                    *)
LEMMA LoadK ==
  ASSUME NEW F, NEW R, NEW O, Sane(R, O), NEW n \in Node, n \notin Device
  PROVE  /\ sfs_load_inode(KS(F, R, O), n) = KS(F, Up(R, n), O)
         /\ Sane(Up(R, n), O)
<1>0. /\ R[n] \in Nat /\ R[n] + 1 \in Nat /\ R[n] + 1 > 0 /\ O[n] \in Nat /\ O[n] <= R[n]
      /\ Nodes(R, O)[n] = Cell(n, R[n], O[n])
  BY NodeCell
<1>1. Sane(Up(R, n), O)
  BY DEF Sane, Up
<1> DEFINE c == Nodes(R, O)[n]
           e == InMemory(c)
<1>2. e = Cell(n, R[n] + 1, O[n])
  <2>1. CASE R[n] > 0
    <3>1. c.mem /\ c.ref = R[n] /\ R[n] # 0 /\ c.reclaim = 1
      BY <2>1, NodeCell
    <3>2. e = [[c EXCEPT !.ref = R[n] + 1] EXCEPT !.reclaim = c.reclaim]
      BY <3>1 DEF InMemory
    <3>3. [c EXCEPT !.ref = R[n] + 1] = Cell(n, R[n] + 1, O[n])
      BY <1>0, <2>1, CellRef
    <3>5. [Cell(n, R[n] + 1, O[n]) EXCEPT !.reclaim = 1] = Cell(n, R[n] + 1, O[n])
      BY <1>0 DEF Cell
    <3> QED BY <3>1, <3>2, <3>3, <3>5
  <2>2. CASE ~(R[n] > 0)
    <3>1. R[n] = 0 /\ O[n] = 0
      BY <1>0, <2>2
    <3>2. ~c.mem
      BY <2>2, NodeCell
    <3>3. e = [ref |-> 1, open |-> 0, reclaim |-> 1, mem |-> TRUE]
      BY <3>2 DEF InMemory
    <3>4. Cell(n, 1, 0) = [ref |-> 1, open |-> 0, reclaim |-> 1, mem |-> TRUE]
      <4>1. (1 > 0) = TRUE
        OBVIOUS
      <4> QED BY <4>1 DEF Cell
    <3>5. R[n] + 1 = 1
      BY <3>1
    <3> QED BY <3>1, <3>3, <3>4, <3>5
  <2> QED BY <2>1, <2>2
<1>4. sfs_load_inode(KS(F, R, O), n) = [KS(F, R, O) EXCEPT !.node = [Nodes(R, O) EXCEPT ![n] = e]]
  BY DEF sfs_load_inode, KS
<1> HIDE DEF e
<1>3. [Nodes(R, O) EXCEPT ![n] = e] = Nodes(Up(R, n), O)
  BY <1>0, <1>2, NodesRef DEF Up
<1> QED BY <1>1, <1>3, <1>4 DEF KS

(* vop_ref_dec takes one back; the last one frees the inode, which then is *)
(* not open.                                                               *)
LEMMA RefDecK ==
  ASSUME NEW F, NEW R, NEW O, Sane(R, O), NEW n \in Node, O[n] < R[n],
         n \in Device => R[n] > 1
  PROVE  /\ vop_ref_dec(KS(F, R, O), n) = KS(F, Dn(R, n), O)
         /\ Sane(Dn(R, n), O)
<1>0. /\ R[n] \in Nat /\ O[n] \in Nat
      /\ Nodes(R, O)[n] = Cell(n, R[n], O[n]) /\ Nodes(R, O)[n].ref = R[n]
  BY NodeCell
<1>1. Sane(Dn(R, n), O)
  BY DEF Sane, Dn
<1>2. CASE R[n] > 1
  <2>0. R[n] - 1 \in Nat /\ R[n] - 1 > 0 /\ R[n] > 0
    BY <1>0, <1>2
  <2>1. [Nodes(R, O)[n] EXCEPT !.ref = Nodes(R, O)[n].ref - 1] = Cell(n, R[n] - 1, O[n])
    BY <1>0, <2>0, CellRef
  <2>2. [Nodes(R, O) EXCEPT ![n].ref = @ - 1] = Nodes(Dn(R, n), O)
    BY <1>0, <2>0, <2>1, NodesRef DEF Dn
  <2> QED BY <1>0, <1>1, <1>2, <2>2 DEF vop_ref_dec, KS
<1>3. CASE ~(R[n] > 1)
  <2>1. R[n] = 1 /\ O[n] = 0 /\ n \notin Device
    BY <1>0, <1>3
  <2> DEFINE N0 == Nodes(R, O)
             N1 == [N0 EXCEPT ![n].ref = 0]
             k1 == [node |-> N1, fd |-> F, oops |-> "no"]
             e  == [ref |-> 0, open |-> 0, reclaim |-> 0, mem |-> FALSE]
             N2 == [N1 EXCEPT ![n] = e]
             k2 == [node |-> N2, fd |-> F, oops |-> "no"]
  <2>2. N0[n].ref = 1 /\ N0[n].open = 0 /\ N0[n].mem /\ N0[n].reclaim = 1
    BY <2>1, NodeCell
  <2>3. N0 \in [Node -> {N0[m] : m \in Node}] /\ N1[n] = [N0[n] EXCEPT !.ref = 0]
    BY DEF Nodes
  <2>4. N1[n] = [ref |-> 0, open |-> 0, reclaim |-> 1, mem |-> TRUE]
    <3>1. N0[n] = Cell(n, 1, 0)
      BY <1>0, <2>1
    <3>2. [Cell(n, 1, 0) EXCEPT !.ref = 0]
            = [ref |-> 0, open |-> 0, reclaim |-> 1, mem |-> TRUE]
      BY <2>1, CellDrop
    <3> HIDE DEF N0, N1
    <3> QED BY <2>3, <3>1, <3>2, Zenon
  <2>5. vop_ref_dec(KS(F, R, O), n) = inode_kill(sfs_reclaim(Vop(k1, n, "reclaim"), n), n)
    BY <2>2 DEF vop_ref_dec, KS, KAssert
  <2>6. HasOp(n, "reclaim")
    BY <2>1, OpFacts
  <2>7. N2 = Nodes(Dn(R, n), O)
    <3>1. Cell(n, 0, 0) = e
      <4>1. (0 > 0) = FALSE
        OBVIOUS
      <4> QED BY <4>1 DEF Cell
    <3>2. N2 = [N0 EXCEPT ![n] = e]
      BY <2>3
    <3>3. [N0 EXCEPT ![n] = Cell(n, 0, O[n])] = Nodes([R EXCEPT ![n] = 0], O)
      BY NodesRef
    <3>4. Dn(R, n) = [R EXCEPT ![n] = 0]
      BY <2>1 DEF Dn
    <3> QED BY <2>1, <3>1, <3>2, <3>3, <3>4
  <2>8. sfs_reclaim(k1, n) = k2
    <3>1. k1.node[n].reclaim > 0 /\ k1.node[n].reclaim = 1 /\ k1.node[n].ref = 0
      BY <2>4
    <3>2. Reclaimed([ref |-> 0, open |-> 0, reclaim |-> 1, mem |-> TRUE]) = e
      BY DEF Reclaimed
    <3>3. Reclaimed(N1[n]) = e
      BY <2>4, <3>2, Zenon
    <3> HIDE DEF N1, e
    <3> QED BY <3>1, <3>3 DEF sfs_reclaim, KAssert
  <2>9. N2[n].open = 0
    BY <2>3
  <2> HIDE DEF N1, N2
  <2>10. Vop(k1, n, "reclaim") = k1
    BY <2>4, <2>6 DEF Vop, KAssert
  <2>11. inode_kill(k2, n) = k2
    BY <2>9 DEF inode_kill, KAssert
  <2> QED BY <1>1, <2>5, <2>7, <2>8, <2>10, <2>11 DEF KS
<1> QED BY <1>2, <1>3

(* vop_open_dec takes an opening back.                                     *)
LEMMA OpenDecK ==
  ASSUME NEW F, NEW R, NEW O, Sane(R, O), NEW n \in Node, O[n] > 0
  PROVE  /\ vop_open_dec(KS(F, R, O), n) = KS(F, R, Dn(O, n))
         /\ Sane(R, Dn(O, n))
<1>0. /\ R[n] \in Nat /\ O[n] \in Nat /\ O[n] <= R[n] /\ O[n] - 1 \in Nat
      /\ Nodes(R, O)[n] = Cell(n, R[n], O[n]) /\ Nodes(R, O)[n].open = O[n]
  BY NodeCell
<1>1. Sane(R, Dn(O, n))
  BY DEF Sane, Dn
<1>4. ASSUME NEW o \in Nat
      PROVE  [Nodes(R, O) EXCEPT ![n].open = o] = Nodes(R, [O EXCEPT ![n] = o])
  <2>1. [Nodes(R, O)[n] EXCEPT !.open = o] = Cell(n, R[n], o)
    BY <1>0, CellOpen
  <2> QED BY <1>0, <2>1, NodesOpen
<1>5. [Nodes(R, O) EXCEPT ![n].open = O[n] - 1] = Nodes(R, Dn(O, n))
  BY <1>0, <1>4 DEF Dn
<1>2. CASE O[n] > 1
  BY <1>0, <1>1, <1>2, <1>5 DEF vop_open_dec, KS
<1>3. CASE ~(O[n] > 1)
  <2>1. O[n] = 1 /\ O[n] - 1 = 0
    BY <1>0, <1>3
  <2>4. vop_open_dec(KS(F, R, O), n) = Vop(KS(F, R, Dn(O, n)), n, "close")
    BY <1>0, <1>5, <2>1 DEF vop_open_dec, KS, KAssert
  <2>5. R[n] > 0 /\ HasOp(n, "close")
    BY <1>0, OpFacts
  <2> QED BY <1>1, <2>4, <2>5, VopK
<1> QED BY <1>2, <1>3

-----------------------------------------------------------------------------
(* Lookup.  Add(R, n) has a reference more to n, if n is a node.           *)
Add(R, n) == IF n = NoNode THEN R ELSE Up(R, n)

(* Counts that go up and down again are what they were, in any order.      *)
LEMMA UpDn ==
  ASSUME NEW R \in [Node -> Nat], NEW n \in Node
  PROVE  /\ Up(R, n) \in [Node -> Nat] /\ Up(R, n)[n] = R[n] + 1
         /\ \A m \in Node : Up(R, n)[m] >= R[m]
         /\ Dn(Up(R, n), n) = R
         /\ \A m \in Node : Dn(Up(Up(R, n), m), n) = Up(R, m)
         /\ \A m \in Node : Up(Up(R, n), m) = Up(Up(R, m), n)
<1>1. /\ Up(R, n) \in [Node -> Nat] /\ Up(R, n)[n] = R[n] + 1
      /\ \A m \in Node : Up(R, n)[m] >= R[m]
  BY DEF Up
<1>2. ASSUME NEW Q \in [Node -> Nat]
      PROVE  Dn(Up(Q, n), n) = Q
  <2>1. Up(Q, n) \in [Node -> Nat] /\ Up(Q, n)[n] = Q[n] + 1 /\ Q[n] \in Nat
    BY DEF Up
  <2>2. Up(Q, n)[n] - 1 = Q[n]
    BY <2>1
  <2>3. Dn(Up(Q, n), n) = [Up(Q, n) EXCEPT ![n] = Q[n]]
    BY <2>2 DEF Dn
  <2> QED BY <2>3 DEF Up
<1>3. ASSUME NEW m \in Node
      PROVE  Up(Up(R, n), m) = Up(Up(R, m), n)
  BY DEF Up
<1>4. ASSUME NEW m \in Node
      PROVE  Dn(Up(Up(R, n), m), n) = Up(R, m)
  <2>1. Up(R, m) \in [Node -> Nat]
    BY DEF Up
  <2>2. Dn(Up(Up(R, m), n), n) = Up(R, m)
    BY <1>2, <2>1
  <2> QED BY <1>3, <2>2
<1> QED BY <1>1, <1>2, <1>3, <1>4

(* A start of a path is a directory or a device.                           *)
LEMMA StartFacts ==
  ASSUME NEW p, pwd[p] \in Dir, NEW from
  PROVE  /\ StartOf(p, from) \in Dir \cup Device /\ StartOf(p, from) \in Node
         /\ from \in Device => StartOf(p, from) = from
         /\ from = "cwd" => StartOf(p, from) = pwd[p]
         /\ from \notin Device /\ from # "cwd" => StartOf(p, from) = Root
         /\ from \notin Device => StartOf(p, from) \in Dir
<1>1. from \in Device => from # "cwd"
  BY FilesAssumption
<1> QED BY <1>1, NodeFacts DEF StartOf

(* get_device takes one reference, to the start.                           *)
LEMMA GetDeviceK ==
  ASSUME NEW F, NEW R, NEW O, Sane(R, O), NEW p, pwd[p] \in Dir, R[pwd[p]] > 0,
         R[Root] > 0, NEW from
  PROVE  /\ get_device(KS(F, R, O), p, from) = KS(F, Up(R, StartOf(p, from)), O)
         /\ Sane(Up(R, StartOf(p, from)), O)
<1>1. Root \in Node /\ Root \notin Device /\ pwd[p] \in Node /\ pwd[p] \notin Device
  BY NodeFacts
<1>2. /\ from \in Device => from # "cwd" /\ from # "disk0" /\ from # ":"
      /\ \A n \in Device : n \in Node
  BY FilesAssumption, NodeFacts
<1>3. CASE from = "disk0"
  <2>1. StartOf(p, from) = Root
    BY <1>2, <1>3, StartFacts
  <2>2. get_device(KS(F, R, O), p, from) = sfs_load_inode(KS(F, R, O), Root)
    BY <1>3 DEF get_device
  <2> QED BY <1>1, <2>1, <2>2, LoadK
<1>4. CASE from = ":"
  <2>1. StartOf(p, from) = Root
    BY <1>2, <1>4, StartFacts
  <2>2. get_device(KS(F, R, O), p, from)
          = vop_ref_dec(sfs_load_inode(vop_ref_inc(KS(F, R, O), pwd[p]), Root), pwd[p])
    BY <1>4 DEF get_device
  <2> DEFINE R1 == Up(R, pwd[p])
             R2 == Up(R1, Root)
  <2>3. vop_ref_inc(KS(F, R, O), pwd[p]) = KS(F, R1, O) /\ Sane(R1, O)
    BY <1>1, RefIncK
  <2>4. sfs_load_inode(KS(F, R1, O), Root) = KS(F, R2, O) /\ Sane(R2, O)
    BY <1>1, <2>3, LoadK
  <2>5. /\ R2[pwd[p]] > O[pwd[p]] /\ Dn(R2, pwd[p]) = Up(R, Root)
    <3>1. R \in [Node -> Nat] /\ R1 \in [Node -> Nat] /\ O[pwd[p]] \in Nat
          /\ O[pwd[p]] <= R[pwd[p]]
      BY <1>1, <2>3 DEF Sane
    <3>2. R1[pwd[p]] = R[pwd[p]] + 1
      BY <1>1, <3>1, UpDn
    <3>3. R2[pwd[p]] >= R1[pwd[p]] /\ R2 \in [Node -> Nat]
      BY <1>1, <3>1, UpDn
    <3>4. Dn(R2, pwd[p]) = Up(R, Root)
      BY <1>1, <3>1, UpDn
    <3>5. R[pwd[p]] \in Nat /\ R1[pwd[p]] \in Nat /\ R2[pwd[p]] \in Nat
      BY <1>1, <3>1, <3>3
    <3> HIDE DEF R1, R2
    <3> QED BY <3>1, <3>2, <3>3, <3>4, <3>5
  <2> HIDE DEF R2
  <2>6. vop_ref_dec(KS(F, R2, O), pwd[p]) = KS(F, Dn(R2, pwd[p]), O) /\ Sane(Dn(R2, pwd[p]), O)
    BY <1>1, <2>4, <2>5, RefDecK
  <2> QED BY <2>1, <2>2, <2>3, <2>4, <2>5, <2>6
<1>5. CASE from # "disk0" /\ from # ":"
  <2>1. get_device(KS(F, R, O), p, from) = vop_ref_inc(KS(F, R, O), StartOf(p, from))
    BY <1>5 DEF get_device
  <2>2. StartOf(p, from) \in Node /\ R[StartOf(p, from)] > 0
    BY <1>1, <1>2, StartFacts DEF Sane
  <2> QED BY <2>1, <2>2, RefIncK
<1> QED BY <1>3, <1>4, <1>5

(* sfs_lookup takes one reference, to what it finds.                       *)
LEMMA SfsLookupK ==
  ASSUME NEW F, NEW R, NEW O, Sane(R, O), NEW dir \in Dir, R[dir] > 0,
         NEW sub \in File \cup Dir \cup {NoNode}
  PROVE  /\ sfs_lookup(KS(F, R, O), dir, sub) = [k |-> KS(F, Add(R, sub), O), node |-> sub]
         /\ Sane(Add(R, sub), O)
<1>1. dir \in Node /\ dir \notin Device
  BY NodeFacts
<1> DEFINE R1 == Up(R, dir)
<1>2. vop_ref_inc(KS(F, R, O), dir) = KS(F, R1, O) /\ Sane(R1, O)
  BY <1>1, RefIncK
<1>3. /\ R \in [Node -> Nat] /\ R1 \in [Node -> Nat] /\ O[dir] \in Nat /\ O[dir] <= R[dir]
      /\ R1[dir] = R[dir] + 1 /\ R[dir] \in Nat
  BY <1>1, <1>2, UpDn DEF Sane
<1>4. CASE sub = NoNode
  <2>1. vop_ref_dec(KS(F, R1, O), dir) = KS(F, Dn(R1, dir), O)
    BY <1>1, <1>2, <1>3, RefDecK
  <2>2. Dn(R1, dir) = R
    BY <1>1, <1>3, UpDn
  <2> QED BY <1>2, <1>4, <2>1, <2>2 DEF sfs_lookup, Add
<1>5. CASE sub # NoNode
  <2>1. sub \in Node /\ sub \notin Device
    BY <1>5, NodeFacts
  <2> DEFINE R2 == Up(R1, sub)
  <2>2. sfs_load_inode(KS(F, R1, O), sub) = KS(F, R2, O) /\ Sane(R2, O)
    BY <1>2, <2>1, LoadK
  <2>3. R2[dir] >= R1[dir] /\ R2 \in [Node -> Nat] /\ Dn(R2, dir) = Up(R, sub)
    BY <1>1, <1>3, <2>1, UpDn
  <2>4. R2[dir] \in Nat /\ O[dir] < R2[dir]
    <3> HIDE DEF R1, R2
    <3> QED BY <1>1, <1>3, <2>3
  <2> HIDE DEF R2
  <2>5. vop_ref_dec(KS(F, R2, O), dir) = KS(F, Dn(R2, dir), O) /\ Sane(Dn(R2, dir), O)
    BY <1>1, <2>2, <2>4, RefDecK
  <2> QED BY <1>2, <1>5, <2>2, <2>3, <2>5 DEF sfs_lookup, Add
<1> QED BY <1>4, <1>5

(* What a lookup finds.                                                    *)
Found(p, path, mem) ==
  IF path.name = "" \/ path.from \in Device \/ mem THEN Target(p, path) ELSE NoNode

(* With memory, or on a device, a lookup finds what the path names.        *)
LEMMA FoundTarget ==
  ASSUME NEW p, NEW path, NEW mem, mem \/ path.from \in Device
  PROVE  Found(p, path, mem) = Target(p, path)
<1>1. CASE mem
  BY <1>1 DEF Found
<1>2. CASE path.from \in Device
  BY <1>2 DEF Found
<1> QED BY <1>1, <1>2

(* A directory entry leads to a file, a directory or nothing.              *)
LEMMA EntryFacts ==
  ASSUME NEW dir \in Dir, NEW name
  PROVE  Entry(dir, name) \in File \cup Dir \cup {NoNode}
BY NodeFacts DEF Entry, Dir

(* A path names a node or nothing.                                         *)
LEMMA TargetFacts ==
  ASSUME NEW p, pwd[p] \in Dir, NEW path, NEW mem
  PROVE  /\ Target(p, path) \in Node \cup {NoNode}
         /\ Found(p, path, mem) \in {Target(p, path), NoNode}
<1>1. /\ StartOf(p, path.from) \in Node
      /\ path.from \notin Device => StartOf(p, path.from) \in Dir
  BY StartFacts
<1>2. path.from \notin Device =>
        Entry(StartOf(p, path.from), path.name) \in Node \cup {NoNode}
  BY <1>1, EntryFacts, NodeFacts
<1> QED BY <1>1, <1>2 DEF Target, Found

(* vfs_lookup takes one reference, to what it finds.                       *)
LEMMA LookupK ==
  ASSUME NEW F, NEW R, NEW O, Sane(R, O), NEW p, pwd[p] \in Dir, R[pwd[p]] > 0,
         R[Root] > 0, NEW path, NEW mem
  PROVE  /\ vfs_lookup(KS(F, R, O), p, path, mem)
              = [k |-> KS(F, Add(R, Found(p, path, mem)), O), node |-> Found(p, path, mem)]
         /\ Sane(Add(R, Found(p, path, mem)), O)
<1> DEFINE s  == StartOf(p, path.from)
           x  == Found(p, path, mem)
           R1 == Up(R, s)
<1>1. /\ get_device(KS(F, R, O), p, path.from) = KS(F, R1, O) /\ Sane(R1, O)
  BY GetDeviceK
<1>2. /\ s \in Node /\ s # NoNode /\ (path.from \in Device => s = path.from /\ s \notin Dir)
      /\ (path.from \notin Device => s \in Dir /\ s \notin Device)
  BY StartFacts, NodeFacts
<1>3. CASE path.name = ""
  <2>1. x = s
    BY <1>3 DEF Found, Target
  <2> QED BY <1>1, <1>2, <1>3, <2>1 DEF vfs_lookup, Add
<1>4. CASE path.name # ""
  <2>1. /\ R \in [Node -> Nat] /\ R1 \in [Node -> Nat] /\ O[s] \in Nat /\ O[s] <= R[s]
        /\ R1[s] = R[s] + 1 /\ R[s] \in Nat /\ R1[s] > 0
    BY <1>1, <1>2, UpDn DEF Sane
  <2>2. vfs_lookup(KS(F, R, O), p, path, mem)
          = DropStart(vop_lookup(KS(F, R1, O), s, path.name, mem), s)
    BY <1>1, <1>4 DEF vfs_lookup
  <2>3. Vop(KS(F, R1, O), s, "lookup") = KS(F, R1, O)
    <3>1. HasOp(s, "lookup")
      BY <1>2, NodeFacts, OpFacts
    <3> QED BY <1>1, <1>2, <2>1, <3>1, VopK
  <2>4. CASE path.from \in Device
    <3>1. x = NoNode
      BY <1>4, <2>4 DEF Found, Target
    <3>2. vop_lookup(KS(F, R1, O), s, path.name, mem) = [k |-> KS(F, R1, O), node |-> NoNode]
      BY <1>2, <2>3, <2>4 DEF vop_lookup
    <3>3. R[s] > 0
      BY <1>2, <2>4 DEF Sane
    <3>4. vop_ref_dec(KS(F, R1, O), s) = KS(F, Dn(R1, s), O)
      BY <1>1, <1>2, <2>1, <3>3, RefDecK
    <3>5. Dn(R1, s) = R
      BY <1>2, <2>1, UpDn
    <3> QED BY <2>2, <3>1, <3>2, <3>4, <3>5 DEF DropStart, Add
  <2>5. CASE path.from \notin Device
    <3>1. x = IF mem THEN Entry(s, path.name) ELSE NoNode
      BY <1>4, <2>5 DEF Found, Target
    <3>2. x \in File \cup Dir \cup {NoNode}
      BY <1>2, <2>5, <3>1, EntryFacts
    <3>3. vop_lookup(KS(F, R1, O), s, path.name, mem) = sfs_lookup(KS(F, R1, O), s, x)
      BY <1>2, <2>3, <2>5, <3>1 DEF vop_lookup
    <3>4. /\ sfs_lookup(KS(F, R1, O), s, x) = [k |-> KS(F, Add(R1, x), O), node |-> x]
          /\ Sane(Add(R1, x), O)
      BY <1>1, <1>2, <2>1, <2>5, <3>2, SfsLookupK
    <3> DEFINE R2 == Add(R1, x)
    <3>5. /\ R2 \in [Node -> Nat] /\ R2[s] >= R1[s] /\ Dn(R2, s) = Add(R, x)
      <4>1. CASE x = NoNode
        BY <1>2, <2>1, <4>1, UpDn DEF Add
      <4>2. CASE x # NoNode
        <5>1. x \in Node
          BY <3>2, <4>2, NodeFacts
        <5> QED BY <1>2, <2>1, <4>2, <5>1, UpDn DEF Add
      <4> QED BY <4>1, <4>2
    <3> HIDE DEF R2, R1, x
    <3>6. O[s] < R2[s]
      BY <1>2, <2>1, <3>5
    <3>7. vop_ref_dec(KS(F, R2, O), s) = KS(F, Dn(R2, s), O) /\ Sane(Dn(R2, s), O)
      BY <1>2, <2>5, <3>4, <3>6, RefDecK DEF R2
    <3> QED BY <2>2, <3>3, <3>4, <3>5, <3>7 DEF DropStart, R2, x
  <2> QED BY <2>4, <2>5
<1> QED BY <1>3, <1>4

-----------------------------------------------------------------------------
(* Entries of an fd_array.                                                 *)

Opened(c, n, rd, wr) ==
  [status |-> "OPENED", count |-> c, node |-> n, rd |-> rd, wr |-> wr]

SetFd(F, d, e) == [F EXCEPT ![d] = e]

Half == [status |-> "INIT", count |-> 0, node |-> NoNode, rd |-> FALSE, wr |-> FALSE]

(* file_open and file_dup take a free entry ...                            *)
LEMMA AllocK ==
  ASSUME NEW F \in [Fd -> EntryT], NEW R, NEW O, NEW d \in Fd, F[d] = None
  PROVE  fd_array_alloc(KS(F, R, O), d) = KS(SetFd(F, d, Half), R, O)
<1>1. F[d].count = 0
  BY DEF None
<1>2. [status |-> "INIT", count |-> F[d].count, node |-> NoNode,
       rd |-> F[d].rd, wr |-> F[d].wr] = Half
  BY DEF None, Half
<1> QED BY <1>1, <1>2 DEF fd_array_alloc, KAssert, KS, SetFd

(* ... and fill it in ...                                                  *)
LEMMA OpenK ==
  ASSUME NEW F \in [Fd -> EntryT], NEW R, NEW O, NEW d \in Fd, F[d].status = "INIT",
         NEW n \in Node, NEW rd, NEW wr
  PROVE  fd_array_open(KS(F, R, O), d, n, rd, wr)
           = KS(SetFd(F, d, Opened(F[d].count + 1, n, rd, wr)), R, O)
<1>1. n # NoNode
  BY NodeFacts
<1> QED BY <1>1 DEF fd_array_open, KAssert, KS, Opened, SetFd

(* ... or give it back.                                                    *)
LEMMA UndoK ==
  ASSUME NEW F \in [Fd -> EntryT], NEW R, NEW O, NEW d \in Fd, F[d] = Half
  PROVE  fd_array_free(KS(F, R, O), d) = KS(SetFd(F, d, None), R, O)
<1>1. F[d].status = "INIT" /\ F[d].count = 0
  BY DEF Half
<1> QED BY <1>1 DEF fd_array_free, KAssert, KS, SetFd

(* The last close of an entry gives back a reference and an opening.       *)
LEMMA CloseK ==
  ASSUME NEW F \in [Fd -> EntryT], NEW R, NEW O, Sane(R, O), NEW d \in Fd,
         F[d].status = "OPENED", F[d].count = 1, F[d].node \in Node,
         O[F[d].node] > 0, F[d].node \in Device => R[F[d].node] > 1
  PROVE  /\ fd_array_close(KS(F, R, O), d)
              = KS(SetFd(F, d, None), Dn(R, F[d].node), Dn(O, F[d].node))
         /\ Sane(Dn(R, F[d].node), Dn(O, F[d].node))
<1> DEFINE n  == F[d].node
           G  == [F EXCEPT ![d].status = "CLOSED"]
           H  == [G EXCEPT ![d].count = 0]
           O1 == Dn(O, n)
<1>1. G[d] = [F[d] EXCEPT !.status = "CLOSED"]
  OBVIOUS
<1>2. G[d].count = 1 /\ G[d].node = n /\ G \in [Fd -> EntryT]
  <2>1. F[d] \in EntryT
    OBVIOUS
  <2> QED BY <1>1, <2>1 DEF EntryT
<1>3. H[d] = [G[d] EXCEPT !.count = 0] /\ H \in [Fd -> EntryT]
  <2>1. G[d] \in EntryT
    BY <1>2
  <2>2. [G[d] EXCEPT !.count = 0] \in EntryT
    BY <2>1 DEF EntryT
  <2> HIDE DEF G
  <2> QED BY <1>2, <2>2
<1>4. H[d].status = "CLOSED" /\ H[d].count = 0 /\ H[d].node = n
  <2>1. F[d] \in EntryT
    OBVIOUS
  <2> QED BY <1>1, <1>3, <2>1 DEF EntryT
<1>5. fd_array_close(KS(F, R, O), d) = FreeIfLast(Dec(KS(G, R, O), d), d)
  BY DEF fd_array_close, KAssert, KS
<1>6. Dec(KS(G, R, O), d) = KS(H, R, O)
  <2>1. G[d].count - 1 = 0
    BY <1>2
  <2> HIDE DEF G
  <2> QED BY <2>1 DEF Dec, KS
<1>7. [H EXCEPT ![d] = None] = [F EXCEPT ![d] = None]
  OBVIOUS
<1> HIDE DEF G, H
<1>8. FreeIfLast(KS(H, R, O), d) = fd_array_free(KS(H, R, O), d)
  BY <1>4 DEF FreeIfLast, KS
<1>9. vop_open_dec(KS(H, R, O), n) = KS(H, R, O1) /\ Sane(R, O1)
  BY OpenDecK
<1>10. O1[n] < R[n]
  BY DEF Sane, Dn
<1>11. vop_ref_dec(KS(H, R, O1), n) = KS(H, Dn(R, n), O1) /\ Sane(Dn(R, n), O1)
  <2> HIDE DEF O1, n
  <2>1. n \in Node /\ (n \in Device => R[n] > 1)
    BY DEF n
  <2> QED BY <1>9, <1>10, <2>1, RefDecK
<1>12. vfs_close(KS(H, R, O), n) = KS(H, Dn(R, n), O1)
  BY <1>9, <1>11 DEF vfs_close
<1>13. fd_array_free(KS(H, R, O), d) = [KS(H, Dn(R, n), O1) EXCEPT !.fd[d] = None]
  <2> HIDE DEF O1, n
  <2>1. KS(H, R, O).fd[d].status = "CLOSED" /\ KS(H, R, O).fd[d].count = 0
        /\ KS(H, R, O).fd[d].node = n
    BY <1>4 DEF KS
  <2> HIDE DEF KS
  <2> QED BY <1>12, <2>1 DEF fd_array_free, KAssert
<1>14. [KS(H, Dn(R, n), O1) EXCEPT !.fd[d] = None] = KS(SetFd(F, d, None), Dn(R, n), O1)
  <2> HIDE DEF O1, n
  <2>1. ASSUME NEW N
        PROVE  [[node |-> N, fd |-> H, oops |-> "no"] EXCEPT !.fd[d] = None]
                 = [node |-> N, fd |-> [H EXCEPT ![d] = None], oops |-> "no"]
    OBVIOUS
  <2> QED BY <1>7, <2>1 DEF KS, SetFd
<1> QED BY <1>5, <1>6, <1>8, <1>11, <1>13, <1>14

(* An entry in use once more, and once less.                               *)
LEMMA AcquireK ==
  ASSUME NEW F \in [Fd -> EntryT], NEW R, NEW O, NEW d \in Fd, F[d].status = "OPENED"
  PROVE  fd_array_acquire(KS(F, R, O), d) = KS(SetFd(F, d, [F[d] EXCEPT !.count = @ + 1]), R, O)
BY DEF fd_array_acquire, KAssert, KS, SetFd

(* fd_array_release of an entry that is still in use.                      *)
LEMMA ReleaseK ==
  ASSUME NEW F \in [Fd -> EntryT], NEW R, NEW O, NEW d \in Fd, F[d].status = "OPENED",
         F[d].count > 1
  PROVE  fd_array_release(KS(F, R, O), d) = KS(SetFd(F, d, [F[d] EXCEPT !.count = @ - 1]), R, O)
<1> DEFINE G == [F EXCEPT ![d].count = @ - 1]
<1>1. F[d].count \in Nat /\ F[d] \in EntryT
  BY DEF EntryT
<1>2. G[d].count = F[d].count - 1
  BY <1>1 DEF EntryT
<1>3. G[d].count # 0 /\ F[d].count > 0
  BY <1>1, <1>2
<1> HIDE DEF G
<1>4. KAssert(KS(F, R, O), /\ KS(F, R, O).fd[d].status \in {"OPENED", "CLOSED"}
                           /\ KS(F, R, O).fd[d].count > 0, "assert") = KS(F, R, O)
  BY <1>3 DEF KAssert, KS
<1>5. Dec(KS(F, R, O), d) = KS(G, R, O)
  BY DEF Dec, KS, G
<1>6. fd_array_release(KS(F, R, O), d) = FreeIfLast(Dec(KS(F, R, O), d), d)
  BY <1>4 DEF fd_array_release
<1>7. FreeIfLast(KS(G, R, O), d) = KS(G, R, O)
  BY <1>3 DEF FreeIfLast, KS
<1> QED BY <1>5, <1>6, <1>7 DEF G, SetFd

(* fd_array_dup takes a reference and an opening.                          *)
LEMMA DupK ==
  ASSUME NEW F \in [Fd -> EntryT], NEW R, NEW O, Sane(R, O), NEW d \in Fd,
         F[d].status = "INIT", NEW e \in EntryT, e.status = "OPENED",
         e.node \in Node, R[e.node] > 0
  PROVE  /\ fd_array_dup(KS(F, R, O), d, e)
              = KS(SetFd(F, d, Opened(F[d].count + 1, e.node, e.rd, e.wr)),
                   Up(R, e.node), Up(O, e.node))
         /\ Sane(Up(R, e.node), Up(O, e.node))
<1> DEFINE n == e.node
           R1 == Up(R, n)
           O1 == Up(O, n)
<1>1. vop_ref_inc(KS(F, R, O), n) = KS(F, R1, O) /\ Sane(R1, O)
  BY RefIncK
<1>2. O[n] < R1[n]
  BY DEF Sane, Up
<1>3. vop_open_inc(KS(F, R1, O), n) = KS(F, R1, O1) /\ Sane(R1, O1)
  <2> HIDE DEF R1
  <2> QED BY <1>1, <1>2, OpenIncK
<1>4. KAssert(KS(F, R, O), e.status = "OPENED", "assert") = KS(F, R, O)
  BY DEF KAssert
<1>5. fd_array_dup(KS(F, R, O), d, e)
        = fd_array_open(KS(F, R1, O1), d, n, e.rd, e.wr)
  BY <1>1, <1>3, <1>4 DEF fd_array_dup
<1>6. fd_array_open(KS(F, R1, O1), d, n, e.rd, e.wr)
        = KS(SetFd(F, d, Opened(F[d].count + 1, n, e.rd, e.wr)), R1, O1)
  <2>1. n \in Node
    OBVIOUS
  <2>2. ASSUME NEW a, NEW b
        PROVE  fd_array_open(KS(F, R1, O1), d, n, a, b)
                 = KS(SetFd(F, d, Opened(F[d].count + 1, n, a, b)), R1, O1)
    <3> HIDE DEF R1, O1, n
    <3> QED BY <2>1, OpenK
  <2> QED BY <2>2
<1> QED BY <1>3, <1>5, <1>6

-----------------------------------------------------------------------------
(* The references and openings that tables, working directories and lost   *)
(* references add up to.                                                   *)

Counted(e, n) == e.status # "NONE" /\ e.node = n
Ent(tab, n)   == {e \in Proc \X Fd : Counted(tab[e[1]][e[2]], n)}
Home(pw, n)   == {p \in Proc : pw[p] = n}

OpensOf(tab) == [n \in Node |-> Cardinality(Ent(tab, n))]
RefsOf(tab, pw, ls) ==
  [n \in Node |-> Base(n) + Cardinality(Ent(tab, n)) + ls[n] + Cardinality(Home(pw, n))]

(* The tables when process p has the fd_array F.                           *)
Row(tab, p, F) == [tab EXCEPT ![p] = F]

(* The tables when entry d of p is e; the directories when p is in x.      *)
SetEnt(tab, p, d, e) == Row(tab, p, SetFd(tab[p], d, e))
SetHome(pw, p, x)    == [pw EXCEPT ![p] = x]

(* What is counted is finite.                                              *)
LEMMA CountFacts ==
  ASSUME NEW tab, NEW pw, NEW n
  PROVE  /\ IsFiniteSet(Ent(tab, n)) /\ Cardinality(Ent(tab, n)) \in Nat
         /\ IsFiniteSet(Home(pw, n)) /\ Cardinality(Home(pw, n)) \in Nat
         /\ Base(n) \in Nat
<1>1. IsFiniteSet(Proc) /\ IsFiniteSet(Fd)
  <2>1. NFd \in Nat /\ NFd - 1 \in Int
    BY FilesAssumption
  <2> QED BY <2>1, FilesAssumption, FS_Interval DEF Fd
<1>2. IsFiniteSet(Proc \X Fd)
  BY <1>1, FS_Product
<1>3. Ent(tab, n) \subseteq Proc \X Fd /\ Home(pw, n) \subseteq Proc
  BY DEF Ent, Home
<1>4. IsFiniteSet(Ent(tab, n)) /\ IsFiniteSet(Home(pw, n))
  BY <1>1, <1>2, <1>3, FS_Subset
<1>5. Base(n) \in Nat
  BY DEF Base
<1> QED BY <1>4, <1>5, FS_CardinalityType

(* The sums are numbers that inode_check accepts.                          *)
LEMMA SaneCounts ==
  ASSUME NEW tab, NEW pw, NEW ls \in [Node -> Nat]
  PROVE  /\ Sane(RefsOf(tab, pw, ls), OpensOf(tab))
         /\ RefsOf(tab, pw, ls)[Root] > 0
         /\ \A n \in Node : /\ RefsOf(tab, pw, ls)[n] \in Nat /\ OpensOf(tab)[n] \in Nat
                            /\ RefsOf(tab, pw, ls)[n] >= OpensOf(tab)[n] + Base(n)
         /\ \A p \in Proc : pw[p] \in Node =>
              RefsOf(tab, pw, ls)[pw[p]] > OpensOf(tab)[pw[p]]
         /\ \A p \in Proc, d \in Fd, n \in Node : Counted(tab[p][d], n) =>
              /\ OpensOf(tab)[n] > 0 /\ RefsOf(tab, pw, ls)[n] > 0
              /\ n \in Device => RefsOf(tab, pw, ls)[n] > 1
<1> DEFINE R == RefsOf(tab, pw, ls)
           O == OpensOf(tab)
<1>1. ASSUME NEW n \in Node
      PROVE  /\ R[n] = Base(n) + Cardinality(Ent(tab, n)) + ls[n] + Cardinality(Home(pw, n))
             /\ O[n] = Cardinality(Ent(tab, n))
             /\ R[n] \in Nat /\ O[n] \in Nat /\ R[n] >= O[n] + Base(n) /\ R[n] >= O[n]
             /\ R[n] >= O[n] + Cardinality(Home(pw, n))
             /\ Base(n) \in Nat /\ (n \in Device => Base(n) > 0)
  <2>1. /\ Cardinality(Ent(tab, n)) \in Nat /\ Cardinality(Home(pw, n)) \in Nat
        /\ Base(n) \in Nat /\ ls[n] \in Nat
    BY CountFacts
  <2>2. /\ R[n] = Base(n) + Cardinality(Ent(tab, n)) + ls[n] + Cardinality(Home(pw, n))
        /\ O[n] = Cardinality(Ent(tab, n))
    BY DEF RefsOf, OpensOf
  <2>3. n \in Device => Base(n) > 0
    BY DEF Base
  <2> HIDE DEF R, O
  <2> QED BY <2>1, <2>2, <2>3
<1>2. R \in [Node -> Nat] /\ O \in [Node -> Nat]
  <2>1. R = [n \in Node |-> R[n]] /\ O = [n \in Node |-> O[n]]
    BY DEF RefsOf, OpensOf
  <2> HIDE DEF R, O
  <2> QED BY <1>1, <2>1
<1> HIDE DEF R, O
<1>3. Sane(R, O)
  <2>1. \A n \in Node : n \in Device => R[n] > 0
    BY <1>1
  <2> QED BY <1>1, <1>2, <2>1 DEF Sane
<1>4. R[Root] > 0
  <2>1. Root \in Node /\ Base(Root) = 3
    BY NodeFacts DEF Base
  <2> QED BY <1>1, <2>1
<1>5. ASSUME NEW p \in Proc, pw[p] \in Node
      PROVE  R[pw[p]] > O[pw[p]]
  <2>1. p \in Home(pw, pw[p])
    BY DEF Home
  <2>2. Cardinality(Home(pw, pw[p])) # 0 /\ Cardinality(Home(pw, pw[p])) \in Nat
    BY <2>1, CountFacts, FS_EmptySet
  <2>3. pw[p] \in Node
    BY <1>5
  <2>4. ASSUME NEW n \in Node, Cardinality(Home(pw, n)) # 0, Cardinality(Home(pw, n)) \in Nat
        PROVE  R[n] > O[n]
    BY <1>1, <2>4
  <2> QED BY <2>2, <2>3, <2>4
<1>6. ASSUME NEW p \in Proc, NEW d \in Fd, NEW n \in Node, Counted(tab[p][d], n)
      PROVE  O[n] > 0 /\ R[n] > 0 /\ (n \in Device => R[n] > 1)
  <2>1. <<p, d>> \in Ent(tab, n)
    BY <1>6 DEF Ent
  <2>2. Cardinality(Ent(tab, n)) # 0
    BY <2>1, CountFacts, FS_EmptySet
  <2> QED BY <1>1, <2>2
<1> QED BY <1>1, <1>3, <1>4, <1>5, <1>6 DEF R, O

(* An entry changes.                                                       *)
LEMMA EntSet ==
  ASSUME NEW tab \in Tables, NEW p \in Proc, NEW d \in Fd, NEW e, NEW n
  PROVE  Ent(SetEnt(tab, p, d, e), n)
           = IF Counted(e, n) THEN Ent(tab, n) \cup {<<p, d>>} ELSE Ent(tab, n) \ {<<p, d>>}
<1> DEFINE tab2 == SetEnt(tab, p, d, e)
<1>1. ASSUME NEW q \in Proc, NEW g \in Fd
      PROVE  tab2[q][g] = IF q = p /\ g = d THEN e ELSE tab[q][g]
  BY DEF SetEnt, Row, SetFd, Tables
<1> HIDE DEF tab2
<1>2. ASSUME NEW y \in Proc \X Fd
      PROVE  y \in Ent(tab2, n) <=>
               IF y = <<p, d>> THEN Counted(e, n) ELSE y \in Ent(tab, n)
  <2>1. y[1] \in Proc /\ y[2] \in Fd /\ y = <<y[1], y[2]>>
    OBVIOUS
  <2>2. y = <<p, d>> <=> y[1] = p /\ y[2] = d
    BY <2>1
  <2> QED BY <1>1, <2>1, <2>2 DEF Ent
<1>3. Ent(tab2, n) \subseteq Proc \X Fd /\ Ent(tab, n) \subseteq Proc \X Fd
      /\ <<p, d>> \in Proc \X Fd
  BY DEF Ent
<1>4. Ent(tab2, n) = IF Counted(e, n) THEN Ent(tab, n) \cup {<<p, d>>}
                                     ELSE Ent(tab, n) \ {<<p, d>>}
  BY <1>2, <1>3
<1> QED BY <1>4 DEF tab2

(* It begins to point to x ...                                             *)
LEMMA GainEntry ==
  ASSUME NEW tab \in Tables, NEW pw, NEW ls \in [Node -> Nat],
         NEW p \in Proc, NEW d \in Fd, NEW e, NEW x \in Node, Counted(e, x),
         \A n \in Node : ~Counted(tab[p][d], n)
  PROVE  /\ OpensOf(SetEnt(tab, p, d, e)) = Up(OpensOf(tab), x)
         /\ RefsOf(SetEnt(tab, p, d, e), pw, ls) = Up(RefsOf(tab, pw, ls), x)
<1> DEFINE tab2 == SetEnt(tab, p, d, e)
<1>1. ASSUME NEW n \in Node
      PROVE  Cardinality(Ent(tab2, n))
               = IF n = x THEN Cardinality(Ent(tab, n)) + 1 ELSE Cardinality(Ent(tab, n))
  <2>1. <<p, d>> \notin Ent(tab, n) /\ IsFiniteSet(Ent(tab, n))
    BY CountFacts DEF Ent
  <2>2. Ent(tab2, n) = IF Counted(e, n) THEN Ent(tab, n) \cup {<<p, d>>}
                                        ELSE Ent(tab, n) \ {<<p, d>>}
    BY EntSet
  <2>3. Counted(e, n) <=> n = x
    BY DEF Counted
  <2>4. CASE n = x
    BY <2>1, <2>2, <2>3, <2>4, FS_AddElement
  <2>5. CASE n # x
    <3>1. Ent(tab2, n) = Ent(tab, n)
      BY <2>1, <2>2, <2>3, <2>5
    <3> QED BY <2>5, <3>1
  <2> QED BY <2>4, <2>5
<1> HIDE DEF tab2
<1>2. OpensOf(tab2) = Up(OpensOf(tab), x)
  BY <1>1 DEF OpensOf, Up
<1>3. RefsOf(tab2, pw, ls) = Up(RefsOf(tab, pw, ls), x)
  <2>1. ASSUME NEW n \in Node
        PROVE  RefsOf(tab2, pw, ls)[n] = Up(RefsOf(tab, pw, ls), x)[n]
    <3>1. /\ Cardinality(Ent(tab, n)) \in Nat /\ Cardinality(Home(pw, n)) \in Nat
          /\ Base(n) \in Nat /\ ls[n] \in Nat
      BY CountFacts
    <3> QED BY <1>1, <3>1 DEF RefsOf, Up
  <2> QED BY <2>1 DEF RefsOf, Up
<1> QED BY <1>2, <1>3 DEF tab2

(* ... or ends to do so ...                                                *)
LEMMA LoseEntry ==
  ASSUME NEW tab \in Tables, NEW pw, NEW ls \in [Node -> Nat],
         NEW p \in Proc, NEW d \in Fd, NEW e, NEW x \in Node, Counted(tab[p][d], x),
         \A n \in Node : ~Counted(e, n)
  PROVE  /\ OpensOf(SetEnt(tab, p, d, e)) = Dn(OpensOf(tab), x)
         /\ RefsOf(SetEnt(tab, p, d, e), pw, ls) = Dn(RefsOf(tab, pw, ls), x)
<1> DEFINE tab2 == SetEnt(tab, p, d, e)
<1>1. ASSUME NEW n \in Node
      PROVE  Cardinality(Ent(tab2, n))
               = IF n = x THEN Cardinality(Ent(tab, n)) - 1 ELSE Cardinality(Ent(tab, n))
  <2>1. <<p, d>> \in Ent(tab, n) <=> n = x
    BY DEF Ent, Counted
  <2>2. Ent(tab2, n) = Ent(tab, n) \ {<<p, d>>}
    BY EntSet
  <2>3. IsFiniteSet(Ent(tab, n))
    BY CountFacts
  <2>4. CASE n = x
    BY <2>1, <2>2, <2>3, <2>4, FS_RemoveElement
  <2>5. CASE n # x
    <3>1. Ent(tab2, n) = Ent(tab, n)
      BY <2>1, <2>2, <2>5
    <3> QED BY <2>5, <3>1
  <2> QED BY <2>4, <2>5
<1> HIDE DEF tab2
<1>2. OpensOf(tab2) = Dn(OpensOf(tab), x)
  BY <1>1 DEF OpensOf, Dn
<1>3. RefsOf(tab2, pw, ls) = Dn(RefsOf(tab, pw, ls), x)
  <2>1. ASSUME NEW n \in Node
        PROVE  RefsOf(tab2, pw, ls)[n] = Dn(RefsOf(tab, pw, ls), x)[n]
    <3>1. /\ Cardinality(Ent(tab, n)) \in Nat /\ Cardinality(Home(pw, n)) \in Nat
          /\ Base(n) \in Nat /\ ls[n] \in Nat
      BY CountFacts
    <3> QED BY <1>1, <3>1 DEF RefsOf, Dn
  <2> QED BY <2>1 DEF RefsOf, Dn
<1> QED BY <1>2, <1>3 DEF tab2

(* ... or neither.                                                         *)
LEMMA SameEntry ==
  ASSUME NEW tab \in Tables, NEW pw, NEW ls, NEW p \in Proc, NEW d \in Fd, NEW e,
         \A n \in Node : Counted(e, n) <=> Counted(tab[p][d], n)
  PROVE  /\ OpensOf(SetEnt(tab, p, d, e)) = OpensOf(tab)
         /\ RefsOf(SetEnt(tab, p, d, e), pw, ls) = RefsOf(tab, pw, ls)
<1> DEFINE tab2 == SetEnt(tab, p, d, e)
<1>1. ASSUME NEW n \in Node
      PROVE  Ent(tab2, n) = Ent(tab, n)
  <2>1. <<p, d>> \in Ent(tab, n) <=> Counted(e, n)
    BY DEF Ent
  <2>2. Ent(tab2, n) = IF Counted(e, n) THEN Ent(tab, n) \cup {<<p, d>>}
                                        ELSE Ent(tab, n) \ {<<p, d>>}
    BY EntSet
  <2> HIDE DEF tab2
  <2> QED BY <2>1, <2>2
<1> HIDE DEF tab2
<1>2. OpensOf(tab2) = OpensOf(tab) /\ RefsOf(tab2, pw, ls) = RefsOf(tab, pw, ls)
  BY <1>1 DEF OpensOf, RefsOf
<1> QED BY <1>2 DEF tab2

(* A process gets a working directory, or gives it back.                   *)
LEMMA GainHome ==
  ASSUME NEW tab, NEW ls \in [Node -> Nat], NEW p \in Proc, NEW x \in Node,
         NEW pw \in [Proc -> Dir \cup {NoNode}], pw[p] = NoNode
  PROVE  RefsOf(tab, SetHome(pw, p, x), ls) = Up(RefsOf(tab, pw, ls), x)
<1> DEFINE pw2 == SetHome(pw, p, x)
<1>1. ASSUME NEW n \in Node
      PROVE  Cardinality(Home(pw2, n))
               = IF n = x THEN Cardinality(Home(pw, n)) + 1 ELSE Cardinality(Home(pw, n))
  <2>1. p \notin Home(pw, n) /\ IsFiniteSet(Home(pw, n))
    BY CountFacts, NodeFacts DEF Home
  <2>2. CASE n = x
    <3>1. Home(pw2, n) = Home(pw, n) \cup {p}
      BY <2>2 DEF Home, SetHome
    <3> QED BY <2>1, <2>2, <3>1, FS_AddElement
  <2>3. CASE n # x
    <3>1. Home(pw2, n) = Home(pw, n)
      BY <2>1, <2>3 DEF Home, SetHome
    <3> QED BY <2>3, <3>1
  <2> QED BY <2>2, <2>3
<1> HIDE DEF pw2
<1>2. ASSUME NEW n \in Node
      PROVE  RefsOf(tab, pw2, ls)[n] = Up(RefsOf(tab, pw, ls), x)[n]
  <2>1. /\ Cardinality(Ent(tab, n)) \in Nat /\ Cardinality(Home(pw, n)) \in Nat
        /\ Base(n) \in Nat /\ ls[n] \in Nat
    BY CountFacts
  <2> QED BY <1>1, <2>1 DEF RefsOf, Up
<1>3. RefsOf(tab, pw2, ls) = Up(RefsOf(tab, pw, ls), x)
  BY <1>2 DEF RefsOf, Up
<1> QED BY <1>3 DEF pw2

(* The process gives its working directory back ...                        *)
LEMMA LoseHome ==
  ASSUME NEW tab, NEW ls \in [Node -> Nat], NEW p \in Proc,
         NEW pw \in [Proc -> Dir \cup {NoNode}], pw[p] \in Node
  PROVE  RefsOf(tab, SetHome(pw, p, NoNode), ls) = Dn(RefsOf(tab, pw, ls), pw[p])
<1> DEFINE pw2 == SetHome(pw, p, NoNode)
           x   == pw[p]
<1>1. ASSUME NEW n \in Node
      PROVE  Cardinality(Home(pw2, n))
               = IF n = x THEN Cardinality(Home(pw, n)) - 1 ELSE Cardinality(Home(pw, n))
  <2>1. (p \in Home(pw, n) <=> n = x) /\ IsFiniteSet(Home(pw, n)) /\ n # NoNode
    BY CountFacts, NodeFacts DEF Home
  <2>2. Home(pw2, n) = Home(pw, n) \ {p}
    BY <2>1 DEF Home, SetHome
  <2>3. CASE n = x
    BY <2>1, <2>2, <2>3, FS_RemoveElement
  <2>4. CASE n # x
    <3>1. Home(pw2, n) = Home(pw, n)
      BY <2>1, <2>2, <2>4
    <3> QED BY <2>4, <3>1
  <2> QED BY <2>3, <2>4
<1> HIDE DEF pw2, x
<1>2. ASSUME NEW n \in Node
      PROVE  RefsOf(tab, pw2, ls)[n] = Dn(RefsOf(tab, pw, ls), x)[n]
  <2>1. /\ Cardinality(Ent(tab, n)) \in Nat /\ Cardinality(Home(pw, n)) \in Nat
        /\ Base(n) \in Nat /\ ls[n] \in Nat
    BY CountFacts
  <2> QED BY <1>1, <2>1 DEF RefsOf, Dn
<1>3. RefsOf(tab, pw2, ls) = Dn(RefsOf(tab, pw, ls), x)
  BY <1>2 DEF RefsOf, Dn
<1> QED BY <1>3 DEF pw2, x

(* ... or goes to another one.                                             *)
LEMMA MoveHome ==
  ASSUME NEW tab, NEW ls \in [Node -> Nat], NEW p \in Proc, NEW x \in Node,
         NEW pw \in [Proc -> Dir \cup {NoNode}], pw[p] \in Node, pw[p] # x
  PROVE  RefsOf(tab, SetHome(pw, p, x), ls) = Dn(Up(RefsOf(tab, pw, ls), x), pw[p])
<1> DEFINE pw1 == SetHome(pw, p, NoNode)
           R   == RefsOf(tab, pw, ls)
<1>1. pw1 \in [Proc -> Dir \cup {NoNode}] /\ pw1[p] = NoNode
      /\ SetHome(pw1, p, x) = SetHome(pw, p, x)
  BY DEF SetHome
<1>2. RefsOf(tab, pw1, ls) = Dn(R, pw[p])
  BY LoseHome
<1>3. RefsOf(tab, SetHome(pw1, p, x), ls) = Up(RefsOf(tab, pw1, ls), x)
  <2> HIDE DEF pw1
  <2> QED BY <1>1, GainHome
<1>4. R \in [Node -> Nat]
  BY SaneCounts DEF Sane
<1> HIDE DEF R, pw1
<1>5. Up(Dn(R, pw[p]), x) = Dn(Up(R, x), pw[p])
  BY <1>4 DEF Up, Dn
<1> QED BY <1>1, <1>2, <1>3, <1>5 DEF R

(* vfs_open loses a reference.                                             *)
LEMMA LoseRef ==
  ASSUME NEW tab, NEW pw, NEW ls \in [Node -> Nat], NEW x \in Node
  PROVE  RefsOf(tab, pw, Up(ls, x)) = Up(RefsOf(tab, pw, ls), x)
<1> DEFINE ls2 == Up(ls, x)
<1>1. ASSUME NEW n \in Node
      PROVE  RefsOf(tab, pw, ls2)[n] = Up(RefsOf(tab, pw, ls), x)[n]
  <2>1. /\ Cardinality(Ent(tab, n)) \in Nat /\ Cardinality(Home(pw, n)) \in Nat
        /\ Base(n) \in Nat /\ ls[n] \in Nat /\ ls2[n] = IF n = x THEN ls[n] + 1 ELSE ls[n]
    BY CountFacts DEF Up
  <2> HIDE DEF ls2
  <2> QED BY <2>1 DEF RefsOf, Up
<1> HIDE DEF ls2
<1>2. RefsOf(tab, pw, ls2) = Up(RefsOf(tab, pw, ls), x)
  BY <1>1 DEF RefsOf, Up
<1> QED BY <1>2 DEF ls2

-----------------------------------------------------------------------------
(* The inductive invariant.  Busy(p) is the entry that p's read of stdin   *)
(* uses while it sleeps, or no entry.                                      *)

EntryOK(e, c) == e = None \/ (e.status = "OPENED" /\ e.count = c /\ e.node \in Node)

RowOK(F, b) ==
  /\ F \in [Fd -> EntryT]
  /\ \A d \in Fd : EntryOK(F[d], IF d = b THEN 2 ELSE 1)
  /\ b \in Fd => F[b].status = "OPENED"

Busy(p) == IF pc[p] = "kbd" THEN call[p].d ELSE NFd

Refs  == RefsOf(table, pwd, lost)
Count == OpensOf(table)

RefTypes ==
  /\ table \in Tables /\ pwd \in [Proc -> Dir \cup {NoNode}]
  /\ lost \in [Node -> 0..MaxLost]

RefInv ==
  /\ RefTypes /\ oops = "no" /\ node = Nodes(Refs, Count)
  /\ \A p \in Proc : /\ RowOK(table[p], Busy(p))
                     /\ pc[p] = "free" <=> pwd[p] = NoNode
                     /\ pc[p] = "free" => table[p] = NoTable

(* The descriptors are below NFd.                                          *)
LEMMA FdFacts == NFd \notin Fd /\ NFd \in Nat /\ Fd \subseteq Nat /\ MaxLost \in Nat
BY FilesAssumption DEF Fd

(* What a call finds.                                                      *)
LEMMA CallFinds ==
  ASSUME RefInv, NEW p \in Proc
  PROVE  /\ K(p) = KS(table[p], Refs, Count) /\ Sane(Refs, Count)
         /\ table \in Tables /\ table[p] \in [Fd -> EntryT]
         /\ lost \in [Node -> Nat] /\ Refs[Root] > 0
         /\ pwd \in [Proc -> Dir \cup {NoNode}]
         /\ pc[p] # "free" => /\ pwd[p] \in Dir /\ pwd[p] \in Node
                              /\ Refs[pwd[p]] > Count[pwd[p]] /\ Refs[pwd[p]] > 0
         /\ RowOK(table[p], Busy(p))
<1>1. /\ table \in Tables /\ table[p] \in [Fd -> EntryT]
      /\ pwd \in [Proc -> Dir \cup {NoNode}] /\ lost \in [Node -> Nat]
  BY FdFacts DEF RefInv, RefTypes, Tables
<1>2. K(p) = KS(table[p], Refs, Count)
  BY DEF RefInv, K, KS
<1>3. Sane(Refs, Count) /\ Refs[Root] > 0
  BY <1>1, SaneCounts DEF Refs, Count
<1>4. ASSUME pc[p] # "free"
      PROVE  /\ pwd[p] \in Dir /\ pwd[p] \in Node
             /\ Refs[pwd[p]] > Count[pwd[p]] /\ Refs[pwd[p]] > 0
  <2>1. pwd[p] \in Dir /\ pwd[p] \in Node
    BY <1>1, <1>4, NodeFacts DEF RefInv
  <2>2. Refs[pwd[p]] > Count[pwd[p]]
    BY <1>1, <2>1, SaneCounts DEF Refs, Count
  <2>3. Refs[pwd[p]] \in Nat /\ Count[pwd[p]] \in Nat
    BY <1>3, <2>1 DEF Sane
  <2> QED BY <2>1, <2>2, <2>3
<1> QED BY <1>1, <1>2, <1>3, <1>4 DEF RefInv

(* An open entry holds a reference and an opening.                         *)
LEMMA EntryHolds ==
  ASSUME RefInv, NEW p \in Proc, NEW d \in Fd, table[p][d].status = "OPENED"
  PROVE  /\ table[p][d] \in EntryT /\ table[p][d].node \in Node
         /\ table[p][d].count = IF d = Busy(p) THEN 2 ELSE 1
         /\ Counted(table[p][d], table[p][d].node)
         /\ Count[table[p][d].node] > 0 /\ Refs[table[p][d].node] > 0
         /\ table[p][d].node \in Device => Refs[table[p][d].node] > 1
<1>1. RowOK(table[p], Busy(p)) /\ lost \in [Node -> Nat] /\ table[p] \in [Fd -> EntryT]
  BY CallFinds
<1>2. table[p][d] # None
  BY DEF None
<1>3. /\ table[p][d].count = IF d = Busy(p) THEN 2 ELSE 1
      /\ table[p][d].node \in Node
  BY <1>1, <1>2 DEF RowOK, EntryOK
<1>4. Counted(table[p][d], table[p][d].node)
  BY DEF Counted
<1> QED BY <1>1, <1>3, <1>4, SaneCounts DEF Refs, Count

(* A free entry.                                                           *)
LEMMA EntryFree ==
  ASSUME RefInv, NEW p \in Proc, NEW d \in FreeFd(table[p])
  PROVE  /\ d \in Fd /\ table[p][d] = None /\ \A n \in Node : ~Counted(table[p][d], n)
<1>1. d \in Fd /\ table[p][d].status = "NONE" /\ RowOK(table[p], Busy(p))
  BY CallFinds DEF FreeFd
<1> QED BY <1>1 DEF RowOK, EntryOK, Counted

(* What a step has to leave.                                               *)
LEMMA Concludes ==
  ASSUME RefInv, NEW p \in Proc, NEW F, RowOK(F, Busy(p)'), table' = Row(table, p, F),
         oops' = "no", pwd' \in [Proc -> Dir \cup {NoNode}],
         lost' \in [Node -> 0..MaxLost],
         node' = Nodes(RefsOf(table', pwd', lost'), OpensOf(table')),
         \A q \in Proc : q # p => /\ Busy(q)' = Busy(q) /\ pwd'[q] = pwd[q]
                                  /\ pc'[q] = "free" <=> pc[q] = "free",
         pc'[p] = "free" <=> pwd'[p] = NoNode,
         pc'[p] = "free" => F = NoTable
  PROVE  RefInv'
<1>1. table \in Tables
  BY DEF RefInv, RefTypes
<1>2. F \in [Fd -> EntryT]
  BY DEF RowOK
<1>3. table' \in Tables /\ table'[p] = F /\ \A q \in Proc : q # p => table'[q] = table[q]
  BY <1>1, <1>2 DEF Tables, Row
<1>4. RefTypes'
  BY <1>3 DEF RefTypes
<1>5. node' = Nodes(Refs', Count')
  BY DEF Refs, Count
<1>6. ASSUME NEW q \in Proc
      PROVE  /\ RowOK(table'[q], Busy(q)')
             /\ pc'[q] = "free" <=> pwd'[q] = NoNode
             /\ pc'[q] = "free" => table'[q] = NoTable
  <2>1. CASE q = p
    BY <1>3, <2>1
  <2>2. CASE q # p
    <3>1. RowOK(table[q], Busy(q)) /\ (pc[q] = "free" <=> pwd[q] = NoNode)
          /\ (pc[q] = "free" => table[q] = NoTable)
      BY DEF RefInv
    <3> QED BY <1>3, <2>2, <3>1
  <2> QED BY <2>1, <2>2
<1> QED BY <1>4, <1>5, <1>6 DEF RefInv

(* A call by a program or by user_main, after which its process is not     *)
(* asleep in a read.                                                       *)
Calls(p)  == pc[p] \in {"user", "thread"} /\ oops = "no"
GoesOn(p) == \E u \in {"thread", "panic", "user", "dying"} : pc' = [pc EXCEPT ![p] = u]

(* A system call is one.                                                   *)
LEMMA SysCalls ==
  ASSUME NEW p, InUser(p), Back(p)
  PROVE  Calls(p) /\ GoesOn(p)
BY DEF InUser, Back, Calls, GoesOn

(* A call that returns, in the directory where it began.                   *)
LEMMA Returns ==
  ASSUME StdinInv, RefInv, NEW p \in Proc, Calls(p), GoesOn(p), call' = call
  PROVE  /\ Busy(p) = NFd /\ Busy(p)' = NFd /\ pc[p] # "free" /\ pc'[p] # "free"
         /\ \A q \in Proc : q # p => /\ Busy(q)' = Busy(q)
                                     /\ pc'[q] = "free" <=> pc[q] = "free"
<1>1. pc \in [Proc -> {"free", "thread", "panic", "user", "kbd", "dying"}]
  BY StdinFacts
<1>2. /\ pc'[p] \in {"thread", "panic", "user", "dying"}
      /\ \A q \in Proc : q # p => pc'[q] = pc[q]
  BY <1>1 DEF GoesOn
<1>3. pc[p] \in {"user", "thread"}
  BY DEF Calls
<1>4. ASSUME NEW q \in Proc
      PROVE  call'[q] = call[q]
  OBVIOUS
<1> QED BY <1>2, <1>3, <1>4 DEF Busy

(* A call that returns with the sums of its own table leaves the           *)
(* invariant.                                                              *)
LEMMA CallReturns ==
  ASSUME StdinInv, RefInv, NEW p \in Proc, Calls(p), GoesOn(p), call' = call,
         NEW F, RowOK(F, NFd), pwd' = pwd, lost' \in [Node -> 0..MaxLost],
         NEW R, NEW O, Result(p, KS(F, R, O)),
         R = RefsOf(Row(table, p, F), pwd, lost'), O = OpensOf(Row(table, p, F))
  PROVE  RefInv'
<1>1. /\ Busy(p)' = NFd /\ pc[p] # "free" /\ pc'[p] # "free"
      /\ \A q \in Proc : q # p => /\ Busy(q)' = Busy(q)
                                  /\ pc'[q] = "free" <=> pc[q] = "free"
  BY Returns
<1>2. /\ table' = Row(table, p, F) /\ oops' = "no" /\ node' = Nodes(R, O)
  BY DEF Result, KS, Row
<1>3. pwd \in [Proc -> Dir \cup {NoNode}] /\ pwd[p] # NoNode
  BY <1>1, CallFinds, NodeFacts
<1>4. node' = Nodes(RefsOf(table', pwd', lost'), OpensOf(table'))
  BY <1>2
<1> QED BY <1>1, <1>2, <1>3, <1>4, Concludes

(* The entries that a call leaves.                                         *)
LEMMA RowKept ==
  ASSUME NEW F, NEW b, RowOK(F, b), NEW d \in Fd, NEW e, b # d,
         e \in EntryT, EntryOK(e, 1)
  PROVE  RowOK(SetFd(F, d, e), b)
BY DEF RowOK, SetFd

(* A free entry points to nothing.                                         *)
LEMMA NoneFacts == None \in EntryT /\ EntryOK(None, 1) /\ \A n \in Node : ~Counted(None, n)
BY DEF None, EntryT, EntryOK, Counted

(* An open entry points to its inode.                                      *)
LEMMA OpenedFacts ==
  ASSUME NEW c \in Nat, NEW n \in Node, NEW rd \in BOOLEAN, NEW wr \in BOOLEAN
  PROVE  /\ Opened(c, n, rd, wr) \in EntryT /\ EntryOK(Opened(c, n, rd, wr), c)
         /\ Counted(Opened(c, n, rd, wr), n)
BY DEF Opened, EntryT, EntryOK, Counted

-----------------------------------------------------------------------------
(* The system calls on entries.                                            *)

(* sys_close preserves the invariant.                                      *)
LEMMA CloseRefs ==
  ASSUME StdinInv, RefInv, NEW p \in Proc, NEW d \in Fd, Close(p, d)
  PROVE  RefInv'
<1> DEFINE F == table[p]
           n == F[d].node
           G == SetFd(F, d, None)
<1>1. /\ Calls(p) /\ F[d].status = "OPENED" /\ GoesOn(p) /\ pwd' = pwd /\ call' = call
      /\ lost' = lost /\ Result(p, fd_array_close(K(p), d))
  BY SysCalls DEF Close, IsOpen, stdin
<1>2. /\ K(p) = KS(F, Refs, Count) /\ Sane(Refs, Count) /\ F \in [Fd -> EntryT]
      /\ RowOK(F, Busy(p)) /\ table \in Tables /\ lost \in [Node -> Nat]
  BY CallFinds
<1>3. Busy(p) = NFd /\ NFd # d
  BY <1>1, Returns, FdFacts
<1>4. /\ n \in Node /\ F[d].count = 1 /\ Counted(F[d], n) /\ Count[n] > 0
      /\ n \in Device => Refs[n] > 1
  BY <1>1, <1>3, EntryHolds
<1>5. fd_array_close(KS(F, Refs, Count), d) = KS(G, Dn(Refs, n), Dn(Count, n))
  BY <1>1, <1>2, <1>4, CloseK
<1>6. RowOK(G, NFd)
  BY <1>2, <1>3, RowKept, NoneFacts
<1>7. /\ Row(table, p, G) = SetEnt(table, p, d, None)
  BY DEF SetEnt
<1>8. /\ OpensOf(SetEnt(table, p, d, None)) = Dn(OpensOf(table), n)
      /\ RefsOf(SetEnt(table, p, d, None), pwd, lost) = Dn(RefsOf(table, pwd, lost), n)
  BY <1>2, <1>4, NoneFacts, LoseEntry
<1>9. lost' \in [Node -> 0..MaxLost]
  BY <1>1 DEF RefInv, RefTypes
<1> HIDE DEF G, F, n
<1> QED BY <1>1, <1>2, <1>5, <1>6, <1>7, <1>8, <1>9, CallReturns DEF Refs, Count

(* The last assignment to an entry counts.                                 *)
LEMMA SetTwice ==
  ASSUME NEW F \in [Fd -> EntryT], NEW d \in Fd, NEW a, NEW b
  PROVE  /\ SetFd(SetFd(F, d, a), d, b) = SetFd(F, d, b)
         /\ F[d] = b => SetFd(F, d, b) = F
BY DEF SetFd

(* An entry that was just allocated.                                       *)
LEMMA HalfFacts == Half \in EntryT /\ Half.status = "INIT" /\ Half.count + 1 = 1
BY DEF Half, EntryT

(* An fd_array with one entry set.                                         *)
LEMMA SetType ==
  ASSUME NEW F \in [Fd -> EntryT], NEW d \in Fd, NEW e \in EntryT
  PROVE  SetFd(F, d, e) \in [Fd -> EntryT] /\ SetFd(F, d, e)[d] = e
BY DEF SetFd

(* An entry is opened in a free place.                                     *)
LEMMA EntryOpened ==
  ASSUME StdinInv, RefInv, NEW p \in Proc, Calls(p), GoesOn(p), call' = call, pwd' = pwd,
         lost' = lost, NEW d \in FreeFd(table[p]), NEW n \in Node,
         NEW rd \in BOOLEAN, NEW wr \in BOOLEAN,
         Result(p, KS(SetFd(table[p], d, Opened(1, n, rd, wr)), Up(Refs, n), Up(Count, n)))
  PROVE  RefInv'
<1> DEFINE e == Opened(1, n, rd, wr)
           G == SetFd(table[p], d, e)
<1>1. /\ RowOK(table[p], Busy(p)) /\ table \in Tables /\ lost \in [Node -> Nat]
      /\ Busy(p) = NFd /\ d \in Fd /\ NFd # d /\ \A m \in Node : ~Counted(table[p][d], m)
  BY CallFinds, Returns, FdFacts, EntryFree
<1>2. e \in EntryT /\ EntryOK(e, 1) /\ Counted(e, n)
  BY OpenedFacts
<1> HIDE DEF e
<1>3. RowOK(G, NFd)
  BY <1>1, <1>2, RowKept
<1>4. Row(table, p, G) = SetEnt(table, p, d, e)
  BY DEF SetEnt
<1>5. /\ OpensOf(SetEnt(table, p, d, e)) = Up(OpensOf(table), n)
      /\ RefsOf(SetEnt(table, p, d, e), pwd, lost) = Up(RefsOf(table, pwd, lost), n)
  BY <1>1, <1>2, GainEntry
<1>6. lost' \in [Node -> 0..MaxLost]
  BY DEF RefInv, RefTypes
<1>7. Result(p, KS(G, Up(Refs, n), Up(Count, n)))
  BY DEF e
<1> HIDE DEF G
<1> QED BY <1>3, <1>4, <1>5, <1>6, <1>7, CallReturns DEF Refs, Count

(* sys_dup preserves the invariant.                                        *)
LEMMA DupRefs ==
  ASSUME StdinInv, RefInv, NEW p \in Proc, NEW d \in Fd, NEW to \in Fd, Dup(p, d, to)
  PROVE  RefInv'
<1> DEFINE F == table[p]
           e == F[d]
           n == e.node
           H == SetFd(F, to, Half)
<1>1. /\ Calls(p) /\ e.status = "OPENED" /\ GoesOn(p) /\ pwd' = pwd /\ call' = call
      /\ lost' = lost /\ to \in FreeFd(F)
      /\ Result(p, fd_array_dup(fd_array_alloc(K(p), to), to, e))
  BY SysCalls DEF Dup, IsOpen, stdin
<1>2. /\ K(p) = KS(F, Refs, Count) /\ Sane(Refs, Count) /\ F \in [Fd -> EntryT]
  BY CallFinds
<1>3. e \in EntryT /\ n \in Node /\ Refs[n] > 0
  BY <1>1, EntryHolds
<1>4. F[to] = None
  BY <1>1, EntryFree
<1>5. fd_array_alloc(KS(F, Refs, Count), to) = KS(H, Refs, Count)
  BY <1>2, <1>4, AllocK
<1>6. H \in [Fd -> EntryT] /\ H[to] = Half
  BY <1>2, SetType, HalfFacts
<1>7. fd_array_dup(KS(H, Refs, Count), to, e)
        = KS(SetFd(H, to, Opened(1, n, e.rd, e.wr)), Up(Refs, n), Up(Count, n))
  <2>1. H[to].status = "INIT" /\ H[to].count + 1 = 1
    BY <1>6, HalfFacts
  <2> HIDE DEF H, e
  <2> QED BY <1>1, <1>2, <1>3, <1>6, <2>1, DupK
<1>8. SetFd(H, to, Opened(1, n, e.rd, e.wr)) = SetFd(F, to, Opened(1, n, e.rd, e.wr))
  BY <1>2, SetTwice
<1>9. e.rd \in BOOLEAN /\ e.wr \in BOOLEAN
  BY <1>3 DEF EntryT
<1> HIDE DEF H, e
<1>10. Result(p, KS(SetFd(F, to, Opened(1, n, e.rd, e.wr)), Up(Refs, n), Up(Count, n)))
  BY <1>1, <1>2, <1>5, <1>7, <1>8
<1> QED BY <1>1, <1>3, <1>9, <1>10, EntryOpened

(* A call that leaves entries and counts as they were.                     *)
LEMMA NothingChanged ==
  ASSUME StdinInv, RefInv, NEW p \in Proc, Calls(p), GoesOn(p), call' = call, pwd' = pwd,
         lost' = lost, Result(p, KS(table[p], Refs, Count))
  PROVE  RefInv'
<1>1. /\ RowOK(table[p], Busy(p)) /\ table \in Tables /\ Busy(p) = NFd
  BY CallFinds, Returns
<1>2. Row(table, p, table[p]) = table
  BY <1>1 DEF Row, Tables
<1>3. lost' \in [Node -> 0..MaxLost]
  BY DEF RefInv, RefTypes
<1> QED BY <1>1, <1>2, <1>3, CallReturns DEF Refs, Count

(* file_read and the like: the entry is in use for the time of the call.   *)
LEMMA AcquireRelease ==
  ASSUME NEW F \in [Fd -> EntryT], NEW R, NEW O, NEW d \in Fd, F[d].status = "OPENED",
         F[d].count = 1
  PROVE  /\ fd_array_release(KS(SetFd(F, d, [F[d] EXCEPT !.count = @ + 1]), R, O), d)
              = KS(F, R, O)
<1> DEFINE e == [F[d] EXCEPT !.count = @ + 1]
           G == SetFd(F, d, e)
<1>1. F[d] \in EntryT
  OBVIOUS
<1>2. e \in EntryT /\ e.status = "OPENED" /\ e.count = 2 /\ [e EXCEPT !.count = @ - 1] = F[d]
  <2>1. e \in EntryT /\ e.status = "OPENED" /\ e.count = 2
    BY <1>1 DEF EntryT
  <2>2. [e EXCEPT !.count = @ - 1] = [e EXCEPT !.count = 1]
    <3> HIDE DEF e
    <3> QED BY <2>1
  <2>3. [e EXCEPT !.count = 1] = F[d]
    BY <1>1 DEF EntryT
  <2> HIDE DEF e
  <2> QED BY <2>1, <2>2, <2>3
<1> HIDE DEF e
<1>3. G \in [Fd -> EntryT] /\ G[d] = e
  BY <1>2, SetType
<1>4. SetFd(G, d, F[d]) = F
  BY SetTwice
<1> HIDE DEF G
<1>5. fd_array_release(KS(G, R, O), d) = KS(SetFd(G, d, [G[d] EXCEPT !.count = @ - 1]), R, O)
  <2>1. G[d].status = "OPENED" /\ G[d].count > 1
    BY <1>2, <1>3
  <2> QED BY <1>3, <2>1, ReleaseK
<1>6. fd_array_release(KS(G, R, O), d) = KS(F, R, O)
  BY <1>2, <1>3, <1>4, <1>5
<1> QED BY <1>6 DEF G, e

(* sys_read, sys_write, sys_seek, sys_fstat, sys_fsync, sys_getdirentry    *)
(* do.                                                                     *)
LEMMA UseRefs ==
  ASSUME Careful, StdinInv, RefInv, NEW p \in Proc, NEW d \in Fd, NEW op, Use(p, d, op)
  PROVE  RefInv'
<1> DEFINE F == table[p]
           n == F[d].node
           G == SetFd(F, d, [F[d] EXCEPT !.count = @ + 1])
<1>1. /\ Calls(p) /\ F[d].status = "OPENED" /\ GoesOn(p) /\ pwd' = pwd /\ call' = call
      /\ lost' = lost /\ HasOp(n, op)
      /\ Result(p, fd_array_release(Vop(fd_array_acquire(K(p), d), n, op), d))
  BY SysCalls DEF Use, IsOpen, stdin
<1>2. /\ K(p) = KS(F, Refs, Count) /\ Sane(Refs, Count) /\ F \in [Fd -> EntryT]
  BY CallFinds
<1>3. Busy(p) = NFd /\ NFd # d
  BY <1>1, Returns, FdFacts
<1>4. n \in Node /\ F[d].count = 1 /\ Refs[n] > 0
  BY <1>1, <1>3, EntryHolds
<1>5. fd_array_acquire(KS(F, Refs, Count), d) = KS(G, Refs, Count)
  BY <1>1, <1>2, AcquireK
<1>7. fd_array_release(KS(G, Refs, Count), d) = KS(F, Refs, Count)
  BY <1>1, <1>2, <1>4, AcquireRelease
<1> HIDE DEF G
<1>6. Vop(KS(G, Refs, Count), n, op) = KS(G, Refs, Count)
  BY <1>1, <1>2, <1>4, VopK
<1>8. Result(p, KS(F, Refs, Count))
  BY <1>1, <1>2, <1>5, <1>6, <1>7
<1> QED BY <1>1, <1>8, NothingChanged

-----------------------------------------------------------------------------
(* The system calls that look up a path.                                   *)

(* A reference that was just taken is given back.                          *)
LEMMA DropK ==
  ASSUME NEW F, NEW Q, NEW O, Sane(Q, O), NEW n \in Node
  PROVE  vop_ref_dec(KS(F, Up(Q, n), O), n) = KS(F, Q, O)
<1>1. /\ Q \in [Node -> Nat] /\ Q[n] \in Nat /\ O[n] \in Nat /\ O[n] <= Q[n]
      /\ n \in Device => Q[n] > 0
  BY DEF Sane
<1>2. Up(Q, n)[n] = Q[n] + 1 /\ Dn(Up(Q, n), n) = Q
  BY <1>1, UpDn
<1>3. Sane(Up(Q, n), O)
  BY <1>1 DEF Sane, Up
<1>4. O[n] < Up(Q, n)[n] /\ (n \in Device => Up(Q, n)[n] > 1)
  BY <1>1, <1>2
<1> QED BY <1>2, <1>3, <1>4, RefDecK

(* Add, for a node and for nothing.                                        *)
LEMMA AddFacts ==
  ASSUME NEW R, NEW n \in Node
  PROVE  Add(R, n) = Up(R, n) /\ Add(R, NoNode) = R
BY NodeFacts DEF Add

(* A failed open: the entry is given back.                                 *)
LEMMA UndoHalf ==
  ASSUME NEW F \in [Fd -> EntryT], NEW d \in Fd, F[d] = None, NEW R, NEW O
  PROVE  fd_array_free(KS(SetFd(F, d, Half), R, O), d) = KS(F, R, O)
<1> DEFINE H == SetFd(F, d, Half)
<1>1. H \in [Fd -> EntryT] /\ H[d] = Half
  BY SetType, HalfFacts
<1>2. SetFd(H, d, None) = F
  BY SetTwice
<1> HIDE DEF H
<1>3. fd_array_free(KS(H, R, O), d) = KS(SetFd(H, d, None), R, O)
  BY <1>1, UndoK
<1> QED BY <1>2, <1>3 DEF H

(* A successful one.                                                       *)
LEMMA OpenHalf ==
  ASSUME NEW F \in [Fd -> EntryT], NEW d \in Fd, NEW R, NEW O, NEW n \in Node,
         NEW rd, NEW wr
  PROVE  fd_array_open(KS(SetFd(F, d, Half), R, O), d, n, rd, wr)
           = KS(SetFd(F, d, Opened(1, n, rd, wr)), R, O)
<1> DEFINE H == SetFd(F, d, Half)
           e == Opened(1, n, rd, wr)
<1>1. H \in [Fd -> EntryT] /\ H[d] = Half
  BY SetType, HalfFacts
<1>2. SetFd(H, d, e) = SetFd(F, d, e)
  BY SetTwice
<1>3. H[d].status = "INIT" /\ H[d].count + 1 = 1
  BY <1>1, HalfFacts
<1> HIDE DEF H
<1>4. fd_array_open(KS(H, R, O), d, n, rd, wr) = KS(SetFd(H, d, e), R, O)
  BY <1>1, <1>3, OpenK
<1> QED BY <1>2, <1>4 DEF H

(* What may be opened with O_TRUNC is a file.                              *)
LEMMA MayTruncate ==
  ASSUME NEW n \in Node, NEW fl, MayOpen(n, fl), fl.trunc => fl.acc # "RDONLY", fl.trunc
  PROVE  n \in File
<1>1. CASE n \in Device
  <2>1. fl = Plain("RDONLY") \/ fl = Plain("WRONLY")
    <3>1. n = Stdin \/ n = Stdout
      BY <1>1 DEF Device
    <3>2. n \notin Dir
      BY <1>1, NodeFacts
    <3>3. Stdin # Stdout
      BY NodeFacts
    <3> QED BY <3>1, <3>2, <3>3 DEF MayOpen
  <2> QED BY <2>1 DEF Plain
<1>2. CASE n \in Dir
  <2>1. n # Stdin /\ n # Stdout
    BY <1>2, NodeFacts DEF Device
  <2> QED BY <1>2, <2>1 DEF MayOpen
<1> QED BY <1>1, <1>2, NodeFacts

(* vfs_open after a lookup that found x.                                   *)
LEMMA OpenNodeK ==
  ASSUME NEW F, NEW R, NEW O, Sane(R, O), NEW x \in Node, NEW fl,
         fl.trunc => fl.acc # "RDONLY", fl.creat => x \in File \/ fl.excl
  PROVE  \/ /\ fl.creat /\ fl.excl
            /\ OpenNode([k |-> KS(F, Up(R, x), O), node |-> x], fl)
                 = [k |-> KS(F, Up(R, x), O), node |-> NoNode, lost |-> TRUE]
         \/ OpenNode([k |-> KS(F, Up(R, x), O), node |-> x], fl)
              = [k |-> KS(F, R, O), node |-> NoNode, lost |-> FALSE]
         \/ /\ OpenNode([k |-> KS(F, Up(R, x), O), node |-> x], fl)
                 = [k |-> KS(F, Up(R, x), Up(O, x)), node |-> x, lost |-> FALSE]
            /\ Sane(Up(R, x), Up(O, x))
<1> DEFINE Q == Up(R, x)
           r == [k |-> KS(F, Q, O), node |-> x]
<1>1. /\ R \in [Node -> Nat] /\ R[x] \in Nat /\ O[x] \in Nat /\ O[x] <= R[x]
  BY DEF Sane
<1>2. Q[x] = R[x] + 1
  BY <1>1, UpDn
<1>3. Sane(Q, O)
  BY <1>1 DEF Sane, Up
<1>4. Q[x] > 0 /\ O[x] < Q[x]
  BY <1>1, <1>2
<1> HIDE DEF Q
<1>5. Vop(KS(F, Q, O), x, "open") = KS(F, Q, O)
  BY <1>3, <1>4, OpFacts, VopK
<1>6. CASE fl.creat /\ fl.excl
  <2>1. OpenNode(r, fl) = [k |-> KS(F, Q, O), node |-> NoNode, lost |-> TRUE]
    BY <1>6 DEF OpenNode
  <2> QED BY <1>6, <2>1 DEF Q
<1>7. CASE ~(fl.creat /\ fl.excl) /\ ~MayOpen(x, fl)
  <2>1. vop_ref_dec(KS(F, Q, O), x) = KS(F, R, O)
    BY DropK DEF Q
  <2>2. OpenNode(r, fl) = [k |-> KS(F, R, O), node |-> NoNode, lost |-> FALSE]
    BY <1>5, <1>7, <2>1 DEF OpenNode
  <2> QED BY <2>2 DEF Q
<1>8. CASE ~(fl.creat /\ fl.excl) /\ MayOpen(x, fl)
  <2> DEFINE O1 == Up(O, x)
  <2>1. vop_open_inc(KS(F, Q, O), x) = KS(F, Q, O1) /\ Sane(Q, O1)
    BY <1>3, <1>4, OpenIncK
  <2> HIDE DEF O1
  <2>2. vop_truncate(KS(F, Q, O1), x, fl) = KS(F, Q, O1)
    <3>1. CASE fl.trunc \/ fl.creat
      <4>1. x \in File
        BY <1>8, <3>1, MayTruncate
      <4>2. Vop(KS(F, Q, O1), x, "truncate") = KS(F, Q, O1)
        BY <1>4, <2>1, <4>1, OpFacts, VopK
      <4> QED BY <4>2 DEF vop_truncate
    <3>2. CASE ~(fl.trunc \/ fl.creat)
      BY <3>2 DEF vop_truncate
    <3> QED BY <3>1, <3>2
  <2>3. OpenNode(r, fl) = [k |-> KS(F, Q, O1), node |-> x, lost |-> FALSE]
    BY <1>5, <1>8, <2>1, <2>2 DEF OpenNode
  <2> QED BY <2>1, <2>3 DEF Q, O1
<1> QED BY <1>6, <1>7, <1>8

(* file_open preserves the invariant, whether it succeeds, fails or loses  *)
(* a reference.                                                            *)
LEMMA FileOpenRefs ==
  ASSUME StdinInv, RefInv, NEW p \in Proc, NEW path, NEW fl, NEW mem,
         file_open(p, path, fl, mem), Calls(p), GoesOn(p), pwd' = pwd, call' = call,
         fl.trunc => fl.acc # "RDONLY",
         fl.creat => \/ Target(p, path) \in File
                     \/ fl.excl /\ Target(p, path) # NoNode
  PROVE  RefInv'
<1> DEFINE F == table[p]
           x == Found(p, path, mem)
           t == Target(p, path)
<1>1. /\ Calls(p) /\ GoesOn(p) /\ pwd' = pwd /\ call' = call
      /\ fl.trunc => fl.acc # "RDONLY"
      /\ fl.creat => t \in File \/ (fl.excl /\ t # NoNode)
  OBVIOUS
<1>2. PICK d \in FreeFd(F) :
        \E r \in {vfs_open(vfs_lookup(fd_array_alloc(K(p), d), p, path, mem),
                           p, path, fl, mem)} :
          /\ Result(p, SetEntry(r, d, fl))
          /\ lost' = IF r.lost THEN [lost EXCEPT ![Target(p, path)] = @ + 1] ELSE lost
          /\ \A n \in Node : lost'[n] <= MaxLost
  BY DEF file_open, LowestFd
<1> DEFINE H == SetFd(F, d, Half)
           r == vfs_open(vfs_lookup(fd_array_alloc(K(p), d), p, path, mem), p, path, fl, mem)
<1>3. /\ Result(p, SetEntry(r, d, fl))
      /\ lost' = IF r.lost THEN Up(lost, t) ELSE lost
      /\ \A n \in Node : lost'[n] <= MaxLost
  BY <1>2 DEF Up
<1>4. /\ K(p) = KS(F, Refs, Count) /\ Sane(Refs, Count) /\ F \in [Fd -> EntryT]
      /\ Refs[Root] > 0 /\ pwd[p] \in Dir /\ Refs[pwd[p]] > 0
      /\ table \in Tables /\ lost \in [Node -> Nat] /\ lost \in [Node -> 0..MaxLost]
  <2>1. pc[p] # "free"
    BY <1>1 DEF Calls
  <2> QED BY <2>1, CallFinds DEF RefInv, RefTypes
<1>5. d \in Fd /\ F[d] = None
  BY EntryFree
<1>6. fd_array_alloc(KS(F, Refs, Count), d) = KS(H, Refs, Count)
  BY <1>4, <1>5, AllocK
<1>7. t \in Node \cup {NoNode} /\ x \in {t, NoNode}
  BY <1>4, TargetFacts
<1>8. vfs_lookup(KS(H, Refs, Count), p, path, mem)
        = [k |-> KS(H, Add(Refs, x), Count), node |-> x]
  BY <1>4, LookupK
<1>9. r = vfs_open([k |-> KS(H, Add(Refs, x), Count), node |-> x], p, path, fl, mem)
  BY <1>4, <1>6, <1>8
<1>10. fd_array_free(KS(H, Refs, Count), d) = KS(F, Refs, Count)
  BY <1>4, <1>5, UndoHalf
<1> HIDE DEF r, x
<1>11. CASE x = NoNode
  <2>1. ~(fl.creat /\ (mem \/ path.from \in Device))
    <3> SUFFICES ASSUME fl.creat, mem \/ path.from \in Device PROVE FALSE
      OBVIOUS
    <3>1. t # NoNode
      BY <1>1, NodeFacts
    <3>2. x = t
      BY FoundTarget DEF x
    <3> QED BY <1>11, <3>1, <3>2
  <2>2. r = [k |-> KS(H, Refs, Count), node |-> NoNode, lost |-> FALSE]
    <3>1. Add(Refs, x) = Refs
      BY <1>11 DEF Add
    <3>2. r = NotFound([k |-> KS(H, Refs, Count), node |-> NoNode], p, path, fl, mem)
      BY <1>9, <1>11, <3>1 DEF vfs_open
    <3> QED BY <2>1, <3>2 DEF NotFound
  <2>3. SetEntry(r, d, fl) = KS(F, Refs, Count)
    BY <1>10, <2>2 DEF SetEntry
  <2>4. lost' = lost
    BY <1>3, <2>2
  <2> QED BY <1>1, <1>3, <2>3, <2>4, NothingChanged
<1>12. CASE x # NoNode
  <2>1. x \in Node /\ x = t
    BY <1>7, <1>12
  <2>2. r = OpenNode([k |-> KS(H, Up(Refs, x), Count), node |-> x], fl)
    <3>1. Add(Refs, x) = Up(Refs, x)
      BY <1>12 DEF Add
    <3> QED BY <1>9, <1>12, <3>1 DEF vfs_open
  <2>3. fl.creat => x \in File \/ fl.excl
    BY <1>1, <2>1
  <2> HIDE DEF H
  <2>4. \/ /\ fl.creat /\ fl.excl
           /\ r = [k |-> KS(H, Up(Refs, x), Count), node |-> NoNode, lost |-> TRUE]
        \/ r = [k |-> KS(H, Refs, Count), node |-> NoNode, lost |-> FALSE]
        \/ /\ r = [k |-> KS(H, Up(Refs, x), Up(Count, x)), node |-> x, lost |-> FALSE]
           /\ Sane(Up(Refs, x), Up(Count, x))
    BY <1>1, <1>4, <2>1, <2>2, <2>3, OpenNodeK
  <2>5. CASE r = [k |-> KS(H, Up(Refs, x), Count), node |-> NoNode, lost |-> TRUE]
    <3>1. SetEntry(r, d, fl) = KS(F, Up(Refs, x), Count)
      BY <1>4, <1>5, <2>5, UndoHalf DEF SetEntry, H
    <3>2. lost' = Up(lost, x)
      BY <1>3, <2>1, <2>5
    <3>3. lost' \in [Node -> 0..MaxLost]
      <4>1. Up(lost, x) \in [Node -> Nat]
        BY <1>4, <2>1, UpDn
      <4>2. lost' \in [Node -> Nat]
        BY <3>2, <4>1
      <4> QED BY <1>3, <4>2, FdFacts
    <3>4. RefsOf(table, pwd, Up(lost, x)) = Up(RefsOf(table, pwd, lost), x)
      BY <1>4, <2>1, LoseRef
    <3>5. Row(table, p, F) = table
      BY <1>4 DEF Row, Tables
    <3>6. RowOK(F, NFd)
      BY <1>1, CallFinds, Returns
    <3>7. Result(p, KS(F, Up(Refs, x), Count))
      BY <1>3, <3>1
    <3> QED BY <1>1, <3>2, <3>3, <3>4, <3>5, <3>6, <3>7, CallReturns DEF Refs, Count
  <2>6. CASE r = [k |-> KS(H, Refs, Count), node |-> NoNode, lost |-> FALSE]
    <3>1. SetEntry(r, d, fl) = KS(F, Refs, Count)
      BY <1>10, <2>6 DEF SetEntry, H
    <3>2. lost' = lost
      BY <1>3, <2>6
    <3> QED BY <1>1, <1>3, <3>1, <3>2, NothingChanged
  <2>7. CASE /\ r = [k |-> KS(H, Up(Refs, x), Up(Count, x)), node |-> x, lost |-> FALSE]
             /\ Sane(Up(Refs, x), Up(Count, x))
    <3> DEFINE Q == Up(Refs, x)
               O == Up(Count, x)
               rd == fl.acc # "WRONLY"
               wr == fl.acc # "RDONLY"
    <3>1. Q[x] > 0
      BY <1>4, <2>1 DEF Sane, Up
    <3>2. Vop(KS(H, Q, O), x, "fstat") = KS(H, Q, O)
      <4> HIDE DEF Q, O
      <4>1. Sane(Q, O)
        BY <2>7 DEF Q, O
      <4> QED BY <2>1, <3>1, <4>1, OpFacts, VopK
    <3>3. SetEntry(r, d, fl) = fd_array_open(KS(H, Q, O), d, x, rd, wr)
      <4>1. r.node = x /\ r.k = KS(H, Q, O)
        BY <2>7
      <4> HIDE DEF Q, O
      <4> QED BY <1>12, <3>2, <4>1 DEF SetEntry
    <3>4. fd_array_open(KS(H, Q, O), d, x, rd, wr)
            = KS(SetFd(F, d, Opened(1, x, rd, wr)), Q, O)
      <4> HIDE DEF Q, O, rd, wr
      <4> QED BY <1>4, <1>5, <2>1, OpenHalf DEF H
    <3>5. rd \in BOOLEAN /\ wr \in BOOLEAN
      OBVIOUS
    <3>6. lost' = lost
      BY <1>3, <2>7
    <3>7. Result(p, KS(SetFd(F, d, Opened(1, x, rd, wr)), Q, O))
      BY <1>3, <3>3, <3>4
    <3> HIDE DEF rd, wr
    <3> QED BY <1>1, <2>1, <3>5, <3>6, <3>7, EntryOpened
  <2> QED BY <2>4, <2>5, <2>6, <2>7
<1> QED BY <1>11, <1>12

(* sys_open preserves the invariant.                                       *)
LEMMA OpenRefs ==
  ASSUME Careful, StdinInv, RefInv, NEW p \in Proc, NEW path, NEW fl, NEW mem,
         Open(p, path, fl, mem)
  PROVE  RefInv'
<1>1. /\ Calls(p) /\ GoesOn(p) /\ pwd' = pwd /\ call' = call
      /\ file_open(p, path, fl, mem)
      /\ fl.trunc => fl.acc # "RDONLY"
      /\ fl.creat => \/ Target(p, path) \in File
                     \/ fl.excl /\ Target(p, path) # NoNode
  BY SysCalls DEF Open, stdin
<1> QED BY <1>1, FileOpenRefs

(* So do the opens of user_main.                                           *)
LEMMA OpenStdRefs ==
  ASSUME StdinInv, RefInv, NEW p \in Proc, NEW dev, OpenStd(p, dev)
  PROVE  RefInv'
<1> DEFINE path == [from |-> dev, name |-> ""]
           fl == Plain(IF dev = Stdin THEN "RDONLY" ELSE "WRONLY")
           yes == TRUE
<1>1. /\ pc[p] = "thread" /\ oops = "no" /\ pc' = pc /\ pwd' = pwd /\ call' = call
      /\ file_open(p, path, fl, yes)
  BY DEF OpenStd, InThread, stdin
<1>2. pc' = [pc EXCEPT ![p] = "thread"]
  BY <1>1, StdinFacts
<1>3. Calls(p) /\ GoesOn(p)
  BY <1>1, <1>2 DEF Calls, GoesOn
<1>4. ~fl.trunc /\ ~fl.creat
  BY DEF Plain
<1> HIDE DEF path, fl, yes
<1> QED BY <1>1, <1>3, <1>4, FileOpenRefs

(* A program that user_main finds is a file.                               *)
LEMMA ProgramFound ==
  ASSUME NEW p, NEW f \in File
  PROVE  Target(p, [from |-> "cwd", name |-> f]) \in File \cup {NoNode}
<1>1. f # "." /\ f # ".." /\ f # ""
  BY NameAssumption, Zenon
<1>2. "cwd" \notin Device
  BY FilesAssumption, Zenon
<1> DEFINE path == [from |-> "cwd", name |-> f]
<1>3. path.from = "cwd" /\ path.name = f
  OBVIOUS
<1> HIDE DEF path
<1>4. Target(p, path) = Entry(StartOf(p, "cwd"), f)
  BY <1>1, <1>2, <1>3, Zenon DEF Target
<1>5. \A dir : Entry(dir, f) \in File \cup {NoNode}
  BY <1>1 DEF Entry
<1> QED BY <1>4, <1>5 DEF path

(* The file of a program, opened in a free entry, read and closed: all is  *)
(* as it was.                                                              *)
LEMMA ProgramK ==
  ASSUME NEW F \in [Fd -> EntryT], NEW d \in Fd, F[d] = None, NEW f \in File,
         NEW R, NEW O, Sane(R, O), Sane(Up(R, f), Up(O, f)), NEW r,
         r = [k |-> KS(SetFd(F, d, Half), Up(R, f), Up(O, f)), node |-> f, lost |-> FALSE]
  PROVE  LoadAndClose(r, d) = KS(F, R, O)
<1> DEFINE fl == Plain("RDONLY")
           rd == fl.acc # "WRONLY"
           wr == fl.acc # "RDONLY"
           H == SetFd(F, d, Half)
           e == Opened(1, f, rd, wr)
           G == SetFd(F, d, e)
           Q == Up(R, f)
           P == Up(O, f)
<1>1. f \in Node /\ f \notin Device /\ f \notin Dir /\ f # NoNode
  BY NodeFacts
<1>2. rd \in BOOLEAN /\ wr \in BOOLEAN /\ ~fl.append
  BY DEF Plain
<1>3. /\ Q[f] = R[f] + 1 /\ R[f] \in Nat /\ O[f] \in Nat
      /\ P[f] = O[f] + 1 /\ Dn(Q, f) = R /\ Dn(P, f) = O
  BY <1>1, UpDn DEF Sane
<1>4. Q[f] > 0 /\ P[f] > 0
  <2> HIDE DEF Q, P
  <2> QED BY <1>3
<1>5. r.k = KS(H, Q, P) /\ r.node = f /\ Sane(Q, P)
  OBVIOUS
<1> HIDE DEF Q, P, fl
<1>6. SetEntry(r, d, fl) = fd_array_open(KS(H, Q, P), d, f, rd, wr)
  BY <1>1, <1>2, <1>5 DEF SetEntry
<1>7. fd_array_open(KS(H, Q, P), d, f, rd, wr) = KS(G, Q, P)
  <2> HIDE DEF rd, wr
  <2> QED BY <1>1, OpenHalf
<1> HIDE DEF rd, wr
<1>8. e \in EntryT /\ e.status = "OPENED" /\ e.count = 1 /\ e.node = f
  <2>1. e \in EntryT
    BY <1>1, <1>2, OpenedFacts
  <2> QED BY <2>1 DEF Opened
<1> HIDE DEF e, H
<1>9. G \in [Fd -> EntryT] /\ G[d] = e /\ SetFd(G, d, None) = F
  <2>1. G \in [Fd -> EntryT] /\ G[d] = e
    BY <1>8, SetType
  <2>2. SetFd(G, d, None) = F
    BY SetTwice
  <2> QED BY <2>1, <2>2
<1> HIDE DEF G
<1>10. Vop(KS(G, Q, P), f, "read") = KS(G, Q, P)
  BY <1>1, <1>4, <1>5, OpFacts, VopK
<1>11. fd_array_close(KS(G, Q, P), d) = KS(SetFd(G, d, None), Dn(Q, f), Dn(P, f))
  <2>1. G[d].status = "OPENED" /\ G[d].count = 1 /\ G[d].node = f
    BY <1>8, <1>9
  <2> QED BY <1>1, <1>4, <1>5, <1>9, <2>1, CloseK
<1> QED BY <1>3, <1>5, <1>6, <1>7, <1>9, <1>10, <1>11 DEF LoadAndClose, fl

(* kernel_execve leaves the counts as they were, whether user_main gets a  *)
(* program or panics.                                                      *)
LEMMA ExecRefs ==
  ASSUME StdinInv, RefInv, NEW p \in Proc, NEW f \in File, NEW mem, Exec(p, f, mem)
  PROVE  RefInv'
<1> DEFINE F == table[p]
           path == [from |-> "cwd", name |-> f]
           fl == Plain("RDONLY")
           x == Found(p, path, mem)
<1>1. /\ pwd' = pwd /\ call' = call /\ lost' = lost /\ pc[p] = "thread" /\ oops = "no"
  BY DEF Exec, InThread, stdin
<1>2. PICK d \in FreeFd(F) :
        \E r \in {vfs_open(vfs_lookup(fd_array_alloc(K(p), d), p, path, mem),
                           p, path, fl, mem)} :
          \/ /\ r.node = NoNode
             /\ Result(p, fd_array_free(r.k, d))
             /\ pc' = [pc EXCEPT ![p] = "panic"]
          \/ /\ r.node # NoNode
             /\ Result(p, LoadAndClose(r, d))
             /\ \E end \in {"user", "panic"} : pc' = [pc EXCEPT ![p] = end]
  BY DEF Exec, LowestFd
<1> DEFINE H == SetFd(F, d, Half)
           r == vfs_open(vfs_lookup(fd_array_alloc(K(p), d), p, path, mem), p, path, fl, mem)
<1>3. /\ r.node = NoNode => Result(p, fd_array_free(r.k, d))
      /\ r.node # NoNode => Result(p, LoadAndClose(r, d))
  BY <1>2
<1>4. Calls(p) /\ GoesOn(p)
  BY <1>1, <1>2 DEF Calls, GoesOn
<1>5. /\ K(p) = KS(F, Refs, Count) /\ Sane(Refs, Count) /\ F \in [Fd -> EntryT]
      /\ Refs[Root] > 0 /\ pwd[p] \in Dir /\ Refs[pwd[p]] > 0
  <2>1. pc[p] # "free"
    BY <1>1
  <2> QED BY <2>1, CallFinds
<1>6. d \in Fd /\ F[d] = None
  BY EntryFree
<1>7. fd_array_alloc(KS(F, Refs, Count), d) = KS(H, Refs, Count)
  BY <1>5, <1>6, AllocK
<1>8. x \in File \cup {NoNode}
  BY <1>5, ProgramFound, TargetFacts
<1>9. ~fl.creat /\ ~fl.trunc
  BY DEF Plain
<1> HIDE DEF path, fl
<1>10. vfs_lookup(KS(H, Refs, Count), p, path, mem)
         = [k |-> KS(H, Add(Refs, x), Count), node |-> x]
  BY <1>5, LookupK
<1>11. r = vfs_open([k |-> KS(H, Add(Refs, x), Count), node |-> x], p, path, fl, mem)
  BY <1>5, <1>7, <1>10
<1>12. fd_array_free(KS(H, Refs, Count), d) = KS(F, Refs, Count)
  BY <1>5, <1>6, UndoHalf
<1> HIDE DEF r, x
<1>13. CASE x = NoNode
  <2>1. Add(Refs, x) = Refs
    BY <1>13 DEF Add
  <2>2. r = NotFound([k |-> KS(H, Refs, Count), node |-> NoNode], p, path, fl, mem)
    BY <1>11, <1>13, <2>1 DEF vfs_open
  <2>3. r = [k |-> KS(H, Refs, Count), node |-> NoNode, lost |-> FALSE]
    BY <1>9, <2>2 DEF NotFound
  <2>4. Result(p, KS(F, Refs, Count))
    BY <1>3, <1>12, <2>3
  <2> QED BY <1>1, <1>4, <2>4, NothingChanged
<1>14. CASE x # NoNode
  <2>1. x \in File /\ x \in Node
    BY <1>8, <1>14, NodeFacts
  <2>2. r = OpenNode([k |-> KS(H, Up(Refs, x), Count), node |-> x], fl)
    <3>1. Add(Refs, x) = Up(Refs, x)
      BY <1>14 DEF Add
    <3> QED BY <1>11, <1>14, <3>1 DEF vfs_open
  <2>3. \/ r = [k |-> KS(H, Refs, Count), node |-> NoNode, lost |-> FALSE]
        \/ /\ r = [k |-> KS(H, Up(Refs, x), Up(Count, x)), node |-> x, lost |-> FALSE]
           /\ Sane(Up(Refs, x), Up(Count, x))
    <3>1. (fl.trunc => fl.acc # "RDONLY") /\ (fl.creat => x \in File \/ fl.excl)
      BY <1>9
    <3> HIDE DEF H
    <3>2. \/ /\ fl.creat /\ fl.excl
             /\ r = [k |-> KS(H, Up(Refs, x), Count), node |-> NoNode, lost |-> TRUE]
          \/ r = [k |-> KS(H, Refs, Count), node |-> NoNode, lost |-> FALSE]
          \/ /\ r = [k |-> KS(H, Up(Refs, x), Up(Count, x)), node |-> x, lost |-> FALSE]
             /\ Sane(Up(Refs, x), Up(Count, x))
      BY <1>5, <2>1, <2>2, <3>1, OpenNodeK
    <3> QED BY <1>9, <3>2
  <2>4. CASE r = [k |-> KS(H, Refs, Count), node |-> NoNode, lost |-> FALSE]
    <3>1. Result(p, KS(F, Refs, Count))
      BY <1>3, <1>12, <2>4
    <3> QED BY <1>1, <1>4, <3>1, NothingChanged
  <2>5. CASE /\ r = [k |-> KS(H, Up(Refs, x), Up(Count, x)), node |-> x, lost |-> FALSE]
             /\ Sane(Up(Refs, x), Up(Count, x))
    <3>1. LoadAndClose(r, d) = KS(F, Refs, Count)
      BY <1>5, <1>6, <2>1, <2>5, ProgramK
    <3>2. r.node # NoNode
      BY <1>14, <2>5
    <3>3. Result(p, KS(F, Refs, Count))
      BY <1>3, <3>1, <3>2
    <3> QED BY <1>1, <1>4, <3>3, NothingChanged
  <2> QED BY <2>3, <2>4, <2>5
<1> QED BY <1>13, <1>14

(* A call that opens nothing: an exec that copy_path refuses, and          *)
(* user_main's panic.                                                      *)
LEMMA NothingOpened ==
  ASSUME StdinInv, RefInv, NEW p \in Proc, ExecRefused(p) \/ ThreadFails(p)
  PROVE  RefInv'
<1>1. /\ Calls(p) /\ GoesOn(p)
  <2>1. CASE ExecRefused(p)
    BY <2>1, SysCalls DEF ExecRefused
  <2>2. CASE ThreadFails(p)
    BY <2>2 DEF ThreadFails, InThread, Calls, GoesOn
  <2> QED BY <2>1, <2>2
<1>2. /\ node' = node /\ table' = table /\ oops' = oops /\ pwd' = pwd
      /\ call' = call /\ lost' = lost
  BY DEF ExecRefused, ThreadFails, stdin
<1>3. K(p) = KS(table[p], Refs, Count) /\ table \in Tables
  BY CallFinds
<1>4. Result(p, K(p))
  BY <1>2, <1>3 DEF Result, K, Tables
<1> QED BY <1>1, <1>2, <1>3, <1>4, NothingChanged

(* A system call that ends in another directory.                           *)
LEMMA CallMoves ==
  ASSUME StdinInv, RefInv, NEW p \in Proc, Calls(p), GoesOn(p), call' = call, lost' = lost,
         NEW x \in Dir, pwd' = SetHome(pwd, p, x), x # pwd[p],
         Result(p, KS(table[p], Dn(Up(Refs, x), pwd[p]), Count))
  PROVE  RefInv'
<1>1. /\ Busy(p) = NFd /\ Busy(p)' = NFd /\ pc[p] # "free" /\ pc'[p] # "free"
      /\ \A q \in Proc : q # p => /\ Busy(q)' = Busy(q)
                                  /\ pc'[q] = "free" <=> pc[q] = "free"
  BY Returns
<1>2. /\ pwd \in [Proc -> Dir \cup {NoNode}] /\ pwd[p] \in Node /\ table \in Tables
      /\ lost \in [Node -> Nat] /\ RowOK(table[p], NFd) /\ x \in Node /\ x # NoNode
  BY <1>1, CallFinds, NodeFacts
<1>3. /\ pwd' \in [Proc -> Dir \cup {NoNode}] /\ pwd'[p] = x
      /\ \A q \in Proc : q # p => pwd'[q] = pwd[q]
  BY <1>2 DEF SetHome
<1>4. /\ table' = Row(table, p, table[p]) /\ oops' = "no"
      /\ node' = Nodes(Dn(Up(Refs, x), pwd[p]), Count)
  BY DEF Result, KS, Row
<1>5. Row(table, p, table[p]) = table
  BY <1>2 DEF Row, Tables
<1>6. RefsOf(table, SetHome(pwd, p, x), lost) = Dn(Up(RefsOf(table, pwd, lost), x), pwd[p])
  BY <1>2, MoveHome
<1>7. node' = Nodes(RefsOf(table', pwd', lost'), OpensOf(table'))
  BY <1>4, <1>5, <1>6 DEF Refs, Count
<1>8. lost' \in [Node -> 0..MaxLost]
  BY DEF RefInv, RefTypes
<1> QED BY <1>1, <1>2, <1>3, <1>4, <1>7, <1>8, Concludes

(* sys_chdir preserves the invariant.                                      *)
LEMMA ChdirRefs ==
  ASSUME StdinInv, RefInv, NEW p \in Proc, NEW path, NEW mem, Chdir(p, path, mem)
  PROVE  RefInv'
<1> DEFINE F == table[p]
           x == Found(p, path, mem)
           old == pwd[p]
           r == vfs_lookup(K(p), p, path, mem)
           R == Up(Refs, x)
<1>1. /\ Calls(p) /\ GoesOn(p) /\ call' = call /\ lost' = lost
      /\ Result(p, IF r.node = NoNode THEN r.k
                   ELSE vop_ref_dec(vfs_set_curdir(r.k, pwd[p], r.node), r.node))
      /\ pwd' = IF r.node \in Dir THEN SetHome(pwd, p, r.node) ELSE pwd
  BY SysCalls DEF Chdir, stdin, SetHome
<1>2. /\ K(p) = KS(F, Refs, Count) /\ Sane(Refs, Count)
      /\ Refs[Root] > 0 /\ old \in Dir /\ old \in Node /\ old \notin Device
      /\ Refs[old] > 0 /\ Refs[old] > Count[old]
      /\ pwd \in [Proc -> Dir \cup {NoNode}]
  <2>1. pc[p] # "free"
    BY <1>1 DEF Calls
  <2> QED BY <2>1, CallFinds, NodeFacts
<1>3. x \in Node \cup {NoNode} /\ NoNode \notin Node /\ NoNode \notin Dir
  BY <1>2, TargetFacts, NodeFacts
<1>4. r = [k |-> KS(F, Add(Refs, x), Count), node |-> x]
  BY <1>2, LookupK
<1> HIDE DEF r, x
<1>5. CASE x = NoNode
  <2>1. r.node = NoNode /\ r.k = KS(F, Refs, Count)
    BY <1>4, <1>5 DEF Add
  <2> QED BY <1>1, <1>3, <2>1, NothingChanged
<1>6. CASE x # NoNode
  <2>1. x \in Node /\ r.node = x /\ r.k = KS(F, R, Count)
    BY <1>3, <1>4, <1>6 DEF Add
  <2>2. /\ Refs \in [Node -> Nat] /\ R \in [Node -> Nat] /\ R[x] = Refs[x] + 1
        /\ Refs[x] \in Nat /\ Count[x] \in Nat /\ Count[x] <= Refs[x]
    BY <1>2, <2>1, UpDn DEF Sane
  <2>3. Sane(R, Count)
    BY <1>2, <2>1 DEF Sane, Up
  <2>4. Vop(KS(F, R, Count), x, "gettype") = KS(F, R, Count)
    <3>1. R[x] > 0
      <4> HIDE DEF R
      <4> QED BY <2>2
    <3> HIDE DEF R
    <3> QED BY <2>1, <2>3, <3>1, OpFacts, VopK
  <2>5. vop_ref_dec(KS(F, R, Count), x) = KS(F, Refs, Count)
    BY <1>2, <2>1, DropK
  <2>6. CASE x = old \/ x \notin Dir
    <3>1. vfs_set_curdir(KS(F, R, Count), old, x) = KS(F, R, Count)
      BY <2>4, <2>6 DEF vfs_set_curdir
    <3>2. Result(p, KS(F, Refs, Count))
      BY <1>1, <1>6, <2>1, <2>5, <3>1
    <3>3. pwd' = pwd
      BY <1>1, <1>2, <2>1, <2>6 DEF SetHome
    <3> QED BY <1>1, <3>2, <3>3, NothingChanged
  <2>7. CASE x # old /\ x \in Dir
    <3> DEFINE Q == Dn(R, old)
    <3>1. Sane(Q, Count) /\ R[old] = Refs[old]
      BY <1>2, <2>1, <2>2, <2>7 DEF Sane, Up, Dn
    <3>2. Dn(Up(R, x), old) = Up(Q, x) /\ Up(R, x)[old] = Refs[old] /\ Sane(Up(R, x), Count)
      <4>1. Up(R, x)[old] = R[old]
        BY <1>2, <2>1, <2>2, <2>7 DEF Up
      <4>2. Dn(Up(R, x), old) = Up(Q, x)
        <5> HIDE DEF R
        <5> QED BY <1>2, <2>1, <2>2, <2>7 DEF Up, Dn
      <4>3. Sane(Up(R, x), Count)
        <5> HIDE DEF R
        <5> QED BY <2>1, <2>3 DEF Sane, Up
      <4> QED BY <3>1, <4>1, <4>2, <4>3
    <3>3. vop_ref_inc(KS(F, R, Count), x) = KS(F, Up(R, x), Count)
      <4>1. R[x] > 0
        <5> HIDE DEF R
        <5> QED BY <2>2
      <4> HIDE DEF R
      <4> QED BY <2>1, <2>3, <4>1, RefIncK
    <3>4. vop_ref_dec(KS(F, Up(R, x), Count), old) = KS(F, Up(Q, x), Count)
      <4>1. Count[old] < Up(R, x)[old]
        BY <1>2, <3>2
      <4> HIDE DEF R, Q
      <4>2. /\ vop_ref_dec(KS(F, Up(R, x), Count), old) = KS(F, Dn(Up(R, x), old), Count)
        BY <1>2, <3>2, <4>1, RefDecK
      <4> QED BY <3>2, <4>2
    <3>5. vop_ref_dec(KS(F, Up(Q, x), Count), x) = KS(F, Q, Count)
      <4> HIDE DEF Q
      <4> QED BY <2>1, <3>1, DropK
    <3>6. vfs_set_curdir(KS(F, R, Count), old, x) = KS(F, Up(Q, x), Count)
      BY <2>4, <2>7, <3>3, <3>4 DEF vfs_set_curdir
    <3>7. Result(p, KS(F, Q, Count))
      BY <1>1, <1>6, <2>1, <3>5, <3>6
    <3>8. pwd' = SetHome(pwd, p, x)
      BY <1>1, <2>1, <2>7
    <3> QED BY <1>1, <2>7, <3>7, <3>8, CallMoves
  <2> QED BY <2>6, <2>7
<1> QED BY <1>5, <1>6

(* A turn of sfs_namefile exchanges a reference to n for one to its parent.*)
LEMMA NameUpK ==
  ASSUME NEW F, NEW Q, NEW O, Sane(Q, O), NEW n \in Dir
  PROVE  NameUp(KS(F, Up(Q, n), O), n) = KS(F, Up(Q, Root), O) /\ Sane(Up(Q, Root), O)
<1>1. n \in Node /\ n \notin Device /\ Root \in Node /\ Root \notin Device
  BY NodeFacts
<1>2. Sane(Up(Q, n), O) /\ Sane(Up(Q, Root), O) /\ Q \in [Node -> Nat]
  BY <1>1, LoadK DEF Sane
<1>3. sfs_load_inode(KS(F, Up(Q, n), O), Root) = KS(F, Up(Up(Q, n), Root), O)
  BY <1>1, <1>2, LoadK
<1>4. Up(Up(Q, n), Root) = Up(Up(Q, Root), n)
  BY <1>1, <1>2, UpDn
<1>5. vop_ref_dec(KS(F, Up(Up(Q, Root), n), O), n) = KS(F, Up(Q, Root), O)
  BY <1>1, <1>2, DropK
<1> QED BY <1>2, <1>3, <1>4, <1>5 DEF NameUp

(* sys_getcwd preserves the invariant.                                     *)
LEMMA GetcwdRefs ==
  ASSUME StdinInv, RefInv, NEW p \in Proc, NEW fits, Getcwd(p, fits)
  PROVE  RefInv'
<1> DEFINE F == table[p]
           n == pwd[p]
           Q == Up(Refs, n)
<1>1. /\ Calls(p) /\ GoesOn(p) /\ call' = call /\ lost' = lost /\ pwd' = pwd
      /\ Result(p, vop_ref_dec(sfs_namefile(Vop(vop_ref_inc(K(p), n), n, "namefile"),
                                            n, fits), n))
  BY SysCalls DEF Getcwd, stdin
<1>2. /\ K(p) = KS(F, Refs, Count) /\ Sane(Refs, Count) /\ n \in Dir /\ n \in Node
      /\ Refs[n] > 0 /\ Root \in Dir /\ Root \in Node
  <2>1. pc[p] # "free"
    BY <1>1 DEF Calls
  <2> QED BY <2>1, CallFinds, NodeFacts
<1>3. vop_ref_inc(KS(F, Refs, Count), n) = KS(F, Q, Count) /\ Sane(Q, Count)
  BY <1>2, RefIncK
<1>4. Q[n] > 0
  BY <1>2 DEF Sane, Up
<1>5. vop_ref_dec(KS(F, Q, Count), n) = KS(F, Refs, Count)
  BY <1>2, DropK
<1> HIDE DEF Q
<1>6. Vop(KS(F, Q, Count), n, "namefile") = KS(F, Q, Count)
  BY <1>2, <1>3, <1>4, OpFacts, VopK
<1>7. vop_ref_inc(KS(F, Q, Count), n) = KS(F, Up(Q, n), Count)
  BY <1>2, <1>3, <1>4, RefIncK
<1>8. NameUp(KS(F, Up(Q, n), Count), n) = KS(F, Up(Q, Root), Count)
  BY <1>2, <1>3, NameUpK
<1>9. NameUp(KS(F, Up(Q, Root), Count), Root) = KS(F, Up(Q, Root), Count)
  BY <1>2, <1>3, NameUpK
<1>10. vop_ref_dec(KS(F, Up(Q, Root), Count), Root) = KS(F, Q, Count)
  BY <1>2, <1>3, DropK
<1>11. sfs_namefile(KS(F, Q, Count), n, fits) = KS(F, Q, Count)
  <2>1. CASE n = Root \/ ~fits
    BY <1>7, <1>8, <1>10, <2>1 DEF sfs_namefile
  <2>2. CASE ~(n = Root \/ ~fits)
    BY <1>7, <1>8, <1>9, <1>10, <2>2 DEF sfs_namefile
  <2> QED BY <2>1, <2>2
<1>12. Result(p, KS(F, Refs, Count))
  BY <1>1, <1>2, <1>3, <1>5, <1>6, <1>11
<1> QED BY <1>1, <1>12, NothingChanged

-----------------------------------------------------------------------------
(* The console.                                                            *)

(* Entry e in use c times.                                                 *)
With(e, c) == [e EXCEPT !.count = c]

(* The use count of an entry does not change where it points.              *)
LEMMA WithFacts ==
  ASSUME NEW e \in EntryT, e.status = "OPENED", e.node \in Node, NEW c \in Nat
  PROVE  /\ With(e, c) \in EntryT /\ With(e, c).status = "OPENED"
         /\ With(e, c).count = c /\ EntryOK(With(e, c), c)
         /\ \A n \in Node : Counted(With(e, c), n) <=> Counted(e, n)
<1>1. /\ With(e, c) \in EntryT /\ With(e, c).status = "OPENED"
      /\ With(e, c).count = c /\ With(e, c).node = e.node
  BY DEF With, EntryT
<1> QED BY <1>1 DEF EntryOK, Counted

(* A step that leaves inodes and entries alone.                            *)
LEMMA NoEntryChanged ==
  ASSUME RefInv, UNCHANGED <<node, table, pwd, lost, oops>>,
         \A q \in Proc : Busy(q)' = Busy(q) /\ (pc'[q] = "free" <=> pc[q] = "free")
  PROVE  RefInv'
<1>1. RefTypes' /\ oops' = "no" /\ node' = Nodes(Refs', Count')
  BY DEF RefInv, RefTypes, Refs, Count
<1>2. ASSUME NEW q \in Proc
      PROVE  /\ RowOK(table'[q], Busy(q)')
             /\ pc'[q] = "free" <=> pwd'[q] = NoNode
             /\ pc'[q] = "free" => table'[q] = NoTable
  <2>1. RowOK(table[q], Busy(q)) /\ (pc[q] = "free" <=> pwd[q] = NoNode)
        /\ (pc[q] = "free" => table[q] = NoTable)
    BY DEF RefInv
  <2> QED BY <2>1
<1> QED BY <1>1, <1>2 DEF RefInv

(* A read of stdin begins to use entry d of p, or no longer does.          *)
LEMMA EntryUsed ==
  ASSUME RefInv, NEW p \in Proc, NEW d \in Fd, table[p][d].status = "OPENED",
         NEW c \in {1, 2}, Busy(p) \in {d, NFd}, Busy(p)' = IF c = 2 THEN d ELSE NFd,
         Result(p, KS(SetFd(table[p], d, With(table[p][d], c)), Refs, Count)),
         UNCHANGED <<pwd, lost>>, pc[p] # "free", pc'[p] # "free",
         \A q \in Proc : q # p => Busy(q)' = Busy(q) /\ (pc'[q] = "free" <=> pc[q] = "free")
  PROVE  RefInv'
<1> DEFINE F == table[p]
           e == With(F[d], c)
           G == SetFd(F, d, e)
<1>1. /\ RowOK(F, Busy(p)) /\ table \in Tables /\ lost \in [Node -> Nat]
      /\ F \in [Fd -> EntryT] /\ pwd \in [Proc -> Dir \cup {NoNode}] /\ pwd[p] # NoNode
      /\ NFd \notin Fd
  BY CallFinds, FdFacts, NodeFacts
<1>2. F[d] \in EntryT /\ F[d].node \in Node
  BY EntryHolds
<1>3. /\ e \in EntryT /\ e.status = "OPENED" /\ EntryOK(e, c)
      /\ \A n \in Node : Counted(e, n) <=> Counted(F[d], n)
  BY <1>2, WithFacts
<1> HIDE DEF e
<1>4. RowOK(G, Busy(p)')
  <2>1. G \in [Fd -> EntryT] /\ G[d] = e /\ \A g \in Fd : g # d => G[g] = F[g]
    BY <1>1, <1>3 DEF SetFd
  <2>2. ASSUME NEW g \in Fd, g # d
        PROVE  EntryOK(G[g], IF g = Busy(p)' THEN 2 ELSE 1)
    <3>1. g # NFd
      BY <1>1
    <3>2. g # Busy(p) /\ g # Busy(p)'
      BY <2>2, <3>1
    <3> QED BY <1>1, <2>1, <2>2, <3>2 DEF RowOK
  <2>3. EntryOK(G[d], IF d = Busy(p)' THEN 2 ELSE 1)
    <3>1. d # NFd
      BY <1>1
    <3> QED BY <1>3, <2>1, <3>1
  <2>4. Busy(p)' \in Fd => G[Busy(p)'].status = "OPENED"
    BY <1>1, <1>3, <2>1
  <2> HIDE DEF G
  <2> QED BY <2>1, <2>2, <2>3, <2>4 DEF RowOK
<1>5. Row(table, p, G) = SetEnt(table, p, d, e)
  BY DEF SetEnt
<1>6. /\ OpensOf(SetEnt(table, p, d, e)) = OpensOf(table)
      /\ RefsOf(SetEnt(table, p, d, e), pwd, lost) = RefsOf(table, pwd, lost)
  BY <1>1, <1>3, SameEntry
<1>7. table' = Row(table, p, G) /\ oops' = "no" /\ node' = Nodes(Refs, Count)
  BY DEF Result, KS, Row, e
<1>8. node' = Nodes(RefsOf(table', pwd', lost'), OpensOf(table'))
  BY <1>5, <1>6, <1>7 DEF Refs, Count
<1>9. lost' \in [Node -> 0..MaxLost]
  BY DEF RefInv, RefTypes
<1> HIDE DEF G
<1> QED BY <1>1, <1>4, <1>7, <1>8, <1>9, Concludes

(* do_kill preserves the invariant.                                        *)
LEMMA KillRefs ==
  ASSUME StdinInv, RefInv, NEW p \in Proc, Kill(p)
  PROVE  RefInv'
<1>1. /\ UNCHANGED <<node, table, pwd, lost, oops, pc>>
      /\ call' = [call EXCEPT ![p].awake = TRUE]
  BY DEF Kill
<1>2. ASSUME NEW q \in Proc
      PROVE  call'[q].d = call[q].d
  BY <1>1, StdinFacts
<1> QED BY <1>1, <1>2, NoEntryChanged DEF Busy

(* dev_stdin_write preserves the invariant.                                *)
LEMMA KeyRefs ==
  ASSUME StdinInv, RefInv, Key
  PROVE  RefInv'
<1>1. /\ UNCHANGED <<node, table, pwd, lost, oops, pc>>
      /\ call' = WakeKbd(queue, call)
  BY DEF Key, procs
<1>2. ASSUME NEW q \in Proc
      PROVE  call'[q].d = call[q].d
  <2>1. call[q] \in [d : Fd, left : 0..MaxLen, flags : {"INT", "KBD"}, awake : BOOLEAN]
    BY StdinFacts
  <2>2. call'[q] = IF q \in ToSet(queue)
                   THEN [call[q] EXCEPT !.flags = "KBD", !.awake = TRUE] ELSE call[q]
    BY <1>1, Zenon DEF WakeKbd
  <2> QED BY <2>1, <2>2
<1> QED BY <1>1, <1>2, NoEntryChanged DEF Busy

(* A read that ends, with or without having slept.                         *)
LEMMA ReadEnds ==
  ASSUME StdinInv, RefInv, NEW p \in Proc, NEW d \in Fd, table[p][d].status = "OPENED",
         pc[p] = "user" \/ (pc[p] = "kbd" /\ call[p].d = d),
         Result(p, fd_array_release([K(p) EXCEPT !.fd[d].count =
                                       IF pc[p] = "user" THEN @ + 1 ELSE @], d)),
         call' = [call EXCEPT ![p] = NoCall], Back(p), UNCHANGED <<pwd, lost>>
  PROVE  RefInv'
<1> DEFINE F == table[p]
           e == F[d]
<1>1. /\ K(p) = KS(F, Refs, Count) /\ F \in [Fd -> EntryT]
  BY CallFinds
<1>2. /\ e \in EntryT /\ e.node \in Node /\ e.count = IF d = Busy(p) THEN 2 ELSE 1
  BY EntryHolds
<1>3. /\ pc \in [Proc -> {"free", "thread", "panic", "user", "kbd", "dying"}]
      /\ call \in [Proc -> [d : Fd, left : 0..MaxLen, flags : {"INT", "KBD"}, awake : BOOLEAN]]
  BY StdinFacts
<1>4. /\ pc'[p] \in {"user", "dying"}
      /\ \A q \in Proc : q # p => pc'[q] = pc[q] /\ call'[q] = call[q]
  BY <1>3 DEF Back
<1>5. /\ Busy(p)' = NFd /\ NFd # d
      /\ \A q \in Proc : q # p => Busy(q)' = Busy(q) /\ (pc'[q] = "free" <=> pc[q] = "free")
  BY <1>4, FdFacts DEF Busy
<1> DEFINE k == [KS(F, Refs, Count) EXCEPT !.fd[d].count = IF pc[p] = "user" THEN @ + 1 ELSE @]
<1>6. /\ fd_array_release(k, d) = KS(SetFd(F, d, With(e, 1)), Refs, Count)
      /\ Busy(p) \in {d, NFd}
  <2>1. CASE pc[p] = "user"
    <3>1. Busy(p) = NFd /\ e.count = 1
      BY <1>2, <1>5, <2>1 DEF Busy
    <3>2. k = KS(SetFd(F, d, [F[d] EXCEPT !.count = @ + 1]), Refs, Count)
      BY <1>1, <2>1 DEF KS, SetFd
    <3>3. fd_array_release(KS(SetFd(F, d, [F[d] EXCEPT !.count = @ + 1]), Refs, Count), d)
            = KS(F, Refs, Count)
      BY <1>1, <3>1, AcquireRelease
    <3>4. SetFd(F, d, With(e, 1)) = F
      <4>1. With(e, 1) = e
        BY <1>2, <3>1 DEF With, EntryT
      <4> QED BY <1>1, <4>1, SetTwice
    <3> QED BY <3>1, <3>2, <3>3, <3>4
  <2>2. CASE pc[p] = "kbd" /\ call[p].d = d
    <3>1. Busy(p) = d /\ e.count = 2
      BY <1>2, <2>2 DEF Busy
    <3>2. k = KS(F, Refs, Count)
      <4>1. [F EXCEPT ![d].count = @] = F
        BY <1>1, <1>2 DEF EntryT
      <4>2. k = KS([F EXCEPT ![d].count = @], Refs, Count)
        BY <1>1, <2>2 DEF KS
      <4> QED BY <4>1, <4>2
    <3>3. fd_array_release(KS(F, Refs, Count), d)
            = KS(SetFd(F, d, [F[d] EXCEPT !.count = @ - 1]), Refs, Count)
      BY <1>1, <3>1, ReleaseK
    <3>4. [F[d] EXCEPT !.count = @ - 1] = With(e, 1)
      <4>1. e.count - 1 = 1
        BY <3>1
      <4> QED BY <4>1 DEF With
    <3> QED BY <3>1, <3>2, <3>3, <3>4
  <2> QED BY <2>1, <2>2
<1>7. Result(p, KS(SetFd(F, d, With(e, 1)), Refs, Count))
  BY <1>1, <1>6
<1>8. pc[p] # "free" /\ pc'[p] # "free"
  BY <1>4
<1>9. ASSUME NEW c, c = 1
      PROVE  RefInv'
  <2>1. c \in {1, 2} /\ Busy(p)' = IF c = 2 THEN d ELSE NFd
    BY <1>5, <1>9
  <2> HIDE DEF k
  <2> QED BY <1>5, <1>6, <1>7, <1>8, <1>9, <2>1, EntryUsed
<1> QED BY <1>9

(* A read that goes to sleep, for the first time or again.                 *)
LEMMA ReadSleeps ==
  ASSUME StdinInv, RefInv, NEW p \in Proc, NEW d \in Fd, table[p][d].status = "OPENED",
         pc[p] = "user" \/ (pc[p] = "kbd" /\ call[p].d = d),
         Result(p, IF pc[p] = "user" THEN fd_array_acquire(K(p), d) ELSE K(p)),
         NEW left, call' = [call EXCEPT ![p] = [d |-> d, left |-> left,
                                                flags |-> "INT", awake |-> FALSE]],
         pc' = [pc EXCEPT ![p] = "kbd"], UNCHANGED <<pwd, lost>>
  PROVE  RefInv'
<1> DEFINE F == table[p]
           e == F[d]
<1>1. /\ K(p) = KS(F, Refs, Count) /\ F \in [Fd -> EntryT]
  BY CallFinds
<1>2. /\ e \in EntryT /\ e.node \in Node /\ e.count = IF d = Busy(p) THEN 2 ELSE 1
  BY EntryHolds
<1>3. /\ pc \in [Proc -> {"free", "thread", "panic", "user", "kbd", "dying"}]
      /\ call \in [Proc -> [d : Fd, left : 0..MaxLen, flags : {"INT", "KBD"}, awake : BOOLEAN]]
  BY StdinFacts
<1>4. /\ pc'[p] = "kbd" /\ call'[p].d = d
      /\ \A q \in Proc : q # p => pc'[q] = pc[q] /\ call'[q] = call[q]
  BY <1>3
<1>5. /\ Busy(p)' = d /\ NFd # d
      /\ \A q \in Proc : q # p => Busy(q)' = Busy(q) /\ (pc'[q] = "free" <=> pc[q] = "free")
  BY <1>4, FdFacts DEF Busy
<1>6. /\ Result(p, KS(SetFd(F, d, With(e, 2)), Refs, Count))
      /\ Busy(p) \in {d, NFd}
  <2>1. CASE pc[p] = "user"
    <3>1. Busy(p) = NFd /\ e.count + 1 = 2
      BY <1>2, <1>5, <2>1 DEF Busy
    <3>2. fd_array_acquire(KS(F, Refs, Count), d)
            = KS(SetFd(F, d, [F[d] EXCEPT !.count = @ + 1]), Refs, Count)
      BY <1>1, AcquireK
    <3>3. [F[d] EXCEPT !.count = @ + 1] = With(e, 2)
      BY <3>1 DEF With
    <3> QED BY <1>1, <2>1, <3>1, <3>2, <3>3
  <2>2. CASE pc[p] = "kbd" /\ call[p].d = d
    <3>1. Busy(p) = d /\ e.count = 2
      BY <1>2, <2>2 DEF Busy
    <3>2. SetFd(F, d, With(e, 2)) = F
      <4>1. With(e, 2) = e
        BY <1>2, <3>1 DEF With, EntryT
      <4> QED BY <1>1, <4>1, SetTwice
    <3> QED BY <1>1, <2>2, <3>1, <3>2
  <2> QED BY <2>1, <2>2
<1>8. pc[p] # "free" /\ pc'[p] # "free"
  BY <1>4
<1>9. ASSUME NEW c, c = 2
      PROVE  RefInv'
  <2>1. c \in {1, 2} /\ Busy(p)' = IF c = 2 THEN d ELSE NFd
    BY <1>5, <1>9
  <2> QED BY <1>5, <1>6, <1>8, <1>9, <2>1, EntryUsed
<1> QED BY <1>9

(* A turn of dev_stdin_read preserves the invariant: when it begins ...    *)
LEMMA ReadRefs ==
  ASSUME StdinInv, RefInv, NEW p \in Proc, NEW c, c.d \in Fd,
         table[p][c.d].status = "OPENED",
         pc[p] = "user" \/ (pc[p] = "kbd" /\ call[p].d = c.d),
         ReadOn(p, c), UNCHANGED <<pwd, lost>>
  PROVE  RefInv'
<1>1. PICK n :
        IF n = c.left
        THEN /\ Result(p, fd_array_release([K(p) EXCEPT !.fd[c.d].count =
                                               IF pc[p] = "user" THEN @ + 1 ELSE @], c.d))
             /\ call' = [call EXCEPT ![p] = NoCall]
             /\ Back(p)
        ELSE /\ Result(p, IF pc[p] = "user" THEN fd_array_acquire(K(p), c.d) ELSE K(p))
             /\ call' = [call EXCEPT ![p] = [d |-> c.d, left |-> c.left - n,
                                             flags |-> "INT", awake |-> FALSE]]
             /\ pc' = [pc EXCEPT ![p] = "kbd"]
  BY DEF ReadOn
<1>2. CASE n = c.left
  BY <1>1, <1>2, ReadEnds
<1>3. CASE n # c.left
  BY <1>1, <1>3, ReadSleeps
<1> QED BY <1>2, <1>3

(* ... as a system call ...                                                *)
LEMMA ReadStdinRefs ==
  ASSUME StdinInv, RefInv, NEW p \in Proc, NEW d \in Fd, NEW len, ReadStdin(p, d, len)
  PROVE  RefInv'
<1> DEFINE c == [d |-> d, left |-> len]
<1>1. /\ ReadOn(p, c) /\ pc[p] = "user" /\ c.d = d /\ table[p][d].status = "OPENED"
      /\ UNCHANGED <<pwd, lost>>
  BY DEF ReadStdin, InUser, IsOpen
<1> HIDE DEF c
<1> QED BY <1>1, ReadRefs

(* ... when a character has woken it ...                                   *)
LEMMA ResumeRefs ==
  ASSUME StdinInv, RefInv, NEW p \in Proc, Resume(p)
  PROVE  RefInv'
<1>1. ReadOn(p, call[p]) /\ pc[p] = "kbd" /\ UNCHANGED <<pwd, lost>>
  BY DEF Resume
<1>2. call[p].d \in Fd /\ Busy(p) = call[p].d
  BY <1>1, StdinFacts DEF Busy
<1>3. table[p][call[p].d].status = "OPENED"
  BY <1>2, CallFinds DEF RowOK
<1> QED BY <1>1, <1>2, <1>3, ReadRefs

(* ... and when something else has.                                        *)
LEMMA InterruptedRefs ==
  ASSUME StdinInv, RefInv, NEW p \in Proc, Interrupted(p)
  PROVE  RefInv'
<1> DEFINE F == table[p]
           d == call[p].d
<1>1. /\ pc[p] = "kbd" /\ UNCHANGED <<pwd, lost>> /\ Back(p)
      /\ call' = [call EXCEPT ![p] = NoCall]
      /\ Result(p, fd_array_release(K(p), d))
  BY DEF Interrupted
<1>2. d \in Fd /\ Busy(p) = d
  BY <1>1, StdinFacts DEF Busy
<1>3. F[d].status = "OPENED" /\ F \in [Fd -> EntryT] /\ K(p) = KS(F, Refs, Count)
  BY <1>2, CallFinds DEF RowOK
<1>4. [K(p) EXCEPT !.fd[d].count = IF pc[p] = "user" THEN @ + 1 ELSE @] = K(p)
  <2>1. [F EXCEPT ![d].count = @] = F
    BY <1>2, <1>3 DEF EntryT
  <2>2. [KS(F, Refs, Count) EXCEPT !.fd[d].count = IF pc[p] = "user" THEN @ + 1 ELSE @]
          = KS([F EXCEPT ![d].count = @], Refs, Count)
    BY <1>1 DEF KS
  <2> QED BY <1>3, <2>1, <2>2
<1>5. Result(p, fd_array_release([K(p) EXCEPT !.fd[d].count =
                                    IF pc[p] = "user" THEN @ + 1 ELSE @], d))
  BY <1>1, <1>4
<1> QED BY <1>1, <1>2, <1>3, <1>5, ReadEnds

-----------------------------------------------------------------------------
(* The loops of dup_files and files_destroy.                               *)

(* The values of k in the turns of a loop.                                 *)
DupTurns(g, k, from) ==
  g = [i \in 0..NFd |-> IF i = 0 THEN k ELSE DupEntry(g[i - 1], from, i - 1)]
CloseTurns(g, k, dir) ==
  g = [i \in 0..NFd |-> IF i = 0 THEN vop_ref_dec(k, dir) ELSE CloseEntry(g[i - 1], i - 1)]

(* A loop computes what satisfies its equation.                            *)
LEMMA DupFilesIs ==
  ASSUME NEW k, NEW from, NEW g, DupTurns(g, k, from)
  PROVE  dup_files(k, from) = g[NFd]
<1> DEFINE P(w) == w = [i \in 0..NFd |-> IF i = 0 THEN k ELSE DupEntry(w[i - 1], from, i - 1)]
           h == CHOOSE w : P(w)
<1>1. dup_files(k, from) = h[NFd]
  BY DEF dup_files
<1>2. P(h)
  <2>1. P(g)
    BY DEF DupTurns
  <2> QED BY <2>1
<1> HIDE DEF h
<1>3. NFd \in Nat
  BY FdFacts
<1>4. /\ \A i \in 0..NFd : g[i] = IF i = 0 THEN k ELSE DupEntry(g[i - 1], from, i - 1)
      /\ \A i \in 0..NFd : h[i] = IF i = 0 THEN k ELSE DupEntry(h[i - 1], from, i - 1)
  BY <1>2 DEF DupTurns
<1> DEFINE Bad == {i \in 0..NFd : h[i] # g[i]}
<1>5. Bad = {}
  <2> SUFFICES ASSUME Bad # {} PROVE FALSE
    OBVIOUS
  <2>1. Bad \subseteq Nat
    BY <1>3
  <2>2. PICK m \in Bad : \A j \in Bad : m <= j
    <3> HIDE DEF Bad
    <3> QED BY <2>1, Least
  <2>3. m \in 0..NFd /\ m \in Nat /\ h[m] # g[m]
    BY <1>3
  <2>4. m # 0
    BY <1>4, <2>3
  <2>5. m - 1 \in 0..NFd /\ m - 1 \notin Bad
    BY <1>3, <2>2, <2>3, <2>4
  <2>6. h[m - 1] = g[m - 1]
    BY <2>5
  <2> QED BY <1>4, <2>3, <2>4, <2>6
<1>6. NFd \in 0..NFd
  BY <1>3
<1>7. NFd \notin Bad
  <2> HIDE DEF Bad
  <2> QED BY <1>5
<1> QED BY <1>1, <1>6, <1>7

(* The same for files_destroy.                                             *)
LEMMA FilesDestroyIs ==
  ASSUME NEW k, NEW dir, NEW g, CloseTurns(g, k, dir)
  PROVE  files_destroy(k, dir) = g[NFd]
<1> DEFINE P(w) == w = [i \in 0..NFd |-> IF i = 0 THEN vop_ref_dec(k, dir)
                                         ELSE CloseEntry(w[i - 1], i - 1)]
           h == CHOOSE w : P(w)
<1>1. files_destroy(k, dir) = h[NFd]
  BY DEF files_destroy
<1>2. P(h)
  <2>1. P(g)
    BY DEF CloseTurns
  <2> QED BY <2>1
<1> HIDE DEF h
<1>3. NFd \in Nat
  BY FdFacts
<1>4. /\ \A i \in 0..NFd : g[i] = IF i = 0 THEN vop_ref_dec(k, dir)
                                  ELSE CloseEntry(g[i - 1], i - 1)
      /\ \A i \in 0..NFd : h[i] = IF i = 0 THEN vop_ref_dec(k, dir)
                                  ELSE CloseEntry(h[i - 1], i - 1)
  BY <1>2 DEF CloseTurns
<1> DEFINE Bad == {i \in 0..NFd : h[i] # g[i]}
<1>5. Bad = {}
  <2> SUFFICES ASSUME Bad # {} PROVE FALSE
    OBVIOUS
  <2>1. Bad \subseteq Nat
    BY <1>3
  <2>2. PICK m \in Bad : \A j \in Bad : m <= j
    <3> HIDE DEF Bad
    <3> QED BY <2>1, Least
  <2>3. m \in 0..NFd /\ m \in Nat /\ h[m] # g[m]
    BY <1>3
  <2>4. m # 0
    BY <1>4, <2>3
  <2>5. m - 1 \in 0..NFd /\ m - 1 \notin Bad
    BY <1>3, <2>2, <2>3, <2>4
  <2>6. h[m - 1] = g[m - 1]
    BY <2>5
  <2> QED BY <1>4, <2>3, <2>4, <2>6
<1>6. NFd \in 0..NFd
  BY <1>3
<1>7. NFd \notin Bad
  <2> HIDE DEF Bad
  <2> QED BY <1>5
<1> QED BY <1>1, <1>6, <1>7

(* An fd_array whose first i entries are copied, or closed.                *)
Copy(e)       == IF e.status = "OPENED" THEN Opened(1, e.node, e.rd, e.wr) ELSE None
Copied(F, i)  == [d \in Fd |-> IF d < i THEN Copy(F[d]) ELSE None]
Cleared(F, i) == [d \in Fd |-> IF d < i THEN None ELSE F[d]]

(* A copied entry is in use once.                                          *)
LEMMA CopyFacts ==
  ASSUME NEW e \in EntryT, NEW c, EntryOK(e, c)
  PROVE  Copy(e) \in EntryT /\ EntryOK(Copy(e), 1)
<1>1. CASE e.status = "OPENED"
  <2>1. e # None
    BY <1>1 DEF None
  <2>2. e.node \in Node /\ e.rd \in BOOLEAN /\ e.wr \in BOOLEAN
    BY <2>1 DEF EntryT, EntryOK
  <2>3. Copy(e) = Opened(1, e.node, e.rd, e.wr)
    BY <1>1 DEF Copy
  <2>4. ASSUME NEW a \in BOOLEAN, NEW b \in BOOLEAN
        PROVE  Opened(1, e.node, a, b) \in EntryT /\ EntryOK(Opened(1, e.node, a, b), 1)
    BY <2>2, OpenedFacts
  <2> QED BY <2>2, <2>3, <2>4
<1>2. CASE e.status # "OPENED"
  BY <1>2, NoneFacts DEF Copy
<1> QED BY <1>1, <1>2

(* The fd_array of a child, entry by entry.                                *)
LEMMA CopiedFacts ==
  ASSUME NEW F, NEW b, RowOK(F, b), NEW i \in 0..NFd
  PROVE  /\ Copied(F, i) \in [Fd -> EntryT] /\ RowOK(Copied(F, i), NFd)
         /\ Copied(F, 0) = NoTable
         /\ i < NFd => /\ Copied(F, i)[i] = None
                       /\ Copied(F, i + 1) = SetFd(Copied(F, i), i, Copy(F[i]))
<1>1. NFd \in Nat /\ NFd \notin Fd /\ Fd = 0..(NFd - 1)
  BY FdFacts DEF Fd
<1>2. ASSUME NEW d \in Fd
      PROVE  /\ Copied(F, i)[d] \in EntryT /\ EntryOK(Copied(F, i)[d], 1) /\ d # NFd
             /\ Copied(F, 0)[d] = None
  <2>1. F[d] \in EntryT /\ EntryOK(F[d], IF d = b THEN 2 ELSE 1)
    BY DEF RowOK
  <2>2. Copy(F[d]) \in EntryT /\ EntryOK(Copy(F[d]), 1)
    BY <2>1, CopyFacts
  <2>3. d \in Nat /\ ~(d < 0)
    BY <1>1
  <2> QED BY <1>1, <2>2, <2>3, NoneFacts DEF Copied
<1>3. Copied(F, i) = [d \in Fd |-> Copied(F, i)[d]] /\ Copied(F, 0) = [d \in Fd |-> Copied(F, 0)[d]]
  BY DEF Copied
<1>4. Copied(F, i) \in [Fd -> EntryT] /\ Copied(F, 0) = NoTable
  BY <1>2, <1>3 DEF NoTable
<1>5. RowOK(Copied(F, i), NFd)
  BY <1>1, <1>2, <1>4 DEF RowOK
<1>6. ASSUME i < NFd
      PROVE  /\ Copied(F, i)[i] = None
             /\ Copied(F, i + 1) = SetFd(Copied(F, i), i, Copy(F[i]))
  <2>1. i \in Fd /\ i \in Nat /\ \A d \in Fd : d \in Int /\ (d < i + 1 <=> d < i \/ d = i)
    BY <1>1, <1>6
  <2>2. ~(i < i)
    BY <2>1
  <2>3. Copied(F, i)[i] = None
    BY <2>1, <2>2 DEF Copied
  <2>4. ASSUME NEW d \in Fd
        PROVE  Copied(F, i + 1)[d] = SetFd(Copied(F, i), i, Copy(F[i]))[d]
    BY <2>1, <2>2 DEF Copied, SetFd
  <2>5. /\ Copied(F, i + 1) = [d \in Fd |-> Copied(F, i + 1)[d]]
        /\ SetFd(Copied(F, i), i, Copy(F[i])) = [d \in Fd |-> SetFd(Copied(F, i), i, Copy(F[i]))[d]]
    BY DEF Copied, SetFd
  <2> QED BY <2>3, <2>4, <2>5
<1> QED BY <1>4, <1>5, <1>6

(* The fd_array of a process that exits, entry by entry.                   *)
LEMMA ClearedFacts ==
  ASSUME NEW F \in [Fd -> EntryT], NEW i \in 0..NFd
  PROVE  /\ Cleared(F, i) \in [Fd -> EntryT]
         /\ Cleared(F, 0) = F /\ Cleared(F, NFd) = NoTable
         /\ i < NFd => /\ Cleared(F, i)[i] = F[i]
                       /\ Cleared(F, i + 1) = SetFd(Cleared(F, i), i, None)
<1>1. NFd \in Nat /\ Fd = 0..(NFd - 1)
  BY FdFacts DEF Fd
<1>2. Cleared(F, i) \in [Fd -> EntryT]
  BY NoneFacts DEF Cleared
<1>3. Cleared(F, 0) = F
  <2>1. \A d \in Fd : ~(d < 0)
    BY <1>1
  <2> QED BY <2>1 DEF Cleared
<1>4. Cleared(F, NFd) = NoTable
  <2>1. \A d \in Fd : d < NFd
    BY <1>1
  <2> QED BY <2>1 DEF Cleared, NoTable
<1>6. ASSUME i < NFd
      PROVE  /\ Cleared(F, i)[i] = F[i]
             /\ Cleared(F, i + 1) = SetFd(Cleared(F, i), i, None)
  <2>1. i \in Fd /\ i \in Nat /\ \A d \in Fd : d \in Int /\ (d < i + 1 <=> d < i \/ d = i)
    BY <1>1, <1>6
  <2>2. ~(i < i)
    BY <2>1
  <2>3. Cleared(F, i)[i] = F[i]
    BY <2>1, <2>2 DEF Cleared
  <2>4. ASSUME NEW d \in Fd
        PROVE  Cleared(F, i + 1)[d] = SetFd(Cleared(F, i), i, None)[d]
    BY <2>1, <2>2 DEF Cleared, SetFd
  <2>5. /\ Cleared(F, i + 1) = [d \in Fd |-> Cleared(F, i + 1)[d]]
        /\ SetFd(Cleared(F, i), i, None) = [d \in Fd |-> SetFd(Cleared(F, i), i, None)[d]]
    BY DEF Cleared, SetFd
  <2> QED BY <2>3, <2>4, <2>5
<1> QED BY <1>2, <1>3, <1>4, <1>6

(* A turn of the loop of dup_files ...                                     *)
LEMMA DupTurn ==
  ASSUME NEW F \in [Fd -> EntryT], NEW R, NEW O, Sane(R, O), NEW d \in Fd, F[d] = None,
         NEW from, from[d] \in EntryT, from[d].status = "OPENED", from[d].node \in Node,
         R[from[d].node] > 0
  PROVE  DupEntry(KS(F, R, O), from, d)
           = KS(SetFd(F, d, Copy(from[d])), Up(R, from[d].node), Up(O, from[d].node))
<1> DEFINE e == from[d]
           n == e.node
           H == SetFd(F, d, Half)
<1>1. [None EXCEPT !.status = "INIT"] = Half
  <2>1. ASSUME NEW t
        PROVE  [[status |-> "NONE", count |-> 0, node |-> NoNode, rd |-> t, wr |-> t]
                  EXCEPT !.status = "INIT"]
                 = [status |-> "INIT", count |-> 0, node |-> NoNode, rd |-> t, wr |-> t]
    OBVIOUS
  <2> QED BY <2>1, Zenon DEF None, Half
<1>2. [KS(F, R, O) EXCEPT !.fd[d].status = "INIT"] = KS(H, R, O)
  BY <1>1 DEF KS, SetFd
<1>3. H \in [Fd -> EntryT] /\ H[d] = Half
  BY SetType, HalfFacts
<1>4. H[d].status = "INIT" /\ H[d].count + 1 = 1
  BY <1>3, HalfFacts
<1>5. SetFd(H, d, Copy(e)) = SetFd(F, d, Copy(e))
  BY SetTwice
<1>6. Copy(e) = Opened(1, n, e.rd, e.wr)
  BY DEF Copy
<1>7. DupEntry(KS(F, R, O), from, d) = fd_array_dup(KS(H, R, O), d, e)
  BY <1>2 DEF DupEntry
<1> HIDE DEF H
<1>8. fd_array_dup(KS(H, R, O), d, e) = KS(SetFd(H, d, Opened(1, n, e.rd, e.wr)), Up(R, n), Up(O, n))
  BY <1>3, <1>4, DupK
<1> QED BY <1>5, <1>6, <1>7, <1>8

(* ... and of that of files_destroy.                                       *)
LEMMA CloseTurn ==
  ASSUME NEW F \in [Fd -> EntryT], NEW R, NEW O, Sane(R, O), NEW d \in Fd,
         F[d].status = "OPENED", F[d].count = 1, F[d].node \in Node,
         O[F[d].node] > 0, F[d].node \in Device => R[F[d].node] > 1
  PROVE  CloseEntry(KS(F, R, O), d)
           = KS(SetFd(F, d, None), Dn(R, F[d].node), Dn(O, F[d].node))
<1> DEFINE k == KS(SetFd(F, d, None), Dn(R, F[d].node), Dn(O, F[d].node))
<1>1. fd_array_close(KS(F, R, O), d) = k
  BY CloseK
<1>2. KS(F, R, O).fd[d].status = "OPENED"
  BY DEF KS
<1>3. k.fd[d].status = "NONE"
  <2>1. None \in EntryT /\ None.status = "NONE"
    BY NoneFacts DEF None
  <2>2. SetFd(F, d, None)[d] = None
    BY <2>1, SetType
  <2> QED BY <2>1, <2>2 DEF KS
<1> HIDE DEF k
<1>4. CloseEntry(KS(F, R, O), d) = k
  BY <1>1, <1>2, <1>3 DEF CloseEntry, AssertNone, KAssert
<1> QED BY <1>4 DEF k

(* A turn of files_destroy at a free entry.                                *)
LEMMA SkipTurn ==
  ASSUME NEW F \in [Fd -> EntryT], NEW R, NEW O, NEW d \in Fd, F[d] = None
  PROVE  CloseEntry(KS(F, R, O), d) = KS(F, R, O)
<1>1. KS(F, R, O).fd[d].status = "NONE"
  BY DEF KS, None
<1> QED BY <1>1 DEF CloseEntry, AssertNone, KAssert

(* Other tables for process p.                                             *)
LEMMA RowFacts ==
  ASSUME NEW tab \in Tables, NEW p \in Proc, NEW F \in [Fd -> EntryT]
  PROVE  /\ Row(tab, p, F) \in Tables /\ Row(tab, p, F)[p] = F
         /\ \A q \in Proc : q # p => Row(tab, p, F)[q] = tab[q]
         /\ \A d, e : SetEnt(Row(tab, p, F), p, d, e) = Row(tab, p, SetFd(F, d, e))
         /\ Row(tab, p, tab[p]) = tab
<1>1. /\ Row(tab, p, F) \in Tables /\ Row(tab, p, F)[p] = F
      /\ \A q \in Proc : q # p => Row(tab, p, F)[q] = tab[q]
      /\ Row(tab, p, tab[p]) = tab
  BY DEF Row, Tables
<1>2. ASSUME NEW G
      PROVE  Row(Row(tab, p, F), p, G) = Row(tab, p, G)
  BY DEF Row, Tables
<1>3. ASSUME NEW d, NEW e
      PROVE  SetEnt(Row(tab, p, F), p, d, e) = Row(tab, p, SetFd(F, d, e))
  BY <1>1, <1>2 DEF SetEnt
<1> QED BY <1>1, <1>3

(* dup_files counts every copied entry once.                               *)
LEMMA ForkCopies ==
  ASSUME NEW tab \in Tables, NEW pw, NEW ls \in [Node -> Nat], NEW p \in Proc,
         NEW c \in Proc, c # p, tab[c] = NoTable, NEW b, RowOK(tab[p], b), NEW k,
         k = KS(NoTable, RefsOf(tab, pw, ls), OpensOf(tab)),
         NEW tab2, tab2 = Row(tab, c, Copied(tab[p], NFd))
  PROVE  dup_files(k, tab[p]) = KS(Copied(tab[p], NFd), RefsOf(tab2, pw, ls), OpensOf(tab2))
<1> DEFINE from == tab[p]
           T(i) == Row(tab, c, Copied(from, i))
           G(i) == KS(Copied(from, i), RefsOf(T(i), pw, ls), OpensOf(T(i)))
           g == [i \in 0..NFd |-> G(i)]
<1>1. NFd \in Nat /\ NFd \in 0..NFd /\ 0 \in 0..NFd /\ Fd = 0..(NFd - 1)
  BY FdFacts DEF Fd
<1>2. G(0) = k
  <2>1. Copied(from, 0) = NoTable
    BY <1>1, CopiedFacts
  <2>2. T(0) = tab
    BY <2>1 DEF Row, Tables
  <2> QED BY <2>1, <2>2
<1>3. ASSUME NEW i \in Fd
      PROVE  DupEntry(G(i), from, i) = G(i + 1)
  <2> DEFINE F == Copied(from, i)
             U == Row(tab, c, F)
             R == RefsOf(U, pw, ls)
             O == OpensOf(U)
             e == from[i]
             n == e.node
  <2>1. i \in 0..NFd /\ i < NFd
    BY <1>1
  <2>2. /\ F \in [Fd -> EntryT] /\ F[i] = None
        /\ Copied(from, i + 1) = SetFd(F, i, Copy(e))
    BY <2>1, CopiedFacts
  <2> HIDE DEF F
  <2>3. /\ U \in Tables /\ U[c] = F /\ U[p] = from
        /\ SetEnt(U, c, i, Copy(e)) = Row(tab, c, SetFd(F, i, Copy(e)))
    BY <2>2, RowFacts
  <2>4. e \in EntryT /\ EntryOK(e, IF i = b THEN 2 ELSE 1)
    BY DEF RowOK
  <2> HIDE DEF U
  <2>5. CASE e.status = "OPENED"
    <3>1. n \in Node /\ Counted(e, n) /\ e # None
      BY <2>4, <2>5 DEF EntryOK, None, Counted
    <3>2. Sane(R, O) /\ R[n] > 0
      <4>1. Counted(U[p][i], n)
        BY <2>3, <3>1
      <4> QED BY <3>1, <4>1, SaneCounts
    <3>3. Counted(Copy(e), n) /\ \A m \in Node : ~Counted(U[c][i], m)
      BY <2>2, <2>3, <2>5, NoneFacts DEF Counted, Copy, Opened
    <3>4. /\ OpensOf(SetEnt(U, c, i, Copy(e))) = Up(O, n)
          /\ RefsOf(SetEnt(U, c, i, Copy(e)), pw, ls) = Up(R, n)
      BY <2>3, <3>1, <3>3, GainEntry
    <3> HIDE DEF R, O
    <3>5. DupEntry(KS(F, R, O), from, i) = KS(SetFd(F, i, Copy(e)), Up(R, n), Up(O, n))
      <4> HIDE DEF from
      <4> QED BY <2>2, <2>4, <2>5, <3>1, <3>2, DupTurn
    <3>6. G(i + 1) = KS(SetFd(F, i, Copy(e)), Up(R, n), Up(O, n))
      BY <2>2, <2>3, <3>4
    <3> QED BY <3>5, <3>6 DEF F, R, O, U
  <2>6. CASE e.status # "OPENED"
    <3>1. Copy(e) = None
      BY <2>6 DEF Copy
    <3>2. Copied(from, i + 1) = F
      BY <2>2, <3>1, SetTwice
    <3>3. DupEntry(KS(F, R, O), from, i) = KS(F, R, O)
      BY <2>6 DEF DupEntry
    <3> HIDE DEF R, O
    <3>4. G(i + 1) = KS(F, R, O)
      BY <3>2 DEF R, O, U
    <3> QED BY <3>3, <3>4 DEF F, R, O, U
  <2> QED BY <2>5, <2>6
<1> HIDE DEF G
<1>4. ASSUME NEW i \in 0..NFd
      PROVE  g[i] = IF i = 0 THEN k ELSE DupEntry(g[i - 1], from, i - 1)
  <2>1. CASE i = 0
    BY <1>1, <1>2, <2>1
  <2>2. CASE i # 0
    <3>1. i - 1 \in Fd /\ i - 1 \in 0..NFd /\ (i - 1) + 1 = i
      BY <1>1, <2>2
    <3>2. DupEntry(G(i - 1), from, i - 1) = G(i)
      BY <1>3, <3>1
    <3>3. g[i] = G(i) /\ g[i - 1] = G(i - 1)
      BY <3>1
    <3> QED BY <2>2, <3>2, <3>3
  <2> QED BY <2>1, <2>2
<1>5. dup_files(k, from) = g[NFd]
  <2>1. g = [i \in 0..NFd |-> g[i]]
    OBVIOUS
  <2> HIDE DEF g, from
  <2>2. DupTurns(g, k, from)
    BY <1>4, <2>1 DEF DupTurns
  <2> QED BY <2>2, DupFilesIs
<1>6. g[NFd] = G(NFd)
  BY <1>1
<1> QED BY <1>5, <1>6 DEF G

(* do_fork preserves the invariant.                                        *)
LEMMA ForkRefs ==
  ASSUME StdinInv, RefInv, NEW p \in Proc, NEW c \in Proc, Fork(p, c)
  PROVE  RefInv'
<1> DEFINE dir == pwd[p]
           pw == SetHome(pwd, c, dir)
           F == Copied(table[p], NFd)
           T == Row(table, c, F)
           k == vop_ref_inc(K(c), dir)
<1>1. /\ pc[p] = "user" /\ pc[c] = "free" /\ c # p
      /\ Result(c, dup_files(k, table[p])) /\ pwd' = pw
      /\ pc' = [pc EXCEPT ![p] = IF killed[p] THEN "dying" ELSE "user", ![c] = "user"]
      /\ call' = call /\ lost' = lost
  BY DEF Fork, InUser, stdin, SetHome
<1>2. /\ K(c) = KS(table[c], Refs, Count) /\ Sane(Refs, Count) /\ table \in Tables
      /\ pwd \in [Proc -> Dir \cup {NoNode}] /\ lost \in [Node -> Nat]
      /\ lost \in [Node -> 0..MaxLost] /\ table[c] = NoTable /\ pwd[c] = NoNode
  BY <1>1, CallFinds DEF RefInv, RefTypes
<1>3. dir \in Dir /\ dir \in Node /\ Refs[dir] > 0 /\ dir # NoNode /\ RowOK(table[p], Busy(p))
  BY <1>1, CallFinds, NodeFacts
<1>4. k = KS(NoTable, Up(Refs, dir), Count)
  BY <1>2, <1>3, RefIncK
<1>5. RefsOf(table, pw, lost) = Up(RefsOf(table, pwd, lost), dir)
  BY <1>2, <1>3, GainHome
<1>6. k = KS(NoTable, RefsOf(table, pw, lost), OpensOf(table))
  BY <1>4, <1>5 DEF Refs, Count
<1> HIDE DEF k, pw, F, T
<1>7. dup_files(k, table[p]) = KS(F, RefsOf(T, pw, lost), OpensOf(T))
  BY <1>1, <1>2, <1>3, <1>6, ForkCopies DEF F, T
<1>8. /\ table' = Row(table, c, F) /\ oops' = "no"
      /\ node' = Nodes(RefsOf(T, pw, lost), OpensOf(T))
  BY <1>1, <1>7 DEF Result, KS, Row
<1>9. node' = Nodes(RefsOf(table', pwd', lost'), OpensOf(table'))
  BY <1>1, <1>8 DEF T
<1>10. RowOK(F, NFd)
  <2>1. NFd \in 0..NFd
    BY FdFacts
  <2> QED BY <1>3, <2>1, CopiedFacts DEF F
<1>11. pc \in [Proc -> {"free", "thread", "panic", "user", "kbd", "dying"}]
  BY StdinFacts
<1>12. /\ pc'[c] = "user" /\ pc'[p] \in {"user", "dying"}
       /\ \A q \in Proc : q # p /\ q # c => pc'[q] = pc[q]
  BY <1>1, <1>11
<1>13. /\ pwd' \in [Proc -> Dir \cup {NoNode}] /\ pwd'[c] = dir
       /\ \A q \in Proc : q # c => pwd'[q] = pwd[q]
  BY <1>1, <1>2, <1>3 DEF pw, SetHome
<1>14. /\ Busy(c)' = NFd
       /\ \A q \in Proc : q # c => Busy(q)' = Busy(q) /\ (pc'[q] = "free" <=> pc[q] = "free")
  <2>1. ASSUME NEW q \in Proc
        PROVE  call'[q] = call[q]
    BY <1>1
  <2> QED BY <1>1, <1>12, <2>1 DEF Busy
<1>15. lost' \in [Node -> 0..MaxLost]
  BY <1>1, <1>2
<1> QED BY <1>3, <1>8, <1>9, <1>10, <1>12, <1>13, <1>14, <1>15, Concludes

(* files_destroy uncounts every entry once.                                *)
LEMMA ExitCloses ==
  ASSUME NEW tab \in Tables, NEW pw, NEW ls \in [Node -> Nat], NEW p \in Proc,
         RowOK(tab[p], NFd), NEW k, NEW dir,
         vop_ref_dec(k, dir) = KS(tab[p], RefsOf(tab, pw, ls), OpensOf(tab)),
         NEW tab2, tab2 = Row(tab, p, NoTable)
  PROVE  files_destroy(k, dir) = KS(NoTable, RefsOf(tab2, pw, ls), OpensOf(tab2))
<1> DEFINE from == tab[p]
           T(i) == Row(tab, p, Cleared(from, i))
           G(i) == KS(Cleared(from, i), RefsOf(T(i), pw, ls), OpensOf(T(i)))
           g == [i \in 0..NFd |-> G(i)]
<1>1. /\ NFd \in Nat /\ NFd \in 0..NFd /\ 0 \in 0..NFd /\ Fd = 0..(NFd - 1)
      /\ NFd \notin Fd /\ from \in [Fd -> EntryT]
  BY FdFacts DEF Fd, RowOK
<1>2. G(0) = vop_ref_dec(k, dir)
  <2>1. Cleared(from, 0) = from
    BY <1>1, ClearedFacts
  <2>2. T(0) = tab
    BY <2>1 DEF Row, Tables
  <2> QED BY <2>1, <2>2
<1>3. ASSUME NEW i \in Fd
      PROVE  CloseEntry(G(i), i) = G(i + 1)
  <2> DEFINE F == Cleared(from, i)
             U == Row(tab, p, F)
             R == RefsOf(U, pw, ls)
             O == OpensOf(U)
             e == from[i]
             n == e.node
  <2>1. i \in 0..NFd /\ i < NFd /\ i # NFd
    BY <1>1
  <2>2. /\ F \in [Fd -> EntryT] /\ F[i] = e
        /\ Cleared(from, i + 1) = SetFd(F, i, None)
    BY <1>1, <2>1, ClearedFacts
  <2> HIDE DEF F
  <2>3. /\ U \in Tables /\ U[p] = F
        /\ SetEnt(U, p, i, None) = Row(tab, p, SetFd(F, i, None))
    BY <2>2, RowFacts
  <2>4. e \in EntryT /\ EntryOK(e, 1)
    BY <2>1 DEF RowOK
  <2> HIDE DEF U
  <2>5. CASE e.status = "OPENED"
    <3>1. n \in Node /\ Counted(e, n) /\ e.count = 1
      <4>1. e # None
        BY <2>5 DEF None
      <4> QED BY <2>4, <2>5, <4>1 DEF EntryOK, Counted
    <3>2. Sane(R, O) /\ O[n] > 0 /\ (n \in Device => R[n] > 1)
      <4>1. Counted(U[p][i], n)
        BY <2>2, <2>3, <3>1
      <4> QED BY <3>1, <4>1, SaneCounts
    <3>3. /\ OpensOf(SetEnt(U, p, i, None)) = Dn(O, n)
          /\ RefsOf(SetEnt(U, p, i, None), pw, ls) = Dn(R, n)
      <4>1. Counted(U[p][i], n)
        BY <2>2, <2>3, <3>1
      <4> QED BY <2>3, <3>1, <4>1, NoneFacts, LoseEntry
    <3> HIDE DEF R, O
    <3>4. CloseEntry(KS(F, R, O), i) = KS(SetFd(F, i, None), Dn(R, n), Dn(O, n))
      <4>1. F[i].status = "OPENED" /\ F[i].count = 1 /\ F[i].node = n
        BY <2>2, <2>5, <3>1
      <4> HIDE DEF n
      <4> QED BY <2>2, <3>1, <3>2, <4>1, CloseTurn
    <3>5. G(i + 1) = KS(SetFd(F, i, None), Dn(R, n), Dn(O, n))
      BY <2>2, <2>3, <3>3
    <3> QED BY <3>4, <3>5 DEF F, R, O, U
  <2>6. CASE e.status # "OPENED"
    <3>1. e = None
      BY <2>4, <2>6 DEF EntryOK
    <3>2. Cleared(from, i + 1) = F
      BY <2>2, <3>1, SetTwice
    <3>3. CloseEntry(KS(F, R, O), i) = KS(F, R, O)
      BY <2>2, <3>1, SkipTurn
    <3> HIDE DEF R, O
    <3>4. G(i + 1) = KS(F, R, O)
      BY <3>2 DEF R, O, U
    <3> QED BY <3>3, <3>4 DEF F, R, O, U
  <2> QED BY <2>5, <2>6
<1> HIDE DEF G
<1>4. ASSUME NEW i \in 0..NFd
      PROVE  g[i] = IF i = 0 THEN vop_ref_dec(k, dir) ELSE CloseEntry(g[i - 1], i - 1)
  <2>1. CASE i = 0
    BY <1>1, <1>2, <2>1
  <2>2. CASE i # 0
    <3>1. i - 1 \in Fd /\ i - 1 \in 0..NFd /\ (i - 1) + 1 = i
      BY <1>1, <2>2
    <3>2. CloseEntry(G(i - 1), i - 1) = G(i)
      BY <1>3, <3>1
    <3>3. g[i] = G(i) /\ g[i - 1] = G(i - 1)
      BY <3>1
    <3> QED BY <2>2, <3>2, <3>3
  <2> QED BY <2>1, <2>2
<1>5. files_destroy(k, dir) = g[NFd]
  <2>1. g = [i \in 0..NFd |-> g[i]]
    OBVIOUS
  <2> HIDE DEF g
  <2>2. CloseTurns(g, k, dir)
    BY <1>4, <2>1 DEF CloseTurns
  <2> QED BY <2>2, FilesDestroyIs
<1>6. g[NFd] = G(NFd)
  BY <1>1
<1>7. Cleared(from, NFd) = NoTable
  BY <1>1, ClearedFacts
<1> QED BY <1>5, <1>6, <1>7 DEF G

(* do_exit preserves the invariant.                                        *)
LEMMA ExitRefs ==
  ASSUME StdinInv, RefInv, NEW p \in Proc, Exit(p)
  PROVE  RefInv'
<1> DEFINE dir == pwd[p]
           pw == SetHome(pwd, p, NoNode)
           T == Row(table, p, NoTable)
<1>1. /\ pc[p] \in {"user", "dying"}
      /\ Result(p, files_destroy(K(p), dir)) /\ pwd' = pw
      /\ pc' = [pc EXCEPT ![p] = "free"] /\ call' = call /\ lost' = lost
  BY DEF Exit, stdin, SetHome
<1>2. /\ K(p) = KS(table[p], Refs, Count) /\ Sane(Refs, Count) /\ table \in Tables
      /\ pwd \in [Proc -> Dir \cup {NoNode}] /\ lost \in [Node -> Nat]
      /\ lost \in [Node -> 0..MaxLost] /\ RowOK(table[p], Busy(p))
      /\ dir \in Dir /\ dir \in Node /\ dir \notin Device /\ Count[dir] < Refs[dir]
  BY <1>1, CallFinds, NodeFacts DEF RefInv, RefTypes
<1>3. Busy(p) = NFd
  BY <1>1 DEF Busy
<1>4. vop_ref_dec(KS(table[p], Refs, Count), dir) = KS(table[p], Dn(Refs, dir), Count)
  BY <1>2, RefDecK
<1>5. RefsOf(table, pw, lost) = Dn(RefsOf(table, pwd, lost), dir)
  BY <1>2, LoseHome
<1>6. vop_ref_dec(K(p), dir) = KS(table[p], RefsOf(table, pw, lost), OpensOf(table))
  BY <1>2, <1>4, <1>5 DEF Refs, Count
<1> HIDE DEF pw, T, dir
<1>7. files_destroy(K(p), dir) = KS(NoTable, RefsOf(T, pw, lost), OpensOf(T))
  BY <1>2, <1>3, <1>6, ExitCloses DEF T
<1>8. /\ table' = Row(table, p, NoTable) /\ oops' = "no"
      /\ node' = Nodes(RefsOf(T, pw, lost), OpensOf(T))
  BY <1>1, <1>7 DEF Result, KS, Row
<1>9. node' = Nodes(RefsOf(table', pwd', lost'), OpensOf(table'))
  BY <1>1, <1>8 DEF T
<1>10. RowOK(NoTable, NFd)
  BY NoneFacts, FdFacts DEF RowOK, NoTable
<1>11. pc \in [Proc -> {"free", "thread", "panic", "user", "kbd", "dying"}]
  BY StdinFacts
<1>12. pc'[p] = "free" /\ \A q \in Proc : q # p => pc'[q] = pc[q]
  BY <1>1, <1>11
<1>13. /\ pwd' \in [Proc -> Dir \cup {NoNode}] /\ pwd'[p] = NoNode
       /\ \A q \in Proc : q # p => pwd'[q] = pwd[q]
  BY <1>1, <1>2 DEF pw, SetHome
<1>14. /\ Busy(p)' = NFd
       /\ \A q \in Proc : q # p => Busy(q)' = Busy(q) /\ (pc'[q] = "free" <=> pc[q] = "free")
  <2>1. ASSUME NEW q \in Proc
        PROVE  call'[q] = call[q]
    BY <1>1
  <2> QED BY <1>12, <2>1 DEF Busy
<1>15. lost' \in [Node -> 0..MaxLost]
  BY <1>1, <1>2
<1> QED BY <1>8, <1>9, <1>10, <1>12, <1>13, <1>14, <1>15, Concludes

-----------------------------------------------------------------------------

(* The invariant holds after fs_init ...                                   *)
LEMMA InitRefs == Init => RefInv
<1> SUFFICES ASSUME Init PROVE RefInv
  OBVIOUS
<1>1. PICK u \in Proc : /\ pwd = [p \in Proc |-> IF p = u THEN Root ELSE NoNode]
                        /\ pc = [p \in Proc |-> IF p = u THEN "thread" ELSE "free"]
  BY DEF Init
<1>2. /\ table = [p \in Proc |-> NoTable] /\ lost = [n \in Node |-> 0] /\ oops = "no"
      /\ node = [n \in Node |->
           [ref |-> Base(n) + (IF n = Root THEN 1 ELSE 0), open |-> 0,
            reclaim |-> IF n = Root THEN 1 ELSE 0, mem |-> Base(n) > 0]]
  BY DEF Init
<1>3. RefTypes
  <2>1. NoTable \in [Fd -> EntryT]
    BY NoneFacts DEF NoTable
  <2>2. 0 \in 0..MaxLost /\ Root \in Dir
    BY FdFacts, NodeFacts
  <2> QED BY <1>1, <1>2, <2>1, <2>2 DEF RefTypes, Tables
<1>4. ASSUME NEW n \in Node
      PROVE  /\ Count[n] = 0
             /\ Refs[n] = Base(n) + (IF n = Root THEN 1 ELSE 0)
  <2>1. Ent(table, n) = {}
    BY <1>2, NoneFacts DEF Ent, NoTable
  <2>2. Home(pwd, n) = IF n = Root THEN {u} ELSE {}
    BY <1>1, NodeFacts DEF Home
  <2>3. Cardinality({}) = 0 /\ Cardinality({u}) = 1
    BY FS_EmptySet, FS_Singleton
  <2>4. Cardinality(Ent(table, n)) = 0
    BY <2>1, <2>3
  <2>5. Cardinality(Home(pwd, n)) = IF n = Root THEN 1 ELSE 0
    BY <2>2, <2>3
  <2>6. lost[n] = 0 /\ Base(n) \in Nat
    BY <1>2 DEF Base
  <2>7. Refs[n] = Base(n) + Cardinality(Ent(table, n)) + lost[n] + Cardinality(Home(pwd, n))
        /\ Count[n] = Cardinality(Ent(table, n))
    BY DEF Refs, Count, RefsOf, OpensOf
  <2> QED BY <2>4, <2>5, <2>6, <2>7
<1>5. node = Nodes(Refs, Count)
  <2>1. ASSUME NEW n \in Node
        PROVE  node[n] = Cell(n, Refs[n], Count[n])
    <3> DEFINE r == Base(n) + (IF n = Root THEN 1 ELSE 0)
    <3>1. /\ Base(n) \in Nat /\ r \in Nat /\ (r > 0 <=> Base(n) > 0)
          /\ (n = Root <=> r > 0 /\ n \notin Device)
      BY NodeFacts DEF Base
    <3>2. (r > 0) = (Base(n) > 0)
      BY <3>1
    <3>3. Cell(n, r, 0) = [ref |-> r, open |-> 0,
                           reclaim |-> IF n = Root THEN 1 ELSE 0, mem |-> Base(n) > 0]
      <4> HIDE DEF r
      <4>1. (IF r > 0 /\ n \notin Device THEN 1 ELSE 0) = IF n = Root THEN 1 ELSE 0
        BY <3>1
      <4> QED BY <3>2, <4>1, Zenon DEF Cell
    <3>4. node[n] = [ref |-> r, open |-> 0,
                     reclaim |-> IF n = Root THEN 1 ELSE 0, mem |-> Base(n) > 0]
      BY <1>2, Zenon
    <3>5. Refs[n] = r /\ Count[n] = 0
      BY <1>4
    <3> HIDE DEF r
    <3> QED BY <3>3, <3>4, <3>5, Zenon
  <2>2. node = [n \in Node |-> node[n]]
    BY <1>2, Zenon
  <2> QED BY <2>1, <2>2, Zenon DEF Nodes
<1>6. ASSUME NEW p \in Proc
      PROVE  /\ RowOK(table[p], Busy(p)) /\ (pc[p] = "free" <=> pwd[p] = NoNode)
             /\ pc[p] = "free" => table[p] = NoTable
  <2>1. RowOK(NoTable, NFd)
    BY NoneFacts, FdFacts DEF RowOK, NoTable
  <2>2. Busy(p) = NFd
    BY <1>1 DEF Busy
  <2>3. Root # NoNode
    BY NodeFacts
  <2> QED BY <1>1, <1>2, <2>1, <2>2, <2>3
<1> QED BY <1>2, <1>3, <1>5, <1>6 DEF RefInv

(* ... and is preserved by every step of careful programs.                 *)
LEMMA NextRefs == Careful /\ StdinInv /\ RefInv /\ [Next]_vars => RefInv'
<1> SUFFICES ASSUME Careful, StdinInv, RefInv, [Next]_vars PROVE RefInv'
  OBVIOUS
<1>1. CASE UNCHANGED vars
  <2>1. UNCHANGED <<node, table, pwd, lost, oops, pc, call>>
    BY <1>1 DEF vars
  <2> QED BY <2>1, NoEntryChanged DEF Busy
<1>2. ASSUME NEW p \in Proc, SysCall(p)
      PROVE  RefInv'
  BY <1>2, OpenRefs, CloseRefs, DupRefs, UseRefs, ChdirRefs, GetcwdRefs,
     NothingOpened, ForkRefs, ReadStdinRefs DEF SysCall
<1>3. ASSUME NEW p \in Proc, UserMain(p)
      PROVE  RefInv'
  BY <1>3, OpenStdRefs, ExecRefs, NothingOpened DEF UserMain
<1> QED BY <1>1, <1>2, <1>3, ExitRefs, ResumeRefs, InterruptedRefs, KillRefs, KeyRefs DEF Next

-----------------------------------------------------------------------------
(* The types that the rest does not need.                                  *)
InputTypes ==
  /\ killed \in [Proc -> BOOLEAN]
  /\ ring.buf \in [0..(BufSize - 1) -> 0..MaxTyped] /\ input.typed <= MaxTyped

(* The types hold at first ...                                             *)
LEMMA InitInput == Init => InputTypes
BY FilesAssumption DEF Init, InputTypes

(* ... and after every step.                                               *)
LEMMA NextInput == StdinInv /\ InputTypes /\ [Next]_vars => InputTypes'
<1> SUFFICES ASSUME StdinInv, InputTypes, [Next]_vars PROVE InputTypes'
  OBVIOUS
<1>1. /\ ring = [buf |-> ring.buf, rpos |-> ring.rpos, wpos |-> ring.wpos]
      /\ input = [typed |-> input.typed, got |-> input.got, full |-> input.full]
      /\ input.typed \in Nat /\ BufSize \in Nat \ {0} /\ ring.wpos \in Nat /\ MaxTyped \in Nat
  BY StdinFacts, FilesAssumption
<1>2. ASSUME UNCHANGED <<killed, ring, input>>
      PROVE  InputTypes'
  BY <1>2 DEF InputTypes
<1>3. ASSUME NEW p, NEW c, ReadOn(p, c), UNCHANGED killed
      PROVE  InputTypes'
  <2>1. PICK n, G : /\ ring' = [ring EXCEPT !.rpos = @ + n]
                    /\ input' = [input EXCEPT !.got = G]
    BY <1>3 DEF ReadOn
  <2>2. ring'.buf = ring.buf
    BY <1>1, <2>1
  <2>3. input'.typed = input.typed
    BY <1>1, <2>1
  <2> QED BY <1>3, <2>2, <2>3 DEF InputTypes
<1>4. ASSUME NEW p \in Proc, SysCall(p)
      PROVE  InputTypes'
  <2>1. ASSUME NEW d \in Fd, NEW len, ReadStdin(p, d, len)
        PROVE  InputTypes'
    BY <1>3, <2>1 DEF ReadStdin
  <2>2. CASE \E o \in Opens, mem \in BOOLEAN : Open(p, o.path, o.flags, mem)
    BY <1>2, <2>2 DEF Open, stdin
  <2>3. CASE \/ \E d \in Fd : Close(p, d)
             \/ \E d, to \in Fd : Dup(p, d, to)
             \/ \E d \in Fd, op \in Ops : Use(p, d, op)
    BY <1>2, <2>3 DEF Close, Dup, Use, stdin
  <2>4. CASE \/ \E path \in Walks, mem \in BOOLEAN : Chdir(p, path, mem)
             \/ \E fits \in BOOLEAN : Getcwd(p, fits)
    BY <1>2, <2>4 DEF Chdir, Getcwd, stdin
  <2>5. CASE \/ ExecRefused(p)
             \/ \E c \in Proc : Fork(p, c)
    BY <1>2, <2>5 DEF ExecRefused, Fork, stdin
  <2> QED BY <1>4, <2>1, <2>2, <2>3, <2>4, <2>5 DEF SysCall
<1>5. ASSUME NEW p \in Proc, Exit(p)
      PROVE  InputTypes'
  <2>1. killed' = [killed EXCEPT ![p] = FALSE] /\ UNCHANGED <<ring, input>>
    BY <1>5 DEF Exit, stdin
  <2>2. killed' \in [Proc -> BOOLEAN]
    BY <2>1 DEF InputTypes
  <2> QED BY <2>1, <2>2 DEF InputTypes
<1>6. ASSUME NEW p \in Proc, Kill(p)
      PROVE  InputTypes'
  <2>1. killed' = [killed EXCEPT ![p] = TRUE] /\ UNCHANGED <<ring, input>>
    BY <1>6 DEF Kill
  <2>2. killed' \in [Proc -> BOOLEAN]
    BY <2>1 DEF InputTypes
  <2> QED BY <2>1, <2>2 DEF InputTypes
<1>7. ASSUME NEW p \in Proc, Resume(p)
      PROVE  InputTypes'
  BY <1>3, <1>7 DEF Resume
<1>8. ASSUME NEW p \in Proc, Interrupted(p)
      PROVE  InputTypes'
  BY <1>2, <1>8 DEF Interrupted
<1>9. CASE Key
  <2> DEFINE slot == ring.wpos % BufSize
             B == [ring.buf EXCEPT ![slot] = input.typed + 1]
  <2>1. /\ ring' = [ring EXCEPT !.buf[slot] = input.typed + 1, !.wpos = IF Room THEN @ + 1 ELSE @]
        /\ input' = [input EXCEPT !.typed = @ + 1, !.full = @ \/ ring.wpos - ring.rpos = BufSize]
        /\ input.typed < MaxTyped /\ UNCHANGED killed
    BY <1>9 DEF Key, procs
  <2>2. ring'.buf = B
    BY <1>1, <2>1
  <2>3. input'.typed = input.typed + 1
    BY <1>1, <2>1
  <2>4. B \in [0..(BufSize - 1) -> 0..MaxTyped]
    <3>1. input.typed + 1 \in 0..MaxTyped
      BY <1>1, <2>1
    <3> QED BY <3>1 DEF InputTypes
  <2>5. input.typed + 1 <= MaxTyped
    BY <1>1, <2>1
  <2> HIDE DEF B
  <2> QED BY <2>1, <2>2, <2>3, <2>4, <2>5 DEF InputTypes
<1>10. CASE UNCHANGED vars
  BY <1>2, <1>10 DEF vars
<1>11. ASSUME NEW p \in Proc, UserMain(p)
       PROVE  InputTypes'
  BY <1>2, <1>11 DEF UserMain, OpenStd, Exec, ThreadFails, stdin
<1> QED BY <1>4, <1>5, <1>6, <1>7, <1>8, <1>9, <1>10, <1>11 DEF Next

-----------------------------------------------------------------------------

(* The invariant says that every inode is counted exactly.                 *)
LEMMA RefInvExact ==
  ASSUME StdinInv, RefInv, InputTypes
  PROVE  RefsExact /\ OpsDefined
<1>1. /\ table \in Tables /\ pwd \in [Proc -> Dir \cup {NoNode}]
      /\ lost \in [Node -> 0..MaxLost] /\ lost \in [Node -> Nat] /\ oops = "no"
      /\ node = Nodes(Refs, Count)
  BY FdFacts DEF RefInv, RefTypes
<1>2. Sane(Refs, Count)
  BY <1>1, SaneCounts DEF Refs, Count
<1>3. ASSUME NEW n \in Node
      PROVE  /\ node[n] = Cell(n, Refs[n], Count[n])
             /\ Refs[n] \in Nat /\ Count[n] \in Nat
             /\ node[n].ref = Refs[n] /\ node[n].open = Count[n]
             /\ node[n].reclaim = IF Refs[n] > 0 /\ n \notin Device THEN 1 ELSE 0
             /\ node[n].mem <=> Refs[n] > 0
  BY <1>1, <1>2, NodeCell
<1>4. TypeOK
  <2>1. node \in [Node -> [ref : Nat, open : Nat, reclaim : Nat, mem : BOOLEAN]]
    <3>1. ASSUME NEW n \in Node
          PROVE  Cell(n, Refs[n], Count[n]) \in [ref : Nat, open : Nat, reclaim : Nat, mem : BOOLEAN]
      <4>1. ASSUME NEW r \in Nat, NEW o \in Nat, NEW c \in Nat, NEW m \in BOOLEAN
            PROVE  [ref |-> r, open |-> o, reclaim |-> c, mem |-> m]
                     \in [ref : Nat, open : Nat, reclaim : Nat, mem : BOOLEAN]
        OBVIOUS
      <4>2. (Refs[n] > 0) \in BOOLEAN
        OBVIOUS
      <4>3. (IF Refs[n] > 0 /\ n \notin Device THEN 1 ELSE 0) \in Nat
        OBVIOUS
      <4> QED BY <1>3, <4>1, <4>2, <4>3, Zenon DEF Cell
    <3> QED BY <1>1, <3>1 DEF Nodes
  <2>2. table \in [Proc -> [Fd -> [status : {"NONE", "INIT", "OPENED", "CLOSED"},
                                   count : Nat, node : Node \cup {NoNode},
                                   rd : BOOLEAN, wr : BOOLEAN]]]
    BY <1>1 DEF Tables, EntryT
  <2>3. ring \in [buf : [0..(BufSize - 1) -> 0..MaxTyped], rpos : Nat, wpos : Nat]
    BY StdinFacts DEF InputTypes
  <2> QED BY <1>1, <2>1, <2>2, <2>3, StdinFacts DEF TypeOK, InputTypes
<1>5. ASSUME NEW n \in Node
      PROVE  /\ node[n].ref = Base(n) + Cardinality(Entries(n)) + lost[n]
                              + Cardinality({p \in Proc : pwd[p] = n})
             /\ node[n].open = Cardinality(Entries(n))
             /\ node[n].mem <=> node[n].ref > 0
             /\ node[n].reclaim = IF node[n].mem /\ n \notin Device THEN 1 ELSE 0
  <2>1. Entries(n) = Ent(table, n) /\ {p \in Proc : pwd[p] = n} = Home(pwd, n)
    BY DEF Entries, Ent, Counted, Home
  <2>2. /\ Refs[n] = Base(n) + Cardinality(Ent(table, n)) + lost[n] + Cardinality(Home(pwd, n))
        /\ Count[n] = Cardinality(Ent(table, n))
    BY DEF Refs, Count, RefsOf, OpensOf
  <2> QED BY <1>3, <2>1, <2>2
<1>6. ASSUME NEW p \in Proc, NEW d \in Fd
      PROVE  \/ table[p][d] = None
             \/ /\ table[p][d].status = "OPENED"
                /\ table[p][d].count = IF pc[p] = "kbd" /\ call[p].d = d THEN 2 ELSE 1
  <2>1. EntryOK(table[p][d], IF d = Busy(p) THEN 2 ELSE 1)
    BY DEF RefInv, RowOK
  <2>2. d = Busy(p) <=> pc[p] = "kbd" /\ call[p].d = d
    BY FdFacts DEF Busy
  <2> QED BY <2>1, <2>2 DEF EntryOK
<1> QED BY <1>1, <1>4, <1>5, <1>6 DEF RefsExact, OpsDefined

(* Every inode is counted exactly, whatever the number of processes,       *)
(* descriptors and files: as long as programs ask of an object only what   *)
(* its type can do, ref_count and open_count are the numbers of the        *)
(* structures that point to the inode over every history of open, dup,     *)
(* close, chdir, getcwd, exec, fork, exit, kill and reads of stdin, so     *)
(* that sfs_reclaim frees nothing that is in use and leaves nothing behind *)
(* but what vfs_open has lost, and no assert on counts or entries fails.   *)
THEOREM RefsCorrect ==
  ASSUME Careful
  PROVE  Spec => []RefsExact
<1>1. Init => StdinInv /\ RefInv /\ InputTypes
  BY InitStdin, InitRefs, InitInput
<1>2. StdinInv /\ RefInv /\ InputTypes /\ [Next]_vars
        => StdinInv' /\ RefInv' /\ InputTypes'
  BY NextStdin, NextRefs, NextInput
<1>3. StdinInv /\ RefInv /\ InputTypes => RefsExact
  BY RefInvExact
<1> QED BY <1>1, <1>2, <1>3, PTL DEF Spec

(* Then no call reaches an operation that the inode's type does not have,  *)
(* either: the assert of __vop_op fails only for programs that create      *)
(* files, truncate directories or ask a directory to be read.              *)
THEOREM OpsCorrect ==
  ASSUME Careful
  PROVE  Spec => []OpsDefined
<1>1. Init => StdinInv /\ RefInv /\ InputTypes
  BY InitStdin, InitRefs, InitInput
<1>2. StdinInv /\ RefInv /\ InputTypes /\ [Next]_vars
        => StdinInv' /\ RefInv' /\ InputTypes'
  BY NextStdin, NextRefs, NextInput
<1>3. StdinInv /\ RefInv /\ InputTypes => OpsDefined
  BY RefInvExact
<1> QED BY <1>1, <1>2, <1>3, PTL DEF Spec

=============================================================================
