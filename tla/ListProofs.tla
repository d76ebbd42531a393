----------------------------- MODULE ListProofs -----------------------------
(***************************************************************************)
(* What the list operations of the kernel models do to the members of a    *)
(* list and to its freedom from duplicates.  The kernel's lists (run       *)
(* queue, children, timers, wait queues) hold every member once.           *)
(***************************************************************************)
EXTENDS Integers, Sequences, SequencesExt, SequenceTheorems, WellFoundedInduction,
        TLAPS

(* Every nonempty set of numbers has a least one: induction without a      *)
(* predicate as a parameter.                                               *)
LEMMA Least ==
  ASSUME NEW T, T \subseteq Nat, T # {}
  PROVE  \E x \in T : \A y \in T : x <= y
<1> DEFINE R == {ss \in Nat \X Nat : ss[1] < ss[2]}
<1>1. IsWellFoundedOn(R, Nat)
  BY NatLessThanWellFounded DEF OpToRel
<1> HIDE DEF R
<1>2. PICK x \in T : \A y \in T : ~(<<y, x>> \in R)
  BY <1>1, WFMin
<1>3. \A y \in T : ~(y < x)
  BY <1>2 DEF R
<1> QED BY <1>2, <1>3

(* The members of a list are in the set it is a list over.                 *)
LEMMA MembersIn ==
  ASSUME NEW A, NEW s \in Seq(A)
  PROVE  ToSet(s) \subseteq A /\ \A i \in DOMAIN s : s[i] \in ToSet(s)
BY DEF ToSet

(* A list is a function on the positions 1..n, and conversely.             *)
LEMMA ListIs ==
  ASSUME NEW A, NEW s \in Seq(A)
  PROVE  /\ Len(s) \in Nat /\ DOMAIN s = 1..Len(s)
         /\ \A i \in 1..Len(s) : s[i] \in A
BY ElementOfSeq

(* A function on the positions 1..n with values in A is a list over A.     *)
LEMMA IsList ==
  ASSUME NEW A, NEW n \in Nat, NEW f \in [1..n -> A]
  PROVE  f \in Seq(A) /\ Len(f) = n
BY SeqDef

(* list_add_before the head of a list that does not hold the element.      *)
LEMMA AppendFacts ==
  ASSUME NEW A, NEW s \in Seq(A), NEW p \in A, p \notin ToSet(s),
         \A i, j \in DOMAIN s : s[i] = s[j] => i = j
  PROVE  /\ Append(s, p) \in Seq(A)
         /\ ToSet(Append(s, p)) = ToSet(s) \cup {p}
         /\ \A i, j \in DOMAIN Append(s, p) :
              Append(s, p)[i] = Append(s, p)[j] => i = j
<1>1. Append(s, p) \in Seq(A) /\ Len(Append(s, p)) = Len(s) + 1
  OBVIOUS
<1>2. DOMAIN s = 1..Len(s) /\ Len(s) \in Nat
      /\ DOMAIN Append(s, p) = 1..(Len(s) + 1)
  BY <1>1
<1>3. /\ \A i \in 1..Len(s) : Append(s, p)[i] = s[i]
      /\ Append(s, p)[Len(s) + 1] = p
  OBVIOUS
<1>4. \A i \in 1..Len(s) : s[i] # p
  BY <1>2 DEF ToSet
<1>5. ToSet(Append(s, p)) = ToSet(s) \cup {p}
  <2>1. ASSUME NEW x \in ToSet(Append(s, p)) PROVE x \in ToSet(s) \cup {p}
    <3>1. PICK i \in 1..(Len(s) + 1) : x = Append(s, p)[i]
      BY <1>2 DEF ToSet
    <3>2. CASE i = Len(s) + 1
      BY <3>1, <3>2, <1>3
    <3>3. CASE i # Len(s) + 1
      <4>1. i \in 1..Len(s)
        BY <3>3, <1>2
      <4> QED BY <4>1, <3>1, <1>3, <1>2 DEF ToSet
    <3> QED BY <3>2, <3>3
  <2>2. ASSUME NEW x \in ToSet(s) PROVE x \in ToSet(Append(s, p))
    <3>1. PICK i \in 1..Len(s) : x = s[i]
      BY <1>2 DEF ToSet
    <3>2. i \in 1..(Len(s) + 1)
      BY <1>2
    <3> QED BY <3>1, <3>2, <1>3, <1>2 DEF ToSet
  <2>3. p \in ToSet(Append(s, p))
    BY <1>2, <1>3 DEF ToSet
  <2> QED BY <2>1, <2>2, <2>3
<1>6. ASSUME NEW i \in DOMAIN Append(s, p), NEW j \in DOMAIN Append(s, p),
             Append(s, p)[i] = Append(s, p)[j]
      PROVE  i = j
  BY <1>2, <1>3, <1>4, <1>6
<1> QED BY <1>1, <1>5, <1>6

(* Taking the first element off a list without duplicates.                 *)
LEMMA TailFacts ==
  ASSUME NEW A, NEW s \in Seq(A), s # <<>>,
         \A i, j \in DOMAIN s : s[i] = s[j] => i = j
  PROVE  /\ Tail(s) \in Seq(A)
         /\ Head(s) \in A /\ Head(s) \in ToSet(s)
         /\ ToSet(Tail(s)) = ToSet(s) \ {Head(s)}
         /\ \A i, j \in DOMAIN Tail(s) : Tail(s)[i] = Tail(s)[j] => i = j
<1>1. /\ Tail(s) \in Seq(A) /\ Len(s) \in Nat \ {0}
      /\ Len(Tail(s)) = Len(s) - 1 /\ Head(s) = s[1]
  OBVIOUS
<1>2. DOMAIN s = 1..Len(s) /\ DOMAIN Tail(s) = 1..(Len(s) - 1)
  BY <1>1
<1>3. \A i \in 1..(Len(s) - 1) : Tail(s)[i] = s[i + 1]
  OBVIOUS
<1>4. Head(s) \in A /\ Head(s) \in ToSet(s)
  <2>1. 1 \in 1..Len(s)
    BY <1>1
  <2> QED BY <2>1, <1>1, <1>2 DEF ToSet
<1>5. ASSUME NEW x \in ToSet(Tail(s)) PROVE x \in ToSet(s) \ {Head(s)}
  <2>1. PICK i \in 1..(Len(s) - 1) : x = s[i + 1]
    BY <1>2, <1>3 DEF ToSet
  <2>2. i + 1 \in 1..Len(s) /\ 1 \in 1..Len(s) /\ i + 1 # 1
    BY <1>1
  <2>3. s[i + 1] # s[1]
    BY <2>2, <1>2
  <2> QED BY <2>1, <2>2, <2>3, <1>1, <1>2 DEF ToSet
<1>6. ASSUME NEW x \in ToSet(s) \ {Head(s)} PROVE x \in ToSet(Tail(s))
  <2>1. PICK i \in 1..Len(s) : x = s[i]
    BY <1>2 DEF ToSet
  <2>2. i # 1
    BY <2>1, <1>1
  <2>3. i - 1 \in 1..(Len(s) - 1) /\ (i - 1) + 1 = i
    BY <2>2, <1>1
  <2>4. Tail(s)[i - 1] = s[i]
    BY <2>3, <1>3
  <2> QED BY <2>1, <2>3, <2>4, <1>2 DEF ToSet
<1>7. ASSUME NEW i \in DOMAIN Tail(s), NEW j \in DOMAIN Tail(s),
             Tail(s)[i] = Tail(s)[j]
      PROVE  i = j
  <2>1. i + 1 \in 1..Len(s) /\ j + 1 \in 1..Len(s) /\ s[i + 1] = s[j + 1]
    BY <1>1, <1>2, <1>3, <1>7
  <2>2. i + 1 = j + 1
    BY <2>1, <1>2
  <2> QED BY <2>2, <1>2
<1> QED BY <1>1, <1>4, <1>5, <1>6, <1>7

(* Two lists one after the other hold the members of both, once each if    *)
(* they have none in common.                                               *)
LEMMA ConcatFacts ==
  ASSUME NEW A, NEW s \in Seq(A), NEW t \in Seq(A)
  PROVE  /\ s \o t \in Seq(A)
         /\ ToSet(s \o t) = ToSet(s) \cup ToSet(t)
         /\ (/\ \A i, j \in DOMAIN s : s[i] = s[j] => i = j
             /\ \A i, j \in DOMAIN t : t[i] = t[j] => i = j
             /\ ToSet(s) \cap ToSet(t) = {})
            => \A i, j \in DOMAIN (s \o t) :
                 (s \o t)[i] = (s \o t)[j] => i = j
<1> DEFINE u == s \o t
           m == Len(s)
           n == Len(t)
<1>1. u \in Seq(A) /\ m \in Nat /\ n \in Nat /\ Len(u) = m + n
  BY ConcatProperties
<1>2. DOMAIN u = 1..(m + n) /\ DOMAIN s = 1..m /\ DOMAIN t = 1..n
  BY <1>1
<1>3. \A i \in 1..(m + n) : u[i] = IF i <= m THEN s[i] ELSE t[i - m]
  BY ConcatProperties
<1> HIDE DEF u
<1>4. ASSUME NEW x \in ToSet(u) PROVE x \in ToSet(s) \cup ToSet(t)
  <2>1. PICK i \in 1..(m + n) : x = u[i]
    BY <1>2 DEF ToSet
  <2>2. i <= m => i \in 1..m
    BY <1>1
  <2>3. ~(i <= m) => i - m \in 1..n
    BY <1>1
  <2> HIDE DEF m, n
  <2> QED BY <1>2, <1>3, <2>1, <2>2, <2>3 DEF ToSet
<1>5. ASSUME NEW x \in ToSet(s) PROVE x \in ToSet(u)
  <2>1. PICK i \in 1..m : x = s[i]
    BY <1>2 DEF ToSet
  <2>2. i \in 1..(m + n) /\ i <= m
    BY <1>1
  <2> QED BY <1>2, <1>3, <2>1, <2>2 DEF ToSet
<1>6. ASSUME NEW x \in ToSet(t) PROVE x \in ToSet(u)
  <2>1. PICK i \in 1..n : x = t[i]
    BY <1>2 DEF ToSet
  <2>2. i + m \in 1..(m + n) /\ ~(i + m <= m) /\ (i + m) - m = i
    BY <1>1
  <2>3. u[i + m] = x
    BY <1>3, <2>1, <2>2
  <2> QED BY <1>2, <2>2, <2>3 DEF ToSet
<1>7. ASSUME \A i, j \in 1..m : s[i] = s[j] => i = j,
             \A i, j \in 1..n : t[i] = t[j] => i = j,
             ToSet(s) \cap ToSet(t) = {},
             NEW i \in 1..(m + n), NEW j \in 1..(m + n), u[i] = u[j]
      PROVE  i = j
  <2>1. \A k \in 1..(m + n) :
          /\ k <= m => k \in 1..m /\ u[k] = s[k] /\ u[k] \in ToSet(s)
          /\ ~(k <= m) => k - m \in 1..n /\ u[k] = t[k - m] /\ u[k] \in ToSet(t)
    <3> SUFFICES ASSUME NEW k \in 1..(m + n)
                 PROVE  /\ k <= m => k \in 1..m /\ u[k] = s[k] /\ u[k] \in ToSet(s)
                        /\ ~(k <= m) => /\ k - m \in 1..n /\ u[k] = t[k - m]
                                        /\ u[k] \in ToSet(t)
      OBVIOUS
    <3>1. (k <= m => k \in 1..m) /\ (~(k <= m) => k - m \in 1..n)
      BY <1>1
    <3>2. u[k] = IF k <= m THEN s[k] ELSE t[k - m]
      BY <1>3
    <3> HIDE DEF m, n
    <3> QED BY <1>2, <3>1, <3>2 DEF ToSet
  <2>2. CASE i <= m /\ j <= m
    BY <1>7, <2>1, <2>2
  <2>3. CASE ~(i <= m) /\ ~(j <= m)
    <3>1. i - m = j - m
      BY <1>7, <2>1, <2>3
    <3> QED BY <3>1, <1>1
  <2>4. CASE (i <= m /\ ~(j <= m)) \/ (j <= m /\ ~(i <= m))
    BY <1>7, <2>1, <2>4
  <2> QED BY <2>2, <2>3, <2>4
<1>8. ToSet(u) = ToSet(s) \cup ToSet(t)
  BY <1>4, <1>5, <1>6
<1> QED BY <1>1, <1>2, <1>7, <1>8 DEF u

(* list_add_after the head of a list.                                      *)
LEMMA PushFacts ==
  ASSUME NEW A, NEW s \in Seq(A), NEW p \in A
  PROVE  /\ <<p>> \o s \in Seq(A)
         /\ ToSet(<<p>> \o s) = ToSet(s) \cup {p}
         /\ (p \notin ToSet(s) /\ \A i, j \in DOMAIN s : s[i] = s[j] => i = j)
            => \A i, j \in DOMAIN (<<p>> \o s) :
                 (<<p>> \o s)[i] = (<<p>> \o s)[j] => i = j
<1> DEFINE o == <<p>>
<1>1. o \in Seq(A) /\ DOMAIN o = {1} /\ o[1] = p
  OBVIOUS
<1>2. ToSet(o) = {p} /\ \A i, j \in DOMAIN o : o[i] = o[j] => i = j
  BY <1>1 DEF ToSet
<1> HIDE DEF o
<1>3. o \o s \in Seq(A) /\ ToSet(o \o s) = ToSet(o) \cup ToSet(s)
  BY <1>1, ConcatFacts
<1>4. ASSUME p \notin ToSet(s), \A i, j \in DOMAIN s : s[i] = s[j] => i = j
      PROVE  \A i, j \in DOMAIN (o \o s) : (o \o s)[i] = (o \o s)[j] => i = j
  <2>1. ToSet(o) \cap ToSet(s) = {}
    BY <1>2, <1>4
  <2> QED BY <1>1, <1>2, <1>4, <2>1, ConcatFacts
<1> QED BY <1>2, <1>3, <1>4 DEF o

(* Reversing a list keeps its members.                                     *)
LEMMA ReverseFacts ==
  ASSUME NEW A, NEW s \in Seq(A)
  PROVE  /\ Reverse(s) \in Seq(A)
         /\ ToSet(Reverse(s)) = ToSet(s)
         /\ (\A i, j \in DOMAIN s : s[i] = s[j] => i = j)
            => \A i, j \in DOMAIN Reverse(s) :
                 Reverse(s)[i] = Reverse(s)[j] => i = j
<1> DEFINE n == Len(s)
           r == Reverse(s)
<1>1. n \in Nat /\ DOMAIN s = 1..n /\ \A i \in 1..n : s[i] \in A
  BY ElementOfSeq
<1>2. r = [i \in 1..n |-> s[(n - i) + 1]]
  BY DEF Reverse
<1>3. \A i \in 1..n : (n - i) + 1 \in 1..n /\ (n - ((n - i) + 1)) + 1 = i
  BY <1>1
<1> HIDE DEF n, r
<1>4. r \in [1..n -> A]
  BY <1>1, <1>2, <1>3
<1>5. r \in Seq(A) /\ DOMAIN r = 1..n /\ \A i \in 1..n : r[i] = s[(n - i) + 1]
  BY <1>1, <1>2, <1>4, SeqDef
<1>6. \A x \in ToSet(r) : x \in ToSet(s)
  BY <1>1, <1>3, <1>5 DEF ToSet
<1>7. ASSUME NEW x \in ToSet(s) PROVE x \in ToSet(r)
  <2>1. PICK i \in 1..n : x = s[i]
    BY <1>1 DEF ToSet
  <2>2. r[(n - i) + 1] = x /\ (n - i) + 1 \in DOMAIN r
    BY <1>3, <1>5, <2>1
  <2> QED BY <2>2 DEF ToSet
<1>8. ASSUME \A i, j \in DOMAIN s : s[i] = s[j] => i = j,
             NEW i \in 1..n, NEW j \in 1..n, r[i] = r[j]
      PROVE  i = j
  <2>1. (n - i) + 1 = (n - j) + 1
    BY <1>1, <1>3, <1>5, <1>8
  <2> QED BY <2>1, <1>1
<1> QED BY <1>5, <1>6, <1>7, <1>8 DEF r

(* list_del of the element at position k: the others keep their order.     *)
LEMMA RemoveAtIs ==
  ASSUME NEW A, NEW s \in Seq(A), NEW k \in 1..Len(s)
  PROVE  /\ RemoveAt(s, k) \in Seq(A)
         /\ Len(RemoveAt(s, k)) = Len(s) - 1
         /\ \A i \in 1..(Len(s) - 1) :
              RemoveAt(s, k)[i] = IF i < k THEN s[i] ELSE s[i + 1]
<1> DEFINE n == Len(s)
           u == SubSeq(s, 1, k - 1)
           v == SubSeq(s, k + 1, n)
<1>1. n \in Nat /\ k \in Int /\ \A i \in 1..n : s[i] \in A
  BY ElementOfSeq
<1> HIDE DEF n
<1>2. \A i \in 1..(k - 1) : s[i] \in A
  BY <1>1 DEF n
<1>3. \A i \in (k + 1)..n : s[i] \in A
  BY <1>1 DEF n
<1>4. /\ u \in Seq(A) /\ Len(u) = IF 1 <= k - 1 THEN (k - 1) - 1 + 1 ELSE 0
      /\ \A i \in 1..((k - 1) - 1 + 1) : u[i] = s[1 + i - 1]
  BY <1>1, <1>2, SubSeqProperties
<1>5. /\ v \in Seq(A) /\ Len(v) = IF k + 1 <= n THEN n - (k + 1) + 1 ELSE 0
      /\ \A i \in 1..(n - (k + 1) + 1) : v[i] = s[(k + 1) + i - 1]
  BY <1>1, <1>3, SubSeqProperties
<1>6. k >= 1 /\ k <= n
  BY DEF n
<1>7. Len(u) = k - 1 /\ Len(v) = n - k
  BY <1>1, <1>4, <1>5, <1>6
<1>8. \A i \in 1..(k - 1) : u[i] = s[i]
  BY <1>1, <1>4
<1>9. \A i \in 1..(n - k) : v[i] = s[k + i]
  BY <1>1, <1>5
<1> HIDE DEF u, v
<1>10. /\ u \o v \in Seq(A) /\ Len(u \o v) = Len(u) + Len(v)
       /\ \A i \in 1..(Len(u) + Len(v)) : (u \o v)[i] =
            IF i <= Len(u) THEN u[i] ELSE v[i - Len(u)]
  BY <1>4, <1>5, ConcatProperties
<1>11. Len(u \o v) = n - 1
  BY <1>1, <1>7, <1>10
<1>12. ASSUME NEW i \in 1..(n - 1)
       PROVE  (u \o v)[i] = IF i < k THEN s[i] ELSE s[i + 1]
  <2>1. CASE i < k
    <3>1. i \in 1..(k - 1) /\ i <= k - 1 /\ i \in 1..((k - 1) + (n - k))
      BY <1>1, <1>6, <2>1
    <3> QED BY <1>7, <1>8, <1>10, <2>1, <3>1
  <2>2. CASE ~(i < k)
    <3>1. /\ ~(i <= k - 1) /\ i \in 1..((k - 1) + (n - k))
          /\ i - (k - 1) \in 1..(n - k) /\ k + (i - (k - 1)) = i + 1
      BY <1>1, <1>6, <2>2
    <3>2. (u \o v)[i] = v[i - (k - 1)]
      BY <1>7, <1>10, <3>1
    <3>3. v[i - (k - 1)] = s[k + (i - (k - 1))]
      BY <1>9, <3>1
    <3> QED BY <2>2, <3>1, <3>2, <3>3
  <2> QED BY <2>1, <2>2
<1>13. RemoveAt(s, k) = u \o v
  BY DEF RemoveAt, u, v, n
<1> QED BY <1>10, <1>11, <1>12, <1>13 DEF n

(* A list without duplicates loses exactly the element removed.            *)
LEMMA RemoveAtFacts ==
  ASSUME NEW A, NEW s \in Seq(A), NEW k \in DOMAIN s,
         \A i, j \in DOMAIN s : s[i] = s[j] => i = j
  PROVE  /\ RemoveAt(s, k) \in Seq(A)
         /\ ToSet(RemoveAt(s, k)) = ToSet(s) \ {s[k]}
         /\ \A i, j \in DOMAIN RemoveAt(s, k) :
              RemoveAt(s, k)[i] = RemoveAt(s, k)[j] => i = j
<1> DEFINE n == Len(s)
           u == RemoveAt(s, k)
<1>0. k \in 1..Len(s)
  OBVIOUS
<1>1. n \in Nat /\ DOMAIN s = 1..n /\ k \in 1..n
  BY ElementOfSeq
<1>2. /\ u \in Seq(A) /\ Len(u) = n - 1
      /\ \A i \in 1..(n - 1) : u[i] = IF i < k THEN s[i] ELSE s[i + 1]
  BY <1>0, RemoveAtIs, Zenon
<1>3. DOMAIN u = 1..(n - 1)
  BY <1>2
<1> HIDE DEF n, u
<1>4. ASSUME NEW x \in ToSet(u) PROVE x \in ToSet(s) \ {s[k]}
  <2>1. PICK i \in 1..(n - 1) : x = u[i]
    BY <1>3 DEF ToSet
  <2>2. CASE i < k
    <3>1. i \in 1..n /\ i # k /\ x = s[i]
      BY <1>1, <1>2, <2>1, <2>2
    <3> QED BY <1>1, <3>1 DEF ToSet
  <2>3. CASE ~(i < k)
    <3>1. i + 1 \in 1..n /\ i + 1 # k /\ x = s[i + 1]
      BY <1>1, <1>2, <2>1, <2>3
    <3> QED BY <1>1, <3>1 DEF ToSet
  <2> QED BY <2>2, <2>3
<1>5. ASSUME NEW x \in ToSet(s) \ {s[k]} PROVE x \in ToSet(u)
  <2>1. PICK i \in 1..n : x = s[i] /\ i # k
    BY <1>1 DEF ToSet
  <2>2. CASE i < k
    <3>1. i \in 1..(n - 1)
      BY <1>1, <2>2
    <3>2. u[i] = x
      BY <1>2, <2>1, <2>2, <3>1
    <3> QED BY <1>3, <3>1, <3>2 DEF ToSet
  <2>3. CASE ~(i < k)
    <3>1. i - 1 \in 1..(n - 1) /\ ~(i - 1 < k) /\ (i - 1) + 1 = i
      BY <1>1, <2>1, <2>3
    <3>2. u[i - 1] = x
      BY <1>2, <2>1, <3>1
    <3> QED BY <1>3, <3>1, <3>2 DEF ToSet
  <2> QED BY <2>2, <2>3
<1>6. ASSUME NEW i \in 1..(n - 1), NEW j \in 1..(n - 1), u[i] = u[j]
      PROVE  i = j
  <2>1. /\ i \in 1..n /\ i + 1 \in 1..n /\ j \in 1..n /\ j + 1 \in 1..n
    BY <1>1
  <2>2. /\ u[i] = IF i < k THEN s[i] ELSE s[i + 1]
        /\ u[j] = IF j < k THEN s[j] ELSE s[j + 1]
    BY <1>2
  <2>3. (IF i < k THEN i ELSE i + 1) = (IF j < k THEN j ELSE j + 1)
    BY <1>1, <1>6, <2>1, <2>2
  <2> QED BY <1>1, <2>3
<1> QED BY <1>2, <1>3, <1>4, <1>5, <1>6 DEF u

(* list_add_before the element at position k, or at the end.               *)
LEMMA InsertAtIs ==
  ASSUME NEW A, NEW s \in Seq(A), NEW k \in 1..(Len(s) + 1), NEW e \in A
  PROVE  /\ InsertAt(s, k, e) \in Seq(A)
         /\ Len(InsertAt(s, k, e)) = Len(s) + 1
         /\ \A i \in 1..(Len(s) + 1) :
              InsertAt(s, k, e)[i] = IF i < k THEN s[i]
                                     ELSE IF i = k THEN e ELSE s[i - 1]
<1> DEFINE n == Len(s)
           o == <<e>>
           u == SubSeq(s, 1, k - 1)
           v == SubSeq(s, k, n)
           w == u \o o
<1>1. n \in Nat /\ k \in Int /\ \A i \in 1..n : s[i] \in A
  BY ElementOfSeq
<1>2. k >= 1 /\ k <= n + 1
  BY <1>1
<1>o. o \in Seq(A) /\ Len(o) = 1 /\ o[1] = e
  OBVIOUS
<1> HIDE DEF n, o
<1>3. \A i \in 1..(k - 1) : s[i] \in A
  BY <1>1, <1>2
<1>4. \A i \in k..n : s[i] \in A
  BY <1>1, <1>2
<1>5. /\ u \in Seq(A) /\ Len(u) = IF 1 <= k - 1 THEN (k - 1) - 1 + 1 ELSE 0
      /\ \A i \in 1..((k - 1) - 1 + 1) : u[i] = s[1 + i - 1]
  BY <1>1, <1>3, SubSeqProperties
<1>6. /\ v \in Seq(A) /\ Len(v) = IF k <= n THEN n - k + 1 ELSE 0
      /\ \A i \in 1..(n - k + 1) : v[i] = s[k + i - 1]
  BY <1>1, <1>4, SubSeqProperties
<1>7. Len(u) = k - 1 /\ Len(v) = (n - k) + 1
  BY <1>1, <1>2, <1>5, <1>6
<1>8. \A i \in 1..(k - 1) : u[i] = s[i]
  BY <1>1, <1>5
<1>9. \A i \in 1..((n - k) + 1) : v[i] = s[(k + i) - 1]
  BY <1>1, <1>6
<1> HIDE DEF u, v
<1>10. /\ w \in Seq(A) /\ Len(w) = Len(u) + Len(o)
       /\ \A i \in 1..(Len(u) + Len(o)) : w[i] =
            IF i <= Len(u) THEN u[i] ELSE o[i - Len(u)]
  BY <1>5, <1>o, ConcatProperties
<1>11. Len(w) = k /\ w[k] = e /\ \A i \in 1..(k - 1) : w[i] = s[i]
  <2>1. Len(w) = k
    BY <1>1, <1>7, <1>10, <1>o
  <2>2. k \in 1..(Len(u) + Len(o)) /\ ~(k <= Len(u)) /\ k - Len(u) = 1
    BY <1>1, <1>2, <1>7, <1>o
  <2>3. \A i \in 1..(k - 1) : i \in 1..(Len(u) + Len(o)) /\ i <= Len(u)
    BY <1>1, <1>7, <1>o
  <2> QED BY <1>8, <1>10, <1>o, <1>7, <2>1, <2>2, <2>3
<1> HIDE DEF w
<1>12. /\ w \o v \in Seq(A) /\ Len(w \o v) = Len(w) + Len(v)
       /\ \A i \in 1..(Len(w) + Len(v)) : (w \o v)[i] =
            IF i <= Len(w) THEN w[i] ELSE v[i - Len(w)]
  <2>1. w \in Seq(A) /\ v \in Seq(A)
    BY <1>6, <1>10
  <2> QED BY <2>1, ConcatProperties
<1>13. Len(w \o v) = n + 1
  BY <1>1, <1>7, <1>11, <1>12
<1>14. ASSUME NEW i \in 1..(n + 1)
       PROVE  (w \o v)[i] = IF i < k THEN s[i]
                            ELSE IF i = k THEN e ELSE s[i - 1]
  <2>1. i \in 1..(Len(w) + Len(v))
    BY <1>1, <1>7, <1>11
  <2>2. CASE i < k
    <3>1. i \in 1..(k - 1) /\ i <= k
      BY <1>1, <2>2
    <3> QED BY <1>11, <1>12, <2>1, <2>2, <3>1
  <2>3. CASE i = k
    <3>1. k <= k /\ ~(k < k)
      BY <1>1
    <3> QED BY <1>11, <1>12, <2>1, <2>3, <3>1
  <2>4. CASE ~(i < k) /\ i # k
    <3>1. /\ ~(i <= k) /\ i - k \in 1..((n - k) + 1)
          /\ (k + (i - k)) - 1 = i - 1
      BY <1>1, <1>2, <2>4
    <3>2. (w \o v)[i] = v[i - k]
      BY <1>11, <1>12, <2>1, <3>1
    <3>3. v[i - k] = s[(k + (i - k)) - 1]
      BY <1>9, <3>1
    <3> QED BY <2>4, <3>1, <3>2, <3>3
  <2> QED BY <2>2, <2>3, <2>4
<1>15. InsertAt(s, k, e) = w \o v
  BY DEF InsertAt, u, v, w, o, n
<1> QED BY <1>12, <1>13, <1>14, <1>15 DEF n

=============================================================================
