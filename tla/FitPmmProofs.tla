---------------------------- MODULE FitPmmProofs ----------------------------
(***************************************************************************)
(* Proofs about the page allocators of FitPmm, for any number of pages and *)
(* for both managers, when callers never take all of the last free block:  *)
(* the free list is exact between any two calls, and alloc_pages fails     *)
(* only if there is no run of free pages that is long enough.              *)
(***************************************************************************)
EXTENDS FitPmm, FiniteSetTheorems, TLAPS

(* The first pages of free blocks.                                         *)
Marked == {p \in Page : flag[p]}

(* The nodes X are linked both ways, in the order of their addresses.      *)
(* Head comes last, as the number of a page that does not exist.           *)
Chain(L, X) ==
  /\ \A p \in X \cup {Head} :
       /\ L.next[p] \in X \cup {Head} /\ L.prev[p] \in X \cup {Head}
       /\ L.prev[L.next[p]] = p /\ L.next[L.prev[p]] = p
  /\ \A p \in X : p < L.next[p] /\ L.next[Head] <= p
  /\ \A p, q \in X : p < q => L.next[p] <= q

(* The blocks that begin at X, of the sizes pr, are the pages outside of   *)
(* own.                                                                    *)
Tiles(pr, X, own) ==
  /\ \A p \in X : pr[p] >= 1 /\ p + pr[p] <= NPage
  /\ \A p, q \in X : p < q => p + pr[p] <= q
  /\ \A x \in Page : x \notin own <=> \E p \in X : p <= x /\ x < p + pr[p]

(* No two of them touch, except for one of A with a later one, and for one *)
(* of B with an earlier one.                                               *)
ApartBut(pr, X, A, B) ==
  \A p, q \in X : p < q /\ p \notin A /\ q \notin B => p + pr[p] < q

(* The block being freed is not in the list before its place is found, and *)
(* may touch others until it is merged with them.                          *)
InList == IF call.op = "free" THEN Marked \ {call.base} ELSE Marked
Loose  == IF call.op \in {"free", "merge"} THEN {call.base} ELSE {}

(* What a call in its loop has found out.                                  *)
Progress ==
  /\ call.op = "alloc" =>
       /\ call.n \in 1..NPage
       /\ call.le \in Marked \cup {Head} /\ call.best \in Marked \cup {Head}
       /\ \A p \in Marked : p + property[p] = NPage => property[p] # call.n
       /\ call.best # Head => property[call.best] >= call.n
       /\ call.best = Head /\ call.le # Head =>
            \A p \in Marked : p <= call.le => property[p] < call.n
       /\ pmm_manager = "default" => call.best = Head
  /\ call.op = "null" =>
       /\ call.n \in 1..NPage
       /\ call.n > nr_free \/ \A p \in Marked : property[p] < call.n
  /\ call.op \in {"free", "merge"} => call.base \in Marked
  /\ call.op = "free" =>
       /\ call.le \in InList \cup {Head}
       /\ call.le # Head => call.le < call.base
       /\ call.base + property[call.base] < NPage

(* The inductive invariant.                                                *)
FitInv ==
  /\ TypeOK /\ ~oops
  /\ Chain(links, InList)
  /\ Tiles(property, Marked, owned)
  /\ ApartBut(property, Marked, Loose, Loose)
  /\ nr_free = Cardinality(Page \ owned) /\ NPage - 1 \notin owned
  /\ Progress

-----------------------------------------------------------------------------

(* Every nonempty set of numbers has a least one: induction without a      *)
(* predicate as a parameter.                                               *)
LEMMA Least ==
  ASSUME NEW T, T \subseteq Nat, T # {}
  PROVE  \E x \in T : \A y \in T : x <= y
<1> DEFINE R == {ss \in Nat \X Nat : ss[1] < ss[2]}
<1>1. IsWellFoundedOn(R, Nat)
  BY NatLessThanWellFounded DEF OpToRel
<1> HIDE DEF R
<1>2. PICK x \in T : \A y \in T : ~(<<y, x>> \in R)
  BY <1>1, WFMin
<1>3. \A y \in T : ~(y < x)
  BY <1>2 DEF R
<1> QED BY <1>2, <1>3

(* The pages are numbered from 0, and the head of the list comes after     *)
(* them.                                                                   *)
LEMMA PageFacts ==
  /\ NPage \in Nat \ {0} /\ Head = NPage /\ Head \in Node /\ Head \notin Page
  /\ \A p \in Node : p \in Nat /\ p <= NPage
  /\ \A p \in Page : p \in Node /\ p \in Nat /\ p < NPage /\ p # Head
  /\ \A p \in Node : p # Head => p \in Page
BY NPageAssumption DEF Head, Node, Page

Links == [next : [Node -> Node], prev : [Node -> Node]]

(* Both pointers of every node lead to a node.                             *)
LEMMA LinkFacts ==
  ASSUME NEW L \in Links
  PROVE  L.next \in [Node -> Node] /\ L.prev \in [Node -> Node]
BY DEF Links

(* The neighbours of a node in a list.                                     *)
LEMMA ChainFacts ==
  ASSUME NEW L \in Links, NEW X \in SUBSET Page, Chain(L, X), NEW q \in X
  PROVE  /\ L.next[q] \in X \cup {Head} /\ L.prev[q] \in X \cup {Head}
         /\ L.next[L.prev[q]] = q /\ L.prev[L.next[q]] = q
         /\ q < L.next[q] /\ (L.prev[q] # Head => L.prev[q] < q)
         /\ L.prev[q] # q /\ L.next[q] # q
<1>1. /\ L.next[q] \in X \cup {Head} /\ L.prev[q] \in X \cup {Head}
      /\ L.next[L.prev[q]] = q /\ L.prev[L.next[q]] = q
      /\ q < L.next[q] /\ (L.prev[q] \in X => L.prev[q] < L.next[L.prev[q]])
  BY DEF Chain
<1>2. q \in Nat /\ q # Head /\ L.next[q] \in Nat
  BY <1>1, PageFacts
<1> QED BY <1>1, <1>2

(* list_del takes one node out.                                            *)
LEMMA ChainDel ==
  ASSUME NEW L \in Links, NEW X \in SUBSET Page, Chain(L, X), NEW q \in X
  PROVE  ListDel(L, q) \in Links /\ Chain(ListDel(L, q), X \ {q})
<1> DEFINE a == L.prev[q]
           b == L.next[q]
           Y == X \ {q}
           M == ListDel(L, q)
<1>1. /\ a \in X \cup {Head} /\ b \in X \cup {Head} /\ L.next[a] = q /\ L.prev[b] = q
      /\ q < b /\ (a # Head => a < q) /\ a # q /\ b # q
  BY ChainFacts
<1>2. /\ \A p \in X \cup {Head} :
            /\ L.next[p] \in X \cup {Head} /\ L.prev[p] \in X \cup {Head}
            /\ L.prev[L.next[p]] = p /\ L.next[L.prev[p]] = p
      /\ \A p \in X : p < L.next[p] /\ L.next[Head] <= p
      /\ \A p, r \in X : p < r => L.next[p] <= r
  BY DEF Chain
<1>3. /\ X \cup {Head} \subseteq Node /\ q \in Node /\ a \in Node /\ b \in Node
      /\ \A p \in Node : p \in Nat
      /\ L.next \in [Node -> Node] /\ L.prev \in [Node -> Node]
  BY <1>1, PageFacts, LinkFacts
<1>4. /\ M.next = [L.next EXCEPT ![a] = b] /\ M.prev = [L.prev EXCEPT ![b] = a]
      /\ M = [next |-> M.next, prev |-> M.prev]
  BY DEF ListDel
<1> HIDE DEF a, b, M, Y
<1>5. /\ \A p \in Node : M.next[p] = IF p = a THEN b ELSE L.next[p]
      /\ \A p \in Node : M.prev[p] = IF p = b THEN a ELSE L.prev[p]
      /\ M \in Links
  BY <1>3, <1>4 DEF Links
<1>6. \A p \in Y \cup {Head} : p \in X \cup {Head} /\ p # q /\ p \in Node
  BY <1>3, PageFacts DEF Y
<1>7. ASSUME NEW p \in Y \cup {Head}
      PROVE  M.next[p] \in Y \cup {Head} /\ M.prev[M.next[p]] = p
  <2>1. CASE p = a
    BY <1>1, <1>3, <1>5, <2>1 DEF Y
  <2>2. CASE p # a
    <3>1. L.next[p] \in X \cup {Head} /\ L.prev[L.next[p]] = p
      BY <1>2, <1>6
    <3>2. L.next[p] # q /\ L.next[p] # b
      BY <1>1, <1>6, <2>2, <3>1 DEF a
    <3> QED BY <1>3, <1>5, <1>6, <2>2, <3>1, <3>2 DEF Y
  <2> QED BY <2>1, <2>2
<1>8. ASSUME NEW p \in Y \cup {Head}
      PROVE  M.prev[p] \in Y \cup {Head} /\ M.next[M.prev[p]] = p
  <2>1. CASE p = b
    BY <1>1, <1>3, <1>5, <2>1 DEF Y
  <2>2. CASE p # b
    <3>1. L.prev[p] \in X \cup {Head} /\ L.next[L.prev[p]] = p
      BY <1>2, <1>6
    <3>2. L.prev[p] # q /\ L.prev[p] # a
      BY <1>1, <1>6, <2>2, <3>1 DEF b
    <3> QED BY <1>3, <1>5, <1>6, <2>2, <3>1, <3>2 DEF Y
  <2> QED BY <2>1, <2>2
<1>9. \A p \in Y : p \in X /\ p # q /\ p # Head /\ p \in Nat /\ p \in Node
  BY <1>3, PageFacts DEF Y
<1>10. ASSUME NEW p \in Y
       PROVE  p < M.next[p] /\ M.next[Head] <= p
  <2>1. p < M.next[p]
    <3>1. CASE p = a
      BY <1>1, <1>3, <1>5, <1>9, <3>1
    <3>2. CASE p # a
      BY <1>2, <1>5, <1>9, <3>2
    <3> QED BY <3>1, <3>2
  <2>2. M.next[Head] <= p
    <3>1. CASE a = Head
      <4>1. q <= p /\ q # p
        BY <1>1, <1>2, <1>9, <3>1
      <4>2. q < p
        BY <1>3, <1>9, <4>1
      <4> QED BY <1>2, <1>3, <1>5, <1>9, <3>1, <4>2 DEF b
    <3>2. CASE a # Head
      BY <1>2, <1>5, <1>9, <3>2, PageFacts
    <3> QED BY <3>1, <3>2
  <2> QED BY <2>1, <2>2
<1>11. ASSUME NEW p \in Y, NEW r \in Y, p < r
       PROVE  M.next[p] <= r
  <2>1. L.next[p] <= r
    BY <1>2, <1>9, <1>11
  <2>2. CASE p = a
    <3>1. q < r
      BY <1>1, <1>3, <1>9, <2>1, <2>2
    <3> QED BY <1>2, <1>3, <1>5, <1>9, <2>2, <3>1 DEF b
  <2>3. CASE p # a
    BY <1>5, <1>9, <2>1, <2>3
  <2> QED BY <2>2, <2>3
<1> QED BY <1>5, <1>7, <1>8, <1>10, <1>11 DEF Chain, M, Y

(* __list_add puts a node between two neighbours.                          *)
LEMMA ChainAdd ==
  ASSUME NEW L \in Links, NEW X \in SUBSET Page, Chain(L, X),
         NEW e \in Page, e \notin X, NEW a \in X \cup {Head},
         a # Head => a < e, e < L.next[a]
  PROVE  /\ Link(L, e, a, L.next[a]) \in Links
         /\ Chain(Link(L, e, a, L.next[a]), X \cup {e})
<1> DEFINE b == L.next[a]
           Y == X \cup {e}
           M == Link(L, e, a, b)
<1>2. /\ \A p \in X \cup {Head} :
            /\ L.next[p] \in X \cup {Head} /\ L.prev[p] \in X \cup {Head}
            /\ L.prev[L.next[p]] = p /\ L.next[L.prev[p]] = p
      /\ \A p \in X : p < L.next[p] /\ L.next[Head] <= p
      /\ \A p, r \in X : p < r => L.next[p] <= r
  BY DEF Chain
<1>1. b \in X \cup {Head} /\ L.prev[b] = a
  BY <1>2
<1>3. /\ X \cup {Head} \subseteq Node /\ e \in Node /\ a \in Node /\ b \in Node
      /\ \A p \in Node : p \in Nat
      /\ L.next \in [Node -> Node] /\ L.prev \in [Node -> Node]
      /\ a # e /\ b # e /\ e # Head
  BY <1>1, PageFacts, LinkFacts
<1>4. /\ M.next = [L.next EXCEPT ![a] = e, ![e] = b]
      /\ M.prev = [L.prev EXCEPT ![b] = e, ![e] = a]
      /\ M = [next |-> M.next, prev |-> M.prev]
  BY DEF Link
<1>0. e < b
  OBVIOUS
<1> HIDE DEF b, M, Y
<1>5. /\ \A p \in Node : M.next[p] = IF p = e THEN b ELSE IF p = a THEN e ELSE L.next[p]
      /\ \A p \in Node : M.prev[p] = IF p = e THEN a ELSE IF p = b THEN e ELSE L.prev[p]
      /\ M \in Links
  BY <1>3, <1>4 DEF Links
<1>6. \A p \in Y \cup {Head} : p \in Node /\ (p # e => p \in X \cup {Head})
  BY <1>3, PageFacts DEF Y
<1>7. ASSUME NEW p \in Y \cup {Head}
      PROVE  M.next[p] \in Y \cup {Head} /\ M.prev[M.next[p]] = p
  <2>1. CASE p = e
    BY <1>1, <1>3, <1>5, <2>1 DEF Y
  <2>2. CASE p = a
    BY <1>3, <1>5, <2>2 DEF Y
  <2>3. CASE p # a /\ p # e
    <3>1. L.next[p] \in X \cup {Head} /\ L.prev[L.next[p]] = p
      BY <1>2, <1>6, <2>3
    <3>2. L.next[p] # e /\ L.next[p] # b
      BY <1>1, <1>3, <2>3, <3>1
    <3> QED BY <1>3, <1>5, <1>6, <2>3, <3>1, <3>2 DEF Y
  <2> QED BY <2>1, <2>2, <2>3
<1>8. ASSUME NEW p \in Y \cup {Head}
      PROVE  M.prev[p] \in Y \cup {Head} /\ M.next[M.prev[p]] = p
  <2>1. CASE p = e
    BY <1>1, <1>3, <1>5, <2>1 DEF Y
  <2>2. CASE p = b
    BY <1>3, <1>5, <2>2 DEF Y
  <2>3. CASE p # b /\ p # e
    <3>1. L.prev[p] \in X \cup {Head} /\ L.next[L.prev[p]] = p
      BY <1>2, <1>6, <2>3
    <3>2. L.prev[p] # e /\ L.prev[p] # a
      BY <1>1, <1>3, <2>3, <3>1 DEF b
    <3> QED BY <1>3, <1>5, <1>6, <2>3, <3>1, <3>2 DEF Y
  <2> QED BY <2>1, <2>2, <2>3
<1>9. \A p \in Y : p # Head /\ p \in Nat /\ p \in Node /\ (p # e => p \in X)
  BY <1>3, PageFacts DEF Y
<1>10. ASSUME NEW p \in Y
       PROVE  p < M.next[p] /\ M.next[Head] <= p
  <2>1. p < M.next[p]
    <3>1. CASE p = e
      BY <1>0, <1>3, <1>5, <3>1
    <3>2. CASE p = a
      BY <1>3, <1>5, <1>9, <3>2
    <3>3. CASE p # a /\ p # e
      BY <1>2, <1>5, <1>9, <3>3
    <3> QED BY <3>1, <3>2, <3>3
  <2>2. M.next[Head] <= p
    <3>1. CASE a = Head /\ p = e
      BY <1>3, <1>5, <1>9, <3>1, PageFacts
    <3>2. CASE a = Head /\ p # e
      <4>1. b <= p /\ e < b
        BY <1>0, <1>2, <1>9, <3>2 DEF b
      <4>2. M.next[Head] = e
        BY <1>3, <1>5, <3>2, PageFacts
      <4> QED BY <1>3, <1>9, <4>1, <4>2
    <3>3. CASE a # Head /\ p # e
      BY <1>2, <1>3, <1>5, <1>9, <3>3, PageFacts
    <3>4. CASE a # Head /\ p = e
      <4>1. M.next[Head] = L.next[Head]
        BY <1>3, <1>5, <3>4, PageFacts
      <4>2. L.next[Head] <= a /\ a < e
        BY <1>2, <3>4
      <4>3. L.next[Head] \in Nat
        BY <1>3, PageFacts
      <4> QED BY <1>3, <3>4, <4>1, <4>2, <4>3
    <3> QED BY <3>1, <3>2, <3>3, <3>4
  <2> QED BY <2>1, <2>2
<1>11. ASSUME NEW p \in Y, NEW r \in Y, p < r
       PROVE  M.next[p] <= r
  <2>1. CASE p = e
    <3>1. r \in X
      BY <1>9, <1>11, <2>1
    <3>2. CASE a = Head
      BY <1>2, <1>3, <1>5, <2>1, <3>1, <3>2 DEF b
    <3>3. CASE a # Head
      <4>1. a < r
        BY <1>3, <1>9, <1>11, <2>1, <3>3
      <4> QED BY <1>2, <1>3, <1>5, <2>1, <3>1, <3>3, <4>1 DEF b
    <3> QED BY <3>2, <3>3
  <2>2. CASE p = a
    <3>1. M.next[p] = e
      BY <1>3, <1>5, <2>2
    <3>2. CASE r = e
      BY <1>3, <3>1, <3>2
    <3>3. CASE r # e
      <4>1. b <= r
        BY <1>2, <1>3, <1>9, <1>11, <2>2, <3>3 DEF b
      <4> QED BY <1>0, <1>3, <1>9, <3>1, <4>1
    <3> QED BY <3>2, <3>3
  <2>3. CASE p # a /\ p # e
    <3>1. p \in X /\ M.next[p] = L.next[p]
      BY <1>5, <1>9, <2>3
    <3>2. CASE r # e
      BY <1>2, <1>9, <1>11, <3>1, <3>2
    <3>3. CASE r = e
      <4>1. a # Head /\ p < a
        <5>1. a # Head
          BY <1>0, <1>2, <1>3, <1>9, <1>11, <3>1, <3>3 DEF b
        <5>2. ~(a < p)
          BY <1>0, <1>2, <1>3, <1>9, <1>11, <3>1, <3>3, <5>1 DEF b
        <5> QED BY <1>3, <1>9, <2>3, <5>1, <5>2
      <4>2. L.next[p] <= a /\ a < e
        BY <1>2, <3>1, <4>1
      <4>3. L.next[p] \in Nat
        BY <1>3, <1>9
      <4> QED BY <1>3, <3>1, <3>3, <4>2, <4>3
    <3> QED BY <3>2, <3>3
  <2> QED BY <2>1, <2>2, <2>3
<1> QED BY <1>5, <1>7, <1>8, <1>10, <1>11 DEF Chain, M, Y, b
-----------------------------------------------------------------------------
(* Blocks *)

Sizes == [Page -> 0..NPage]

(* A block lies within memory, before the next one, and nobody holds its   *)
(* pages.                                                                  *)
LEMMA TileFacts ==
  ASSUME NEW pr \in Sizes, NEW X \in SUBSET Page, NEW own \in SUBSET Page,
         Tiles(pr, X, own), NEW p \in X
  PROVE  /\ p \in Nat /\ p < NPage /\ pr[p] \in Nat /\ pr[p] >= 1 /\ p + pr[p] <= NPage
         /\ \A q \in X : q \in Nat /\ (p < q => p + pr[p] <= q)
         /\ \A x \in Page : p <= x /\ x < p + pr[p] => x \notin own
<1>1. p \in Page /\ p \in Nat /\ p < NPage /\ pr[p] \in Nat /\ \A q \in X : q \in Nat
  BY PageFacts DEF Sizes
<1> QED BY <1>1 DEF Tiles

(* A block takes over the one that follows it.                             *)
LEMMA TilesMerge ==
  ASSUME NEW pr \in Sizes, NEW X \in SUBSET Page, NEW own \in SUBSET Page,
         Tiles(pr, X, own), NEW p \in X, NEW q \in X, p + pr[p] = q
  PROVE  /\ [pr EXCEPT ![p] = @ + pr[q]] \in Sizes
         /\ Tiles([pr EXCEPT ![p] = @ + pr[q]], X \ {q}, own)
<1> DEFINE Y == X \ {q}
           pp == [pr EXCEPT ![p] = @ + pr[q]]
<1>1. \A x \in X : x \in Page /\ x \in Nat /\ pr[x] \in Nat /\ pr[x] >= 1 /\ x + pr[x] <= NPage
  BY TileFacts
<1>2. \A x, y \in X : x < y => x + pr[x] <= y
  BY DEF Tiles
<1>3. \A x \in Page : pp[x] = IF x = p THEN pr[p] + pr[q] ELSE pr[x]
  BY <1>1 DEF Sizes
<1>4. p < q /\ pp[p] = pr[p] + pr[q] /\ p + pp[p] = q + pr[q]
  BY <1>1, <1>3
<1>5. pp \in Sizes
  <2>1. pr[p] + pr[q] \in 0..NPage
    BY <1>1, <1>4, PageFacts
  <2> QED BY <2>1 DEF Sizes
<1> HIDE DEF pp, Y
<1>6. \A x \in Y : x \in X /\ x # q
  BY DEF Y
<1>7. \A x \in Y : pp[x] >= 1 /\ x + pp[x] <= NPage
  BY <1>1, <1>3, <1>4, <1>6
<1>8. ASSUME NEW x \in Y, NEW y \in Y, x < y
      PROVE  x + pp[x] <= y
  <2>1. CASE x = p
    <3>1. q <= y /\ q # y
      BY <1>2, <1>6, <1>8, <2>1
    <3>2. q < y
      BY <1>1, <1>6, <3>1
    <3> QED BY <1>2, <1>4, <1>6, <2>1, <3>2
  <2>2. CASE x # p
    BY <1>1, <1>2, <1>3, <1>6, <1>8, <2>2
  <2> QED BY <2>1, <2>2
<1>9. ASSUME NEW x \in Page
      PROVE  x \notin own <=> \E y \in Y : y <= x /\ x < y + pp[y]
  <2>0. x \in Nat
    BY PageFacts
  <2>1. x \notin own <=> \E y \in X : y <= x /\ x < y + pr[y]
    BY DEF Tiles
  <2>2. ASSUME NEW y \in X, y <= x, x < y + pr[y]
        PROVE  \E z \in Y : z <= x /\ x < z + pp[z]
    <3>1. CASE y # q /\ y # p
      BY <1>1, <1>3, <2>2, <3>1 DEF Y
    <3>2. CASE y = q \/ y = p
      <4>1. p <= x /\ x < p + pp[p] /\ p \in Y
        BY <1>1, <1>4, <2>0, <2>2, <3>2 DEF Y
      <4> QED BY <4>1
    <3> QED BY <3>1, <3>2
  <2>3. ASSUME NEW y \in Y, y <= x, x < y + pp[y]
        PROVE  \E z \in X : z <= x /\ x < z + pr[z]
    <3>1. CASE y # p
      BY <1>1, <1>3, <1>6, <2>3, <3>1
    <3>2. CASE y = p /\ x < q
      BY <2>3, <3>2
    <3>3. CASE y = p /\ ~(x < q)
      BY <1>1, <1>4, <2>0, <2>3, <3>3
    <3> QED BY <3>1, <3>2, <3>3
  <2> QED BY <2>1, <2>2, <2>3
<1> QED BY <1>5, <1>7, <1>8, <1>9 DEF Tiles, pp, Y

(* A block is added from pages that were held.                             *)
LEMMA TilesAdd ==
  ASSUME NEW pr \in Sizes, NEW X \in SUBSET Page, NEW own \in SUBSET Page,
         Tiles(pr, X, own), NEW b \in Page, NEW n \in 1..NPage,
         Block(b, n) \subseteq own
  PROVE  /\ [pr EXCEPT ![b] = n] \in Sizes /\ b + n <= NPage /\ b \notin X
         /\ \A p \in Block(b, n) : p \notin X
         /\ Tiles([pr EXCEPT ![b] = n], X \cup {b}, own \ Block(b, n))
<1> DEFINE Y == X \cup {b}
           pp == [pr EXCEPT ![b] = n]
<1>0. b \in Nat /\ n \in Nat /\ n >= 1 /\ NPage \in Nat
  BY PageFacts
<1>1. \A x \in X : x \in Page /\ x \in Nat /\ pr[x] \in Nat /\ pr[x] >= 1 /\ x + pr[x] <= NPage
  BY TileFacts
<1>2. \A x, y \in X : x < y => x + pr[x] <= y
  BY DEF Tiles
<1>3. \A x \in Block(b, n) : x \in Page /\ x \in own /\ x \in Nat
  BY PageFacts
<1>4. \A x \in Nat : b <= x /\ x < b + n => x \in own /\ x \in Page
  BY <1>0, <1>3 DEF Block
<1>5. b + n <= NPage
  <2>1. b + n - 1 \in Page
    BY <1>0, <1>4
  <2> QED BY <1>0, <2>1, PageFacts
<1>6. \A x \in X : x \notin own
  BY <1>1, TileFacts
<1>7. b \notin X /\ \A x \in Block(b, n) : x \notin X
  BY <1>0, <1>3, <1>4, <1>6
<1>8. ASSUME NEW x \in X
      PROVE  x < b => x + pr[x] <= b
  <2> SUFFICES ASSUME x < b, ~(x + pr[x] <= b) PROVE FALSE
    OBVIOUS
  <2>1. b \notin own
    BY <1>0, <1>1, TileFacts
  <2> QED BY <1>0, <1>4, <2>1
<1>9. ASSUME NEW x \in X
      PROVE  b < x => b + n <= x
  BY <1>0, <1>1, <1>4, <1>6
<1>10. \A x \in Page : pp[x] = IF x = b THEN n ELSE pr[x]
  BY DEF Sizes
<1>11. pp \in Sizes
  BY DEF Sizes
<1> HIDE DEF pp, Y
<1>12. \A x \in Y : pp[x] >= 1 /\ x + pp[x] <= NPage
  BY <1>0, <1>1, <1>5, <1>10 DEF Y
<1>13. ASSUME NEW x \in Y, NEW y \in Y, x < y
       PROVE  x + pp[x] <= y
  <2>1. CASE x = b
    BY <1>0, <1>9, <1>10, <1>13, <2>1 DEF Y
  <2>2. CASE x # b /\ y = b
    BY <1>1, <1>8, <1>10, <1>13, <2>2 DEF Y
  <2>3. CASE x # b /\ y # b
    BY <1>1, <1>2, <1>10, <1>13, <2>3 DEF Y
  <2> QED BY <2>1, <2>2, <2>3
<1>14. ASSUME NEW x \in Page
       PROVE  x \notin (own \ Block(b, n)) <=> \E y \in Y : y <= x /\ x < y + pp[y]
  <2>0. x \in Nat /\ (x \in Block(b, n) <=> b <= x /\ x < b + n)
    BY <1>0, PageFacts DEF Block
  <2>1. x \notin own <=> \E y \in X : y <= x /\ x < y + pr[y]
    BY DEF Tiles
  <2>2. x \in Block(b, n) <=> b <= x /\ x < b + pp[b]
    BY <1>10, <2>0
  <2>3. \A y \in X : pp[y] = pr[y]
    BY <1>1, <1>7, <1>10
  <2>4. (\E y \in Y : y <= x /\ x < y + pp[y])
          <=> (\E y \in X : y <= x /\ x < y + pr[y]) \/ (b <= x /\ x < b + pp[b])
    BY <2>3 DEF Y
  <2> QED BY <2>1, <2>2, <2>4
<1> QED BY <1>5, <1>7, <1>11, <1>12, <1>13, <1>14 DEF Tiles, pp, Y

(* The first n pages of a block are given out.                             *)
LEMMA TilesTake ==
  ASSUME NEW pr \in Sizes, NEW X \in SUBSET Page, NEW own \in SUBSET Page,
         Tiles(pr, X, own), NEW p \in X, NEW n \in 1..NPage, n <= pr[p]
  PROVE  /\ Block(p, n) \subseteq Page \ own
         /\ pr[p] > n =>
              /\ p + n \in Page /\ p + n \notin X
              /\ [pr EXCEPT ![p + n] = pr[p] - n] \in Sizes
              /\ Tiles([pr EXCEPT ![p + n] = pr[p] - n],
                       (X \ {p}) \cup {p + n}, own \cup Block(p, n))
         /\ pr[p] = n => Tiles(pr, X \ {p}, own \cup Block(p, n))
<1>0. /\ p \in Page /\ p \in Nat /\ n \in Nat /\ n >= 1 /\ NPage \in Nat
      /\ pr[p] \in Nat /\ p + pr[p] <= NPage
  BY TileFacts, PageFacts
<1>1. \A x \in X : x \in Page /\ x \in Nat /\ pr[x] \in Nat /\ pr[x] >= 1 /\ x + pr[x] <= NPage
  BY TileFacts
<1>2. \A x, y \in X : x < y => x + pr[x] <= y
  BY DEF Tiles
<1>3. \A x \in Page : x \in Nat /\ x < NPage /\ (x \in Block(p, n) <=> p <= x /\ x < p + n)
  BY <1>0, PageFacts DEF Block
<1>4. Block(p, n) \subseteq Page \ own
  <2> SUFFICES ASSUME NEW x \in Block(p, n) PROVE x \in Page /\ x \notin own
    OBVIOUS
  <2>1. x \in Nat /\ p <= x /\ x < p + n /\ x < p + pr[p]
    BY <1>0 DEF Block
  <2>2. x \in Page
    BY <1>0, <2>1 DEF Page
  <2> QED BY <2>1, <2>2, TileFacts
<1>5. \A x \in Page : x \notin own <=> \E y \in X : y <= x /\ x < y + pr[y]
  BY DEF Tiles
<1>6. \A x \in Page, y \in X :
        y # p /\ y <= x /\ x < y + pr[y] => ~(p <= x /\ x < p + pr[p])
  BY <1>0, <1>1, <1>2, <1>3
<1>7. ASSUME pr[p] > n
      PROVE  /\ p + n \in Page /\ p + n \notin X
             /\ [pr EXCEPT ![p + n] = pr[p] - n] \in Sizes
             /\ Tiles([pr EXCEPT ![p + n] = pr[p] - n],
                      (X \ {p}) \cup {p + n}, own \cup Block(p, n))
  <2> DEFINE e == p + n
             m == pr[p] - n
             Y == (X \ {p}) \cup {e}
             pp == [pr EXCEPT ![e] = m]
  <2>0. /\ e \in Nat /\ m \in Nat /\ m >= 1 /\ e + m = p + pr[p] /\ p < e
        /\ e < p + pr[p] /\ m <= NPage
    BY <1>0, <1>7
  <2>1. e \in Page
    BY <1>0, <2>0 DEF Page
  <2>2. e \notin X
    BY <1>0, <1>1, <1>2, <2>0
  <2>9. e = p + n
    OBVIOUS
  <2> HIDE DEF e, m
  <2>3. pp \in Sizes /\ \A x \in Page : pp[x] = IF x = e THEN m ELSE pr[x]
    <3>1. m \in 0..NPage
      BY <1>0, <2>0
    <3> QED BY <3>1 DEF Sizes
  <2> HIDE DEF pp, Y
  <2>4. \A x \in Y : x = e \/ (x \in X /\ x # p /\ x # e /\ pp[x] = pr[x])
    BY <1>1, <2>2, <2>3 DEF Y
  <2>5. pp[e] = m
    BY <2>1, <2>3
  <2>6. \A x \in Y : pp[x] >= 1 /\ x + pp[x] <= NPage
    BY <1>0, <1>1, <2>0, <2>4, <2>5
  <2>7. ASSUME NEW x \in Y, NEW y \in Y, x < y
        PROVE  x + pp[x] <= y
    <3>1. CASE x = e
      <4>1. y \in X /\ p < y
        BY <1>1, <2>0, <2>4, <2>7, <3>1, <1>0
      <4> QED BY <1>2, <2>0, <2>5, <3>1, <4>1
    <3>2. CASE x # e /\ y = e
      <4>1. x \in X /\ x # p /\ pp[x] = pr[x] /\ x < e
        BY <2>4, <2>7, <3>2
      <4>2. ~(p < x)
        BY <1>0, <1>1, <1>2, <2>0, <4>1
      <4>3. x < p
        BY <1>0, <1>1, <4>1, <4>2
      <4>4. x + pr[x] <= p
        BY <1>2, <4>1, <4>3
      <4> QED BY <1>0, <1>1, <2>0, <3>2, <4>1, <4>4
    <3>3. CASE x # e /\ y # e
      BY <1>2, <2>4, <2>7, <3>3
    <3> QED BY <3>1, <3>2, <3>3
  <2>8. ASSUME NEW x \in Page
        PROVE  x \notin (own \cup Block(p, n)) <=> \E y \in Y : y <= x /\ x < y + pp[y]
    <3>1. x \in Nat /\ (x \in Block(p, n) <=> p <= x /\ x < e)
      BY <1>3, <2>9
    <3>2. ASSUME x \notin own, x \notin Block(p, n)
          PROVE  \E y \in Y : y <= x /\ x < y + pp[y]
      <4>1. PICK y \in X : y <= x /\ x < y + pr[y]
        BY <1>5, <3>2
      <4>2. CASE y = p
        <5>1. e <= x /\ x < e + pp[e]
          BY <1>0, <2>0, <2>5, <3>1, <3>2, <4>1, <4>2
        <5> QED BY <5>1 DEF Y
      <4>3. CASE y # p
        BY <2>2, <2>4, <4>1, <4>3 DEF Y
      <4> QED BY <4>2, <4>3
    <3>3. ASSUME NEW y \in Y, y <= x, x < y + pp[y]
          PROVE  x \notin own /\ x \notin Block(p, n)
      <4>1. CASE y = e
        <5>1. p <= x /\ x < p + pr[p] /\ ~(x < e)
          BY <1>0, <2>0, <2>5, <3>1, <3>3, <4>1
        <5> QED BY <1>5, <3>1, <5>1
      <4>2. CASE y # e
        <5>1. y \in X /\ y # p /\ x < y + pr[y]
          BY <2>4, <3>3, <4>2
        <5>2. ~(p <= x /\ x < p + pr[p])
          BY <1>6, <3>3, <5>1
        <5>3. ~(p <= x /\ x < e)
          BY <1>0, <2>0, <3>1, <5>2
        <5> QED BY <1>5, <3>1, <3>3, <5>1, <5>3
      <4> QED BY <4>1, <4>2
    <3> QED BY <3>2, <3>3
  <2> QED BY <2>1, <2>2, <2>3, <2>6, <2>7, <2>8 DEF Tiles, e, m, pp, Y
<1>8. ASSUME pr[p] = n
      PROVE  Tiles(pr, X \ {p}, own \cup Block(p, n))
  <2>1. ASSUME NEW x \in Page
        PROVE  x \notin (own \cup Block(p, n))
                 <=> \E y \in X \ {p} : y <= x /\ x < y + pr[y]
    <3>1. x \in Block(p, n) <=> p <= x /\ x < p + pr[p]
      BY <1>3, <1>8
    <3> QED BY <1>5, <1>6, <3>1
  <2> QED BY <1>1, <1>2, <2>1 DEF Tiles
<1> QED BY <1>4, <1>7, <1>8

(* A free block that touches no other ends where a page is held or memory  *)
(* ends, and begins likewise.                                              *)
LEMMA Maximal ==
  ASSUME NEW pr \in Sizes, NEW X \in SUBSET Page, NEW own \in SUBSET Page,
         Tiles(pr, X, own), ApartBut(pr, X, {}, {}), NEW p \in X
  PROVE  /\ p + pr[p] \in Page => p + pr[p] \in own
         /\ p > 0 => p - 1 \in own
<1>0. \A x \in X : x \in Page /\ x \in Nat /\ pr[x] \in Nat /\ pr[x] >= 1
  BY TileFacts
<1>1. \A x, y \in X : x < y => x + pr[x] < y
  BY DEF ApartBut
<1>2. \A x \in Page : x \notin own <=> \E y \in X : y <= x /\ x < y + pr[y]
  BY DEF Tiles
<1>3. p + pr[p] \in Page => p + pr[p] \in own
  <2> SUFFICES ASSUME p + pr[p] \in Page, NEW y \in X,
                      y <= p + pr[p], p + pr[p] < y + pr[y]
               PROVE  FALSE
    BY <1>2
  <2> QED BY <1>0, <1>1
<1>4. p > 0 => p - 1 \in own
  <2> SUFFICES ASSUME p > 0, NEW y \in X, y <= p - 1, p - 1 < y + pr[y]
               PROVE  FALSE
    <3>1. p > 0 => p - 1 \in Page
      BY <1>0, PageFacts DEF Page
    <3> QED BY <1>2, <3>1
  <2> QED BY <1>0, <1>1
<1> QED BY <1>3, <1>4

(* A block is as many pages as its size.                                   *)
LEMMA BlockCard ==
  ASSUME NEW A \in SUBSET Page, NEW p \in Nat, NEW n \in Nat, Block(p, n) \subseteq A
  PROVE  /\ IsFiniteSet(A) /\ Cardinality(A) \in Nat /\ Cardinality(A) <= NPage
         /\ Cardinality(A \ Block(p, n)) = Cardinality(A) - n
         /\ n <= Cardinality(A)
<1>1. IsFiniteSet(Page) /\ Cardinality(Page) = NPage
  BY PageFacts, FS_Interval DEF Page
<1>2. IsFiniteSet(A) /\ Cardinality(A) <= NPage /\ Cardinality(A) \in Nat
  BY <1>1, FS_Subset, FS_CardinalityType
<1>3. IsFiniteSet(Block(p, n)) /\ Cardinality(Block(p, n)) = n
  BY FS_Interval DEF Block
<1>4. Cardinality(A \ Block(p, n)) = Cardinality(A) - Cardinality(A \cap Block(p, n))
  BY <1>2, FS_Difference
<1>5. A \cap Block(p, n) = Block(p, n)
  OBVIOUS
<1>6. Cardinality(Block(p, n)) <= Cardinality(A)
  BY <1>2, FS_Subset
<1> QED BY <1>2, <1>3, <1>4, <1>5, <1>6

-----------------------------------------------------------------------------

(* What every step uses of the invariant, with the types.                  *)
LEMMA FitFacts ==
  ASSUME FitInv
  PROVE  /\ pmm_manager \in Manager /\ links \in Links /\ property \in Sizes
         /\ flag \in [Page -> BOOLEAN] /\ owned \in SUBSET Page
         /\ Marked \in SUBSET Page /\ InList \in SUBSET Page
         /\ call \in [op : {"none", "alloc", "free", "merge", "null"},
                      base : Page, n : Nat, le : Node, best : Node]
         /\ Chain(links, InList) /\ Tiles(property, Marked, owned)
         /\ ApartBut(property, Marked, Loose, Loose)
         /\ nr_free = Cardinality(Page \ owned) /\ NPage - 1 \notin owned
         /\ nr_free \in 0..NPage
         /\ ~oops /\ oops \in BOOLEAN
<1>1. Marked \in SUBSET Page /\ InList \in SUBSET Page
  BY DEF Marked, InList
<1> QED BY <1>1 DEF FitInv, TypeOK, Links, Sizes

(* init_memmap on the empty list leaves one block, of all pages.           *)
LEMMA InitFit == Init => FitInv
<1> SUFFICES ASSUME Init PROVE FitInv
  OBVIOUS
<1>1. /\ pmm_manager \in Manager
      /\ links = [next |-> [x \in Node |-> IF x = Head THEN 0 ELSE Head],
                  prev |-> [x \in Node |-> IF x = Head THEN 0 ELSE Head]]
      /\ property = [p \in Page |-> IF p = 0 THEN NPage ELSE 0]
      /\ flag = [p \in Page |-> p = 0]
      /\ nr_free = NPage /\ owned = {} /\ call = Idle /\ oops = FALSE
  BY DEF Init
<1>2. 0 \in Page /\ 0 \in Node /\ 0 # Head
  BY PageFacts DEF Page, Node
<1>3. Marked = {0} /\ InList = {0} /\ Loose = {}
  BY <1>1, <1>2 DEF Marked, InList, Loose, Idle
<1>4. TypeOK
  <2>1. links \in [next : [Node -> Node], prev : [Node -> Node]]
    BY <1>1, <1>2, PageFacts
  <2>2. property \in [Page -> 0..NPage] /\ flag \in [Page -> BOOLEAN]
    BY <1>1, PageFacts
  <2>3. call \in [op : {"none", "alloc", "free", "merge", "null"},
                  base : Page, n : Nat, le : Node, best : Node]
    BY <1>1, <1>2, PageFacts DEF Idle
  <2> QED BY <1>1, <2>1, <2>2, <2>3, PageFacts DEF TypeOK
<1>5. Chain(links, {0})
  <2>1. /\ links.next[0] = Head /\ links.prev[0] = Head
        /\ links.next[Head] = 0 /\ links.prev[Head] = 0
    BY <1>1, <1>2, PageFacts
  <2> QED BY <1>2, <2>1, PageFacts DEF Chain
<1>6. Tiles(property, {0}, owned)
  <2>1. property[0] = NPage
    BY <1>1, <1>2
  <2> QED BY <1>1, <1>2, <2>1, PageFacts DEF Tiles
<1>7. ApartBut(property, {0}, {}, {})
  BY PageFacts DEF ApartBut
<1>8. Cardinality(Page \ owned) = NPage
  <2>1. Page \ owned = Page
    BY <1>1
  <2>2. Cardinality(Page) = NPage
    BY PageFacts, FS_Interval DEF Page
  <2> QED BY <2>1, <2>2
<1>9. Progress
  BY <1>1 DEF Progress, Idle
<1> QED BY <1>1, <1>3, <1>4, <1>5, <1>6, <1>7, <1>8, <1>9 DEF FitInv

(* A turn of a loop that only looks.                                       *)
LEMMA LookStep ==
  ASSUME FitInv, UNCHANGED <<area, owned, oops, pmm_manager>>,
         call' \in [op : {"none", "alloc", "free", "merge", "null"},
                    base : Page, n : Nat, le : Node, best : Node],
         InList' = InList, Loose' = Loose, Progress'
  PROVE  FitInv'
<1>1. UNCHANGED <<links, property, flag, nr_free, owned, oops, pmm_manager>>
  BY DEF area
<1>2. Marked' = Marked
  BY <1>1 DEF Marked
<1>3. TypeOK'
  BY <1>1 DEF FitInv, TypeOK
<1>4. Chain(links, InList)' /\ Tiles(property, Marked, owned)'
  BY <1>1, <1>2 DEF FitInv, Chain, Tiles
<1>5. ApartBut(property, Marked, Loose, Loose)'
  BY <1>1, <1>2 DEF FitInv, ApartBut
<1> QED BY <1>1, <1>3, <1>4, <1>5 DEF FitInv

(* alloc_pages is called: it fails at once, or begins its loop.            *)
LEMMA AllocStep ==
  ASSUME FitInv, KeepTop, NEW n \in 1..NPage, Alloc(n), UNCHANGED pmm_manager
  PROVE  FitInv'
<1>1. /\ call = Idle /\ n # TopFree
      /\ call' = [Idle EXCEPT !.op = IF n > nr_free THEN "null" ELSE "alloc", !.n = n]
      /\ UNCHANGED <<area, owned, oops, pmm_manager>>
  BY DEF Alloc
<1>2. /\ call'.op = IF n > nr_free THEN "null" ELSE "alloc"
      /\ call'.n = n /\ call'.le = Head /\ call'.best = Head /\ call'.base = 0
      /\ call.op = "none"
      /\ call' = [op |-> call'.op, base |-> call'.base, n |-> call'.n,
                  le |-> call'.le, best |-> call'.best]
  BY <1>1 DEF Idle
<1>3. UNCHANGED <<links, property, flag, nr_free, owned>> /\ Marked' = Marked
  BY <1>1 DEF area, Marked
<1>4. call' \in [op : {"none", "alloc", "free", "merge", "null"},
                 base : Page, n : Nat, le : Node, best : Node]
  BY <1>2, PageFacts DEF Page
<1>5. InList' = InList /\ Loose' = Loose /\ Loose = {}
  BY <1>2, <1>3 DEF InList, Loose
<1>6. ASSUME NEW p \in Marked, p + property[p] = NPage
      PROVE  property[p] # n
  <2>1. /\ property \in Sizes /\ Marked \in SUBSET Page /\ owned \in SUBSET Page
        /\ Tiles(property, Marked, owned) /\ ApartBut(property, Marked, {}, {})
    BY <1>5, FitFacts
  <2>2. /\ p \in Nat /\ property[p] \in Nat
        /\ \A x \in Page : p <= x /\ x < p + property[p] => x \notin owned
    BY <2>1, TileFacts
  <2>3. p > 0 => p - 1 \in owned
    BY <2>1, Maximal
  <2>4. \A x \in owned : x \in Nat /\ x <= p - 1
    BY <1>6, <2>1, <2>2, PageFacts
  <2>5. p - 1 \in owned \cup {-1} /\ \A x \in owned \cup {-1} : x \in Int /\ p - 1 >= x
    BY <2>2, <2>3, <2>4
  <2>6. Max(owned \cup {-1}) = p - 1
    <3>1. \A x \in owned \cup {-1} : (\A y \in owned \cup {-1} : x >= y) => x = p - 1
      BY <2>2, <2>5
    <3> QED BY <2>5, <3>1 DEF Max
  <2> QED BY <1>1, <1>6, <2>2, <2>6, PageFacts DEF TopFree
<1>7. Progress'
  BY <1>2, <1>3, <1>6 DEF Progress
<1> QED BY <1>1, <1>4, <1>5, <1>7, LookStep

(* alloc_pages gives out the first n pages of the block at p.              *)
LEMMA TakeStep ==
  ASSUME FitInv, NEW p \in Marked, NEW n \in 1..NPage, n <= property[p],
         p + property[p] = NPage => property[p] # n,
         call.op = "alloc", Take(p, n), UNCHANGED pmm_manager
  PROVE  FitInv'
<1> DEFINE a == links.prev[p]
           b == links.next[p]
           L == ListDel(links, p)
           e == p + n
           more == property[p] > n
<1>1. /\ links' = IF more THEN ListAdd(L, a, e) ELSE L
      /\ property' = IF more THEN [property EXCEPT ![e] = property[p] - n] ELSE property
      /\ flag' = [q \in Page |-> (flag[q] \/ (more /\ q = e)) /\ q # p]
      /\ nr_free' = nr_free - n /\ owned' = owned \cup Block(p, n)
      /\ call' = Idle /\ UNCHANGED <<oops, pmm_manager>>
  BY DEF Take
<1>2. InList = Marked /\ Loose = {}
  BY DEF InList, Loose
<1>3. /\ links \in Links /\ property \in Sizes /\ flag \in [Page -> BOOLEAN]
      /\ owned \in SUBSET Page /\ Marked \in SUBSET Page
      /\ Chain(links, Marked) /\ Tiles(property, Marked, owned)
      /\ ApartBut(property, Marked, {}, {})
  BY <1>2, FitFacts
<1>4. /\ a \in Marked \cup {Head} /\ b \in Marked \cup {Head}
      /\ (a # Head => a < p) /\ a # p /\ b # p /\ p < b
      /\ L \in Links /\ Chain(L, Marked \ {p})
  BY <1>3, ChainFacts, ChainDel
<1>5. /\ Block(p, n) \subseteq Page \ owned
      /\ more => /\ e \in Page /\ e \notin Marked
                 /\ [property EXCEPT ![e] = property[p] - n] \in Sizes
                 /\ Tiles([property EXCEPT ![e] = property[p] - n],
                          (Marked \ {p}) \cup {e}, owned \cup Block(p, n))
      /\ property[p] = n => Tiles(property, Marked \ {p}, owned \cup Block(p, n))
  BY <1>3, TilesTake
<1>6. /\ p \in Nat /\ n \in Nat /\ n >= 1 /\ property[p] \in Nat /\ e \in Nat /\ p < e
      /\ p + property[p] <= NPage /\ NPage \in Nat
      /\ \A q \in Marked : q \in Nat /\ (p < q => p + property[p] <= q)
  BY <1>3, TileFacts, PageFacts
<1>7. L.next[a] = b
  <2>1. L.next = [links.next EXCEPT ![a] = b] /\ links.next \in [Node -> Node] /\ a \in Node
    BY <1>3, <1>4, LinkFacts, PageFacts DEF ListDel
  <2> QED BY <2>1
<1>8. Marked' = IF more THEN (Marked \ {p}) \cup {e} ELSE Marked \ {p}
  <2>1. \A q \in Page : flag'[q] <=> (flag[q] \/ (more /\ q = e)) /\ q # p
    BY <1>1
  <2>2. CASE more
    BY <1>5, <1>6, <2>1, <2>2 DEF Marked
  <2>3. CASE ~more
    BY <2>1, <2>3 DEF Marked
  <2> QED BY <2>2, <2>3
<1>9. InList' = Marked' /\ Loose' = {} /\ Progress'
  BY <1>1 DEF InList, Loose, Progress, Idle
<1>10. links' \in Links /\ Chain(links', Marked')
  <2>1. CASE more
    <3>0. a \in Nat /\ b \in Nat
      BY <1>3, <1>4, PageFacts
    <3>1. p + property[p] <= b
      BY <1>4, <1>6, PageFacts
    <3>2. e < b
      <4>1. e < p + property[p]
        BY <1>6, <2>1
      <4> HIDE DEF b, e
      <4> QED BY <1>6, <3>0, <3>1, <4>1
    <3>3. a # Head => a < e
      <4> HIDE DEF a, e
      <4> QED BY <1>4, <1>6, <3>0
    <3>4. a \in (Marked \ {p}) \cup {Head} /\ e \in Page /\ e \notin Marked \ {p}
      BY <1>4, <1>5, <2>1
    <3>5. links' = Link(L, e, a, L.next[a])
      BY <1>1, <2>1 DEF ListAdd
    <3> HIDE DEF L, a, b, e
    <3>6. Marked \ {p} \in SUBSET Page
      BY <1>3
    <3>7. /\ Link(L, e, a, L.next[a]) \in Links
          /\ Chain(Link(L, e, a, L.next[a]), (Marked \ {p}) \cup {e})
      BY <1>4, <1>7, <3>2, <3>3, <3>4, <3>6, ChainAdd
    <3> QED BY <1>8, <2>1, <3>5, <3>7
  <2>2. CASE ~more
    BY <1>1, <1>4, <1>8, <2>2
  <2> QED BY <2>1, <2>2
<1>11. property' \in Sizes /\ Tiles(property', Marked', owned')
  <2>1. ~more => property[p] = n
    BY <1>6
  <2> QED BY <1>1, <1>3, <1>5, <1>8, <2>1
<1>12. ApartBut(property', Marked', {}, {})
  <2> SUFFICES ASSUME NEW x \in Marked', NEW y \in Marked', x < y
               PROVE  x + property'[x] < y
    BY DEF ApartBut
  <2>1. \A q, r \in Marked : q < r => q + property[q] < r
    BY <1>3 DEF ApartBut
  <2>2. \A q \in Marked : property[q] \in Nat /\ q \in Nat
    BY <1>3, <1>6 DEF Sizes
  <2>3. \A q \in Marked' : \/ q \in Marked /\ q # p /\ property'[q] = property[q]
                           \/ more /\ q = e /\ q + property'[q] = p + property[p]
    <3>1. CASE more
      <4>1. \A q \in Page : property'[q] = IF q = e THEN property[p] - n ELSE property[q]
        BY <1>1, <1>3, <3>1 DEF Sizes
      <4>2. e \in Page /\ e \notin Marked
        BY <1>5, <3>1
      <4> HIDE DEF e
      <4>3. property'[e] = property[p] - n
        BY <4>1, <4>2
      <4> QED BY <1>3, <1>6, <1>8, <3>1, <4>1, <4>2, <4>3 DEF e
    <3>2. CASE ~more
      BY <1>1, <1>8, <3>2
    <3> QED BY <3>1, <3>2
  <2> HIDE DEF e, more
  <2>4. CASE x = e /\ x + property'[x] = p + property[p]
    <3>1. y \in Marked /\ p < y
      BY <1>6, <2>2, <2>3, <2>4
    <3> QED BY <2>1, <2>4, <3>1
  <2>5. CASE x \in Marked /\ x # p /\ property'[x] = property[x] /\ y = e /\ more
    <3>1. ~(p < x)
      <4>1. p < x => p + property[p] <= x
        BY <1>6, <2>5
      <4>2. e < p + property[p]
        BY <1>6, <2>5 DEF e, more
      <4> QED BY <1>6, <2>2, <2>5, <4>1, <4>2
    <3>2. x < p
      BY <1>6, <2>2, <2>5, <3>1
    <3>3. x + property[x] < p
      BY <2>1, <2>5, <3>2
    <3> QED BY <1>6, <2>2, <2>5, <3>3
  <2>6. CASE x \in Marked /\ property'[x] = property[x] /\ y \in Marked
    BY <2>1, <2>6
  <2> QED BY <2>3, <2>4, <2>5, <2>6
<1>13. nr_free' = Cardinality(Page \ owned') /\ nr_free' \in 0..NPage
  <2>1. Page \ owned' = (Page \ owned) \ Block(p, n)
    BY <1>1
  <2>2. /\ Cardinality(Page \ owned) \in Nat /\ Cardinality(Page \ owned) <= NPage
        /\ Cardinality((Page \ owned) \ Block(p, n)) = Cardinality(Page \ owned) - n
        /\ n <= Cardinality(Page \ owned)
    BY <1>5, <1>6, BlockCard
  <2>3. nr_free = Cardinality(Page \ owned)
    BY FitFacts
  <2>4. Cardinality(Page \ owned') = nr_free - n
    BY <2>1, <2>2, <2>3
  <2>5. nr_free \in Nat /\ nr_free <= NPage /\ n <= nr_free
    BY <2>2, <2>3
  <2>6. nr_free' = nr_free - n
    BY <1>1
  <2> QED BY <1>6, <2>4, <2>5, <2>6
<1>14. NPage - 1 \notin owned'
  <2>1. NPage - 1 \notin owned
    BY FitFacts
  <2>2. p + n # NPage
    BY <1>6
  <2>3. NPage - 1 \notin Block(p, n)
    BY <1>6, <2>2 DEF Block
  <2> QED BY <1>1, <2>1, <2>3
<1>15. TypeOK'
  <2>1. flag' \in [Page -> BOOLEAN]
    BY <1>1
  <2>2. owned' \in SUBSET Page
    BY <1>1, <1>3, <1>5
  <2>3. call' \in [op : {"none", "alloc", "free", "merge", "null"},
                   base : Page, n : Nat, le : Node, best : Node]
    BY <1>1, PageFacts DEF Idle, Page
  <2>4. oops' \in BOOLEAN /\ pmm_manager' \in Manager
    BY <1>1, FitFacts
  <2> QED BY <1>10, <1>11, <1>13, <2>1, <2>2, <2>3, <2>4 DEF TypeOK, Links, Sizes
<1>16. ~oops'
  BY <1>1, FitFacts
<1> QED BY <1>9, <1>10, <1>11, <1>12, <1>13, <1>14, <1>15, <1>16 DEF FitInv

(* The node behind the one that a loop has come to.                        *)
LEMMA NextFacts ==
  ASSUME FitInv, NEW x \in InList \cup {Head}
  PROVE  /\ links.next[x] \in InList \cup {Head} /\ links.prev[links.next[x]] = x
         /\ x # Head => x < links.next[x]
         /\ \A q \in InList : IF x = Head THEN links.next[x] <= q
                              ELSE q <= x \/ links.next[x] <= q
<1>1. Chain(links, InList) /\ InList \in SUBSET Page
  BY FitFacts
<1>2. x \in Nat /\ \A q \in InList : q \in Nat
  BY <1>1, PageFacts
<1> QED BY <1>1, <1>2 DEF Chain

(* A turn of the loop of default_alloc_pages, which may be the last one.   *)
LEMMA FirstFitStep ==
  ASSUME FitInv, FirstFitTurn, UNCHANGED pmm_manager
  PROVE  FitInv'
<1> DEFINE le == links.next[call.le]
<1>1. /\ call.op = "alloc" /\ pmm_manager = "default"
      /\ \/ /\ le = Head
            /\ call' = [call EXCEPT !.op = "null"]
            /\ UNCHANGED <<area, owned, oops>>
         \/ /\ le # Head /\ ~Fits(le)
            /\ call' = [call EXCEPT !.le = le]
            /\ UNCHANGED <<area, owned, oops>>
         \/ le # Head /\ Fits(le) /\ Take(le, call.n)
  BY DEF FirstFitTurn, Walking
<1>2. /\ call.n \in 1..NPage /\ call.le \in Marked \cup {Head} /\ call.best = Head
      /\ \A p \in Marked : p + property[p] = NPage => property[p] # call.n
      /\ call.le # Head => \A p \in Marked : p <= call.le => property[p] < call.n
  BY <1>1 DEF FitInv, Progress
<1>3. InList = Marked /\ Loose = {} /\ Marked \in SUBSET Page
  BY <1>1, FitFacts DEF InList, Loose
<1>4. /\ le \in Marked \cup {Head}
      /\ \A q \in Marked : IF call.le = Head THEN le <= q ELSE q <= call.le \/ le <= q
  BY <1>2, <1>3, NextFacts
<1>5. call \in [op : {"none", "alloc", "free", "merge", "null"},
                base : Page, n : Nat, le : Node, best : Node]
      /\ \A q \in Marked : q \in Nat /\ q < Head /\ property[q] \in Nat
      /\ Marked \cup {Head} \subseteq Node /\ call.n \in Nat
  BY <1>2, <1>3, FitFacts, PageFacts DEF Sizes
<1> HIDE DEF le
<1>6. CASE /\ le = Head /\ call' = [call EXCEPT !.op = "null"]
           /\ UNCHANGED <<area, owned, oops>>
  <2>1. /\ call'.op = "null" /\ call'.n = call.n
        /\ call' \in [op : {"none", "alloc", "free", "merge", "null"},
                      base : Page, n : Nat, le : Node, best : Node]
    BY <1>5, <1>6
  <2>2. \A p \in Marked : property[p] < call.n
    BY <1>2, <1>4, <1>5, <1>6, PageFacts
  <2>3. Marked' = Marked /\ property' = property
    BY <1>6 DEF Marked, area
  <2>4. InList' = InList /\ Loose' = Loose
    BY <1>3, <2>1, <2>3 DEF InList, Loose
  <2>5. Progress'
    BY <1>2, <2>1, <2>2, <2>3 DEF Progress
  <2> QED BY <1>6, <2>1, <2>4, <2>5, LookStep
<1>7. CASE /\ le # Head /\ ~Fits(le) /\ call' = [call EXCEPT !.le = le]
           /\ UNCHANGED <<area, owned, oops>>
  <2>1. /\ call'.op = "alloc" /\ call'.n = call.n /\ call'.le = le /\ call'.best = Head
        /\ call' \in [op : {"none", "alloc", "free", "merge", "null"},
                      base : Page, n : Nat, le : Node, best : Node]
    BY <1>1, <1>2, <1>4, <1>5, <1>7
  <2>2. ASSUME NEW p \in Marked, p <= le
        PROVE  property[p] < call.n
    <3>1. property[le] < call.n
      BY <1>4, <1>5, <1>7 DEF Fits
    <3>2. CASE p = le
      BY <3>1, <3>2
    <3>3. CASE p # le
      <4>1. ~(le <= p)
        BY <1>4, <1>5, <1>7, <2>2, <3>3
      <4> QED BY <1>2, <1>4, <4>1
    <3> QED BY <3>2, <3>3
  <2>3. Marked' = Marked /\ property' = property
    BY <1>7 DEF Marked, area
  <2>4. InList' = InList /\ Loose' = Loose
    BY <1>3, <2>1, <2>3 DEF InList, Loose
  <2>5. Progress'
    BY <1>2, <1>4, <2>1, <2>2, <2>3 DEF Progress
  <2> QED BY <1>7, <2>1, <2>4, <2>5, LookStep
<1>8. CASE le # Head /\ Fits(le) /\ Take(le, call.n)
  <2>1. le \in Marked /\ call.n <= property[le]
    BY <1>4, <1>5, <1>8 DEF Fits
  <2> QED BY <1>1, <1>2, <1>8, <2>1, TakeStep
<1> QED BY <1>1, <1>6, <1>7, <1>8 DEF le

(* A turn of the loop of best_fit_alloc_pages, or the end of it.           *)
LEMMA BestFitStep ==
  ASSUME FitInv, BestFitTurn, UNCHANGED pmm_manager
  PROVE  FitInv'
<1> DEFINE le == links.next[call.le]
<1>1. /\ call.op = "alloc" /\ pmm_manager = "best_fit"
      /\ \/ /\ le = Head /\ call.best = Head
            /\ call' = [call EXCEPT !.op = "null"]
            /\ UNCHANGED <<area, owned, oops>>
         \/ le = Head /\ call.best # Head /\ Take(call.best, call.n)
         \/ /\ le # Head
            /\ call' = [call EXCEPT !.le = le,
                           !.best = IF Fits(le) /\ Better(le) THEN le ELSE @]
            /\ UNCHANGED <<area, owned, oops>>
  BY DEF BestFitTurn, Walking
<1>2. /\ call.n \in 1..NPage /\ call.le \in Marked \cup {Head}
      /\ call.best \in Marked \cup {Head}
      /\ \A p \in Marked : p + property[p] = NPage => property[p] # call.n
      /\ call.best # Head => property[call.best] >= call.n
      /\ call.best = Head /\ call.le # Head =>
           \A p \in Marked : p <= call.le => property[p] < call.n
  BY <1>1 DEF FitInv, Progress
<1>3. InList = Marked /\ Loose = {} /\ Marked \in SUBSET Page
  BY <1>1, FitFacts DEF InList, Loose
<1>4. /\ le \in Marked \cup {Head}
      /\ \A q \in Marked : IF call.le = Head THEN le <= q ELSE q <= call.le \/ le <= q
  BY <1>2, <1>3, NextFacts
<1>5. call \in [op : {"none", "alloc", "free", "merge", "null"},
                base : Page, n : Nat, le : Node, best : Node]
      /\ \A q \in Marked : q \in Nat /\ q < Head /\ property[q] \in Nat
      /\ Marked \cup {Head} \subseteq Node /\ call.n \in Nat
  BY <1>2, <1>3, FitFacts, PageFacts DEF Sizes
<1> HIDE DEF le
<1>6. CASE /\ le = Head /\ call.best = Head /\ call' = [call EXCEPT !.op = "null"]
           /\ UNCHANGED <<area, owned, oops>>
  <2>1. /\ call'.op = "null" /\ call'.n = call.n
        /\ call' \in [op : {"none", "alloc", "free", "merge", "null"},
                      base : Page, n : Nat, le : Node, best : Node]
    BY <1>5, <1>6
  <2>2. \A p \in Marked : property[p] < call.n
    BY <1>2, <1>4, <1>5, <1>6, PageFacts
  <2>3. Marked' = Marked /\ property' = property
    BY <1>6 DEF Marked, area
  <2>4. InList' = InList /\ Loose' = Loose
    BY <1>3, <2>1, <2>3 DEF InList, Loose
  <2>5. Progress'
    BY <1>2, <2>1, <2>2, <2>3 DEF Progress
  <2> QED BY <1>6, <2>1, <2>4, <2>5, LookStep
<1>7. CASE /\ le # Head
           /\ call' = [call EXCEPT !.le = le,
                          !.best = IF Fits(le) /\ Better(le) THEN le ELSE @]
           /\ UNCHANGED <<area, owned, oops>>
  <2>1. /\ call'.op = "alloc" /\ call'.n = call.n /\ call'.le = le
        /\ call'.best = IF Fits(le) /\ Better(le) THEN le ELSE call.best
    BY <1>1, <1>5, <1>7
  <2>2. call' \in [op : {"none", "alloc", "free", "merge", "null"},
                   base : Page, n : Nat, le : Node, best : Node]
    BY <1>4, <1>5, <1>7
  <2>3. Marked' = Marked /\ property' = property /\ pmm_manager' = "best_fit"
    BY <1>1, <1>7 DEF Marked, area
  <2>4. InList' = InList /\ Loose' = Loose
    BY <1>1, <1>3, <2>1, <2>3 DEF InList, Loose
  <2>5. call'.best \in Marked \cup {Head}
        /\ (call'.best # Head => property[call'.best] >= call.n)
    BY <1>2, <1>4, <1>7, <2>1 DEF Fits
  <2>6. ASSUME call'.best = Head, NEW p \in Marked, p <= le
        PROVE  property[p] < call.n
    <3>1. call.best = Head /\ ~Fits(le)
      BY <1>7, <2>1, <2>6 DEF Better
    <3>2. property[le] < call.n
      BY <1>4, <1>5, <1>7, <3>1 DEF Fits
    <3>3. CASE p = le
      BY <3>2, <3>3
    <3>4. CASE p # le
      <4>1. ~(le <= p)
        BY <1>4, <1>5, <1>7, <2>6, <3>4
      <4> QED BY <1>2, <1>4, <3>1, <4>1
    <3> QED BY <3>3, <3>4
  <2>7. Progress'
    BY <1>2, <1>4, <2>1, <2>3, <2>5, <2>6 DEF Progress
  <2> QED BY <1>7, <2>2, <2>4, <2>7, LookStep
<1>8. CASE le = Head /\ call.best # Head /\ Take(call.best, call.n)
  <2>1. call.best \in Marked /\ call.n <= property[call.best]
    BY <1>2, <1>5, <1>8
  <2> QED BY <1>1, <1>2, <1>8, <2>1, TakeStep
<1> QED BY <1>1, <1>6, <1>7, <1>8 DEF le

(* alloc_pages has returned NULL.                                          *)
LEMMA AllocNullStep ==
  ASSUME FitInv, AllocNull, UNCHANGED pmm_manager
  PROVE  FitInv'
<1>1. call.op = "null" /\ call' = Idle /\ UNCHANGED <<area, owned, oops>>
  BY DEF AllocNull, Walking
<1>2. Marked' = Marked
  BY <1>1 DEF Marked, area
<1>3. InList' = InList /\ Loose' = Loose
  BY <1>1, <1>2 DEF InList, Loose, Idle
<1>4. Progress'
  BY <1>1 DEF Progress, Idle
<1>5. call' \in [op : {"none", "alloc", "free", "merge", "null"},
                 base : Page, n : Nat, le : Node, best : Node]
  BY <1>1, PageFacts DEF Idle, Page
<1> QED BY <1>1, <1>3, <1>4, <1>5, LookStep

-----------------------------------------------------------------------------
(* free_pages *)

(* There is a free block at the end of memory.                             *)
LEMMA LastBlock ==
  ASSUME FitInv
  PROVE  \E t \in Marked : t + property[t] = NPage
<1>1. /\ property \in Sizes /\ Marked \in SUBSET Page /\ owned \in SUBSET Page
      /\ Tiles(property, Marked, owned) /\ NPage - 1 \notin owned
  BY FitFacts
<1>2. NPage - 1 \in Page
  BY PageFacts DEF Page
<1>3. PICK t \in Marked : t <= NPage - 1 /\ NPage - 1 < t + property[t]
  BY <1>1, <1>2 DEF Tiles
<1>4. t \in Nat /\ property[t] \in Nat /\ t + property[t] <= NPage
  BY <1>1, TileFacts
<1> QED BY <1>3, <1>4, PageFacts

(* free_pages is called: the block is marked, and inserted or looked for a *)
(* place.                                                                  *)
LEMMA FreeStep ==
  ASSUME FitInv, NEW b \in Page, NEW n \in 1..NPage, Free(b, n), UNCHANGED pmm_manager
  PROVE  FitInv'
<1>1. /\ call = Idle /\ Block(b, n) \subseteq owned
      /\ oops' = (\E p \in Block(b, n) : flag[p])
      /\ property' = [property EXCEPT ![b] = n]
      /\ flag' = [p \in Page |-> IF p \in Block(b, n) THEN p = b ELSE flag[p]]
      /\ nr_free' = nr_free + n /\ owned' = owned \ Block(b, n)
  BY DEF Free
<1>2. InList = Marked /\ Loose = {}
  BY <1>1 DEF InList, Loose, Idle
<1>3. /\ links \in Links /\ property \in Sizes /\ flag \in [Page -> BOOLEAN]
      /\ owned \in SUBSET Page /\ Marked \in SUBSET Page
      /\ Chain(links, Marked) /\ Tiles(property, Marked, owned)
      /\ ApartBut(property, Marked, {}, {})
      /\ nr_free = Cardinality(Page \ owned) /\ NPage - 1 \notin owned
  BY <1>2, FitFacts
<1>4. links.next[Head] # Head
  <2>1. PICK t \in Marked : t + property[t] = NPage
    BY LastBlock
  <2>2. links.next[Head] <= t
    BY <1>3 DEF Chain
  <2> QED BY <1>3, <2>2, PageFacts
<1>5. /\ links' = links
      /\ call' = [op |-> "free", base |-> b, n |-> n, le |-> Head, best |-> Head]
  BY <1>4 DEF Free, Idle
<1>6. /\ property' \in Sizes /\ b + n <= NPage /\ b \notin Marked
      /\ \A p \in Block(b, n) : p \notin Marked
      /\ Tiles(property', Marked \cup {b}, owned')
  <2>1. /\ [property EXCEPT ![b] = n] \in Sizes /\ b + n <= NPage /\ b \notin Marked
        /\ \A p \in Block(b, n) : p \notin Marked
        /\ Tiles([property EXCEPT ![b] = n], Marked \cup {b}, owned \ Block(b, n))
    BY <1>1, <1>3, TilesAdd
  <2> QED BY <1>1, <2>1
<1>7. b \in Nat /\ n \in Nat /\ n >= 1 /\ NPage \in Nat /\ b \in Block(b, n)
  BY PageFacts DEF Block
<1>8. Marked' = Marked \cup {b}
  <2>1. \A p \in Page : flag'[p] <=> IF p \in Block(b, n) THEN p = b ELSE flag[p]
    BY <1>1
  <2> QED BY <1>6, <1>7, <2>1 DEF Marked
<1>9. InList' = Marked /\ Loose' = {b}
  BY <1>5, <1>6, <1>8 DEF InList, Loose
<1>10. oops' = FALSE
  <2>1. \A p \in Block(b, n) : p \in Page /\ ~flag[p]
    BY <1>1, <1>3, <1>6 DEF Marked
  <2> QED BY <1>1, <2>1
<1>11. ApartBut(property', Marked', {b}, {b})
  <2>1. \A p \in Marked : p # b /\ property'[p] = property[p]
    BY <1>1, <1>3, <1>6 DEF Sizes
  <2> QED BY <1>3, <1>8, <2>1 DEF ApartBut
<1>12. NPage - 1 \notin owned' /\ b + n < NPage
  <2>1. b + n - 1 \in owned
    BY <1>1, <1>7 DEF Block
  <2> QED BY <1>1, <1>3, <1>6, <1>7, <2>1
<1>13. nr_free' = Cardinality(Page \ owned') /\ nr_free' \in 0..NPage
  <2> DEFINE A == Page \ owned'
  <2>1. A \in SUBSET Page /\ Block(b, n) \subseteq A /\ A \ Block(b, n) = Page \ owned
    BY <1>1, <1>3
  <2> HIDE DEF A
  <2>2. /\ Cardinality(A) \in Nat /\ Cardinality(A) <= NPage
        /\ Cardinality(A \ Block(b, n)) = Cardinality(A) - n
    BY <1>7, <2>1, BlockCard
  <2>3. nr_free = Cardinality(A) - n
    BY <1>3, <2>1, <2>2
  <2>4. nr_free' = Cardinality(A)
    BY <1>1, <1>7, <2>2, <2>3
  <2> QED BY <1>7, <2>2, <2>4 DEF A
<1>14. TypeOK'
  <2>1. flag' \in [Page -> BOOLEAN]
    BY <1>1, <1>3
  <2>2. owned' \in SUBSET Page /\ oops' \in BOOLEAN /\ pmm_manager' \in Manager
    BY <1>1, <1>3, <1>10, FitFacts
  <2>3. call' \in [op : {"none", "alloc", "free", "merge", "null"},
                   base : Page, n : Nat, le : Node, best : Node]
    BY <1>5, <1>7, PageFacts
  <2> QED BY <1>3, <1>5, <1>6, <1>13, <2>1, <2>2, <2>3 DEF TypeOK, Links, Sizes
<1>15. Progress'
  <2>1. property'[b] = n
    BY <1>1, <1>3 DEF Sizes
  <2>2. /\ call'.op = "free" /\ call'.base = b /\ call'.le = Head
    BY <1>5
  <2> QED BY <1>8, <1>12, <2>1, <2>2 DEF Progress
<1>16. Chain(links', InList')
  BY <1>3, <1>5, <1>9
<1>17. ApartBut(property', Marked', Loose', Loose')
  BY <1>9, <1>11
<1>18. Tiles(property', Marked', owned')
  BY <1>6, <1>8
<1> QED BY <1>10, <1>12, <1>13, <1>14, <1>15, <1>16, <1>17, <1>18 DEF FitInv

(* The loop finds the place of the block before it comes to the end, since *)
(* there is a block above it.                                              *)
LEMMA InsertStep ==
  ASSUME FitInv, InsertTurn, UNCHANGED pmm_manager
  PROVE  FitInv'
<1> DEFINE le == links.next[call.le]
           b == call.base
           X == Marked \ {b}
<1>1. /\ call.op = "free"
      /\ \/ le = Head
         \/ /\ le # Head /\ b < le
            /\ links' = ListAddBefore(links, le, b)
            /\ call' = [call EXCEPT !.op = "merge"]
         \/ /\ le # Head /\ ~(b < le)
            /\ links' = IF links.next[le] = Head THEN ListAdd(links, le, b) ELSE links
            /\ call' = [call EXCEPT !.le = le]
      /\ UNCHANGED <<property, flag, nr_free, owned, oops, pmm_manager>>
  BY DEF InsertTurn, Walking
<1>2. InList = X /\ Loose = {b}
  BY <1>1 DEF InList, Loose
<1>3. /\ b \in Marked /\ call.le \in X \cup {Head}
      /\ (call.le # Head => call.le < b) /\ b + property[b] < NPage
  BY <1>1, <1>2 DEF FitInv, Progress
<1>4. /\ links \in Links /\ property \in Sizes /\ X \in SUBSET Page
      /\ owned \in SUBSET Page /\ Marked \in SUBSET Page
      /\ Chain(links, X) /\ Tiles(property, Marked, owned)
      /\ ApartBut(property, Marked, {b}, {b})
      /\ call \in [op : {"none", "alloc", "free", "merge", "null"},
                   base : Page, n : Nat, le : Node, best : Node]
  BY <1>2, FitFacts
<1>5. /\ le \in X \cup {Head} /\ links.prev[le] = call.le
      /\ \A q \in X : IF call.le = Head THEN le <= q ELSE q <= call.le \/ le <= q
  BY <1>2, <1>3, NextFacts
<1>6. /\ b \in Page /\ b \in Nat /\ NPage \in Nat /\ \A q \in X : q \in Nat /\ q # b
      /\ X \cup {Head} \subseteq Node /\ le \in Nat /\ call.le \in Nat
  BY <1>3, <1>4, <1>5, PageFacts
<1>7. PICK t \in X : b < t
  <2>1. PICK t \in Marked : t + property[t] = NPage
    BY LastBlock
  <2>2. t \in Nat /\ property[t] \in Nat /\ t # b /\ (t < b => t + property[t] <= b)
    BY <1>3, <1>4, <2>1, TileFacts
  <2>3. b < NPage
    BY <1>3, <1>4, TileFacts
  <2>4. b < t
    BY <1>6, <2>1, <2>2, <2>3
  <2> QED BY <2>2, <2>4
<1>8. le # Head
  <2>1. le <= t
    BY <1>3, <1>5, <1>6, <1>7
  <2> QED BY <1>4, <2>1, PageFacts
<1>9. Marked' = Marked
  BY <1>1 DEF Marked
<1> HIDE DEF le, X, b
<1>10. CASE /\ b < le /\ links' = ListAddBefore(links, le, b)
            /\ call' = [call EXCEPT !.op = "merge"]
  <2>1. /\ call'.op = "merge" /\ call'.base = b
        /\ call' \in [op : {"none", "alloc", "free", "merge", "null"},
                      base : Page, n : Nat, le : Node, best : Node]
    BY <1>4, <1>10 DEF b
  <2>2. links' = Link(links, b, call.le, links.next[call.le])
    BY <1>5, <1>10 DEF ListAddBefore, le
  <2>3. b \notin X /\ X \cup {b} = Marked
    BY <1>3 DEF X
  <2>4. b < links.next[call.le]
    BY <1>10 DEF le
  <2>5. links' \in Links /\ Chain(links', X \cup {b})
    BY <1>3, <1>4, <1>6, <2>2, <2>3, <2>4, ChainAdd
  <2>6. InList' = Marked /\ Loose' = {b}
    BY <1>9, <2>1 DEF InList, Loose
  <2>7. TypeOK'
    BY <1>1, <2>1, <2>5 DEF FitInv, TypeOK, Links
  <2>8. Progress'
    BY <1>3, <1>9, <2>1 DEF Progress
  <2>9. Chain(links', InList')
    BY <2>3, <2>5, <2>6
  <2>10. Tiles(property', Marked', owned')
    BY <1>1, <1>4, <1>9
  <2>11. ApartBut(property', Marked', Loose', Loose')
    BY <1>1, <1>4, <1>9, <2>6
  <2> QED BY <1>1, <2>7, <2>8, <2>9, <2>10, <2>11 DEF FitInv
<1>11. CASE /\ ~(b < le)
            /\ links' = IF links.next[le] = Head THEN ListAdd(links, le, b) ELSE links
            /\ call' = [call EXCEPT !.le = le]
  <2>1. le \in X /\ le < b
    BY <1>5, <1>6, <1>8, <1>11
  <2>2. links.next[le] # Head
    <3>1. le < t
      BY <1>6, <1>7, <2>1
    <3>2. links.next[le] <= t
      BY <1>4, <2>1, <3>1 DEF Chain
    <3> QED BY <1>4, <3>2, PageFacts
  <2>3. links' = links
    BY <1>11, <2>2
  <2>4. /\ call'.op = "free" /\ call'.base = b /\ call'.le = le
        /\ call' \in [op : {"none", "alloc", "free", "merge", "null"},
                      base : Page, n : Nat, le : Node, best : Node]
    BY <1>1, <1>4, <1>6, <1>11, <2>1 DEF b
  <2>5. InList' = X /\ Loose' = {b}
    BY <1>9, <2>4 DEF InList, Loose, X
  <2>6. Progress'
    BY <1>1, <1>3, <1>9, <2>1, <2>4, <2>5 DEF Progress
  <2>7. UNCHANGED <<area, owned, oops, pmm_manager>>
    BY <1>1, <2>3 DEF area
  <2>8. InList' = InList /\ Loose' = Loose
    BY <1>2, <2>5
  <2> QED BY <2>4, <2>6, <2>7, <2>8, LookStep
<1> QED BY <1>1, <1>8, <1>10, <1>11

(* The state that Merge works on: base is a block of the list.             *)
Heads(Z) == {p \in Page : Z.flag[p]}

ZoneOK(Z) ==
  /\ Z.links \in Links /\ Z.property \in Sizes /\ Z.flag \in [Page -> BOOLEAN]
  /\ Z.base \in Heads(Z)
  /\ Chain(Z.links, Heads(Z)) /\ Tiles(Z.property, Heads(Z), owned)

(* A block takes over its neighbour: flag, size and list agree again.      *)
LEMMA AbsorbFacts ==
  ASSUME FitInv, NEW Z, ZoneOK(Z), NEW p \in Heads(Z), NEW q \in Heads(Z),
         p + Z.property[p] = q
  PROVE  /\ ZoneOK(Absorb(Z, p, q)) /\ Heads(Absorb(Z, p, q)) = Heads(Z) \ {q}
         /\ Absorb(Z, p, q).base = p
         /\ Absorb(Z, p, q).property = [Z.property EXCEPT ![p] = @ + Z.property[q]]
<1> DEFINE Y == Absorb(Z, p, q)
           X == Heads(Z)
<1>1. X \in SUBSET Page /\ owned \in SUBSET Page
  BY FitFacts DEF Heads
<1>2. /\ Y.links = ListDel(Z.links, q) /\ Y.flag = [Z.flag EXCEPT ![q] = FALSE]
      /\ Y.property = [Z.property EXCEPT ![p] = @ + Z.property[q]] /\ Y.base = p
  BY <1>1 DEF Absorb
<1>3. /\ Z.links \in Links /\ Z.property \in Sizes /\ Z.flag \in [Page -> BOOLEAN]
      /\ Chain(Z.links, X) /\ Tiles(Z.property, X, owned)
  BY DEF ZoneOK
<1>4. p \in Nat /\ Z.property[p] \in Nat /\ Z.property[p] >= 1 /\ p # q
  BY <1>1, <1>3, TileFacts
<1> HIDE DEF Y
<1>5. Heads(Y) = X \ {q}
  <2>1. \A x \in Page : Y.flag[x] = IF x = q THEN FALSE ELSE Z.flag[x]
    BY <1>1, <1>2, <1>3
  <2> QED BY <2>1 DEF Heads
<1> HIDE DEF X
<1>6. Y.links \in Links /\ Chain(Y.links, X \ {q})
  BY <1>1, <1>2, <1>3, ChainDel DEF X
<1>7. Y.property \in Sizes /\ Tiles(Y.property, X \ {q}, owned)
  BY <1>1, <1>2, <1>3, TilesMerge DEF X
<1>8. Y.flag \in [Page -> BOOLEAN] /\ Y.base \in X \ {q}
  BY <1>2, <1>3, <1>4 DEF X
<1> QED BY <1>2, <1>5, <1>6, <1>7, <1>8 DEF ZoneOK, X, Y

(* The merge with the block below leaves nothing that touches from below.  *)
LEMMA MergeBackFacts ==
  ASSUME FitInv, NEW Z, ZoneOK(Z), ApartBut(Z.property, Heads(Z), {Z.base}, {Z.base})
  PROVE  /\ ZoneOK(MergeBack(Z))
         /\ ApartBut(MergeBack(Z).property, Heads(MergeBack(Z)), {MergeBack(Z).base}, {})
<1> DEFINE q == Z.base
           p == Z.links.prev[q]
           X == Heads(Z)
           Y == MergeBack(Z)
           pr == Z.property
<1>1. X \in SUBSET Page /\ owned \in SUBSET Page
  BY FitFacts DEF Heads
<1>2. /\ Z.links \in Links /\ pr \in Sizes /\ q \in X
      /\ Chain(Z.links, X) /\ Tiles(pr, X, owned)
  BY DEF ZoneOK
<1>3. /\ p \in X \cup {Head} /\ Z.links.next[p] = q /\ (p # Head => p < q)
  BY <1>1, <1>2, ChainFacts
<1>4. /\ \A x \in X : x \in Page /\ x \in Nat /\ pr[x] \in Nat /\ pr[x] >= 1
      /\ \A x, y \in X : x < y => x + pr[x] <= y
  BY <1>1, <1>2, TileFacts
<1>5. \A x, y \in X : x < y /\ x # q /\ y # q => x + pr[x] < y
  BY DEF ApartBut
<1>6. /\ \A x \in X : Z.links.next[Head] <= x
      /\ \A x, y \in X : x < y => Z.links.next[x] <= y
  BY <1>2 DEF Chain
<1>7. Y = Absorb(Z, p, q)
  BY DEF MergeBack
<1> HIDE DEF q, p, X, Y, pr
<1>8. CASE p \in X /\ p + pr[p] = q
  <2>1. /\ ZoneOK(Y) /\ Heads(Y) = X \ {q} /\ Y.base = p
        /\ Y.property = [pr EXCEPT ![p] = @ + pr[q]]
    BY <1>2, <1>7, <1>8, AbsorbFacts DEF X, pr
  <2>2. \A x \in X : x # p => Y.property[x] = pr[x]
    BY <1>2, <1>4, <1>8, <2>1 DEF Sizes
  <2>3. ASSUME NEW x \in X \ {q}, NEW y \in X \ {q}, x < y, x # p
        PROVE  x + Y.property[x] < y
    BY <1>5, <2>2, <2>3
  <2>4. ApartBut(Y.property, Heads(Y), {Y.base}, {})
    BY <2>1, <2>3 DEF ApartBut
  <2> QED BY <2>1, <2>4 DEF Y
<1>9. CASE ~(p \in X /\ p + pr[p] = q)
  <2>1. Y = Z
    <3>1. p \in Page => p \in X
      BY <1>3, PageFacts
    <3> QED BY <1>7, <1>9, <3>1 DEF Absorb, pr
  <2>2. ASSUME NEW x \in X, x < q
        PROVE  x + pr[x] < q
    <3>1. p \in X
      <4>1. q <= x => FALSE
        BY <1>2, <1>4, <2>2
      <4> QED BY <1>3, <1>6, <4>1
    <3>2. p + pr[p] < q
      BY <1>2, <1>3, <1>4, <1>9, <3>1, PageFacts
    <3>3. CASE x = p
      BY <3>2, <3>3
    <3>4. CASE x < p
      <4>1. x + pr[x] <= p
        BY <1>4, <3>1, <3>4
      <4> QED BY <1>2, <1>4, <3>1, <3>2, <4>1
    <3>5. CASE p < x
      <4>1. q <= x
        BY <1>3, <1>6, <3>1, <3>5
      <4> QED BY <1>2, <1>4, <2>2, <4>1
    <3> QED BY <1>4, <3>1, <3>3, <3>4, <3>5
  <2>3. ASSUME NEW x \in X, NEW y \in X, x < y, x # q
        PROVE  x + pr[x] < y
    BY <1>5, <2>2, <2>3
  <2>4. ApartBut(pr, X, {q}, {})
    BY <2>3 DEF ApartBut
  <2> QED BY <2>1, <2>4 DEF Y, pr, X, q
<1> QED BY <1>8, <1>9

(* The merge with the block above leaves no two blocks that touch.         *)
LEMMA MergeForwardFacts ==
  ASSUME FitInv, NEW Z, ZoneOK(Z), ApartBut(Z.property, Heads(Z), {Z.base}, {})
  PROVE  /\ ZoneOK(MergeForward(Z))
         /\ ApartBut(MergeForward(Z).property, Heads(MergeForward(Z)), {}, {})
<1> DEFINE p == Z.base
           q == Z.links.next[p]
           X == Heads(Z)
           Y == MergeForward(Z)
           pr == Z.property
<1>1. X \in SUBSET Page /\ owned \in SUBSET Page
  BY FitFacts DEF Heads
<1>2. /\ Z.links \in Links /\ pr \in Sizes /\ p \in X
      /\ Chain(Z.links, X) /\ Tiles(pr, X, owned)
  BY DEF ZoneOK
<1>3. q \in X \cup {Head} /\ p < q
  BY <1>1, <1>2, ChainFacts
<1>4. /\ \A x \in X : x \in Page /\ x \in Nat /\ pr[x] \in Nat /\ pr[x] >= 1
                      /\ x + pr[x] <= NPage
      /\ \A x, y \in X : x < y => x + pr[x] <= y
  BY <1>1, <1>2, TileFacts
<1>5. \A x, y \in X : x < y /\ x # p => x + pr[x] < y
  BY DEF ApartBut
<1>6. \A y \in X : p < y => q <= y
  BY <1>2 DEF Chain
<1>7. Y = Absorb(Z, p, q)
  BY DEF MergeForward
<1> HIDE DEF q, p, X, Y, pr
<1>8. CASE q \in X /\ p + pr[p] = q
  <2>1. /\ ZoneOK(Y) /\ Heads(Y) = X \ {q}
        /\ Y.property = [pr EXCEPT ![p] = @ + pr[q]]
    BY <1>2, <1>7, <1>8, AbsorbFacts DEF X, pr
  <2>2. /\ \A x \in X : x # p => Y.property[x] = pr[x]
        /\ Y.property[p] = pr[p] + pr[q]
    BY <1>2, <1>4, <1>8, <2>1 DEF Sizes
  <2>3. ASSUME NEW x \in X \ {q}, NEW y \in X \ {q}, x < y
        PROVE  x + Y.property[x] < y
    <3>1. CASE x # p
      BY <1>5, <2>2, <2>3, <3>1
    <3>2. CASE x = p
      <4>1. q < y
        BY <1>4, <1>6, <1>8, <2>3, <3>2
      <4>2. q + pr[q] < y
        BY <1>2, <1>3, <1>4, <1>5, <1>8, <4>1
      <4>3. x + Y.property[x] = q + pr[q]
        BY <1>2, <1>4, <1>8, <2>2, <3>2
      <4> QED BY <4>2, <4>3
    <3> QED BY <3>1, <3>2
  <2>4. ApartBut(Y.property, Heads(Y), {}, {})
    BY <2>1, <2>3 DEF ApartBut
  <2> QED BY <2>1, <2>4 DEF Y
<1>9. CASE ~(q \in X /\ p + pr[p] = q)
  <2>1. Y = Z
    <3>1. q \in Page => q \in X
      BY <1>3, PageFacts
    <3> QED BY <1>7, <1>9, <3>1 DEF Absorb, pr
  <2>2. ASSUME NEW y \in X, p < y
        PROVE  p + pr[p] < y
    <3>1. q <= y /\ q \in X
      BY <1>3, <1>4, <1>6, <2>2, PageFacts
    <3>2. p + pr[p] < q
      BY <1>2, <1>3, <1>4, <1>9, <3>1
    <3> QED BY <1>2, <1>4, <3>1, <3>2
  <2>3. ASSUME NEW x \in X, NEW y \in X, x < y
        PROVE  x + pr[x] < y
    BY <1>5, <2>2, <2>3
  <2>4. ApartBut(pr, X, {}, {})
    BY <2>3 DEF ApartBut
  <2> QED BY <2>1, <2>4 DEF Y, pr, X
<1> QED BY <1>8, <1>9

(* Both merges together, at the end of free_pages.                         *)
LEMMA MergeStep ==
  ASSUME FitInv, Merge, UNCHANGED pmm_manager
  PROVE  FitInv'
<1> DEFINE Z == [links |-> links, property |-> property, flag |-> flag,
                 base |-> call.base]
           Y == MergeBack(Z)
           W == MergeForward(Y)
<1>1. /\ call.op = "merge" /\ call' = Idle
      /\ links' = W.links /\ property' = W.property /\ flag' = W.flag
      /\ UNCHANGED <<nr_free, owned, oops, pmm_manager>>
  BY DEF Merge, Walking
<1>2. InList = Marked /\ Loose = {call.base} /\ call.base \in Marked
  BY <1>1 DEF InList, Loose, FitInv, Progress
<1>3. ZoneOK(Z) /\ ApartBut(Z.property, Heads(Z), {Z.base}, {Z.base})
  <2>1. Heads(Z) = Marked
    BY DEF Heads, Marked
  <2> QED BY <1>2, <2>1, FitFacts DEF ZoneOK
<1> HIDE DEF Z
<1>4. ZoneOK(Y) /\ ApartBut(Y.property, Heads(Y), {Y.base}, {})
  BY <1>3, MergeBackFacts
<1> HIDE DEF Y
<1>5. ZoneOK(W) /\ ApartBut(W.property, Heads(W), {}, {})
  BY <1>4, MergeForwardFacts
<1> HIDE DEF W
<1>6. Marked' = Heads(W)
  BY <1>1 DEF Marked, Heads
<1>7. InList' = Marked' /\ Loose' = {} /\ Progress'
  BY <1>1 DEF InList, Loose, Progress, Idle
<1>8. TypeOK'
  <2>1. call' \in [op : {"none", "alloc", "free", "merge", "null"},
                   base : Page, n : Nat, le : Node, best : Node]
    BY <1>1, PageFacts DEF Idle, Page
  <2>2. links' \in Links /\ property' \in Sizes /\ flag' \in [Page -> BOOLEAN]
    BY <1>1, <1>5 DEF ZoneOK
  <2> QED BY <1>1, <2>1, <2>2 DEF FitInv, TypeOK, Links, Sizes
<1>9. Chain(links', InList') /\ Tiles(property', Marked', owned')
  BY <1>1, <1>5, <1>6, <1>7 DEF ZoneOK
<1>10. ApartBut(property', Marked', Loose', Loose')
  BY <1>1, <1>5, <1>6, <1>7
<1> QED BY <1>1, <1>7, <1>8, <1>9, <1>10 DEF FitInv

(* Every step of the allocator preserves the invariant.                    *)
LEMMA NextFit ==
  ASSUME KeepTop, FitInv, [Next]_vars
  PROVE  FitInv'
<1>1. CASE UNCHANGED vars
  <2>1. UNCHANGED <<area, owned, oops, pmm_manager, call>>
    BY <1>1 DEF vars
  <2>2. UNCHANGED <<flag, property, nr_free>>
    BY <2>1 DEF area
  <2>3. InList' = InList /\ Loose' = Loose /\ Marked' = Marked
    BY <2>1, <2>2 DEF InList, Loose, Marked
  <2>4. Progress'
    BY <2>1, <2>2, <2>3 DEF FitInv, Progress
  <2>5. call' \in [op : {"none", "alloc", "free", "merge", "null"},
                   base : Page, n : Nat, le : Node, best : Node]
    BY <2>1, FitFacts
  <2> QED BY <2>1, <2>3, <2>4, <2>5, LookStep
<1>2. ASSUME NEW n \in 1..NPage, Alloc(n), UNCHANGED pmm_manager
      PROVE  FitInv'
  BY <1>2, AllocStep
<1>3. ASSUME NEW b \in Page, NEW n \in 1..NPage, Free(b, n), UNCHANGED pmm_manager
      PROVE  FitInv'
  BY <1>3, FreeStep
<1>4. CASE Turn /\ UNCHANGED pmm_manager
  BY <1>4, FirstFitStep, BestFitStep, AllocNullStep, InsertStep, MergeStep DEF Turn
<1> QED BY <1>1, <1>2, <1>3, <1>4 DEF Next

-----------------------------------------------------------------------------
(* What a walk of the list finds *)

(* Walk is defined by its own values: for every length there is such a     *)
(* function.                                                               *)
LEMMA WalkExists ==
  ASSUME NEW nx, NEW m \in Nat
  PROVE  \E w : w = [i \in 0..m |-> IF i = 0 THEN nx[Head]
                                    ELSE IF w[i - 1] = Head THEN Head ELSE nx[w[i - 1]]]
<1> DEFINE W(w, k) == w = [i \in 0..k |-> IF i = 0 THEN nx[Head]
                              ELSE IF w[i - 1] = Head THEN Head ELSE nx[w[i - 1]]]
           Bad == {k \in Nat : ~ \E w : W(w, k)}
<1> SUFFICES ASSUME Bad # {} PROVE FALSE
  OBVIOUS
<1>1. PICK k \in Bad : \A j \in Bad : k <= j
  BY Least
<1>2. k # 0
  <2> DEFINE w == [i \in 0..0 |-> nx[Head]]
  <2>1. W(w, 0)
    OBVIOUS
  <2> QED BY <1>1, <2>1
<1>3. k - 1 \in Nat /\ k - 1 \notin Bad
  BY <1>1, <1>2
<1>4. PICK v : W(v, k - 1)
  BY <1>3
<1> DEFINE w == [i \in 0..k |-> IF i = k THEN IF v[k - 1] = Head THEN Head ELSE nx[v[k - 1]]
                                ELSE v[i]]
<1>5. \A i \in 0..(k - 1) : v[i] = IF i = 0 THEN nx[Head]
                               ELSE IF v[i - 1] = Head THEN Head ELSE nx[v[i - 1]]
  BY <1>4
<1>6. k \in Nat
  OBVIOUS
<1>7. /\ w[k] = IF v[k - 1] = Head THEN Head ELSE nx[v[k - 1]]
      /\ \A i \in 0..(k - 1) : w[i] = v[i]
      /\ w = [i \in 0..k |-> w[i]]
  BY <1>6
<1> HIDE DEF w
<1>8. ASSUME NEW i \in 0..k
      PROVE  w[i] = IF i = 0 THEN nx[Head] ELSE IF w[i - 1] = Head THEN Head ELSE nx[w[i - 1]]
  <2>1. CASE i = k
    <3>1. w[i - 1] = v[i - 1]
      BY <1>3, <1>6, <1>7, <2>1
    <3> QED BY <1>2, <1>7, <2>1, <3>1
  <2>2. CASE i # k
    <3>1. i \in 0..(k - 1) /\ (i # 0 => i - 1 \in 0..(k - 1))
      BY <1>6, <2>2
    <3>2. w[i] = v[i] /\ (i # 0 => w[i - 1] = v[i - 1])
      BY <1>7, <3>1
    <3> QED BY <1>5, <3>1, <3>2
  <2> QED BY <2>1, <2>2
<1>9. W(w, k)
  BY <1>7, <1>8
<1> QED BY <1>1, <1>9

(* The nodes that a walk from the head comes to, one by one.               *)
LEMMA WalkFacts ==
  /\ Walk[0] = links.next[Head]
  /\ \A i \in 1..(NPage + 1) :
       Walk[i] = IF Walk[i - 1] = Head THEN Head ELSE links.next[Walk[i - 1]]
<1>1. NPage \in Nat /\ NPage + 1 \in Nat
  BY PageFacts
<1> DEFINE m == NPage + 1
           P(w) == w = [i \in 0..m |-> IF i = 0 THEN links.next[Head]
                          ELSE IF w[i - 1] = Head THEN Head ELSE links.next[w[i - 1]]]
<1>2. Walk = CHOOSE w : P(w)
  BY DEF Walk
<1>3. \E w : P(w)
  BY <1>1, WalkExists
<1>4. P(Walk)
  BY <1>2, <1>3
<1> QED BY <1>1, <1>4

(* A walk goes through the nodes of the list and comes back to the head.   *)
LEMMA WalkChain ==
  ASSUME FitInv, InList = Marked
  PROVE  Walk[NPage + 1] = Head /\ Listed = Marked
<1>0. /\ NPage \in Nat \ {0} /\ Head = NPage /\ Head \notin Marked
      /\ \A p \in Marked : p \in Nat /\ p < NPage
  BY PageFacts DEF Marked
<1>1. /\ \A p \in Marked \cup {Head} :
            links.next[p] \in Marked \cup {Head} /\ links.prev[p] \in Marked \cup {Head}
            /\ links.prev[links.next[p]] = p /\ links.next[links.prev[p]] = p
      /\ \A p \in Marked : p < links.next[p]
  BY DEF FitInv, Chain
<1>2. \A i \in 0..(NPage + 1) :
        Walk[i] \in Marked \cup {Head} /\ (Walk[i] # Head => i <= Walk[i])
  <2> DEFINE Good(i) == Walk[i] \in Marked \cup {Head} /\ (Walk[i] # Head => i <= Walk[i])
             Bad == {i \in 0..(NPage + 1) : ~Good(i)}
  <2> SUFFICES ASSUME Bad # {} PROVE FALSE
    OBVIOUS
  <2>0. Bad \subseteq Nat
    BY <1>0
  <2>1. PICK k \in Bad : \A j \in Bad : k <= j
    <3> HIDE DEF Bad
    <3> QED BY <2>0, Least
  <2>2. k \in Nat /\ k <= NPage + 1 /\ ~Good(k)
    BY <1>0
  <2>3. Good(0)
    BY <1>0, <1>1, WalkFacts
  <2>4. k # 0
    BY <2>2, <2>3
  <2>5. k - 1 \in 0..(NPage + 1) /\ k - 1 \notin Bad /\ k \in 1..(NPage + 1)
    BY <1>0, <2>1, <2>2, <2>4
  <2>6. Good(k - 1)
    BY <2>5
  <2>7. Walk[k] = IF Walk[k - 1] = Head THEN Head ELSE links.next[Walk[k - 1]]
    BY <2>5, WalkFacts
  <2>8. CASE Walk[k - 1] = Head
    BY <2>2, <2>7, <2>8
  <2>9. CASE Walk[k - 1] # Head
    <3> DEFINE x == Walk[k - 1]
    <3>1. x \in Marked /\ k - 1 <= x /\ Walk[k] = links.next[x]
      BY <2>6, <2>7, <2>9
    <3> HIDE DEF x
    <3>2. /\ x < links.next[x] /\ links.next[x] \in Marked \cup {Head}
          /\ links.next[x] \in Nat /\ x \in Nat
      BY <1>0, <1>1, <3>1
    <3>3. k <= links.next[x]
      BY <2>2, <3>1, <3>2
    <3> QED BY <2>2, <3>1, <3>2, <3>3
  <2> QED BY <2>8, <2>9
<1>3. \A i \in 0..(NPage + 1) : Walk[i] # Head => i < NPage
  BY <1>0, <1>2
<1>4. Walk[NPage + 1] = Head
  BY <1>0, <1>3
<1>5. Listed \subseteq Marked
  <2>1. 0..NPage \subseteq 0..(NPage + 1)
    BY <1>0
  <2> QED BY <1>2, <2>1 DEF Listed
<1>6. Marked \subseteq Listed
  <2> DEFINE Bad == Marked \ Listed
  <2> SUFFICES ASSUME Bad # {} PROVE FALSE
    OBVIOUS
  <2>1. PICK p \in Bad : \A r \in Bad : p <= r
    BY <1>0, Least
  <2> DEFINE a == links.prev[p]
  <2>2. a \in Marked \cup {Head} /\ links.next[a] = p /\ p \in Marked /\ p # Head
    BY <1>0, <1>1
  <2> HIDE DEF a
  <2>3. CASE a = Head
    <3>1. Walk[0] = p /\ 0 \in 0..NPage
      BY <1>0, <2>2, <2>3, WalkFacts
    <3> QED BY <2>2, <3>1 DEF Listed
  <2>4. CASE a # Head
    <3>1. a \in Marked /\ a < p
      BY <1>1, <2>2, <2>4
    <3>2. a \in Listed
      BY <1>0, <2>1, <2>2, <3>1
    <3>3. PICK i \in 0..NPage : Walk[i] = a
      BY <3>2 DEF Listed
    <3>4. i < NPage
      <4>1. i \in 0..(NPage + 1)
        BY <1>0
      <4> QED BY <1>3, <2>4, <3>3, <4>1
    <3>5. /\ i + 1 \in 1..(NPage + 1) /\ i + 1 \in 0..NPage /\ (i + 1) - 1 = i
      BY <1>0, <3>4
    <3>6. Walk[i + 1] = p
      BY <2>2, <2>4, <3>3, <3>5, WalkFacts
    <3> QED BY <2>2, <3>5, <3>6 DEF Listed
  <2> QED BY <2>2, <2>3, <2>4
<1> QED BY <1>4, <1>5, <1>6

(* The invariant gives the exact free list between two calls.              *)
LEMMA FitGivesExact == FitInv => FreeListExact
<1> SUFFICES ASSUME FitInv PROVE FreeListExact
  OBVIOUS
<1>1. TypeOK /\ ~oops
  BY DEF FitInv
<1> SUFFICES ASSUME call = Idle
             PROVE  /\ Walk[NPage + 1] = Head
                    /\ \A p \in Listed \cup {Head} :
                         /\ links.prev[links.next[p]] = p
                         /\ p # Head => p < links.next[p]
                    /\ \A p \in Listed :
                         p + property[p] < links.next[p] \/ links.next[p] = Head
                    /\ UNION {Block(p, property[p]) : p \in Listed} = Page \ owned
                    /\ Listed = {p \in Page : flag[p]}
                    /\ nr_free = Cardinality(Page \ owned)
  BY <1>1 DEF FreeListExact
<1>2. InList = Marked /\ Loose = {}
  BY DEF InList, Loose, Idle
<1>3. Walk[NPage + 1] = Head /\ Listed = Marked
  BY <1>2, WalkChain
<1>4. \A p \in Marked \cup {Head} : /\ links.prev[links.next[p]] = p
                                    /\ p # Head => p < links.next[p]
                                    /\ links.next[p] \in Marked \cup {Head}
  BY <1>2 DEF FitInv, Chain
<1>5. \A p \in Marked : p + property[p] < links.next[p] \/ links.next[p] = Head
  <2>1. \A p, q \in Marked : p < q => p + property[p] < q
    BY <1>2 DEF FitInv, ApartBut
  <2>2. \A p \in Marked : p # Head
    BY PageFacts DEF Marked
  <2> QED BY <1>4, <2>1, <2>2
<1>6. UNION {Block(p, property[p]) : p \in Marked} = Page \ owned
  <2>1. /\ property \in Sizes /\ Marked \in SUBSET Page /\ owned \in SUBSET Page
        /\ Tiles(property, Marked, owned)
    BY FitFacts
  <2>2. ASSUME NEW p \in Marked, NEW x
        PROVE  x \in Block(p, property[p]) <=> x \in Page /\ p <= x /\ x < p + property[p]
    <3>1. p \in Nat /\ property[p] \in Nat /\ p + property[p] <= NPage /\ NPage \in Nat
      BY <2>1, TileFacts, PageFacts
    <3> QED BY <3>1 DEF Block, Page
  <2>3. \A x \in Page : x \notin owned <=> \E p \in Marked : p <= x /\ x < p + property[p]
    BY <2>1 DEF Tiles
  <2> QED BY <2>2, <2>3
<1>7. nr_free = Cardinality(Page \ owned)
  BY DEF FitInv
<1> QED BY <1>3, <1>4, <1>5, <1>6, <1>7 DEF Marked

(* It also gives that a failing call finds no room: free blocks are as     *)
(* long as they can be.                                                    *)
LEMMA FitGivesFull == FitInv => FailsOnlyIfFull
<1> SUFFICES ASSUME FitInv, call.op = "null", NEW b \in Page,
                    Block(b, call.n) \subseteq Page \ owned
             PROVE  FALSE
  BY DEF FailsOnlyIfFull
<1>1. /\ property \in Sizes /\ Marked \in SUBSET Page /\ owned \in SUBSET Page
      /\ Tiles(property, Marked, owned) /\ ApartBut(property, Marked, {}, {})
      /\ nr_free = Cardinality(Page \ owned)
  BY FitFacts DEF Loose
<1>2. /\ call.n \in 1..NPage
      /\ call.n > nr_free \/ \A p \in Marked : property[p] < call.n
  BY DEF FitInv, Progress
<1>3. b \in Nat /\ call.n \in Nat /\ call.n >= 1
  BY <1>2, PageFacts
<1>4. CASE call.n > nr_free
  <2>1. call.n <= Cardinality(Page \ owned) /\ Cardinality(Page \ owned) \in Nat
    BY <1>3, BlockCard
  <2> QED BY <1>1, <1>3, <1>4, <2>1
<1>5. CASE \A p \in Marked : property[p] < call.n
  <2>1. b \in Block(b, call.n)
    BY <1>3 DEF Block
  <2>2. PICK p \in Marked : p <= b /\ b < p + property[p]
    BY <1>1, <2>1 DEF Tiles
  <2>3. p \in Nat /\ property[p] \in Nat
    BY <1>1, TileFacts
  <2>4. p + property[p] \in Block(b, call.n)
    BY <1>3, <1>5, <2>2, <2>3 DEF Block
  <2> QED BY <1>1, <2>4, Maximal
<1> QED BY <1>2, <1>4, <1>5

-----------------------------------------------------------------------------

(* When callers keep the top, the free list is exact between any two       *)
(* calls of alloc_pages and free_pages: linked both ways in the order of   *)
(* addresses, the free pages and no others, and no two blocks touch; for   *)
(* first fit and best fit and any number of pages.                         *)
THEOREM FreeListCorrect ==
  ASSUME KeepTop
  PROVE  Spec => []FreeListExact
<1>1. Init => FitInv
  BY InitFit
<1>2. FitInv /\ [Next]_vars => FitInv'
  BY NextFit
<1>3. FitInv => FreeListExact
  BY FitGivesExact
<1> QED BY <1>1, <1>2, <1>3, PTL DEF Spec

(* Likewise alloc_pages returns NULL only if there is no run of free pages *)
(* that is long enough.                                                    *)
THEOREM FailsOnlyIfFullCorrect ==
  ASSUME KeepTop
  PROVE  Spec => []FailsOnlyIfFull
<1>1. Init => FitInv
  BY InitFit
<1>2. FitInv /\ [Next]_vars => FitInv'
  BY NextFit
<1>3. FitInv => FailsOnlyIfFull
  BY FitGivesFull
<1> QED BY <1>1, <1>2, <1>3, PTL DEF Spec
=============================================================================
