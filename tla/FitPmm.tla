------------------------------- MODULE FitPmm -------------------------------
(***************************************************************************)
(* The physical page allocators of kern/mm that keep one free list in the  *)
(* order of addresses: default_pmm.c (first fit, the one pmm.c installs)   *)
(* and best_fit_pmm.c, which differs only in its search.  The list is      *)
(* modelled with its pointers, by the operations of libs/list.h.           *)
(*                                                                         *)
(* A call runs with interrupts off; its loops are walked one turn a step.  *)
(* page_ref and the reserved bit, which the allocators clear and never     *)
(* read, are left out.                                                     *)
(***************************************************************************)
EXTENDS Integers, FiniteSets, FiniteSetsExt

CONSTANTS
  NPage,     (* the number of pages given to init_memmap                   *)
  Manager,   (* the managers that pmm_manager may point to                 *)
  KeepTop    (* TRUE if callers never ask for all of the last free block   *)

ASSUME NPageAssumption == NPage \in Nat \ {0}
ASSUME FitAssumption   == Manager \subseteq {"default", "best_fit"}
ASSUME TopAssumption   == KeepTop \in BOOLEAN

VARIABLES
  pmm_manager,
  links,      (* page_link of the pages and of the list head               *)
  property,   (* page->property                                            *)
  flag,       (* PG_property in page->flags                                *)
  nr_free,
  owned,      (* the pages that callers hold                               *)
  call,       (* the call that is being executed, and its locals           *)
  oops        (* an assert has failed                                      *)

area == <<links, property, flag, nr_free>>
vars == <<pmm_manager, area, owned, call, oops>>

Page == 0..(NPage - 1)
Head == NPage                          (* &free_list *)
Node == Page \cup {Head}

(* op: "alloc" and "free" in their loops, "merge" after the loop of free,  *)
(* "null" when alloc returns NULL.  best is page of best_fit_alloc_pages,  *)
(* Head for NULL.                                                          *)
Idle == [op |-> "none", base |-> 0, n |-> 0, le |-> Head, best |-> Head]

TypeOK ==
  /\ pmm_manager \in Manager
  /\ links \in [next : [Node -> Node], prev : [Node -> Node]]
  /\ property \in [Page -> 0..NPage]
  /\ flag \in [Page -> BOOLEAN]
  /\ nr_free \in 0..NPage
  /\ owned \in SUBSET Page
  /\ call \in [op : {"none", "alloc", "free", "merge", "null"},
               base : Page, n : Nat, le : Node, best : Node]
  /\ oops \in BOOLEAN

(* init_pmm_manager, init and init_memmap: one block.                      *)
Init ==
  /\ pmm_manager \in Manager
  /\ links = [next |-> [x \in Node |-> IF x = Head THEN 0 ELSE Head],
              prev |-> [x \in Node |-> IF x = Head THEN 0 ELSE Head]]
  /\ property = [p \in Page |-> IF p = 0 THEN NPage ELSE 0]
  /\ flag = [p \in Page |-> p = 0]
  /\ nr_free = NPage
  /\ owned = {}
  /\ call = Idle
  /\ oops = FALSE

-----------------------------------------------------------------------------

(* __list_add: the stores in their order, since e, p and n may coincide.   *)
Link(L, e, p, n) ==
  [ next |-> [L.next EXCEPT ![p] = e, ![e] = n],
    prev |-> [L.prev EXCEPT ![n] = e, ![e] = p] ]

(* list_add(at, e) and list_add_before(at, e)                              *)
ListAdd(L, at, e)       == Link(L, e, at, L.next[at])
ListAddBefore(L, at, e) == Link(L, e, L.prev[at], at)

(* Fault: the entry behind keeps pointing back at the deleted one.         *)
ListDel_NextOnly(L, e) ==
  [L EXCEPT !.next = [@ EXCEPT ![L.prev[e]] = L.next[e]]]

(* list_del *)
ListDel(L, e) ==
  [ next |-> [L.next EXCEPT ![L.prev[e]] = L.next[e]],
    prev |-> [L.prev EXCEPT ![L.next[e]] = L.prev[e]] ]

Block(b, n) == b..(b + n - 1)

-----------------------------------------------------------------------------
(* alloc_pages *)

(* The number of free pages at the end of memory.                          *)
TopFree == NPage - 1 - Max(owned \cup {-1})

Alloc(n) ==
  /\ call = Idle /\ ~oops
  /\ KeepTop => n # TopFree
  /\ call' = [Idle EXCEPT !.op = IF n > nr_free THEN "null" ELSE "alloc",
                          !.n = n]
  /\ UNCHANGED <<area, owned, oops>>

(* The block at p is unlinked and returned; what is left of it goes back   *)
(* to its place in the list.                                               *)
Take(p, n) ==
  /\ links' = LET L == ListDel(links, p) IN
              IF property[p] > n THEN ListAdd(L, links.prev[p], p + n) ELSE L
  /\ property' = IF property[p] > n
                 THEN [property EXCEPT ![p + n] = property[p] - n]
                 ELSE property
  /\ flag' = [q \in Page |-> (flag[q] \/ (property[p] > n /\ q = p + n)) /\ q # p]
  /\ nr_free' = nr_free - n
  /\ owned' = owned \cup Block(p, n)
  /\ call' = Idle
  /\ UNCHANGED oops

Walking(op) == call.op = op /\ ~oops

(* Fault: a block must be larger than what is asked for.                   *)
Fits_Larger(p) == property[p] > call.n

Fits(p) == property[p] >= call.n

(* A turn of the loop of default_alloc_pages.                              *)
FirstFitTurn ==
  /\ Walking("alloc") /\ pmm_manager = "default"
  /\ LET le == links.next[call.le] IN
     \/ /\ le = Head
        /\ call' = [call EXCEPT !.op = "null"]
        /\ UNCHANGED <<area, owned, oops>>
     \/ /\ le # Head /\ ~Fits(le)
        /\ call' = [call EXCEPT !.le = le]
        /\ UNCHANGED <<area, owned, oops>>
     \/ le # Head /\ Fits(le) /\ Take(le, call.n)

(* property < min_size *)
Better(p) == call.best = Head \/ property[p] < property[call.best]

(* A turn of the loop of best_fit_alloc_pages, and what follows it.        *)
BestFitTurn ==
  /\ Walking("alloc") /\ pmm_manager = "best_fit"
  /\ LET le == links.next[call.le] IN
     \/ /\ le = Head /\ call.best = Head
        /\ call' = [call EXCEPT !.op = "null"]
        /\ UNCHANGED <<area, owned, oops>>
     \/ le = Head /\ call.best # Head /\ Take(call.best, call.n)
     \/ /\ le # Head
        /\ call' = [call EXCEPT !.le = le,
                       !.best = IF Fits(le) /\ Better(le) THEN le ELSE @]
        /\ UNCHANGED <<area, owned, oops>>

AllocNull ==
  /\ Walking("null")
  /\ call' = Idle
  /\ UNCHANGED <<area, owned, oops>>

-----------------------------------------------------------------------------
(* free_pages *)

Free(b, n) ==
  /\ call = Idle /\ ~oops
  /\ Block(b, n) \subseteq owned
  /\ oops' = \E p \in Block(b, n) : flag[p]
  /\ property' = [property EXCEPT ![b] = n]
  /\ flag' = [p \in Page |-> IF p \in Block(b, n) THEN p = b ELSE flag[p]]
  /\ nr_free' = nr_free + n
  /\ owned' = owned \ Block(b, n)
  /\ LET empty == links.next[Head] = Head IN
     /\ links' = IF empty THEN ListAdd(links, Head, b) ELSE links
     /\ call' = [Idle EXCEPT !.op = IF empty THEN "merge" ELSE "free",
                             !.base = b, !.n = n]

(* A turn of the loop that looks for the place of the block.  There is no  *)
(* break after list_add: the next turn looks at the block itself.          *)
InsertTurn ==
  /\ Walking("free")
  /\ LET le == links.next[call.le] IN
     \/ /\ le = Head
        /\ call' = [call EXCEPT !.op = "merge"]
        /\ UNCHANGED links
     \/ /\ le # Head /\ call.base < le
        /\ links' = ListAddBefore(links, le, call.base)
        /\ call' = [call EXCEPT !.op = "merge"]
     \/ /\ le # Head /\ ~(call.base < le)
        /\ links' = IF links.next[le] = Head
                    THEN ListAdd(links, le, call.base) ELSE links
        /\ call' = [call EXCEPT !.le = le]
  /\ UNCHANGED <<property, flag, nr_free, owned, oops>>

(* If block q follows block p, p takes it over.                            *)
Absorb(Z, p, q) ==
  IF p \in Page /\ q \in Page /\ p + Z.property[p] = q
  THEN [ links    |-> ListDel(Z.links, q),
         property |-> [Z.property EXCEPT ![p] = @ + Z.property[q]],
         flag     |-> [Z.flag EXCEPT ![q] = FALSE],
         base     |-> p ]
  ELSE Z

(* Fault: a block is merged only with the one behind it.                   *)
MergeBack_Never(Z) == Z

MergeBack(Z) == Absorb(Z, Z.links.prev[Z.base], Z.base)

MergeForward(Z) == Absorb(Z, Z.base, Z.links.next[Z.base])

Merge ==
  /\ Walking("merge")
  /\ LET Z == MergeForward(MergeBack(
                [links |-> links, property |-> property, flag |-> flag,
                 base |-> call.base]))
     IN  links' = Z.links /\ property' = Z.property /\ flag' = Z.flag
  /\ call' = Idle
  /\ UNCHANGED <<nr_free, owned, oops>>

-----------------------------------------------------------------------------

Turn == FirstFitTurn \/ BestFitTurn \/ AllocNull \/ InsertTurn \/ Merge

Next ==
  /\ \/ \E n \in 1..NPage : Alloc(n)
     \/ \E b \in Page, n \in 1..NPage : Free(b, n)
     \/ Turn
  /\ UNCHANGED pmm_manager

(* A call goes on until it returns.                                        *)
Spec == Init /\ [][Next]_vars /\ WF_vars(Turn /\ UNCHANGED pmm_manager)

-----------------------------------------------------------------------------

(* What a walk of the list finds: the i-th node, Head for ever once it is  *)
(* back at the head.                                                       *)
Walk ==
  LET w[i \in 0..(NPage + 1)] ==
        IF i = 0 THEN links.next[Head]
        ELSE IF w[i - 1] = Head THEN Head ELSE links.next[w[i - 1]]
  IN  w

Listed == {Walk[i] : i \in 0..NPage} \ {Head}

(* The check that default_check makes of the list: a walk comes to its end *)
(* and finds nr_free_pages() pages.                                        *)
ListSums ==
  call = Idle =>
    /\ Walk[NPage + 1] = Head
    /\ MapThenSumSet(LAMBDA p : property[p], Listed) = nr_free

(* Between two calls the list is linked both ways, in the order of the     *)
(* addresses; its blocks are disjoint, are what nobody holds, and no two   *)
(* of them touch, so that free memory is never in smaller pieces than it   *)
(* need be; and PG_property marks their first pages.  No assert of         *)
(* free_pages fails.                                                       *)
FreeListExact ==
  /\ TypeOK /\ ~oops
  /\ call = Idle =>
      /\ Walk[NPage + 1] = Head
      /\ \A p \in Listed \cup {Head} :
           /\ links.prev[links.next[p]] = p
           /\ p # Head => p < links.next[p]
      /\ \A p \in Listed :
           p + property[p] < links.next[p] \/ links.next[p] = Head
      /\ UNION {Block(p, property[p]) : p \in Listed} = Page \ owned
      /\ Listed = {p \in Page : flag[p]}
      /\ nr_free = Cardinality(Page \ owned)

(* alloc_pages fails only if there is no run of free pages that is long    *)
(* enough, whatever was allocated and freed before.                        *)
FailsOnlyIfFull ==
  call.op = "null" =>
    \A b \in Page : ~(Block(b, call.n) \subseteq Page \ owned)

(* Every call returns: no loop runs around a list that has lost its head.  *)
CallsReturn == call # Idle ~> call = Idle

=============================================================================
