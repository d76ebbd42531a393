------------------------------- MODULE Buddy -------------------------------
(***************************************************************************)
(* The buddy page allocator (kern/mm/buddy_pmm.c).  A free block of order  *)
(* i has 2^i pages, begins at a multiple of its size, and is in the list   *)
(* free_area[i], whose first element was added last.  page_ref is left     *)
(* out: nothing here reads it.                                             *)
(***************************************************************************)
EXTENDS Integers, Sequences, FiniteSets, SequencesExt

CONSTANTS
  NPages,     (* the length of pages[], a power of 2 as with 128MB         *)
  FirstFree,  (* the pages before this one belong to the kernel            *)
  MAX_ORDER

VARIABLES
  free_list,  (* of every order                                            *)
  nr_free,    (* of every order                                            *)
  property,   (* page->property                                            *)
  flag,       (* PG_property of page->flags                                *)
  held        (* what callers hold: [base, n] as they asked for it         *)

vars == <<free_list, nr_free, property, flag, held>>

Page  == 0..(NPages - 1)
Order == 0..MAX_ORDER

PageReserved(p) == p < FirstFree

TypeOK ==
  /\ free_list \in [Order -> Seq(Page)]
  /\ nr_free \in [Order -> Nat]
  /\ property \in [Page -> Nat] /\ flag \in [Page -> BOOLEAN]
  /\ held \subseteq [base : Page, n : Nat]

get_order(n) == CHOOSE i \in 0..n : 2^i >= n /\ \A j \in 0..(i - 1) : 2^j < n

Z == [list |-> free_list, nr |-> nr_free, property |-> property, flag |-> flag]

Into(z) == /\ free_list' = z.list /\ nr_free' = z.nr
           /\ property' = z.property /\ flag' = z.flag

(* p->property, SetPageProperty, list_add, nr_free(i)++                    *)
AddBlock(z, p, i) ==
  [list     |-> [z.list EXCEPT ![i] = <<p>> \o @],
   nr       |-> [z.nr EXCEPT ![i] = @ + 1],
   property |-> [z.property EXCEPT ![p] = 2^i],
   flag     |-> [z.flag EXCEPT ![p] = TRUE]]

(* list_del, nr_free(i)--                                                  *)
DelBlock(z, p, i) ==
  [z EXCEPT !.list[i] = Remove(@, p), !.nr[i] = @ - 1]

(* The loop of buddy_init_memmap: the largest block that fits the n pages  *)
(* from p and is aligned there.                                            *)
FittingOrder(p, n) ==
  CHOOSE i \in Order : /\ i = 0 \/ (2^i <= n /\ p % 2^i = 0)
                       /\ \A j \in Order : 2^j <= n /\ p % 2^j = 0 => j <= i

RECURSIVE Cut(_, _)
Cut(z, p) ==
  IF p = NPages THEN z
  ELSE Cut(AddBlock(z, p, FittingOrder(p, NPages - p)),
           p + 2^FittingOrder(p, NPages - p))

Empty == [list |-> [i \in Order |-> <<>>], nr |-> [i \in Order |-> 0],
          property |-> [p \in Page |-> 0], flag |-> [p \in Page |-> FALSE]]

(* buddy_init and buddy_init_memmap                                        *)
Init ==
  /\ \E z \in {Cut(Empty, FirstFree)} :
       /\ free_list = z.list /\ nr_free = z.nr
       /\ property = z.property /\ flag = z.flag
  /\ held = {}

-----------------------------------------------------------------------------

(* The block at p of order j is split until it has order i.                *)
RECURSIVE Split(_, _, _, _)
Split(z, p, j, i) ==
  IF j = i THEN z ELSE Split(AddBlock(z, p + 2^(j - 1), j - 1), p, j - 1, i)

Orders(n) == {j \in Order : j >= get_order(n) /\ free_list[j] # <<>>}

(* buddy_alloc_pages, which returns NULL when no list has a block.         *)
Alloc(n) ==
  \E j \in {j \in Orders(n) : \A k \in Orders(n) : j <= k} :
  \E p \in {Head(free_list[j])} :
    /\ Into([Split(DelBlock(Z, p, j), p, j, get_order(n)) EXCEPT !.flag[p] = FALSE])
    /\ held' = held \cup {[base |-> p, n |-> n]}

Buddy(p, i) == IF (p \div 2^i) % 2 = 0 THEN p + 2^i ELSE p - 2^i    (* p ^ 2^i *)

Free(z, b, i) ==
  ~PageReserved(b) /\ z.flag[b] /\ z.property[b] = 2^i

(* Fault: the merged block keeps its address when its buddy is below it.   *)
RECURSIVE Merge_Up(_, _, _)
Merge_Up(z, p, i) ==
  IF i < MAX_ORDER /\ Free(z, Buddy(p, i), i)
  THEN Merge_Up([DelBlock(z, Buddy(p, i), i) EXCEPT !.flag[Buddy(p, i)] = FALSE],
                p, i + 1)
  ELSE AddBlock(z, p, i)

(* The loop of buddy_free_pages and what follows it, for the block at p of *)
(* order i.                                                                *)
RECURSIVE Merge(_, _, _)
Merge(z, p, i) ==
  IF i < MAX_ORDER /\ Free(z, Buddy(p, i), i)
  THEN Merge([DelBlock(z, Buddy(p, i), i) EXCEPT !.flag[Buddy(p, i)] = FALSE],
             IF Buddy(p, i) < p THEN Buddy(p, i) ELSE p, i + 1)
  ELSE AddBlock(z, p, i)

Block(p, i) == p..(p + 2^i - 1)

(* buddy_free_pages: the flags of the whole block are cleared first.       *)
FreePages(h) ==
  /\ h \in held
  /\ Into(Merge([Z EXCEPT !.flag = [p \in Page |->
                   IF p \in Block(h.base, get_order(h.n)) THEN FALSE ELSE @[p]]],
                h.base, get_order(h.n)))
  /\ held' = held \ {h}

Next ==
  \/ \E n \in 1..2^MAX_ORDER : Alloc(n)
  \/ \E h \in held : FreePages(h)

Spec == Init /\ [][Next]_vars

-----------------------------------------------------------------------------

FreeBlocks == UNION {{<<p, i>> : p \in ToSet(free_list[i])} : i \in Order}

Cover == {<<h.base, get_order(h.n)>> : h \in held} \cup FreeBlocks

(* Every page beyond the kernel's is in exactly one block, free or held;   *)
(* blocks begin at a multiple of their size; no two free blocks are        *)
(* buddies, so that free memory is never in smaller pieces than it need    *)
(* be; PG_property and property tell the free blocks, which is what merging *)
(* relies on; and nr_free counts them.                                     *)
BlocksExact ==
  /\ TypeOK
  /\ \A p \in Page : Cardinality({b \in Cover : p \in Block(b[1], b[2])})
                     = IF PageReserved(p) THEN 0 ELSE 1
  /\ \A b \in Cover : b[1] % 2^b[2] = 0
  /\ \A b \in FreeBlocks : b[2] < MAX_ORDER => <<Buddy(b[1], b[2]), b[2]>> \notin FreeBlocks
  /\ \A p \in Page, i \in Order :
       <<p, i>> \in FreeBlocks <=> flag[p] /\ property[p] = 2^i
  /\ \A i \in Order : nr_free[i] = Len(free_list[i])

(* buddy_alloc_pages fails only if no aligned run of free pages is large   *)
(* enough, whatever was allocated and freed before.                        *)
FailsOnlyIfFull ==
  \A n \in 1..2^MAX_ORDER : Orders(n) = {} =>
    \A p \in {p \in FirstFree..(NPages - 2^get_order(n)) : p % 2^get_order(n) = 0} :
      \E h \in held : Block(p, get_order(n)) \cap Block(h.base, get_order(h.n)) # {}

=============================================================================
