-------------------------------- MODULE Slub --------------------------------
(***************************************************************************)
(* kmalloc and kfree (kern/mm/slub.c): one cache of objects of one size,   *)
(* with the list of free objects of the CPU, the page that it takes them   *)
(* from and the partial list, and objects above the largest size, which    *)
(* are whole pages.  A list's first element is the one added last.  The    *)
(* pages come from pmm.c (module FitPmm) and may run out; the cache never  *)
(* gives one back, since nothing calls free_slab.                          *)
(***************************************************************************)
EXTENDS Integers, Sequences, FiniteSets, SequencesExt

CONSTANTS
  SlabPage,         (* the pages of pmm.c                                  *)
  NoPage,           (* NULL                                                *)
  objects_per_slab,
  SLUB_CPU_BATCH,
  SLUB_CPU_LIMIT,
  BigPages          (* the pages of a large object, 2^order                *)

VARIABLES
  cpu,       (* cache->cpu: freelist and page                              *)
  partial,   (* cache->node.partial                                        *)
  slab,      (* page->freelist, page->inuse, and PG_slab                   *)
  pool,      (* the free pages of pmm.c                                    *)
  used,      (* the small objects that callers hold                        *)
  big,       (* the large objects that they hold, as sequences of pages    *)
  lost       (* the pages of large objects that kfree did not give back    *)

vars == <<cpu, partial, slab, pool, used, big, lost>>

Object == SlabPage \X (1..objects_per_slab)
virt_to_page(o) == o[1]

NoSlab == [freelist |-> <<>>, inuse |-> 0, is |-> FALSE]

TypeOK ==
  /\ cpu \in [freelist : Seq(Object), page : SlabPage \cup {NoPage}]
  /\ partial \in Seq(SlabPage)
  /\ slab \in [SlabPage -> [freelist : Seq(Object), inuse : Nat, is : BOOLEAN]]
  /\ pool \subseteq SlabPage /\ lost \subseteq SlabPage /\ used \subseteq Object

(* slub_init *)
Init ==
  /\ cpu = [freelist |-> <<>>, page |-> NoPage]
  /\ partial = <<>>
  /\ slab = [p \in SlabPage |-> NoSlab]
  /\ pool = SlabPage
  /\ used = {} /\ big = {} /\ lost = {}

-----------------------------------------------------------------------------
(* Z is the cache while a call works on it.                                *)

Z == [cpu |-> cpu, partial |-> partial, slab |-> slab, pool |-> pool]

Into(z) ==
  cpu' = z.cpu /\ partial' = z.partial /\ slab' = z.slab /\ pool' = z.pool

add_partial(z, p) ==
  IF p \in ToSet(z.partial) THEN z ELSE [z EXCEPT !.partial = <<p>> \o @]

(* A free object goes from the CPU's list to its page.                     *)
GiveBack(z, o) ==
  [z EXCEPT !.cpu.freelist = Tail(@), !.slab[o[1]].freelist = <<o>> \o @]

(* Fault: the page is not put on the partial list.                         *)
FlushOne_Forget(z) == GiveBack(z, Head(z.cpu.freelist))

(* One turn of the loop of flush_cpu_freelist.                             *)
FlushOne(z) ==
  IF /\ virt_to_page(Head(z.cpu.freelist)) # z.cpu.page
     /\ z.slab[virt_to_page(Head(z.cpu.freelist))].inuse < objects_per_slab
  THEN add_partial(GiveBack(z, Head(z.cpu.freelist)),
                   virt_to_page(Head(z.cpu.freelist)))
  ELSE GiveBack(z, Head(z.cpu.freelist))

RECURSIVE flush_cpu_freelist(_)
flush_cpu_freelist(z) ==
  IF Len(z.cpu.freelist) > SLUB_CPU_LIMIT THEN flush_cpu_freelist(FlushOne(z)) ELSE z

(* allocate_slab and init_slab_freelist, with page p of pmm.c.             *)
allocate_slab(z, p) ==
  [z EXCEPT !.pool = @ \ {p},
            !.slab[p] = [freelist |-> [i \in 1..objects_per_slab |-> <<p, i>>],
                         inuse |-> 0, is |-> TRUE],
            !.cpu.page = p]

(* The first two cases of acquire_slab.                                    *)
LeaveFull(z) ==
  IF /\ z.cpu.page # NoPage /\ z.cpu.freelist = <<>>
     /\ z.slab[z.cpu.page].freelist = <<>>
     /\ z.slab[z.cpu.page].inuse = objects_per_slab
  THEN [z EXCEPT !.cpu.page = NoPage] ELSE z

(* acquire_slab: what the cache may become; cpu.page is the slab, NoPage   *)
(* if there is none.                                                       *)
acquire_slab(z) ==
  IF z.cpu.page # NoPage /\ z.slab[z.cpu.page].freelist # <<>> THEN {z}
  ELSE IF z.partial # <<>>
  THEN {[LeaveFull(z) EXCEPT !.partial = Tail(@), !.cpu.page = Head(z.partial)]}
  ELSE {allocate_slab(LeaveFull(z), p) : p \in z.pool}

(* Fault: the batch is one object too long.                                *)
Take_Over(z, n) ==
  [z EXCEPT !.cpu.freelist =
              Reverse(SubSeq(z.slab[z.cpu.page].freelist, 1, n)) \o @,
            !.slab[z.cpu.page].freelist = SubSeq(@, n, Len(@))]

(* The loop of refill_cpu_freelist: n objects, one after the other.        *)
Take(z, n) ==
  [z EXCEPT !.cpu.freelist =
              Reverse(SubSeq(z.slab[z.cpu.page].freelist, 1, n)) \o @,
            !.slab[z.cpu.page].freelist = SubSeq(@, n + 1, Len(@))]

Batch(z) ==
  IF Len(z.slab[z.cpu.page].freelist) < SLUB_CPU_BATCH
  THEN Len(z.slab[z.cpu.page].freelist) ELSE SLUB_CPU_BATCH

refill_cpu_freelist(z) == {Take(y, Batch(y)) : y \in acquire_slab(z)}

(* The cache with an object in front of the CPU's list: there already, or  *)
(* after a refill.                                                         *)
Ready(z) == IF z.cpu.freelist # <<>> THEN {z} ELSE refill_cpu_freelist(z)

(* kmem_cache_alloc; if there is no object to be had it returns NULL ...   *)
kmallocNull ==
  /\ Ready(Z) = {}
  /\ Into(LeaveFull(Z))
  /\ UNCHANGED <<used, big, lost>>

(* ... and else the first one.                                             *)
kmalloc ==
  \E z \in Ready(Z) : \E o \in {Head(z.cpu.freelist)} :
    /\ Into([z EXCEPT !.cpu.freelist = Tail(@), !.slab[o[1]].inuse = @ + 1])
    /\ used' = used \cup {o}
    /\ UNCHANGED <<big, lost>>

(* kfree of a small object: kmem_cache_free.                               *)
kfree(o) ==
  /\ o \in used /\ slab[virt_to_page(o)].is
  /\ Into(flush_cpu_freelist([Z EXCEPT !.cpu.freelist = <<o>> \o @,
                                       !.slab[virt_to_page(o)].inuse = @ - 1]))
  /\ used' = used \ {o}
  /\ UNCHANGED <<big, lost>>

(* kmalloc of a large object ...                                           *)
kmallocBig ==
  \E b \in {b \in [1..BigPages -> pool] : IsInjective(b)} :
    /\ pool' = pool \ Range(b)
    /\ big' = big \cup {b}
    /\ UNCHANGED <<cpu, partial, slab, used, lost>>

(* ... and kfree, which gives back its first page.                         *)
kfreeBig(b) ==
  /\ b \in big /\ ~slab[b[1]].is
  /\ pool' = pool \cup {b[1]}
  /\ big' = big \ {b}
  /\ lost' = lost \cup (Range(b) \ {b[1]})
  /\ UNCHANGED <<cpu, partial, slab, used>>

Next ==
  \/ kmalloc \/ kmallocNull \/ kmallocBig
  \/ \E o \in used : kfree(o)
  \/ \E b \in big : kfreeBig(b)

Spec == Init /\ [][Next]_vars

-----------------------------------------------------------------------------

Places(o) ==
  Cardinality({i \in DOMAIN cpu.freelist : cpu.freelist[i] = o})
  + Cardinality({i \in DOMAIN slab[o[1]].freelist : slab[o[1]].freelist[i] = o})
  + (IF o \in used THEN 1 ELSE 0)

(* Every object of a slab is in one place: held by one caller, on the      *)
(* CPU's list, or on the list of its own page, which counts what is held.  *)
(* No page is a slab and free or part of a large object.                   *)
ObjectsExact ==
  /\ TypeOK
  /\ \A o \in Object : Places(o) = IF slab[o[1]].is THEN 1 ELSE 0
  /\ \A p \in SlabPage :
       /\ \A i \in DOMAIN slab[p].freelist : virt_to_page(slab[p].freelist[i]) = p
       /\ slab[p].inuse = Cardinality({o \in used : o[1] = p})
       /\ Cardinality({b \in big : p \in Range(b)})
          + (IF slab[p].is THEN 1 ELSE 0) + (IF p \in pool THEN 1 ELSE 0)
          + (IF p \in lost THEN 1 ELSE 0) = 1

(* No free object is forgotten: a page that has some is the CPU's or, once,*)
(* on the partial list, which has no other pages; and so kmalloc fails     *)
(* only if every object is held and there is no page left.                 *)
NothingStranded ==
  /\ \A p \in SlabPage :
       slab[p].freelist # <<>> => p = cpu.page \/ p \in ToSet(partial)
  /\ \A p \in ToSet(partial) : slab[p].freelist # <<>> /\ p # cpu.page
  /\ IsInjective(partial)
  /\ Ready(Z) = {} => pool = {} /\ used = {o \in Object : slab[o[1]].is}

=============================================================================
