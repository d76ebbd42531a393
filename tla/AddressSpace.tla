---------------------------- MODULE AddressSpace ----------------------------
(***************************************************************************)
(* Address spaces: page tables of three levels (kern/mm/pmm.c), the areas  *)
(* of an mm_struct (kern/mm/vmm.c), and what fork, exec, exit and page     *)
(* faults do with them (kern/process/proc.c, kern/trap/trap.c).            *)
(*                                                                         *)
(* A virtual address is the number of its page, and a page holds one word. *)
(* Left out: the mm_struct and its vma_structs themselves, which kmalloc   *)
(* gives, kernel stacks, permissions, mmap_cache (no area is removed from  *)
(* an mm that is in use), and sharing, since no process is created with    *)
(* CLONE_VM by one that has an mm: mm_count is 1.  fork runs to its end,   *)
(* since nobody else asks for the mm_sem of its caller; while a program is *)
(* loaded, reading its file may put the process to sleep.  Only user_main  *)
(* gets as far as that: exec fails in every process that has an mm.        *)
(***************************************************************************)
EXTENDS Integers, Sequences, FiniteSets, SequencesExt, FiniteSetsExt

CONSTANTS
  Proc,       (* room for processes                                        *)
  user_main,  (* the kernel thread that starts the first program           *)
  NFrame,     (* the number of page frames                                 *)
  Kept,       (* how many of them the rest of the kernel may hold          *)
  MaxForks,   (* bound: the calls of fork                                  *)
  Program,    (* the programs: sequences of segments [start, end)          *)
  Touched,    (* bound: the addresses that programs access                 *)
  NoVal

NPTEENTRY == 4      (* entries of a page table                             *)
NPDEENTRY == 2      (* entries of a level 0 and of a level 1 directory     *)
PTSIZE    == NPTEENTRY
PDSIZE    == NPDEENTRY * PTSIZE
USERTOP   == NPDEENTRY * PDSIZE

Va    == 0..(USERTOP - 1)
Frame == 1..NFrame
Val   == 0..1
Seg   == [start : Va, end : 1..USERTOP]

(* The user stack: its highest page is there from the beginning.           *)
Stack == [start |-> USERTOP - 3, end |-> USERTOP]

PDX1(va) == va \div PDSIZE
PDX0(va) == (va \div PTSIZE) % NPDEENTRY
PTX(va)  == va % PTSIZE

VARIABLES
  kept,    (* the frames 1..kept belong to the rest of the kernel          *)
  free,    (* the free frames                                              *)
  tab,     (* the entries of the frames that are tables, 0 if not valid    *)
  ref,     (* page->ref                                                    *)
  word,    (* what the frames that are pages of programs hold              *)
  pgdir,   (* current->mm->pgdir, 0 if there is no mm                      *)
  vmas,    (* the areas of mm->mmap_list, kept in the order of addresses   *)
  st,      (* "none", "kernel" (a kernel thread), "load" (in load_icode),  *)
           (* "user", "lost" (load_icode has given up), "wait" (for the    *)
           (* mm_sem that it holds)                                        *)
  todo,    (* the segments that load_icode has still to load, and the page *)
           (* of each that is next                                         *)
  forks,   (* the calls of fork so far                                     *)
  short,   (* the calls that have failed since memory had run out          *)
  panic    (* where the kernel has stopped, "no" if it has not             *)

frames == <<free, tab, ref, word>>
vars == <<kept, frames, pgdir, vmas, st, todo, forks, short, panic>>

(* What can stop the kernel: an assert in one of four functions, trap()    *)
(* when a page fault cannot be served, and user_main without a program.    *)
Stop == {"copy_range", "insert_vma_struct", "pgdir_alloc_page", "load_icode",
         "trap", "user_main"}

NoTable == [i \in 0..(NPTEENTRY - 1) |-> 0]

TypeOK ==
  /\ kept \in Kept
  /\ free \subseteq Frame
  /\ tab \in [0..NFrame -> [0..(NPTEENTRY - 1) -> 0..NFrame]]
  /\ ref \in [Frame -> Nat] /\ word \in [Frame -> Val]
  /\ pgdir \in [Proc -> 0..NFrame] /\ vmas \in [Proc -> SUBSET Seg]
  /\ st \in [Proc -> {"none", "kernel", "load", "user", "lost", "wait"}]
  /\ \A p \in Proc : \A i \in DOMAIN todo[p] : todo[p][i] \in [seg : Seg, va : Va]
  /\ forks \in 0..MaxForks /\ short \in Nat /\ panic \in {"no"} \cup Stop

Init ==
  /\ kept \in Kept /\ free = (kept + 1)..NFrame
  /\ tab = [f \in 0..NFrame |-> NoTable]
  /\ ref = [f \in Frame |-> 0] /\ word = [f \in Frame |-> 0]
  /\ pgdir = [p \in Proc |-> 0] /\ vmas = [p \in Proc |-> {}]
  /\ st = [p \in Proc |-> IF p = user_main THEN "kernel" ELSE "none"]
  /\ todo = [p \in Proc |-> <<>>]
  /\ forks = 0 /\ short = 0 /\ panic = "no"

-----------------------------------------------------------------------------
(* z is the memory while a call works on it, with the areas of the mm that *)
(* it works for.  ok: the call has not failed; stop: where the first       *)
(* assert has, "no" if none has.                                           *)

Z == [free |-> free, tab |-> tab, ref |-> ref, word |-> word,
      vmas |-> {}, ok |-> TRUE, stop |-> "no"]

Into(z) == free' = z.free /\ tab' = z.tab /\ ref' = z.ref /\ word' = z.word

Fail(z) == [z EXCEPT !.ok = FALSE]

Check(z, holds, where) ==
  IF holds \/ z.stop # "no" THEN z ELSE [z EXCEPT !.stop = where]

(* alloc_page: first fit.                                                  *)
Got(z) == Min(z.free)
Taken(z) == [z EXCEPT !.free = @ \ {Got(z)}]


(* free_page; what the frame holds is of no use to its next owner.         *)
free_page(z, f) ==
  [z EXCEPT !.free = @ \cup {f}, !.tab[f] = NoTable, !.ref[f] = 0, !.word[f] = 0]

(* The table for va, and the frame of its page; 0 if there is none: tab[0] *)
(* stands for what an invalid entry leads to.                              *)
Pt(z, d, va)  == z.tab[z.tab[d][PDX1(va)]][PDX0(va)]
Pte(z, d, va) == z.tab[Pt(z, d, va)][PTX(va)]

(* One level of get_pte with create: entry i of table t.                   *)
Entry(z, t, i) ==
  IF z.tab[t][i] # 0 THEN z
  ELSE IF z.free = {} THEN Fail(z)
  ELSE [Taken(z) EXCEPT !.tab[t][i] = Got(z), !.ref[Got(z)] = 1]

Level0(z, d, va) ==
  IF z.ok THEN Entry(z, z.tab[d][PDX1(va)], PDX0(va)) ELSE z

get_pte(z, d, va) == Level0(Entry(z, d, PDX1(va)), d, va)

page_remove_pte(z, d, va) ==
  LET f == Pte(z, d, va)
      y == [z EXCEPT !.tab[Pt(z, d, va)][PTX(va)] = 0, !.ref[f] = @ - 1]
  IN  IF f = 0 THEN z ELSE IF y.ref[f] = 0 THEN free_page(y, f) ELSE y

SetPte(z, d, va, f) ==
  [page_remove_pte(z, d, va) EXCEPT !.tab[Pt(z, d, va)][PTX(va)] = f]

(* page_insert of a page that is not at va already.                        *)
Inserted(z, d, f, va) ==
  IF z.ok THEN SetPte([z EXCEPT !.ref[f] = @ + 1], d, va, f) ELSE z

page_insert(z, d, f, va) == Inserted(get_pte(z, d, va), d, f, va)

(* A page that could not be mapped is given back.                          *)
OrFree(z, f) ==
  IF z.ok THEN Check(z, z.ref[f] = 1, "pgdir_alloc_page") ELSE free_page(z, f)

(* pgdir_alloc_page, and the word v that is put there.                     *)
pgdir_alloc_page(z, d, va, v) ==
  IF z.free = {} THEN Fail(z)
  ELSE OrFree(page_insert([Taken(z) EXCEPT !.word[Got(z)] = v], d, Got(z), va),
              Got(z))

-----------------------------------------------------------------------------
(* Areas *)

Overlap(a, b) == a.start < b.end /\ b.start < a.end

find_vma(A, va) == {a \in A : a.start <= va /\ va < a.end}

(* insert_vma_struct, whose neighbours in the list it must not overlap.    *)
insert_vma_struct(z, s) ==
  [Check(z, \A a \in z.vmas : ~Overlap(a, s), "insert_vma_struct")
     EXCEPT !.vmas = @ \cup {s}]

mm_map(z, s) ==
  IF find_vma(z.vmas, s.start) # {} THEN Fail(z) ELSE insert_vma_struct(z, s)

Pages(s) == [i \in 1..(s.end - s.start) |-> s.start + i - 1]

Ascending(A) == SetToSortSeq(A, LAMBDA a, b : a.start < b.start)

unmap_range(z, d, s) ==
  FoldLeft(LAMBDA y, va : page_remove_pte(y, d, va), z, Pages(s))

(* The entries of the d1-th level 0 directory that exit_range looks at.    *)
Entries(s, d1) ==
  {PDX0(va) : va \in {va \in Va : /\ PDX1(va) = d1 /\ va < s.end
                                  /\ va \div PTSIZE >= s.start \div PTSIZE}}

DropTable(z, t, i) ==
  IF z.tab[t][i] # 0 /\ z.tab[z.tab[t][i]] = NoTable
  THEN [free_page(z, z.tab[t][i]) EXCEPT !.tab[t][i] = 0] ELSE z

(* free_pd0: every entry was valid, whether its table is freed or not.     *)
FreePd0(z, t, I) == \A i \in I : z.tab[t][i] # 0

DropDirectory(z, d, d1, yes) ==
  IF yes THEN [free_page(z, z.tab[d][d1]) EXCEPT !.tab[d][d1] = 0] ELSE z

(* Fault: the tables are given back and the directory is not.              *)
ExitDirectory_Keep(z, d, d1, I) ==
  IF z.tab[d][d1] = 0 THEN z
  ELSE FoldSet(LAMBDA i, y : DropTable(y, z.tab[d][d1], i), z, I)

(* A turn of the outer loop of exit_range.                                 *)
ExitDirectory(z, d, d1, I) ==
  IF z.tab[d][d1] = 0 THEN z
  ELSE DropDirectory(FoldSet(LAMBDA i, y : DropTable(y, z.tab[d][d1], i), z, I),
                     d, d1, FreePd0(z, z.tab[d][d1], I))

exit_range(z, d, s) ==
  FoldLeft(LAMBDA y, d1 : ExitDirectory(y, d, d1, Entries(s, d1)), z,
           [i \in 1..(PDX1(s.end - 1) - PDX1(s.start) + 1) |-> PDX1(s.start) + i - 1])

exit_mmap(z, d) ==
  FoldLeft(LAMBDA y, s : exit_range(y, d, s),
           FoldLeft(LAMBDA y, s : unmap_range(y, d, s), z, Ascending(z.vmas)),
           Ascending(z.vmas))

(* exit_mmap, put_pgdir and mm_destroy *)
Destroy(z, d) ==
  IF d = 0 THEN z ELSE [free_page(exit_mmap(z, d), d) EXCEPT !.vmas = {}]

-----------------------------------------------------------------------------
(* fork *)

(* Fault: the page itself is mapped in place of a copy of it.              *)
CopyPage_Share(z, to, from, va) ==
  IF Pte(z, from, va) = 0 THEN z
  ELSE page_insert(z, to, Pte(z, from, va), va)

(* alloc_page, memcpy and page_insert; alloc_page must not fail.           *)
Copied(z, to, f, va) ==
  IF ~z.ok THEN z
  ELSE IF z.free = {} THEN Check(z, FALSE, "copy_range")
  ELSE page_insert([Taken(z) EXCEPT !.word[Got(z)] = z.word[f]], to, Got(z), va)

(* A turn of the loop of copy_range.                                       *)
CopyPage(z, to, from, va) ==
  IF Pte(z, from, va) = 0 THEN z
  ELSE Copied(get_pte(z, to, va), to, Pte(z, from, va), va)

copy_range(z, to, from, s) ==
  FoldLeft(LAMBDA y, va : IF y.ok /\ y.stop = "no" THEN CopyPage(y, to, from, va) ELSE y,
           z, Pages(s))

(* dup_mmap, from the last area to the first                               *)
dup_mmap(z, to, from, A) ==
  FoldLeft(LAMBDA y, s : IF y.ok /\ y.stop = "no"
                         THEN copy_range(insert_vma_struct(y, s), to, from, s) ELSE y,
           z, Reverse(Ascending(A)))

(* setup_pgdir and dup_mmap; to is the new directory.                      *)
copy_mm(p) ==
  IF free = {} THEN Fail(Z) ELSE dup_mmap(Taken(Z), Got(Z), pgdir[p], vmas[p])

(* The kernel stops.                                                       *)
Stops(where) ==
  /\ panic' = where
  /\ UNCHANGED <<frames, pgdir, vmas, st, todo, short>>

(* do_fork by p, with c for the new process.                               *)
Fork(p, c) ==
  /\ st[p] = "user" /\ st[c] = "none"
  /\ \E z \in {copy_mm(p)} :
     \/ z.stop # "no" /\ Stops(z.stop)
     \/ /\ z.stop = "no" /\ z.ok
        /\ Into(z)
        /\ pgdir' = [pgdir EXCEPT ![c] = Got(Z)]
        /\ vmas' = [vmas EXCEPT ![c] = z.vmas]
        /\ st' = [st EXCEPT ![c] = "user"]
        /\ UNCHANGED <<todo, short, panic>>
     \/ /\ z.stop = "no" /\ ~z.ok
        /\ Into(Destroy(z, IF free = {} THEN 0 ELSE Got(Z)))
        /\ short' = short + 1
        /\ UNCHANGED <<pgdir, vmas, st, todo, panic>>

-----------------------------------------------------------------------------
(* exit and exec *)

Exit(p) ==
  /\ st[p] = "user"
  /\ Into(Destroy([Z EXCEPT !.vmas = vmas[p]], pgdir[p]))
  /\ pgdir' = [pgdir EXCEPT ![p] = 0]
  /\ vmas' = [vmas EXCEPT ![p] = {}]
  /\ st' = [st EXCEPT ![p] = "none"]
  /\ UNCHANGED <<todo, short, panic>>

(* load_icode gives up: what there is of the new mm is destroyed.          *)
GiveUp(p, z) ==
  /\ Into(Destroy(z, pgdir[p]))
  /\ pgdir' = [pgdir EXCEPT ![p] = 0]
  /\ vmas' = [vmas EXCEPT ![p] = {}]
  /\ st' = [st EXCEPT ![p] = "lost"]
  /\ todo' = [todo EXCEPT ![p] = <<>>]
  /\ UNCHANGED panic

(* do_execve of a process that has an mm: sysfile_open gets local_name,    *)
(* which is on the kernel stack, and user_mem_check refuses it.  The call  *)
(* returns -E_INVAL and the old program goes on.                           *)
ExecRefused(p) == st[p] = "user" /\ UNCHANGED vars

(* do_execve of a kernel thread, which has no mm to destroy: the file may  *)
(* not be there; mm_create and setup_pgdir.                                *)
Exec(p, prog) ==
  /\ st[p] = "kernel"
  /\ \/ GiveUp(p, Z) /\ UNCHANGED short
     \/ /\ free = {}
        /\ GiveUp(p, Z)
        /\ short' = short + 1
     \/ /\ free # {}
        /\ Into(Taken(Z))
        /\ pgdir' = [pgdir EXCEPT ![p] = Got(Z)]
        /\ st' = [st EXCEPT ![p] = "load"]
        /\ todo' = [todo EXCEPT ![p] = [i \in DOMAIN prog |->
                                   [seg |-> prog[i], va |-> prog[i].start]]]
        /\ UNCHANGED <<vmas, short, panic>>

(* The file turns out not to be a program, or cannot be read.              *)
LoadBad(p) ==
  /\ st[p] = "load"
  /\ GiveUp(p, [Z EXCEPT !.vmas = vmas[p]])
  /\ UNCHANGED short

(* The first page of a segment comes with its area.                        *)
Mapped(z, t) == IF t.va = t.seg.start THEN mm_map(z, t.seg) ELSE z

(* A page of the segment, unless mm_map has refused or an assert failed.   *)
LoadInto(z, d, va) ==
  IF z.ok /\ z.stop = "no" THEN pgdir_alloc_page(z, d, va, 0) ELSE z

Rest(q) ==
  IF Head(q).va + 1 = Head(q).seg.end THEN Tail(q)
  ELSE <<[Head(q) EXCEPT !.va = @ + 1]>> \o Tail(q)

(* load_icode loads a page of the next segment.                            *)
LoadPage(p) ==
  /\ st[p] = "load" /\ todo[p] # <<>>
  /\ \E y \in {Mapped([Z EXCEPT !.vmas = vmas[p]], Head(todo[p]))} :
     \E z \in {LoadInto(y, pgdir[p], Head(todo[p]).va)} :
     \/ ~y.ok /\ GiveUp(p, y) /\ UNCHANGED short
     \/ z.stop # "no" /\ Stops(z.stop)
     \/ y.ok /\ z.stop = "no" /\ ~z.ok /\ GiveUp(p, z) /\ short' = short + 1
     \/ /\ z.stop = "no" /\ z.ok
        /\ Into(z)
        /\ vmas' = [vmas EXCEPT ![p] = z.vmas]
        /\ todo' = [todo EXCEPT ![p] = Rest(@)]
        /\ UNCHANGED <<pgdir, st, short, panic>>

(* The stack; its page is asserted to be there.                            *)
LoadStack(p) ==
  /\ st[p] = "load" /\ todo[p] = <<>>
  /\ \E y \in {mm_map([Z EXCEPT !.vmas = vmas[p]], Stack)} :
     \E x \in {LoadInto(y, pgdir[p], USERTOP - 1)} :
     \E z \in {Check(x, x.ok, "load_icode")} :
     \/ ~y.ok /\ GiveUp(p, y) /\ UNCHANGED short
     \/ y.ok /\ z.stop # "no" /\ Stops(z.stop)
     \/ /\ z.ok /\ z.stop = "no"
        /\ Into(z)
        /\ vmas' = [vmas EXCEPT ![p] = z.vmas]
        /\ st' = [st EXCEPT ![p] = "user"]
        /\ UNCHANGED <<pgdir, todo, short, panic>>

(* do_execve returns -E_NO_MEM or -E_INVAL_ELF, and user_main panics.      *)
ExecFailed(p) == st[p] = "lost" /\ Stops("user_main")

-----------------------------------------------------------------------------
(* Memory accesses *)

(* A store of v by the program.                                            *)
Store(p, va, v) ==
  /\ st[p] = "user" /\ Pte(Z, pgdir[p], va) # 0
  /\ word' = [word EXCEPT ![Pte(Z, pgdir[p], va)] = v]
  /\ UNCHANGED <<free, tab, ref, pgdir, vmas, st, todo, short, panic>>

Faulted(p, va, v) ==
  LET y == get_pte(Z, pgdir[p], va)
  IN  IF y.ok THEN pgdir_alloc_page(y, pgdir[p], va, v) ELSE y

(* do_pgfault for an access to a page that is not there.  The new page     *)
(* holds what its last owner left, v.  If it fails, trap() panics.         *)
PageFault(p, va, v) ==
  /\ st[p] = "user" /\ Pte(Z, pgdir[p], va) = 0
  /\ \/ find_vma(vmas[p], va) = {} /\ Stops("trap")
     \/ /\ find_vma(vmas[p], va) # {}
        /\ \E z \in {Faulted(p, va, v)} :
           \/ z.stop # "no" /\ Stops(z.stop)
           \/ z.stop = "no" /\ ~z.ok /\ Stops("trap")
           \/ /\ z.ok /\ z.stop = "no"
              /\ Into(z)
              /\ UNCHANGED <<pgdir, vmas, st, todo, short, panic>>

(* user_mem_check for a write                                              *)
user_mem_check(p, va) ==
  \E a \in find_vma(vmas[p], va) : a.end = USERTOP => va > a.start

(* A system call that writes v to the program's memory between lock_mm and *)
(* unlock_mm, as sysfile_read does.  If the page is not there, do_pgfault  *)
(* waits for mm_sem, which this process holds.                             *)
CopyToUser(p, va, v) ==
  /\ st[p] = "user" /\ user_mem_check(p, va)
  /\ \/ /\ Pte(Z, pgdir[p], va) # 0
        /\ word' = [word EXCEPT ![Pte(Z, pgdir[p], va)] = v]
        /\ UNCHANGED st
     \/ /\ Pte(Z, pgdir[p], va) = 0
        /\ st' = [st EXCEPT ![p] = "wait"]
        /\ UNCHANGED word
  /\ UNCHANGED <<free, tab, ref, pgdir, vmas, todo, short, panic>>

Act(p) ==
  \/ Exit(p) \/ LoadBad(p) \/ LoadPage(p) \/ LoadStack(p) \/ ExecFailed(p)
  \/ \E prog \in Program : Exec(p, prog)
  \/ \E va \in Touched, v \in Val :
       Store(p, va, v) \/ PageFault(p, va, v) \/ CopyToUser(p, va, v)

Next ==
  /\ panic = "no" /\ UNCHANGED kept
  /\ \E p \in Proc :
       \/ Act(p) /\ UNCHANGED forks
       \/ ExecRefused(p)
       \/ /\ forks < MaxForks /\ forks' = forks + 1
          /\ \E c \in Proc : Fork(p, c)

Spec == Init /\ [][Next]_vars

-----------------------------------------------------------------------------

Mms == {p \in Proc : pgdir[p] # 0}

(* The places where frame f is used: as a directory, a table or a page.    *)
Places(f) ==
  {<<p>> : p \in {p \in Mms : pgdir[p] = f}}
  \cup {x \in Mms \X (0..(NPDEENTRY - 1)) : tab[pgdir[x[1]]][x[2]] = f}
  \cup {x \in Mms \X (0..(NPDEENTRY - 1)) \X (0..(NPDEENTRY - 1)) :
          tab[tab[pgdir[x[1]]][x[2]]][x[3]] = f}
  \cup {x \in Mms \X Va \X {"page"} \X {"page"} : Pte(Z, pgdir[x[1]], x[2]) = f}

Lost == {f \in (kept + 1)..NFrame : f \notin free /\ Places(f) = {}}

(* A frame is free or in one place, and never both: no table or page is    *)
(* freed while an address space still leads to it, and none is in two.     *)
(* Pages are where the process has an area.  What fork, load_icode and     *)
(* page faults take comes back, whatever was there by then: a call that    *)
(* fails for want of memory loses one frame at most, the directory that    *)
(* get_pte had taken before it found no frame for the table, which         *)
(* exit_range does not find again; nothing else is ever lost.              *)
FramesExact ==
  /\ TypeOK
  /\ \A f \in (kept + 1)..NFrame :
       Cardinality(Places(f)) + (IF f \in free THEN 1 ELSE 0) \in 0..1
  /\ Cardinality(Lost) <= short
  /\ \A p \in Mms, va \in Va :
       Pte(Z, pgdir[p], va) # 0 =>
         find_vma(vmas[p], va) # {} /\ ref[Pte(Z, pgdir[p], va)] = 1

(* A process that runs a program has all pages of its segments, and the    *)
(* highest one of its stack, also if fork made it.  So nobody waits for    *)
(* itself with a buffer in a segment: do_pgfault meets the mm_sem that     *)
(* sysfile_read holds only for a stack page that was not touched yet.      *)
SegmentsResident ==
  \A p \in Proc : st[p] \in {"user", "wait"} =>
    /\ Stack \in vmas[p] /\ Pte(Z, pgdir[p], USERTOP - 1) # 0
    /\ \A a \in vmas[p] \ {Stack} : \A va \in a.start..(a.end - 1) :
         Pte(Z, pgdir[p], va) # 0

(* The frames that the address space of p consists of, and the ones that a *)
(* page at va would take.                                                  *)
Held(p) == {f \in Frame : \E x \in Places(f) : x[1] = p}
Lacks(p, va) ==
  1 + (IF Pt(Z, pgdir[p], va) = 0 THEN 1 ELSE 0)
    + (IF tab[pgdir[p]][PDX1(va)] = 0 THEN 1 ELSE 0)

(* Where the kernel may stop, and when.  The assert of copy_range fails in *)
(* a fork only if the copy as a whole does not fit in what is free; the    *)
(* one of insert_vma_struct only while a program with overlapping segments *)
(* is loaded, never in a fork; the ones of load_icode and the panic of     *)
(* trap() only if there is no memory for a page and its tables, or the     *)
(* address is in no area.  The assert of pgdir_alloc_page never fails.     *)
StopsExplained ==
  CASE panic = "no" -> TRUE
    [] panic = "copy_range" ->
         \E p \in Mms : st[p] = "user" /\ Cardinality(free) < Cardinality(Held(p))
    [] panic = "insert_vma_struct" ->
         \E p \in Mms : st[p] = "load" /\
           \E a \in vmas[p] :
             Overlap(a, IF todo[p] = <<>> THEN Stack ELSE Head(todo[p]).seg)
    [] panic = "load_icode" ->
         \E p \in Mms : /\ st[p] = "load" /\ todo[p] = <<>>
                        /\ Cardinality(free) < Lacks(p, USERTOP - 1)
    [] panic = "trap" ->
         \E p \in Mms, va \in Touched :
           /\ st[p] = "user" /\ Pte(Z, pgdir[p], va) = 0
           /\ \/ find_vma(vmas[p], va) = {}
              \/ find_vma(vmas[p], va) = {Stack} /\ Cardinality(free) < Lacks(p, va)
    [] panic = "user_main" -> st[user_main] = "lost"
    [] OTHER -> FALSE


(* "only when all pde0s in it are already invalid" (exit_range): freeing a *)
(* level 0 directory leaves no table behind, so that exit reclaims all     *)
(* that a program had.                                                     *)
NoFrameLost == short = 0 /\ st[user_main] # "lost" => Lost = {}

(* What the tables and frames amount to.                                   *)
MemOf(p) ==
  [va \in Va |-> IF pgdir[p] = 0 \/ Pte(Z, pgdir[p], va) = 0 THEN NoVal
                 ELSE word[Pte(Z, pgdir[p], va)]]

PM == INSTANCE PrivateMemory WITH mem <- [p \in Proc |-> MemOf(p)]

(* Each process has a memory of its own: copy_range copies, and no store,  *)
(* fault, load or exit of one process changes what another one reads.      *)
IsPrivate == PM!Spec

=============================================================================
