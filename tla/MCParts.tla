------------------------------ MODULE MCParts ------------------------------
(***************************************************************************)
(* Parts of the kernel that are sequential: each call runs to its end      *)
(* before the next one begins, and what is hard about them is a long       *)
(* sequence of calls; and the philosophers of check_sync.  They are        *)
(* explored one at a time: part says which, and the others stay as they    *)
(* were initialised.                                                       *)
(***************************************************************************)
EXTENDS FitPmm

CONSTANTS
  NPages, FirstFree, MAX_ORDER,                                 (* Buddy   *)
  SlabPage, NoPage, objects_per_slab, SLUB_CPU_BATCH,           (* Slub    *)
  SLUB_CPU_LIMIT, BigPages,
  Slot, initproc, NoSlot, MAX_PID,                              (* Pids    *)
  Task, NoTask, Word, BIG_STRIDE, Priority,                     (* Stride  *)
  Proc, user_main, NFrame, Kept, MaxForks, Touched, NoVal, (* AddressSpace *)
  N, TIMES, MaxSlice                                       (* Philosophers *)

VARIABLES
  part,
  free_list, bnr_free, bproperty, bflag, held,
  cpu, partial, slab, pool, used, big, lost,
  pid, proc_list, last_pid, next_safe, kin, zombie,
  heap, root, stride, priority, cur, asleep, late,
  kept, free, tab, ref, word, pgdir, vmas, st, todo, forks, short, panic,
  solution, fS, fvalue, fqueue, fflags, fon, fpc, state, iter, fat,
  fcount, fnext_count, fcv, step

bvars == <<free_list, bnr_free, bproperty, bflag, held>>
lvars == <<cpu, partial, slab, pool, used, big, lost>>
pvars == <<pid, proc_list, last_pid, next_safe, kin, zombie>>
tvars == <<heap, root, stride, priority, cur, asleep, late>>
avars == <<kept, free, tab, ref, word, pgdir, vmas, st, todo, forks, short, panic>>
fvars == <<solution, fS, fvalue, fqueue, fflags, fon, fpc, state, iter, fat,
           fcount, fnext_count, fcv, step>>

(* A program in order, with two pages, one with two segments that begin in *)
(* the same page, one whose second segment runs into its first, and one in *)
(* the place of the stack.                                                 *)
Segment(a, b) == [start |-> a, end |-> b]
Program == { <<Segment(0, 2)>>, <<Segment(0, 2), Segment(1, 2)>>,
             <<Segment(1, 2), Segment(0, 2)>>, <<Segment(13, 14)>> }

B == INSTANCE Buddy WITH nr_free <- bnr_free, property <- bproperty, flag <- bflag
L == INSTANCE Slub
P == INSTANCE Pids
T == INSTANCE Stride
A == INSTANCE AddressSpace
F == INSTANCE Philosophers WITH
       S <- fS, value <- fvalue, queue <- fqueue, flags <- fflags, on <- fon,
       pc <- fpc, at <- fat, count <- fcount, next_count <- fnext_count, cv <- fcv

ASSUME PhiAssumption ==
  TIMES \in Nat \ {0} /\ F!Sema!SemaSeats /\ F!Condvar!Seats

PartsInit ==
  /\ part \in {"pages", "buddy", "slub", "pids", "stride", "memory",
              "philosophers"}
  /\ Init /\ B!Init /\ L!Init /\ P!Init /\ T!Init /\ A!Init
  /\ F!Init
  /\ part # "pages" => pmm_manager = "default"
  /\ part # "memory" => kept = 0
  /\ part # "philosophers" => solution = "sema"

PagesStep == part = "pages" /\ Next
             /\ UNCHANGED <<part, bvars, lvars, pvars, tvars, avars, fvars>>

PartsNext ==
  \/ PagesStep
  \/ /\ part = "buddy" /\ B!Next
     /\ UNCHANGED <<part, vars, lvars, pvars, tvars, avars, fvars>>
  \/ /\ part = "slub" /\ L!Next
     /\ UNCHANGED <<part, vars, bvars, pvars, tvars, avars, fvars>>
  \/ /\ part = "pids" /\ P!Next
     /\ UNCHANGED <<part, vars, bvars, lvars, tvars, avars, fvars>>
  \/ /\ part = "stride" /\ T!Next
     /\ UNCHANGED <<part, vars, bvars, lvars, pvars, avars, fvars>>
  \/ /\ part = "memory" /\ A!Next
     /\ UNCHANGED <<part, vars, bvars, lvars, pvars, tvars, fvars>>
  \/ /\ part = "philosophers" /\ F!Next
     /\ UNCHANGED <<part, vars, bvars, lvars, pvars, tvars, avars>>

(* A call goes on until it returns.                                        *)
PartsSpec ==
  /\ PartsInit
  /\ [][PartsNext]_<<part, vars, bvars, lvars, pvars, tvars, avars, fvars>>
  /\ WF_vars(PagesStep /\ Turn)

-----------------------------------------------------------------------------

(* Whatever was allocated and freed, the buddy allocator has every page in *)
(* one aligned block, and no two free buddies; see Buddy.                  *)
BuddyBlocks == part = "buddy" => B!BlocksExact /\ B!FailsOnlyIfFull

(* Every object of kmalloc is in one place, and every page; see Slub.      *)
ObjectsExact == part = "slub" => L!ObjectsExact

(* kmalloc fails only if every object is held and no page is left, since   *)
(* no free object is out of its reach; see Slub.                           *)
NothingStranded == part = "slub" => L!NothingStranded

(* get_pid gives no id twice, also after it has wrapped around; see Pids.  *)
PidsUnique == part = "pids" => P!PidsUnique

(* cptr, optr and yptr agree over every order of fork, exit and wait; see  *)
(* Pids.                                                                   *)
LinksAgree == part = "pids" => P!LinksAgree

(* The run queue of the stride scheduler is a heap of the tasks that wait, *)
(* also when strides wrap around; see Stride.                              *)
HeapExact == part = "stride" => T!HeapExact

(* Tasks that have been there from the beginning are never more than       *)
(* BIG_STRIDE apart; see Stride.                                           *)
SpreadBounded == part = "stride" => T!SpreadBounded

(* No frame is in two places or both free and in use, and none is lost but *)
(* by a call that fails for want of memory, after any sequence of fork,    *)
(* page fault and exit; see AddressSpace.                                  *)
FramesExact == part = "memory" => A!FramesExact


(* Every process has a memory of its own; see AddressSpace.                *)
IsPrivate == A!IsPrivate

(* Neighbours never eat at the same time, with semaphores and with the     *)
(* monitor, although cond_wait is not called in a loop, see Philosophers.  *)
NeighboursApart == part = "philosophers" => F!NeighboursApart

(* No fork is forgotten and none granted twice, see Philosophers.          *)
ForksServed == part = "philosophers" => F!ForksServed

(* Until all philosophers have returned, one of them can go on, see        *)
(* Philosophers.                                                           *)
NobodyStuck == part = "philosophers" => F!NobodyStuck

=============================================================================
