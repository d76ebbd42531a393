------------------------------- MODULE Stride -------------------------------
(***************************************************************************)
(* The stride scheduler (kern/schedule/default_sched_stride.c) and its run *)
(* queue, the skew heap of libs/skew_heap.h with its pointers.  Strides    *)
(* are unsigned words that wrap around and are compared by the sign of     *)
(* their difference.  Time slices are as in SchedOps and are left out.     *)
(***************************************************************************)
EXTENDS Integers, FiniteSets, Functions

CONSTANTS
  Task,
  NoTask,     (* NULL, and idleproc                                        *)
  Word,       (* strides are modulo Word; 2^32 in the code                 *)
  BIG_STRIDE,
  Priority    (* bound: the priorities that programs set                   *)

VARIABLES
  heap,       (* parent, left and right of lab6_run_pool                   *)
  root,       (* rq->lab6_run_pool                                         *)
  stride, priority,
  cur,        (* current                                                   *)
  asleep,     (* tasks that are not runnable                               *)
  late        (* a task has joined the others after they began to run      *)

vars == <<heap, root, stride, priority, cur, asleep, late>>

NoLinks == [parent |-> NoTask, left |-> NoTask, right |-> NoTask]

TypeOK ==
  /\ heap \in [Task -> [parent : Task \cup {NoTask}, left : Task \cup {NoTask},
                        right : Task \cup {NoTask}]]
  /\ root \in Task \cup {NoTask} /\ cur \in Task \cup {NoTask}
  /\ stride \in [Task -> 0..(Word - 1)] /\ priority \in [Task -> Priority]
  /\ asleep \subseteq Task /\ late \in BOOLEAN

(* Fault: the strides are compared as they are.                            *)
Before_Plain(a, b) == stride[a] < stride[b]

(* proc_stride_comp_f = -1 *)
Before(a, b) == (stride[a] - stride[b]) % Word >= Word \div 2

-----------------------------------------------------------------------------
(* skew_heap.h *)

SetParent(h, a, p) == IF a = NoTask THEN h ELSE [h EXCEPT ![a].parent = p]

(* Fault: the left and the right tree do not change places, and one of     *)
(* them is dropped.                                                        *)
Hang_Drop(m, a, r) ==
  [heap |-> [SetParent(m.heap, m.root, a) EXCEPT ![a].left = m.root], root |-> a]

(* The tree of m becomes the left one of a, r the right one.               *)
Hang(m, a, r) ==
  [heap |-> [SetParent(m.heap, m.root, a) EXCEPT ![a].left = m.root,
                                                 ![a].right = r],
   root |-> a]

RECURSIVE skew_heap_merge(_, _, _)
skew_heap_merge(h, a, b) ==
  IF a = NoTask THEN [heap |-> h, root |-> b]
  ELSE IF b = NoTask THEN [heap |-> h, root |-> a]
  ELSE IF Before(a, b) THEN Hang(skew_heap_merge(h, h[a].right, b), a, h[a].left)
  ELSE Hang(skew_heap_merge(h, a, h[b].right), b, h[b].left)

skew_heap_insert(h, a, b) == skew_heap_merge([h EXCEPT ![b] = NoLinks], a, b)

(* skew_heap_remove of the root, the only one that schedule() removes: it  *)
(* has no parent.                                                          *)
skew_heap_remove(h, b) ==
  LET m == skew_heap_merge(h, h[b].left, h[b].right)
  IN  [m EXCEPT !.heap = SetParent(m.heap, m.root, h[b].parent)]

-----------------------------------------------------------------------------

(* The tasks enter the run queue in some order.                            *)
Queue[i \in 0..Cardinality(Task)] ==
  LET order == CHOOSE f \in [1..Cardinality(Task) -> Task] : IsInjective(f)
  IN  IF i = 0 THEN [heap |-> [t \in Task |-> NoLinks], root |-> NoTask]
      ELSE skew_heap_insert(Queue[i - 1].heap, Queue[i - 1].root, order[i])

Init ==
  /\ stride = [t \in Task |-> 0]
  /\ priority = [t \in Task |-> 1]
  /\ heap = Queue[Cardinality(Task)].heap /\ root = Queue[Cardinality(Task)].root
  /\ cur = NoTask /\ asleep = {} /\ late = FALSE

Pass(t) == BIG_STRIDE \div priority[t]

(* stride_pick_next and stride_dequeue from the run queue m; the strides   *)
(* are s.                                                                  *)
PickFrom(m, s) ==
  IF m.root = NoTask
  THEN cur' = NoTask /\ heap' = m.heap /\ root' = NoTask /\ stride' = s
  ELSE /\ cur' = m.root
       /\ stride' = [s EXCEPT ![m.root] = (@ + Pass(m.root)) % Word]
       /\ \E r \in {skew_heap_remove(m.heap, m.root)} :
            heap' = [r.heap EXCEPT ![m.root] = NoLinks] /\ root' = r.root

(* schedule() with the current task runnable (idleproc is not enqueued)    *)
Yield ==
  /\ PickFrom(IF cur = NoTask THEN [heap |-> heap, root |-> root]
              ELSE skew_heap_insert(heap, root, cur), stride)
  /\ UNCHANGED <<priority, asleep, late>>

(* ... when it goes to sleep ...                                           *)
Sleep ==
  /\ cur # NoTask
  /\ asleep' = asleep \cup {cur}
  /\ PickFrom([heap |-> heap, root |-> root], stride)
  /\ UNCHANGED <<priority, late>>

(* ... and when it ends: alloc_proc gives the next one stride 0 and        *)
(* priority 1.                                                             *)
Exit ==
  /\ cur # NoTask
  /\ asleep' = asleep \cup {cur}
  /\ PickFrom([heap |-> heap, root |-> root], [stride EXCEPT ![cur] = 0])
  /\ priority' = [priority EXCEPT ![cur] = 1]
  /\ UNCHANGED late

(* wakeup_proc, with the stride that the task went to sleep with, and the  *)
(* end of do_fork.                                                         *)
Wakeup(t) ==
  /\ t \in asleep
  /\ \E m \in {skew_heap_insert(heap, root, t)} : heap' = m.heap /\ root' = m.root
  /\ asleep' = asleep \ {t}
  /\ late' = TRUE
  /\ UNCHANGED <<stride, priority, cur>>

(* lab6_set_priority *)
SetPriority(n) ==
  /\ cur # NoTask
  /\ priority' = [priority EXCEPT ![cur] = n]
  /\ UNCHANGED <<heap, root, stride, cur, asleep, late>>

Next ==
  \/ Yield \/ Sleep \/ Exit
  \/ \E t \in Task : Wakeup(t)
  \/ \E n \in Priority : SetPriority(n)

Spec == Init /\ [][Next]_vars

-----------------------------------------------------------------------------

Queued == Task \ (asleep \cup {cur})

(* All strides of Q are within d of one of them.                           *)
Within(Q, d) == Q = {} \/ \E b \in Q : \A t \in Q : (stride[t] - stride[b]) % Word <= d

RECURSIVE Nodes(_, _)
Nodes(t, n) ==
  IF t = NoTask \/ n = 0 THEN {} ELSE {t} \cup Nodes(heap[t].left, n - 1)
                                          \cup Nodes(heap[t].right, n - 1)

(* The run queue is a heap of exactly the tasks that wait for the CPU: its *)
(* pointers agree both ways and no task is ahead of the one above it, also *)
(* when strides have wrapped around.  As long as they are less than half a *)
(* word apart, the task that stride_pick_next takes is one that nobody is  *)
(* behind.                                                                 *)
HeapExact ==
  /\ TypeOK
  /\ Nodes(root, Cardinality(Task)) = Queued
  /\ root # NoTask => heap[root].parent = NoTask
  /\ \A t \in Queued, c \in Queued :
       c \in {heap[t].left, heap[t].right} =>
         /\ heap[c].parent = t /\ heap[t].left # heap[t].right
         /\ Before(t, c) \/ ~Before(c, t)
  /\ Within(Queued, Word \div 2 - 1) => \A t \in Queued : ~Before(t, root)

(* As long as no task has joined late, no two tasks that can run are more  *)
(* than BIG_STRIDE apart: in any span of time they are given the CPU in    *)
(* proportion to their priorities.  A task that wakes up has its old       *)
(* stride, and one that is created stride 0, which is not so bounded.      *)
SpreadBounded == ~late => Within(Task \ asleep, BIG_STRIDE)

=============================================================================
