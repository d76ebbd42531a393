------------------------------- MODULE Files -------------------------------
(***************************************************************************)
(* Open files: the fd_array of a process (kern/fs/file.c, fs.c), the       *)
(* counts of an inode (kern/fs/vfs/inode.c), lookup and open (vfslookup.c, *)
(* vfspath.c, vfsfile.c, vfsdev.c), the inodes that the simple file system *)
(* keeps in memory (sfs_load_inode, sfs_reclaim), and the console device   *)
(* with its ring buffer and its sleeping readers (devs/dev_stdin.c), over  *)
(* fork, exec, exit and kill.                                              *)
(*                                                                         *)
(* The kernel is not preempted, so a call is one step, except that a read  *)
(* of stdin sleeps.  What files contain is the subject of module Sfs.  No  *)
(* caller of do_fork passes CLONE_FILES: every process has an fd_array of  *)
(* its own.                                                                *)
(***************************************************************************)
EXTENDS Integers, Sequences, FiniteSets, SequencesExt

CONSTANTS
  Proc,        (* slots of processes                                       *)
  NFd,         (* FILES_STRUCT_NENTRY                                      *)
  File,        (* the regular files, with an entry in the root directory   *)
  SubDir,      (* the other directories, likewise                          *)
  Root,        (* the root of disk0, which is the boot file system         *)
  Stdin, Stdout,
  NoNode,      (* NULL                                                     *)
  Missing,     (* a name that no directory has                             *)
  Opens,       (* bound: the paths and open_flags that programs open       *)
  Walks,       (* bound: the paths that they chdir to                      *)
  BufSize,     (* STDIN_BUFSIZE                                            *)
  MaxTyped,    (* bound: the characters typed                              *)
  MaxLen,      (* bound: the length of a read of stdin                     *)
  MaxLost,     (* bound: the references lost by one inode                  *)
  Careful      (* TRUE if programs ask of an object only what it can do    *)

Device == {Stdin, Stdout}
Dir    == {Root} \cup SubDir
Node   == File \cup Dir \cup Device
Fd     == 0..(NFd - 1)

ASSUME FilesAssumption ==
  /\ Proc # {} /\ IsFiniteSet(Proc) /\ NFd \in Nat \ {0} /\ BufSize \in Nat \ {0}
  /\ NoNode \notin Node /\ Missing \notin Node
  /\ Stdin # Stdout /\ Root \notin SubDir
  /\ File \cap Dir = {} /\ Device \cap (File \cup Dir) = {}
  /\ Device \cap {"cwd", "/", ":", "disk0"} = {}
  /\ Careful \in BOOLEAN
  /\ MaxTyped \in Nat /\ MaxLen \in Nat \ {0} /\ MaxLost \in Nat

ASSUME NameAssumption == File \cap {"", ".", ".."} = {}

VARIABLES
  node,      (* ref_count, open_count, reclaim_count and whether the inode *)
             (* is in memory                                               *)
  table,     (* proc->filesp->fd_array                                     *)
  pwd,       (* proc->filesp->pwd                                          *)
  pc,        (* "user" in user mode, "kbd" asleep or woken in              *)
             (* dev_stdin_read, "dying" on its way to do_exit, "free"      *)
             (* none; "thread" for user_main and "panic" if that fails     *)
  call,      (* the read of stdin: entry, what is left to read, wakeup     *)
             (* flags, and whether the process is runnable                 *)
  killed,    (* PF_EXITING                                                 *)
  ring,      (* stdin_buffer, p_rpos and p_wpos                            *)
  queue,     (* the wait queue of stdin                                    *)
  input,     (* the characters typed (they are numbered), those delivered, *)
             (* and whether one was typed into a full ring                 *)
  lost,      (* the references that vfs_open has lost                      *)
  oops       (* the assert that has failed                                 *)

vars == <<node, table, pwd, pc, call, killed, ring, queue, input, lost, oops>>

procs  == <<pwd, pc, killed>>
stdin  == <<call, ring, queue, input>>

None  == [status |-> "NONE", count |-> 0, node |-> NoNode,
          rd |-> FALSE, wr |-> FALSE]
NoTable == [d \in Fd |-> None]
NoCall == [d |-> 0, left |-> 0, flags |-> "INT", awake |-> TRUE]

(* The references that the kernel holds: bootfs_node and the working       *)
(* directories of idle and init; the entries of vdev_list.                 *)
Base(n) == IF n = Root THEN 3 ELSE IF n \in Device THEN 1 ELSE 0

TypeOK ==
  /\ node \in [Node -> [ref : Nat, open : Nat, reclaim : Nat, mem : BOOLEAN]]
  /\ table \in [Proc -> [Fd -> [status : {"NONE", "INIT", "OPENED", "CLOSED"},
                                count : Nat, node : Node \cup {NoNode},
                                rd : BOOLEAN, wr : BOOLEAN]]]
  /\ pwd \in [Proc -> Dir \cup {NoNode}]
  /\ pc \in [Proc -> {"free", "thread", "panic", "user", "kbd", "dying"}]
  /\ call \in [Proc -> [d : Fd, left : 0..MaxLen, flags : {"INT", "KBD"},
                        awake : BOOLEAN]]
  /\ killed \in [Proc -> BOOLEAN]
  /\ ring \in [buf : [0..(BufSize - 1) -> 0..MaxTyped], rpos : Nat, wpos : Nat]
  /\ queue \in Seq(Proc)
  /\ lost \in [Node -> 0..MaxLost]
  /\ oops \in {"no", "assert", "op"}

(* After fs_init; init_main has just made the thread of user_main, in the  *)
(* slot u.                                                                 *)
Init ==
  /\ node = [n \in Node |->
       [ref |-> Base(n) + (IF n = Root THEN 1 ELSE 0), open |-> 0,
        reclaim |-> IF n = Root THEN 1 ELSE 0, mem |-> Base(n) > 0]]
  /\ table = [p \in Proc |-> NoTable]
  /\ \E u \in Proc : /\ pwd = [p \in Proc |-> IF p = u THEN Root ELSE NoNode]
                     /\ pc = [p \in Proc |-> IF p = u THEN "thread" ELSE "free"]
  /\ call = [p \in Proc |-> NoCall]
  /\ killed = [p \in Proc |-> FALSE]
  /\ ring = [buf |-> [i \in 0..(BufSize - 1) |-> 0], rpos |-> 0, wpos |-> 0]
  /\ queue = <<>>
  /\ input = [typed |-> 0, got |-> <<>>, full |-> FALSE]
  /\ lost = [n \in Node |-> 0]
  /\ oops = "no"

-----------------------------------------------------------------------------
(* Inodes.  K is what a call works on: node, the fd_array fd of the        *)
(* process, and oops.                                                      *)

K(p) == [node |-> node, fd |-> table[p], oops |-> oops]

KAssert(k, ok, what) == IF ok \/ k.oops # "no" THEN k ELSE [k EXCEPT !.oops = what]

(* The operations in dev_node_ops, sfs_node_dirops and sfs_node_fileops.   *)
HasOp(n, op) ==
  op \in CASE n \in Device -> {"open", "close", "read", "write", "fstat",
                               "gettype", "tryseek", "lookup"}
           [] n \in Dir    -> {"open", "close", "fstat", "fsync", "namefile",
                               "getdirentry", "reclaim", "gettype", "lookup"}
           [] OTHER        -> {"open", "close", "read", "write", "fstat",
                               "fsync", "reclaim", "gettype", "tryseek",
                               "truncate"}

(* __vop_op and inode_check *)
Vop(k, n, op) ==
  KAssert(KAssert(k, HasOp(n, op), "op"),
         k.node[n].mem /\ k.node[n].ref >= k.node[n].open, "assert")

vop_ref_inc(k, n)  == [k EXCEPT !.node[n].ref = @ + 1]
vop_open_inc(k, n) == [k EXCEPT !.node[n].open = @ + 1]

(* The last reference is gone: the inode leaves the hash list and memory.  *)
Reclaimed(x) ==
  IF x.reclaim = 1 /\ x.ref = 0 THEN [x EXCEPT !.reclaim = 0, !.mem = FALSE]
                                ELSE [x EXCEPT !.reclaim = @ - 1]

sfs_reclaim(k, n) ==
  [KAssert(k, k.node[n].reclaim > 0, "assert") EXCEPT !.node[n] = Reclaimed(@)]

inode_kill(k, n) ==
  KAssert(k, k.node[n].mem \/ k.node[n].open = 0, "assert")

vop_ref_dec(k, n) ==
  IF k.node[n].ref > 1 THEN [k EXCEPT !.node[n].ref = @ - 1]
  ELSE inode_kill(sfs_reclaim(Vop([KAssert(k, k.node[n].ref = 1, "assert")
                                     EXCEPT !.node[n].ref = 0],
                                  n, "reclaim"), n), n)

(* vop_close does not change what is modelled here.                        *)
vop_open_dec(k, n) ==
  IF k.node[n].open > 1 THEN [k EXCEPT !.node[n].open = @ - 1]
  ELSE Vop([KAssert(k, k.node[n].open = 1, "assert") EXCEPT !.node[n].open = 0],
           n, "close")

(* sfs_load_inode: the inode in memory, or a new one.                      *)
InMemory(x) ==
  IF x.mem THEN [x EXCEPT !.ref = @ + 1,
                          !.reclaim = IF x.ref = 0 THEN @ + 1 ELSE @]
  ELSE [ref |-> 1, open |-> 0, reclaim |-> 1, mem |-> TRUE]

sfs_load_inode(k, n) == [k EXCEPT !.node[n] = InMemory(@)]

-----------------------------------------------------------------------------
(* Paths: from what get_device starts ("cwd" for name, "/", ":", or a      *)
(* device) and the name that is left: a node, Missing, ".", ".." or "".    *)

StartOf(p, from) ==
  CASE from = "cwd" -> pwd[p] [] from \in Device -> from [] OTHER -> Root

(* get_device: the start, with a reference.                                *)
get_device(k, p, from) ==
  CASE from = "disk0" -> sfs_load_inode(k, Root)
    [] from = ":" ->
         vop_ref_dec(sfs_load_inode(vop_ref_inc(k, pwd[p]), Root), pwd[p])
    [] OTHER -> vop_ref_inc(k, StartOf(p, from))

(* sfs_lookup_once for a component of the path.  The assert that its name  *)
(* is at most SFS_MAX_FNAME_LEN characters long is left out: names have no *)
(* length here.                                                            *)
Entry(dir, name) ==
  CASE name = "."                              -> dir
    [] name = ".."                             -> Root
    [] name \in File \cup SubDir /\ dir = Root -> name
    [] OTHER                                   -> NoNode

(* sfs_lookup and sfs_lookup_once; sub is NoNode when the name is not      *)
(* there or there is no memory for it.                                     *)
sfs_lookup(k, dir, sub) ==
  [k |-> vop_ref_dec(IF sub = NoNode THEN vop_ref_inc(k, dir)
                     ELSE sfs_load_inode(vop_ref_inc(k, dir), sub), dir),
   node |-> sub]

(* vfs_lookup; mem says whether memory is there for the directory entry    *)
(* and the inode.  dev_lookup knows no names.                              *)
vop_lookup(k, n, name, mem) ==
  IF n \in Device THEN [k |-> Vop(k, n, "lookup"), node |-> NoNode]
  ELSE sfs_lookup(Vop(k, n, "lookup"), n,
                  IF mem THEN Entry(n, name) ELSE NoNode)

DropStart(r, n) == [r EXCEPT !.k = vop_ref_dec(@, n)]

vfs_lookup(k, p, path, mem) ==
  IF path.name = ""
  THEN [k |-> get_device(k, p, path.from), node |-> StartOf(p, path.from)]
  ELSE DropStart(vop_lookup(get_device(k, p, path.from),
                            StartOf(p, path.from), path.name, mem),
                 StartOf(p, path.from))

-----------------------------------------------------------------------------
(* Entries of an fd_array *)

FreeFd(fd) == {d \in Fd : fd[d].status = "NONE"}

fd_array_alloc(k, d) ==
  [KAssert(k, k.fd[d].count = 0, "assert") EXCEPT !.fd[d] =
     [status |-> "INIT", count |-> @.count, node |-> NoNode, rd |-> @.rd, wr |-> @.wr]]

fd_array_open(k, d, n, rd, wr) ==
  [KAssert(k, k.fd[d].status = "INIT" /\ n # NoNode, "assert") EXCEPT !.fd[d] =
     [status |-> "OPENED", count |-> @.count + 1, node |-> n, rd |-> rd, wr |-> wr]]

(* Fault: the inode of a closed entry keeps its open count.                *)
vfs_close_RefOnly(k, n) == vop_ref_dec(k, n)

vfs_close(k, n) == vop_ref_dec(vop_open_dec(k, n), n)

fd_array_free(k, d) ==
  [KAssert(IF k.fd[d].status = "CLOSED" THEN vfs_close(k, k.fd[d].node) ELSE k,
           k.fd[d].status \in {"INIT", "CLOSED"} /\ k.fd[d].count = 0, "assert")
     EXCEPT !.fd[d] = None]

Dec(k, d) == [k EXCEPT !.fd[d].count = @ - 1]

FreeIfLast(k, d) == IF k.fd[d].count = 0 THEN fd_array_free(k, d) ELSE k

fd_array_close(k, d) ==
  FreeIfLast(Dec([KAssert(k, k.fd[d].status = "OPENED" /\ k.fd[d].count > 0,
                         "assert") EXCEPT !.fd[d].status = "CLOSED"], d), d)

fd_array_acquire(k, d) ==
  [KAssert(k, k.fd[d].status = "OPENED", "assert") EXCEPT !.fd[d].count = @ + 1]

fd_array_release(k, d) ==
  FreeIfLast(Dec(KAssert(k, /\ k.fd[d].status \in {"OPENED", "CLOSED"}
                           /\ k.fd[d].count > 0, "assert"), d), d)

fd_array_dup(k, to, from) ==
  fd_array_open(
    vop_open_inc(vop_ref_inc(KAssert(k, from.status = "OPENED", "assert"),
                             from.node), from.node),
    to, from.node, from.rd, from.wr)

-----------------------------------------------------------------------------
(* System calls of process p, which is in user mode.                       *)

InUser(p) == pc[p] = "user" /\ oops = "no"

(* The end of a trap: a killed process goes to do_exit.                    *)
Back(p) == pc' = [pc EXCEPT ![p] = IF killed[p] THEN "dying" ELSE "user"]

Result(p, k) ==
  /\ node' = k.node
  /\ table' = [table EXCEPT ![p] = k.fd]
  /\ oops' = k.oops

(* The open_flags: O_ACCMODE, O_CREAT, O_EXCL, O_TRUNC and O_APPEND.       *)
Plain(acc) == [acc |-> acc, creat |-> FALSE, excl |-> FALSE, trunc |-> FALSE,
               append |-> FALSE]

(* dev_open with stdin_open or stdout_open, sfs_opendir, sfs_openfile      *)
MayOpen(n, fl) ==
  CASE n = Stdin  -> fl = Plain("RDONLY")
    [] n = Stdout -> fl = Plain("WRONLY")
    [] n \in Dir  -> fl.acc = "RDONLY" /\ ~fl.append
    [] OTHER      -> TRUE

(* O_CREAT truncates what is there, too.                                   *)
vop_truncate(k, n, fl) == IF fl.trunc \/ fl.creat THEN Vop(k, n, "truncate") ELSE k

(* The part of vfs_open after the lookup has found r.node: what it         *)
(* returns, and whether it keeps the reference without returning it.       *)
OpenNode(r, fl) ==
  IF fl.creat /\ fl.excl THEN [k |-> r.k, node |-> NoNode, lost |-> TRUE]
  ELSE IF ~MayOpen(r.node, fl)
  THEN [k |-> vop_ref_dec(Vop(r.k, r.node, "open"), r.node),
        node |-> NoNode, lost |-> FALSE]
  ELSE [k |-> vop_truncate(vop_open_inc(Vop(r.k, r.node, "open"), r.node), r.node, fl),
        node |-> r.node, lost |-> FALSE]

(* The part after a lookup that found nothing: no file system has          *)
(* vop_create.                                                             *)
NotFound(r, p, path, fl, mem) ==
  [k |-> IF fl.creat /\ (mem \/ path.from \in Device)
         THEN Vop(get_device(r.k, p, path.from), StartOf(p, path.from), "create")
         ELSE r.k,
   node |-> NoNode, lost |-> FALSE]

vfs_open(r, p, path, fl, mem) ==
  IF r.node = NoNode THEN NotFound(r, p, path, fl, mem) ELSE OpenNode(r, fl)

(* What file_open does with the result r of vfs_open and its entry d.      *)
SetEntry(r, d, fl) ==
  IF r.node = NoNode THEN fd_array_free(r.k, d)
  ELSE fd_array_open(IF fl.append THEN Vop(r.k, r.node, "fstat") ELSE r.k, d,
                     r.node, fl.acc # "WRONLY", fl.acc # "RDONLY")

(* What the path names, whatever the counts are.                           *)
Target(p, path) ==
  IF path.name = "" THEN StartOf(p, path.from)
  ELSE IF path.from \in Device THEN NoNode
  ELSE Entry(StartOf(p, path.from), path.name)

LowestFd(fd) == {d \in FreeFd(fd) : \A e \in FreeFd(fd) : d <= e}

file_open(p, path, fl, mem) ==
  \E d \in LowestFd(table[p]) :
  \E r \in {vfs_open(vfs_lookup(fd_array_alloc(K(p), d), p, path, mem),
                     p, path, fl, mem)} :
    /\ Result(p, SetEntry(r, d, fl))
    /\ lost' = IF r.lost THEN [lost EXCEPT ![Target(p, path)] = @ + 1] ELSE lost
    /\ \A n \in Node : lost'[n] <= MaxLost

(* Careful programs do not create files and do not truncate directories.   *)
Open(p, path, fl, mem) ==
  /\ InUser(p)
  /\ fl.trunc => fl.acc # "RDONLY"
  /\ Careful => \/ ~fl.creat
                \/ Target(p, path) \in File \/ (fl.excl /\ Target(p, path) # NoNode)
  /\ file_open(p, path, fl, mem)
  /\ Back(p)
  /\ UNCHANGED <<pwd, killed, stdin>>

IsOpen(p, d) == table[p][d].status = "OPENED"

Close(p, d) ==
  /\ InUser(p) /\ IsOpen(p, d)
  /\ Result(p, fd_array_close(K(p), d))
  /\ Back(p)
  /\ UNCHANGED <<pwd, killed, stdin, lost>>

(* file_dup; to is not in use.                                             *)
Dup(p, d, to) ==
  /\ InUser(p) /\ IsOpen(p, d) /\ to \in FreeFd(table[p])
  /\ Result(p, fd_array_dup(fd_array_alloc(K(p), to), to, table[p][d]))
  /\ Back(p)
  /\ UNCHANGED <<pwd, killed, stdin, lost>>

(* file_read (but for stdin), file_write, file_seek, file_fstat,           *)
(* file_fsync and file_getdirentry.                                        *)
Use(p, d, op) ==
  /\ InUser(p) /\ IsOpen(p, d)
  /\ op = "read"  => table[p][d].rd /\ table[p][d].node # Stdin
  /\ op = "write" => table[p][d].wr
  /\ Careful => HasOp(table[p][d].node, op)
  /\ Result(p, fd_array_release(Vop(fd_array_acquire(K(p), d), table[p][d].node, op), d))
  /\ Back(p)
  /\ UNCHANGED <<pwd, killed, stdin, lost>>

(* vfs_set_curdir: dir has a reference from the lookup.                    *)
vfs_set_curdir(k, old, dir) ==
  IF dir = old THEN k
  ELSE IF dir \in Dir THEN vop_ref_dec(vop_ref_inc(Vop(k, dir, "gettype"), dir), old)
  ELSE Vop(k, dir, "gettype")

Chdir(p, path, mem) ==
  /\ InUser(p)
  /\ \E r \in {vfs_lookup(K(p), p, path, mem)} :
       /\ Result(p, IF r.node = NoNode THEN r.k
                    ELSE vop_ref_dec(vfs_set_curdir(r.k, pwd[p], r.node), r.node))
       /\ pwd' = IF r.node \in Dir THEN [pwd EXCEPT ![p] = r.node] ELSE pwd
  /\ Back(p)
  /\ UNCHANGED <<killed, stdin, lost>>

(* One turn of the loop of sfs_namefile, from n to its parent.             *)
NameUp(k, n) == vop_ref_dec(sfs_load_inode(k, Root), n)

(* sfs_namefile; fits says whether the name fits in the buffer.            *)
sfs_namefile(k, n, fits) ==
  vop_ref_dec(IF n = Root \/ ~fits THEN NameUp(vop_ref_inc(k, n), n)
              ELSE NameUp(NameUp(vop_ref_inc(k, n), n), Root), Root)

(* vfs_getcwd *)
Getcwd(p, fits) ==
  /\ InUser(p)
  /\ Result(p, vop_ref_dec(sfs_namefile(Vop(vop_ref_inc(K(p), pwd[p]), pwd[p], "namefile"),
                                        pwd[p], fits), pwd[p]))
  /\ Back(p)
  /\ UNCHANGED <<pwd, killed, stdin, lost>>

(* sys_exec.  do_execve hands its own copy of the name to sysfile_open,    *)
(* and copy_path refuses an address of the kernel from a process that has  *)
(* an mm: the call fails before anything is opened.                        *)
ExecRefused(p) ==
  /\ InUser(p)
  /\ Back(p)
  /\ UNCHANGED <<node, table, pwd, killed, stdin, lost, oops>>

-----------------------------------------------------------------------------
(* The thread of user_main, which has no mm.                               *)

InThread(p) == pc[p] = "thread" /\ oops = "no"

(* sysfile_open("stdin:"), then sysfile_open("stdout:").  user_main calls  *)
(* the second twice; how many calls come before Exec is left open here.    *)
OpenStd(p, dev) ==
  /\ InThread(p)
  /\ dev = IF table[p] = NoTable THEN Stdin ELSE Stdout
  /\ file_open(p, [from |-> dev, name |-> ""],
               Plain(IF dev = Stdin THEN "RDONLY" ELSE "WRONLY"), TRUE)
  /\ UNCHANGED <<pwd, pc, killed, stdin>>

(* The program, opened in entry d as r, is read and closed.                *)
LoadAndClose(r, d) ==
  fd_array_close(Vop(SetEntry(r, d, Plain("RDONLY")), r.node, "read"), d)

(* kernel_execve: user_main panics when the program is not found, and when *)
(* load_icode fails; otherwise it is the first process in user mode.       *)
Exec(p, f, mem) ==
  LET path == [from |-> "cwd", name |-> f] IN
  /\ InThread(p)
  /\ \E d \in LowestFd(table[p]) :
     \E r \in {vfs_open(vfs_lookup(fd_array_alloc(K(p), d), p, path, mem),
                        p, path, Plain("RDONLY"), mem)} :
       \/ /\ r.node = NoNode
          /\ Result(p, fd_array_free(r.k, d))
          /\ pc' = [pc EXCEPT ![p] = "panic"]
       \/ /\ r.node # NoNode
          /\ Result(p, LoadAndClose(r, d))
          /\ \E end \in {"user", "panic"} : pc' = [pc EXCEPT ![p] = end]
  /\ UNCHANGED <<pwd, killed, stdin, lost>>

(* copy_path finds no memory, or the fd_array is full.                     *)
ThreadFails(p) ==
  /\ InThread(p)
  /\ pc' = [pc EXCEPT ![p] = "panic"]
  /\ UNCHANGED <<node, table, pwd, killed, stdin, lost, oops>>

-----------------------------------------------------------------------------
(* Processes *)

DupEntry(k, from, d) ==
  IF from[d].status = "OPENED"
  THEN fd_array_dup([k EXCEPT !.fd[d].status = "INIT"], d, from[d]) ELSE k

(* The loop of dup_files over the entries of from.                         *)
dup_files(k, from) ==
  LET copied[i \in 0..NFd] ==
        IF i = 0 THEN k ELSE DupEntry(copied[i - 1], from, i - 1)
  IN  copied[NFd]

(* copy_files with dup_files: the child c has copies of p's entries.       *)
Fork(p, c) ==
  /\ InUser(p) /\ pc[c] = "free"
  /\ \E k \in {dup_files(vop_ref_inc(K(c), pwd[p]), table[p])} : Result(c, k)
  /\ pwd' = [pwd EXCEPT ![c] = pwd[p]]
  /\ pc' = [pc EXCEPT ![p] = IF killed[p] THEN "dying" ELSE "user", ![c] = "user"]
  /\ UNCHANGED <<killed, stdin, lost>>

AssertNone(k, d) == KAssert(k, k.fd[d].status = "NONE", "assert")

CloseEntry(k, d) ==
  AssertNone(IF k.fd[d].status = "OPENED" THEN fd_array_close(k, d) ELSE k, d)

files_destroy(k, dir) ==
  LET closed[i \in 0..NFd] ==
        IF i = 0 THEN vop_ref_dec(k, dir) ELSE CloseEntry(closed[i - 1], i - 1)
  IN  closed[NFd]

(* do_exit, called or because the process is killed; p may be forked anew. *)
Exit(p) ==
  /\ pc[p] \in {"user", "dying"} /\ oops = "no"
  /\ \E k \in {files_destroy(K(p), pwd[p])} : Result(p, k)
  /\ pwd' = [pwd EXCEPT ![p] = NoNode]
  /\ pc' = [pc EXCEPT ![p] = "free"]
  /\ killed' = [killed EXCEPT ![p] = FALSE]
  /\ UNCHANGED <<stdin, lost>>

(* do_kill: a reader of stdin sleeps with WT_KBD and is woken.             *)
Kill(p) ==
  /\ pc[p] \in {"user", "kbd", "dying"} /\ ~killed[p] /\ oops = "no"
  /\ killed' = [killed EXCEPT ![p] = TRUE]
  /\ call' = [call EXCEPT ![p].awake = TRUE]
  /\ UNCHANGED <<node, table, pwd, pc, ring, queue, input, lost, oops>>

-----------------------------------------------------------------------------
(* stdin *)

(* Fault: only the reader that came first is woken.                        *)
WakeKbd_First(Q, c) ==
  [p \in Proc |-> IF Q # <<>> /\ p = Head(Q)
                  THEN [c[p] EXCEPT !.flags = "KBD", !.awake = TRUE] ELSE c[p]]

(* wakeup_queue(wait_queue, WT_KBD, 1): everyone is woken and unlinked.    *)
WakeKbd(Q, c) ==
  [p \in Proc |-> IF p \in ToSet(Q)
                  THEN [c[p] EXCEPT !.flags = "KBD", !.awake = TRUE] ELSE c[p]]

(* Fault: the last slot is thought free when it is not.                    *)
Room_Over == ring.wpos - ring.rpos <= BufSize

Room == ring.wpos - ring.rpos < BufSize

(* dev_stdin_write.  The console's interrupt handlers, which would call    *)
(* it, are empty functions in this kernel.                                 *)
Key ==
  /\ oops = "no" /\ input.typed < MaxTyped /\ \A p \in Proc : pc[p] # "panic"
  /\ ring' = [ring EXCEPT !.buf[ring.wpos % BufSize] = input.typed + 1,
                          !.wpos = IF Room THEN @ + 1 ELSE @]
  /\ input' = [input EXCEPT !.typed = @ + 1,
                 !.full = @ \/ ring.wpos - ring.rpos = BufSize]
  /\ call' = WakeKbd(queue, call)
  /\ queue' = <<>>
  /\ UNCHANGED <<node, table, procs, lost, oops>>

(* wait_current_del: p's wait_t leaves the queue if it is still there.     *)
wait_current_del(Q, p) ==
  IF p \in ToSet(Q) THEN RemoveAt(Q, CHOOSE i \in DOMAIN Q : Q[i] = p) ELSE Q

(* The loop of dev_stdin_read for the call c of p: it takes what is there  *)
(* and, if that is not enough, joins the wait queue ...                    *)
ReadOn(p, c) ==
  \E n \in {IF c.left <= ring.wpos - ring.rpos THEN c.left
            ELSE ring.wpos - ring.rpos} :
    /\ ring' = [ring EXCEPT !.rpos = @ + n]
    /\ input' = [input EXCEPT !.got =
         @ \o [i \in 1..n |-> ring.buf[(ring.rpos + i - 1) % BufSize]]]
    /\ IF n = c.left
       THEN /\ Result(p, fd_array_release([K(p) EXCEPT !.fd[c.d].count =
                                              IF pc[p] = "user" THEN @ + 1 ELSE @], c.d))
            /\ call' = [call EXCEPT ![p] = NoCall]
            /\ queue' = wait_current_del(queue, p)
            /\ Back(p)
       ELSE /\ Result(p, IF pc[p] = "user" THEN fd_array_acquire(K(p), c.d) ELSE K(p))
            /\ call' = [call EXCEPT ![p] = [d |-> c.d, left |-> c.left - n,
                                            flags |-> "INT", awake |-> FALSE]]
            /\ queue' = Append(wait_current_del(queue, p), p)
            /\ pc' = [pc EXCEPT ![p] = "kbd"]

ReadStdin(p, d, len) ==
  /\ InUser(p) /\ IsOpen(p, d) /\ table[p][d].node = Stdin /\ table[p][d].rd
  /\ ReadOn(p, [d |-> d, left |-> len])
  /\ UNCHANGED <<pwd, killed, lost>>

(* ... from which it goes on when a character has woken it ...             *)
Resume(p) ==
  /\ pc[p] = "kbd" /\ call[p].awake /\ call[p].flags = "KBD" /\ oops = "no"
  /\ ReadOn(p, call[p])
  /\ UNCHANGED <<pwd, killed, lost>>

(* ... and returns what it has when something else has.                    *)
Interrupted(p) ==
  /\ pc[p] = "kbd" /\ call[p].awake /\ call[p].flags = "INT" /\ oops = "no"
  /\ queue' = wait_current_del(queue, p)
  /\ Result(p, fd_array_release(K(p), call[p].d))
  /\ call' = [call EXCEPT ![p] = NoCall]
  /\ Back(p)
  /\ UNCHANGED <<pwd, killed, ring, input, lost>>

-----------------------------------------------------------------------------

Ops == {"read", "write", "tryseek", "fstat", "fsync", "getdirentry"}

SysCall(p) ==
  \/ \E o \in Opens, mem \in BOOLEAN : Open(p, o.path, o.flags, mem)
  \/ \E d \in Fd : Close(p, d)
  \/ \E d, to \in Fd : Dup(p, d, to)
  \/ \E d \in Fd, op \in Ops : Use(p, d, op)
  \/ \E path \in Walks, mem \in BOOLEAN : Chdir(p, path, mem)
  \/ \E fits \in BOOLEAN : Getcwd(p, fits)
  \/ ExecRefused(p)
  \/ \E c \in Proc : Fork(p, c)
  \/ \E d \in Fd, len \in 1..MaxLen : ReadStdin(p, d, len)

UserMain(p) ==
  \/ \E dev \in Device : OpenStd(p, dev)
  \/ \E f \in File, mem \in BOOLEAN : Exec(p, f, mem)
  \/ ThreadFails(p)

Next ==
  \/ \E p \in Proc : UserMain(p) \/ SysCall(p) \/ Exit(p)
                       \/ Resume(p) \/ Interrupted(p) \/ Kill(p)
  \/ Key

Spec == Init /\ [][Next]_vars

-----------------------------------------------------------------------------

Entries(n) == {e \in Proc \X Fd : /\ table[e[1]][e[2]].status # "NONE"
                                   /\ table[e[1]][e[2]].node = n}

(* Every inode is counted exactly: ref_count is the number of fd_array     *)
(* entries, working directories and kernel structures that point to it,    *)
(* plus what vfs_open has lost on O_CREAT | O_EXCL; open_count is the      *)
(* number of entries; and it is in memory exactly as long as it has a      *)
(* reference, so that nothing is used after sfs_reclaim and nothing stays  *)
(* behind.  An entry is used by its process alone, at most twice at a time *)
(* (the descriptor and a read that sleeps), and never left half open.  The *)
(* asserts on counts and entries hold over every history of open, dup,     *)
(* close, fork, kill and exit and of user_main's opens and exec, the       *)
(* assert of files_destroy that no entry is still in use among them.       *)
RefsExact ==
  /\ TypeOK /\ oops # "assert"
  /\ \A n \in Node :
       /\ node[n].ref = Base(n) + Cardinality(Entries(n)) + lost[n]
                        + Cardinality({p \in Proc : pwd[p] = n})
       /\ node[n].open = Cardinality(Entries(n))
       /\ node[n].mem <=> node[n].ref > 0
       /\ node[n].reclaim = IF node[n].mem /\ n \notin Device THEN 1 ELSE 0
  /\ \A p \in Proc, d \in Fd :
       \/ table[p][d] = None
       \/ /\ table[p][d].status = "OPENED"
          /\ table[p][d].count = IF pc[p] = "kbd" /\ call[p].d = d THEN 2 ELSE 1

(* No wake-up is lost: a reader sleeps in the wait queue, once, and only   *)
(* as long as the ring is empty; nobody else is in the queue.              *)
ReadersWoken ==
  /\ \A p \in Proc :
       pc[p] = "kbd" /\ ~call[p].awake =>
         p \in ToSet(queue) /\ ring.rpos = ring.wpos
  /\ \A p \in ToSet(queue) : pc[p] = "kbd" /\ call[p].flags = "INT"
  /\ \A i, j \in DOMAIN queue : queue[i] = queue[j] => i = j

(* No character is delivered twice, whoever reads; and as long as none was *)
(* typed into a full ring, they are delivered in the order typed, without  *)
(* a gap.                                                                  *)
InOrder ==
  /\ \A i, j \in DOMAIN input.got : input.got[i] = input.got[j] => i = j
  /\ ~input.full => input.got = [i \in 1..ring.rpos |-> i]
                    /\ ring.wpos = input.typed

(* The assert of __vop_op: no operation is called that the inode's type    *)
(* does not have.                                                          *)
OpsDefined == oops # "op"

=============================================================================
