-------------------------------- MODULE Sfs --------------------------------
(***************************************************************************)
(* The contents of files in the simple file system: blocks, the block map  *)
(* of an inode, read, write, seek and truncate (kern/fs/sfs/sfs_inode.c,   *)
(* bitmap.c), and the open files through which they are reached            *)
(* (kern/fs/file.c, kern/fs/vfs/vfsfile.c).                                *)
(*                                                                         *)
(* No call sleeps on its way and the kernel is not preempted, so the       *)
(* calls of all processes come one after the other; their loops are walked *)
(* one block a step.  The RAM disk does not fail.  An open file may belong *)
(* to any process and is open for reading and writing.  There is no        *)
(* unlink and no create: the files are those on the disk.                  *)
(***************************************************************************)
EXTENDS Integers, Sequences, FiniteSets, FiniteSetsExt

CONSTANTS
  File,          (* the files                                              *)
  Fd,            (* entries of fd_arrays                                   *)
  NoFile,        (* the file of an entry that is not open                  *)
  NBlock,        (* the blocks of the disk that are free at first          *)
  BlkSize,       (* SFS_BLKSIZE                                            *)
  BlkNEntry,     (* SFS_BLK_NENTRY: the entries of an indirect block       *)
  NDirect,       (* SFS_NDIRECT                                            *)
  MaxFileSize,   (* SFS_MAX_FILE_SIZE                                      *)
  Lengths,       (* bound: the lengths of reads and writes                 *)
  Positions,     (* bound: the positions that file_seek is asked for       *)
  Careful        (* TRUE if programs truncate no file that is open         *)
                 (* elsewhere and seek no further than the disk has room   *)

ASSUME SizeAssumption ==
  /\ NBlock \in Nat \ {0} /\ BlkSize \in Nat \ {0} /\ NDirect \in Nat
  /\ BlkNEntry \in 1..BlkSize /\ MaxFileSize \in Nat \ {0}
  /\ Lengths \subseteq Nat \ {0} /\ Positions \subseteq 0..(MaxFileSize - 1)
ASSUME FileAssumption == NoFile \notin File /\ Careful \in BOOLEAN

VARIABLES
  fs,      (* the mounted file system: freemap, super.unused_blocks, the   *)
           (* blocks, the inodes in memory with their dirty bits, and what *)
           (* assert or panic has stopped the kernel                       *)
  disk,    (* the inodes on the disk                                       *)
  fd,      (* the open files: node and pos                                 *)
  call     (* the call that is being executed, and its locals              *)

vars == <<fs, disk, fd, call>>

Blk  == 1..NBlock
Cell == 0..(BlkSize - 1)

ZeroBlock == [c \in Cell |-> 0]

EmptyInode == [size |-> 0, blocks |-> 0, indirect |-> 0,
               direct |-> [i \in 0..(NDirect - 1) |-> 0]]

Inode == [size : Nat, blocks : Nat, indirect : {0} \cup Blk,
          direct : [0..(NDirect - 1) -> {0} \cup Blk]]

(* step: where sfs_io_nolock or sfs_truncfile is.  off, end, blkno, nblks  *)
(* and alen are its locals, len the length the caller asks for, byte what  *)
(* is written, got what has been read; end is the new length in            *)
(* sfs_truncfile.                                                          *)
None == [op |-> "none", step |-> "none", d |-> NoFile,
         off |-> 0, len |-> 0, end |-> 0, blkno |-> 0, nblks |-> 0,
         alen |-> 0, byte |-> 0, got |-> <<>>]

TypeOK ==
  /\ fs.freemap \in SUBSET Blk
  /\ fs.unused \in 0..NBlock
  /\ fs.data \in [Blk -> [Cell -> Nat]]
  /\ fs.din \in [File -> Inode]
  /\ fs.dirty \in [File -> BOOLEAN]
  /\ fs.oops \in {"no", "assert", "hole", "range"}
  /\ disk \in [File -> Inode]
  /\ fd \in [Fd -> [file : File \cup {NoFile}, pos : 0..MaxFileSize]]
  /\ call.op \in {"none", "read", "write", "open", "seek"}
  /\ call.step \in {"none", "head", "body", "tail", "out", "trunc"}

(* A mounted disk with empty files, none of them open.                     *)
Init ==
  /\ fs = [ freemap |-> Blk, unused |-> NBlock,
            data  |-> [b \in Blk |-> ZeroBlock],
            din   |-> [f \in File |-> EmptyInode],
            dirty |-> [f \in File |-> FALSE],
            oops  |-> "no" ]
  /\ disk = [f \in File |-> EmptyInode]
  /\ fd = [d \in Fd |-> [file |-> NoFile, pos |-> 0]]
  /\ call = None

-----------------------------------------------------------------------------
(* Blocks.  Z is a file system; an operation that may fail returns a       *)
(* record with ok.                                                         *)

Check(Z, ok, what) ==
  IF ok \/ Z.oops # "no" THEN Z ELSE [Z EXCEPT !.oops = what]

(* bitmap_alloc and sfs_clear_block: the lowest free block, cleared.       *)
sfs_block_alloc(Z) ==
  IF Z.freemap = {} THEN [Z |-> Z, ino |-> 0, ok |-> FALSE]
  ELSE LET b == Min(Z.freemap)
           Y == Check(Z, Z.unused > 0, "assert")
       IN  [ Z   |-> [Y EXCEPT !.freemap = @ \ {b}, !.unused = @ - 1,
                               !.data[b] = ZeroBlock],
             ino |-> b, ok |-> TRUE ]

sfs_block_free(Z, b) ==
  [Check(Z, b \in Blk \ Z.freemap, "assert")
     EXCEPT !.freemap = @ \cup {b}, !.unused = @ + 1]

(* sfs_wbuf and sfs_wblock: v goes to cells of block b.                    *)
Overwritten(block, cells, v) ==
  [c \in Cell |-> IF c \in cells THEN v ELSE block[c]]

Put(Z, b, cells, v) == [Z EXCEPT !.data[b] = Overwritten(@, cells, v)]

(* Fault: an indirect block is kept when the block for its first entry     *)
(* cannot be had.                                                          *)
GiveBack_Never(Z, ent0, ent) == Z

(* failed_cleanup of sfs_bmap_get_sub_nolock *)
GiveBack(Z, ent0, ent) == IF ent # ent0 THEN sfs_block_free(Z, ent) ELSE Z

(* The last part of it, for the indirect block E and the block I that are  *)
(* wanted: the number of I goes to the entry.                              *)
AddEntry(Z, ent0, index, E, I) ==
  IF E.ok /\ I.ok
  THEN [Z |-> Put(I.Z, E.ino, {index}, I.ino),
        ent |-> E.ino, ino |-> I.ino, ok |-> TRUE]
  ELSE [Z |-> IF E.ok THEN GiveBack(E.Z, ent0, E.ino) ELSE Z,
        ent |-> ent0, ino |-> 0, ok |-> FALSE]

(* ent0 is the indirect block, 0 if there is none yet.                     *)
sfs_bmap_get_sub(Z, ent0, index, create) ==
  LET old == IF ent0 = 0 THEN 0 ELSE Z.data[ent0][index]
      Add(E) == AddEntry(Z, ent0, index, E, sfs_block_alloc(E.Z))
  IN  IF old # 0 \/ ~create
      THEN [Z |-> Z, ent |-> ent0, ino |-> old, ok |-> TRUE]
      ELSE Add(IF ent0 = 0 THEN sfs_block_alloc(Z)
                           ELSE [Z |-> Z, ino |-> ent0, ok |-> TRUE])

(* The inode of f is din from now on, and not yet on the disk.             *)
Changed(Z, f, din) == [Z EXCEPT !.din[f] = din, !.dirty[f] = TRUE]

(* The new block of A becomes a direct block of f ...                      *)
SetDirect(A, f, index) ==
  IF A.ok
  THEN [Z |-> Changed(A.Z, f, [A.Z.din[f] EXCEPT !.direct[index] = A.ino]),
        ino |-> A.ino, ok |-> TRUE]
  ELSE A

(* ... and what sfs_bmap_get_sub has found or made, G, an indirect one.    *)
SetIndirect(G, f) ==
  [ Z   |-> IF G.ok /\ G.ent # G.Z.din[f].indirect
            THEN Changed(G.Z, f, [G.Z.din[f] EXCEPT !.indirect = G.ent])
            ELSE G.Z,
    ino |-> G.ino, ok |-> G.ok ]

(* The block of file f with logical number index; with create, one is      *)
(* allocated if there is none.                                             *)
sfs_bmap_get(Z, f, index, create) ==
  LET din == Z.din[f]
  IN  IF index < NDirect
      THEN IF din.direct[index] # 0 \/ ~create
           THEN [Z |-> Z, ino |-> din.direct[index], ok |-> TRUE]
           ELSE SetDirect(sfs_block_alloc(Z), f, index)
      ELSE IF index - NDirect < BlkNEntry
      THEN SetIndirect(
             sfs_bmap_get_sub(Z, din.indirect, index - NDirect, create), f)
      ELSE [Z |-> Check(Z, FALSE, "range"), ino |-> 0, ok |-> FALSE]

(* A block of the file, or the one behind the last.                        *)
sfs_bmap_load(Z, f, index) ==
  LET create == index = Z.din[f].blocks
      Count(G) ==
        LET Y == Check(G.Z, G.ok => G.ino \in Blk \ G.Z.freemap, "assert")
        IN  [ Z   |-> IF G.ok /\ create THEN [Y EXCEPT !.din[f].blocks = @ + 1]
                                        ELSE Y,
              ino |-> G.ino,
              ok  |-> G.ok /\ Y.oops = "no" ]
  IN  Count(sfs_bmap_get(Check(Z, index <= Z.din[f].blocks, "hole"),
                         f, index, create))

(* Fault: the entry of a direct block that is freed keeps its number.      *)
sfs_bmap_free_KeepsEntry(Z, f, index) ==
  LET din == Z.din[f]
      ent == din.indirect
      b   == IF index < NDirect THEN din.direct[index]
             ELSE IF ent = 0 THEN 0 ELSE Z.data[ent][index - NDirect]
  IN  IF b = 0 THEN Z
      ELSE IF index < NDirect
      THEN [sfs_block_free(Z, b) EXCEPT !.dirty[f] = TRUE]
      ELSE sfs_block_free(Put(Z, ent, {index - NDirect}, 0), b)

(* sfs_bmap_free_nolock *)
sfs_bmap_free(Z, f, index) ==
  LET din == Z.din[f]
      ent == din.indirect
      b   == IF index < NDirect THEN din.direct[index]
             ELSE IF ent = 0 THEN 0 ELSE Z.data[ent][index - NDirect]
  IN  IF b = 0 THEN Z
      ELSE IF index < NDirect
      THEN Changed(sfs_block_free(Z, b), f, [din EXCEPT !.direct[index] = 0])
      ELSE sfs_block_free(Put(Z, ent, {index - NDirect}, 0), b)

sfs_bmap_truncate(Z, f) ==
  LET Y == sfs_bmap_free(Z, f, Z.din[f].blocks - 1)
  IN  Changed(Y, f, [Y.din[f] EXCEPT !.blocks = @ - 1])

-----------------------------------------------------------------------------
(* Open files.                                                             *)

Ready == call = None /\ fs.oops = "no"

Users(f)  == {d \in Fd : fd[d].file = f}
Loaded(f) == Users(f) # {}

(* The inode as the next user sees it.                                     *)
Din(f) == IF Loaded(f) THEN fs.din[f] ELSE disk[f]

Blocks(n) == (n + BlkSize - 1) \div BlkSize

(* sfs_truncfile of the file of d up to its loop.                          *)
Truncate(Z, d, f, len, op) ==
  IF Z.din[f].size = len
  THEN /\ fs' = Check(Z, Blocks(len) = Z.din[f].blocks, "assert")
       /\ call' = None
  ELSE /\ fs' = Z
       /\ call' = [None EXCEPT !.op = op, !.step = "trunc", !.d = d, !.end = len]

(* The inode is read from the disk unless it is in memory; with O_TRUNC or *)
(* O_CREAT the file is cut to nothing, which cannot fail.                  *)
vfs_open(d, f, trunc) ==
  LET Z == IF Loaded(f) THEN fs
           ELSE [fs EXCEPT !.din[f] = Din(f), !.dirty[f] = FALSE]
  IN  IF trunc THEN Truncate(Z, d, f, 0, "open")
               ELSE fs' = Z /\ call' = None

(* file_open; with O_APPEND the position is the end.                       *)
Open(d, f, trunc, append) ==
  /\ Ready
  /\ fd[d].file = NoFile
  /\ trunc /\ Careful => ~Loaded(f)
  /\ vfs_open(d, f, trunc)
  /\ fd' = [fd EXCEPT ![d] =
       [file |-> f, pos |-> IF append /\ ~trunc THEN Din(f).size ELSE 0]]
  /\ UNCHANGED disk

(* Fault: only a file that has grown is written back.                      *)
MustSync_IfGrown(f) == fs.dirty[f] /\ fs.din[f].size > disk[f].size

MustSync(f) == fs.dirty[f]

(* With the last user of the inode sfs_close writes it back and            *)
(* sfs_reclaim frees it.                                                   *)
vfs_close(d, f) ==
  IF Users(f) = {d}
  THEN /\ disk' = IF MustSync(f) THEN [disk EXCEPT ![f] = fs.din[f]] ELSE disk
       /\ fs' = [fs EXCEPT !.din[f] = EmptyInode, !.dirty[f] = FALSE]
  ELSE UNCHANGED <<disk, fs>>

(* file_close *)
Close(d) ==
  /\ Ready
  /\ fd[d].file # NoFile
  /\ vfs_close(d, fd[d].file)
  /\ fd' = [fd EXCEPT ![d] = [file |-> NoFile, pos |-> 0]]
  /\ UNCHANGED call

(* file_fsync *)
Fsync(d) ==
  /\ Ready
  /\ fd[d].file # NoFile /\ MustSync(fd[d].file)
  /\ disk' = [disk EXCEPT ![fd[d].file] = fs.din[fd[d].file]]
  /\ fs' = [fs EXCEPT !.dirty[fd[d].file] = FALSE]
  /\ UNCHANGED <<fd, call>>

(* file_dup, and dup_files in fork.                                        *)
Dup(d, e) ==
  /\ Ready
  /\ fd[d].file # NoFile /\ fd[e].file = NoFile
  /\ fd' = [fd EXCEPT ![e] = fd[d]]
  /\ UNCHANGED <<fs, disk, call>>

Smaller(a, b) == IF a < b THEN a ELSE b

(* Enough free blocks for f up to pos, as far as its inode goes, and for   *)
(* an indirect block.                                                      *)
RoomFor(f, pos) ==
  Smaller(Blocks(pos), NDirect + BlkNEntry) - fs.din[f].blocks + 1
    <= Cardinality(fs.freemap)

(* A position behind the end makes the file longer.                        *)
sfs_tryseek(d, f, pos) ==
  \/ /\ pos > fs.din[f].size
     /\ Careful => RoomFor(f, pos)
     /\ Truncate(fs, d, f, pos, "seek")
     /\ UNCHANGED fd
  \/ /\ pos <= fs.din[f].size
     /\ fd' = [fd EXCEPT ![d].pos = pos]
     /\ UNCHANGED <<fs, call>>

(* file_seek *)
Seek(d, pos) ==
  /\ Ready
  /\ fd[d].file # NoFile
  /\ sfs_tryseek(d, fd[d].file, pos)
  /\ UNCHANGED disk

(* The rest of sfs_truncfile: one block more or less, an error that leaves *)
(* the blocks it has got when the disk is full ...                         *)
TruncateTurn ==
  /\ call.step = "trunc" /\ fs.oops = "no"
  /\ LET f == fd[call.d].file
         n == fs.din[f].blocks
         t == Blocks(call.end)
     IN  \/ /\ n < t
            /\ \E L \in {sfs_bmap_load(fs, f, n)} :
                 /\ fs' = L.Z
                 /\ call' = IF L.ok THEN call ELSE None
         \/ /\ n > t
            /\ fs' = sfs_bmap_truncate(fs, f)
            /\ UNCHANGED call
  /\ UNCHANGED <<disk, fd>>

(* ... until the number is right.                                          *)
TruncateEnd ==
  /\ call.step = "trunc" /\ fs.oops = "no"
  /\ LET f == fd[call.d].file IN
     /\ fs.din[f].blocks = Blocks(call.end)
     /\ fs' = Changed(fs, f, [fs.din[f] EXCEPT !.size = call.end])
  /\ fd' = IF call.op = "seek" THEN [fd EXCEPT ![call.d].pos = call.end] ELSE fd
  /\ call' = None
  /\ UNCHANGED disk

-----------------------------------------------------------------------------
(* file_read and file_write, and sfs_io_nolock.                            *)

Io(d, op, n, v) ==
  /\ Ready
  /\ fd[d].file # NoFile
  /\ fd[d].pos < MaxFileSize
  /\ LET off  == fd[d].pos
         size == fs.din[fd[d].file].size
         end0 == Smaller(off + n, MaxFileSize)
         end  == IF op = "read" THEN Smaller(end0, size) ELSE end0
     IN  /\ op = "read" => off < size
         /\ call' = [None EXCEPT
              !.op = op, !.step = "head", !.d = d, !.off = off, !.len = n,
              !.end = end, !.blkno = off \div BlkSize, !.byte = v,
              !.nblks = (end \div BlkSize) - (off \div BlkSize)]
  /\ UNCHANGED <<fs, disk, fd>>

(* sfs_buf_op or sfs_block_op on size bytes of block blkno from blkoff, in *)
(* the block that sfs_bmap_load_nolock finds; without one, the call ends.  *)
Transfer(blkoff, size, next) ==
  \E L \in {sfs_bmap_load(fs, fd[call.d].file, call.blkno)} :
    LET cells == blkoff..(blkoff + size - 1)
        read  == [k \in 1..size |-> fs.data[L.ino][blkoff + k - 1]]
    IN  /\ fs' = IF L.ok /\ call.op = "write"
                 THEN Put(L.Z, L.ino, cells, call.byte) ELSE L.Z
        /\ call' = IF ~L.ok THEN [call EXCEPT !.step = "out"]
                   ELSE [next EXCEPT
                           !.alen = @ + size,
                           !.got = IF call.op = "read" THEN @ \o read ELSE @]

(* Fault: the first part always goes to the end of its block.              *)
HeadSize_WholeBlock == BlkSize - (call.off % BlkSize)

HeadSize ==
  IF call.nblks # 0 THEN BlkSize - (call.off % BlkSize) ELSE call.end - call.off

NextBlock == [call EXCEPT !.step = "body", !.blkno = @ + 1, !.nblks = @ - 1]

IoHead ==
  /\ call.step = "head" /\ fs.oops = "no"
  /\ \/ /\ call.off % BlkSize = 0
        /\ call' = [call EXCEPT !.step = "body"]
        /\ UNCHANGED fs
     \/ /\ call.off % BlkSize # 0
        /\ Transfer(call.off % BlkSize, HeadSize,
                    IF call.nblks = 0 THEN [call EXCEPT !.step = "out"]
                                      ELSE NextBlock)
  /\ UNCHANGED <<disk, fd>>

IoBody ==
  /\ call.step = "body" /\ fs.oops = "no"
  /\ \/ /\ call.nblks = 0
        /\ call' = [call EXCEPT !.step = "tail"]
        /\ UNCHANGED fs
     \/ call.nblks # 0 /\ Transfer(0, BlkSize, NextBlock)
  /\ UNCHANGED <<disk, fd>>

TailSize == call.end % BlkSize

IoTail ==
  /\ call.step = "tail" /\ fs.oops = "no"
  /\ \/ /\ TailSize = 0
        /\ call' = [call EXCEPT !.step = "out"]
        /\ UNCHANGED fs
     \/ TailSize # 0 /\ Transfer(0, TailSize, [call EXCEPT !.step = "out"])
  /\ UNCHANGED <<disk, fd>>

(* file_read and file_write move the position by what was copied.          *)
Moved(d, copied) == [fd EXCEPT ![d].pos = @ + copied]

(* The end of sfs_io_nolock, and what its callers do then.                 *)
IoOut ==
  /\ call.step = "out" /\ fs.oops = "no"
  /\ LET f == fd[call.d].file
         p == call.off + call.alen
     IN  /\ fs' = IF p > fs.din[f].size
                  THEN Changed(fs, f, [fs.din[f] EXCEPT !.size = p])
                  ELSE fs
         /\ fd' = Moved(call.d, call.alen)
  /\ call' = None
  /\ UNCHANGED disk

-----------------------------------------------------------------------------

Next ==
  \/ \E d \in Fd, f \in File, trunc, append \in BOOLEAN : Open(d, f, trunc, append)
  \/ \E d \in Fd : Close(d) \/ Fsync(d)
  \/ \E d, e \in Fd : Dup(d, e)
  \/ \E d \in Fd, pos \in Positions : Seek(d, pos)
  \/ TruncateTurn \/ TruncateEnd
  \/ \E d \in Fd, n \in Lengths : Io(d, "read", n, 0) \/ Io(d, "write", n, 1)
  \/ IoHead \/ IoBody \/ IoTail \/ IoOut

Spec == Init /\ [][Next]_vars

-----------------------------------------------------------------------------

Entries(f) ==
  [i \in 0..(NDirect + BlkNEntry - 1) |->
     IF i < NDirect THEN Din(f).direct[i]
     ELSE IF Din(f).indirect = 0 THEN 0
     ELSE fs.data[Din(f).indirect][i - NDirect]]

(* The file that d is cutting to nothing has no content any more.          *)
Size(f) ==
  IF call.op = "open" /\ fd[call.d].file = f THEN 0 ELSE Din(f).size

Content(f) ==
  [k \in 1..Size(f) |->
     LET b == Entries(f)[(k - 1) \div BlkSize]
     IN  IF b = 0 THEN -1 ELSE fs.data[b][(k - 1) % BlkSize]]

(* Between two calls every block is free or belongs to exactly one place   *)
(* of one file, a file has the blocks for its size and no others, and      *)
(* super.unused_blocks is the number of free ones: disk full errors in the *)
(* middle of a write, the indirect block and the write-back of inodes      *)
(* included.                                                               *)
BlocksExact ==
  /\ TypeOK
  /\ call = None /\ fs.oops = "no" =>
     LET places == {<<f, i>> : f \in File, i \in 0..(NDirect + BlkNEntry)}
         at(p) == IF p[2] = NDirect + BlkNEntry THEN Din(p[1]).indirect
                                              ELSE Entries(p[1])[p[2]]
         used == {p \in places : at(p) # 0}
     IN  /\ \A p, q \in used : at(p) = at(q) => p = q
         /\ {at(p) : p \in used} = Blk \ fs.freemap
         /\ fs.unused = Cardinality(fs.freemap)
         /\ \A f \in File :
              /\ Din(f).blocks = Blocks(Din(f).size)
              /\ \A i \in DOMAIN Entries(f) :
                   i < Din(f).blocks <=> Entries(f)[i] # 0

(* Programs that truncate no file that is open elsewhere and seek no       *)
(* further than the disk has room (Careful) stop the kernel in one way     *)
(* only: SFS_MAX_FILE_SIZE lets a file grow beyond what its inode can      *)
(* address, and a write or a seek that needs one block more than a file    *)
(* with all its direct and indirect blocks meets the panic of              *)
(* sfs_bmap_get_nolock.  No history, full disks included, fails an assert  *)
(* of sfs_bmap_load_nolock, sfs_block_alloc, sfs_block_free or             *)
(* sfs_truncfile, or that panic for a file that has room in its inode.     *)
StopsOnlyIfTooLarge ==
  fs.oops # "no" =>
    /\ fs.oops = "range"
    /\ \E f \in File : Loaded(f) /\ fs.din[f].blocks = NDirect + BlkNEntry

(* A write finds the block behind the last one at most: the first assert   *)
(* of sfs_bmap_load_nolock.                                                *)
NoHole == fs.oops # "hole"

Abstract == INSTANCE ByteFiles
  WITH content <- [f \in File |-> Content(f)],
       Byte <- {1}, MaxLen <- MaxFileSize

(* Block map, partial blocks at both ends, truncation and write-back       *)
(* together implement files that are sequences of bytes.                   *)
IsByteFile == Abstract!Spec

(* file_read returns the bytes of the file from pos on, no more than there *)
(* are and no fewer.                                                       *)
ReadsBack ==
  call.op = "read" /\ call.step = "out" =>
    LET c == Content(fd[call.d].file)
    IN  call.got = SubSeq(c, call.off + 1,
                          Smaller(call.off + call.len, Len(c)))

=============================================================================
