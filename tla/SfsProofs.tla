----------------------------- MODULE SfsProofs -----------------------------
(***************************************************************************)
(* Proofs about Sfs, for any number of files, descriptors and blocks, any  *)
(* size of a block and any number of direct blocks, when programs truncate *)
(* no file that is open elsewhere and seek no further than the disk has    *)
(* room: every block that is not free is at exactly one place of one file, *)
(* the kernel stops only for a file that has no room in its inode left, a  *)
(* read returns the bytes that are in the file, and the blocks on the disk *)
(* implement the files of bytes of ByteFiles.                              *)
(***************************************************************************)
EXTENDS Sfs, ListProofs, FiniteSetTheorems

-----------------------------------------------------------------------------
(* Which block is where.                                                   *)

(* The places of a file that hold the number of a block: direct blocks,    *)
(* the entries of the indirect block, and the indirect block itself.       *)
Top == NDirect + BlkNEntry
Idx == 0..Top

(* The entries of an indirect block.                                       *)
Slot == 0..(BlkNEntry - 1)

At(din, data, i) ==
  IF i = Top THEN din.indirect
  ELSE IF i < NDirect THEN din.direct[i]
  ELSE IF din.indirect = 0 THEN 0 ELSE data[din.indirect][i - NDirect]

Map(D, data) == [f \in File |-> [i \in Idx |-> At(D[f], data, i)]]

(* Every block that is not free is at exactly one place.                   *)
Exact(P, free) ==
  /\ P \in [File -> [Idx -> {0} \cup Blk]] /\ free \subseteq Blk
  /\ \A f, g \in File : \A i, j \in Idx :
       P[f][i] # 0 /\ P[f][i] = P[g][j] => f = g /\ i = j
  /\ \A f \in File : \A i \in Idx : P[f][i] \notin free
  /\ \A b \in Blk \ free : \E f \in File : \E i \in Idx : P[f][i] = b

(* A file has the blocks that it counts.                                   *)
Filled(P, D) ==
  \A f \in File :
    /\ D[f].blocks \in 0..Top
    /\ \A i \in Idx : i < Top => (i < D[f].blocks <=> P[f][i] # 0)

-----------------------------------------------------------------------------
(* The inductive invariant.                                                *)

FsType ==
  [freemap : SUBSET Blk, unused : 0..NBlock, data : [Blk -> [Cell -> Nat]],
   din : [File -> Inode], dirty : [File -> BOOLEAN],
   oops : {"no", "assert", "hole", "range"}]

CallType ==
  [op : {"none", "read", "write", "open", "seek"},
   step : {"none", "head", "body", "tail", "out", "trunc"},
   d : Fd \cup {NoFile}, off : Nat, len : Nat, end : Nat, blkno : Nat,
   nblks : Nat, alen : Nat, byte : Nat, got : Seq(Nat)]

Types ==
  /\ fs \in FsType /\ disk \in [File -> Inode]
  /\ fd \in [Fd -> [file : File \cup {NoFile}, pos : 0..MaxFileSize]]
  /\ call \in CallType

View  == [f \in File |-> Din(f)]
Where == Map(View, fs.data)

(* The file of the call, and how far a read or write has come.             *)
InIo   == call.step \in {"head", "body", "tail", "out"}
Target == fd[call.d].file
Reach  == call.off + call.alen

Larger(a, b) == IF a < b THEN b ELSE a

(* The bytes of f that blocks are there for.                               *)
Extent(f) == IF InIo /\ Target = f THEN Larger(Din(f).size, Reach) ELSE Din(f).size

SizesFit ==
  \A f \in File :
    /\ Din(f).size <= MaxFileSize
    /\ ~(call.step = "trunc" /\ Target = f) => Din(f).blocks = Blocks(Extent(f))

PositionsFit ==
  \A d \in Fd : fd[d].file # NoFile => fd[d].pos <= View[fd[d].file].size

(* What sfs_close does not write back is on the disk.                      *)
Synced ==
  \A f \in File :
    Loaded(f) /\ ~fs.dirty[f] =>
      \/ disk[f] = fs.din[f]
      \/ call.step = "trunc" /\ Target = f
      \/ InIo /\ Target = f /\ Reach > fs.din[f].size

(* Where sfs_io_nolock is ...                                              *)
IoFits ==
  InIo =>
    /\ call.op \in {"read", "write"} /\ call.d \in Fd /\ Target # NoFile
    /\ call.off = fd[call.d].pos
    /\ Reach <= call.end /\ call.end <= MaxFileSize /\ call.off < call.end
    /\ call.op = "read" => call.end = Smaller(call.off + call.len, View[Target].size)
    /\ call.step = "head" => /\ call.alen = 0 /\ call.blkno = call.off \div BlkSize
                             /\ call.nblks + call.blkno = call.end \div BlkSize
    /\ call.step = "body" => /\ Reach = BlkSize * call.blkno
                             /\ call.nblks + call.blkno = call.end \div BlkSize
    /\ call.step = "tail" => /\ Reach = BlkSize * call.blkno
                             /\ call.blkno = call.end \div BlkSize
    /\ call.step = "out" /\ call.op = "read" => Reach = call.end

(* An indirect block may be needed on top of the others.                   *)
Need(din) == IF din.indirect = 0 THEN 1 ELSE 0

(* ... and sfs_truncfile, which has the blocks that it needs.              *)
TruncFits ==
  call.step = "trunc" =>
    /\ call.d \in Fd /\ Target # NoFile /\ call.end <= MaxFileSize
    /\ \/ /\ call.op = "open" /\ call.end = 0 /\ fd[call.d].pos = 0
          /\ \A d \in Fd : fd[d].file = Target => d = call.d
       \/ /\ call.op = "seek" /\ View[Target].size < call.end
          /\ View[Target].blocks >= Blocks(View[Target].size)
          /\ Smaller(Blocks(call.end), Top) + Need(View[Target]) <= fs.unused + View[Target].blocks

(* Blocks, files and the count of free blocks agree.                       *)
Layout ==
  /\ Exact(Where, fs.freemap) /\ Filled(Where, View)
  /\ fs.unused = Cardinality(fs.freemap)

BlocksFit ==
  /\ Layout
  /\ call.step = "none" => call = None
  /\ SizesFit /\ PositionsFit /\ Synced /\ IoFits /\ TruncFits

(* The one way to stop the kernel is a file with more blocks than an inode *)
(* can address.                                                            *)
SfsInv ==
  /\ Types /\ fs.oops \in {"no", "range"}
  /\ fs.oops = "range" => /\ BlkSize * Top < MaxFileSize
                          /\ \E f \in File : Loaded(f) /\ fs.din[f].blocks = Top
  /\ fs.oops = "no" => BlocksFit

-----------------------------------------------------------------------------
(* The bytes.                                                              *)

Byte(f, k) == fs.data[Where[f][k \div BlkSize]][k % BlkSize]

(* Behind the end of a file its last block is empty ...                    *)
ZeroBehind ==
  \A f \in File : \A k \in Nat :
    Extent(f) <= k /\ k < BlkSize * Din(f).blocks => Byte(f, k) = 0

(* ... what a write has done so far is in the blocks, and what a read has  *)
(* done in its buffer.                                                     *)
IoDone ==
  InIo =>
    IF call.op = "write"
    THEN /\ call.byte = 1
         /\ \A k \in Nat : call.off <= k /\ k < Reach => Byte(Target, k) = call.byte
    ELSE /\ Len(call.got) = call.alen
         /\ \A k \in 1..call.alen : call.got[k] = Byte(Target, call.off + k - 1)

(* Only a write or a seek stops the kernel.                                *)
BytesInv ==
  /\ SfsInv
  /\ fs.oops = "no" => ZeroBehind /\ IoDone
  /\ fs.oops # "no" => call.op # "read"

-----------------------------------------------------------------------------
(* Numbers.                                                                *)

(* The constants, as the proofs use them.                                  *)
LEMMA Consts ==
  /\ NBlock \in Nat \ {0} /\ BlkSize \in Nat \ {0} /\ NDirect \in Nat
  /\ BlkNEntry \in Nat \ {0} /\ BlkNEntry <= BlkSize
  /\ MaxFileSize \in Nat \ {0} /\ Top \in Nat /\ Top = NDirect + BlkNEntry
  /\ 0 \notin Blk /\ Blk \subseteq Nat /\ Cell \subseteq Nat
BY SizeAssumption DEF Top, Blk, Cell

(* Quotient and remainder.                                                 *)
LEMMA DivMod ==
  ASSUME NEW x \in Nat
  PROVE  /\ x = BlkSize * (x \div BlkSize) + (x % BlkSize)
         /\ x % BlkSize \in Cell /\ x \div BlkSize \in Nat
BY Consts DEF Cell

(* Multiples of the size of a block are ordered as their factors.          *)
LEMMA MultLess ==
  ASSUME NEW a \in Int, NEW b \in Int
  PROVE  /\ a < b <=> BlkSize * a < BlkSize * b
         /\ a < b => BlkSize * a + BlkSize <= BlkSize * b
BY Consts

(* The quotient is the only number with its property.                      *)
LEMMA DivIs ==
  ASSUME NEW x \in Nat, NEW q \in Int, BlkSize * q <= x, x < BlkSize * q + BlkSize
  PROVE  x \div BlkSize = q /\ x % BlkSize = x - BlkSize * q
BY Consts, DivMod, MultLess DEF Cell

(* Blocks(n) blocks are enough for n bytes, and one less is not.           *)
LEMMA BlocksIs ==
  ASSUME NEW n \in Nat
  PROVE  /\ Blocks(n) \in Nat
         /\ n <= BlkSize * Blocks(n) /\ BlkSize * Blocks(n) < n + BlkSize
         /\ \A t \in Nat : n <= BlkSize * t /\ BlkSize * t < n + BlkSize => t = Blocks(n)
         /\ \A t \in Nat : n <= BlkSize * t <=> Blocks(n) <= t
<1>1. n + BlkSize - 1 \in Nat
  BY Consts
<1>2. /\ n + BlkSize - 1 = BlkSize * Blocks(n) + ((n + BlkSize - 1) % BlkSize)
      /\ (n + BlkSize - 1) % BlkSize \in Cell /\ Blocks(n) \in Nat
  BY <1>1, DivMod DEF Blocks
<1>3. n <= BlkSize * Blocks(n) /\ BlkSize * Blocks(n) < n + BlkSize
  BY <1>2, Consts DEF Cell
<1>4. ASSUME NEW t \in Nat
      PROVE  n <= BlkSize * t <=> Blocks(n) <= t
  BY <1>2, <1>3, MultLess, Consts
<1>5. ASSUME NEW t \in Nat, n <= BlkSize * t, BlkSize * t < n + BlkSize
      PROVE  t = Blocks(n)
  <2>1. Blocks(n) <= t
    BY <1>4, <1>5
  <2>2. ~(Blocks(n) < t)
    BY <1>2, <1>3, <1>5, MultLess, Consts
  <2> QED BY <2>1, <2>2, <1>2
<1> QED BY <1>2, <1>3, <1>4, <1>5

-----------------------------------------------------------------------------
(* Blocks that are taken and given back.                                   *)

SetAt(P, f, i, b) == [P EXCEPT ![f][i] = b]

(* What a place holds after one has changed.                               *)
LEMMA SetAtIs ==
  ASSUME NEW P \in [File -> [Idx -> {0} \cup Blk]], NEW f \in File, NEW i \in Idx,
         NEW b \in {0} \cup Blk
  PROVE  /\ SetAt(P, f, i, b) \in [File -> [Idx -> {0} \cup Blk]]
         /\ \A g \in File : \A j \in Idx :
              SetAt(P, f, i, b)[g][j] = IF g = f /\ j = i THEN b ELSE P[g][j]
BY DEF SetAt

(* A free block that goes to an empty place.                               *)
LEMMA TakeExact ==
  ASSUME NEW P, NEW free, Exact(P, free), NEW f \in File, NEW i \in Idx, P[f][i] = 0,
         NEW b \in free
  PROVE  Exact(SetAt(P, f, i, b), free \ {b})
<1> DEFINE Q == SetAt(P, f, i, b)
<1>1. b \in Blk /\ b \in {0} \cup Blk /\ b # 0 /\ P \in [File -> [Idx -> {0} \cup Blk]] /\ free \subseteq Blk
  BY Consts DEF Exact
<1>2. /\ Q \in [File -> [Idx -> {0} \cup Blk]]
      /\ \A g \in File : \A j \in Idx : Q[g][j] = IF g = f /\ j = i THEN b ELSE P[g][j]
  BY <1>1, SetAtIs
<1> HIDE DEF Q
<1>3. \A g \in File : \A j \in Idx : P[g][j] # b
  BY DEF Exact
<1>4. \A g, h \in File : \A j, k \in Idx : Q[g][j] # 0 /\ Q[g][j] = Q[h][k] => g = h /\ j = k
  BY <1>2, <1>3, <1>1 DEF Exact
<1>5. \A g \in File : \A j \in Idx : Q[g][j] \notin free \ {b}
  BY <1>2 DEF Exact
<1>6. ASSUME NEW c \in Blk \ (free \ {b})
      PROVE  \E g \in File : \E j \in Idx : Q[g][j] = c
  <2>1. CASE c = b
    BY <2>1, <1>2
  <2>2. CASE c # b
    <3>1. PICK g \in File, j \in Idx : P[g][j] = c
      BY <2>2 DEF Exact
    <3>2. ~(g = f /\ j = i)
      BY <3>1, Consts
    <3> QED BY <3>1, <3>2, <1>2
  <2> QED BY <2>1, <2>2
<1>7. Exact(Q, free \ {b})
  BY <1>1, <1>2, <1>4, <1>5, <1>6 DEF Exact
<1> QED BY <1>7 DEF Q

(* A place that gives its block back.                                      *)
LEMMA DropExact ==
  ASSUME NEW P, NEW free, Exact(P, free), NEW f \in File, NEW i \in Idx, P[f][i] # 0
  PROVE  P[f][i] \in Blk \ free /\ Exact(SetAt(P, f, i, 0), free \cup {P[f][i]})
<1> DEFINE Q == SetAt(P, f, i, 0)
           b == P[f][i]
<1>1. b \in Blk \ free /\ P \in [File -> [Idx -> {0} \cup Blk]] /\ free \subseteq Blk
  BY DEF Exact
<1>2. /\ Q \in [File -> [Idx -> {0} \cup Blk]]
      /\ \A g \in File : \A j \in Idx : Q[g][j] = IF g = f /\ j = i THEN 0 ELSE P[g][j]
  <2>1. 0 \in {0} \cup Blk
    OBVIOUS
  <2> QED BY <1>1, <2>1, SetAtIs
<1> HIDE DEF Q
<1>4. \A g, h \in File : \A j, k \in Idx : Q[g][j] # 0 /\ Q[g][j] = Q[h][k] => g = h /\ j = k
  BY <1>2, <1>1 DEF Exact
<1>5. \A g \in File : \A j \in Idx : Q[g][j] \notin free \cup {b}
  <2> SUFFICES ASSUME NEW g \in File, NEW j \in Idx PROVE Q[g][j] \notin free \cup {b}
    OBVIOUS
  <2>1. 0 \notin free \cup {b}
    BY <1>1, Consts
  <2>2. P[g][j] = b => g = f /\ j = i
    BY <1>1, Consts DEF Exact
  <2>3. P[g][j] \notin free
    BY DEF Exact
  <2> QED BY <2>1, <2>2, <2>3, <1>2
<1>6. ASSUME NEW c \in Blk \ (free \cup {b})
      PROVE  \E g \in File : \E j \in Idx : Q[g][j] = c
  <2>1. PICK g \in File, j \in Idx : P[g][j] = c
    BY DEF Exact
  <2> QED BY <2>1, <1>2
<1>7. Exact(Q, free \cup {b})
  BY <1>1, <1>2, <1>4, <1>5, <1>6 DEF Exact
<1> QED BY <1>1, <1>7 DEF Q

-----------------------------------------------------------------------------
(* What sfs_bmap_get and sfs_bmap_load write into inodes and blocks.       *)
WithDirect(din, n, b)  == [din EXCEPT !.direct[n] = b]
WithIndirect(din, e)   == [din EXCEPT !.indirect = e]
WithEntry(block, j, b) == Overwritten(block, {j}, b)
PutEntry(Z, e, j, b)   == Put(Z, e, {j}, b)
Counted(Z, f)          == [Z EXCEPT !.din[f].blocks = @ + 1]

-----------------------------------------------------------------------------
(* How the places follow from inodes and blocks.                           *)

Inodes == [File -> Inode]
Datas  == [Blk -> [Cell -> Nat]]

(* The places of one file.                                                 *)
LEMMA MapIs ==
  ASSUME NEW D \in Inodes, NEW data \in Datas, NEW f \in File
  PROVE  /\ D[f] \in Inode /\ D[f].size \in Nat /\ D[f].blocks \in Nat
         /\ D[f].indirect \in {0} \cup Blk
         /\ D[f].direct \in [0..(NDirect - 1) -> {0} \cup Blk]
         /\ Map(D, data)[f][Top] = D[f].indirect
         /\ \A i \in Idx : i < NDirect => Map(D, data)[f][i] = D[f].direct[i]
         /\ \A i \in Idx : i >= NDirect /\ i < Top =>
              Map(D, data)[f][i] = IF D[f].indirect = 0 THEN 0
                                   ELSE data[D[f].indirect][i - NDirect]
<1>1. /\ D[f] \in Inode /\ D[f].size \in Nat /\ D[f].blocks \in Nat
      /\ D[f].indirect \in {0} \cup Blk
      /\ D[f].direct \in [0..(NDirect - 1) -> {0} \cup Blk]
  BY DEF Inodes, Inode
<1>2. \A i \in Idx : Map(D, data)[f][i] = At(D[f], data, i)
  BY DEF Map
<1>3. Top \in Idx /\ \A i \in Idx : i < NDirect => i # Top
  BY Consts DEF Idx
<1>4. \A i \in Idx : i >= NDirect /\ i < Top => i # Top /\ ~(i < NDirect)
  BY Consts DEF Idx
<1>5. Map(D, data)[f][Top] = D[f].indirect
  BY <1>2, <1>3 DEF At
<1>6. \A i \in Idx : i < NDirect => Map(D, data)[f][i] = D[f].direct[i]
  BY <1>2, <1>3 DEF At
<1>7. \A i \in Idx : i >= NDirect /\ i < Top =>
        Map(D, data)[f][i] = IF D[f].indirect = 0 THEN 0 ELSE data[D[f].indirect][i - NDirect]
  BY <1>2, <1>4 DEF At
<1> QED BY <1>1, <1>5, <1>6, <1>7

(* Whatever keeps the inodes and the indirect blocks keeps the places.     *)
LEMMA SameMap ==
  ASSUME NEW D \in Inodes, NEW C \in Inodes, NEW data \in Datas, NEW dat2 \in Datas,
         \A f \in File : /\ C[f].indirect = D[f].indirect
                         /\ C[f].direct = D[f].direct
                         /\ D[f].indirect # 0 =>
                              dat2[D[f].indirect] = data[D[f].indirect]
  PROVE  Map(C, dat2) = Map(D, data)
<1> SUFFICES ASSUME NEW f \in File, NEW i \in Idx
             PROVE  At(C[f], dat2, i) = At(D[f], data, i)
  BY Zenon DEF Map
<1> QED BY DEF At

(* One more direct block.                                                  *)
LEMMA DirectMap ==
  ASSUME NEW D \in Inodes, NEW C \in Inodes, NEW data \in Datas, NEW dat2 \in Datas,
         NEW f \in File, NEW i \in 0..(NDirect - 1), NEW b \in {0} \cup Blk,
         \A g \in File : C[g].indirect = D[g].indirect,
         \A g \in File \ {f} : C[g].direct = D[g].direct,
         C[f].direct[i] = b,
         \A j \in 0..(NDirect - 1) : j # i => C[f].direct[j] = D[f].direct[j],
         \A g \in File : D[g].indirect # 0 => dat2[D[g].indirect] = data[D[g].indirect],
         Map(D, data) \in [File -> [Idx -> {0} \cup Blk]]
  PROVE  Map(C, dat2) = SetAt(Map(D, data), f, i, b) /\ i \in Idx
<1>1. i \in Idx /\ i # Top /\ i < NDirect
  BY Consts DEF Idx
<1>2. ASSUME NEW g \in File, NEW j \in Idx
      PROVE  At(C[g], dat2, j) = IF g = f /\ j = i THEN b ELSE At(D[g], data, j)
  <2>1. CASE g # f
    BY <2>1 DEF At
  <2>2. CASE g = f
    <3>1. D[f].direct \in [0..(NDirect - 1) -> {0} \cup Blk]
      BY MapIs
    <3>2. j < NDirect => j \in 0..(NDirect - 1)
      BY Consts DEF Idx
    <3>3. j < NDirect => C[f].direct[j] = IF j = i THEN b ELSE D[f].direct[j]
      BY <3>2
    <3> QED BY <2>2, <3>3, <1>1 DEF At
  <2> QED BY <2>1, <2>2
<1>3. \A g \in File : \A j \in Idx :
        SetAt(Map(D, data), f, i, b)[g][j]
          = IF g = f /\ j = i THEN b ELSE Map(D, data)[g][j]
  BY <1>1, SetAtIs
<1>4. \A g \in File : \A j \in Idx : SetAt(Map(D, data), f, i, b)[g][j] = Map(C, dat2)[g][j]
  BY <1>2, <1>3 DEF Map
<1>5. SetAt(Map(D, data), f, i, b) \in [File -> [Idx -> {0} \cup Blk]]
  BY <1>1, SetAtIs
<1>6. Map(C, dat2) = [g \in File |-> [j \in Idx |-> Map(C, dat2)[g][j]]]
  BY Zenon DEF Map
<1>7. SetAt(Map(D, data), f, i, b)
        = [g \in File |-> [j \in Idx |-> SetAt(Map(D, data), f, i, b)[g][j]]]
  BY <1>5
<1> QED BY <1>1, <1>4, <1>6, <1>7

(* The same, with the facts in one.                                        *)
DirectSet(D, C, data, dat2, f, i, b) ==
  /\ D \in Inodes /\ C \in Inodes /\ data \in Datas /\ dat2 \in Datas /\ f \in File
  /\ i \in 0..(NDirect - 1) /\ b \in {0} \cup Blk
  /\ \A g \in File : C[g].indirect = D[g].indirect
  /\ \A g \in File \ {f} : C[g].direct = D[g].direct
  /\ C[f].direct[i] = b
  /\ \A j \in 0..(NDirect - 1) : j # i => C[f].direct[j] = D[f].direct[j]
  /\ \A g \in File : D[g].indirect # 0 => dat2[D[g].indirect] = data[D[g].indirect]
  /\ Map(D, data) \in [File -> [Idx -> {0} \cup Blk]]

(* Setting a direct block changes one place of one file.                   *)
LEMMA DirectSetMap ==
  ASSUME NEW D, NEW C, NEW data, NEW dat2, NEW f, NEW i, NEW b,
         DirectSet(D, C, data, dat2, f, i, b)
  PROVE  Map(C, dat2) = SetAt(Map(D, data), f, i, b)
BY DirectMap DEF DirectSet

(* Two maps with the same places are equal.                                *)
LEMMA MapsEqual ==
  ASSUME NEW P \in [File -> [Idx -> {0} \cup Blk]], NEW f \in File, NEW i \in Idx,
         NEW b \in {0} \cup Blk, NEW C, NEW dat2,
         \A g \in File : \A j \in Idx :
           At(C[g], dat2, j) = IF g = f /\ j = i THEN b ELSE P[g][j]
  PROVE  Map(C, dat2) = SetAt(P, f, i, b)
<1>1. /\ SetAt(P, f, i, b) \in [File -> [Idx -> {0} \cup Blk]]
      /\ \A g \in File : \A j \in Idx :
           SetAt(P, f, i, b)[g][j] = IF g = f /\ j = i THEN b ELSE P[g][j]
  BY SetAtIs
<1>2. \A g \in File : \A j \in Idx : SetAt(P, f, i, b)[g][j] = At(C[g], dat2, j)
  BY <1>1
<1>3. SetAt(P, f, i, b) = [g \in File |-> [j \in Idx |-> SetAt(P, f, i, b)[g][j]]]
  BY <1>1
<1> QED BY <1>2, <1>3 DEF Map

(* The place of an entry of the indirect block.                            *)
EntryAt(j) == NDirect + j

(* Another number in the indirect block.                                   *)
LEMMA EntryMap ==
  ASSUME NEW D \in Inodes, NEW C \in Inodes, NEW data \in Datas, NEW dat2 \in Datas,
         NEW f \in File, NEW i \in Slot, NEW b \in {0} \cup Blk,
         \A g \in File : C[g].indirect = D[g].indirect /\ C[g].direct = D[g].direct,
         D[f].indirect # 0,
         dat2[D[f].indirect] = WithEntry(data[D[f].indirect], i, b),
         \A g \in File \ {f} :
           D[g].indirect # 0 => dat2[D[g].indirect] = data[D[g].indirect],
         Map(D, data) \in [File -> [Idx -> {0} \cup Blk]]
  PROVE  Map(C, dat2) = SetAt(Map(D, data), f, EntryAt(i), b) /\ EntryAt(i) \in Idx
<1>1. NDirect + i \in Idx /\ NDirect + i # Top /\ ~(NDirect + i < NDirect)
  BY Consts DEF Idx, Slot
<1>2. ASSUME NEW g \in File, NEW j \in Idx
      PROVE  At(C[g], dat2, j) = IF g = f /\ j = NDirect + i THEN b ELSE At(D[g], data, j)
  <2>1. CASE g # f
    BY <2>1 DEF At
  <2>2. CASE g = f
    <3>1. j # Top /\ ~(j < NDirect) => j - NDirect \in Cell /\ (j - NDirect = i <=> j = NDirect + i)
      BY Consts DEF Idx, Cell, Slot
    <3>2. j # Top /\ ~(j < NDirect) =>
            dat2[D[f].indirect][j - NDirect]
              = IF j - NDirect = i THEN b ELSE data[D[f].indirect][j - NDirect]
      BY <3>1 DEF WithEntry, Overwritten
    <3> QED BY <2>2, <3>1, <3>2, <1>1 DEF At
  <2> QED BY <2>1, <2>2
<1>3. \A g \in File : \A j \in Idx : Map(D, data)[g][j] = At(D[g], data, j)
  BY DEF Map
<1>4. \A g \in File : \A j \in Idx :
        At(C[g], dat2, j) = IF g = f /\ j = NDirect + i THEN b ELSE Map(D, data)[g][j]
  BY <1>2, <1>3
<1> QED BY <1>1, <1>4, MapsEqual DEF EntryAt

(* The same, with the facts in one.                                        *)
EntrySet(C, data, dat2, f, i, b) ==
  /\ C \in Inodes /\ data \in Datas /\ dat2 \in Datas /\ f \in File /\ i \in Slot
  /\ b \in {0} \cup Blk /\ C[f].indirect # 0
  /\ dat2[C[f].indirect] = WithEntry(data[C[f].indirect], i, b)
  /\ \A g \in File \ {f} :
       C[g].indirect # 0 => dat2[C[g].indirect] = data[C[g].indirect]
  /\ Map(C, data) \in [File -> [Idx -> {0} \cup Blk]]

(* Setting an entry of the indirect block changes one place of one file.   *)
LEMMA EntrySetMap ==
  ASSUME NEW C, NEW data, NEW dat2, NEW f, NEW i, NEW b, EntrySet(C, data, dat2, f, i, b)
  PROVE  Map(C, dat2) = SetAt(Map(C, data), f, EntryAt(i), b)
BY EntryMap DEF EntrySet

(* A new indirect block, which is empty.                                   *)
LEMMA IndirectMap ==
  ASSUME NEW D \in Inodes, NEW C \in Inodes, NEW data \in Datas, NEW dat2 \in Datas,
         NEW f \in File, NEW b \in Blk,
         D[f].indirect = 0, C[f].indirect = b, dat2[b] = ZeroBlock,
         \A g \in File : C[g].direct = D[g].direct,
         \A g \in File \ {f} :
           /\ C[g].indirect = D[g].indirect
           /\ D[g].indirect # 0 => dat2[D[g].indirect] = data[D[g].indirect],
         Map(D, data) \in [File -> [Idx -> {0} \cup Blk]]
  PROVE  Map(C, dat2) = SetAt(Map(D, data), f, Top, b) /\ Top \in Idx
<1>1. Top \in Idx /\ b # 0
  BY Consts DEF Idx
<1>2. ASSUME NEW g \in File, NEW j \in Idx
      PROVE  At(C[g], dat2, j) = IF g = f /\ j = Top THEN b ELSE At(D[g], data, j)
  <2>1. CASE g # f
    BY <2>1 DEF At
  <2>2. CASE g = f
    <3>1. j # Top /\ ~(j < NDirect) => j - NDirect \in Cell
      BY Consts DEF Idx, Cell
    <3>2. j # Top /\ ~(j < NDirect) => dat2[b][j - NDirect] = 0
      BY <3>1 DEF ZeroBlock
    <3> QED BY <2>2, <3>2, <1>1 DEF At
  <2> QED BY <2>1, <2>2
<1>3. \A g \in File : \A j \in Idx : Map(D, data)[g][j] = At(D[g], data, j)
  BY DEF Map
<1>4. \A g \in File : \A j \in Idx :
        At(C[g], dat2, j) = IF g = f /\ j = Top THEN b ELSE Map(D, data)[g][j]
  BY <1>2, <1>3
<1>5. PICK P : P = Map(D, data)
  OBVIOUS
<1>6. /\ P \in [File -> [Idx -> {0} \cup Blk]] /\ b \in {0} \cup Blk
      /\ \A g \in File : \A j \in Idx :
           At(C[g], dat2, j) = IF g = f /\ j = Top THEN b ELSE P[g][j]
  BY <1>4, <1>5
<1>7. Map(C, dat2) = SetAt(P, f, Top, b)
  BY <1>1, <1>6, MapsEqual
<1> QED BY <1>1, <1>5, <1>7

(* The same, with the facts in one.                                        *)
IndirectSet(D, C, data, dat2, f, b) ==
  /\ D \in Inodes /\ C \in Inodes /\ data \in Datas /\ dat2 \in Datas /\ f \in File
  /\ b \in Blk /\ D[f].indirect = 0 /\ C[f].indirect = b /\ dat2[b] = ZeroBlock
  /\ \A g \in File : C[g].direct = D[g].direct
  /\ \A g \in File \ {f} :
       /\ C[g].indirect = D[g].indirect
       /\ D[g].indirect # 0 => dat2[D[g].indirect] = data[D[g].indirect]
  /\ Map(D, data) \in [File -> [Idx -> {0} \cup Blk]]

(* A new, empty indirect block changes one place of one file.              *)
LEMMA IndirectSetMap ==
  ASSUME NEW D, NEW C, NEW data, NEW dat2, NEW f, NEW b, IndirectSet(D, C, data, dat2, f, b)
  PROVE  Map(C, dat2) = SetAt(Map(D, data), f, Top, b)
BY IndirectMap DEF IndirectSet

-----------------------------------------------------------------------------
(* sfs_block_alloc and sfs_block_free on a file system without faults.     *)

Taken(Z, b) ==
  [freemap |-> Z.freemap \ {b}, unused |-> Z.unused - 1,
   data |-> [Z.data EXCEPT ![b] = ZeroBlock],
   din |-> Z.din, dirty |-> Z.dirty, oops |-> "no"]

Sound(Z) == Z \in FsType /\ Z.oops = "no" /\ Z.unused = Cardinality(Z.freemap)

(* A file system is a record.                                              *)
LEMMA FsRecord ==
  ASSUME NEW Z \in FsType
  PROVE  Z = [freemap |-> Z.freemap, unused |-> Z.unused, data |-> Z.data,
              din |-> Z.din, dirty |-> Z.dirty, oops |-> Z.oops]
BY DEF FsType

(* Sets of blocks.                                                         *)
LEMMA BlkCount ==
  ASSUME NEW S, S \subseteq Blk
  PROVE  /\ IsFiniteSet(S) /\ Cardinality(S) \in 0..NBlock
         /\ S = {} <=> Cardinality(S) = 0
         /\ \A b \in S : Cardinality(S \ {b}) = Cardinality(S) - 1
         /\ \A b \in Blk \ S : Cardinality(S \cup {b}) = Cardinality(S) + 1
<1>1. IsFiniteSet(Blk) /\ Cardinality(Blk) = NBlock
  BY FS_Interval, Consts DEF Blk
<1>2. IsFiniteSet(S) /\ Cardinality(S) <= NBlock /\ Cardinality(S) \in Nat
  BY <1>1, FS_Subset, FS_CardinalityType
<1>3. S = {} <=> Cardinality(S) = 0
  BY <1>2, FS_EmptySet
<1>4. \A b \in S : Cardinality(S \ {b}) = Cardinality(S) - 1
  BY <1>2, FS_RemoveElement
<1>5. \A b \in Blk \ S : Cardinality(S \cup {b}) = Cardinality(S) + 1
  BY <1>2, FS_AddElement
<1> QED BY <1>2, <1>3, <1>4, <1>5, Consts

(* A block of zeros is a block.                                            *)
LEMMA ZeroType == ZeroBlock \in [Cell -> Nat]
BY DEF ZeroBlock

(* What Taken makes of a sound file system.                                *)
LEMMA TakenIs ==
  ASSUME NEW Z, Sound(Z), NEW b \in Z.freemap
  PROVE  /\ Sound(Taken(Z, b)) /\ b \in Blk
         /\ Taken(Z, b).freemap = Z.freemap \ {b} /\ Taken(Z, b).unused = Z.unused - 1
         /\ Taken(Z, b).data \in Datas /\ Taken(Z, b).data[b] = ZeroBlock
         /\ \A c \in Blk \ {b} : Taken(Z, b).data[c] = Z.data[c]
         /\ Taken(Z, b).din = Z.din /\ Taken(Z, b).dirty = Z.dirty
<1>1. /\ Z.freemap \subseteq Blk /\ Z.unused = Cardinality(Z.freemap) /\ Z.data \in Datas
      /\ Z.din \in [File -> Inode] /\ Z.dirty \in [File -> BOOLEAN]
  BY DEF Sound, FsType, Datas
<1>2. /\ Cardinality(Z.freemap \ {b}) = Cardinality(Z.freemap) - 1
      /\ Cardinality(Z.freemap \ {b}) \in 0..NBlock
  BY <1>1, BlkCount
<1>3. /\ [Z.data EXCEPT ![b] = ZeroBlock] \in Datas
      /\ [Z.data EXCEPT ![b] = ZeroBlock][b] = ZeroBlock
      /\ \A c \in Blk \ {b} : [Z.data EXCEPT ![b] = ZeroBlock][c] = Z.data[c]
  BY <1>1, ZeroType DEF Datas
<1> QED BY <1>1, <1>2, <1>3 DEF Taken, Sound, FsType, Datas

(* sfs_block_alloc takes some free block, and fails only without one.      *)
LEMMA AllocIs ==
  ASSUME NEW Z, Sound(Z)
  PROVE  \/ /\ Z.unused = 0
            /\ sfs_block_alloc(Z) = [Z |-> Z, ino |-> 0, ok |-> FALSE]
         \/ \E b \in Z.freemap :
              sfs_block_alloc(Z) = [Z |-> Taken(Z, b), ino |-> b, ok |-> TRUE]
<1>1. /\ Z.freemap \subseteq Blk /\ Z.unused = Cardinality(Z.freemap)
      /\ Z.oops = "no" /\ Z \in FsType
  BY DEF Sound, FsType
<1>2. CASE Z.freemap = {}
  BY <1>1, <1>2, BlkCount DEF sfs_block_alloc
<1>3. CASE Z.freemap # {}
  <2> DEFINE b == Min(Z.freemap)
  <2>1. b \in Z.freemap
    <3>1. \E x \in Z.freemap : \A y \in Z.freemap : x <= y
      BY <1>1, <1>3, Least, Consts
    <3> QED BY <3>1 DEF Min
  <2> HIDE DEF b
  <2>2. Z.unused > 0
    BY <1>1, <1>3, BlkCount
  <2>3. Check(Z, Z.unused > 0, "assert") = Z
    BY <2>2 DEF Check
  <2>4. [Z EXCEPT !.freemap = @ \ {b}, !.unused = @ - 1, !.data[b] = ZeroBlock]
          = Taken(Z, b)
    <3>1. PICK Y : Y = [Z EXCEPT !.freemap = @ \ {b}]
      OBVIOUS
    <3>2. Y = [freemap |-> Z.freemap \ {b}, unused |-> Z.unused, data |-> Z.data,
               din |-> Z.din, dirty |-> Z.dirty, oops |-> Z.oops]
      BY <1>1, <3>1 DEF FsType
    <3>3. PICK X : X = [Y EXCEPT !.unused = @ - 1]
      OBVIOUS
    <3>4. X = [freemap |-> Z.freemap \ {b}, unused |-> Z.unused - 1, data |-> Z.data,
               din |-> Z.din, dirty |-> Z.dirty, oops |-> Z.oops]
      BY <1>1, <3>2, <3>3 DEF FsType
    <3>5. [X EXCEPT !.data[b] = ZeroBlock] = Taken(Z, b)
      BY <1>1, <3>4 DEF Taken
    <3> QED BY <3>1, <3>3, <3>5, Zenon
  <2>5. sfs_block_alloc(Z) = [Z |-> Taken(Z, b), ino |-> b, ok |-> TRUE]
    BY <1>3, <2>3, <2>4 DEF sfs_block_alloc, b
  <2> QED BY <2>1, <2>5
<1> QED BY <1>2, <1>3

(* sfs_block_free.                                                         *)
LEMMA FreeIs ==
  ASSUME NEW Z, Sound(Z), NEW b \in Blk \ Z.freemap
  PROVE  /\ Sound(sfs_block_free(Z, b))
         /\ sfs_block_free(Z, b).freemap = Z.freemap \cup {b}
         /\ sfs_block_free(Z, b).unused = Z.unused + 1
         /\ sfs_block_free(Z, b).data = Z.data
         /\ sfs_block_free(Z, b).din = Z.din /\ sfs_block_free(Z, b).dirty = Z.dirty
<1>1. /\ Z \in FsType /\ Z.oops = "no" /\ Z.freemap \subseteq Blk
      /\ Z.unused = Cardinality(Z.freemap)
  BY DEF Sound, FsType
<1>2. Check(Z, b \in Blk \ Z.freemap, "assert") = Z
  BY DEF Check
<1>3. PICK Y : Y = [Z EXCEPT !.freemap = @ \cup {b}]
  OBVIOUS
<1>4. Y = [freemap |-> Z.freemap \cup {b}, unused |-> Z.unused, data |-> Z.data,
           din |-> Z.din, dirty |-> Z.dirty, oops |-> Z.oops]
  BY <1>1, <1>3 DEF FsType
<1>5. [Y EXCEPT !.unused = @ + 1]
        = [freemap |-> Z.freemap \cup {b}, unused |-> Z.unused + 1, data |-> Z.data,
           din |-> Z.din, dirty |-> Z.dirty, oops |-> Z.oops]
  <2>1. PICK X : X = [Y EXCEPT !.unused = @ + 1]
    OBVIOUS
  <2>2. X = [freemap |-> Z.freemap \cup {b}, unused |-> Z.unused + 1, data |-> Z.data,
             din |-> Z.din, dirty |-> Z.dirty, oops |-> Z.oops]
    BY <1>1, <1>4, <2>1 DEF FsType
  <2> QED BY <2>1, <2>2
<1>6. sfs_block_free(Z, b) = [Y EXCEPT !.unused = @ + 1]
  BY <1>2, <1>3, Zenon DEF sfs_block_free
<1>7. /\ Cardinality(Z.freemap \cup {b}) = Cardinality(Z.freemap) + 1
      /\ Cardinality(Z.freemap \cup {b}) \in 0..NBlock
  BY <1>1, BlkCount
<1>8. /\ Z.freemap \cup {b} \in SUBSET Blk /\ Z.data \in [Blk -> [Cell -> Nat]]
      /\ Z.din \in [File -> Inode] /\ Z.dirty \in [File -> BOOLEAN]
  BY <1>1 DEF FsType
<1>9. sfs_block_free(Z, b)
        = [freemap |-> Z.freemap \cup {b}, unused |-> Z.unused + 1, data |-> Z.data,
           din |-> Z.din, dirty |-> Z.dirty, oops |-> "no"]
  BY <1>1, <1>5, <1>6
<1> QED BY <1>1, <1>7, <1>8, <1>9 DEF Sound, FsType

(* A block with other contents.                                            *)
LEMMA PutIs ==
  ASSUME NEW Z, Sound(Z), NEW b \in Blk, NEW cells, NEW v \in Nat
  PROVE  /\ Sound(Put(Z, b, cells, v))
         /\ Put(Z, b, cells, v).freemap = Z.freemap
         /\ Put(Z, b, cells, v).unused = Z.unused
         /\ Put(Z, b, cells, v).din = Z.din /\ Put(Z, b, cells, v).dirty = Z.dirty
         /\ Put(Z, b, cells, v).data \in Datas
         /\ Put(Z, b, cells, v).data[b] = Overwritten(Z.data[b], cells, v)
         /\ \A c \in Blk \ {b} : Put(Z, b, cells, v).data[c] = Z.data[c]
<1>1. Z \in FsType /\ Z.data \in Datas
  BY DEF Sound, FsType, Datas
<1>2. Overwritten(Z.data[b], cells, v) \in [Cell -> Nat]
  BY <1>1 DEF Overwritten, Datas
<1>3. PICK w : w = Overwritten(Z.data[b], cells, v)
  OBVIOUS
<1>4. Put(Z, b, cells, v)
        = [freemap |-> Z.freemap, unused |-> Z.unused, data |-> [Z.data EXCEPT ![b] = w],
           din |-> Z.din, dirty |-> Z.dirty, oops |-> Z.oops]
  <2>1. Put(Z, b, cells, v) = [Z EXCEPT !.data[b] = w]
    BY <1>3, Zenon DEF Put
  <2> QED BY <2>1, <1>1 DEF FsType
<1>5. /\ [Z.data EXCEPT ![b] = w] \in Datas /\ [Z.data EXCEPT ![b] = w][b] = w
      /\ \A c \in Blk \ {b} : [Z.data EXCEPT ![b] = w][c] = Z.data[c]
  BY <1>1, <1>2, <1>3 DEF Datas
<1> QED BY <1>1, <1>3, <1>4, <1>5 DEF Sound, FsType, Datas

(* An indirect block with another entry.                                   *)
LEMMA PutEntryIs ==
  ASSUME NEW Z, Sound(Z), NEW e \in Blk, NEW j, NEW b \in Nat
  PROVE  /\ Sound(PutEntry(Z, e, j, b))
         /\ PutEntry(Z, e, j, b).freemap = Z.freemap
         /\ PutEntry(Z, e, j, b).unused = Z.unused
         /\ PutEntry(Z, e, j, b).din = Z.din /\ PutEntry(Z, e, j, b).dirty = Z.dirty
         /\ PutEntry(Z, e, j, b).data \in Datas
         /\ PutEntry(Z, e, j, b).data[e] = WithEntry(Z.data[e], j, b)
         /\ \A c \in Blk \ {e} : PutEntry(Z, e, j, b).data[c] = Z.data[c]
BY PutIs DEF PutEntry, WithEntry

(* An inode that changes.                                                  *)
LEMMA ChangedIs ==
  ASSUME NEW Z \in FsType, NEW f \in File, NEW din \in Inode
  PROVE  /\ Changed(Z, f, din) \in FsType
         /\ Changed(Z, f, din).freemap = Z.freemap
         /\ Changed(Z, f, din).unused = Z.unused
         /\ Changed(Z, f, din).data = Z.data /\ Changed(Z, f, din).oops = Z.oops
         /\ Changed(Z, f, din).din \in Inodes /\ Changed(Z, f, din).din[f] = din
         /\ \A g \in File \ {f} : Changed(Z, f, din).din[g] = Z.din[g]
         /\ Changed(Z, f, din).dirty \in [File -> BOOLEAN] /\ Changed(Z, f, din).dirty[f]
         /\ \A g \in File \ {f} : Changed(Z, f, din).dirty[g] = Z.dirty[g]
<1>1. PICK Y : Y = [Z EXCEPT !.din[f] = din]
  OBVIOUS
<1>2. Y = [freemap |-> Z.freemap, unused |-> Z.unused, data |-> Z.data,
           din |-> [Z.din EXCEPT ![f] = din], dirty |-> Z.dirty, oops |-> Z.oops]
  BY <1>1 DEF FsType
<1>3. [Y EXCEPT !.dirty[f] = TRUE]
        = [freemap |-> Z.freemap, unused |-> Z.unused, data |-> Z.data,
           din |-> [Z.din EXCEPT ![f] = din], dirty |-> [Z.dirty EXCEPT ![f] = TRUE],
           oops |-> Z.oops]
  <2>1. PICK dirt : dirt = [Z.dirty EXCEPT ![f] = TRUE]
    OBVIOUS
  <2>2. Y.dirty = Z.dirty
    BY <1>2
  <2>3. [Y EXCEPT !.dirty[f] = TRUE] = [Y EXCEPT !.dirty = dirt]
    BY <2>1, <2>2, Zenon
  <2>4. [Y EXCEPT !.dirty = dirt]
          = [freemap |-> Z.freemap, unused |-> Z.unused, data |-> Z.data,
             din |-> [Z.din EXCEPT ![f] = din], dirty |-> dirt, oops |-> Z.oops]
    BY <1>2
  <2> QED BY <2>1, <2>3, <2>4
<1>4. Changed(Z, f, din) = [Y EXCEPT !.dirty[f] = TRUE]
  BY <1>1, Zenon DEF Changed
<1>5. /\ Z.din \in Inodes /\ Z.dirty \in [File -> BOOLEAN]
      /\ Z.freemap \in SUBSET Blk /\ Z.unused \in 0..NBlock
      /\ Z.data \in [Blk -> [Cell -> Nat]] /\ Z.oops \in {"no", "assert", "hole", "range"}
  BY DEF FsType, Inodes
<1>6. /\ [Z.din EXCEPT ![f] = din] \in Inodes /\ [Z.din EXCEPT ![f] = din][f] = din
      /\ \A g \in File \ {f} : [Z.din EXCEPT ![f] = din][g] = Z.din[g]
  BY <1>5 DEF Inodes
<1>7. /\ [Z.dirty EXCEPT ![f] = TRUE] \in [File -> BOOLEAN]
      /\ [Z.dirty EXCEPT ![f] = TRUE][f] = TRUE
      /\ \A g \in File \ {f} : [Z.dirty EXCEPT ![f] = TRUE][g] = Z.dirty[g]
  BY <1>5
<1>8. PICK dins, dirt : /\ dins = [Z.din EXCEPT ![f] = din]
                        /\ dirt = [Z.dirty EXCEPT ![f] = TRUE]
  OBVIOUS
<1>9. /\ dins \in Inodes /\ dins[f] = din /\ \A g \in File \ {f} : dins[g] = Z.din[g]
      /\ dirt \in [File -> BOOLEAN] /\ dirt[f]
      /\ \A g \in File \ {f} : dirt[g] = Z.dirty[g]
  BY <1>6, <1>7, <1>8, Zenon
<1>10. Changed(Z, f, din)
         = [freemap |-> Z.freemap, unused |-> Z.unused, data |-> Z.data,
            din |-> dins, dirty |-> dirt, oops |-> Z.oops]
  BY <1>3, <1>4, <1>8, Zenon
<1>11. Changed(Z, f, din) \in FsType
  BY <1>5, <1>9, <1>10 DEF FsType, Inodes
<1>12. /\ Changed(Z, f, din).freemap = Z.freemap
       /\ Changed(Z, f, din).unused = Z.unused
       /\ Changed(Z, f, din).data = Z.data /\ Changed(Z, f, din).oops = Z.oops
       /\ Changed(Z, f, din).din = dins /\ Changed(Z, f, din).dirty = dirt
  BY <1>10
<1> QED BY <1>9, <1>11, <1>12, Zenon

-----------------------------------------------------------------------------
(* sfs_bmap_load, for a file system whose inodes, in memory or on the      *)
(* disk, are D.                                                            *)

Good(Z, D, f) ==
  /\ Sound(Z) /\ D \in Inodes /\ f \in File /\ D[f] = Z.din[f]
  /\ Exact(Map(D, Z.data), Z.freemap) /\ Filled(Map(D, Z.data), D)

(* What a good file system has.                                            *)
LEMMA GoodIs ==
  ASSUME NEW Z, NEW D, NEW f, Good(Z, D, f)
  PROVE  /\ Z \in FsType /\ Z.oops = "no" /\ Z.freemap \subseteq Blk
         /\ Z.data \in Datas /\ Z.din \in Inodes /\ Z.din[f] \in Inode
         /\ Z.dirty \in [File -> BOOLEAN] /\ Z.unused \in Nat
         /\ Z.din[f].blocks \in 0..Top /\ Z.din[f].size \in Nat
         /\ Z.din[f].indirect \in {0} \cup Blk
         /\ Map(D, Z.data) \in [File -> [Idx -> {0} \cup Blk]]
         /\ \A i \in Idx : i < Top => (i < Z.din[f].blocks <=> Map(D, Z.data)[f][i] # 0)
         /\ \A g \in File : \A i \in Idx : Map(D, Z.data)[g][i] # 0 =>
              Map(D, Z.data)[g][i] \in Blk \ Z.freemap
         /\ \A g \in File : D[g].indirect # 0 => D[g].indirect \in Blk \ Z.freemap
<1>1. /\ Z \in FsType /\ Z.oops = "no" /\ Z.freemap \subseteq Blk
      /\ Z.data \in Datas /\ Z.din \in Inodes
      /\ Z.dirty \in [File -> BOOLEAN] /\ Z.unused \in Nat
  BY DEF Good, Sound, FsType, Datas, Inodes
<1>2. f \in File /\ D \in Inodes /\ D[f] = Z.din[f]
  BY DEF Good
<1>3. /\ Z.din[f] \in Inode /\ Z.din[f].size \in Nat
      /\ Z.din[f].indirect \in {0} \cup Blk
  BY <1>1, <1>2 DEF Inodes, Inode
<1>4. /\ Z.din[f].blocks \in 0..Top
      /\ \A i \in Idx : i < Top => (i < Z.din[f].blocks <=> Map(D, Z.data)[f][i] # 0)
  BY <1>2 DEF Good, Filled
<1>5. /\ Map(D, Z.data) \in [File -> [Idx -> {0} \cup Blk]]
      /\ \A g \in File : \A i \in Idx : Map(D, Z.data)[g][i] # 0 =>
           Map(D, Z.data)[g][i] \in Blk \ Z.freemap
  BY DEF Good, Exact
<1>6. Top \in Idx /\ \A g \in File : D[g].indirect = Map(D, Z.data)[g][Top]
  BY <1>1, <1>2, MapIs, Consts DEF Idx
<1>7. \A g \in File : D[g].indirect # 0 => D[g].indirect \in Blk \ Z.freemap
  BY <1>5, <1>6
<1> QED BY <1>1, <1>3, <1>4, <1>5, <1>7

(* The fields of what the functions return.                                *)
Ret(z, i, t)         == [Z |-> z, ino |-> i, ok |-> t]
EntryRet(z, e, i, t) == [Z |-> z, ent |-> e, ino |-> i, ok |-> t]

(* The parts of what a lookup returns.                                     *)
LEMMA RetIs ==
  ASSUME NEW z, NEW i, NEW t
  PROVE  Ret(z, i, t).Z = z /\ Ret(z, i, t).ino = i /\ Ret(z, i, t).ok = t
BY DEF Ret

(* The parts of what a lookup in the indirect block returns.               *)
LEMMA EntryRetIs ==
  ASSUME NEW z, NEW e, NEW i, NEW t
  PROVE  /\ EntryRet(z, e, i, t).Z = z /\ EntryRet(z, e, i, t).ent = e
         /\ EntryRet(z, e, i, t).ino = i /\ EntryRet(z, e, i, t).ok = t
BY DEF EntryRet

(* A lookup that returned a block.                                         *)
LEMMA Succeeds ==
  ASSUME NEW G, NEW z, NEW i, G = [Z |-> z, ino |-> i, ok |-> TRUE]
  PROVE  G.Z = z /\ G.ino = i /\ G.ok
<1>0. PICK t : t = TRUE
  OBVIOUS
<1>1. G = Ret(z, i, t)
  BY <1>0, Zenon DEF Ret
<1>2. Ret(z, i, t).Z = z /\ Ret(z, i, t).ino = i /\ Ret(z, i, t).ok = t
  BY RetIs
<1> QED BY <1>0, <1>1, <1>2, Zenon

(* A lookup that returned an error.                                        *)
LEMMA Fails ==
  ASSUME NEW G, NEW z, NEW i, G = [Z |-> z, ino |-> i, ok |-> FALSE]
  PROVE  G.Z = z /\ G.ino = i /\ ~G.ok
<1>0. PICK t : t = FALSE
  OBVIOUS
<1>1. G = Ret(z, i, t)
  BY <1>0, Zenon DEF Ret
<1>2. Ret(z, i, t).Z = z /\ Ret(z, i, t).ino = i /\ Ret(z, i, t).ok = t
  BY RetIs
<1> QED BY <1>0, <1>1, <1>2, Zenon

(* A lookup in the indirect block that returned a block.                   *)
LEMMA EntrySucceeds ==
  ASSUME NEW G, NEW z, NEW e, NEW i, G = [Z |-> z, ent |-> e, ino |-> i, ok |-> TRUE]
  PROVE  G.Z = z /\ G.ent = e /\ G.ino = i /\ G.ok
<1>0. PICK t : t = TRUE
  OBVIOUS
<1>1. G = EntryRet(z, e, i, t)
  BY <1>0, Zenon DEF EntryRet
<1>2. EntryRet(z, e, i, t).Z = z /\ EntryRet(z, e, i, t).ent = e /\ EntryRet(z, e, i, t).ino = i /\ EntryRet(z, e, i, t).ok = t
  BY EntryRetIs
<1> QED BY <1>0, <1>1, <1>2, Zenon

(* A lookup in the indirect block that returned an error.                  *)
LEMMA EntryFails ==
  ASSUME NEW G, NEW z, NEW e, NEW i, G = [Z |-> z, ent |-> e, ino |-> i, ok |-> FALSE]
  PROVE  G.Z = z /\ G.ent = e /\ G.ino = i /\ ~G.ok
<1>0. PICK t : t = FALSE
  OBVIOUS
<1>1. G = EntryRet(z, e, i, t)
  BY <1>0, Zenon DEF EntryRet
<1>2. EntryRet(z, e, i, t).Z = z /\ EntryRet(z, e, i, t).ent = e /\ EntryRet(z, e, i, t).ino = i /\ EntryRet(z, e, i, t).ok = t
  BY EntryRetIs
<1> QED BY <1>0, <1>1, <1>2, Zenon

(* An indirect block that was there before, and one that is new.           *)
LEMMA SetIndirectIs ==
  ASSUME NEW G, NEW f
  PROVE  /\ SetIndirect(G, f).Z
              = (IF G.ok /\ G.ent # G.Z.din[f].indirect
                 THEN Changed(G.Z, f, WithIndirect(G.Z.din[f], G.ent)) ELSE G.Z)
         /\ SetIndirect(G, f).ino = G.ino /\ SetIndirect(G, f).ok = G.ok
<1> DEFINE z == IF G.ok /\ G.ent # G.Z.din[f].indirect
                THEN Changed(G.Z, f, WithIndirect(G.Z.din[f], G.ent)) ELSE G.Z
           i == G.ino
           t == G.ok
<1>1. SetIndirect(G, f) = Ret(z, i, t)
  BY Zenon DEF SetIndirect, Ret, WithIndirect
<1> HIDE DEF z, i, t
<1>2. SetIndirect(G, f).Z = z /\ SetIndirect(G, f).ino = i /\ SetIndirect(G, f).ok = t
  BY <1>1, RetIs
<1> QED BY <1>2, Zenon DEF z, i, t

(* sfs_bmap_get_nolock leaves the inode alone when the entry was not       *)
(* found, ...                                                              *)
LEMMA SetIndirectFails ==
  ASSUME NEW G, NEW f, ~G.ok
  PROVE  SetIndirect(G, f).Z = G.Z /\ ~SetIndirect(G, f).ok
BY SetIndirectIs, Zenon

(* ... when the indirect block was there already, ...                      *)
LEMMA SetIndirectOld ==
  ASSUME NEW G, NEW f, G.ok, ~(G.ent # G.Z.din[f].indirect)
  PROVE  /\ SetIndirect(G, f).Z = G.Z /\ SetIndirect(G, f).ino = G.ino
         /\ SetIndirect(G, f).ok
BY SetIndirectIs, Zenon

(* ... and otherwise notes the new indirect block in the inode.            *)
LEMMA SetIndirectNew ==
  ASSUME NEW G, NEW f, G.ok, G.ent # G.Z.din[f].indirect
  PROVE  /\ SetIndirect(G, f).Z
              = Changed(G.Z, f, WithIndirect(G.Z.din[f], G.ent))
         /\ SetIndirect(G, f).ino = G.ino /\ SetIndirect(G, f).ok
BY SetIndirectIs, Zenon

(* The asserts of sfs_bmap_load, and the count of blocks.                  *)
LEMMA LoadIs ==
  ASSUME NEW Z, NEW f, NEW index \in Nat, Z.oops = "no", index <= Z.din[f].blocks,
         NEW G, G = sfs_bmap_get(Z, f, index, index = Z.din[f].blocks)
  PROVE  /\ ~G.ok => /\ sfs_bmap_load(Z, f, index).Z = G.Z
                     /\ ~sfs_bmap_load(Z, f, index).ok
         /\ G.ok /\ G.ino \in Blk \ G.Z.freemap /\ G.Z.oops = "no" =>
              /\ sfs_bmap_load(Z, f, index).Z
                   = IF index = Z.din[f].blocks
                     THEN Counted(G.Z, f) ELSE G.Z
              /\ sfs_bmap_load(Z, f, index).ino = G.ino
              /\ sfs_bmap_load(Z, f, index).ok
<1>1. Check(Z, index <= Z.din[f].blocks, "hole") = Z
  BY DEF Check
<1> DEFINE Y == Check(G.Z, G.ok => G.ino \in Blk \ G.Z.freemap, "assert")
<1>2. /\ sfs_bmap_load(Z, f, index).Z
           = (IF G.ok /\ index = Z.din[f].blocks
              THEN Counted(Y, f) ELSE Y)
      /\ sfs_bmap_load(Z, f, index).ino = G.ino
      /\ sfs_bmap_load(Z, f, index).ok <=> G.ok /\ Y.oops = "no"
  BY <1>1, Zenon DEF sfs_bmap_load, Counted
<1>3. CASE ~G.ok
  <2>1. Y = G.Z
    BY <1>3, Zenon DEF Check
  <2> QED BY <1>2, <1>3, <2>1, Zenon
<1>4. CASE G.ok
  <2>1. G.ino \in Blk \ G.Z.freemap => Y = G.Z
    BY Zenon DEF Check
  <2> QED BY <1>2, <1>4, <2>1, Zenon
<1> QED BY <1>3, <1>4, Zenon

(* A block that the file has is found.                                     *)
LEMMA LoadOld ==
  ASSUME NEW Z, NEW D, NEW f, Good(Z, D, f), NEW index \in Nat, index < Z.din[f].blocks
  PROVE  /\ index \in Idx /\ index < Top
         /\ sfs_bmap_load(Z, f, index).Z = Z /\ sfs_bmap_load(Z, f, index).ok
         /\ sfs_bmap_load(Z, f, index).ino = Map(D, Z.data)[f][index]
         /\ Map(D, Z.data)[f][index] \in Blk \ Z.freemap
         /\ Map(D, Z.data)[f][index] # 0
<1> DEFINE b == Map(D, Z.data)[f][index]
           c == (index = Z.din[f].blocks)
<1>1. f \in File /\ D \in Inodes /\ D[f] = Z.din[f] /\ Z.data \in Datas /\ Z.oops = "no"
  BY GoodIs DEF Good
<1>2. index \in Idx /\ index < Top /\ ~c
  BY GoodIs, Consts DEF Idx
<1>3. b # 0 /\ b \in Blk \ Z.freemap
  BY <1>1, <1>2, GoodIs
<1>4. /\ index < NDirect => b = Z.din[f].direct[index]
      /\ ~(index < NDirect) => b = IF Z.din[f].indirect = 0 THEN 0
                                   ELSE Z.data[Z.din[f].indirect][index - NDirect]
  <2>1. /\ \A i \in Idx : i < NDirect => Map(D, Z.data)[f][i] = D[f].direct[i]
        /\ \A i \in Idx : i >= NDirect /\ i < Top =>
              Map(D, Z.data)[f][i] = IF D[f].indirect = 0 THEN 0
                                   ELSE Z.data[D[f].indirect][i - NDirect]
    BY <1>1, MapIs
  <2> QED BY <1>1, <1>2, <2>1, Consts
<1> HIDE DEF b, c
<1>5. PICK G : G = sfs_bmap_get(Z, f, index, c)
  OBVIOUS
<1>6. G.Z = Z /\ G.ino = b /\ G.ok
  <2>1. CASE index < NDirect
    <3>1. sfs_bmap_get(Z, f, index, c) = [Z |-> Z, ino |-> b, ok |-> TRUE]
      BY <2>1, <1>2, <1>4 DEF sfs_bmap_get
    <3> QED BY <3>1, <1>5, Succeeds
  <2>2. CASE ~(index < NDirect)
    <3>1. index - NDirect < BlkNEntry
      BY <2>2, <1>2, Consts
    <3>2. sfs_bmap_get_sub(Z, Z.din[f].indirect, index - NDirect, c)
            = [Z |-> Z, ent |-> Z.din[f].indirect, ino |-> b, ok |-> TRUE]
      BY <2>2, <1>2, <1>4, Zenon DEF sfs_bmap_get_sub
    <3>3. sfs_bmap_get(Z, f, index, c)
            = SetIndirect(sfs_bmap_get_sub(Z, Z.din[f].indirect, index - NDirect, c), f)
      BY <2>2, <3>1, Zenon DEF sfs_bmap_get
    <3>4. PICK H : H = sfs_bmap_get_sub(Z, Z.din[f].indirect, index - NDirect, c)
      OBVIOUS
    <3>5. H.Z = Z /\ H.ent = Z.din[f].indirect /\ H.ino = b /\ H.ok
      BY <3>2, <3>4, EntrySucceeds
    <3>6. G = SetIndirect(H, f)
      BY <1>5, <3>3, <3>4, Zenon
    <3>7. ~(H.ok /\ H.ent # H.Z.din[f].indirect)
      BY <3>5, Zenon
    <3> QED BY <3>5, <3>6, <3>7, SetIndirectIs, Zenon
  <2> QED BY <2>1, <2>2
<1>7. /\ sfs_bmap_load(Z, f, index).Z = G.Z /\ sfs_bmap_load(Z, f, index).ino = G.ino
      /\ sfs_bmap_load(Z, f, index).ok
  <2>1. index <= Z.din[f].blocks
    BY GoodIs, Consts
  <2>2. G.ino \in Blk \ G.Z.freemap /\ G.Z.oops = "no"
    BY <1>1, <1>3, <1>6
  <2>3. G = sfs_bmap_get(Z, f, index, index = Z.din[f].blocks)
    BY <1>5, Zenon DEF c
  <2>4. ~(index = Z.din[f].blocks)
    BY <1>2 DEF c
  <2>5. /\ sfs_bmap_load(Z, f, index).Z
             = IF index = Z.din[f].blocks
               THEN Counted(G.Z, f) ELSE G.Z
        /\ sfs_bmap_load(Z, f, index).ino = G.ino
        /\ sfs_bmap_load(Z, f, index).ok
    BY <1>1, <1>6, <2>1, <2>2, <2>3, LoadIs
  <2> QED BY <2>4, <2>5, Zenon
<1> QED BY <1>2, <1>3, <1>6, <1>7 DEF b

(* The block behind the last one: a direct block ...                       *)
LEMMA GetDirect ==
  ASSUME NEW Z, NEW D, NEW f, Good(Z, D, f), NEW n, n = Z.din[f].blocks, n < NDirect,
         NEW G, G = sfs_bmap_get(Z, f, n, n = Z.din[f].blocks)
  PROVE  \/ ~G.ok /\ G.Z = Z /\ Z.unused = 0
         \/ \E b \in Z.freemap :
              /\ G.ok /\ G.ino = b
              /\ G.Z = Changed(Taken(Z, b), f, WithDirect(Z.din[f], n, b))
<1> DEFINE c == (n = Z.din[f].blocks)
<1>1. c
  OBVIOUS
<1>2. Z.din[f].direct[n] = 0
  <2>1. n \in Idx /\ n < Top
    BY GoodIs, Consts DEF Idx
  <2>2. Map(D, Z.data)[f][n] = 0
    BY <2>1, GoodIs, Consts DEF Idx
  <2>3. f \in File /\ D \in Inodes /\ D[f] = Z.din[f] /\ Z.data \in Datas
    BY GoodIs DEF Good
  <2> QED BY <2>1, <2>2, <2>3, MapIs
<1>3. G = sfs_bmap_get(Z, f, n, c)
  OBVIOUS
<1> HIDE DEF c
<1>4. G = SetDirect(sfs_block_alloc(Z), f, n)
  BY <1>1, <1>2, <1>3, Zenon DEF sfs_bmap_get
<1>5. PICK A : A = sfs_block_alloc(Z)
  OBVIOUS
<1>6. CASE Z.unused = 0 /\ sfs_block_alloc(Z) = [Z |-> Z, ino |-> 0, ok |-> FALSE]
  <2>1. A.Z = Z /\ ~A.ok
    BY <1>5, <1>6, Fails
  <2>2. G = A
    BY <1>4, <1>5, <2>1, Zenon DEF SetDirect
  <2> QED BY <1>6, <2>1, <2>2, Zenon
<1>7. ASSUME NEW b \in Z.freemap,
             sfs_block_alloc(Z) = [Z |-> Taken(Z, b), ino |-> b, ok |-> TRUE]
      PROVE  /\ G.ok /\ G.ino = b
             /\ G.Z = Changed(Taken(Z, b), f, WithDirect(Z.din[f], n, b))
  <2>1. A.Z = Taken(Z, b) /\ A.ino = b /\ A.ok
    BY <1>5, <1>7, Succeeds
  <2>2. Taken(Z, b).din = Z.din
    BY TakenIs DEF Good
  <2>3. PICK Y : Y = Changed(Taken(Z, b), f, WithDirect(Z.din[f], n, b))
    OBVIOUS
  <2>4. G = [Z |-> Y, ino |-> b, ok |-> TRUE]
    BY <1>4, <1>5, <2>1, <2>2, <2>3, Zenon DEF SetDirect, WithDirect
  <2> QED BY <2>3, <2>4, Succeeds
<1> QED BY <1>6, <1>7, AllocIs DEF Good

(* ... one whose number goes to the indirect block ...                     *)
LEMMA GetEntry ==
  ASSUME NEW Z, NEW D, NEW f, Good(Z, D, f), NEW n, n = Z.din[f].blocks,
         NDirect <= n, n < Top, Z.din[f].indirect # 0,
         NEW G, G = sfs_bmap_get(Z, f, n, n = Z.din[f].blocks)
  PROVE  \/ ~G.ok /\ G.Z = Z /\ Z.unused = 0
         \/ \E b \in Z.freemap :
              /\ G.ok /\ G.ino = b
              /\ G.Z = PutEntry(Taken(Z, b), Z.din[f].indirect, n - NDirect, b)
<1> DEFINE c == (n = Z.din[f].blocks)
           e == Z.din[f].indirect
           j == n - NDirect
<1>1. c
  OBVIOUS
<1>2. n \in Idx /\ ~(n < NDirect) /\ j < BlkNEntry
  BY GoodIs, Consts DEF Idx
<1>3. f \in File /\ D \in Inodes /\ D[f] = Z.din[f] /\ Z.data \in Datas
  BY GoodIs DEF Good
<1>4. Z.data[e][j] = 0
  <2>1. Map(D, Z.data)[f][n] = 0
    BY <1>2, GoodIs, Consts DEF Idx
  <2>2. \A i \in Idx : i >= NDirect /\ i < Top =>
          Map(D, Z.data)[f][i] = IF D[f].indirect = 0 THEN 0
                                 ELSE Z.data[D[f].indirect][i - NDirect]
    BY <1>3, MapIs
  <2>3. n >= NDirect /\ n < Top
    BY <1>2, Consts DEF Idx
  <2> QED BY <1>2, <1>3, <2>1, <2>2, <2>3
<1>5. G = sfs_bmap_get(Z, f, n, c) /\ e # 0
  OBVIOUS
<1>6. PICK H : H = sfs_bmap_get_sub(Z, e, j, c)
  OBVIOUS
<1>7. G = SetIndirect(H, f)
  BY <1>2, <1>5, <1>6, Zenon DEF sfs_bmap_get
<1>8. PICK t : t = TRUE
  OBVIOUS
<1>9. PICK E : E = Ret(Z, e, t)
  OBVIOUS
<1>10. E.Z = Z /\ E.ino = e /\ E.ok
  <2>1. Ret(Z, e, t).Z = Z /\ Ret(Z, e, t).ino = e /\ Ret(Z, e, t).ok = t
    BY RetIs
  <2> QED BY <1>8, <1>9, <2>1, Zenon
<1> HIDE DEF c, e, j
<1>11. H = AddEntry(Z, e, j, E, sfs_block_alloc(Z))
  <2>1. E = [Z |-> Z, ino |-> e, ok |-> TRUE]
    BY <1>8, <1>9, Zenon DEF Ret
  <2>2. H = AddEntry(Z, e, j, E, sfs_block_alloc(E.Z))
    BY <1>1, <1>4, <1>5, <1>6, <2>1, Zenon DEF sfs_bmap_get_sub
  <2> QED BY <1>10, <2>2, Zenon
<1>12. PICK I : I = sfs_block_alloc(Z)
  OBVIOUS
<1>13. CASE Z.unused = 0 /\ sfs_block_alloc(Z) = [Z |-> Z, ino |-> 0, ok |-> FALSE]
  <2>1. ~I.ok
    BY <1>12, <1>13, Fails
  <2>2. GiveBack(E.Z, e, E.ino) = Z
    BY <1>10, Zenon DEF GiveBack
  <2>3. H = [Z |-> Z, ent |-> e, ino |-> 0, ok |-> FALSE]
    BY <1>10, <1>11, <1>12, <2>1, <2>2, Zenon DEF AddEntry
  <2>4. H.Z = Z /\ ~H.ok
    BY <2>3, EntryFails
  <2>5. SetIndirect(H, f).Z = H.Z /\ ~SetIndirect(H, f).ok
    BY <2>4, SetIndirectFails
  <2> QED BY <1>7, <1>13, <2>4, <2>5, Zenon
<1>14. ASSUME NEW b \in Z.freemap,
              sfs_block_alloc(Z) = [Z |-> Taken(Z, b), ino |-> b, ok |-> TRUE]
       PROVE  G.ok /\ G.ino = b /\ G.Z = PutEntry(Taken(Z, b), e, j, b)
  <2>1. I.Z = Taken(Z, b) /\ I.ino = b /\ I.ok
    BY <1>12, <1>14, Succeeds
  <2>2. PICK Y : Y = PutEntry(Taken(Z, b), e, j, b)
    OBVIOUS
  <2>3. H = [Z |-> Y, ent |-> e, ino |-> b, ok |-> TRUE]
    BY <1>10, <1>11, <1>12, <2>1, <2>2, Zenon DEF AddEntry, PutEntry
  <2>4. H.Z = Y /\ H.ent = e /\ H.ino = b /\ H.ok
    BY <2>3, EntrySucceeds
  <2>5. Y.din = Z.din
    <3>1. b \in Blk /\ b \in Nat /\ e \in Blk
      BY GoodIs, Consts, <1>5 DEF e
    <3>2. Sound(Taken(Z, b)) /\ Taken(Z, b).din = Z.din
      BY TakenIs DEF Good
    <3> QED BY <2>2, <3>1, <3>2, PutEntryIs
  <2>6. ~(H.ent # H.Z.din[f].indirect)
    BY <2>4, <2>5 DEF e
  <2>7. SetIndirect(H, f).Z = H.Z /\ SetIndirect(H, f).ino = H.ino /\ SetIndirect(H, f).ok
    BY <2>4, <2>6, SetIndirectOld
  <2> QED BY <1>7, <2>2, <2>4, <2>7, Zenon
<1> QED BY <1>13, <1>14, AllocIs DEF Good, e, j

(* ... one that needs an indirect block first, which is given back when    *)
(* there is no second block ...                                            *)
LEMMA GetIndirect ==
  ASSUME NEW Z, NEW D, NEW f, Good(Z, D, f), NEW n, n = Z.din[f].blocks,
         NDirect <= n, n < Top, Z.din[f].indirect = 0,
         NEW G, G = sfs_bmap_get(Z, f, n, n = Z.din[f].blocks)
  PROVE  \/ ~G.ok /\ G.Z = Z /\ Z.unused = 0
         \/ \E e \in Z.freemap :
              ~G.ok /\ G.Z = sfs_block_free(Taken(Z, e), e) /\ Z.unused = 1
         \/ \E e \in Z.freemap : \E b \in Z.freemap \ {e} :
              /\ G.ok /\ G.ino = b
              /\ G.Z = Changed(PutEntry(Taken(Taken(Z, e), b), e, n - NDirect, b), f,
                               WithIndirect(Z.din[f], e))
<1> DEFINE c == (n = Z.din[f].blocks)
           j == n - NDirect
<1>1. c
  OBVIOUS
<1>2. n \in Idx /\ ~(n < NDirect) /\ j < BlkNEntry
  BY GoodIs, Consts DEF Idx
<1>3. G = sfs_bmap_get(Z, f, n, c) /\ Z.din[f].indirect = 0
  OBVIOUS
<1>4. PICK H : H = sfs_bmap_get_sub(Z, 0, j, c)
  OBVIOUS
<1>5. G = SetIndirect(H, f)
  BY <1>2, <1>3, <1>4, Zenon DEF sfs_bmap_get
<1> HIDE DEF c, j
<1>6. PICK E : E = sfs_block_alloc(Z)
  OBVIOUS
<1>7. H = AddEntry(Z, 0, j, E, sfs_block_alloc(E.Z))
  BY <1>1, <1>4, <1>6, Zenon DEF sfs_bmap_get_sub
<1>8. CASE Z.unused = 0 /\ sfs_block_alloc(Z) = [Z |-> Z, ino |-> 0, ok |-> FALSE]
  <2>1. ~E.ok
    BY <1>6, <1>8, Fails
  <2>2. H = [Z |-> Z, ent |-> 0, ino |-> 0, ok |-> FALSE]
    BY <1>7, <2>1, Zenon DEF AddEntry
  <2>3. H.Z = Z /\ ~H.ok
    BY <2>2, EntryFails
  <2>4. SetIndirect(H, f).Z = H.Z /\ ~SetIndirect(H, f).ok
    BY <2>3, SetIndirectFails
  <2> QED BY <1>5, <1>8, <2>3, <2>4, Zenon
<1>9. ASSUME NEW e \in Z.freemap,
             sfs_block_alloc(Z) = [Z |-> Taken(Z, e), ino |-> e, ok |-> TRUE]
      PROVE  \/ ~G.ok /\ G.Z = sfs_block_free(Taken(Z, e), e) /\ Z.unused = 1
             \/ \E b \in Z.freemap \ {e} :
                  /\ G.ok /\ G.ino = b
                  /\ G.Z = Changed(PutEntry(Taken(Taken(Z, e), b), e, j, b), f,
                                   WithIndirect(Z.din[f], e))
  <2>1. E.Z = Taken(Z, e) /\ E.ino = e /\ E.ok
    BY <1>6, <1>9, Succeeds
  <2>2. /\ Sound(Taken(Z, e)) /\ Taken(Z, e).freemap = Z.freemap \ {e} /\ e \in Blk
        /\ Taken(Z, e).unused = Z.unused - 1 /\ Taken(Z, e).din = Z.din
    BY TakenIs DEF Good
  <2>3. PICK Y : Y = Taken(Z, e)
    OBVIOUS
  <2>4. PICK I : I = sfs_block_alloc(Y)
    OBVIOUS
  <2>5. H = AddEntry(Z, 0, j, E, I)
    BY <1>7, <2>1, <2>3, <2>4, Zenon
  <2>6. CASE Y.unused = 0 /\ sfs_block_alloc(Y) = [Z |-> Y, ino |-> 0, ok |-> FALSE]
    <3>1. ~I.ok
      BY <2>4, <2>6, Fails
    <3>2. e # 0
      BY <2>2, Consts
    <3>3. GiveBack(E.Z, 0, E.ino) = sfs_block_free(Y, e)
      BY <2>1, <2>3, <3>2, Zenon DEF GiveBack
    <3>4. H = [Z |-> sfs_block_free(Y, e), ent |-> 0, ino |-> 0, ok |-> FALSE]
      BY <2>1, <2>5, <3>1, <3>3, Zenon DEF AddEntry
    <3>5. H.Z = sfs_block_free(Y, e) /\ ~H.ok
      <4>1. PICK X : X = sfs_block_free(Y, e)
        OBVIOUS
      <4>2. H = [Z |-> X, ent |-> 0, ino |-> 0, ok |-> FALSE]
        BY <3>4, <4>1, Zenon
      <4> QED BY <4>1, <4>2, EntryFails
    <3>6. SetIndirect(H, f).Z = H.Z /\ ~SetIndirect(H, f).ok
      BY <3>5, SetIndirectFails
    <3>7. Z.unused = 1
      BY <2>2, <2>3, <2>6, GoodIs
    <3> QED BY <1>5, <2>3, <3>5, <3>6, <3>7, Zenon
  <2>7. ASSUME NEW b \in Y.freemap,
               sfs_block_alloc(Y) = [Z |-> Taken(Y, b), ino |-> b, ok |-> TRUE]
        PROVE  /\ b \in Z.freemap \ {e} /\ G.ok /\ G.ino = b
               /\ G.Z = Changed(PutEntry(Taken(Taken(Z, e), b), e, j, b), f,
                                WithIndirect(Z.din[f], e))
    <3>1. I.Z = Taken(Y, b) /\ I.ino = b /\ I.ok
      BY <2>4, <2>7, Succeeds
    <3>2. PICK X : X = PutEntry(Taken(Y, b), e, j, b)
      OBVIOUS
    <3>3. H = [Z |-> X, ent |-> e, ino |-> b, ok |-> TRUE]
      BY <2>1, <2>5, <3>1, <3>2, Zenon DEF AddEntry, PutEntry
    <3>4. H.Z = X /\ H.ent = e /\ H.ino = b /\ H.ok
      BY <3>3, EntrySucceeds
    <3>5. b \in Z.freemap \ {e} /\ Sound(Y) /\ Y.din = Z.din
      BY <2>2, <2>3
    <3>6. X.din = Z.din
      <4>1. b \in Nat
        BY <3>5, GoodIs, Consts
      <4>2. Sound(Taken(Y, b)) /\ Taken(Y, b).din = Z.din
        BY <3>5, TakenIs
      <4> QED BY <2>2, <3>2, <4>1, <4>2, PutEntryIs
    <3>7. H.ent # H.Z.din[f].indirect
      <4>1. e # 0
        BY <2>2, Consts
      <4> QED BY <1>3, <3>4, <3>6, <4>1, Zenon
    <3>8. /\ SetIndirect(H, f).Z = Changed(H.Z, f, WithIndirect(H.Z.din[f], H.ent))
          /\ SetIndirect(H, f).ino = H.ino /\ SetIndirect(H, f).ok
      BY <3>4, <3>7, SetIndirectNew
    <3>9. G.Z = Changed(X, f, WithIndirect(Z.din[f], e))
      BY <1>5, <3>4, <3>6, <3>8, Zenon
    <3> QED BY <1>5, <2>3, <3>2, <3>4, <3>5, <3>8, <3>9, Zenon
  <2>8. \/ Y.unused = 0 /\ sfs_block_alloc(Y) = [Z |-> Y, ino |-> 0, ok |-> FALSE]
        \/ \E b \in Y.freemap :
             sfs_block_alloc(Y) = [Z |-> Taken(Y, b), ino |-> b, ok |-> TRUE]
    BY <2>2, <2>3, AllocIs
  <2> QED BY <2>6, <2>7, <2>8, Zenon
<1>10. \/ Z.unused = 0 /\ sfs_block_alloc(Z) = [Z |-> Z, ino |-> 0, ok |-> FALSE]
       \/ \E b \in Z.freemap :
            sfs_block_alloc(Z) = [Z |-> Taken(Z, b), ino |-> b, ok |-> TRUE]
  BY AllocIs DEF Good
<1>11. CASE \E b \in Z.freemap :
              sfs_block_alloc(Z) = [Z |-> Taken(Z, b), ino |-> b, ok |-> TRUE]
  <2>1. PICK e \in Z.freemap :
          sfs_block_alloc(Z) = [Z |-> Taken(Z, e), ino |-> e, ok |-> TRUE]
    BY <1>11, Zenon
  <2>2. CASE ~G.ok /\ G.Z = sfs_block_free(Taken(Z, e), e) /\ Z.unused = 1
    BY <2>2, Zenon
  <2>3. CASE \E b \in Z.freemap \ {e} :
               /\ G.ok /\ G.ino = b
               /\ G.Z = Changed(PutEntry(Taken(Taken(Z, e), b), e, j, b), f,
                                WithIndirect(Z.din[f], e))
    BY <2>3, Zenon DEF j
  <2> QED BY <1>9, <2>1, <2>2, <2>3, Zenon
<1> QED BY <1>8, <1>10, <1>11, Zenon

(* ... or one behind all that an inode can address.                        *)
Stopped(Z) == [Z EXCEPT !.oops = "range"]

(* There is no block past the end of the indirect block: the lookup        *)
(* panics.                                                                 *)
LEMMA GetRange ==
  ASSUME NEW Z, NEW D, NEW f, Good(Z, D, f), NEW n, n = Z.din[f].blocks, n = Top,
         NEW G, G = sfs_bmap_get(Z, f, n, n = Z.din[f].blocks)
  PROVE  ~G.ok /\ G.Z = Stopped(Z)
<1> DEFINE c == (n = Z.din[f].blocks)
<1>1. ~(n < NDirect) /\ ~(n - NDirect < BlkNEntry)
  BY Consts
<1>2. Z.oops = "no"
  BY GoodIs
<1>3. G = sfs_bmap_get(Z, f, n, c)
  OBVIOUS
<1> HIDE DEF c
<1>4. PICK Y : Y = [Z EXCEPT !.oops = "range"]
  OBVIOUS
<1>5. Check(Z, FALSE, "range") = Y
  BY <1>2, <1>4 DEF Check
<1>6. G = [Z |-> Y, ino |-> 0, ok |-> FALSE]
  BY <1>1, <1>3, <1>5, Zenon DEF sfs_bmap_get
<1>7. G.Z = Y /\ ~G.ok
  <2>1. PICK R : R = [Z |-> Y, ino |-> 0, ok |-> FALSE]
    OBVIOUS
  <2>2. R.Z = Y /\ ~R.ok
    BY <2>1, Fails
  <2> QED BY <1>6, <2>1, <2>2, Zenon
<1> QED BY <1>4, <1>7, Zenon DEF Stopped

-----------------------------------------------------------------------------
(* One block more.                                                         *)

(* The count of blocks.                                                    *)
LEMMA CountedIs ==
  ASSUME NEW Y, Sound(Y), NEW f \in File, NEW W, W = Counted(Y, f)
  PROVE  /\ Sound(W) /\ W.freemap = Y.freemap /\ W.unused = Y.unused /\ W.data = Y.data
         /\ W.dirty = Y.dirty /\ W.din \in Inodes
         /\ W.din[f].size = Y.din[f].size /\ W.din[f].direct = Y.din[f].direct
         /\ W.din[f].indirect = Y.din[f].indirect
         /\ W.din[f].blocks = Y.din[f].blocks + 1
         /\ \A g \in File \ {f} : W.din[g] = Y.din[g]
<1>1. /\ Y \in FsType /\ Y.din \in Inodes /\ Y.din[f] \in Inode /\ Y.oops = "no"
      /\ Y.unused = Cardinality(Y.freemap)
  BY DEF Sound, FsType, Inodes
<1>2. PICK x : x = [Y.din[f] EXCEPT !.blocks = @ + 1]
  OBVIOUS
<1>3. /\ x \in Inode /\ x.size = Y.din[f].size /\ x.direct = Y.din[f].direct
      /\ x.indirect = Y.din[f].indirect /\ x.blocks = Y.din[f].blocks + 1
  BY <1>1, <1>2 DEF Inode
<1>4. W = [Y EXCEPT !.din[f] = x]
  BY <1>2, Zenon DEF Counted
<1>5. W = [freemap |-> Y.freemap, unused |-> Y.unused, data |-> Y.data,
           din |-> [Y.din EXCEPT ![f] = x], dirty |-> Y.dirty, oops |-> Y.oops]
  BY <1>1, <1>4 DEF FsType
<1>6. PICK dins : dins = [Y.din EXCEPT ![f] = x]
  OBVIOUS
<1>7. dins \in Inodes /\ dins[f] = x /\ \A g \in File \ {f} : dins[g] = Y.din[g]
  BY <1>1, <1>3, <1>6 DEF Inodes
<1>8. W = [freemap |-> Y.freemap, unused |-> Y.unused, data |-> Y.data,
           din |-> dins, dirty |-> Y.dirty, oops |-> Y.oops]
  BY <1>5, <1>6, Zenon
<1>9. /\ Y.freemap \in SUBSET Blk /\ Y.unused \in 0..NBlock
      /\ Y.data \in [Blk -> [Cell -> Nat]] /\ Y.dirty \in [File -> BOOLEAN]
  BY <1>1 DEF FsType
<1>10. W \in FsType
  BY <1>1, <1>7, <1>8, <1>9 DEF FsType, Inodes
<1>11. /\ W.freemap = Y.freemap /\ W.unused = Y.unused /\ W.data = Y.data
       /\ W.dirty = Y.dirty /\ W.din = dins /\ W.oops = Y.oops
  BY <1>8
<1> QED BY <1>1, <1>3, <1>7, <1>10, <1>11, Zenon DEF Sound

Follows(C, D, f, din) ==
  C \in Inodes /\ C[f] = din /\ \A g \in File \ {f} : C[g] = D[g]

(* W is Z with the block b more for f, and C are the inodes then.          *)
GrownMap(Z, D, f, W, b, C) ==
  /\ Exact(Map(C, W.data), W.freemap) /\ Filled(Map(C, W.data), C)
  /\ Map(C, W.data)[f][Z.din[f].blocks] = b
  /\ \A g \in File : \A i \in Idx :
       i < Top /\ ~(g = f /\ i = Z.din[f].blocks) =>
         Map(C, W.data)[g][i] = Map(D, Z.data)[g][i]

Grown(Z, D, f, W, b) ==
  /\ Sound(W) /\ b \in Z.freemap
  /\ W.din[f].size = Z.din[f].size /\ W.din[f].blocks = Z.din[f].blocks + 1
  /\ \A g \in File \ {f} : W.din[g] = Z.din[g] /\ W.dirty[g] = Z.dirty[g]
  /\ W.data[b] = ZeroBlock
  /\ \A c \in Blk \ Z.freemap :
       (\A g \in File : c # D[g].indirect) => W.data[c] = Z.data[c]
  /\ W.unused + 1 + Need(Z.din[f]) = Z.unused + Need(W.din[f])
  /\ \A C : Follows(C, D, f, W.din[f]) => GrownMap(Z, D, f, W, b, C)

(* C has one block more than D for f, and Q the place for it.              *)
OneMore(Z, D, f, C, Q) ==
  /\ C \in Inodes /\ C[f].blocks = Z.din[f].blocks + 1 /\ Z.din[f].blocks < Top
  /\ \A g \in File \ {f} : C[g] = D[g]
  /\ Q[f][Z.din[f].blocks] # 0
  /\ \A g \in File : \A i \in Idx :
       i < Top /\ ~(g = f /\ i = Z.din[f].blocks) => Q[g][i] = Map(D, Z.data)[g][i]

(* The place behind the last block is empty.                               *)
LEMMA NextEmpty ==
  ASSUME NEW Z, NEW D, NEW f, Good(Z, D, f), Z.din[f].blocks < Top
  PROVE  /\ Z.din[f].blocks \in Idx
         /\ Map(D, Z.data)[f][Z.din[f].blocks] = 0
<1>1. Z.din[f].blocks \in 0..Top /\ f \in File
  BY GoodIs DEF Good
<1>2. Z.din[f].blocks \in Idx /\ ~(Z.din[f].blocks < Z.din[f].blocks)
  BY <1>1, Consts DEF Idx
<1>3. \A i \in Idx : i < Top => (i < Z.din[f].blocks <=> Map(D, Z.data)[f][i] # 0)
  BY GoodIs
<1> QED BY <1>2, <1>3

(* The last file has one block more, the others as many as before.         *)
LEMMA StillFilled ==
  ASSUME NEW Z, NEW D, NEW f, Good(Z, D, f), NEW C, NEW Q, OneMore(Z, D, f, C, Q)
  PROVE  Filled(Q, C)
<1>0. /\ C \in Inodes /\ C[f].blocks = Z.din[f].blocks + 1 /\ Z.din[f].blocks < Top
      /\ \A g \in File \ {f} : C[g] = D[g]
      /\ Q[f][Z.din[f].blocks] # 0
      /\ \A g \in File : \A i \in Idx :
           i < Top /\ ~(g = f /\ i = Z.din[f].blocks) => Q[g][i] = Map(D, Z.data)[g][i]
  BY DEF OneMore
<1> SUFFICES ASSUME NEW g \in File
             PROVE  /\ C[g].blocks \in 0..Top
                    /\ \A i \in Idx : i < Top => (i < C[g].blocks <=> Q[g][i] # 0)
  BY DEF Filled
<1>1. f \in File /\ Z.din[f].blocks \in 0..Top /\ Z.din[f].blocks \in Idx /\ D[f] = Z.din[f]
  BY GoodIs DEF Good, Idx
<1>2. CASE g # f
  BY <1>0, <1>2 DEF Good, Filled
<1>3. CASE g = f
  <2>1. \A i \in Idx : i < Top => (i < Z.din[f].blocks <=> Map(D, Z.data)[f][i] # 0)
    BY GoodIs
  <2>2. ASSUME NEW i \in Idx, i < Top
        PROVE  i < C[f].blocks <=> Q[f][i] # 0
    <3>1. CASE i = Z.din[f].blocks
      BY <1>0, <1>1, <2>2, <3>1, Consts
    <3>2. CASE i # Z.din[f].blocks
      <4>1. Q[f][i] = Map(D, Z.data)[f][i]
        BY <1>0, <1>1, <2>2, <3>2
      <4>2. i < Z.din[f].blocks <=> i < Z.din[f].blocks + 1
        BY <1>1, <3>2, Consts DEF Idx
      <4> QED BY <1>0, <2>1, <2>2, <4>1, <4>2
    <3> QED BY <3>1, <3>2
  <2> QED BY <1>0, <1>1, <1>3, <2>2, Consts
<1> QED BY <1>2, <1>3

(* W is Z with block b for the direct block n of f ...                      *)
DirectAdded(Z, f, W, n, b) ==
  /\ n \in 0..(NDirect - 1) /\ n = Z.din[f].blocks /\ b \in Z.freemap /\ b \in Blk
  /\ Sound(W) /\ W.data \in Datas
  /\ W.freemap = Z.freemap \ {b} /\ W.unused = Z.unused - 1
  /\ W.din[f].size = Z.din[f].size /\ W.din[f].blocks = Z.din[f].blocks + 1
  /\ W.din[f].indirect = Z.din[f].indirect /\ W.din[f].direct[n] = b
  /\ \A j \in 0..(NDirect - 1) : j # n => W.din[f].direct[j] = Z.din[f].direct[j]
  /\ \A g \in File \ {f} : W.din[g] = Z.din[g] /\ W.dirty[g] = Z.dirty[g]
  /\ W.data[b] = ZeroBlock
  /\ \A c \in Blk \ Z.freemap : W.data[c] = Z.data[c]

(* ... as sfs_bmap_get and the count make it ...                           *)
LEMMA AddsDirect ==
  ASSUME NEW Z, NEW D, NEW f, Good(Z, D, f), NEW n, n = Z.din[f].blocks, n < NDirect,
         NEW b \in Z.freemap, NEW Y,
         Y = Changed(Taken(Z, b), f, WithDirect(Z.din[f], n, b)),
         NEW W, W = Counted(Y, f)
  PROVE  DirectAdded(Z, f, W, n, b)
<1>1. /\ Sound(Z) /\ f \in File /\ Z.din[f] \in Inode /\ Z.unused \in Nat
      /\ n \in 0..(NDirect - 1)
  BY GoodIs, Consts DEF Good, Idx
<1>2. PICK V : V = Taken(Z, b)
  OBVIOUS
<1>3. /\ Sound(V) /\ b \in Blk
      /\ V.freemap = Z.freemap \ {b} /\ V.unused = Z.unused - 1
      /\ V.data \in Datas /\ V.data[b] = ZeroBlock
      /\ \A c \in Blk \ {b} : V.data[c] = Z.data[c]
      /\ V.din = Z.din /\ V.dirty = Z.dirty
  BY <1>1, <1>2, TakenIs
<1>4. PICK x : x = WithDirect(Z.din[f], n, b)
  OBVIOUS
<1>5. /\ x \in Inode /\ x.size = Z.din[f].size /\ x.blocks = Z.din[f].blocks
      /\ x.indirect = Z.din[f].indirect /\ x.direct[n] = b
      /\ \A j \in 0..(NDirect - 1) : j # n => x.direct[j] = Z.din[f].direct[j]
  BY <1>1, <1>3, <1>4 DEF Inode, WithDirect
<1>6. Y = Changed(V, f, x)
  BY <1>2, <1>4, Zenon
<1>7. /\ Y \in FsType /\ Y.freemap = V.freemap /\ Y.unused = V.unused
      /\ Y.data = V.data /\ Y.oops = V.oops
      /\ Y.din \in Inodes /\ Y.din[f] = x
      /\ \A g \in File \ {f} : Y.din[g] = V.din[g] /\ Y.dirty[g] = V.dirty[g]
  <2>1. V \in FsType
    BY <1>3 DEF Sound
  <2> QED BY <1>1, <1>5, <1>6, <2>1, ChangedIs
<1>8. Sound(Y)
  BY <1>3, <1>7 DEF Sound
<1>9. /\ Sound(W) /\ W.freemap = Y.freemap /\ W.unused = Y.unused /\ W.data = Y.data
      /\ W.dirty = Y.dirty /\ W.din \in Inodes
      /\ W.din[f].size = Y.din[f].size /\ W.din[f].direct = Y.din[f].direct
      /\ W.din[f].indirect = Y.din[f].indirect
      /\ W.din[f].blocks = Y.din[f].blocks + 1
      /\ \A g \in File \ {f} : W.din[g] = Y.din[g]
  BY <1>1, <1>8, CountedIs
<1>10. \A g \in File \ {f} : Y.din[g] = Z.din[g] /\ Y.dirty[g] = Z.dirty[g]
  BY <1>3, <1>7, Zenon
<1>11. \A g \in File \ {f} : W.din[g] = Z.din[g] /\ W.dirty[g] = Z.dirty[g]
  BY <1>9, <1>10, Zenon
<1>12. /\ W.data \in Datas /\ W.data[b] = ZeroBlock
       /\ \A c \in Blk \ Z.freemap : W.data[c] = Z.data[c]
  BY <1>3, <1>7, <1>9
<1>13. /\ W.freemap = Z.freemap \ {b} /\ W.unused = Z.unused - 1
       /\ W.din[f].size = Z.din[f].size /\ W.din[f].blocks = Z.din[f].blocks + 1
       /\ W.din[f].indirect = Z.din[f].indirect /\ W.din[f].direct = x.direct
  BY <1>3, <1>5, <1>7, <1>9
<1>14. /\ W.din[f].direct[n] = b
       /\ \A j \in 0..(NDirect - 1) : j # n => W.din[f].direct[j] = Z.din[f].direct[j]
  BY <1>5, <1>13
<1>15. n = Z.din[f].blocks /\ b \in Z.freemap
  OBVIOUS
<1> QED BY <1>1, <1>3, <1>9, <1>11, <1>12, <1>13, <1>14, <1>15, Zenon DEF DirectAdded

(* ... is one block more.                                                  *)
LEMMA GrowsDirect ==
  ASSUME NEW Z, NEW D, NEW f, NEW W, NEW n, NEW b, Good(Z, D, f), DirectAdded(Z, f, W, n, b)
  PROVE  Grown(Z, D, f, W, b)
<1>1. /\ f \in File /\ D \in Inodes /\ D[f] = Z.din[f] /\ Z.data \in Datas
      /\ Z.din[f] \in Inode /\ Z.unused \in Nat
      /\ Map(D, Z.data) \in [File -> [Idx -> {0} \cup Blk]]
      /\ Exact(Map(D, Z.data), Z.freemap)
  BY GoodIs DEF Good
<1>2. /\ n \in 0..(NDirect - 1) /\ n = Z.din[f].blocks /\ b \in Z.freemap /\ b \in Blk
      /\ Sound(W) /\ W.data \in Datas
      /\ W.freemap = Z.freemap \ {b} /\ W.unused = Z.unused - 1
      /\ W.din[f].size = Z.din[f].size /\ W.din[f].blocks = Z.din[f].blocks + 1
      /\ W.din[f].indirect = Z.din[f].indirect /\ W.din[f].direct[n] = b
      /\ W.data[b] = ZeroBlock
  BY DEF DirectAdded
<1>3. \A j \in 0..(NDirect - 1) : j # n => W.din[f].direct[j] = Z.din[f].direct[j]
  BY DEF DirectAdded
<1>4. \A c \in Blk \ Z.freemap : W.data[c] = Z.data[c]
  BY DEF DirectAdded
<1>5. \A g \in File \ {f} : W.din[g] = Z.din[g] /\ W.dirty[g] = Z.dirty[g]
  BY Zenon DEF DirectAdded
<1>6. n \in Idx /\ n < Top /\ b # 0 /\ b \in {0} \cup Blk
  BY <1>2, Consts DEF Idx
<1>7. W.unused + 1 + Need(Z.din[f]) = Z.unused + Need(W.din[f])
  BY <1>1, <1>2 DEF Need
<1>8. Map(D, Z.data)[f][n] = 0
  BY <1>2, <1>6, GoodIs, Consts
<1>9. ASSUME NEW C, Follows(C, D, f, W.din[f])
      PROVE  GrownMap(Z, D, f, W, b, C)
  <2>1. C \in Inodes /\ C[f] = W.din[f] /\ \A g \in File \ {f} : C[g] = D[g]
    BY <1>9 DEF Follows
  <2>2. PICK P, Q : P = Map(D, Z.data) /\ Q = Map(C, W.data)
    OBVIOUS
  <2>3. Q = SetAt(P, f, n, b)
    <3>1. \A g \in File : C[g].indirect = D[g].indirect
      BY <1>1, <1>2, <2>1
    <3>2. /\ C[f].direct[n] = b
          /\ \A j \in 0..(NDirect - 1) : j # n => C[f].direct[j] = D[f].direct[j]
      BY <1>1, <1>2, <1>3, <2>1
    <3>3. \A g \in File : D[g].indirect # 0 => W.data[D[g].indirect] = Z.data[D[g].indirect]
      BY <1>4, GoodIs
    <3>4. \A g \in File \ {f} : C[g].direct = D[g].direct
      BY <2>1
    <3>5. Map(C, W.data) = SetAt(Map(D, Z.data), f, n, b)
      <4>1. DirectSet(D, C, Z.data, W.data, f, n, b)
        BY <1>1, <1>2, <1>6, <2>1, <3>1, <3>2, <3>3, <3>4 DEF DirectSet
      <4> QED BY <4>1, DirectSetMap
    <3> QED BY <2>2, <3>5
  <2>4. P \in [File -> [Idx -> {0} \cup Blk]] /\ Exact(P, Z.freemap) /\ P[f][n] = 0
    BY <1>1, <1>8, <2>2
  <2>5. Exact(Q, W.freemap)
    <3>1. Exact(SetAt(P, f, n, b), Z.freemap \ {b})
      BY <1>1, <1>2, <1>6, <2>4, TakeExact
    <3> QED BY <1>2, <2>3, <3>1
  <2>6. \A g \in File : \A i \in Idx : Q[g][i] = IF g = f /\ i = n THEN b ELSE P[g][i]
    BY <1>1, <1>6, <2>3, <2>4, SetAtIs
  <2>7. /\ Q[f][n] = b
        /\ \A g \in File : \A i \in Idx : ~(g = f /\ i = n) => Q[g][i] = P[g][i]
    BY <1>1, <1>6, <2>6
  <2>8. Filled(Q, C)
    <3>1. OneMore(Z, D, f, C, Q)
      BY <1>2, <1>6, <2>1, <2>2, <2>7 DEF OneMore
    <3> QED BY <3>1, StillFilled
  <2> QED BY <1>2, <2>2, <2>5, <2>7, <2>8 DEF GrownMap
<1>10. \A c \in Blk \ Z.freemap :
         (\A g \in File : c # D[g].indirect) => W.data[c] = Z.data[c]
  BY <1>4
<1> QED BY <1>2, <1>5, <1>7, <1>9, <1>10, Zenon DEF Grown

(* Indirect blocks are apart.                                              *)
LEMMA IndirectsApart ==
  ASSUME NEW Z, NEW D, NEW f, Good(Z, D, f), Z.din[f].indirect # 0
  PROVE  \A g \in File \ {f} : D[g].indirect # Z.din[f].indirect
<1>1. /\ f \in File /\ D \in Inodes /\ Z.data \in Datas /\ D[f] = Z.din[f]
      /\ Exact(Map(D, Z.data), Z.freemap) /\ Top \in Idx
  BY GoodIs, Consts DEF Good, Idx
<1>2. \A g \in File : Map(D, Z.data)[g][Top] = D[g].indirect
  BY <1>1, MapIs
<1> QED BY <1>1, <1>2 DEF Exact

(* W is Z with block b at entry j of the indirect block of f ...           *)
EntryAdded(Z, f, W, j, b) ==
  /\ j \in Slot /\ Z.din[f].blocks = EntryAt(j) /\ Z.din[f].indirect # 0
  /\ Sound(W) /\ b \in Z.freemap /\ W.data \in Datas
  /\ W.freemap = Z.freemap \ {b} /\ W.unused = Z.unused - 1
  /\ W.din[f].size = Z.din[f].size /\ W.din[f].blocks = Z.din[f].blocks + 1
  /\ W.din[f].direct = Z.din[f].direct /\ W.din[f].indirect = Z.din[f].indirect
  /\ \A g \in File \ {f} : W.din[g] = Z.din[g] /\ W.dirty[g] = Z.dirty[g]
  /\ W.data[b] = ZeroBlock
  /\ W.data[Z.din[f].indirect] = WithEntry(Z.data[Z.din[f].indirect], j, b)
  /\ \A c \in Blk \ Z.freemap : c # Z.din[f].indirect => W.data[c] = Z.data[c]

(* ... and with e for the indirect block, which was u before.              *)
IndirectAdded(Z, f, W, u, j, e, b) ==
  /\ j \in Slot /\ Z.din[f].blocks = EntryAt(j) /\ Z.din[f].indirect = 0
  /\ Sound(W) /\ e \in Z.freemap /\ b \in Z.freemap /\ b # e
  /\ W.data \in Datas /\ u \in Datas
  /\ W.freemap = (Z.freemap \ {e}) \ {b} /\ W.unused = Z.unused - 2
  /\ W.din[f].size = Z.din[f].size /\ W.din[f].blocks = Z.din[f].blocks + 1
  /\ W.din[f].direct = Z.din[f].direct /\ W.din[f].indirect = e
  /\ \A g \in File \ {f} : W.din[g] = Z.din[g] /\ W.dirty[g] = Z.dirty[g]
  /\ W.data[b] = ZeroBlock /\ u[e] = ZeroBlock /\ W.data[e] = WithEntry(u[e], j, b)
  /\ \A c \in Blk \ Z.freemap : W.data[c] = Z.data[c] /\ u[c] = Z.data[c]

(* sfs_bmap_get with an indirect block and the count make such a W ...      *)
LEMMA AddsEntry ==
  ASSUME NEW Z, NEW D, NEW f, Good(Z, D, f), NEW j \in Slot, NEW n,
         n = Z.din[f].blocks, n = EntryAt(j), NEW e, e = Z.din[f].indirect, e # 0,
         NEW b \in Z.freemap, NEW Y, Y = PutEntry(Taken(Z, b), e, j, b),
         NEW W, W = Counted(Y, f)
  PROVE  EntryAdded(Z, f, W, j, b)
<1>1. /\ Sound(Z) /\ f \in File /\ D \in Inodes /\ D[f] = Z.din[f] /\ Z.data \in Datas
      /\ Z.din[f] \in Inode /\ Z.unused \in Nat /\ n \in Idx
      /\ Map(D, Z.data) \in [File -> [Idx -> {0} \cup Blk]]
      /\ Exact(Map(D, Z.data), Z.freemap) /\ n < Top
  BY GoodIs, Consts DEF Good, Idx, Slot, EntryAt
<1>2. /\ Sound(Taken(Z, b)) /\ b \in Blk
      /\ Taken(Z, b).freemap = Z.freemap \ {b} /\ Taken(Z, b).unused = Z.unused - 1
      /\ Taken(Z, b).data \in Datas /\ Taken(Z, b).data[b] = ZeroBlock
      /\ \A c \in Blk \ {b} : Taken(Z, b).data[c] = Z.data[c]
      /\ Taken(Z, b).din = Z.din /\ Taken(Z, b).dirty = Z.dirty
  BY <1>1, TakenIs
<1>3. e \in Blk \ Z.freemap /\ e # b /\ b \in Nat /\ b # 0
  BY <1>1, <1>2, GoodIs, Consts
<1>4. /\ Sound(Y) /\ Y.freemap = Z.freemap \ {b} /\ Y.unused = Z.unused - 1
      /\ Y.din = Z.din /\ Y.dirty = Z.dirty /\ Y.data \in Datas
      /\ Y.data[e] = WithEntry(Z.data[e], j, b)
      /\ \A c \in Blk \ {e} : Y.data[c] = Taken(Z, b).data[c]
  <2>1. PICK V : V = Taken(Z, b)
    OBVIOUS
  <2>2. Sound(V) /\ e \in Blk /\ b \in Nat
    BY <1>2, <1>3, <2>1
  <2>3. /\ Sound(Y) /\ Y.freemap = V.freemap /\ Y.unused = V.unused
        /\ Y.din = V.din /\ Y.dirty = V.dirty /\ Y.data \in Datas
        /\ Y.data[e] = WithEntry(V.data[e], j, b)
        /\ \A c \in Blk \ {e} : Y.data[c] = V.data[c]
    <3>1. Y = PutEntry(V, e, j, b)
      BY <2>1
    <3> QED BY <2>2, <3>1, PutEntryIs
  <2> QED BY <1>2, <1>3, <2>1, <2>3
<1>5. /\ Sound(W) /\ W.freemap = Y.freemap /\ W.unused = Y.unused /\ W.data = Y.data
      /\ W.dirty = Y.dirty /\ W.din \in Inodes
      /\ W.din[f].size = Y.din[f].size /\ W.din[f].direct = Y.din[f].direct
      /\ W.din[f].indirect = Y.din[f].indirect
      /\ W.din[f].blocks = Y.din[f].blocks + 1
      /\ \A g \in File \ {f} : W.din[g] = Y.din[g]
  <2>1. Sound(Y) /\ f \in File
    BY <1>1, <1>4
  <2> QED BY <2>1, CountedIs
<1>6. \A c \in Blk \ Z.freemap : c # e => W.data[c] = Z.data[c]
  BY <1>2, <1>4, <1>5
<1>7. W.data[b] = ZeroBlock
  BY <1>2, <1>3, <1>4, <1>5
<1>8. \A g \in File \ {f} : W.din[g] = Z.din[g] /\ W.dirty[g] = Z.dirty[g]
  BY <1>4, <1>5, Zenon
<1>9. /\ W.data \in Datas /\ W.freemap = Z.freemap \ {b} /\ W.unused = Z.unused - 1
      /\ W.data[e] = WithEntry(Z.data[e], j, b)
      /\ W.din[f].size = Z.din[f].size /\ W.din[f].blocks = Z.din[f].blocks + 1
      /\ W.din[f].direct = Z.din[f].direct /\ W.din[f].indirect = Z.din[f].indirect
  BY <1>4, <1>5
<1>10. Z.din[f].blocks = EntryAt(j) /\ Z.din[f].indirect # 0 /\ b \in Z.freemap /\ j \in Slot
  OBVIOUS
<1> QED BY <1>5, <1>6, <1>7, <1>8, <1>9, <1>10, Zenon DEF EntryAdded

(* ... and so does sfs_bmap_get when it makes the indirect block.          *)
LEMMA AddsIndirect ==
  ASSUME NEW Z, NEW D, NEW f, Good(Z, D, f), NEW j \in Slot, NEW n,
         n = Z.din[f].blocks, n = EntryAt(j), Z.din[f].indirect = 0,
         NEW e \in Z.freemap, NEW b \in Z.freemap \ {e},
         NEW X, X = PutEntry(Taken(Taken(Z, e), b), e, j, b),
         NEW Y, Y = Changed(X, f, WithIndirect(Z.din[f], e)), NEW W, W = Counted(Y, f)
  PROVE  \E u \in Datas : IndirectAdded(Z, f, W, u, j, e, b)
<1>1. /\ Sound(Z) /\ f \in File /\ Z.data \in Datas
      /\ Z.din[f] \in Inode /\ Z.unused \in Nat
  BY GoodIs DEF Good
<1>2. PICK V : V = Taken(Z, e)
  OBVIOUS
<1>3. /\ Sound(V) /\ e \in Blk /\ V.freemap = Z.freemap \ {e} /\ V.unused = Z.unused - 1
      /\ V.data \in Datas /\ V.data[e] = ZeroBlock
      /\ \A c \in Blk \ {e} : V.data[c] = Z.data[c]
      /\ V.din = Z.din /\ V.dirty = Z.dirty
  BY <1>1, <1>2, TakenIs
<1>4. PICK U : U = Taken(V, b)
  OBVIOUS
<1>5. /\ Sound(U) /\ b \in Blk /\ U.freemap = (Z.freemap \ {e}) \ {b}
      /\ U.unused = Z.unused - 2 /\ U.data \in Datas /\ U.data[b] = ZeroBlock
      /\ \A c \in Blk \ {b} : U.data[c] = V.data[c]
      /\ U.din = Z.din /\ U.dirty = Z.dirty
  <2>1. b \in V.freemap
    BY <1>3
  <2>2. /\ Sound(U) /\ b \in Blk /\ U.freemap = V.freemap \ {b}
        /\ U.unused = V.unused - 1 /\ U.data \in Datas /\ U.data[b] = ZeroBlock
        /\ \A c \in Blk \ {b} : U.data[c] = V.data[c]
        /\ U.din = V.din /\ U.dirty = V.dirty
    BY <1>3, <1>4, <2>1, TakenIs
  <2> QED BY <1>1, <1>3, <2>2
<1>6. e # b /\ b \in Nat /\ b # 0 /\ e # 0
  BY <1>3, <1>5, Consts
<1>7. /\ Sound(X) /\ X.freemap = U.freemap /\ X.unused = U.unused
      /\ X.din = Z.din /\ X.dirty = Z.dirty /\ X.data \in Datas
      /\ X.data[e] = WithEntry(U.data[e], j, b)
      /\ \A c \in Blk \ {e} : X.data[c] = U.data[c]
  <2>1. X = PutEntry(U, e, j, b)
    BY <1>2, <1>4, Zenon
  <2> QED BY <1>3, <1>5, <1>6, <2>1, PutEntryIs
<1>8. PICK x : x = WithIndirect(Z.din[f], e)
  OBVIOUS
<1>9. /\ x \in Inode /\ x.size = Z.din[f].size /\ x.blocks = Z.din[f].blocks
      /\ x.indirect = e /\ x.direct = Z.din[f].direct
  BY <1>1, <1>3, <1>8 DEF Inode, WithIndirect
<1>10. /\ Y \in FsType /\ Y.freemap = X.freemap /\ Y.unused = X.unused
       /\ Y.data = X.data /\ Y.oops = X.oops /\ Y.din \in Inodes /\ Y.din[f] = x
       /\ \A g \in File \ {f} : Y.din[g] = Z.din[g] /\ Y.dirty[g] = Z.dirty[g]
  <2>1. X \in FsType
    BY <1>7 DEF Sound
  <2>2. Y = Changed(X, f, x)
    BY <1>8, Zenon
  <2> QED BY <1>1, <1>7, <1>9, <2>1, <2>2, ChangedIs
<1>11. Sound(Y)
  BY <1>7, <1>10 DEF Sound
<1>12. /\ Sound(W) /\ W.freemap = Y.freemap /\ W.unused = Y.unused /\ W.data = Y.data
       /\ W.dirty = Y.dirty /\ W.din \in Inodes
       /\ W.din[f].size = Y.din[f].size /\ W.din[f].direct = Y.din[f].direct
       /\ W.din[f].indirect = Y.din[f].indirect
       /\ W.din[f].blocks = Y.din[f].blocks + 1
       /\ \A g \in File \ {f} : W.din[g] = Y.din[g]
  BY <1>1, <1>11, CountedIs
<1>13. \A c \in Blk \ Z.freemap : W.data[c] = Z.data[c] /\ U.data[c] = Z.data[c]
  BY <1>3, <1>5, <1>7, <1>10, <1>12
<1>14. W.data[b] = ZeroBlock /\ U.data[e] = ZeroBlock
  BY <1>3, <1>5, <1>6, <1>7, <1>10, <1>12
<1>15. \A g \in File \ {f} : W.din[g] = Z.din[g] /\ W.dirty[g] = Z.dirty[g]
  BY <1>10, <1>12
<1>16. /\ W.data \in Datas /\ U.data \in Datas
       /\ W.freemap = (Z.freemap \ {e}) \ {b} /\ W.unused = Z.unused - 2
       /\ W.data[e] = WithEntry(U.data[e], j, b)
  BY <1>5, <1>7, <1>10, <1>12
<1>17. /\ W.din[f].size = Z.din[f].size /\ W.din[f].blocks = Z.din[f].blocks + 1
       /\ W.din[f].direct = Z.din[f].direct /\ W.din[f].indirect = e
  <2>1. Y.din[f] = x
    BY <1>10
  <2> QED BY <1>9, <1>12, <2>1
<1>18. /\ Z.din[f].blocks = EntryAt(j) /\ Z.din[f].indirect = 0 /\ b \in Z.freemap
       /\ e \in Z.freemap /\ j \in Slot
  OBVIOUS
<1>19. IndirectAdded(Z, f, W, U.data, j, e, b)
  BY <1>6, <1>12, <1>13, <1>14, <1>15, <1>16, <1>17, <1>18, Zenon DEF IndirectAdded
<1> QED BY <1>16, <1>19, Zenon

(* Such a W is a file system with one block more.                          *)
LEMMA GrowsEntry ==
  ASSUME NEW Z, NEW D, NEW f, NEW W, NEW j, NEW b, Good(Z, D, f), EntryAdded(Z, f, W, j, b)
  PROVE  Grown(Z, D, f, W, b)
<1>1. /\ Sound(Z) /\ f \in File /\ D \in Inodes /\ D[f] = Z.din[f] /\ Z.data \in Datas
      /\ Z.freemap \subseteq Blk /\ Z.unused \in Nat
      /\ Map(D, Z.data) \in [File -> [Idx -> {0} \cup Blk]]
      /\ Exact(Map(D, Z.data), Z.freemap)
  BY GoodIs DEF Good
<1>2. /\ j \in Slot /\ Z.din[f].blocks = EntryAt(j) /\ Z.din[f].indirect # 0
      /\ Sound(W) /\ b \in Z.freemap /\ W.data \in Datas
      /\ W.freemap = Z.freemap \ {b} /\ W.unused = Z.unused - 1
      /\ W.din[f].size = Z.din[f].size /\ W.din[f].blocks = Z.din[f].blocks + 1
      /\ W.din[f].direct = Z.din[f].direct /\ W.din[f].indirect = Z.din[f].indirect
  BY DEF EntryAdded
<1>3. /\ W.data[b] = ZeroBlock
      /\ W.data[Z.din[f].indirect] = WithEntry(Z.data[Z.din[f].indirect], j, b)
      /\ \A c \in Blk \ Z.freemap : c # Z.din[f].indirect => W.data[c] = Z.data[c]
  BY DEF EntryAdded
<1>4. \A g \in File \ {f} : W.din[g] = Z.din[g] /\ W.dirty[g] = Z.dirty[g]
  BY Zenon DEF EntryAdded
<1>5. EntryAt(j) < Top
  BY <1>2, Consts DEF EntryAt, Slot
<1>6. EntryAt(j) \in Idx /\ Map(D, Z.data)[f][EntryAt(j)] = 0
  BY <1>2, <1>5, NextEmpty
<1>7. W.unused + 1 + Need(Z.din[f]) = Z.unused + Need(W.din[f])
  BY <1>1, <1>2 DEF Need
<1>8. ASSUME NEW C, Follows(C, D, f, W.din[f])
      PROVE  GrownMap(Z, D, f, W, b, C)
  <2>1. C \in Inodes /\ C[f] = W.din[f] /\ \A g \in File \ {f} : C[g] = D[g]
    BY <1>8 DEF Follows
  <2>2. b \in {0} \cup Blk /\ b # 0
    BY <1>1, <1>2, Consts
  <2>3. \A g \in File : C[g].indirect = D[g].indirect /\ C[g].direct = D[g].direct
    BY <1>1, <1>2, <2>1
  <2>4. Map(C, Z.data) = Map(D, Z.data)
    BY <1>1, <2>1, <2>3, SameMap
  <2>5. EntrySet(C, Z.data, W.data, f, j, b)
    <3>1. \A g \in File \ {f} :
            C[g].indirect # 0 => W.data[C[g].indirect] = Z.data[C[g].indirect]
      BY <1>2, <1>3, <2>3, IndirectsApart, GoodIs
    <3>2. C[f].indirect = Z.din[f].indirect
      BY <1>2, <2>1
    <3> QED BY <1>1, <1>2, <1>3, <2>1, <2>2, <2>4, <3>1, <3>2 DEF EntrySet
  <2>6. Map(C, W.data) = SetAt(Map(D, Z.data), f, EntryAt(j), b)
    BY <2>4, <2>5, EntrySetMap
  <2>7. Exact(Map(C, W.data), W.freemap)
    BY <1>1, <1>2, <1>6, <2>6, TakeExact
  <2>8. \A g \in File : \A i \in Idx :
          Map(C, W.data)[g][i]
            = IF g = f /\ i = EntryAt(j) THEN b ELSE Map(D, Z.data)[g][i]
    BY <1>1, <1>6, <2>2, <2>6, SetAtIs
  <2>9. OneMore(Z, D, f, C, Map(C, W.data))
    BY <1>1, <1>2, <1>5, <1>6, <2>1, <2>2, <2>8 DEF OneMore
  <2>10. Filled(Map(C, W.data), C)
    BY <2>9, StillFilled
  <2> QED BY <1>1, <1>2, <1>6, <2>7, <2>8, <2>10 DEF GrownMap
<1>9. \A c \in Blk \ Z.freemap :
        (\A g \in File : c # D[g].indirect) => W.data[c] = Z.data[c]
  BY <1>1, <1>3
<1> QED BY <1>2, <1>3, <1>4, <1>7, <1>8, <1>9, Zenon DEF Grown

(* A file that gets its indirect block along with its first entry.         *)
LEMMA GrowsIndirect ==
  ASSUME NEW Z, NEW D, NEW f, NEW W, NEW u, NEW j, NEW e, NEW b, Good(Z, D, f),
         IndirectAdded(Z, f, W, u, j, e, b)
  PROVE  Grown(Z, D, f, W, b)
<1>1. /\ Sound(Z) /\ f \in File /\ D \in Inodes /\ D[f] = Z.din[f] /\ Z.data \in Datas
      /\ Z.freemap \subseteq Blk /\ Z.unused \in Nat
      /\ Map(D, Z.data) \in [File -> [Idx -> {0} \cup Blk]]
      /\ Exact(Map(D, Z.data), Z.freemap)
  BY GoodIs DEF Good
<1>2. /\ j \in Slot /\ Z.din[f].blocks = EntryAt(j) /\ Z.din[f].indirect = 0
      /\ Sound(W) /\ e \in Z.freemap /\ b \in Z.freemap /\ b # e
      /\ W.data \in Datas /\ u \in Datas
      /\ W.freemap = (Z.freemap \ {e}) \ {b} /\ W.unused = Z.unused - 2
      /\ W.din[f].size = Z.din[f].size /\ W.din[f].blocks = Z.din[f].blocks + 1
      /\ W.din[f].direct = Z.din[f].direct /\ W.din[f].indirect = e
  BY DEF IndirectAdded
<1>3. /\ W.data[b] = ZeroBlock /\ u[e] = ZeroBlock /\ W.data[e] = WithEntry(u[e], j, b)
      /\ \A c \in Blk \ Z.freemap : W.data[c] = Z.data[c] /\ u[c] = Z.data[c]
  BY DEF IndirectAdded
<1>4. \A g \in File \ {f} : W.din[g] = Z.din[g] /\ W.dirty[g] = Z.dirty[g]
  BY Zenon DEF IndirectAdded
<1>5. EntryAt(j) < Top
  BY <1>2, Consts DEF EntryAt, Slot
<1>6. EntryAt(j) \in Idx /\ Map(D, Z.data)[f][EntryAt(j)] = 0
  BY <1>2, <1>5, NextEmpty
<1>7. W.unused + 1 + Need(Z.din[f]) = Z.unused + Need(W.din[f])
  <2>1. e # 0
    BY <1>1, <1>2, Consts
  <2>2. Need(Z.din[f]) = 1 /\ Need(W.din[f]) = 0
    BY <1>2, <2>1 DEF Need
  <2> QED BY <1>1, <1>2, <2>2
<1>8. Top \in Idx /\ Map(D, Z.data)[f][Top] = 0 /\ EntryAt(j) # Top
  BY <1>1, <1>2, <1>5, MapIs, Consts DEF Idx
<1>9. ASSUME NEW C, Follows(C, D, f, W.din[f])
      PROVE  GrownMap(Z, D, f, W, b, C)
  <2>1. C \in Inodes /\ C[f] = W.din[f] /\ \A g \in File \ {f} : C[g] = D[g]
    BY <1>9 DEF Follows
  <2>2. b \in {0} \cup Blk /\ b # 0 /\ e \in {0} \cup Blk /\ e # 0 /\ e \in Blk
    BY <1>1, <1>2, Consts
  <2>3. C[f].indirect = e /\ D[f].indirect = 0 /\ \A g \in File : C[g].direct = D[g].direct
    BY <1>1, <1>2, <2>1
  <2>4. \A g \in File \ {f} :
          /\ C[g].indirect = D[g].indirect
          /\ D[g].indirect # 0 => /\ u[D[g].indirect] = Z.data[D[g].indirect]
                                  /\ W.data[D[g].indirect] = Z.data[D[g].indirect]
    BY <1>3, <2>1, GoodIs
  <2>5. PICK Q : Q = SetAt(Map(D, Z.data), f, Top, e)
    OBVIOUS
  <2>6. Map(C, u) = Q
    <3>1. IndirectSet(D, C, Z.data, u, f, e)
      BY <1>1, <1>2, <1>3, <2>1, <2>2, <2>3, <2>4 DEF IndirectSet
    <3> QED BY <2>5, <3>1, IndirectSetMap
  <2>7. /\ Q \in [File -> [Idx -> {0} \cup Blk]]
        /\ \A g \in File : \A i \in Idx :
             Q[g][i] = IF g = f /\ i = Top THEN e ELSE Map(D, Z.data)[g][i]
    <3>1. PICK P : P = Map(D, Z.data)
      OBVIOUS
    <3>2. P \in [File -> [Idx -> {0} \cup Blk]]
      BY <1>1, <3>1 DEF Exact
    <3>3. Q = SetAt(P, f, Top, e) /\ Top \in Idx /\ f \in File
      BY <1>1, <1>8, <2>5, <3>1
    <3> QED BY <2>2, <3>1, <3>2, <3>3, SetAtIs
  <2>8. Exact(Q, Z.freemap \ {e})
    BY <1>1, <1>2, <1>8, <2>5, TakeExact
  <2>9. EntrySet(C, u, W.data, f, j, b)
    <3>1. \A g \in File \ {f} :
            C[g].indirect # 0 => W.data[C[g].indirect] = u[C[g].indirect]
      BY <2>4
    <3> QED BY <1>1, <1>2, <1>3, <2>1, <2>2, <2>3, <2>6, <2>7, <3>1 DEF EntrySet
  <2>10. Map(C, W.data) = SetAt(Q, f, EntryAt(j), b)
    BY <2>6, <2>9, EntrySetMap
  <2>11. Q[f][EntryAt(j)] = 0
    BY <1>1, <1>6, <1>8, <2>7
  <2>12. Exact(Map(C, W.data), W.freemap)
    BY <1>1, <1>2, <1>6, <2>8, <2>10, <2>11, TakeExact
  <2>13. \A g \in File : \A i \in Idx :
           Map(C, W.data)[g][i] = IF g = f /\ i = EntryAt(j) THEN b ELSE Q[g][i]
    BY <1>1, <1>6, <2>2, <2>7, <2>10, SetAtIs
  <2>14. \A g \in File : \A i \in Idx :
           i < Top /\ ~(g = f /\ i = EntryAt(j)) =>
             Map(C, W.data)[g][i] = Map(D, Z.data)[g][i]
    <3>1. \A i \in Idx : i < Top => i # Top
      BY Consts DEF Idx
    <3> QED BY <2>7, <2>13, <3>1
  <2>15. OneMore(Z, D, f, C, Map(C, W.data))
    BY <1>1, <1>2, <1>5, <1>6, <2>1, <2>2, <2>13, <2>14 DEF OneMore
  <2>16. Filled(Map(C, W.data), C)
    BY <2>15, StillFilled
  <2> QED BY <1>1, <1>2, <1>6, <2>12, <2>13, <2>14, <2>16 DEF GrownMap
<1>10. \A c \in Blk \ Z.freemap :
         (\A g \in File : c # D[g].indirect) => W.data[c] = Z.data[c]
  BY <1>3
<1> QED BY <1>2, <1>3, <1>4, <1>7, <1>9, <1>10, Zenon DEF Grown

(* W is Z but for the contents of free blocks, and there was no room.      *)
Kept(Z, f, W) ==
  /\ Sound(W) /\ W.freemap = Z.freemap /\ W.unused = Z.unused
  /\ W.din = Z.din /\ W.dirty = Z.dirty
  /\ \A c \in Blk \ Z.freemap : W.data[c] = Z.data[c]
  /\ Z.unused < 1 + Need(Z.din[f]) /\ Z.din[f].blocks < Top

(* The kernel has stopped because an inode addresses no more blocks.       *)
OutOfRange(Z, f, W) ==
  /\ Z.din[f].blocks = Top /\ W \in FsType /\ W.oops = "range"
  /\ W.din = Z.din /\ W.data = Z.data

(* A failure without a free block ...                                      *)
LEMMA KeptFull ==
  ASSUME NEW Z, NEW D, NEW f, Good(Z, D, f), Z.unused = 0,
         Z.din[f].blocks < Top
  PROVE  Kept(Z, f, Z)
<1>1. Sound(Z) /\ Z.unused < 1 + Need(Z.din[f])
  BY DEF Good, Need
<1> QED BY <1>1, Zenon DEF Kept

(* ... and with one that is taken for the indirect block and given back.   *)
LEMMA KeptOne ==
  ASSUME NEW Z, NEW D, NEW f, Good(Z, D, f), Z.unused = 1, Z.din[f].indirect = 0,
         NEW e \in Z.freemap, Z.din[f].blocks < Top
  PROVE  Kept(Z, f, sfs_block_free(Taken(Z, e), e))
<1>1. Sound(Z) /\ Z.unused < 1 + Need(Z.din[f]) /\ Z.freemap \subseteq Blk
  BY GoodIs DEF Good, Need
<1>2. PICK V : V = Taken(Z, e)
  OBVIOUS
<1>3. /\ Sound(V) /\ e \in Blk /\ V.freemap = Z.freemap \ {e} /\ V.unused = Z.unused - 1
      /\ V.data \in Datas /\ V.din = Z.din /\ V.dirty = Z.dirty
      /\ \A c \in Blk \ {e} : V.data[c] = Z.data[c]
  BY <1>1, <1>2, TakenIs
<1>4. PICK W : W = sfs_block_free(V, e)
  OBVIOUS
<1>5. /\ Sound(W) /\ W.freemap = V.freemap \cup {e} /\ W.unused = V.unused + 1
      /\ W.data = V.data /\ W.din = V.din /\ W.dirty = V.dirty
  BY <1>3, <1>4, FreeIs
<1>6. W.freemap = Z.freemap /\ W.unused = Z.unused
  BY <1>3, <1>5
<1>7. \A c \in Blk \ Z.freemap : W.data[c] = Z.data[c]
  BY <1>3, <1>5
<1>8. W.din = Z.din /\ W.dirty = Z.dirty
  BY <1>3, <1>5
<1>9. Kept(Z, f, W)
  BY <1>1, <1>5, <1>6, <1>7, <1>8, Zenon DEF Kept
<1> QED BY <1>2, <1>4, <1>9, Zenon

(* What a new block has been counted from is itself without faults.        *)
LEMMA NewSound ==
  ASSUME NEW Z, NEW D, NEW f, Good(Z, D, f), NEW b \in Z.freemap
  PROVE  /\ Sound(Taken(Z, b)) /\ Taken(Z, b).din = Z.din
         /\ Taken(Z, b).freemap = Z.freemap \ {b} /\ b \in Blk /\ b \in Nat
BY TakenIs, Consts DEF Good

(* sfs_bmap_load of the block behind the last.                             *)
LEMMA LoadNew ==
  ASSUME NEW Z, NEW D, NEW f, Good(Z, D, f), NEW L, L = sfs_bmap_load(Z, f, Z.din[f].blocks)
  PROVE  \/ L.ok /\ Grown(Z, D, f, L.Z, L.ino)
         \/ ~L.ok /\ Kept(Z, f, L.Z)
         \/ ~L.ok /\ OutOfRange(Z, f, L.Z)
<1>1. PICK n : n = Z.din[f].blocks
  OBVIOUS
<1>2. /\ n \in 0..Top /\ n \in Nat /\ n <= Z.din[f].blocks /\ Z.oops = "no" /\ f \in File
      /\ Z.din[f] \in Inode /\ Z \in FsType
  <2>1. /\ Z.din[f].blocks \in 0..Top /\ Z.oops = "no" /\ f \in File
        /\ Z.din[f] \in Inode /\ Z \in FsType
    BY GoodIs DEF Good
  <2> QED BY <1>1, <2>1, Consts
<1>3. PICK G : G = sfs_bmap_get(Z, f, n, n = Z.din[f].blocks)
  OBVIOUS
<1>4. L = sfs_bmap_load(Z, f, n)
  BY <1>1, Zenon
<1>5. /\ ~G.ok => L.Z = G.Z /\ ~L.ok
      /\ G.ok /\ G.ino \in Blk \ G.Z.freemap /\ G.Z.oops = "no" =>
           L.Z = Counted(G.Z, f) /\ L.ino = G.ino /\ L.ok
  <2>1. /\ ~G.ok => /\ sfs_bmap_load(Z, f, n).Z = G.Z /\ ~sfs_bmap_load(Z, f, n).ok
        /\ G.ok /\ G.ino \in Blk \ G.Z.freemap /\ G.Z.oops = "no" =>
              /\ sfs_bmap_load(Z, f, n).Z
                   = IF n = Z.din[f].blocks THEN Counted(G.Z, f) ELSE G.Z
              /\ sfs_bmap_load(Z, f, n).ino = G.ino /\ sfs_bmap_load(Z, f, n).ok
    BY <1>2, <1>3, LoadIs
  <2> QED BY <1>1, <1>4, <2>1, Zenon
<1>6. ASSUME ~G.ok, G.Z = Z, Z.unused = 0, n < Top
      PROVE  ~L.ok /\ Kept(Z, f, L.Z)
  BY <1>1, <1>5, <1>6, KeptFull, Zenon
<1>7. CASE n < NDirect
  <2>3. n < Top
    BY <1>2, <1>7, Consts
  <2>1. ASSUME NEW b \in Z.freemap, G.ok, G.ino = b,
               G.Z = Changed(Taken(Z, b), f, WithDirect(Z.din[f], n, b))
        PROVE  L.ok /\ Grown(Z, D, f, L.Z, L.ino)
    <3>1. PICK Y : Y = Changed(Taken(Z, b), f, WithDirect(Z.din[f], n, b))
      OBVIOUS
    <3>2. Y.oops = "no" /\ Y.freemap = Z.freemap \ {b} /\ b \in Blk
      <4>1. PICK V : V = Taken(Z, b)
        OBVIOUS
      <4>2. V \in FsType /\ V.oops = "no" /\ V.freemap = Z.freemap \ {b} /\ b \in Blk
        BY <4>1, NewSound DEF Sound
      <4>3. PICK x : x = WithDirect(Z.din[f], n, b)
        OBVIOUS
      <4>4. x \in Inode
        BY <1>2, <4>2, <4>3 DEF Inode, WithDirect
      <4>5. Y = Changed(V, f, x)
        BY <3>1, <4>1, <4>3, Zenon
      <4> QED BY <1>2, <4>2, <4>4, <4>5, ChangedIs
    <3>3. G.ino \in Blk \ G.Z.freemap /\ G.Z.oops = "no"
      BY <2>1, <3>1, <3>2
    <3>4. L.ok /\ L.ino = b /\ L.Z = Counted(Y, f)
      BY <1>5, <2>1, <3>1, <3>3, Zenon
    <3>5. DirectAdded(Z, f, L.Z, n, b)
      BY <1>1, <1>7, <3>1, <3>4, AddsDirect
    <3>6. Grown(Z, D, f, L.Z, b)
      BY <3>5, GrowsDirect
    <3> QED BY <3>4, <3>6, Zenon
  <2>2. \/ ~G.ok /\ G.Z = Z /\ Z.unused = 0
        \/ \E b \in Z.freemap :
             /\ G.ok /\ G.ino = b
             /\ G.Z = Changed(Taken(Z, b), f, WithDirect(Z.din[f], n, b))
    BY <1>1, <1>3, <1>7, GetDirect
  <2> QED BY <1>6, <2>1, <2>2, <2>3, Zenon
<1>8. CASE NDirect <= n /\ n < Top
  <2>1. PICK j \in Slot : j = n - NDirect /\ n = EntryAt(j)
    BY <1>2, <1>8, Consts DEF Slot, EntryAt
  <2>2. CASE Z.din[f].indirect # 0
    <3>1. PICK e : e = Z.din[f].indirect
      OBVIOUS
    <3>2. ASSUME NEW b \in Z.freemap, G.ok, G.ino = b,
                 G.Z = PutEntry(Taken(Z, b), e, j, b)
          PROVE  L.ok /\ Grown(Z, D, f, L.Z, L.ino)
      <4>1. PICK Y : Y = PutEntry(Taken(Z, b), e, j, b)
        OBVIOUS
      <4>2. Y.oops = "no" /\ Y.freemap = Z.freemap \ {b} /\ b \in Blk
        <5>1. PICK V : V = Taken(Z, b)
          OBVIOUS
        <5>2. Sound(V) /\ V.freemap = Z.freemap \ {b} /\ b \in Blk /\ b \in Nat /\ e \in Blk
          BY <2>2, <3>1, <5>1, NewSound, GoodIs
        <5>3. Y = PutEntry(V, e, j, b)
          BY <4>1, <5>1, Zenon
        <5>4. Sound(Y) /\ Y.freemap = V.freemap
          BY <5>2, <5>3, PutEntryIs
        <5> QED BY <5>2, <5>4 DEF Sound
      <4>3. G.ino \in Blk \ G.Z.freemap /\ G.Z.oops = "no"
        BY <3>2, <4>1, <4>2
      <4>4. L.ok /\ L.ino = b /\ L.Z = Counted(Y, f)
        BY <1>5, <3>2, <4>1, <4>3, Zenon
      <4>5. EntryAdded(Z, f, L.Z, j, b)
        BY <1>1, <2>1, <2>2, <3>1, <4>1, <4>4, AddsEntry
      <4>6. Grown(Z, D, f, L.Z, b)
        BY <4>5, GrowsEntry
      <4> QED BY <4>4, <4>6, Zenon
    <3>3. \/ ~G.ok /\ G.Z = Z /\ Z.unused = 0
          \/ \E b \in Z.freemap :
               /\ G.ok /\ G.ino = b
               /\ G.Z = PutEntry(Taken(Z, b), Z.din[f].indirect, n - NDirect, b)
      BY <1>1, <1>3, <1>8, <2>2, GetEntry
    <3> QED BY <1>6, <1>8, <2>1, <3>1, <3>2, <3>3, Zenon
  <2>3. CASE Z.din[f].indirect = 0
    <3>1. ASSUME NEW e \in Z.freemap, NEW b \in Z.freemap \ {e}, G.ok, G.ino = b,
                 G.Z = Changed(PutEntry(Taken(Taken(Z, e), b), e, j, b), f,
                               WithIndirect(Z.din[f], e))
          PROVE  L.ok /\ Grown(Z, D, f, L.Z, L.ino)
      <4>1. PICK X : X = PutEntry(Taken(Taken(Z, e), b), e, j, b)
        OBVIOUS
      <4>2. PICK Y : Y = Changed(X, f, WithIndirect(Z.din[f], e))
        OBVIOUS
      <4>3. Y.oops = "no" /\ Y.freemap = (Z.freemap \ {e}) \ {b} /\ b \in Blk
        <5>1. PICK V : V = Taken(Z, e)
          OBVIOUS
        <5>2. Sound(V) /\ V.freemap = Z.freemap \ {e} /\ e \in Blk
          BY <5>1, NewSound
        <5>3. PICK U : U = Taken(V, b)
          OBVIOUS
        <5>4. Sound(U) /\ U.freemap = (Z.freemap \ {e}) \ {b} /\ b \in Blk /\ b \in Nat
          BY <5>2, <5>3, TakenIs, Consts
        <5>5. X = PutEntry(U, e, j, b)
          BY <4>1, <5>1, <5>3, Zenon
        <5>6. X \in FsType /\ X.oops = "no" /\ X.freemap = (Z.freemap \ {e}) \ {b}
          <6>1. Sound(X) /\ X.freemap = U.freemap
            BY <5>2, <5>4, <5>5, PutEntryIs
          <6> QED BY <5>4, <6>1 DEF Sound
        <5>7. PICK x : x = WithIndirect(Z.din[f], e)
          OBVIOUS
        <5>8. x \in Inode
          BY <1>2, <5>2, <5>7 DEF Inode, WithIndirect
        <5>9. Y = Changed(X, f, x)
          BY <4>2, <5>7, Zenon
        <5> QED BY <1>2, <5>4, <5>6, <5>8, <5>9, ChangedIs
      <4>4. G.ino \in Blk \ G.Z.freemap /\ G.Z.oops = "no"
        BY <3>1, <4>1, <4>2, <4>3
      <4>5. L.ok /\ L.ino = b /\ L.Z = Counted(Y, f)
        BY <1>5, <3>1, <4>1, <4>2, <4>4, Zenon
      <4>6. \E u \in Datas : IndirectAdded(Z, f, L.Z, u, j, e, b)
        <5>1. PICK W : W = L.Z
          OBVIOUS
        <5>2. W = Counted(Y, f)
          BY <4>5, <5>1, Zenon
        <5>3. \E u \in Datas : IndirectAdded(Z, f, W, u, j, e, b)
          BY <1>1, <2>1, <2>3, <4>1, <4>2, <5>2, AddsIndirect
        <5> QED BY <5>1, <5>3, Zenon
      <4>7. Grown(Z, D, f, L.Z, b)
        BY <4>6, GrowsIndirect
      <4> QED BY <4>5, <4>7, Zenon
    <3>2. ASSUME NEW e \in Z.freemap, ~G.ok, G.Z = sfs_block_free(Taken(Z, e), e), Z.unused = 1
          PROVE  ~L.ok /\ Kept(Z, f, L.Z)
      BY <1>1, <1>5, <1>8, <2>3, <3>2, KeptOne, Zenon
    <3>3. \/ ~G.ok /\ G.Z = Z /\ Z.unused = 0
          \/ \E e \in Z.freemap :
               ~G.ok /\ G.Z = sfs_block_free(Taken(Z, e), e) /\ Z.unused = 1
          \/ \E e \in Z.freemap : \E b \in Z.freemap \ {e} :
               /\ G.ok /\ G.ino = b
               /\ G.Z = Changed(PutEntry(Taken(Taken(Z, e), b), e, n - NDirect, b), f,
                                WithIndirect(Z.din[f], e))
      BY <1>1, <1>3, <1>8, <2>3, GetIndirect
    <3> QED BY <1>6, <1>8, <2>1, <3>1, <3>2, <3>3, Zenon
  <2> QED BY <2>2, <2>3
<1>9. CASE n = Top
  <2>1. ~G.ok /\ G.Z = Stopped(Z)
    BY <1>1, <1>3, <1>9, GetRange
  <2>2. PICK W : W = Stopped(Z)
    OBVIOUS
  <2>3. W \in FsType /\ W.oops = "range" /\ W.din = Z.din /\ W.data = Z.data
    BY <1>2, <2>2 DEF FsType, Stopped
  <2>4. L.Z = W /\ ~L.ok
    BY <1>5, <2>1, <2>2, Zenon
  <2>5. OutOfRange(Z, f, L.Z)
    BY <1>1, <1>9, <2>3, <2>4 DEF OutOfRange
  <2> QED BY <2>4, <2>5, Zenon
<1> QED BY <1>2, <1>7, <1>8, <1>9, Consts

-----------------------------------------------------------------------------
(* One block less: sfs_bmap_truncate.                                      *)

Uncounted(din) == [din EXCEPT !.blocks = @ - 1]

(* W is Z without the block at place i of f, and C are the inodes then.    *)
ShrunkMap(Z, D, f, W, i, C) ==
  /\ Exact(Map(C, W.data), W.freemap) /\ Filled(Map(C, W.data), C)
  /\ \A g \in File : \A k \in Idx :
       k < Top /\ ~(g = f /\ k = i) => Map(C, W.data)[g][k] = Map(D, Z.data)[g][k]

Shrunk(Z, D, f, W, i) ==
  /\ Sound(W) /\ i \in Nat /\ Z.din[f].blocks = i + 1 /\ W.din[f].blocks = i
  /\ W.unused = Z.unused + 1
  /\ W.din[f].size = Z.din[f].size /\ W.din[f].indirect = Z.din[f].indirect
  /\ \A g \in File \ {f} : W.din[g] = Z.din[g] /\ W.dirty[g] = Z.dirty[g]
  /\ \A c \in Blk : (\A g \in File : c # D[g].indirect) => W.data[c] = Z.data[c]
  /\ \A C : Follows(C, D, f, W.din[f]) => ShrunkMap(Z, D, f, W, i, C)

OneLess(Z, D, f, C, Q, i) ==
  /\ C \in Inodes /\ i \in Nat /\ Z.din[f].blocks = i + 1 /\ C[f].blocks = i
  /\ \A g \in File \ {f} : C[g] = D[g]
  /\ Q[f][i] = 0
  /\ \A g \in File : \A k \in Idx :
       k < Top /\ ~(g = f /\ k = i) => Q[g][k] = Map(D, Z.data)[g][k]

(* f has one block less, the others as many as before.                     *)
LEMMA FilledLess ==
  ASSUME NEW Z, NEW D, NEW f, Good(Z, D, f), NEW C, NEW Q, NEW i, OneLess(Z, D, f, C, Q, i)
  PROVE  Filled(Q, C)
<1>0. /\ C \in Inodes /\ i \in Nat /\ Z.din[f].blocks = i + 1 /\ C[f].blocks = i
      /\ \A g \in File \ {f} : C[g] = D[g]
      /\ Q[f][i] = 0
      /\ \A g \in File : \A k \in Idx :
           k < Top /\ ~(g = f /\ k = i) => Q[g][k] = Map(D, Z.data)[g][k]
  BY DEF OneLess
<1> SUFFICES ASSUME NEW g \in File
             PROVE  /\ C[g].blocks \in 0..Top
                    /\ \A k \in Idx : k < Top => (k < C[g].blocks <=> Q[g][k] # 0)
  BY DEF Filled
<1>1. f \in File /\ Z.din[f].blocks \in 0..Top /\ D[f] = Z.din[f]
  BY GoodIs DEF Good
<1>2. CASE g # f
  BY <1>0, <1>2 DEF Good, Filled
<1>3. CASE g = f
  <2>1. \A k \in Idx : k < Top => (k < Z.din[f].blocks <=> Map(D, Z.data)[f][k] # 0)
    BY GoodIs
  <2>2. ASSUME NEW k \in Idx, k < Top
        PROVE  k < i <=> Q[f][k] # 0
    <3>1. CASE k = i
      BY <1>0, <1>1, <2>2, <3>1, Consts
    <3>2. CASE k # i
      <4>1. Q[f][k] = Map(D, Z.data)[f][k]
        BY <1>0, <1>1, <2>2, <3>2
      <4>2. k < i <=> k < i + 1
        BY <1>0, <1>1, <3>2, Consts DEF Idx
      <4> QED BY <1>0, <2>1, <2>2, <4>1, <4>2
    <3> QED BY <3>1, <3>2
  <2> QED BY <1>0, <1>1, <1>3, <2>2, Consts
<1> QED BY <1>2, <1>3

(* W is Z without direct block i of f, and without entry j.                *)
DirectDropped(Z, f, W, i) ==
  /\ i \in 0..(NDirect - 1) /\ Z.din[f].blocks = i + 1 /\ Sound(W)
  /\ W.freemap = Z.freemap \cup {Z.din[f].direct[i]} /\ W.unused = Z.unused + 1
  /\ W.data = Z.data
  /\ W.din[f].size = Z.din[f].size /\ W.din[f].blocks = i
  /\ W.din[f].indirect = Z.din[f].indirect /\ W.din[f].direct[i] = 0
  /\ \A k \in 0..(NDirect - 1) : k # i => W.din[f].direct[k] = Z.din[f].direct[k]
  /\ \A g \in File \ {f} : W.din[g] = Z.din[g] /\ W.dirty[g] = Z.dirty[g]

EntryDropped(Z, f, W, j) ==
  /\ j \in Slot /\ Z.din[f].blocks = EntryAt(j) + 1 /\ Sound(W)
  /\ Z.din[f].indirect # 0
  /\ W.freemap = Z.freemap \cup {Z.data[Z.din[f].indirect][j]} /\ W.unused = Z.unused + 1
  /\ W.data \in Datas
  /\ W.data[Z.din[f].indirect] = WithEntry(Z.data[Z.din[f].indirect], j, 0)
  /\ \A c \in Blk : c # Z.din[f].indirect => W.data[c] = Z.data[c]
  /\ W.din[f].size = Z.din[f].size /\ W.din[f].blocks = EntryAt(j)
  /\ W.din[f].indirect = Z.din[f].indirect /\ W.din[f].direct = Z.din[f].direct
  /\ \A g \in File \ {f} : W.din[g] = Z.din[g] /\ W.dirty[g] = Z.dirty[g]

(* A file that loses its last block, which is a direct one.                *)
LEMMA ShrinksDirect ==
  ASSUME NEW Z, NEW D, NEW f, NEW W, NEW i, Good(Z, D, f), DirectDropped(Z, f, W, i)
  PROVE  Shrunk(Z, D, f, W, i)
<1>1. /\ Sound(Z) /\ f \in File /\ D \in Inodes /\ D[f] = Z.din[f] /\ Z.data \in Datas
      /\ Z.freemap \subseteq Blk /\ Z.unused \in Nat
      /\ Map(D, Z.data) \in [File -> [Idx -> {0} \cup Blk]]
      /\ Exact(Map(D, Z.data), Z.freemap)
  BY GoodIs DEF Good
<1>2. /\ i \in 0..(NDirect - 1) /\ Z.din[f].blocks = i + 1 /\ Sound(W)
      /\ W.freemap = Z.freemap \cup {Z.din[f].direct[i]} /\ W.unused = Z.unused + 1
      /\ W.data = Z.data
  BY DEF DirectDropped
<1>3. /\ W.din[f].size = Z.din[f].size /\ W.din[f].blocks = i
      /\ W.din[f].indirect = Z.din[f].indirect /\ W.din[f].direct[i] = 0
      /\ \A k \in 0..(NDirect - 1) : k # i => W.din[f].direct[k] = Z.din[f].direct[k]
  BY DEF DirectDropped
<1>4. \A g \in File \ {f} : W.din[g] = Z.din[g] /\ W.dirty[g] = Z.dirty[g]
  BY Zenon DEF DirectDropped
<1>5. i \in Idx /\ i \in Nat /\ i < NDirect /\ i < Top /\ i < i + 1
  BY <1>2, Consts DEF Idx
<1>6. Map(D, Z.data)[f][i] = Z.din[f].direct[i] /\ Map(D, Z.data)[f][i] # 0
  <2>1. Map(D, Z.data)[f][i] = D[f].direct[i]
    BY <1>1, <1>5, MapIs
  <2>2. \A k \in Idx : k < Top => (k < Z.din[f].blocks <=> Map(D, Z.data)[f][k] # 0)
    BY GoodIs
  <2> QED BY <1>1, <1>2, <1>5, <2>1, <2>2
<1>7. ASSUME NEW C, Follows(C, D, f, W.din[f])
      PROVE  ShrunkMap(Z, D, f, W, i, C)
  <2>1. C \in Inodes /\ C[f] = W.din[f] /\ \A g \in File \ {f} : C[g] = D[g]
    BY <1>7 DEF Follows
  <2>2. \A g \in File : C[g].indirect = D[g].indirect
    BY <1>1, <1>3, <2>1
  <2>3. Map(C, W.data) = SetAt(Map(D, Z.data), f, i, 0)
    <3>1. /\ C[f].direct[i] = 0
          /\ \A k \in 0..(NDirect - 1) : k # i => C[f].direct[k] = D[f].direct[k]
      BY <1>1, <1>3, <2>1
    <3>2. \A g \in File : D[g].indirect # 0 => W.data[D[g].indirect] = Z.data[D[g].indirect]
      BY <1>2
    <3>3. \A g \in File \ {f} : C[g].direct = D[g].direct
      BY <2>1
    <3>4. 0 \in {0} \cup Blk /\ W.data \in Datas
      BY <1>1, <1>2
    <3>5. DirectSet(D, C, Z.data, W.data, f, i, 0)
      BY <1>1, <1>2, <2>1, <2>2, <3>1, <3>2, <3>3, <3>4 DEF DirectSet
    <3> QED BY <3>5, DirectSetMap
  <2>4. Exact(Map(C, W.data), W.freemap)
    BY <1>1, <1>2, <1>5, <1>6, <2>3, DropExact
  <2>5. \A g \in File : \A k \in Idx :
          Map(C, W.data)[g][k] = IF g = f /\ k = i THEN 0 ELSE Map(D, Z.data)[g][k]
    <3>1. 0 \in {0} \cup Blk
      OBVIOUS
    <3>2. i \in Idx
      BY <1>5
    <3>3. \A g \in File : \A k \in Idx :
            SetAt(Map(D, Z.data), f, i, 0)[g][k]
              = IF g = f /\ k = i THEN 0 ELSE Map(D, Z.data)[g][k]
      BY <1>1, <3>1, <3>2, SetAtIs
    <3> QED BY <2>3, <3>3, Zenon
  <2>6. OneLess(Z, D, f, C, Map(C, W.data), i)
    BY <1>1, <1>2, <1>3, <1>5, <2>1, <2>5 DEF OneLess
  <2>7. Filled(Map(C, W.data), C)
    BY <2>6, FilledLess
  <2> QED BY <2>4, <2>5, <2>7 DEF ShrunkMap
<1>8. \A c \in Blk : (\A g \in File : c # D[g].indirect) => W.data[c] = Z.data[c]
  BY <1>2
<1> QED BY <1>2, <1>3, <1>4, <1>5, <1>7, <1>8, Zenon DEF Shrunk

(* A file that loses its last block, which is an entry of the indirect     *)
(* one.                                                                    *)
LEMMA ShrinksEntry ==
  ASSUME NEW Z, NEW D, NEW f, NEW W, NEW j, Good(Z, D, f), EntryDropped(Z, f, W, j)
  PROVE  Shrunk(Z, D, f, W, EntryAt(j))
<1>1. /\ Sound(Z) /\ f \in File /\ D \in Inodes /\ D[f] = Z.din[f] /\ Z.data \in Datas
      /\ Z.freemap \subseteq Blk /\ Z.unused \in Nat
      /\ Map(D, Z.data) \in [File -> [Idx -> {0} \cup Blk]]
      /\ Exact(Map(D, Z.data), Z.freemap)
  BY GoodIs DEF Good
<1>2. /\ j \in Slot /\ Z.din[f].blocks = EntryAt(j) + 1 /\ Sound(W)
      /\ Z.din[f].indirect # 0
      /\ W.freemap = Z.freemap \cup {Z.data[Z.din[f].indirect][j]} /\ W.unused = Z.unused + 1
      /\ W.data \in Datas
  BY DEF EntryDropped
<1>3. /\ W.data[Z.din[f].indirect] = WithEntry(Z.data[Z.din[f].indirect], j, 0)
      /\ \A c \in Blk : c # Z.din[f].indirect => W.data[c] = Z.data[c]
      /\ W.din[f].size = Z.din[f].size /\ W.din[f].blocks = EntryAt(j)
      /\ W.din[f].indirect = Z.din[f].indirect /\ W.din[f].direct = Z.din[f].direct
  BY DEF EntryDropped
<1>4. \A g \in File \ {f} : W.din[g] = Z.din[g] /\ W.dirty[g] = Z.dirty[g]
  BY Zenon DEF EntryDropped
<1>5. EntryAt(j) \in Idx /\ EntryAt(j) \in Nat /\ EntryAt(j) >= NDirect /\ EntryAt(j) < Top
      /\ EntryAt(j) < EntryAt(j) + 1 /\ EntryAt(j) - NDirect = j
  BY <1>2, Consts DEF Idx, EntryAt, Slot
<1>6. /\ Map(D, Z.data)[f][EntryAt(j)] = Z.data[Z.din[f].indirect][j]
      /\ Map(D, Z.data)[f][EntryAt(j)] # 0
  <2>1. \A i \in Idx : i >= NDirect /\ i < Top =>
          Map(D, Z.data)[f][i] = IF D[f].indirect = 0 THEN 0
                                 ELSE Z.data[D[f].indirect][i - NDirect]
    BY <1>1, MapIs
  <2>2. Map(D, Z.data)[f][EntryAt(j)] = Z.data[D[f].indirect][EntryAt(j) - NDirect]
    BY <1>1, <1>2, <1>5, <2>1
  <2>3. \A k \in Idx : k < Top => (k < Z.din[f].blocks <=> Map(D, Z.data)[f][k] # 0)
    BY GoodIs
  <2>4. Map(D, Z.data)[f][EntryAt(j)] # 0
    BY <1>2, <1>5, <2>3
  <2> QED BY <1>1, <1>5, <2>2, <2>4
<1>7. ASSUME NEW C, Follows(C, D, f, W.din[f])
      PROVE  ShrunkMap(Z, D, f, W, EntryAt(j), C)
  <2>1. C \in Inodes /\ C[f] = W.din[f] /\ \A g \in File \ {f} : C[g] = D[g]
    BY <1>7 DEF Follows
  <2>2. 0 \in {0} \cup Blk
    OBVIOUS
  <2>3. \A g \in File : C[g].indirect = D[g].indirect /\ C[g].direct = D[g].direct
    BY <1>1, <1>3, <2>1
  <2>4. Map(C, Z.data) = Map(D, Z.data)
    BY <1>1, <2>1, <2>3, SameMap
  <2>5. EntrySet(C, Z.data, W.data, f, j, 0)
    <3>1. \A g \in File \ {f} :
            C[g].indirect # 0 => W.data[C[g].indirect] = Z.data[C[g].indirect]
      BY <1>2, <1>3, <2>3, IndirectsApart, GoodIs
    <3>2. C[f].indirect = Z.din[f].indirect
      BY <1>3, <2>1
    <3> QED BY <1>1, <1>2, <1>3, <2>1, <2>2, <2>4, <3>1, <3>2 DEF EntrySet
  <2>6. Map(C, W.data) = SetAt(Map(D, Z.data), f, EntryAt(j), 0)
    BY <2>4, <2>5, EntrySetMap
  <2>7. Exact(Map(C, W.data), W.freemap)
    BY <1>1, <1>2, <1>5, <1>6, <2>6, DropExact
  <2>8. \A g \in File : \A i \in Idx :
          Map(C, W.data)[g][i]
            = IF g = f /\ i = EntryAt(j) THEN 0 ELSE Map(D, Z.data)[g][i]
    BY <1>1, <1>5, <2>2, <2>6, SetAtIs
  <2>9. OneLess(Z, D, f, C, Map(C, W.data), EntryAt(j))
    BY <1>1, <1>2, <1>3, <1>5, <2>1, <2>8 DEF OneLess
  <2>10. Filled(Map(C, W.data), C)
    BY <2>9, FilledLess
  <2> QED BY <2>7, <2>8, <2>10 DEF ShrunkMap
<1>8. \A c \in Blk : (\A g \in File : c # D[g].indirect) => W.data[c] = Z.data[c]
  BY <1>1, <1>3
<1> QED BY <1>2, <1>3, <1>4, <1>5, <1>7, <1>8, Zenon DEF Shrunk

(* Uncounted takes one off.                                                *)
LEMMA UncountedIs ==
  ASSUME NEW din \in Inode, din.blocks \in Nat \ {0}
  PROVE  /\ Uncounted(din) \in Inode /\ Uncounted(din).size = din.size
         /\ Uncounted(din).blocks = din.blocks - 1 /\ Uncounted(din).direct = din.direct
         /\ Uncounted(din).indirect = din.indirect
BY DEF Inode, Uncounted

(* The same of a file system without faults.                               *)
LEMMA ChangedSound ==
  ASSUME NEW Z, Sound(Z), NEW f \in File, NEW din \in Inode, NEW W, W = Changed(Z, f, din)
  PROVE  /\ Sound(W) /\ W.freemap = Z.freemap /\ W.unused = Z.unused /\ W.data = Z.data
         /\ W.din \in Inodes /\ W.din[f] = din /\ W.dirty[f]
         /\ \A g \in File \ {f} : W.din[g] = Z.din[g] /\ W.dirty[g] = Z.dirty[g]
<1>1. Z \in FsType /\ Z.oops = "no" /\ Z.unused = Cardinality(Z.freemap)
  BY DEF Sound
<1>2. /\ W \in FsType /\ W.freemap = Z.freemap /\ W.unused = Z.unused
      /\ W.data = Z.data /\ W.oops = Z.oops
  BY <1>1, ChangedIs
<1>3. W.din \in Inodes /\ W.din[f] = din /\ \A g \in File \ {f} : W.din[g] = Z.din[g]
  BY <1>1, ChangedIs
<1>4. W.dirty[f] /\ \A g \in File \ {f} : W.dirty[g] = Z.dirty[g]
  <2>2. /\ Changed(Z, f, din).dirty[f]
        /\ \A g \in File \ {f} : Changed(Z, f, din).dirty[g] = Z.dirty[g]
    BY <1>1, ChangedIs
  <2> QED BY <2>2, Zenon
<1>5. Sound(W)
  BY <1>1, <1>2 DEF Sound
<1> QED BY <1>2, <1>3, <1>4, <1>5, Zenon

(* The inode of a changed file system changes once more.                   *)
LEMMA TruncateEndIs ==
  ASSUME NEW Y, Sound(Y), NEW f \in File, Y.din[f].blocks \in Nat \ {0}, NEW W,
         W = Changed(Y, f, Uncounted(Y.din[f]))
  PROVE  /\ Sound(W) /\ W.freemap = Y.freemap /\ W.unused = Y.unused /\ W.data = Y.data
         /\ W.din[f].size = Y.din[f].size /\ W.din[f].blocks = Y.din[f].blocks - 1
         /\ W.din[f].indirect = Y.din[f].indirect /\ W.din[f].direct = Y.din[f].direct
         /\ \A g \in File \ {f} : W.din[g] = Y.din[g] /\ W.dirty[g] = Y.dirty[g]
<1>1. Y \in FsType /\ Y.din[f] \in Inode /\ Y.oops = "no" /\ Y.unused = Cardinality(Y.freemap)
  BY DEF Sound, FsType
<1>2. PICK x : x = Uncounted(Y.din[f])
  OBVIOUS
<1>3. /\ x \in Inode /\ x.size = Y.din[f].size /\ x.blocks = Y.din[f].blocks - 1
      /\ x.direct = Y.din[f].direct /\ x.indirect = Y.din[f].indirect
  BY <1>1, <1>2, UncountedIs
<1>4. W = Changed(Y, f, x)
  BY <1>2, Zenon
<1>5. /\ Sound(W) /\ W.freemap = Y.freemap /\ W.unused = Y.unused
      /\ W.data = Y.data /\ W.din[f] = x
      /\ \A g \in File \ {f} : W.din[g] = Y.din[g] /\ W.dirty[g] = Y.dirty[g]
  BY <1>3, <1>4, ChangedSound
<1>7. /\ W.din[f].size = Y.din[f].size /\ W.din[f].blocks = Y.din[f].blocks - 1
      /\ W.din[f].indirect = Y.din[f].indirect /\ W.din[f].direct = Y.din[f].direct
  BY <1>3, <1>5
<1> QED BY <1>5, <1>7, Zenon

(* sfs_bmap_truncate for a direct block ...                                *)
LEMMA TruncatesDirect ==
  ASSUME NEW Z, NEW D, NEW f, Good(Z, D, f), NEW i, i \in 0..(NDirect - 1),
         Z.din[f].blocks - 1 = i, NEW W, W = sfs_bmap_truncate(Z, f)
  PROVE  DirectDropped(Z, f, W, i)
<1>1. /\ Sound(Z) /\ f \in File /\ D \in Inodes /\ D[f] = Z.din[f] /\ Z.data \in Datas
      /\ Z.din[f] \in Inode /\ Z.din[f].blocks \in Nat
  BY GoodIs, Consts DEF Good
<1>2. i < NDirect /\ i \in Idx /\ i < Top /\ i < Z.din[f].blocks
  BY <1>1, Consts DEF Idx
<1>3. PICK b : b = Z.din[f].direct[i]
  OBVIOUS
<1>4. b # 0 /\ b \in Blk \ Z.freemap
  <2>1. Map(D, Z.data)[f][i] = D[f].direct[i]
    BY <1>1, <1>2, MapIs
  <2>2. \A k \in Idx : k < Top => (k < Z.din[f].blocks <=> Map(D, Z.data)[f][k] # 0)
    BY GoodIs
  <2>3. \A g \in File : \A k \in Idx : Map(D, Z.data)[g][k] # 0 =>
              Map(D, Z.data)[g][k] \in Blk \ Z.freemap
    BY GoodIs
  <2> QED BY <1>1, <1>2, <1>3, <2>1, <2>2, <2>3
<1>5. PICK V : V = sfs_block_free(Z, b)
  OBVIOUS
<1>6. /\ Sound(V) /\ V.freemap = Z.freemap \cup {b} /\ V.unused = Z.unused + 1
      /\ V.data = Z.data /\ V.din = Z.din /\ V.dirty = Z.dirty
  BY <1>1, <1>4, <1>5, FreeIs
<1>7. PICK x : x = WithDirect(Z.din[f], i, 0)
  OBVIOUS
<1>8. /\ x \in Inode /\ x.size = Z.din[f].size /\ x.blocks = Z.din[f].blocks
      /\ x.indirect = Z.din[f].indirect /\ x.direct[i] = 0
      /\ \A k \in 0..(NDirect - 1) : k # i => x.direct[k] = Z.din[f].direct[k]
  BY <1>1, <1>7 DEF Inode, WithDirect
<1>9. PICK Y : Y = Changed(V, f, x)
  OBVIOUS
<1>10. W = Changed(Y, f, Uncounted(Y.din[f]))
  <2>1. sfs_bmap_free(Z, f, i) = Y
    BY <1>2, <1>3, <1>4, <1>5, <1>7, <1>9, Zenon DEF sfs_bmap_free, WithDirect
  <2> QED BY <2>1, Zenon DEF sfs_bmap_truncate, Uncounted
<1>11. /\ Sound(Y) /\ Y.freemap = V.freemap /\ Y.unused = V.unused /\ Y.data = V.data
       /\ Y.din[f] = x
       /\ \A g \in File \ {f} : Y.din[g] = V.din[g] /\ Y.dirty[g] = V.dirty[g]
  <2>1. Sound(V) /\ x \in Inode /\ f \in File
    BY <1>1, <1>6, <1>8
  <2> QED BY <1>9, <2>1, ChangedSound
<1>12. Y.din[f].blocks = Z.din[f].blocks /\ Y.din[f].blocks \in Nat \ {0}
  BY <1>1, <1>2, <1>8, <1>11
<1>13. /\ Sound(W) /\ W.freemap = Y.freemap /\ W.unused = Y.unused /\ W.data = Y.data
       /\ W.din[f].size = Y.din[f].size /\ W.din[f].blocks = Y.din[f].blocks - 1
       /\ W.din[f].indirect = Y.din[f].indirect /\ W.din[f].direct = Y.din[f].direct
       /\ \A g \in File \ {f} : W.din[g] = Y.din[g] /\ W.dirty[g] = Y.dirty[g]
  BY <1>1, <1>10, <1>11, <1>12, TruncateEndIs
<1>14. /\ W.freemap = Z.freemap \cup {Z.din[f].direct[i]} /\ W.unused = Z.unused + 1
       /\ W.data = Z.data
  BY <1>3, <1>6, <1>11, <1>13
<1>15. Z.din[f].blocks = i + 1 /\ W.din[f].blocks = i /\ i \in 0..(NDirect - 1)
  BY <1>1, <1>12, <1>13
<1>16. /\ W.din[f].size = Z.din[f].size
       /\ W.din[f].indirect = Z.din[f].indirect /\ W.din[f].direct[i] = 0
       /\ \A k \in 0..(NDirect - 1) : k # i => W.din[f].direct[k] = Z.din[f].direct[k]
  BY <1>8, <1>11, <1>13, Zenon
<1>17. \A g \in File \ {f} : W.din[g] = Z.din[g] /\ W.dirty[g] = Z.dirty[g]
  BY <1>6, <1>11, <1>13, Zenon
<1> QED BY <1>13, <1>14, <1>15, <1>16, <1>17, Zenon DEF DirectDropped

(* ... and for an entry of the indirect block.                             *)
LEMMA TruncatesEntry ==
  ASSUME NEW Z, NEW D, NEW f, Good(Z, D, f), NEW j \in Slot,
         Z.din[f].blocks - 1 = EntryAt(j), NEW W, W = sfs_bmap_truncate(Z, f)
  PROVE  EntryDropped(Z, f, W, j)
<1>1. /\ Sound(Z) /\ f \in File /\ D \in Inodes /\ D[f] = Z.din[f] /\ Z.data \in Datas
      /\ Z.din[f] \in Inode /\ Z.din[f].blocks \in Nat
  BY GoodIs, Consts DEF Good
<1>2. /\ EntryAt(j) \in Idx /\ EntryAt(j) < Top /\ EntryAt(j) < Z.din[f].blocks
      /\ EntryAt(j) \in Nat /\ Z.din[f].blocks = EntryAt(j) + 1
      /\ EntryAt(j) >= NDirect /\ EntryAt(j) - NDirect = j /\ ~(EntryAt(j) < NDirect)
  BY <1>1, Consts DEF Idx, EntryAt, Slot
<1>3. PICK e, b : e = Z.din[f].indirect /\ b = Z.data[e][j]
  OBVIOUS
<1>4. e # 0 /\ b # 0 /\ b \in Blk \ Z.freemap /\ e \in Blk
  <2>1. \A i \in Idx : i >= NDirect /\ i < Top =>
          Map(D, Z.data)[f][i] = IF D[f].indirect = 0 THEN 0
                                 ELSE Z.data[D[f].indirect][i - NDirect]
    BY <1>1, MapIs
  <2>2. Map(D, Z.data)[f][EntryAt(j)] = IF e = 0 THEN 0 ELSE b
    BY <1>1, <1>2, <1>3, <2>1
  <2>3. \A k \in Idx : k < Top => (k < Z.din[f].blocks <=> Map(D, Z.data)[f][k] # 0)
    BY GoodIs
  <2>4. Map(D, Z.data)[f][EntryAt(j)] # 0
    BY <1>2, <2>3
  <2>5. \A g \in File : \A k \in Idx : Map(D, Z.data)[g][k] # 0 =>
              Map(D, Z.data)[g][k] \in Blk \ Z.freemap
    BY GoodIs
  <2>6. e # 0 => e \in Blk
    BY <1>3, GoodIs
  <2>7. Map(D, Z.data)[f][EntryAt(j)] \in Blk \ Z.freemap
    BY <1>1, <1>2, <2>4, <2>5
  <2> QED BY <2>2, <2>4, <2>6, <2>7
<1>5. PICK V : V = PutEntry(Z, e, j, 0)
  OBVIOUS
<1>6. /\ Sound(V) /\ V.freemap = Z.freemap /\ V.unused = Z.unused
      /\ V.din = Z.din /\ V.dirty = Z.dirty /\ V.data \in Datas
      /\ V.data[e] = WithEntry(Z.data[e], j, 0)
      /\ \A c \in Blk \ {e} : V.data[c] = Z.data[c]
  BY <1>1, <1>4, <1>5, PutEntryIs
<1>7. PICK Y : Y = sfs_block_free(V, b)
  OBVIOUS
<1>8. /\ Sound(Y) /\ Y.freemap = V.freemap \cup {b} /\ Y.unused = V.unused + 1
      /\ Y.data = V.data /\ Y.din = V.din /\ Y.dirty = V.dirty
  BY <1>4, <1>6, <1>7, FreeIs
<1>9. W = Changed(Y, f, Uncounted(Y.din[f]))
  <2>1. sfs_bmap_free(Z, f, EntryAt(j)) = Y
    BY <1>2, <1>3, <1>4, <1>5, <1>7, Zenon DEF sfs_bmap_free, PutEntry
  <2> QED BY <2>1, Zenon DEF sfs_bmap_truncate, Uncounted
<1>10. Y.din[f].blocks = Z.din[f].blocks /\ Y.din[f].blocks \in Nat \ {0}
  <2>1. Y.din = Z.din
    BY <1>6, <1>8
  <2> QED BY <1>2, <2>1
<1>11. /\ Sound(W) /\ W.freemap = Y.freemap /\ W.unused = Y.unused /\ W.data = Y.data
       /\ W.din[f].size = Y.din[f].size /\ W.din[f].blocks = Y.din[f].blocks - 1
       /\ W.din[f].indirect = Y.din[f].indirect /\ W.din[f].direct = Y.din[f].direct
       /\ \A g \in File \ {f} : W.din[g] = Y.din[g] /\ W.dirty[g] = Y.dirty[g]
  BY <1>1, <1>8, <1>9, <1>10, TruncateEndIs
<1>12. /\ W.freemap = Z.freemap \cup {Z.data[Z.din[f].indirect][j]} /\ W.unused = Z.unused + 1
       /\ W.data \in Datas
       /\ W.data[Z.din[f].indirect] = WithEntry(Z.data[Z.din[f].indirect], j, 0)
  BY <1>3, <1>6, <1>8, <1>11
<1>13. \A c \in Blk : c # Z.din[f].indirect => W.data[c] = Z.data[c]
  BY <1>3, <1>6, <1>8, <1>11
<1>14. /\ W.din[f].size = Z.din[f].size /\ W.din[f].blocks = EntryAt(j)
       /\ W.din[f].indirect = Z.din[f].indirect /\ W.din[f].direct = Z.din[f].direct
  <2>1. Y.din = Z.din
    BY <1>6, <1>8
  <2> QED BY <1>2, <1>11, <2>1
<1>15. \A g \in File \ {f} : W.din[g] = Z.din[g] /\ W.dirty[g] = Z.dirty[g]
  <2>1. Y.din = Z.din /\ Y.dirty = Z.dirty
    BY <1>6, <1>8
  <2> QED BY <1>11, <2>1, Zenon
<1>16. Z.din[f].indirect # 0 /\ j \in Slot
  BY <1>3, <1>4
<1> QED BY <1>2, <1>11, <1>12, <1>13, <1>14, <1>15, <1>16, Zenon DEF EntryDropped

(* sfs_bmap_truncate takes the last block off.                             *)
LEMMA TruncateIs ==
  ASSUME NEW Z, NEW D, NEW f, Good(Z, D, f), Z.din[f].blocks > 0, NEW W,
         W = sfs_bmap_truncate(Z, f)
  PROVE  \E i : Shrunk(Z, D, f, W, i)
<1>1. Z.din[f].blocks \in 0..Top
  BY GoodIs
<1>2. CASE Z.din[f].blocks - 1 < NDirect
  <2>1. PICK i : i = Z.din[f].blocks - 1
    OBVIOUS
  <2>2. i \in 0..(NDirect - 1) /\ Z.din[f].blocks - 1 = i
    BY <1>1, <1>2, <2>1, Consts
  <2>3. DirectDropped(Z, f, W, i)
    BY <2>2, TruncatesDirect
  <2> QED BY <2>3, ShrinksDirect
<1>3. CASE ~(Z.din[f].blocks - 1 < NDirect)
  <2>1. PICK j \in Slot : Z.din[f].blocks - 1 = EntryAt(j)
    <3>1. Z.din[f].blocks - 1 - NDirect \in Slot
      BY <1>1, <1>3, Consts DEF Slot
    <3>2. Z.din[f].blocks - 1 = EntryAt(Z.din[f].blocks - 1 - NDirect)
      BY <1>1, Consts DEF EntryAt
    <3> QED BY <3>1, <3>2
  <2>2. EntryDropped(Z, f, W, j)
    BY <2>1, TruncatesEntry
  <2> QED BY <2>2, ShrinksEntry
<1> QED BY <1>2, <1>3

(* The block b is at place i of file f.                                    *)
Placed(W, C, f, i, b) ==
  /\ Sound(W) /\ C \in Inodes /\ Exact(Map(C, W.data), W.freemap)
  /\ f \in File /\ i \in Idx /\ i < Top /\ b = Map(C, W.data)[f][i] /\ b # 0

(* A block that is not an indirect one gets new contents.                  *)
LEMMA PutKeepsMap ==
  ASSUME NEW W, NEW C, NEW f, NEW i, NEW b, Placed(W, C, f, i, b)
  PROVE  /\ b \in Blk /\ \A g \in File : b # C[g].indirect
         /\ \A cells, v : v \in Nat => Map(C, Put(W, b, cells, v).data) = Map(C, W.data)
<1> SUFFICES ASSUME Sound(W), C \in Inodes, Exact(Map(C, W.data), W.freemap),
                    f \in File, i \in Idx, i < Top, b = Map(C, W.data)[f][i], b # 0,
                    NEW cells, NEW v \in Nat
             PROVE  /\ b \in Blk /\ \A g \in File : b # C[g].indirect
                    /\ Map(C, Put(W, b, cells, v).data) = Map(C, W.data)
  <2>1. /\ Sound(W) /\ C \in Inodes /\ Exact(Map(C, W.data), W.freemap)
        /\ f \in File /\ i \in Idx /\ i < Top /\ b = Map(C, W.data)[f][i] /\ b # 0
    BY DEF Placed
  <2>2. 0 \in Nat
    OBVIOUS
  <2> QED BY <2>1, <2>2, Zenon
<1>1. W.data \in Datas /\ Map(C, W.data) \in [File -> [Idx -> {0} \cup Blk]] /\ Top \in Idx
  BY Consts DEF Sound, FsType, Datas, Exact, Idx
<1>2. b \in Blk
  BY <1>1
<1>3. \A g \in File : Map(C, W.data)[g][Top] = C[g].indirect
  BY <1>1, MapIs
<1>4. i # Top
  BY Consts DEF Idx
<1>5. \A g \in File : b # C[g].indirect
  BY <1>1, <1>3, <1>4 DEF Exact
<1>6. /\ Put(W, b, cells, v).data \in Datas
      /\ \A c \in Blk \ {b} : Put(W, b, cells, v).data[c] = W.data[c]
  BY <1>2, PutIs
<1>7. \A g \in File : C[g].indirect # 0 => C[g].indirect \in Blk \ {b}
  <2>1. \A g \in File : C[g].indirect \in {0} \cup Blk
    BY DEF Inodes, Inode
  <2> QED BY <1>5, <2>1
<1>8. Map(C, Put(W, b, cells, v).data) = Map(C, W.data)
  BY <1>1, <1>6, <1>7, SameMap
<1> QED BY <1>2, <1>5, <1>8

-----------------------------------------------------------------------------
(* The states.                                                             *)

(* Types of the parts.                                                     *)
LEMMA TypesAre ==
  ASSUME Types
  PROVE  /\ fs \in FsType /\ fs.freemap \subseteq Blk /\ fs.unused \in Nat
         /\ fs.data \in Datas /\ fs.din \in Inodes /\ fs.dirty \in [File -> BOOLEAN]
         /\ disk \in Inodes /\ View \in Inodes
         /\ \A f \in File : View[f] = Din(f) /\ Din(f) \in Inode
         /\ \A f \in File : Din(f).size \in Nat /\ Din(f).blocks \in Nat
         /\ \A d \in Fd : fd[d].file \in File \cup {NoFile} /\ fd[d].pos \in 0..MaxFileSize
<1>1. /\ fs \in FsType /\ fs.freemap \subseteq Blk /\ fs.unused \in Nat
      /\ fs.data \in Datas /\ fs.din \in Inodes /\ fs.dirty \in [File -> BOOLEAN]
      /\ disk \in Inodes
  BY DEF Types, FsType, Datas, Inodes
<1>2. \A f \in File : Din(f) \in Inode
  BY <1>1 DEF Din, Inodes
<1>3. \A f \in File : View[f] = Din(f)
  BY DEF View
<1>4. View \in Inodes
  BY <1>2 DEF View, Inodes
<1>5. \A d \in Fd : fd[d].file \in File \cup {NoFile} /\ fd[d].pos \in 0..MaxFileSize
  BY DEF Types
<1>6. \A f \in File : Din(f).size \in Nat /\ Din(f).blocks \in Nat
  BY <1>2 DEF Inode
<1> QED BY <1>1, <1>2, <1>3, <1>4, <1>5, <1>6

(* A file with an open descriptor is in memory.                            *)
LEMMA InMemory ==
  ASSUME Types, Layout, fs.oops = "no", NEW d \in Fd, fd[d].file # NoFile
  PROVE  /\ fd[d].file \in File /\ Loaded(fd[d].file)
         /\ Din(fd[d].file) = fs.din[fd[d].file]
         /\ Good(fs, View, fd[d].file)
<1>1. fd[d].file \in File /\ Loaded(fd[d].file)
  BY TypesAre DEF Loaded, Users
<1>2. Din(fd[d].file) = fs.din[fd[d].file]
  BY <1>1 DEF Din
<1>3. /\ fs \in FsType /\ View \in Inodes /\ View[fd[d].file] = fs.din[fd[d].file]
      /\ fs.unused = Cardinality(fs.freemap) /\ Exact(Map(View, fs.data), fs.freemap)
      /\ Filled(Map(View, fs.data), View)
  BY <1>1, <1>2, TypesAre DEF Layout, Where
<1> QED BY <1>1, <1>2, <1>3 DEF Good, Sound

(* Descriptors that keep their files.                                      *)
LEMMA SameUsers ==
  ASSUME \A d \in Fd : fd'[d].file = fd[d].file
  PROVE  \A f : Users(f)' = Users(f) /\ (Loaded(f)' <=> Loaded(f))
<1>1. ASSUME NEW f
      PROVE  Users(f)' = Users(f)
  BY DEF Users
<1> QED BY <1>1 DEF Loaded

(* The inodes as they are seen, when nothing or one of them changes.       *)
LEMMA SameView ==
  ASSUME \A f \in File : Din(f)' = Din(f)
  PROVE  View' = View
BY DEF View

(* A step that changes the inode of one file in memory changes what is     *)
(* seen of that file only.                                                 *)
LEMMA ViewFollows ==
  ASSUME Types, fs' \in FsType, disk' = disk, \A d \in Fd : fd'[d].file = fd[d].file,
         NEW f \in File, Loaded(f), \A g \in File \ {f} : fs'.din[g] = fs.din[g]
  PROVE  /\ Follows(View', View, f, fs'.din[f]) /\ Din(f)' = fs'.din[f]
         /\ \A g \in File \ {f} : Din(g)' = Din(g)
<1>1. \A g : Loaded(g)' <=> Loaded(g)
  BY SameUsers
<1>2. Din(f)' = fs'.din[f]
  BY <1>1 DEF Din
<1>3. \A g \in File \ {f} : Din(g)' = Din(g)
  BY <1>1 DEF Din
<1>4. \A g \in File : View[g] = Din(g) /\ View'[g] = Din(g)'
  BY DEF View
<1>5. View' \in Inodes
  <2>1. fs'.din \in [File -> Inode] /\ disk' \in [File -> Inode]
    BY DEF FsType, Types
  <2>2. \A g \in File : Din(g)' \in Inode
    BY <2>1 DEF Din
  <2> QED BY <2>2 DEF View, Inodes
<1> QED BY <1>2, <1>3, <1>4, <1>5 DEF Follows

(* A step that changes neither the inodes nor the blocks.                  *)
LEMMA KeepsLayout ==
  ASSUME Layout, View' = View, fs'.data = fs.data, fs'.freemap = fs.freemap,
         fs'.unused = fs.unused
  PROVE  Layout'
BY DEF Layout, Where

(* The initial state.                                                      *)
LEMMA NoneType == None \in CallType /\ None.step = "none" /\ None.op = "none"
<1>1. <<>> \in Seq(Nat)
  OBVIOUS
<1> QED BY <1>1 DEF None, CallType

(* An empty file is an inode.                                              *)
LEMMA EmptyType == EmptyInode \in Inode /\ EmptyInode.size = 0 /\ EmptyInode.blocks = 0
BY DEF EmptyInode, Inode

(* Before anything is opened.                                              *)
LEMMA InitInv == Init => SfsInv
<1> SUFFICES ASSUME Init PROVE SfsInv
  OBVIOUS
<1>1. /\ fs.freemap = Blk /\ fs.unused = NBlock /\ fs.data = [b \in Blk |-> ZeroBlock]
      /\ fs.din = [f \in File |-> EmptyInode] /\ fs.dirty = [f \in File |-> FALSE]
      /\ fs.oops = "no" /\ disk = [f \in File |-> EmptyInode]
      /\ call = None /\ \A d \in Fd : fd[d].file = NoFile
  BY DEF Init
<1>2. Types
  <2>1. /\ [b \in Blk |-> ZeroBlock] \in [Blk -> [Cell -> Nat]]
        /\ [f \in File |-> EmptyInode] \in [File -> Inode]
        /\ [f \in File |-> FALSE] \in [File -> BOOLEAN]
        /\ Blk \in SUBSET Blk /\ NBlock \in 0..NBlock
    BY ZeroType, EmptyType, Consts
  <2>2. fs \in FsType
    BY <2>1 DEF Init, FsType
  <2>3. fd \in [Fd -> [file : File \cup {NoFile}, pos : 0..MaxFileSize]]
    BY Consts DEF Init
  <2> QED BY <1>1, <2>1, <2>2, <2>3, NoneType DEF Types
<1>3. \A f \in File : ~Loaded(f) /\ Din(f) = EmptyInode
  BY <1>1, FileAssumption DEF Loaded, Users, Din
<1>4. \A f \in File : \A i \in Idx : Where[f][i] = 0
  <2>1. \A f \in File : View[f] = EmptyInode
    BY <1>3 DEF View
  <2>2. \A i \in Idx : i < NDirect => i \in 0..(NDirect - 1)
    BY Consts DEF Idx
  <2>3. \A f \in File : \A i \in Idx : At(EmptyInode, fs.data, i) = 0
    BY <2>2 DEF At, EmptyInode
  <2> QED BY <2>1, <2>3 DEF Where, Map
<1>5. Where \in [File -> [Idx -> {0} \cup Blk]]
  <2>1. \A f \in File : Where[f] = [i \in Idx |-> 0]
    BY <1>4 DEF Where, Map
  <2>2. Where = [f \in File |-> Where[f]]
    BY DEF Where, Map
  <2> QED BY <2>1, <2>2
<1>6. Exact(Where, fs.freemap)
  BY <1>1, <1>4, <1>5, Consts DEF Exact
<1>7. Filled(Where, View)
  <2>1. \A f \in File : View[f].blocks = 0
    BY <1>3, EmptyType DEF View
  <2>2. \A i \in Idx : ~(i < 0)
    BY Consts DEF Idx
  <2> QED BY <1>4, <2>1, <2>2, Consts DEF Filled
<1>8. fs.unused = Cardinality(fs.freemap)
  BY <1>1, FS_Interval, Consts DEF Blk
<1>9. ~InIo /\ call.step # "trunc" /\ (call.step = "none" => call = None)
  BY <1>1, NoneType DEF InIo
<1>10. SizesFit
  <2>1. Blocks(0) = 0
    BY BlocksIs, Consts
  <2> QED BY <1>3, <1>9, <2>1, EmptyType, Consts DEF SizesFit, Extent
<1>11. PositionsFit /\ Synced /\ IoFits /\ TruncFits
  BY <1>1, <1>3, <1>9 DEF PositionsFit, Synced, IoFits, TruncFits
<1> QED BY <1>1, <1>2, <1>6, <1>7, <1>8, <1>9, <1>10, <1>11 DEF SfsInv, BlocksFit, Layout

-----------------------------------------------------------------------------
(* Between calls.                                                          *)

Plain ==
  \A f \in File : Din(f).size <= MaxFileSize /\ Din(f).blocks = Blocks(Din(f).size)

OnDisk == \A f \in File : Loaded(f) /\ ~fs.dirty[f] => disk[f] = fs.din[f]

Quiet == Types /\ fs.oops = "no" /\ Layout /\ Plain /\ PositionsFit /\ OnDisk

(* What the invariant says there ...                                       *)
LEMMA QuietIs ==
  ASSUME SfsInv, Ready
  PROVE  Quiet
<1>1. /\ Types /\ fs.oops = "no" /\ call = None /\ Layout /\ SizesFit /\ PositionsFit
      /\ Synced
  BY DEF SfsInv, BlocksFit, Ready
<1>2. call.step # "trunc" /\ ~InIo
  BY <1>1, NoneType DEF InIo
<1>3. Plain
  BY <1>1, <1>2 DEF Plain, SizesFit, Extent
<1>4. OnDisk
  BY <1>1, <1>2, Zenon DEF OnDisk, Synced
<1> QED BY <1>1, <1>3, <1>4 DEF Quiet

(* ... and how a step comes to such a state.                               *)
LEMMA QuietStep ==
  ASSUME Quiet', call' = None
  PROVE  SfsInv'
<1>1. /\ Types' /\ fs'.oops = "no" /\ Layout' /\ Plain' /\ PositionsFit' /\ OnDisk'
  BY DEF Quiet
<1>2. call'.step # "trunc" /\ ~InIo' /\ (call'.step = "none" => call' = None)
  BY NoneType DEF InIo
<1>3. SizesFit'
  BY <1>1, <1>2 DEF SizesFit, Plain, Extent
<1>4. Synced'
  BY <1>1, Zenon DEF Synced, OnDisk
<1>5. IoFits' /\ TruncFits'
  BY <1>2 DEF IoFits, TruncFits
<1> QED BY <1>1, <1>2, <1>3, <1>4, <1>5 DEF SfsInv, BlocksFit

(* The call of sfs_truncfile.                                              *)
TruncCall(op, d, len) ==
  [None EXCEPT !.op = op, !.step = "trunc", !.d = d, !.end = len]

(* The parts of a call that is to change the length of a file.             *)
LEMMA TruncCallIs ==
  ASSUME NEW op \in {"open", "seek"}, NEW d \in Fd, NEW len \in Nat
  PROVE  /\ TruncCall(op, d, len) \in CallType /\ TruncCall(op, d, len).step = "trunc"
         /\ TruncCall(op, d, len).op = op /\ TruncCall(op, d, len).d = d
         /\ TruncCall(op, d, len).end = len
<1>1. TruncCall(op, d, len)
        = [op |-> op, step |-> "trunc", d |-> d, off |-> 0, len |-> 0, end |-> len,
           blkno |-> 0, nblks |-> 0, alen |-> 0, byte |-> 0, got |-> <<>>]
  <2>1. PICK a : a = [None EXCEPT !.op = op]
    OBVIOUS
  <2>2. PICK b : b = [a EXCEPT !.step = "trunc"]
    OBVIOUS
  <2>3. PICK c : c = [b EXCEPT !.d = d]
    OBVIOUS
  <2>4. TruncCall(op, d, len) = [c EXCEPT !.end = len]
    BY <2>1, <2>2, <2>3, Zenon DEF TruncCall
  <2> QED BY <2>1, <2>2, <2>3, <2>4 DEF None
<1>2. <<>> \in Seq(Nat)
  OBVIOUS
<1> QED BY <1>1, <1>2 DEF CallType

(* How a step comes to it.                                                 *)
LEMMA TruncStep ==
  ASSUME Quiet', NEW op \in {"open", "seek"}, NEW d \in Fd, NEW len \in Nat,
         call' = TruncCall(op, d, len), TruncFits'
  PROVE  SfsInv'
<1>1. /\ Types' /\ fs'.oops = "no" /\ Layout' /\ Plain' /\ PositionsFit' /\ OnDisk'
  BY DEF Quiet
<1>2. call'.step = "trunc"
  BY TruncCallIs
<1>3. ~InIo' /\ (call'.step = "none" => call' = None)
  BY <1>2 DEF InIo
<1>4. SizesFit'
  BY <1>1, <1>3 DEF SizesFit, Plain, Extent
<1>5. Synced'
  BY <1>1, Zenon DEF Synced, OnDisk
<1>6. IoFits'
  BY <1>3 DEF IoFits
<1> QED BY <1>1, <1>3, <1>4, <1>5, <1>6 DEF SfsInv, BlocksFit

(* An inode that is read, or forgotten.                                    *)
Fetched(Z, f, din) == [Z EXCEPT !.din[f] = din, !.dirty[f] = FALSE]

(* What reading an inode from the disk makes of the file system.           *)
LEMMA FetchedIs ==
  ASSUME NEW Z \in FsType, NEW f \in File, NEW din \in Inode, NEW W, W = Fetched(Z, f, din)
  PROVE  /\ W \in FsType /\ W.freemap = Z.freemap /\ W.unused = Z.unused
         /\ W.data = Z.data /\ W.oops = Z.oops /\ W.din[f] = din
         /\ \A g \in File \ {f} : W.din[g] = Z.din[g]
         /\ ~W.dirty[f] /\ \A g \in File \ {f} : W.dirty[g] = Z.dirty[g]
<1>1. PICK Y : Y = [Z EXCEPT !.din[f] = din]
  OBVIOUS
<1>2. Y = [freemap |-> Z.freemap, unused |-> Z.unused, data |-> Z.data,
           din |-> [Z.din EXCEPT ![f] = din], dirty |-> Z.dirty, oops |-> Z.oops]
  BY <1>1 DEF FsType
<1>3. [Y EXCEPT !.dirty[f] = FALSE]
        = [freemap |-> Z.freemap, unused |-> Z.unused, data |-> Z.data,
           din |-> [Z.din EXCEPT ![f] = din], dirty |-> [Z.dirty EXCEPT ![f] = FALSE],
           oops |-> Z.oops]
  <2>1. PICK dirt : dirt = [Z.dirty EXCEPT ![f] = FALSE]
    OBVIOUS
  <2>2. Y.dirty = Z.dirty
    BY <1>2
  <2>3. [Y EXCEPT !.dirty[f] = FALSE] = [Y EXCEPT !.dirty = dirt]
    BY <2>1, <2>2, Zenon
  <2>4. [Y EXCEPT !.dirty = dirt]
          = [freemap |-> Z.freemap, unused |-> Z.unused, data |-> Z.data,
             din |-> [Z.din EXCEPT ![f] = din], dirty |-> dirt, oops |-> Z.oops]
    BY <1>2
  <2> QED BY <2>1, <2>3, <2>4
<1>4. W = [Y EXCEPT !.dirty[f] = FALSE]
  BY <1>1, Zenon DEF Fetched
<1>5. /\ Z.din \in Inodes /\ Z.dirty \in [File -> BOOLEAN]
      /\ Z.freemap \in SUBSET Blk /\ Z.unused \in 0..NBlock
      /\ Z.data \in [Blk -> [Cell -> Nat]] /\ Z.oops \in {"no", "assert", "hole", "range"}
  BY DEF FsType, Inodes
<1>6. /\ [Z.din EXCEPT ![f] = din] \in Inodes /\ [Z.din EXCEPT ![f] = din][f] = din
      /\ \A g \in File \ {f} : [Z.din EXCEPT ![f] = din][g] = Z.din[g]
  BY <1>5 DEF Inodes
<1>7. /\ [Z.dirty EXCEPT ![f] = FALSE] \in [File -> BOOLEAN]
      /\ [Z.dirty EXCEPT ![f] = FALSE][f] = FALSE
      /\ \A g \in File \ {f} : [Z.dirty EXCEPT ![f] = FALSE][g] = Z.dirty[g]
  BY <1>5
<1>8. PICK dins, dirt : /\ dins = [Z.din EXCEPT ![f] = din]
                        /\ dirt = [Z.dirty EXCEPT ![f] = FALSE]
  OBVIOUS
<1>9. /\ dins \in Inodes /\ dins[f] = din /\ \A g \in File \ {f} : dins[g] = Z.din[g]
      /\ dirt \in [File -> BOOLEAN] /\ ~dirt[f]
      /\ \A g \in File \ {f} : dirt[g] = Z.dirty[g]
  BY <1>6, <1>7, <1>8, Zenon
<1>10. W = [freemap |-> Z.freemap, unused |-> Z.unused, data |-> Z.data,
            din |-> dins, dirty |-> dirt, oops |-> Z.oops]
  BY <1>3, <1>4, <1>8, Zenon
<1>11. W \in FsType
  BY <1>5, <1>9, <1>10 DEF FsType, Inodes
<1>12. /\ W.freemap = Z.freemap /\ W.unused = Z.unused
       /\ W.data = Z.data /\ W.oops = Z.oops /\ W.din = dins /\ W.dirty = dirt
  BY <1>10
<1> QED BY <1>9, <1>11, <1>12, Zenon

(* The files are what they were.                                           *)
SameFiles == View' = View /\ fs'.data = fs.data /\ fs'.oops = "no"

(* file_dup.                                                               *)
LEMMA DupStep ==
  ASSUME SfsInv, NEW d \in Fd, NEW e \in Fd, Dup(d, e)
  PROVE  SfsInv' /\ SameFiles
<1>1. Quiet /\ call' = None
  BY QuietIs DEF Dup, Ready
<1>2. /\ Types /\ fs.oops = "no" /\ Layout /\ Plain /\ PositionsFit /\ OnDisk
  BY <1>1 DEF Quiet
<1>3. /\ fd' = [fd EXCEPT ![e] = fd[d]] /\ fs' = fs /\ disk' = disk
      /\ fd[d].file # NoFile /\ fd[e].file = NoFile /\ d # e
  BY DEF Dup
<1>4. fd \in [Fd -> [file : File \cup {NoFile}, pos : 0..MaxFileSize]]
  BY <1>2 DEF Types
<1>5. /\ fd' \in [Fd -> [file : File \cup {NoFile}, pos : 0..MaxFileSize]]
      /\ fd'[e] = fd[d] /\ \A c \in Fd : c # e => fd'[c] = fd[c]
  BY <1>3, <1>4
<1>6. Types'
  BY <1>1, <1>2, <1>3, <1>5, NoneType DEF Types
<1>7. \A f \in File : Loaded(f)' <=> Loaded(f)
  BY <1>3, <1>5, FileAssumption DEF Loaded, Users
<1>8. \A f \in File : Din(f)' = Din(f)
  BY <1>3, <1>7 DEF Din
<1>9. Layout'
  BY <1>2, <1>3, <1>8, SameView, KeepsLayout
<1>10. Plain'
  BY <1>2, <1>8 DEF Plain
<1>11. PositionsFit'
  <2> SUFFICES ASSUME NEW c \in Fd, fd'[c].file # NoFile
               PROVE  fd'[c].pos <= View'[fd'[c].file].size
    BY DEF PositionsFit
  <2>1. PICK a \in Fd : fd'[c] = fd[a]
    BY <1>5
  <2>2. fd[a].pos <= View[fd[a].file].size
    BY <1>2, <2>1 DEF PositionsFit
  <2> QED BY <1>8, <2>1, <2>2, SameView
<1>12. OnDisk'
  BY <1>2, <1>3, <1>7, Zenon DEF OnDisk
<1>13. Quiet'
  BY <1>2, <1>3, <1>6, <1>9, <1>10, <1>11, <1>12 DEF Quiet
<1>14. SameFiles
  BY <1>2, <1>3, <1>8, SameView DEF SameFiles
<1> QED BY <1>1, <1>13, <1>14, QuietStep

(* file_fsync.                                                             *)
LEMMA FsyncStep ==
  ASSUME SfsInv, NEW d \in Fd, Fsync(d)
  PROVE  SfsInv' /\ SameFiles
<1>1. Quiet /\ call' = None
  BY QuietIs DEF Fsync, Ready
<1>2. /\ Types /\ fs.oops = "no" /\ Layout /\ Plain /\ PositionsFit /\ OnDisk
  BY <1>1 DEF Quiet
<1>3. PICK f : f = fd[d].file
  OBVIOUS
<1>4. /\ fs' = [fs EXCEPT !.dirty[f] = FALSE] /\ disk' = [disk EXCEPT ![f] = fs.din[f]]
      /\ fd' = fd
  BY <1>3 DEF Fsync
<1>5. f \in File /\ Loaded(f) /\ Din(f) = fs.din[f]
  <2>1. fd[d].file # NoFile
    BY DEF Fsync
  <2> QED BY <1>2, <1>3, <2>1, InMemory
<1>6. /\ fs \in FsType /\ fs.din \in Inodes /\ disk \in Inodes
      /\ fs.dirty \in [File -> BOOLEAN]
  BY <1>2, TypesAre
<1>7. /\ fs' \in FsType /\ fs'.freemap = fs.freemap /\ fs'.unused = fs.unused
      /\ fs'.data = fs.data /\ fs'.din = fs.din /\ fs'.oops = fs.oops
      /\ fs'.dirty \in [File -> BOOLEAN]
      /\ \A g \in File \ {f} : fs'.dirty[g] = fs.dirty[g]
  <2>1. PICK dirt : dirt = [fs.dirty EXCEPT ![f] = FALSE]
    OBVIOUS
  <2>2. dirt \in [File -> BOOLEAN] /\ \A g \in File \ {f} : dirt[g] = fs.dirty[g]
    BY <1>5, <1>6, <2>1
  <2>3. fs' = [fs EXCEPT !.dirty = dirt]
    BY <1>4, <2>1, Zenon
  <2>4. fs' = [freemap |-> fs.freemap, unused |-> fs.unused, data |-> fs.data,
               din |-> fs.din, dirty |-> dirt, oops |-> fs.oops]
    BY <1>6, <2>3 DEF FsType
  <2>5. fs' \in FsType
    BY <1>6, <2>2, <2>4 DEF FsType
  <2>6. /\ fs'.freemap = fs.freemap /\ fs'.unused = fs.unused /\ fs'.dirty = dirt
        /\ fs'.data = fs.data /\ fs'.din = fs.din /\ fs'.oops = fs.oops
    BY <2>4
  <2> QED BY <2>2, <2>5, <2>6, Zenon
<1>8. /\ disk' \in [File -> Inode] /\ disk'[f] = fs.din[f]
      /\ \A g \in File \ {f} : disk'[g] = disk[g]
  BY <1>4, <1>5, <1>6 DEF Inodes
<1>9. Types'
  BY <1>1, <1>2, <1>4, <1>7, <1>8, NoneType DEF Types
<1>10. \A g \in File : Loaded(g)' <=> Loaded(g)
  BY <1>4, SameUsers
<1>11. \A g \in File : Din(g)' = Din(g)
  BY <1>5, <1>7, <1>8, <1>10 DEF Din
<1>12. Layout'
  BY <1>2, <1>7, <1>11, SameView, KeepsLayout
<1>13. Plain'
  BY <1>2, <1>11 DEF Plain
<1>14. PositionsFit'
  BY <1>2, <1>4, <1>11, SameView DEF PositionsFit
<1>15. OnDisk'
  <2> SUFFICES ASSUME NEW g \in File, Loaded(g)', ~fs'.dirty[g]
               PROVE  disk'[g] = fs'.din[g]
    BY Zenon DEF OnDisk
  <2>1. CASE g = f
    BY <1>7, <1>8, <2>1
  <2>2. CASE g # f
    <3>1. disk[g] = fs.din[g]
      BY <1>2, <1>7, <1>10, <2>2, Zenon DEF OnDisk
    <3> QED BY <1>7, <1>8, <2>2, <3>1
  <2> QED BY <2>1, <2>2
<1>16. Quiet'
  BY <1>2, <1>7, <1>9, <1>12, <1>13, <1>14, <1>15 DEF Quiet
<1>17. SameFiles
  BY <1>2, <1>7, <1>11, SameView DEF SameFiles
<1> QED BY <1>1, <1>16, <1>17, QuietStep

(* file_close.                                                             *)
LEMMA CloseStep ==
  ASSUME SfsInv, NEW d \in Fd, Close(d)
  PROVE  SfsInv' /\ SameFiles
<1>1. Quiet /\ call' = None
  BY QuietIs DEF Close, Ready
<1>2. /\ Types /\ fs.oops = "no" /\ Layout /\ Plain /\ PositionsFit /\ OnDisk
  BY <1>1 DEF Quiet
<1>3. PICK f : f = fd[d].file
  OBVIOUS
<1>4. f \in File /\ Loaded(f) /\ Din(f) = fs.din[f] /\ f # NoFile
  <2>1. fd[d].file # NoFile
    BY DEF Close
  <2> QED BY <1>2, <1>3, <2>1, InMemory
<1>5. /\ fs \in FsType /\ fs.din \in Inodes /\ disk \in Inodes
      /\ fs.dirty \in [File -> BOOLEAN] /\ fs.din[f] \in Inode
      /\ fd \in [Fd -> [file : File \cup {NoFile}, pos : 0..MaxFileSize]]
  BY <1>2, <1>4, TypesAre DEF Types, Inodes
<1>6. /\ fd' \in [Fd -> [file : File \cup {NoFile}, pos : 0..MaxFileSize]]
      /\ fd'[d].file = NoFile /\ \A c \in Fd : c # d => fd'[c] = fd[c]
  <2>1. fd' = [fd EXCEPT ![d] = [file |-> NoFile, pos |-> 0]]
    BY DEF Close
  <2>2. [file |-> NoFile, pos |-> 0] \in [file : File \cup {NoFile}, pos : 0..MaxFileSize]
    BY Consts
  <2> QED BY <1>5, <2>1, <2>2
<1>7. \A g \in File \ {f} : Loaded(g)' <=> Loaded(g)
  <2>1. ASSUME NEW g \in File \ {f}
        PROVE  Users(g)' = Users(g)
    BY <1>3, <1>6, FileAssumption DEF Users
  <2> QED BY <2>1 DEF Loaded
<1>8. /\ fs' \in FsType /\ fs'.freemap = fs.freemap /\ fs'.unused = fs.unused
      /\ fs'.data = fs.data /\ fs'.oops = "no" /\ disk' \in [File -> Inode]
      /\ \A g \in File \ {f} : disk'[g] = disk[g] /\ fs'.din[g] = fs.din[g]
      /\ \A g \in File \ {f} : fs'.dirty[g] = fs.dirty[g]
      /\ Loaded(f)' => fs'.din = fs.din /\ fs'.dirty = fs.dirty /\ disk' = disk
      /\ ~Loaded(f)' => disk'[f] = fs.din[f]
  <2>1. CASE Users(f) = {d}
    <3>1. /\ fs' = Fetched(fs, f, EmptyInode)
          /\ disk' = IF fs.dirty[f] THEN [disk EXCEPT ![f] = fs.din[f]] ELSE disk
      BY <1>3, <2>1, Zenon DEF Close, vfs_close, Fetched, MustSync
    <3>2. /\ fs' \in FsType /\ fs'.freemap = fs.freemap /\ fs'.unused = fs.unused
          /\ fs'.data = fs.data /\ fs'.oops = fs.oops
          /\ \A g \in File \ {f} : fs'.din[g] = fs.din[g]
          /\ \A g \in File \ {f} : fs'.dirty[g] = fs.dirty[g]
      BY <1>4, <1>5, <3>1, EmptyType, FetchedIs
    <3>3. CASE fs.dirty[f]
      <4>1. disk' = [disk EXCEPT ![f] = fs.din[f]]
        BY <3>1, <3>3, Zenon
      <4>2. /\ disk' \in [File -> Inode] /\ disk'[f] = fs.din[f]
            /\ \A g \in File \ {f} : disk'[g] = disk[g]
        BY <1>4, <1>5, <4>1 DEF Inodes
      <4>3. ~Loaded(f)'
        BY <1>4, <1>6, <2>1 DEF Loaded, Users
      <4> QED BY <1>2, <3>2, <4>2, <4>3, Zenon
    <3>4. CASE ~fs.dirty[f]
      <4>1. disk' = disk
        BY <3>1, <3>4, Zenon
      <4>2. disk[f] = fs.din[f]
        BY <1>2, <1>4, <3>4, Zenon DEF OnDisk
      <4>3. ~Loaded(f)'
        BY <1>4, <1>6, <2>1 DEF Loaded, Users
      <4>4. disk' \in [File -> Inode]
        BY <1>5, <4>1 DEF Inodes
      <4> QED BY <1>2, <3>2, <4>1, <4>2, <4>3, <4>4, Zenon
    <3> QED BY <3>3, <3>4, Zenon
  <2>2. CASE Users(f) # {d}
    <3>1. fs' = fs /\ disk' = disk
      BY <1>3, <2>2, Zenon DEF Close, vfs_close
    <3>2. Loaded(f)'
      <4>1. d \in Users(f)
        BY <1>3 DEF Users
      <4>2. PICK c \in Users(f) : c # d
        BY <2>2, <4>1
      <4>3. c \in Users(f)'
        BY <1>6, <4>2 DEF Users
      <4> QED BY <4>3 DEF Loaded
    <3>3. /\ disk' \in [File -> Inode] /\ fs' \in FsType
      BY <1>5, <3>1 DEF Inodes
    <3> QED BY <1>2, <3>1, <3>2, <3>3, Zenon
  <2> QED BY <2>1, <2>2
<1>9. Types'
  BY <1>1, <1>6, <1>8, NoneType DEF Types
<1>10. \A g \in File : Din(g)' = Din(g)
  <2>1. ASSUME NEW g \in File \ {f} PROVE Din(g)' = Din(g)
    BY <1>7, <1>8, <2>1 DEF Din
  <2>2. Din(f)' = Din(f)
    BY <1>4, <1>8 DEF Din
  <2> QED BY <2>1, <2>2
<1>11. View' = View
  BY <1>10, SameView
<1>12. Layout'
  BY <1>2, <1>8, <1>11, KeepsLayout
<1>13. Plain'
  BY <1>2, <1>10 DEF Plain
<1>14. PositionsFit'
  <2> SUFFICES ASSUME NEW c \in Fd, fd'[c].file # NoFile
               PROVE  fd'[c].pos <= View'[fd'[c].file].size
    BY DEF PositionsFit
  <2>1. fd'[c] = fd[c]
    BY <1>6
  <2> QED BY <1>2, <1>11, <2>1 DEF PositionsFit
<1>15. OnDisk'
  <2> SUFFICES ASSUME NEW g \in File, Loaded(g)', ~fs'.dirty[g]
               PROVE  disk'[g] = fs'.din[g]
    BY Zenon DEF OnDisk
  <2>1. CASE g = f
    BY <1>2, <1>4, <1>8, <2>1, Zenon DEF OnDisk
  <2>2. CASE g # f
    <3>1. disk[g] = fs.din[g]
      BY <1>2, <1>7, <1>8, <2>2, Zenon DEF OnDisk
    <3> QED BY <1>8, <2>2, <3>1
  <2> QED BY <2>1, <2>2
<1>16. Quiet'
  BY <1>8, <1>9, <1>12, <1>13, <1>14, <1>15 DEF Quiet
<1>17. SameFiles
  BY <1>8, <1>11 DEF SameFiles
<1> QED BY <1>1, <1>16, <1>17, QuietStep

(* file_open: what vfs_open does with the inode.                           *)
LEMMA OpensInode ==
  ASSUME Quiet, NEW d \in Fd, NEW f \in File, NEW trunc \in BOOLEAN, vfs_open(d, f, trunc)
  PROVE  /\ fs' \in FsType /\ fs'.freemap = fs.freemap /\ fs'.unused = fs.unused
         /\ fs'.data = fs.data /\ fs'.oops = "no" /\ fs'.din[f] = Din(f)
         /\ \A g \in File \ {f} : fs'.din[g] = fs.din[g] /\ fs'.dirty[g] = fs.dirty[g]
         /\ Loaded(f) => fs' = fs
         /\ ~Loaded(f) => ~fs'.dirty[f]
         /\ call' = None \/ (trunc /\ call' = TruncCall("open", d, 0))
<1>1. Types /\ fs.oops = "no" /\ Plain
  BY DEF Quiet
<1>2. fs \in FsType /\ Din(f) \in Inode
  BY <1>1, TypesAre
<1>3. PICK Z : Z = IF Loaded(f) THEN fs ELSE Fetched(fs, f, Din(f))
  OBVIOUS
<1>4. /\ Z \in FsType /\ Z.freemap = fs.freemap /\ Z.unused = fs.unused
      /\ Z.data = fs.data /\ Z.oops = "no" /\ Z.din[f] = Din(f)
      /\ \A g \in File \ {f} : Z.din[g] = fs.din[g] /\ Z.dirty[g] = fs.dirty[g]
      /\ Loaded(f) => Z = fs
      /\ ~Loaded(f) => ~Z.dirty[f]
  <2>1. CASE Loaded(f)
    <3>1. Z = fs /\ Din(f) = fs.din[f]
      BY <1>3, <2>1, Zenon DEF Din
    <3> QED BY <1>1, <1>2, <2>1, <3>1, Zenon
  <2>2. CASE ~Loaded(f)
    <3>1. Z = Fetched(fs, f, Din(f))
      BY <1>3, <2>2, Zenon
    <3>2. PICK x : x = Din(f)
      OBVIOUS
    <3>3. /\ Z \in FsType /\ Z.freemap = fs.freemap /\ Z.unused = fs.unused
          /\ Z.data = fs.data /\ Z.oops = fs.oops /\ Z.din[f] = x
          /\ \A g \in File \ {f} : Z.din[g] = fs.din[g]
          /\ ~Z.dirty[f] /\ \A g \in File \ {f} : Z.dirty[g] = fs.dirty[g]
      BY <1>2, <3>1, <3>2, FetchedIs
    <3> QED BY <1>1, <2>2, <3>2, <3>3, Zenon
  <2> QED BY <2>1, <2>2
<1>5. fs' = Z /\ (call' = None \/ (trunc /\ call' = TruncCall("open", d, 0)))
  <2>1. IF trunc THEN Truncate(Z, d, f, 0, "open") ELSE fs' = Z /\ call' = None
    BY <1>3, Zenon DEF vfs_open, Fetched
  <2>2. CASE ~trunc
    BY <2>1, <2>2, Zenon
  <2>3. CASE trunc /\ Z.din[f].size = 0
    <3>1. fs' = Check(Z, Blocks(0) = Z.din[f].blocks, "assert") /\ call' = None
      BY <2>1, <2>3, Zenon DEF Truncate
    <3>2. Blocks(0) = Z.din[f].blocks
      BY <1>1, <1>4, <2>3 DEF Plain
    <3>3. Check(Z, Blocks(0) = Z.din[f].blocks, "assert") = Z
      BY <3>2, Zenon DEF Check
    <3> QED BY <3>1, <3>3, Zenon
  <2>4. CASE trunc /\ Z.din[f].size # 0
    BY <2>1, <2>4, Zenon DEF Truncate, TruncCall
  <2> QED BY <2>2, <2>3, <2>4
<1> QED BY <1>4, <1>5, Zenon

(* file_open keeps the invariant.                                          *)
LEMMA OpenStep ==
  ASSUME Careful, SfsInv, NEW d \in Fd, NEW f \in File, NEW trunc \in BOOLEAN,
         NEW append \in BOOLEAN, Open(d, f, trunc, append)
  PROVE  SfsInv' /\ SameFiles /\ (call' = None \/ (trunc /\ call' = TruncCall("open", d, 0)))
<1>1. Quiet
  BY QuietIs DEF Open
<1>2. /\ Types /\ fs.oops = "no" /\ Layout /\ Plain /\ PositionsFit /\ OnDisk
  BY <1>1 DEF Quiet
<1>3. /\ fd[d].file = NoFile /\ (trunc => ~Loaded(f)) /\ vfs_open(d, f, trunc)
      /\ disk' = disk
  BY Zenon DEF Open
<1>4. /\ fs' \in FsType /\ fs'.freemap = fs.freemap /\ fs'.unused = fs.unused
      /\ fs'.data = fs.data /\ fs'.oops = "no" /\ fs'.din[f] = Din(f)
      /\ \A g \in File \ {f} : fs'.din[g] = fs.din[g] /\ fs'.dirty[g] = fs.dirty[g]
      /\ Loaded(f) => fs' = fs
      /\ ~Loaded(f) => ~fs'.dirty[f]
      /\ call' = None \/ (trunc /\ call' = TruncCall("open", d, 0))
  BY <1>1, <1>3, OpensInode, Zenon
<1>5. Din(f).size \in Nat /\ Din(f).size <= MaxFileSize /\ disk \in [File -> Inode]
  BY <1>2, TypesAre DEF Plain, Inodes
<1>6. PICK p : p = IF append /\ ~trunc THEN Din(f).size ELSE 0
  OBVIOUS
<1>7. p \in 0..MaxFileSize /\ p <= Din(f).size /\ (trunc => p = 0)
  BY <1>5, <1>6, Consts
<1>8. /\ fd' \in [Fd -> [file : File \cup {NoFile}, pos : 0..MaxFileSize]]
      /\ fd'[d].file = f /\ fd'[d].pos = p /\ \A c \in Fd : c # d => fd'[c] = fd[c]
  <2>1. fd' = [fd EXCEPT ![d] = [file |-> f, pos |-> p]]
    BY <1>6, Zenon DEF Open
  <2>2. fd \in [Fd -> [file : File \cup {NoFile}, pos : 0..MaxFileSize]]
    BY <1>2 DEF Types
  <2>3. [file |-> f, pos |-> p] \in [file : File \cup {NoFile}, pos : 0..MaxFileSize]
    BY <1>7
  <2> QED BY <2>1, <2>2, <2>3
<1>9. Types'
  <2>1. TruncCall("open", d, 0) \in CallType
    BY TruncCallIs
  <2>2. call' \in CallType
    BY <1>4, <2>1, NoneType
  <2> QED BY <1>3, <1>4, <1>5, <1>8, <2>2 DEF Types
<1>10. Loaded(f)' /\ \A g \in File \ {f} : Loaded(g)' <=> Loaded(g)
  <2>1. ASSUME NEW g \in File \ {f}
        PROVE  Users(g)' = Users(g)
    BY <1>3, <1>8, FileAssumption DEF Users
  <2>2. d \in Users(f)'
    BY <1>8 DEF Users
  <2> QED BY <2>1, <2>2 DEF Loaded
<1>11. \A g \in File : Din(g)' = Din(g)
  <2>1. ASSUME NEW g \in File \ {f} PROVE Din(g)' = Din(g)
    BY <1>3, <1>4, <1>10 DEF Din
  <2>2. Din(f)' = Din(f)
    BY <1>4, <1>10 DEF Din
  <2> QED BY <2>1, <2>2
<1>12. View' = View /\ View[f] = Din(f)
  BY <1>2, <1>11, SameView, TypesAre
<1>13. Layout'
  BY <1>2, <1>4, <1>12, KeepsLayout
<1>14. Plain'
  BY <1>2, <1>11 DEF Plain
<1>15. PositionsFit'
  <2> SUFFICES ASSUME NEW c \in Fd, fd'[c].file # NoFile
               PROVE  fd'[c].pos <= View'[fd'[c].file].size
    BY DEF PositionsFit
  <2>1. CASE c = d
    BY <1>7, <1>8, <1>12, <2>1
  <2>2. CASE c # d
    BY <1>2, <1>8, <1>12, <2>2 DEF PositionsFit
  <2> QED BY <2>1, <2>2
<1>16. OnDisk'
  <2> SUFFICES ASSUME NEW g \in File, Loaded(g)', ~fs'.dirty[g]
               PROVE  disk'[g] = fs'.din[g]
    BY Zenon DEF OnDisk
  <2>1. CASE g = f /\ Loaded(f)
    <3>1. disk[f] = fs.din[f]
      BY <1>2, <1>4, <2>1, Zenon DEF OnDisk
    <3> QED BY <1>3, <1>4, <2>1, <3>1
  <2>2. CASE g = f /\ ~Loaded(f)
    <3>1. Din(f) = disk[f]
      BY <2>2 DEF Din
    <3> QED BY <1>3, <1>4, <2>2, <3>1
  <2>3. CASE g # f
    <3>1. disk[g] = fs.din[g]
      BY <1>2, <1>4, <1>10, <2>3, Zenon DEF OnDisk
    <3> QED BY <1>3, <1>4, <2>3, <3>1
  <2> QED BY <2>1, <2>2, <2>3
<1>20. SameFiles
  BY <1>4, <1>12 DEF SameFiles
<1>17. Quiet'
  BY <1>4, <1>9, <1>13, <1>14, <1>15, <1>16 DEF Quiet
<1>18. CASE call' = None
  BY <1>17, <1>18, <1>20, QuietStep
<1>19. CASE trunc /\ call' = TruncCall("open", d, 0)
  <2>1. call'.d = d /\ call'.end = 0 /\ call'.op = "open" /\ call'.step = "trunc"
    BY <1>19, TruncCallIs
  <2>2. Target' = f
    BY <1>8, <2>1 DEF Target
  <2>3. \A c \in Fd : fd'[c].file = f => c = d
    <3>1. Users(f) = {}
      BY <1>3, <1>19 DEF Loaded
    <3> QED BY <1>8, <3>1 DEF Users
  <2>4. TruncFits'
    BY <1>7, <1>8, <1>19, <2>1, <2>2, <2>3, FileAssumption, Consts DEF TruncFits
  <2> QED BY <1>17, <1>19, <1>20, <2>4, TruncStep
<1> QED BY <1>4, <1>18, <1>19

(* file_seek.                                                              *)
LEMMA SeekStep ==
  ASSUME Careful, SfsInv, NEW d \in Fd, NEW pos \in Positions, Seek(d, pos)
  PROVE  SfsInv' /\ SameFiles /\ (call' = None \/ call' = TruncCall("seek", d, pos))
<1>1. Quiet
  BY QuietIs DEF Seek
<1>2. /\ Types /\ fs.oops = "no" /\ Layout /\ Plain /\ PositionsFit /\ OnDisk
  BY <1>1 DEF Quiet
<1>3. PICK f : f = fd[d].file
  OBVIOUS
<1>4. f # NoFile /\ sfs_tryseek(d, f, pos) /\ disk' = disk
  BY <1>3 DEF Seek
<1>5. f \in File /\ Loaded(f) /\ Din(f) = fs.din[f] /\ View[f] = Din(f)
  BY <1>2, <1>3, <1>4, InMemory, TypesAre
<1>6. pos \in Nat /\ pos \in 0..MaxFileSize /\ pos <= MaxFileSize
  BY SizeAssumption
<1>7. fd \in [Fd -> [file : File \cup {NoFile}, pos : 0..MaxFileSize]]
  BY <1>2 DEF Types
<1>8. CASE pos <= fs.din[f].size
  <2>1. fs' = fs /\ call' = call /\ fd' = [fd EXCEPT ![d].pos = pos]
    <3>1. ~(pos > fs.din[f].size)
      BY <1>2, <1>5, <1>6, <1>8, TypesAre
    <3> QED BY <1>4, <1>8, <3>1, Zenon DEF sfs_tryseek
  <2>2. /\ fd' \in [Fd -> [file : File \cup {NoFile}, pos : 0..MaxFileSize]]
        /\ \A c \in Fd : fd'[c].file = fd[c].file
        /\ fd'[d].pos = pos /\ \A c \in Fd : c # d => fd'[c] = fd[c]
    BY <1>6, <1>7, <2>1
  <2>3. call' = None
    BY <2>1 DEF Seek, Ready
  <2>4. Types'
    BY <1>2, <1>4, <2>1, <2>2, <2>3, NoneType DEF Types
  <2>5. \A g : Loaded(g)' <=> Loaded(g)
    BY <2>2, SameUsers
  <2>6. \A g \in File : Din(g)' = Din(g)
    BY <1>4, <2>1, <2>5 DEF Din
  <2>7. View' = View
    BY <2>6, SameView
  <2>8. Layout'
    BY <1>2, <2>1, <2>7, KeepsLayout
  <2>9. Plain'
    BY <1>2, <2>6 DEF Plain
  <2>10. PositionsFit'
    <3> SUFFICES ASSUME NEW c \in Fd, fd'[c].file # NoFile
                 PROVE  fd'[c].pos <= View'[fd'[c].file].size
      BY DEF PositionsFit
    <3>1. CASE c = d
      BY <1>3, <1>5, <1>8, <2>2, <2>7, <3>1
    <3>2. CASE c # d
      BY <1>2, <2>2, <2>7, <3>2 DEF PositionsFit
    <3> QED BY <3>1, <3>2
  <2>11. OnDisk'
    BY <1>2, <1>4, <2>1, <2>5, Zenon DEF OnDisk
  <2>12. Quiet'
    BY <1>2, <2>1, <2>4, <2>8, <2>9, <2>10, <2>11 DEF Quiet
  <2>13. SameFiles
    BY <1>2, <2>1, <2>7 DEF SameFiles
  <2> QED BY <2>3, <2>12, <2>13, QuietStep
<1>9. CASE pos > fs.din[f].size
  <2>1. RoomFor(f, pos) /\ Truncate(fs, d, f, pos, "seek") /\ fd' = fd
    <3>1. ~(pos <= fs.din[f].size)
      BY <1>2, <1>5, <1>6, <1>9, TypesAre
    <3> QED BY <1>4, <3>1, Zenon DEF sfs_tryseek
  <2>2. fs' = fs /\ call' = TruncCall("seek", d, pos)
    <3>1. fs.din[f].size # pos
      BY <1>2, <1>5, <1>6, <1>9, TypesAre
    <3> QED BY <2>1, <3>1, Zenon DEF Truncate, TruncCall
  <2>3. /\ call' \in CallType /\ call'.step = "trunc" /\ call'.op = "seek"
        /\ call'.d = d /\ call'.end = pos
    BY <1>6, <2>2, TruncCallIs
  <2>4. Types'
    BY <1>2, <1>4, <2>1, <2>2, <2>3 DEF Types
  <2>5. \A g : Loaded(g)' <=> Loaded(g)
    BY <2>1, SameUsers
  <2>6. \A g \in File : Din(g)' = Din(g)
    BY <1>4, <2>2, <2>5 DEF Din
  <2>7. View' = View
    BY <2>6, SameView
  <2>8. Layout'
    BY <1>2, <2>2, <2>7, KeepsLayout
  <2>9. Plain'
    BY <1>2, <2>6 DEF Plain
  <2>10. PositionsFit'
    BY <1>2, <2>1, <2>7 DEF PositionsFit
  <2>11. OnDisk'
    BY <1>2, <1>4, <2>2, <2>5, Zenon DEF OnDisk
  <2>12. Quiet'
    BY <1>2, <2>2, <2>4, <2>8, <2>9, <2>10, <2>11 DEF Quiet
  <2>13. Target' = f
    BY <1>3, <2>1, <2>3 DEF Target
  <2>14. /\ View[f].size < pos /\ View[f].blocks >= Blocks(View[f].size)
         /\ Smaller(Blocks(pos), Top) + Need(View[f]) <= fs.unused + View[f].blocks
    <3>1. View[f].size \in Nat /\ View[f].blocks \in Nat /\ Blocks(pos) \in Nat /\ fs.unused \in Nat
      BY <1>2, <1>5, <1>6, TypesAre, BlocksIs
    <3>2. View[f].blocks = Blocks(View[f].size)
      BY <1>2, <1>5 DEF Plain
    <3>3. Smaller(Blocks(pos), Top) - View[f].blocks + 1 <= fs.unused
      BY <1>2, <1>5, <2>1 DEF RoomFor, Layout, Top
    <3>4. Need(View[f]) \in {0, 1} /\ Smaller(Blocks(pos), Top) \in Nat
      BY <3>1, Consts DEF Need, Smaller
    <3> QED BY <1>5, <1>6, <1>9, <3>1, <3>2, <3>3, <3>4
  <2>15. TruncFits'
    BY <1>4, <1>6, <2>2, <2>3, <2>7, <2>13, <2>14 DEF TruncFits
  <2>16. SameFiles
    BY <1>2, <2>2, <2>7 DEF SameFiles
  <2> QED BY <1>6, <2>2, <2>12, <2>15, <2>16, TruncStep
<1> QED BY <1>2, <1>5, <1>6, <1>8, <1>9, TypesAre

-----------------------------------------------------------------------------
(* The loop and the end of sfs_truncfile.                                  *)

(* What the parts of the invariant say in it.                              *)
LEMMA InTrunc ==
  ASSUME SfsInv, call.step = "trunc", fs.oops = "no"
  PROVE  /\ Types /\ Layout /\ SizesFit /\ PositionsFit /\ Synced
         /\ call.d \in Fd /\ Target # NoFile /\ Target = fd[call.d].file
         /\ Target \in File /\ Loaded(Target) /\ View[Target] = fs.din[Target]
         /\ Din(Target) = fs.din[Target]
         /\ Good(fs, View, Target) /\ call.end \in Nat /\ call.end <= MaxFileSize
         /\ call \in CallType /\ ~InIo
         /\ \/ /\ call.op = "open" /\ call.end = 0 /\ fd[call.d].pos = 0
               /\ \A d \in Fd : fd[d].file = Target => d = call.d
            \/ /\ call.op = "seek" /\ View[Target].size < call.end
               /\ View[Target].blocks >= Blocks(View[Target].size)
               /\ Smaller(Blocks(call.end), Top) + Need(View[Target]) <= fs.unused + View[Target].blocks
<1>1. Types /\ Layout /\ SizesFit /\ PositionsFit /\ Synced /\ TruncFits
  BY DEF SfsInv, BlocksFit
<1>2. /\ call.d \in Fd /\ Target # NoFile /\ call.end <= MaxFileSize
      /\ \/ /\ call.op = "open" /\ call.end = 0 /\ fd[call.d].pos = 0
            /\ \A d \in Fd : fd[d].file = Target => d = call.d
         \/ /\ call.op = "seek" /\ View[Target].size < call.end
            /\ View[Target].blocks >= Blocks(View[Target].size)
            /\ Smaller(Blocks(call.end), Top) + Need(View[Target]) <= fs.unused + View[Target].blocks
  BY <1>1 DEF TruncFits
<1>3. /\ fd[call.d].file \in File /\ Loaded(fd[call.d].file)
      /\ Din(fd[call.d].file) = fs.din[fd[call.d].file]
      /\ Good(fs, View, fd[call.d].file)
  BY <1>1, <1>2, InMemory DEF Target
<1>4. View[fd[call.d].file] = fs.din[fd[call.d].file]
  BY <1>1, <1>3, TypesAre
<1>5. call \in CallType /\ call.end \in Nat
  BY <1>1 DEF Types, CallType
<1>6. ~InIo
  BY DEF InIo
<1> QED BY <1>1, <1>2, <1>3, <1>4, <1>5, <1>6 DEF Target

(* A turn that leaves the call in the loop.                                *)
LEMMA TurnStep ==
  ASSUME SfsInv, call.step = "trunc", fs.oops = "no", disk' = disk, fd' = fd, call' = call,
         NEW f, f = Target, Sound(fs'),
         fs'.din[f].size = fs.din[f].size,
         \A g \in File \ {f} : fs'.din[g] = fs.din[g] /\ fs'.dirty[g] = fs.dirty[g],
         \A C : Follows(C, View, f, fs'.din[f]) =>
           Exact(Map(C, fs'.data), fs'.freemap) /\ Filled(Map(C, fs'.data), C),
         call.op = "seek" =>
           /\ fs'.din[f].blocks >= Blocks(fs.din[f].size)
           /\ Smaller(Blocks(call.end), Top) + Need(fs'.din[f]) <= fs'.unused + fs'.din[f].blocks
  PROVE  SfsInv'
<1>1. /\ Types /\ Layout /\ SizesFit /\ PositionsFit /\ Synced
      /\ call.d \in Fd /\ f # NoFile /\ f = fd[call.d].file
      /\ f \in File /\ Loaded(f) /\ View[f] = fs.din[f] /\ Din(f) = fs.din[f]
      /\ call.end \in Nat /\ call.end <= MaxFileSize /\ call \in CallType /\ ~InIo
  BY InTrunc
<1>2. \/ /\ call.op = "open" /\ call.end = 0 /\ fd[call.d].pos = 0
         /\ \A d \in Fd : fd[d].file = f => d = call.d
      \/ /\ call.op = "seek" /\ fs.din[f].size < call.end
  BY <1>1, InTrunc
<1>3. fs' \in FsType /\ fs'.oops = "no" /\ fs'.unused = Cardinality(fs'.freemap)
  BY DEF Sound
<1>4. Types'
  BY <1>1, <1>3 DEF Types
<1>5. /\ Follows(View', View, f, fs'.din[f]) /\ Din(f)' = fs'.din[f]
      /\ \A g \in File \ {f} : Din(g)' = Din(g)
  BY <1>1, <1>3, ViewFollows
<1>6. /\ View'[f] = fs'.din[f] /\ \A g \in File : View'[g].size = View[g].size
  <2>1. /\ View' \in Inodes /\ View'[f] = fs'.din[f]
        /\ \A g \in File \ {f} : View'[g] = View[g]
    BY <1>5 DEF Follows
  <2> QED BY <1>1, <2>1
<1>7. Layout'
  BY <1>3, <1>5 DEF Layout, Where
<1>8. Target' = f /\ ~InIo' /\ call'.step = "trunc"
  BY <1>1 DEF Target, InIo
<1>9. SizesFit'
  <2> SUFFICES ASSUME NEW g \in File
               PROVE  /\ Din(g)'.size <= MaxFileSize
                      /\ g # f => Din(g)'.blocks = Blocks(Extent(g)')
    BY <1>8 DEF SizesFit
  <2>1. Din(g).size <= MaxFileSize /\ (g # f => Din(g).blocks = Blocks(Din(g).size))
    BY <1>1 DEF SizesFit, Extent, Target
  <2>2. Din(g)'.size = Din(g).size
    BY <1>1, <1>5
  <2>3. Extent(g)' = Din(g)'.size
    BY <1>8 DEF Extent
  <2> QED BY <1>5, <2>1, <2>2, <2>3
<1>10. PositionsFit'
  <2> SUFFICES ASSUME NEW c \in Fd, fd'[c].file # NoFile
               PROVE  fd'[c].pos <= View'[fd'[c].file].size
    BY DEF PositionsFit
  <2>1. fd[c].file \in File /\ fd[c].pos <= View[fd[c].file].size
    BY <1>1, TypesAre DEF PositionsFit
  <2> QED BY <1>6, <2>1
<1>11. Synced'
  <2> SUFFICES ASSUME NEW g \in File, Loaded(g)', ~fs'.dirty[g], g # f
               PROVE  disk'[g] = fs'.din[g]
    BY <1>8, Zenon DEF Synced
  <2>1. Loaded(g)
    BY SameUsers
  <2>2. ~fs.dirty[g]
    BY Zenon
  <2>3. disk[g] = fs.din[g]
    <3>1. \/ disk[g] = fs.din[g]
          \/ call.step = "trunc" /\ Target = g
          \/ InIo /\ Target = g /\ Reach > fs.din[g].size
      BY <1>1, <2>1, <2>2, Zenon DEF Synced
    <3> QED BY <1>1, <3>1
  <2> QED BY <2>3
<1>12. TruncFits'
  BY <1>1, <1>2, <1>6, <1>8 DEF TruncFits
<1>13. IoFits' /\ (call'.step = "none" => call' = None)
  BY <1>8 DEF IoFits
<1> QED BY <1>3, <1>4, <1>7, <1>9, <1>10, <1>11, <1>12, <1>13 DEF SfsInv, BlocksFit

(* The kernel stops: nothing is said of the state any more.                *)
LEMMA RangeStep ==
  ASSUME Types, NEW f \in File, Loaded(f), OutOfRange(fs, f, fs'), disk' = disk, fd' = fd,
         call' \in CallType, BlkSize * Top < MaxFileSize
  PROVE  SfsInv'
<1>1. Loaded(f)'
  BY SameUsers
<1>2. /\ Types' /\ fs'.oops = "range" /\ fs'.din[f].blocks = Top
  BY DEF Types, OutOfRange
<1> QED BY <1>1, <1>2 DEF SfsInv

(* One block more or less, or the kernel stops.                            *)
Turned ==
  \/ call' = call /\ \E b : Grown(fs, View, Target, fs', b)
  \/ call' = call /\ \E i : Shrunk(fs, View, Target, fs', i)
  \/ call' = None /\ OutOfRange(fs, Target, fs') /\ call.op = "seek"

(* A turn of a loop of sfs_truncfile keeps the invariant.                  *)
LEMMA TruncateTurnStep ==
  ASSUME SfsInv, TruncateTurn
  PROVE  SfsInv' /\ Turned
<1>1. call.step = "trunc" /\ fs.oops = "no" /\ disk' = disk /\ fd' = fd
  BY DEF TruncateTurn
<1>2. PICK f : f = Target
  OBVIOUS
<1>3. PICK n, t : n = fs.din[f].blocks /\ t = Blocks(call.end)
  OBVIOUS
<1>4. /\ f \in File /\ View[f] = fs.din[f] /\ Good(fs, View, f) /\ call.end \in Nat
      /\ Types /\ call \in CallType /\ Loaded(f)
  BY <1>1, <1>2, InTrunc
<1>5. \/ call.op = "open" /\ call.end = 0
      \/ /\ call.op = "seek" /\ fs.din[f].size < call.end
         /\ fs.din[f].blocks >= Blocks(fs.din[f].size)
         /\ Smaller(Blocks(call.end), Top) + Need(fs.din[f]) <= fs.unused + fs.din[f].blocks
  BY <1>1, <1>2, <1>4, InTrunc
<1>6. /\ n \in Nat /\ fs.din[f].size \in Nat /\ fs.unused \in Nat /\ t \in Nat
      /\ Need(fs.din[f]) \in {0, 1}
  <2>1. fs.din[f].blocks \in 0..Top /\ fs.din[f].size \in Nat /\ fs.unused \in Nat
    BY <1>4, GoodIs
  <2>2. Need(fs.din[f]) \in {0, 1}
    BY DEF Need
  <2>3. Blocks(call.end) \in Nat
    BY <1>4, BlocksIs
  <2> QED BY <1>3, <2>1, <2>2, <2>3, Consts
<1>7. CASE n < t /\ \E L \in {sfs_bmap_load(fs, f, n)} :
                      fs' = L.Z /\ call' = IF L.ok THEN call ELSE None
  <2>1. PICK L : L = sfs_bmap_load(fs, f, n) /\ fs' = L.Z /\ call' = IF L.ok THEN call ELSE None
    BY <1>7, Zenon
  <2>2. call.op = "seek" /\ ~(fs.unused < 1 + Need(fs.din[f]) /\ n < Top)
    <3>1. Blocks(0) = 0
      BY BlocksIs, Consts
    <3>2. n < Top => n + 1 <= Smaller(t, Top)
      BY <1>6, <1>7, Consts DEF Smaller
    <3> QED BY <1>3, <1>5, <1>6, <1>7, <3>1, <3>2, Consts DEF Smaller
  <2>3. \/ L.ok /\ Grown(fs, View, f, L.Z, L.ino)
        \/ ~L.ok /\ Kept(fs, f, L.Z)
        \/ ~L.ok /\ OutOfRange(fs, f, L.Z)
    <3>1. L = sfs_bmap_load(fs, f, fs.din[f].blocks)
      BY <1>3, <2>1, Zenon
    <3> QED BY <1>4, <3>1, LoadNew
  <2>4. CASE ~L.ok /\ Kept(fs, f, L.Z)
    BY <1>3, <2>2, <2>4 DEF Kept
  <2>5. CASE ~L.ok /\ OutOfRange(fs, f, L.Z)
    <3>1. call' = None /\ OutOfRange(fs, f, fs')
      BY <2>1, <2>5, Zenon
    <3>2. BlkSize * Top < MaxFileSize
      <4>1. Top < Blocks(call.end) /\ Blocks(call.end) \in Nat /\ Top \in Nat
        BY <1>3, <1>6, <1>7, <2>5, Consts DEF OutOfRange
      <4>2. ~(call.end <= BlkSize * Top)
        BY <1>4, <4>1, BlocksIs
      <4>3. call.end <= MaxFileSize
        BY <1>1, InTrunc
      <4> QED BY <1>4, <4>1, <4>2, <4>3, Consts
    <3>3. Turned
      BY <1>2, <2>2, <3>1 DEF Turned
    <3> QED BY <1>1, <1>4, <3>1, <3>2, <3>3, NoneType, RangeStep
  <2>6. CASE L.ok /\ Grown(fs, View, f, L.Z, L.ino)
    <3>1. call' = call
      BY <2>1, <2>6, Zenon
    <3>2. PICK b : Grown(fs, View, f, fs', b)
      BY <2>1, <2>6, Zenon
    <3>3. /\ Sound(fs') /\ fs'.din[f].size = fs.din[f].size
          /\ fs'.din[f].blocks = fs.din[f].blocks + 1
          /\ fs'.unused + 1 + Need(fs.din[f]) = fs.unused + Need(fs'.din[f])
      BY <3>2 DEF Grown
    <3>4. \A g \in File \ {f} : fs'.din[g] = fs.din[g] /\ fs'.dirty[g] = fs.dirty[g]
      BY <3>2, Zenon DEF Grown
    <3>5. \A C : Follows(C, View, f, fs'.din[f]) =>
            Exact(Map(C, fs'.data), fs'.freemap) /\ Filled(Map(C, fs'.data), C)
      BY <3>2, Zenon DEF Grown, GrownMap
    <3>6. /\ fs'.din[f].blocks >= Blocks(fs.din[f].size)
          /\ Smaller(Blocks(call.end), Top) + Need(fs'.din[f]) <= fs'.unused + fs'.din[f].blocks
      <4>1. Need(fs'.din[f]) \in {0, 1} /\ fs'.unused \in Nat /\ Blocks(fs.din[f].size) \in Nat
        <5>1. fs'.unused \in 0..NBlock
          BY <3>3 DEF Sound, FsType
        <5>2. Need(fs'.din[f]) \in {0, 1}
          BY DEF Need
        <5>3. Blocks(fs.din[f].size) \in Nat
          BY <1>6, BlocksIs
        <5> QED BY <5>1, <5>2, <5>3, Consts
      <4>2. PICK s, m : s = Smaller(Blocks(call.end), Top) /\ m = Need(fs'.din[f])
        OBVIOUS
      <4>3. s \in Nat
        BY <1>3, <1>6, <4>2, Consts DEF Smaller
      <4>4. s + Need(fs.din[f]) <= fs.unused + n /\ n >= Blocks(fs.din[f].size)
        BY <1>3, <1>5, <2>2, <4>2
      <4>5. s + m <= fs'.unused + (n + 1)
        BY <1>6, <3>3, <4>1, <4>2, <4>3, <4>4
      <4> QED BY <1>3, <1>6, <3>3, <4>1, <4>2, <4>4, <4>5
    <3>7. Turned
      BY <1>2, <3>1, <3>2 DEF Turned
    <3> QED BY <1>1, <1>2, <3>1, <3>3, <3>4, <3>5, <3>6, <3>7, TurnStep
  <2> QED BY <2>3, <2>4, <2>5, <2>6
<1>8. CASE n > t /\ fs' = sfs_bmap_truncate(fs, f) /\ call' = call
  <2>1. PICK i : Shrunk(fs, View, f, fs', i)
    BY <1>3, <1>4, <1>6, <1>8, TruncateIs
  <2>2. /\ Sound(fs') /\ i \in Nat /\ fs.din[f].blocks = i + 1 /\ fs'.din[f].blocks = i
        /\ fs'.unused = fs.unused + 1
        /\ fs'.din[f].size = fs.din[f].size /\ fs'.din[f].indirect = fs.din[f].indirect
    BY <2>1 DEF Shrunk
  <2>3. \A g \in File \ {f} : fs'.din[g] = fs.din[g] /\ fs'.dirty[g] = fs.dirty[g]
    BY <2>1, Zenon DEF Shrunk
  <2>4. \A C : Follows(C, View, f, fs'.din[f]) =>
          Exact(Map(C, fs'.data), fs'.freemap) /\ Filled(Map(C, fs'.data), C)
    BY <2>1, Zenon DEF Shrunk, ShrunkMap
  <2>5. call.op = "seek" =>
          /\ fs'.din[f].blocks >= Blocks(fs.din[f].size)
          /\ Smaller(Blocks(call.end), Top) + Need(fs'.din[f]) <= fs'.unused + fs'.din[f].blocks
    <3>1. Need(fs'.din[f]) = Need(fs.din[f])
      BY <2>2 DEF Need
    <3>2. ASSUME call.op = "seek" PROVE Blocks(fs.din[f].size) <= t
      <4>1. fs.din[f].size < call.end /\ call.end <= BlkSize * t
        BY <1>3, <1>4, <1>5, <3>2, BlocksIs
      <4>2. fs.din[f].size <= BlkSize * t
        BY <1>4, <1>6, <4>1, Consts
      <4> QED BY <1>6, <4>2, BlocksIs
    <3>3. Blocks(fs.din[f].size) \in Nat
      BY <1>6, BlocksIs
    <3> QED BY <1>3, <1>5, <1>6, <1>8, <2>2, <3>1, <3>2, <3>3
  <2>6. Turned
    BY <1>2, <1>8, <2>1 DEF Turned
  <2> QED BY <1>1, <1>2, <1>8, <2>2, <2>3, <2>4, <2>5, <2>6, TurnStep
<1> QED BY <1>2, <1>3, <1>7, <1>8, Zenon DEF TruncateTurn, Target

(* Another size.                                                           *)
Resized(din, n) == [din EXCEPT !.size = n]

(* The parts of an inode with a new size.                                  *)
LEMMA ResizedIs ==
  ASSUME NEW din \in Inode, NEW n \in Nat
  PROVE  /\ Resized(din, n) \in Inode /\ Resized(din, n).size = n
         /\ Resized(din, n).blocks = din.blocks /\ Resized(din, n).direct = din.direct
         /\ Resized(din, n).indirect = din.indirect
BY DEF Resized, Inode

(* The end of a call that changes the size of f.                           *)
LEMMA ResizeLayout ==
  ASSUME Types, Layout, fs.oops = "no", NEW f \in File, Loaded(f), NEW n \in Nat,
         fs' = Changed(fs, f, Resized(fs.din[f], n)), disk' = disk,
         \A d \in Fd : fd'[d].file = fd[d].file
  PROVE  /\ Sound(fs') /\ Layout' /\ fs'.dirty[f]
         /\ \A g \in File \ {f} : fs'.din[g] = fs.din[g] /\ fs'.dirty[g] = fs.dirty[g]
         /\ \A g \in File \ {f} : Din(g)' = Din(g) /\ View'[g] = View[g]
         /\ Din(f)' = View'[f] /\ View'[f].size = n /\ View'[f].blocks = fs.din[f].blocks
         /\ fs'.data = fs.data /\ Where' = Where /\ View'[f] = fs'.din[f]
<1>1. Sound(fs) /\ fs.din[f] \in Inode /\ View \in Inodes /\ fs.data \in Datas
  BY TypesAre DEF Sound, Layout, Inodes
<1>2. PICK x : x = Resized(fs.din[f], n)
  OBVIOUS
<1>3. /\ x \in Inode /\ x.size = n /\ x.blocks = fs.din[f].blocks
      /\ x.direct = fs.din[f].direct /\ x.indirect = fs.din[f].indirect
  BY <1>1, <1>2, ResizedIs
<1>4. /\ Sound(fs') /\ fs'.freemap = fs.freemap /\ fs'.unused = fs.unused
      /\ fs'.data = fs.data /\ fs'.din[f] = x
  BY <1>1, <1>2, <1>3, ChangedSound
<1>5. /\ fs'.dirty[f]
      /\ \A g \in File \ {f} : fs'.din[g] = fs.din[g] /\ fs'.dirty[g] = fs.dirty[g]
  BY <1>1, <1>2, <1>3, ChangedSound
<1>6. fs' \in FsType
  BY <1>4 DEF Sound
<1>7. /\ Follows(View', View, f, fs'.din[f]) /\ Din(f)' = fs'.din[f]
      /\ \A g \in File \ {f} : Din(g)' = Din(g)
  BY <1>5, <1>6, ViewFollows
<1>8. /\ View' \in Inodes /\ View'[f] = x /\ \A g \in File \ {f} : View'[g] = View[g]
  BY <1>4, <1>7 DEF Follows
<1>9. View[f] = fs.din[f]
  BY TypesAre DEF Din
<1>10. Where' = Where
  <2>1. \A g \in File : View'[g].indirect = View[g].indirect /\ View'[g].direct = View[g].direct
    BY <1>3, <1>8, <1>9
  <2>2. Map(View', fs'.data) = Map(View, fs.data)
    BY <1>1, <1>4, <1>8, <2>1, SameMap
  <2> QED BY <2>2 DEF Where
<1>11. \A g \in File : View'[g].blocks = View[g].blocks
  BY <1>3, <1>8, <1>9
<1>12. Layout'
  BY <1>4, <1>10, <1>11 DEF Layout, Filled
<1> QED BY <1>3, <1>4, <1>5, <1>7, <1>8, <1>10, <1>12

(* The end of a call that has changed the size of f, with dirty inode.     *)
LEMMA ResizeQuiet ==
  ASSUME Types, Layout, fs.oops = "no", NEW f \in File, Loaded(f), NEW n \in Nat,
         fs' = Changed(fs, f, Resized(fs.din[f], n)), disk' = disk,
         fd' \in [Fd -> [file : File \cup {NoFile}, pos : 0..MaxFileSize]],
         \A d \in Fd : fd'[d].file = fd[d].file,
         n <= MaxFileSize, fs.din[f].blocks = Blocks(n), call' = None,
         \A g \in File \ {f} : /\ Din(g).size <= MaxFileSize
                               /\ Din(g).blocks = Blocks(Din(g).size)
                               /\ Loaded(g) /\ ~fs.dirty[g] => disk[g] = fs.din[g],
         \A d \in Fd : fd[d].file = f => fd'[d].pos <= n,
         \A d \in Fd : fd[d].file # NoFile /\ fd[d].file # f =>
                         fd'[d].pos <= View[fd[d].file].size
  PROVE  SfsInv'
<1>1. /\ Sound(fs') /\ Layout' /\ fs'.dirty[f]
      /\ \A g \in File \ {f} : fs'.din[g] = fs.din[g] /\ fs'.dirty[g] = fs.dirty[g]
  BY ResizeLayout
<1>2. /\ \A g \in File \ {f} : Din(g)' = Din(g) /\ View'[g] = View[g]
      /\ Din(f)' = View'[f] /\ View'[f].size = n /\ View'[f].blocks = fs.din[f].blocks
  BY ResizeLayout
<1>3. Types' /\ fs'.oops = "no"
  BY <1>1, NoneType DEF Types, Sound
<1>4. Plain'
  <2>1. ASSUME NEW g \in File
        PROVE  Din(g)'.size <= MaxFileSize /\ Din(g)'.blocks = Blocks(Din(g)'.size)
    BY <1>2
  <2> QED BY <2>1 DEF Plain
<1>5. PositionsFit'
  <2> SUFFICES ASSUME NEW c \in Fd, fd'[c].file # NoFile
               PROVE  fd'[c].pos <= View'[fd'[c].file].size
    BY DEF PositionsFit
  <2>1. fd[c].file \in File /\ fd'[c].file = fd[c].file
    BY TypesAre
  <2> QED BY <1>2, <2>1
<1>6. OnDisk'
  <2> SUFFICES ASSUME NEW g \in File, Loaded(g)', ~fs'.dirty[g]
               PROVE  disk'[g] = fs'.din[g]
    BY Zenon DEF OnDisk
  <2>1. g # f
    BY <1>1
  <2>2. Loaded(g) /\ ~fs.dirty[g]
    BY <1>1, <2>1, SameUsers
  <2> QED BY <1>1, <2>1, <2>2
<1>7. Quiet'
  BY <1>1, <1>3, <1>4, <1>5, <1>6 DEF Quiet
<1> QED BY <1>7, QuietStep

(* The end of sfs_truncfile keeps the invariant.                           *)
LEMMA TruncateEndStep ==
  ASSUME SfsInv, TruncateEnd
  PROVE  SfsInv'
<1>1. call.step = "trunc" /\ fs.oops = "no" /\ disk' = disk /\ call' = None
  BY DEF TruncateEnd
<1>2. PICK f, d, n : f = Target /\ d = call.d /\ n = call.end
  OBVIOUS
<1>3. /\ Types /\ Layout /\ SizesFit /\ PositionsFit /\ Synced /\ ~InIo
      /\ d \in Fd /\ f = fd[d].file /\ f \in File /\ Loaded(f) /\ View[f] = fs.din[f]
      /\ n \in Nat /\ n <= MaxFileSize
  BY <1>1, <1>2, InTrunc
<1>4. \/ call.op = "open" /\ n = 0 /\ fd[d].pos = 0 /\ \A c \in Fd : fd[c].file = f => c = d
      \/ call.op = "seek" /\ View[f].size < n
  BY <1>1, <1>2, InTrunc
<1>5. /\ fs.din[f].blocks = Blocks(n) /\ fs' = Changed(fs, f, Resized(fs.din[f], n))
      /\ fd' = IF call.op = "seek" THEN [fd EXCEPT ![d].pos = n] ELSE fd
  BY <1>2, Zenon DEF TruncateEnd, Resized, Target
<1>6. /\ fd' \in [Fd -> [file : File \cup {NoFile}, pos : 0..MaxFileSize]]
      /\ \A c \in Fd : fd'[c].file = fd[c].file
      /\ \A c \in Fd : c # d => fd'[c] = fd[c]
      /\ call.op = "seek" => fd'[d].pos = n
      /\ call.op # "seek" => fd' = fd
  <2>1. fd \in [Fd -> [file : File \cup {NoFile}, pos : 0..MaxFileSize]]
    BY <1>3 DEF Types
  <2> QED BY <1>3, <1>5, <2>1
<1>7. \A c \in Fd : fd[c].file # NoFile =>
        fd[c].pos <= View[fd[c].file].size /\ fd[c].pos \in Nat /\ View[fd[c].file].size \in Nat
  <2>1. \A c \in Fd : fd[c].file # NoFile => fd[c].file \in File /\ fd[c].pos \in Nat
    BY <1>3, TypesAre, Consts
  <2>2. \A g \in File : View[g].size \in Nat
    BY <1>3, TypesAre
  <2> QED BY <1>3, <2>1, <2>2 DEF PositionsFit
<1>8. \A c \in Fd : fd[c].file = f => fd'[c].pos <= n
  <2> SUFFICES ASSUME NEW c \in Fd, fd[c].file = f PROVE fd'[c].pos <= n
    OBVIOUS
  <2>1. fd[c].pos <= View[f].size /\ fd[c].pos \in Nat /\ View[f].size \in Nat
    BY <1>3, <1>7, FileAssumption
  <2>2. CASE call.op = "open"
    BY <1>3, <1>4, <1>6, <2>2
  <2>3. CASE call.op = "seek" /\ View[f].size < n
    BY <1>3, <1>6, <2>1, <2>3
  <2> QED BY <1>4, <2>2, <2>3
<1>9. \A c \in Fd : fd[c].file # NoFile /\ fd[c].file # f => fd'[c].pos <= View[fd[c].file].size
  BY <1>3, <1>6, <1>7
<1>10. \A g \in File \ {f} : /\ Din(g).size <= MaxFileSize
                             /\ Din(g).blocks = Blocks(Din(g).size)
  BY <1>2, <1>3 DEF SizesFit, Extent
<1>11. \A g \in File \ {f} : Loaded(g) /\ ~fs.dirty[g] => disk[g] = fs.din[g]
  BY <1>2, <1>3, Zenon DEF Synced
<1> QED BY <1>1, <1>3, <1>5, <1>6, <1>8, <1>9, <1>10, <1>11, ResizeQuiet

-----------------------------------------------------------------------------
(* sfs_io_nolock.                                                          *)

IoCall(op, d, off, n, end, blkno, v, nblks) ==
  [None EXCEPT !.op = op, !.step = "head", !.d = d, !.off = off, !.len = n,
               !.end = end, !.blkno = blkno, !.byte = v, !.nblks = nblks]

(* What the call is then.                                                  *)
Started(c, op, d, off, n, end, blkno, v, nblks) ==
  /\ c \in CallType /\ c.op = op /\ c.step = "head" /\ c.d = d /\ c.off = off
  /\ c.len = n /\ c.end = end /\ c.blkno = blkno /\ c.byte = v /\ c.nblks = nblks
  /\ c.alen = 0 /\ c.got = <<>>

(* The parts of a call of sfs_io_nolock that starts.                       *)
LEMMA IoCallIs ==
  \A op \in {"read", "write"}, d \in Fd, off, n, end, blkno, v, nblks \in Nat :
    Started(IoCall(op, d, off, n, end, blkno, v, nblks),
            op, d, off, n, end, blkno, v, nblks)
<1> TAKE op \in {"read", "write"}, d \in Fd, off, n, end, blkno, v, nblks \in Nat
<1> SUFFICES ASSUME NEW c, c = IoCall(op, d, off, n, end, blkno, v, nblks)
             PROVE  Started(c, op, d, off, n, end, blkno, v, nblks)
  BY Zenon
<1>1. PICK c1 : c1 = [None EXCEPT !.op = op]
  OBVIOUS
<1>2. PICK c2 : c2 = [c1 EXCEPT !.step = "head"]
  OBVIOUS
<1>3. PICK c3 : c3 = [c2 EXCEPT !.d = d]
  OBVIOUS
<1>4. PICK c4 : c4 = [c3 EXCEPT !.off = off]
  OBVIOUS
<1>5. PICK c5 : c5 = [c4 EXCEPT !.len = n]
  OBVIOUS
<1>6. PICK c6 : c6 = [c5 EXCEPT !.end = end]
  OBVIOUS
<1>7. PICK c7 : c7 = [c6 EXCEPT !.blkno = blkno]
  OBVIOUS
<1>8. PICK c8 : c8 = [c7 EXCEPT !.byte = v]
  OBVIOUS
<1>9. c = [c8 EXCEPT !.nblks = nblks]
  BY <1>1, <1>2, <1>3, <1>4, <1>5, <1>6, <1>7, <1>8, Zenon DEF IoCall
<1>10. c4 = [op |-> op, step |-> "head", d |-> d, off |-> off, len |-> 0, end |-> 0,
             blkno |-> 0, nblks |-> 0, alen |-> 0, byte |-> 0, got |-> <<>>]
  BY <1>1, <1>2, <1>3, <1>4 DEF None
<1>11. c7 = [op |-> op, step |-> "head", d |-> d, off |-> off, len |-> n, end |-> end,
             blkno |-> blkno, nblks |-> 0, alen |-> 0, byte |-> 0, got |-> <<>>]
  BY <1>5, <1>6, <1>7, <1>10
<1>12. c = [op |-> op, step |-> "head", d |-> d, off |-> off, len |-> n, end |-> end,
            blkno |-> blkno, nblks |-> nblks, alen |-> 0, byte |-> v, got |-> <<>>]
  BY <1>8, <1>9, <1>11
<1>13. <<>> \in Seq(Nat)
  OBVIOUS
<1> QED BY <1>12, <1>13 DEF CallType, Started

(* A larger number has no smaller quotient.                                *)
LEMMA DivMonotone ==
  ASSUME NEW x \in Nat, NEW y \in Nat, x <= y
  PROVE  x \div BlkSize <= y \div BlkSize
<1>1. PICK q, r : q = x \div BlkSize /\ r = y \div BlkSize
  OBVIOUS
<1>2. q \in Nat /\ r \in Nat /\ BlkSize * q <= x /\ y < BlkSize * r + BlkSize
  BY <1>1, DivMod, Consts DEF Cell
<1>3. ~(r < q)
  BY <1>2, MultLess, Consts
<1> QED BY <1>1, <1>2, <1>3

(* A step that leaves the file system and the open files alone.            *)
LEMMA StandsStill ==
  ASSUME Types, Layout, PositionsFit, fs' = fs, disk' = disk, fd' = fd, call' \in CallType
  PROVE  /\ Types' /\ Layout' /\ PositionsFit' /\ View' = View /\ Where' = Where
         /\ \A g \in File : Din(g)' = Din(g) /\ (Loaded(g)' <=> Loaded(g))
<1>1. \A g : Loaded(g)' <=> Loaded(g)
  BY SameUsers
<1>2. \A g \in File : Din(g)' = Din(g)
  BY <1>1 DEF Din
<1>3. View' = View
  BY <1>2, SameView
<1>4. Types'
  BY DEF Types
<1> QED BY <1>1, <1>2, <1>3, <1>4, KeepsLayout DEF PositionsFit, Where

(* file_read and file_write up to the first block.                         *)
LEMMA IoStep ==
  ASSUME SfsInv, NEW d \in Fd, NEW op \in {"read", "write"}, NEW n \in Lengths,
         NEW v \in Nat, Io(d, op, n, v)
  PROVE  /\ SfsInv' /\ SameFiles /\ InIo' /\ call'.alen = 0 /\ call'.got = <<>>
         /\ call'.op = op /\ call'.byte = v
<1>1. /\ Types /\ fs.oops = "no" /\ Layout /\ Plain /\ PositionsFit /\ OnDisk
  <2>1. Quiet
    BY QuietIs DEF Io
  <2> QED BY <2>1 DEF Quiet
<1>2. PICK f, off, size : f = fd[d].file /\ off = fd[d].pos /\ size = fs.din[f].size
  OBVIOUS
<1>3. PICK end0 : end0 = Smaller(off + n, MaxFileSize)
  OBVIOUS
<1>4. PICK end : end = IF op = "read" THEN Smaller(end0, size) ELSE end0
  OBVIOUS
<1>5. PICK blkno, nblks : /\ blkno = off \div BlkSize
                          /\ nblks = (end \div BlkSize) - (off \div BlkSize)
  OBVIOUS
<1>6. /\ f # NoFile /\ off < MaxFileSize /\ (op = "read" => off < size)
      /\ fs' = fs /\ disk' = disk /\ fd' = fd
      /\ call' = IoCall(op, d, off, n, end, blkno, v, nblks)
  BY <1>2, <1>3, <1>4, <1>5, Zenon DEF Io, IoCall
<1>7. /\ f \in File /\ Loaded(f) /\ Din(f) = fs.din[f] /\ View[f] = fs.din[f]
      /\ size \in Nat /\ off \in Nat /\ n \in Nat /\ n # 0
  <2>1. f \in File /\ Loaded(f) /\ Din(f) = fs.din[f] /\ View[f] = Din(f)
    BY <1>1, <1>2, <1>6, InMemory, TypesAre
  <2>2. fd[d].pos \in 0..MaxFileSize /\ Din(f).size \in Nat
    BY <1>1, <2>1, TypesAre
  <2> QED BY <1>2, <2>1, <2>2, SizeAssumption
<1>8. off <= size /\ size <= MaxFileSize
  BY <1>1, <1>2, <1>6, <1>7 DEF PositionsFit, Plain
<1>9. /\ end \in Nat /\ end <= MaxFileSize /\ off < end
      /\ op = "read" => end = Smaller(off + n, size)
  BY <1>3, <1>4, <1>6, <1>7, <1>8, Consts DEF Smaller
<1>10. blkno \in Nat /\ nblks \in Nat /\ nblks + blkno = end \div BlkSize
  <2>1. off \div BlkSize \in Nat /\ end \div BlkSize \in Nat
    BY <1>7, <1>9, DivMod
  <2>2. off \div BlkSize <= end \div BlkSize
    BY <1>7, <1>9, DivMonotone
  <2> QED BY <1>5, <2>1, <2>2
<1>11. /\ call' \in CallType /\ call'.op = op /\ call'.step = "head" /\ call'.d = d
       /\ call'.off = off /\ call'.len = n /\ call'.end = end /\ call'.blkno = blkno
       /\ call'.nblks = nblks /\ call'.alen = 0
  <2>1. PICK c : c = call'
    OBVIOUS
  <2>2. c = IoCall(op, d, off, n, end, blkno, v, nblks)
    BY <1>6, <2>1, Zenon
  <2>3. Started(c, op, d, off, n, end, blkno, v, nblks)
    BY <1>7, <1>9, <1>10, <2>2, IoCallIs
  <2> QED BY <2>1, <2>3, Zenon DEF Started
<1>19. call'.byte = v /\ call'.got = <<>>
  <2>1. Started(IoCall(op, d, off, n, end, blkno, v, nblks),
                op, d, off, n, end, blkno, v, nblks)
    BY <1>7, <1>9, <1>10, IoCallIs
  <2> QED BY <1>6, <2>1, Zenon DEF Started
<1>12. /\ Types' /\ Layout' /\ PositionsFit' /\ View' = View
       /\ \A g \in File : Din(g)' = Din(g) /\ (Loaded(g)' <=> Loaded(g))
  BY <1>1, <1>6, <1>11, StandsStill
<1>13. Target' = f /\ Reach' = off /\ InIo' /\ call'.step # "trunc" /\ call'.step # "none"
  BY <1>2, <1>6, <1>7, <1>11 DEF Target, Reach, InIo
<1>14. SizesFit'
  <2> SUFFICES ASSUME NEW g \in File
               PROVE  Din(g)'.size <= MaxFileSize /\ Din(g)'.blocks = Blocks(Extent(g)')
    BY DEF SizesFit
  <2>1. Extent(g)' = Din(g).size
    <3>1. CASE g = f
      <4>1. Extent(f)' = Larger(size, off)
        BY <1>2, <1>7, <1>12, <1>13 DEF Extent
      <4>2. Larger(size, off) = size
        BY <1>7, <1>8 DEF Larger
      <4> QED BY <1>2, <1>7, <3>1, <4>1, <4>2
    <3>2. CASE g # f
      BY <1>12, <1>13, <3>2 DEF Extent
    <3> QED BY <3>1, <3>2
  <2> QED BY <1>1, <1>12, <2>1 DEF Plain
<1>15. Synced'
  <2> SUFFICES ASSUME NEW g \in File, Loaded(g)', ~fs'.dirty[g]
               PROVE  disk'[g] = fs'.din[g]
    BY Zenon DEF Synced
  <2>1. Loaded(g) /\ ~fs.dirty[g]
    BY <1>6, <1>12
  <2> QED BY <1>1, <1>6, <2>1 DEF OnDisk
<1>16. IoFits'
  BY <1>2, <1>5, <1>6, <1>7, <1>9, <1>10, <1>11, <1>12, <1>13 DEF IoFits
<1>17. TruncFits'
  BY <1>13 DEF TruncFits
<1>18. SameFiles
  BY <1>1, <1>6, <1>12 DEF SameFiles
<1> QED BY <1>1, <1>6, <1>11, <1>12, <1>13, <1>18, <1>19, <1>14, <1>15, <1>16, <1>17 DEF SfsInv, BlocksFit

(* What the parts of the invariant say in sfs_io_nolock.                   *)
LEMMA InCallIo ==
  ASSUME SfsInv, InIo, fs.oops = "no"
  PROVE  /\ Types /\ Layout /\ SizesFit /\ PositionsFit /\ Synced /\ IoFits
         /\ call.op \in {"read", "write"}
         /\ call.d \in Fd /\ Target # NoFile /\ Target = fd[call.d].file
         /\ Target \in File /\ Loaded(Target) /\ View[Target] = fs.din[Target]
         /\ Din(Target) = fs.din[Target] /\ Good(fs, View, Target)
         /\ call \in CallType /\ call.off \in Nat /\ call.end \in Nat /\ call.alen \in Nat
         /\ call.blkno \in Nat /\ call.nblks \in Nat /\ call.byte \in Nat
         /\ call.len \in Nat /\ call.got \in Seq(Nat) /\ Reach \in Nat
         /\ fs.din[Target].size \in Nat /\ fs.din[Target].blocks \in Nat
         /\ fs.din[Target].size <= MaxFileSize
         /\ fs.din[Target].blocks = Blocks(Larger(fs.din[Target].size, Reach))
         /\ call.off = fd[call.d].pos /\ call.off <= fs.din[Target].size
         /\ Reach <= call.end /\ call.end <= MaxFileSize /\ call.off < call.end
         /\ call.op = "read" => call.end <= fs.din[Target].size
<1>1. /\ Types /\ Layout /\ SizesFit /\ PositionsFit /\ Synced /\ IoFits
  BY DEF SfsInv, BlocksFit
<1>2. /\ call.op \in {"read", "write"} /\ call.d \in Fd /\ Target # NoFile
      /\ call.off = fd[call.d].pos
      /\ Reach <= call.end /\ call.end <= MaxFileSize /\ call.off < call.end
      /\ call.op = "read" => call.end = Smaller(call.off + call.len, View[Target].size)
  BY <1>1 DEF IoFits
<1>3. /\ fd[call.d].file \in File /\ Loaded(fd[call.d].file)
      /\ Din(fd[call.d].file) = fs.din[fd[call.d].file]
      /\ Good(fs, View, fd[call.d].file)
  BY <1>1, <1>2, InMemory DEF Target
<1>4. /\ View[fd[call.d].file] = fs.din[fd[call.d].file]
      /\ fs.din[fd[call.d].file].size \in Nat /\ fs.din[fd[call.d].file].blocks \in Nat
  BY <1>1, <1>3, TypesAre
<1>5. /\ call \in CallType /\ call.off \in Nat /\ call.end \in Nat /\ call.alen \in Nat
      /\ call.blkno \in Nat /\ call.nblks \in Nat /\ call.byte \in Nat /\ call.len \in Nat
      /\ call.got \in Seq(Nat)
  BY <1>1 DEF Types, CallType
<1>6. Reach \in Nat
  BY <1>5 DEF Reach
<1>7. call.step # "trunc"
  BY DEF InIo
<1>8. /\ fs.din[Target].size <= MaxFileSize
      /\ fs.din[Target].blocks = Blocks(Larger(fs.din[Target].size, Reach))
  BY <1>1, <1>3, <1>7 DEF SizesFit, Extent, Target
<1>9. call.off <= fs.din[Target].size
  BY <1>1, <1>2, <1>4 DEF PositionsFit, Target
<1>10. call.op = "read" => call.end <= fs.din[Target].size
  <2>1. call.op = "read" => call.end = Smaller(call.off + call.len, fs.din[Target].size)
    BY <1>2, <1>4 DEF Target
  <2>2. fs.din[Target].size \in Nat
    BY <1>4 DEF Target
  <2> QED BY <1>5, <2>1, <2>2 DEF Smaller
<1> QED BY <1>1, <1>2, <1>3, <1>4, <1>5, <1>6, <1>8, <1>9, <1>10 DEF Target

(* What one block of a read or write is: the call is at byte blkoff of     *)
(* block blkno and goes on as next.                                        *)
Part(blkoff, sz) ==
  /\ InIo /\ blkoff \in Cell /\ sz \in Nat /\ sz # 0 /\ blkoff + sz <= BlkSize
  /\ Reach = BlkSize * call.blkno + blkoff /\ Reach + sz <= call.end

Ended == [call EXCEPT !.step = "out"]

Bytes(b, blkoff, sz) == [k \in 1..sz |-> fs.data[b][blkoff + k - 1]]

Copied(next, blkoff, sz, b) ==
  [next EXCEPT !.alen = @ + sz,
               !.got = IF call.op = "read" THEN @ \o Bytes(b, blkoff, sz) ELSE @]

(* The block b of W that is read or written ...                            *)
Found(f, W, b) ==
  \/ /\ call.blkno < fs.din[f].blocks /\ call.blkno \in Idx /\ call.blkno < Top
     /\ W = fs /\ b = Where[f][call.blkno] /\ b \in Blk /\ b # 0
  \/ /\ call.op = "write" /\ call.blkno = fs.din[f].blocks
     /\ Grown(fs, View, f, W, b)

(* ... and a file system after a write to it.                              *)
Stored(W, b, blkoff, sz) ==
  IF call.op = "write" THEN Put(W, b, blkoff..(blkoff + sz - 1), call.byte) ELSE W

(* A part of a read or write: the kernel stops, the disk is full, or some  *)
(* bytes are copied.                                                       *)
LEMMA TransferIs ==
  ASSUME SfsInv, fs.oops = "no", NEW blkoff, NEW sz, NEW next, Part(blkoff, sz),
         Transfer(blkoff, sz, next), NEW f, f = Target
  PROVE  \/ /\ call.op = "write" /\ call.blkno = fs.din[f].blocks
            /\ OutOfRange(fs, f, fs') /\ call' = Ended
         \/ call.op = "write" /\ Kept(fs, f, fs') /\ call' = Ended
         \/ \E W, b : /\ Found(f, W, b) /\ fs' = Stored(W, b, blkoff, sz)
                      /\ call' = Copied(next, blkoff, sz, b)
<1>1. /\ InIo /\ blkoff \in Nat /\ sz \in Nat /\ sz # 0
      /\ Reach = BlkSize * call.blkno + blkoff /\ Reach + sz <= call.end
  BY Consts DEF Part
<1>2. /\ Good(fs, View, f) /\ call.op \in {"read", "write"} /\ call.blkno \in Nat
      /\ Reach \in Nat /\ call.end \in Nat
      /\ fs.din[f].size \in Nat /\ fs.din[f].blocks \in Nat
      /\ fs.din[f].blocks = Blocks(Larger(fs.din[f].size, Reach))
      /\ call.op = "read" => call.end <= fs.din[f].size
  BY <1>1, InCallIo
<1>3. PICK n, m : n = fs.din[f].blocks /\ m = Larger(fs.din[f].size, Reach)
  OBVIOUS
<1>4. n \in Nat /\ m \in Nat /\ m <= BlkSize * n /\ Reach <= m /\ fs.din[f].size <= m
  <2>1. m \in Nat /\ Reach <= m /\ fs.din[f].size <= m
    BY <1>2, <1>3 DEF Larger
  <2> QED BY <1>2, <1>3, <2>1, BlocksIs
<1>5. call.blkno <= n /\ (call.op = "read" => call.blkno < n)
  <2>1. ~(n < call.blkno)
    <3>1. BlkSize * call.blkno <= BlkSize * n
      BY <1>1, <1>2, <1>4, Consts
    <3> QED BY <1>2, <1>4, <3>1, MultLess, Consts
  <2>2. ASSUME call.op = "read" PROVE call.blkno < n
    <3>1. BlkSize * call.blkno < BlkSize * n
      BY <1>1, <1>2, <1>4, <2>2, Consts
    <3> QED BY <1>2, <1>4, <3>1, MultLess
  <2> QED BY <1>2, <1>4, <2>1, <2>2
<1>6. PICK L : /\ L = sfs_bmap_load(fs, f, call.blkno)
               /\ fs' = IF L.ok /\ call.op = "write"
                        THEN Put(L.Z, L.ino, blkoff..(blkoff + sz - 1), call.byte) ELSE L.Z
               /\ call' = IF ~L.ok THEN Ended ELSE Copied(next, blkoff, sz, L.ino)
  BY Zenon DEF Transfer, Target, Ended, Copied, Bytes
<1>7. L.ok => fs' = Stored(L.Z, L.ino, blkoff, sz) /\ call' = Copied(next, blkoff, sz, L.ino)
  BY <1>6, Zenon DEF Stored
<1>8. ~L.ok => fs' = L.Z /\ call' = Ended
  BY <1>6, Zenon
<1>9. CASE call.blkno < n
  <2>1. PICK b : b = Map(View, fs.data)[f][call.blkno]
    OBVIOUS
  <2>2. /\ call.blkno \in Idx /\ call.blkno < Top /\ L.Z = fs /\ L.ok /\ L.ino = b
        /\ b \in Blk \ fs.freemap /\ b # 0
    BY <1>2, <1>3, <1>6, <1>9, <2>1, LoadOld
  <2>3. Found(f, L.Z, L.ino)
    BY <1>3, <1>9, <2>1, <2>2 DEF Found, Where
  <2> QED BY <1>7, <2>2, <2>3, Zenon
<1>10. CASE call.blkno = n /\ call.op = "write"
  <2>1. \/ L.ok /\ Grown(fs, View, f, L.Z, L.ino)
        \/ ~L.ok /\ Kept(fs, f, L.Z)
        \/ ~L.ok /\ OutOfRange(fs, f, L.Z)
    <3>1. L = sfs_bmap_load(fs, f, fs.din[f].blocks)
      BY <1>3, <1>6, <1>10, Zenon
    <3> QED BY <1>2, <3>1, LoadNew
  <2>2. CASE L.ok /\ Grown(fs, View, f, L.Z, L.ino)
    <3>1. Found(f, L.Z, L.ino)
      BY <1>3, <1>10, <2>2, Zenon DEF Found
    <3> QED BY <1>7, <2>2, <3>1, Zenon
  <2>3. CASE ~L.ok /\ Kept(fs, f, L.Z)
    BY <1>8, <1>10, <2>3, Zenon
  <2>4. CASE ~L.ok /\ OutOfRange(fs, f, L.Z)
    BY <1>3, <1>8, <1>10, <2>4, Zenon
  <2> QED BY <2>1, <2>2, <2>3, <2>4, Zenon
<1> QED BY <1>2, <1>4, <1>5, <1>9, <1>10

(* The call behind a part.                                                 *)
Later(e) ==
  /\ e \in CallType /\ e.op = call.op /\ e.d = call.d /\ e.off = call.off
  /\ e.len = call.len /\ e.end = call.end /\ e.byte = call.byte

(* The parts of a call that jumps to out.                                  *)
LEMMA EndedIs ==
  ASSUME call \in CallType
  PROVE  /\ Later(Ended) /\ Ended.step = "out" /\ Ended.alen = call.alen
         /\ Ended.got = call.got
BY DEF Ended, Later, CallType

(* What has been read, and more of it.                                     *)
Cat(g, B) == g \o B

(* The parts of a call that has copied sz bytes.                           *)
LEMMA CopiedIs ==
  ASSUME NEW next, Later(next), NEW blkoff \in Nat, NEW sz \in Nat, NEW b,
         Bytes(b, blkoff, sz) \in Seq(Nat), NEW c, c = Copied(next, blkoff, sz, b)
  PROVE  /\ Later(c) /\ c.step = next.step /\ c.blkno = next.blkno /\ c.nblks = next.nblks
         /\ c.alen = next.alen + sz
         /\ call.op = "read" => c.got = Cat(next.got, Bytes(b, blkoff, sz))
<1>1. next \in CallType /\ next.alen \in Nat /\ next.got \in Seq(Nat)
  BY DEF Later, CallType
<1>2. PICK x : x = [next EXCEPT !.alen = @ + sz]
  OBVIOUS
<1>3. /\ x \in CallType /\ x.op = next.op /\ x.d = next.d /\ x.off = next.off
      /\ x.len = next.len /\ x.end = next.end /\ x.byte = next.byte
      /\ x.step = next.step /\ x.blkno = next.blkno /\ x.nblks = next.nblks
      /\ x.alen = next.alen + sz /\ x.got = next.got
  <2>1. PICK a : a = next.alen + sz
    OBVIOUS
  <2>2. a \in Nat /\ x = [next EXCEPT !.alen = a]
    BY <1>1, <1>2, <2>1
  <2>3. /\ x \in CallType /\ x.op = next.op /\ x.d = next.d /\ x.off = next.off
        /\ x.len = next.len /\ x.end = next.end /\ x.byte = next.byte
        /\ x.step = next.step /\ x.blkno = next.blkno /\ x.nblks = next.nblks
        /\ x.alen = a /\ x.got = next.got
    BY <1>1, <2>2 DEF CallType
  <2> QED BY <2>1, <2>3
<1>4. PICK y : y = IF call.op = "read" THEN next.got \o Bytes(b, blkoff, sz) ELSE next.got
  OBVIOUS
<1>5. y \in Seq(Nat)
  BY <1>1, <1>4
<1>6. c = [x EXCEPT !.got = y]
  BY <1>2, <1>3, <1>4, Zenon DEF Copied
<1>7. /\ c \in CallType /\ c.op = x.op /\ c.d = x.d /\ c.off = x.off
      /\ c.len = x.len /\ c.end = x.end /\ c.byte = x.byte
      /\ c.step = x.step /\ c.blkno = x.blkno /\ c.nblks = x.nblks
      /\ c.alen = x.alen /\ c.got = y
  BY <1>3, <1>5, <1>6 DEF CallType
<1>8. Later(c)
  BY <1>3, <1>7 DEF Later
<1>9. call.op = "read" => c.got = Cat(next.got, Bytes(b, blkoff, sz))
  BY <1>4, <1>7, Zenon DEF Cat
<1> QED BY <1>3, <1>7, <1>8, <1>9

(* A step that leaves the call in sfs_io_nolock.                           *)
LEMMA IoTurn ==
  ASSUME SfsInv, InIo, fs.oops = "no", disk' = disk, fd' = fd, NEW f, f = Target,
         Later(call'), InIo', Sound(fs'),
         fs'.din[f].size = fs.din[f].size,
         fs'.din[f].blocks = Blocks(Larger(fs.din[f].size, Reach')),
         \A g \in File \ {f} : fs'.din[g] = fs.din[g] /\ fs'.dirty[g] = fs.dirty[g],
         \A C : Follows(C, View, f, fs'.din[f]) =>
           Exact(Map(C, fs'.data), fs'.freemap) /\ Filled(Map(C, fs'.data), C),
         \/ Reach' > fs.din[f].size
         \/ Reach <= Reach' /\ fs'.din = fs.din /\ fs'.dirty = fs.dirty,
         Reach' \in Nat, Reach' <= call.end,
         call'.step # "head",
         call'.step = "body" => /\ Reach' = BlkSize * call'.blkno
                                /\ call'.nblks + call'.blkno = call.end \div BlkSize,
         call'.step = "tail" => /\ Reach' = BlkSize * call'.blkno
                                /\ call'.blkno = call.end \div BlkSize,
         call'.step = "out" /\ call.op = "read" => Reach' = call.end
  PROVE  SfsInv'
<1>1. /\ Types /\ Layout /\ SizesFit /\ PositionsFit /\ Synced /\ IoFits
      /\ call.op \in {"read", "write"} /\ call.d \in Fd /\ f # NoFile /\ f = fd[call.d].file
      /\ f \in File /\ Loaded(f) /\ View[f] = fs.din[f] /\ Din(f) = fs.din[f]
      /\ call.end <= MaxFileSize /\ call.off < call.end /\ call.off = fd[call.d].pos
      /\ fs.din[f].size \in Nat /\ fs.din[f].size <= MaxFileSize /\ Reach \in Nat
  BY InCallIo
<1>2. fs' \in FsType /\ fs'.oops = "no" /\ fs'.unused = Cardinality(fs'.freemap)
  BY DEF Sound
<1>3. /\ call' \in CallType /\ call'.op = call.op /\ call'.d = call.d /\ call'.off = call.off
      /\ call'.len = call.len /\ call'.end = call.end
  BY DEF Later
<1>4. Types'
  BY <1>1, <1>2, <1>3 DEF Types
<1>5. /\ Follows(View', View, f, fs'.din[f]) /\ Din(f)' = fs'.din[f]
      /\ \A g \in File \ {f} : Din(g)' = Din(g)
  BY <1>1, <1>2, ViewFollows
<1>6. /\ View'[f] = fs'.din[f] /\ \A g \in File : View'[g].size = View[g].size
  <2>1. /\ View' \in Inodes /\ View'[f] = fs'.din[f]
        /\ \A g \in File \ {f} : View'[g] = View[g]
    BY <1>5 DEF Follows
  <2> QED BY <1>1, <2>1
<1>7. Layout'
  BY <1>2, <1>5 DEF Layout, Where
<1>8. /\ Target' = f /\ call'.step # "trunc" /\ call'.step # "none"
      /\ call.step # "trunc"
  <2>1. call'.step \in {"head", "body", "tail", "out"} /\ call.step # "trunc"
    BY DEF InIo
  <2> QED BY <1>1, <1>3, <2>1 DEF Target
<1>9. SizesFit'
  <2> SUFFICES ASSUME NEW g \in File
               PROVE  Din(g)'.size <= MaxFileSize /\ Din(g)'.blocks = Blocks(Extent(g)')
    BY DEF SizesFit
  <2>1. CASE g = f
    <3>1. Din(f)'.size = fs.din[f].size /\ Din(f)'.blocks = fs'.din[f].blocks
      BY <1>5
    <3>2. Extent(f)' = Larger(fs.din[f].size, Reach')
      BY <1>8, <3>1 DEF Extent
    <3> QED BY <1>1, <2>1, <3>1, <3>2
  <2>2. CASE g # f
    <3>1. Din(g)' = Din(g) /\ Extent(g)' = Din(g)'.size
      BY <1>5, <1>8, <2>2 DEF Extent
    <3>2. Din(g).size <= MaxFileSize /\ Din(g).blocks = Blocks(Din(g).size)
      BY <1>1, <1>8, <2>2 DEF SizesFit, Extent
    <3> QED BY <3>1, <3>2
  <2> QED BY <2>1, <2>2
<1>10. PositionsFit'
  <2> SUFFICES ASSUME NEW c \in Fd, fd'[c].file # NoFile
               PROVE  fd'[c].pos <= View'[fd'[c].file].size
    BY DEF PositionsFit
  <2>1. fd[c].file \in File /\ fd[c].pos <= View[fd[c].file].size
    BY <1>1, TypesAre DEF PositionsFit
  <2> QED BY <1>6, <2>1
<1>11. Synced'
  <2> SUFFICES ASSUME NEW g \in File, Loaded(g)', ~fs'.dirty[g]
               PROVE  disk'[g] = fs'.din[g] \/ (Target' = g /\ Reach' > fs'.din[g].size)
    BY <1>8, Zenon DEF Synced
  <2>1. Loaded(g)
    BY SameUsers
  <2>2. CASE g # f
    <3>1. ~fs.dirty[g]
      BY <2>2, Zenon
    <3>2. \/ disk[g] = fs.din[g]
          \/ call.step = "trunc" /\ Target = g
          \/ InIo /\ Target = g /\ Reach > fs.din[g].size
      BY <1>1, <2>1, <3>1, Zenon DEF Synced
    <3> QED BY <1>8, <2>2, <3>2
  <2>3. CASE g = f /\ Reach' > fs.din[f].size
    BY <1>8, <2>3
  <2>4. CASE g = f /\ Reach <= Reach' /\ fs'.din = fs.din /\ fs'.dirty = fs.dirty
    <3>1. ~fs.dirty[g]
      BY <2>4, Zenon
    <3>2. \/ disk[g] = fs.din[g]
          \/ call.step = "trunc" /\ Target = g
          \/ InIo /\ Target = g /\ Reach > fs.din[g].size
      BY <1>1, <2>1, <3>1, Zenon DEF Synced
    <3>3. CASE disk[g] = fs.din[g]
      BY <2>4, <3>3
    <3>4. CASE Reach > fs.din[f].size
      BY <1>1, <1>8, <2>4, <3>4
    <3> QED BY <1>8, <2>4, <3>2, <3>3, <3>4
  <2> QED BY <2>2, <2>3, <2>4
<1>12. IoFits'
  <2>1. call.op = "read" => call.end = Smaller(call.off + call.len, View[f].size)
    BY <1>1 DEF IoFits
  <2>2. call'.op = "read" =>
          call'.end = Smaller(call'.off + call'.len, View'[Target'].size)
    BY <1>1, <1>3, <1>6, <1>8, <2>1
  <2> QED BY <1>1, <1>3, <1>8, <2>2 DEF IoFits
<1>13. TruncFits'
  BY <1>8 DEF TruncFits
<1> QED BY <1>2, <1>4, <1>7, <1>8, <1>9, <1>10, <1>11, <1>12, <1>13 DEF SfsInv, BlocksFit

(* The blocks after bytes have been stored in block b of W.                *)
StoredMap(f, b, C, data, free) ==
  /\ Exact(Map(C, data), free) /\ Filled(Map(C, data), C)
  /\ call.blkno \in Idx /\ call.blkno < Top /\ Map(C, data)[f][call.blkno] = b
  /\ \A g \in File : \A i \in Idx :
       i < Top /\ ~(g = f /\ i = call.blkno) => Map(C, data)[g][i] = Where[g][i]

(* Inodes that agree with View on f are View.                              *)
LEMMA FollowsSame ==
  ASSUME Types, NEW f \in File, NEW C, Follows(C, View, f, View[f])
  PROVE  C = View
BY TypesAre DEF Follows, Inodes

(* What a write into block blkno of file f makes of the file system: it    *)
(* has one block more when the block was new.                              *)
LEMMA StoredIs ==
  ASSUME SfsInv, InIo, fs.oops = "no", NEW f, f = Target, NEW W, NEW b, Found(f, W, b),
         NEW blkoff, NEW sz, NEW X, X = Stored(W, b, blkoff, sz)
  PROVE  /\ Sound(X) /\ b \in Blk /\ X.din[f].size = fs.din[f].size
         /\ \A g \in File \ {f} : X.din[g] = fs.din[g] /\ X.dirty[g] = fs.dirty[g]
         /\ call.blkno < fs.din[f].blocks => X.din = fs.din /\ X.dirty = fs.dirty
         /\ ~(call.blkno < fs.din[f].blocks) =>
              X.din[f].blocks = call.blkno + 1 /\ call.blkno = fs.din[f].blocks
         /\ \A C : Follows(C, View, f, X.din[f]) => StoredMap(f, b, C, X.data, X.freemap)
<1>1. /\ Types /\ Layout /\ f \in File /\ View[f] = fs.din[f] /\ Good(fs, View, f)
      /\ call.blkno \in Nat /\ call.byte \in Nat /\ View \in Inodes
      /\ fs.freemap \subseteq Blk /\ fs.din[f].blocks \in Nat
  BY InCallIo, TypesAre
<1>2. CASE /\ call.blkno < fs.din[f].blocks /\ call.blkno \in Idx /\ call.blkno < Top
           /\ W = fs /\ b = Where[f][call.blkno] /\ b \in Blk /\ b # 0
  <2>1. Sound(W) /\ Exact(Map(View, W.data), W.freemap) /\ Filled(Map(View, W.data), View)
    BY <1>1, <1>2 DEF Good
  <2>2. b = Map(View, W.data)[f][call.blkno]
    BY <1>2 DEF Where
  <2>3. /\ Sound(X) /\ X.freemap = W.freemap /\ X.din = W.din /\ X.dirty = W.dirty
        /\ Map(View, X.data) = Map(View, W.data)
    <3>1. CASE call.op = "write"
      <4>1. PICK cells : X = Put(W, b, cells, call.byte)
        BY <3>1, Zenon DEF Stored
      <4>2. Map(View, Put(W, b, cells, call.byte).data) = Map(View, W.data)
        <5>1. Placed(W, View, f, call.blkno, b)
          BY <1>1, <1>2, <2>1, <2>2, Zenon DEF Placed
        <5>2. \A w, v : v \in Nat => Map(View, Put(W, b, w, v).data) = Map(View, W.data)
          BY <5>1, PutKeepsMap
        <5> QED BY <1>1, <5>2
      <4>3. /\ Sound(Put(W, b, cells, call.byte))
            /\ Put(W, b, cells, call.byte).freemap = W.freemap
            /\ Put(W, b, cells, call.byte).din = W.din
            /\ Put(W, b, cells, call.byte).dirty = W.dirty
        BY <1>1, <1>2, <2>1, PutIs
      <4> QED BY <4>1, <4>2, <4>3, Zenon
    <3>2. CASE call.op # "write"
      <4>1. X = W
        BY <3>2, Zenon DEF Stored
      <4> QED BY <2>1, <4>1, Zenon
    <3> QED BY <3>1, <3>2
  <2>4. StoredMap(f, b, View, X.data, X.freemap)
    BY <1>2, <2>1, <2>2, <2>3 DEF StoredMap, Where
  <2>5. ASSUME NEW C, Follows(C, View, f, X.din[f])
        PROVE  StoredMap(f, b, C, X.data, X.freemap)
    <3>1. X.din[f] = View[f]
      BY <1>1, <1>2, <2>3
    <3>2. C = View
      BY <1>1, <2>5, <3>1, FollowsSame
    <3> QED BY <2>4, <3>2, Zenon
  <2>6. \A g \in File \ {f} : X.din[g] = fs.din[g] /\ X.dirty[g] = fs.dirty[g]
    BY <1>2, <2>3, Zenon
  <2>7. X.din = fs.din /\ X.dirty = fs.dirty /\ X.din[f].size = fs.din[f].size
    BY <1>2, <2>3, Zenon
  <2> QED BY <1>2, <2>3, <2>5, <2>6, <2>7, Zenon
<1>3. CASE call.op = "write" /\ call.blkno = fs.din[f].blocks /\ Grown(fs, View, f, W, b)
  <2>1. /\ Sound(W) /\ b \in fs.freemap /\ W.din[f].size = fs.din[f].size
        /\ W.din[f].blocks = fs.din[f].blocks + 1
    BY <1>3 DEF Grown
  <2>2. /\ \A g \in File \ {f} : W.din[g] = fs.din[g] /\ W.dirty[g] = fs.dirty[g]
        /\ \A C : Follows(C, View, f, W.din[f]) => GrownMap(fs, View, f, W, b, C)
    BY <1>3, Zenon DEF Grown
  <2>3. b \in Blk /\ b # 0
    BY <1>1, <2>1, Consts
  <2>4. PICK cells : X = Put(W, b, cells, call.byte)
    BY <1>3, Zenon DEF Stored
  <2>5. /\ Sound(X) /\ X.freemap = W.freemap /\ X.din = W.din /\ X.dirty = W.dirty
    <3>1. /\ Sound(Put(W, b, cells, call.byte))
          /\ Put(W, b, cells, call.byte).freemap = W.freemap
          /\ Put(W, b, cells, call.byte).din = W.din
          /\ Put(W, b, cells, call.byte).dirty = W.dirty
      BY <1>1, <2>1, <2>3, PutIs
    <3> QED BY <2>4, <3>1, Zenon
  <2>6. ASSUME NEW C, Follows(C, View, f, X.din[f])
        PROVE  StoredMap(f, b, C, X.data, X.freemap)
    <3>1. GrownMap(fs, View, f, W, b, C)
      BY <2>2, <2>5, <2>6
    <3>2. /\ Exact(Map(C, W.data), W.freemap) /\ Filled(Map(C, W.data), C)
          /\ Map(C, W.data)[f][call.blkno] = b
          /\ \A g \in File : \A i \in Idx :
               i < Top /\ ~(g = f /\ i = call.blkno) => Map(C, W.data)[g][i] = Where[g][i]
      BY <1>3, <3>1 DEF GrownMap, Where
    <3>3. C \in Inodes /\ C[f] = W.din[f]
      BY <2>5, <2>6 DEF Follows
    <3>4. C[f].blocks \in 0..Top
      BY <1>1, <3>2 DEF Filled
    <3>5. call.blkno \in Idx /\ call.blkno < Top
      BY <1>1, <1>3, <2>1, <3>3, <3>4, Consts DEF Idx
    <3>6. Map(C, Put(W, b, cells, call.byte).data) = Map(C, W.data)
      <4>1. Placed(W, C, f, call.blkno, b)
        BY <1>1, <2>1, <2>3, <3>2, <3>3, <3>5, Zenon DEF Placed
      <4>2. \A w, v : v \in Nat => Map(C, Put(W, b, w, v).data) = Map(C, W.data)
        BY <4>1, PutKeepsMap
      <4> QED BY <1>1, <4>2
    <3>7. Map(C, X.data) = Map(C, W.data)
      BY <2>4, <3>6, Zenon
    <3> QED BY <2>5, <3>2, <3>5, <3>7 DEF StoredMap
  <2>7. ~(call.blkno < fs.din[f].blocks)
    BY <1>1, <1>3
  <2>8. \A g \in File \ {f} : X.din[g] = fs.din[g] /\ X.dirty[g] = fs.dirty[g]
    BY <2>2, <2>5, Zenon
  <2>9. X.din[f].size = fs.din[f].size /\ X.din[f].blocks = call.blkno + 1
    BY <1>3, <2>1, <2>5
  <2> QED BY <1>3, <2>3, <2>5, <2>6, <2>7, <2>8, <2>9, Zenon
<1> QED BY <1>2, <1>3, Zenon DEF Found

(* The bytes that are read.                                                *)
LEMMA BytesType ==
  ASSUME Types, NEW b \in Blk, NEW blkoff \in Cell, NEW sz \in Nat, blkoff + sz <= BlkSize
  PROVE  Bytes(b, blkoff, sz) \in Seq(Nat) /\ Len(Bytes(b, blkoff, sz)) = sz
<1>1. fs.data[b] \in [Cell -> Nat]
  BY TypesAre DEF Datas
<1>2. \A k \in 1..sz : blkoff + k - 1 \in Cell
  BY Consts DEF Cell
<1>3. Bytes(b, blkoff, sz) \in [1..sz -> Nat]
  BY <1>1, <1>2 DEF Bytes
<1> QED BY <1>3

(* The places when only free blocks have other contents.                   *)
LEMMA KeptMap ==
  ASSUME Types, Layout, fs.oops = "no", NEW f \in File, NEW W, Kept(fs, f, W),
         Good(fs, View, f)
  PROVE  Map(View, W.data) = Map(View, fs.data)
<1>1. /\ View \in Inodes /\ fs.data \in Datas /\ W.data \in Datas
      /\ \A c \in Blk \ fs.freemap : W.data[c] = fs.data[c]
  BY TypesAre DEF Kept, Sound, FsType, Datas
<1>2. \A g \in File : View[g].indirect # 0 => View[g].indirect \in Blk \ fs.freemap
  BY GoodIs
<1> QED BY <1>1, <1>2, SameMap

(* A step of sfs_io_nolock: to the next part, or one that copies bytes.    *)
AtStep(s) == [call EXCEPT !.step = s]

IoMoves ==
  \/ \E s \in {"body", "tail", "out"} : call' = AtStep(s) /\ fs' = fs
  \/ \E blkoff, sz, next :
       /\ Part(blkoff, sz) /\ Transfer(blkoff, sz, next) /\ Later(next)
       /\ next.alen = call.alen /\ next.got = call.got /\ next.step \in {"body", "out"}

(* A part of a read or write keeps the invariant.                          *)
LEMMA TransferStep ==
  ASSUME SfsInv, fs.oops = "no", NEW blkoff, NEW sz, NEW next, Part(blkoff, sz),
         Transfer(blkoff, sz, next), disk' = disk, fd' = fd,
         Later(next), next.alen = call.alen, next.got = call.got, next.step \in {"body", "out"},
         next.step = "body" => /\ Reach + sz = BlkSize * next.blkno
                               /\ next.nblks + next.blkno = call.end \div BlkSize,
         next.step = "out" /\ call.op = "read" => Reach + sz = call.end
  PROVE  SfsInv' /\ IoMoves
<1>8. IoMoves
  BY Zenon DEF IoMoves
<1> SUFFICES SfsInv'
  BY <1>8
<1>1. /\ InIo /\ blkoff \in Nat /\ blkoff \in Cell /\ sz \in Nat /\ sz # 0
      /\ blkoff + sz <= BlkSize
      /\ Reach = BlkSize * call.blkno + blkoff /\ Reach + sz <= call.end
  BY Consts DEF Part
<1>2. PICK f : f = Target
  OBVIOUS
<1>3. /\ Types /\ Layout /\ f \in File /\ Good(fs, View, f) /\ View[f] = fs.din[f]
      /\ call \in CallType /\ call.op \in {"read", "write"} /\ call.blkno \in Nat
      /\ Reach \in Nat /\ call.end \in Nat /\ call.off \in Nat /\ call.alen \in Nat
      /\ fs.din[f].size \in Nat /\ fs.din[f].blocks \in Nat /\ Reach <= call.end
      /\ fs.din[f].blocks = Blocks(Larger(fs.din[f].size, Reach))
  BY <1>1, <1>2, InCallIo
<1>4. Later(Ended) /\ Ended.step = "out" /\ Ended.alen = call.alen
  BY <1>3, EndedIs
<1>5. CASE call.blkno = fs.din[f].blocks /\ OutOfRange(fs, f, fs') /\ call' = Ended
  <2>1. call' \in CallType
    BY <1>4, <1>5 DEF Later
  <2>2. BlkSize * Top < MaxFileSize
    <3>1. call.blkno = Top
      BY <1>5 DEF OutOfRange
    <3>2. PICK t : t = BlkSize * Top
      OBVIOUS
    <3>3. Reach = t + blkoff /\ t \in Nat
      BY <1>1, <3>1, <3>2, Consts
    <3>4. call.end <= MaxFileSize
      BY <1>1, InCallIo
    <3>5. t < MaxFileSize
      BY <1>1, <1>3, <3>3, <3>4, Consts
    <3> QED BY <3>2, <3>5
  <2>3. Loaded(f)
    BY <1>1, <1>2, InCallIo
  <2> QED BY <1>3, <1>5, <2>1, <2>2, <2>3, RangeStep
<1>6. CASE call.op = "write" /\ Kept(fs, f, fs') /\ call' = Ended
  <2>1. /\ Sound(fs') /\ fs'.din = fs.din /\ fs'.dirty = fs.dirty /\ fs'.freemap = fs.freemap
    BY <1>6 DEF Kept
  <2>2. Later(call') /\ call'.step = "out" /\ Reach' = Reach /\ InIo'
    <3>1. Later(call') /\ call'.step = "out" /\ call'.alen = call.alen /\ call'.off = call.off
      BY <1>4, <1>6 DEF Later
    <3> QED BY <3>1 DEF Reach, InIo
  <2>3. Map(View, fs'.data) = Map(View, fs.data)
    BY <1>3, <1>6, KeptMap
  <2>4. ASSUME NEW C, Follows(C, View, f, fs'.din[f])
        PROVE  Exact(Map(C, fs'.data), fs'.freemap) /\ Filled(Map(C, fs'.data), C)
    <3>1. C = View
      BY <1>3, <2>1, <2>4, FollowsSame
    <3> QED BY <1>3, <2>1, <2>3, <3>1 DEF Layout, Where
  <2>5. \A g \in File \ {f} : fs'.din[g] = fs.din[g] /\ fs'.dirty[g] = fs.dirty[g]
    BY <2>1, Zenon
  <2>6. /\ fs'.din[f].size = fs.din[f].size
        /\ fs'.din[f].blocks = Blocks(Larger(fs.din[f].size, Reach'))
        /\ Reach <= Reach' /\ Reach' \in Nat /\ Reach' <= call.end
    BY <1>3, <2>1, <2>2
  <2>7. call'.step # "head" /\ call'.step # "body" /\ call'.step # "tail" /\ call.op # "read"
    BY <1>6, <2>2
  <2> QED BY <1>1, <1>2, <2>1, <2>2, <2>4, <2>5, <2>6, <2>7, IoTurn
<1>7. ASSUME NEW W, NEW b, Found(f, W, b), fs' = Stored(W, b, blkoff, sz),
             call' = Copied(next, blkoff, sz, b)
      PROVE  SfsInv'
  <2>1. /\ Sound(fs') /\ b \in Blk /\ fs'.din[f].size = fs.din[f].size
        /\ \A g \in File \ {f} : fs'.din[g] = fs.din[g] /\ fs'.dirty[g] = fs.dirty[g]
        /\ call.blkno < fs.din[f].blocks => fs'.din = fs.din /\ fs'.dirty = fs.dirty
        /\ ~(call.blkno < fs.din[f].blocks) =>
             fs'.din[f].blocks = call.blkno + 1 /\ call.blkno = fs.din[f].blocks
        /\ \A C : Follows(C, View, f, fs'.din[f]) => StoredMap(f, b, C, fs'.data, fs'.freemap)
    BY <1>1, <1>2, <1>7, StoredIs
  <2>2. Bytes(b, blkoff, sz) \in Seq(Nat)
    BY <1>1, <1>3, <2>1, BytesType
  <2>3. /\ Later(call') /\ call'.step = next.step /\ call'.blkno = next.blkno
        /\ call'.nblks = next.nblks /\ call'.alen = next.alen + sz
    BY <1>1, <1>7, <2>2, CopiedIs
  <2>4. Reach' = Reach + sz /\ InIo'
    <3>1. call'.off = call.off
      BY <2>3 DEF Later
    <3> QED BY <1>1, <1>3, <2>3, <3>1 DEF Reach, InIo
  <2>5. \A C : Follows(C, View, f, fs'.din[f]) =>
          Exact(Map(C, fs'.data), fs'.freemap) /\ Filled(Map(C, fs'.data), C)
    BY <2>1 DEF StoredMap
  <2>6. PICK n, m, l : n = fs.din[f].blocks /\ m = Larger(fs.din[f].size, Reach)
                       /\ l = Larger(fs.din[f].size, Reach')
    OBVIOUS
  <2>7. /\ n \in Nat /\ m \in Nat /\ l \in Nat /\ Reach + sz <= l /\ fs.din[f].size <= l
        /\ (l = Reach + sz \/ l = fs.din[f].size) /\ m <= l /\ fs.din[f].size <= m
        /\ m <= BlkSize * n /\ BlkSize * n < m + BlkSize
    <3>1. m \in Nat /\ l \in Nat /\ n \in Nat
      BY <1>1, <1>3, <2>4, <2>6 DEF Larger
    <3>2. m <= BlkSize * n /\ BlkSize * n < m + BlkSize
      BY <1>3, <2>6, <3>1, BlocksIs
    <3> QED BY <1>1, <1>3, <2>4, <2>6, <3>1, <3>2 DEF Larger
  <2>8. Reach + sz <= BlkSize * call.blkno + BlkSize
    BY <1>1, <1>3, Consts
  <2>9. CASE call.blkno < n
    <3>1. BlkSize * call.blkno + BlkSize <= BlkSize * n
      BY <1>3, <2>7, <2>9, MultLess
    <3>2. l <= BlkSize * n /\ BlkSize * n < l + BlkSize
      <4>1. BlkSize * n \in Nat /\ BlkSize * call.blkno \in Nat
        BY <1>3, <2>7, Consts
      <4> QED BY <1>1, <1>3, <2>7, <2>8, <3>1, <4>1, Consts
    <3>3. n = Blocks(l)
      BY <2>7, <3>2, BlocksIs
    <3>4. fs'.din = fs.din /\ fs'.dirty = fs.dirty
      BY <2>1, <2>6, <2>9
    <3>5. /\ fs'.din[f].blocks = Blocks(Larger(fs.din[f].size, Reach')) /\ Reach <= Reach'
          /\ Reach' \in Nat /\ Reach' <= call.end
      BY <1>1, <1>3, <2>4, <2>6, <3>3, <3>4
    <3>6. /\ call'.step # "head" /\ call'.step # "tail"
          /\ call'.step = "body" => /\ Reach' = BlkSize * call'.blkno
                                    /\ call'.nblks + call'.blkno = call.end \div BlkSize
          /\ call'.step = "out" /\ call.op = "read" => Reach' = call.end
      BY <2>3, <2>4
    <3> QED BY <1>1, <1>2, <2>1, <2>3, <2>4, <2>5, <3>4, <3>5, <3>6, IoTurn
  <2>10. CASE ~(call.blkno < n)
    <3>1. call.blkno = n /\ fs'.din[f].blocks = n + 1
      BY <2>1, <2>6, <2>10
    <3>2. Reach' > fs.din[f].size /\ l = Reach + sz
      <4>1. BlkSize * n \in Nat
        BY <2>7, Consts
      <4>2. fs.din[f].size < Reach + sz
        BY <1>1, <1>3, <2>7, <3>1, <4>1, Consts
      <4> QED BY <1>1, <1>3, <2>4, <2>7, <4>2
    <3>3. n + 1 = Blocks(l)
      <4>1. BlkSize * n \in Nat /\ BlkSize * (n + 1) = BlkSize * n + BlkSize /\ n + 1 \in Nat
        BY <2>7, Consts
      <4>2. l <= BlkSize * (n + 1) /\ BlkSize * (n + 1) < l + BlkSize
        BY <1>1, <1>3, <2>8, <3>1, <3>2, <4>1, Consts
      <4> QED BY <2>7, <4>1, <4>2, BlocksIs
    <3>4. /\ fs'.din[f].blocks = Blocks(Larger(fs.din[f].size, Reach'))
          /\ Reach' \in Nat /\ Reach' <= call.end
      BY <1>1, <1>3, <2>4, <2>6, <3>1, <3>3
    <3>5. /\ call'.step # "head" /\ call'.step # "tail"
          /\ call'.step = "body" => /\ Reach' = BlkSize * call'.blkno
                                    /\ call'.nblks + call'.blkno = call.end \div BlkSize
          /\ call'.step = "out" /\ call.op = "read" => Reach' = call.end
      BY <2>3, <2>4
    <3> QED BY <1>1, <1>2, <2>1, <2>3, <2>4, <2>5, <3>2, <3>4, <3>5, IoTurn
  <2> QED BY <2>9, <2>10
<1> QED BY <1>2, <1>5, <1>6, <1>7, TransferIs

(* The parts of a call that goes on to another step.                       *)
LEMMA AtStepIs ==
  ASSUME call \in CallType, NEW s \in {"head", "body", "tail", "out"}
  PROVE  /\ Later(AtStep(s)) /\ AtStep(s).step = s /\ AtStep(s).alen = call.alen
         /\ AtStep(s).blkno = call.blkno /\ AtStep(s).nblks = call.nblks
         /\ AtStep(s).got = call.got
BY DEF AtStep, Later, CallType

(* The parts of a call that goes on to the next block.                     *)
LEMMA NextBlockIs ==
  ASSUME call \in CallType, call.nblks # 0
  PROVE  /\ Later(NextBlock) /\ NextBlock.step = "body" /\ NextBlock.alen = call.alen
         /\ NextBlock.blkno = call.blkno + 1 /\ NextBlock.nblks = call.nblks - 1
         /\ NextBlock.got = call.got
<1>1. PICK x : x = [call EXCEPT !.step = "body"]
  OBVIOUS
<1>2. PICK y : y = [x EXCEPT !.blkno = @ + 1]
  OBVIOUS
<1>3. NextBlock = [y EXCEPT !.nblks = @ - 1]
  BY <1>1, <1>2, Zenon DEF NextBlock
<1>4. call.blkno \in Nat /\ call.nblks \in Nat
  BY DEF CallType
<1>5. PICK m, n : m = call.blkno + 1 /\ n = call.nblks - 1
  OBVIOUS
<1>6. m \in Nat /\ n \in Nat
  BY <1>4, <1>5
<1>7. /\ x \in CallType /\ x.op = call.op /\ x.d = call.d /\ x.off = call.off
      /\ x.len = call.len /\ x.end = call.end /\ x.byte = call.byte
      /\ x.step = "body" /\ x.blkno = call.blkno /\ x.nblks = call.nblks
      /\ x.alen = call.alen /\ x.got = call.got
  BY <1>1 DEF CallType
<1>8. y = [x EXCEPT !.blkno = m]
  BY <1>2, <1>5, <1>7, Zenon
<1>9. /\ y \in CallType /\ y.op = call.op /\ y.d = call.d /\ y.off = call.off
      /\ y.len = call.len /\ y.end = call.end /\ y.byte = call.byte
      /\ y.step = "body" /\ y.blkno = m /\ y.nblks = call.nblks
      /\ y.alen = call.alen /\ y.got = call.got
  BY <1>6, <1>7, <1>8 DEF CallType
<1>10. NextBlock = [y EXCEPT !.nblks = n]
  BY <1>3, <1>5, <1>9, Zenon
<1>11. PICK z : z = NextBlock
  OBVIOUS
<1>12. /\ z \in CallType /\ z.op = call.op /\ z.d = call.d /\ z.off = call.off
       /\ z.len = call.len /\ z.end = call.end /\ z.byte = call.byte
       /\ z.step = "body" /\ z.blkno = m /\ z.nblks = n
       /\ z.alen = call.alen /\ z.got = call.got
  BY <1>6, <1>9, <1>10, <1>11 DEF CallType
<1> QED BY <1>5, <1>11, <1>12, Zenon DEF Later

(* A call that goes on without a copy keeps the invariant.                 *)
LEMMA WalksOn ==
  ASSUME SfsInv, InIo, fs.oops = "no", fs' = fs, disk' = disk, fd' = fd,
         NEW s \in {"body", "tail", "out"}, call' = AtStep(s),
         s = "body" => /\ Reach = BlkSize * call.blkno
                       /\ call.nblks + call.blkno = call.end \div BlkSize,
         s = "tail" => Reach = BlkSize * call.blkno /\ call.blkno = call.end \div BlkSize,
         s = "out" /\ call.op = "read" => Reach = call.end
  PROVE  SfsInv' /\ SameFiles /\ Reach' = Reach /\ InIo' /\ IoMoves
<1>1. PICK f : f = Target
  OBVIOUS
<1>2. /\ Types /\ Layout /\ f \in File /\ Good(fs, View, f) /\ View[f] = fs.din[f]
      /\ call \in CallType /\ Reach \in Nat /\ Reach <= call.end
      /\ fs.din[f].blocks = Blocks(Larger(fs.din[f].size, Reach))
  BY <1>1, InCallIo
<1>3. /\ Later(call') /\ call'.step = s /\ call'.alen = call.alen
      /\ call'.blkno = call.blkno /\ call'.nblks = call.nblks
  BY <1>2, AtStepIs
<1>4. Reach' = Reach /\ InIo'
  BY <1>3 DEF Reach, InIo, Later
<1>5. ASSUME NEW C, Follows(C, View, f, fs'.din[f])
      PROVE  Exact(Map(C, fs'.data), fs'.freemap) /\ Filled(Map(C, fs'.data), C)
  <2>1. C = View
    BY <1>2, <1>5, FollowsSame
  <2> QED BY <1>2, <2>1 DEF Layout, Where
<1>6. Sound(fs')
  BY <1>2 DEF Good
<1>7. /\ fs'.din[f].size = fs.din[f].size /\ fs'.din = fs.din /\ fs'.dirty = fs.dirty
      /\ fs'.din[f].blocks = Blocks(Larger(fs.din[f].size, Reach'))
      /\ Reach <= Reach' /\ Reach' \in Nat /\ Reach' <= call.end
  BY <1>2, <1>4
<1>8. \A g \in File \ {f} : fs'.din[g] = fs.din[g] /\ fs'.dirty[g] = fs.dirty[g]
  BY Zenon
<1>9. /\ call'.step # "head"
      /\ call'.step = "body" => /\ Reach' = BlkSize * call'.blkno
                                /\ call'.nblks + call'.blkno = call.end \div BlkSize
      /\ call'.step = "tail" => /\ Reach' = BlkSize * call'.blkno
                                /\ call'.blkno = call.end \div BlkSize
      /\ call'.step = "out" /\ call.op = "read" => Reach' = call.end
  BY <1>3, <1>4
<1>10. call' \in CallType /\ PositionsFit
  BY <1>3, InCallIo DEF Later
<1>11. SameFiles
  BY <1>2, <1>10, StandsStill DEF SameFiles
<1>12. SfsInv'
  BY <1>1, <1>3, <1>4, <1>5, <1>6, <1>7, <1>8, <1>9, IoTurn
<1>13. IoMoves
  BY Zenon DEF IoMoves
<1> QED BY <1>4, <1>11, <1>12, <1>13

(* The bytes from the position to the end of its block ...                 *)
LEMMA IoHeadStep ==
  ASSUME SfsInv, IoHead
  PROVE  SfsInv' /\ IoMoves
<1>1. call.step = "head" /\ fs.oops = "no" /\ disk' = disk /\ fd' = fd /\ InIo
  BY DEF IoHead, InIo
<1>2. /\ call \in CallType /\ call.off \in Nat /\ call.end \in Nat /\ call.alen \in Nat
      /\ call.blkno \in Nat /\ call.nblks \in Nat /\ call.off < call.end
  BY <1>1, InCallIo
<1>3. /\ call.alen = 0 /\ call.blkno = call.off \div BlkSize
      /\ call.nblks + call.blkno = call.end \div BlkSize
  <2>1. IoFits
    BY <1>1, InCallIo
  <2> QED BY <1>1, <2>1 DEF IoFits
<1>4. Reach = call.off
  BY <1>2, <1>3 DEF Reach
<1>5. PICK r, q : r = call.off % BlkSize /\ q = call.end % BlkSize
  OBVIOUS
<1>6. /\ call.off = BlkSize * call.blkno + r /\ r \in Cell /\ r \in Nat /\ r < BlkSize
      /\ call.end = BlkSize * (call.nblks + call.blkno) + q /\ q \in Nat /\ q < BlkSize
  <2>1. /\ call.off = BlkSize * (call.off \div BlkSize) + r /\ r \in Cell
        /\ call.end = BlkSize * (call.end \div BlkSize) + q /\ q \in Cell
    BY <1>2, <1>5, DivMod
  <2>2. r \in Nat /\ r < BlkSize /\ q \in Nat /\ q < BlkSize
    BY <2>1, Consts DEF Cell
  <2> QED BY <1>3, <2>1, <2>2, Zenon
<1>7. CASE r = 0
  <2>1. call' = AtStep("body") /\ fs' = fs
    BY <1>5, <1>7, Zenon DEF IoHead, AtStep
  <2>2. Reach = BlkSize * call.blkno
    BY <1>2, <1>4, <1>6, <1>7, Consts
  <2> QED BY <1>1, <1>3, <2>1, <2>2, WalksOn
<1>8. CASE r # 0 /\ call.nblks = 0
  <2>1. PICK sz : sz = call.end - call.off
    OBVIOUS
  <2>2. Transfer(r, sz, Ended)
    <3>1. HeadSize = sz
      BY <1>8, <2>1 DEF HeadSize
    <3>2. Transfer(r, HeadSize, IF call.nblks = 0 THEN Ended ELSE NextBlock)
      BY <1>5, <1>8, Zenon DEF IoHead, Ended
    <3> QED BY <1>8, <3>1, <3>2, Zenon
  <2>3. sz \in Nat /\ sz # 0 /\ r + sz <= BlkSize /\ Reach + sz = call.end
    <3>1. call.nblks + call.blkno = call.blkno
      BY <1>2, <1>8
    <3>2. call.end = BlkSize * call.blkno + q
      BY <1>6, <3>1
    <3>3. BlkSize * call.blkno \in Nat
      BY <1>2, Consts
    <3> QED BY <1>2, <1>4, <1>6, <2>1, <3>2, <3>3, Consts
  <2>4. Part(r, sz)
    BY <1>1, <1>2, <1>4, <1>6, <2>3 DEF Part
  <2>5. /\ Later(Ended) /\ Ended.step = "out" /\ Ended.alen = call.alen
        /\ Ended.got = call.got
    BY <1>2, EndedIs
  <2> QED BY <1>1, <2>2, <2>3, <2>4, <2>5, TransferStep
<1>9. CASE r # 0 /\ call.nblks # 0
  <2>1. PICK sz : sz = BlkSize - r
    OBVIOUS
  <2>2. Transfer(r, sz, NextBlock)
    <3>1. HeadSize = sz
      BY <1>5, <1>9, <2>1 DEF HeadSize
    <3>2. Transfer(r, HeadSize, IF call.nblks = 0 THEN Ended ELSE NextBlock)
      BY <1>5, <1>9, Zenon DEF IoHead, Ended
    <3> QED BY <1>9, <3>1, <3>2, Zenon
  <2>3. /\ sz \in Nat /\ sz # 0 /\ r + sz <= BlkSize
        /\ Reach + sz = BlkSize * (call.blkno + 1) /\ Reach + sz <= call.end
    <3>1. BlkSize * (call.blkno + 1) = BlkSize * call.blkno + BlkSize
      BY <1>2, Consts
    <3>2. BlkSize * call.blkno + BlkSize <= BlkSize * (call.nblks + call.blkno)
      BY <1>2, <1>9, MultLess
    <3>3. BlkSize * call.blkno \in Nat /\ BlkSize * (call.nblks + call.blkno) \in Nat
      BY <1>2, Consts
    <3> QED BY <1>2, <1>4, <1>6, <2>1, <3>1, <3>2, <3>3, Consts
  <2>4. Part(r, sz)
    BY <1>1, <1>2, <1>4, <1>6, <2>3 DEF Part
  <2>5. /\ Later(NextBlock) /\ NextBlock.step = "body" /\ NextBlock.alen = call.alen
        /\ NextBlock.blkno = call.blkno + 1 /\ NextBlock.nblks = call.nblks - 1
        /\ NextBlock.got = call.got
    BY <1>2, <1>9, NextBlockIs
  <2>6. /\ Reach + sz = BlkSize * NextBlock.blkno
        /\ NextBlock.nblks + NextBlock.blkno = call.end \div BlkSize
    BY <1>2, <1>3, <2>3, <2>5
  <2> QED BY <1>1, <2>2, <2>4, <2>5, <2>6, TransferStep
<1> QED BY <1>7, <1>8, <1>9

(* ... whole blocks ...                                                    *)
LEMMA IoBodyStep ==
  ASSUME SfsInv, IoBody
  PROVE  SfsInv' /\ IoMoves
<1>1. call.step = "body" /\ fs.oops = "no" /\ disk' = disk /\ fd' = fd /\ InIo
  BY DEF IoBody, InIo
<1>2. /\ call \in CallType /\ call.off \in Nat /\ call.end \in Nat /\ call.alen \in Nat
      /\ call.blkno \in Nat /\ call.nblks \in Nat
  BY <1>1, InCallIo
<1>3. Reach = BlkSize * call.blkno /\ call.nblks + call.blkno = call.end \div BlkSize
  <2>1. IoFits
    BY <1>1, InCallIo
  <2> QED BY <1>1, <2>1 DEF IoFits
<1>4. CASE call.nblks = 0
  <2>1. call' = AtStep("tail") /\ fs' = fs
    BY <1>4, Zenon DEF IoBody, AtStep
  <2>2. call.blkno = call.end \div BlkSize
    BY <1>2, <1>3, <1>4
  <2> QED BY <1>1, <1>3, <2>1, <2>2, WalksOn
<1>5. CASE call.nblks # 0
  <2>1. Transfer(0, BlkSize, NextBlock)
    BY <1>5, Zenon DEF IoBody
  <2>2. Reach + BlkSize = BlkSize * (call.blkno + 1) /\ Reach + BlkSize <= call.end
    <3>1. BlkSize * (call.blkno + 1) = BlkSize * call.blkno + BlkSize
      BY <1>2, Consts
    <3>2. BlkSize * call.blkno + BlkSize <= BlkSize * (call.nblks + call.blkno)
      BY <1>2, <1>5, MultLess
    <3>3. BlkSize * (call.nblks + call.blkno) <= call.end
      <4>1. call.end = BlkSize * (call.end \div BlkSize) + (call.end % BlkSize)
        BY <1>2, DivMod
      <4>2. call.end % BlkSize \in Nat
        BY <1>2, DivMod, Consts
      <4>3. call.end = BlkSize * (call.nblks + call.blkno) + (call.end % BlkSize)
        BY <1>3, <4>1, Zenon
      <4>4. BlkSize * (call.nblks + call.blkno) \in Nat
        BY <1>2, Consts
      <4> QED BY <1>2, <4>2, <4>3, <4>4
    <3>4. BlkSize * call.blkno \in Nat /\ BlkSize * (call.nblks + call.blkno) \in Nat
      BY <1>2, Consts
    <3> QED BY <1>2, <1>3, <3>1, <3>2, <3>3, <3>4, Consts
  <2>3. Part(0, BlkSize)
    <3>1. 0 \in Cell /\ BlkSize \in Nat /\ BlkSize # 0 /\ 0 + BlkSize <= BlkSize
      BY Consts DEF Cell
    <3>2. Reach = BlkSize * call.blkno + 0
      BY <1>2, <1>3, Consts
    <3> QED BY <1>1, <2>2, <3>1, <3>2 DEF Part
  <2>4. /\ Later(NextBlock) /\ NextBlock.step = "body" /\ NextBlock.alen = call.alen
        /\ NextBlock.blkno = call.blkno + 1 /\ NextBlock.nblks = call.nblks - 1
        /\ NextBlock.got = call.got
    BY <1>2, <1>5, NextBlockIs
  <2>5. /\ Reach + BlkSize = BlkSize * NextBlock.blkno
        /\ NextBlock.nblks + NextBlock.blkno = call.end \div BlkSize
    BY <1>2, <1>3, <2>2, <2>4
  <2> QED BY <1>1, <2>1, <2>3, <2>4, <2>5, TransferStep
<1> QED BY <1>4, <1>5

(* ... and the rest.                                                       *)
LEMMA IoTailStep ==
  ASSUME SfsInv, IoTail
  PROVE  SfsInv' /\ IoMoves
<1>1. call.step = "tail" /\ fs.oops = "no" /\ disk' = disk /\ fd' = fd /\ InIo
  BY DEF IoTail, InIo
<1>2. /\ call \in CallType /\ call.end \in Nat /\ call.blkno \in Nat
  BY <1>1, InCallIo
<1>3. Reach = BlkSize * call.blkno /\ call.blkno = call.end \div BlkSize
  <2>1. IoFits
    BY <1>1, InCallIo
  <2> QED BY <1>1, <2>1 DEF IoFits
<1>4. PICK q : q = TailSize
  OBVIOUS
<1>5. /\ Reach + q = call.end /\ q \in Nat /\ q < BlkSize /\ Reach \in Nat
  BY <1>2, <1>3, <1>4, DivMod, Consts DEF TailSize, Cell
<1>6. CASE q = 0
  <2>1. call' = AtStep("out") /\ fs' = fs
    BY <1>4, <1>6, Zenon DEF IoTail, AtStep
  <2>2. Reach = call.end
    BY <1>5, <1>6
  <2> QED BY <1>1, <2>1, <2>2, WalksOn
<1>7. CASE q # 0
  <2>1. Transfer(0, q, Ended)
    BY <1>4, <1>7, Zenon DEF IoTail, Ended
  <2>2. Part(0, q)
    <3>1. 0 \in Cell /\ 0 + q <= BlkSize /\ Reach = BlkSize * call.blkno + 0
      BY <1>2, <1>3, <1>5, Consts DEF Cell
    <3> QED BY <1>1, <1>2, <1>5, <1>7, <3>1 DEF Part
  <2>3. /\ Later(Ended) /\ Ended.step = "out" /\ Ended.alen = call.alen
        /\ Ended.got = call.got
    BY <1>2, EndedIs
  <2> QED BY <1>1, <1>5, <2>1, <2>2, <2>3, TransferStep
<1> QED BY <1>6, <1>7

(* The end of file_read and file_write.                                    *)
LEMMA IoOutStep ==
  ASSUME SfsInv, IoOut
  PROVE  SfsInv'
<1>1. call.step = "out" /\ fs.oops = "no" /\ disk' = disk /\ call' = None /\ InIo
  BY DEF IoOut, InIo
<1>2. PICK f, d, n : f = Target /\ d = call.d /\ n = Reach
  OBVIOUS
<1>3. /\ Types /\ Layout /\ SizesFit /\ PositionsFit /\ Synced
      /\ d \in Fd /\ f = fd[d].file /\ f \in File /\ Loaded(f) /\ View[f] = fs.din[f]
      /\ Din(f) = fs.din[f] /\ n \in Nat /\ fs.din[f].size \in Nat
      /\ fs.din[f].size <= MaxFileSize
      /\ fs.din[f].blocks = Blocks(Larger(fs.din[f].size, n))
      /\ call.off = fd[d].pos /\ call.off \in Nat /\ call.alen \in Nat
  BY <1>1, <1>2, InCallIo
<1>4. n <= MaxFileSize /\ n = call.off + call.alen
  <2>1. Reach <= call.end /\ call.end <= MaxFileSize /\ call.end \in Nat
    BY <1>1, InCallIo
  <2> QED BY <1>2, <1>3, <2>1, Consts DEF Reach
<1>5. /\ fs' = IF n > fs.din[f].size THEN Changed(fs, f, Resized(fs.din[f], n)) ELSE fs
      /\ fd' = [fd EXCEPT ![d].pos = @ + call.alen]
  BY <1>2, Zenon DEF IoOut, Resized, Target, Reach, Moved
<1>6. /\ fd' \in [Fd -> [file : File \cup {NoFile}, pos : 0..MaxFileSize]]
      /\ \A c \in Fd : fd'[c].file = fd[c].file
      /\ \A c \in Fd : c # d => fd'[c] = fd[c]
      /\ fd'[d].pos = n
  <2>1. fd \in [Fd -> [file : File \cup {NoFile}, pos : 0..MaxFileSize]]
    BY <1>3 DEF Types
  <2>2. n \in 0..MaxFileSize /\ fd[d].pos + call.alen = n
    BY <1>3, <1>4, Consts
  <2>3. fd' = [fd EXCEPT ![d].pos = n]
    BY <1>5, <2>2, Zenon
  <2> QED BY <1>3, <2>1, <2>2, <2>3
<1>7. \A c \in Fd : fd[c].file # NoFile =>
        fd[c].pos <= View[fd[c].file].size /\ fd[c].pos \in Nat /\ View[fd[c].file].size \in Nat
  <2>1. \A c \in Fd : fd[c].file # NoFile => fd[c].file \in File /\ fd[c].pos \in Nat
    BY <1>3, TypesAre, Consts
  <2>2. \A g \in File : View[g].size \in Nat
    BY <1>3, TypesAre
  <2> QED BY <1>3, <2>1, <2>2 DEF PositionsFit
<1>8. call.step # "trunc"
  BY <1>1
<1>9. \A g \in File \ {f} : /\ Din(g).size <= MaxFileSize
                            /\ Din(g).blocks = Blocks(Din(g).size)
  BY <1>2, <1>3, <1>8 DEF SizesFit, Extent
<1>10. \A g \in File \ {f} : Loaded(g) /\ ~fs.dirty[g] => disk[g] = fs.din[g]
  BY <1>2, <1>3, <1>8, Zenon DEF Synced
<1>11. CASE n > fs.din[f].size
  <2>1. fs' = Changed(fs, f, Resized(fs.din[f], n))
    BY <1>5, <1>11, Zenon
  <2>2. fs.din[f].blocks = Blocks(n)
    BY <1>3, <1>11 DEF Larger
  <2>3. \A c \in Fd : fd[c].file = f => fd'[c].pos <= n
    <3> SUFFICES ASSUME NEW c \in Fd, fd[c].file = f PROVE fd'[c].pos <= n
      OBVIOUS
    <3>1. fd[c].pos <= View[f].size /\ fd[c].pos \in Nat
      BY <1>3, <1>7, FileAssumption
    <3> QED BY <1>3, <1>6, <1>11, <3>1
  <2>4. \A c \in Fd : fd[c].file # NoFile /\ fd[c].file # f =>
                        fd'[c].pos <= View[fd[c].file].size
    BY <1>3, <1>6, <1>7
  <2> QED BY <1>1, <1>3, <1>4, <1>6, <1>9, <1>10, <2>1, <2>2, <2>3, <2>4, ResizeQuiet
<1>12. CASE ~(n > fs.din[f].size)
  <2>1. fs' = fs
    BY <1>5, <1>12, Zenon
  <2>2. fs.din[f].blocks = Blocks(fs.din[f].size) /\ n <= fs.din[f].size
    BY <1>3, <1>12 DEF Larger
  <2>3. \A g : Loaded(g)' <=> Loaded(g)
    BY <1>6, SameUsers
  <2>4. \A g \in File : Din(g)' = Din(g)
    BY <1>1, <2>1, <2>3 DEF Din
  <2>5. View' = View
    BY <2>4, SameView
  <2>6. Types'
    BY <1>1, <1>3, <1>6, <2>1, NoneType DEF Types
  <2>7. Layout'
    BY <1>3, <2>1, <2>5, KeepsLayout
  <2>8. Plain'
    <3>1. ASSUME NEW g \in File
          PROVE  Din(g)'.size <= MaxFileSize /\ Din(g)'.blocks = Blocks(Din(g)'.size)
      BY <1>3, <1>9, <2>2, <2>4
    <3> QED BY <3>1 DEF Plain
  <2>9. PositionsFit'
    <3> SUFFICES ASSUME NEW c \in Fd, fd'[c].file # NoFile
                 PROVE  fd'[c].pos <= View'[fd'[c].file].size
      BY DEF PositionsFit
    <3>1. CASE c = d
      BY <1>3, <1>6, <2>2, <2>5, <3>1
    <3>2. CASE c # d
      BY <1>6, <1>7, <2>5, <3>2
    <3> QED BY <3>1, <3>2
  <2>10. OnDisk'
    <3> SUFFICES ASSUME NEW g \in File, Loaded(g)', ~fs'.dirty[g]
                 PROVE  disk'[g] = fs'.din[g]
      BY Zenon DEF OnDisk
    <3>1. Loaded(g) /\ ~fs.dirty[g]
      BY <2>1, <2>3
    <3>2. CASE g # f
      BY <1>1, <1>10, <2>1, <3>1, <3>2
    <3>3. CASE g = f
      <4>1. disk[f] = fs.din[f] \/ Reach > fs.din[f].size
        BY <1>3, <1>8, <3>1, <3>3, Zenon DEF Synced
      <4> QED BY <1>1, <1>2, <1>12, <2>1, <3>3, <4>1
    <3> QED BY <3>2, <3>3
  <2>11. Quiet'
    BY <1>1, <2>1, <2>6, <2>7, <2>8, <2>9, <2>10 DEF Quiet
  <2> QED BY <1>1, <2>11, QuietStep
<1> QED BY <1>11, <1>12

-----------------------------------------------------------------------------
(* The theorems.                                                           *)

(* Every step keeps the invariant.                                         *)
LEMMA SfsInvStep ==
  ASSUME Careful, SfsInv, [Next]_vars
  PROVE  SfsInv'
<1>1. CASE UNCHANGED vars
  <2>1. fs' = fs /\ disk' = disk /\ fd' = fd /\ call' = call
    BY <1>1 DEF vars
  <2>2. \A f : Users(f)' = Users(f)
    BY <2>1 DEF Users
  <2>3. \A f : Loaded(f)' <=> Loaded(f)
    BY <2>2 DEF Loaded
  <2>4. \A f \in File : Din(f)' = Din(f)
    BY <2>1, <2>3 DEF Din
  <2>5. View' = View /\ Where' = Where
    BY <2>1, <2>4, SameView DEF Where
  <2>6. Target' = Target /\ (InIo' <=> InIo) /\ Reach' = Reach
    BY <2>1 DEF Target, InIo, Reach
  <2>7. \A f \in File : Extent(f)' = Extent(f)
    BY <2>4, <2>6 DEF Extent
  <2>8. Types => Types'
    BY <2>1 DEF Types
  <2>9. Layout => Layout'
    BY <2>1, <2>5 DEF Layout
  <2>10. SizesFit => SizesFit'
    BY <2>1, <2>4, <2>6, <2>7 DEF SizesFit
  <2>11. PositionsFit => PositionsFit'
    BY <2>1, <2>5 DEF PositionsFit
  <2>12. Synced => Synced'
    BY <2>1, <2>3, <2>6, Zenon DEF Synced
  <2>13. IoFits => IoFits'
    BY <2>1, <2>5, <2>6 DEF IoFits
  <2>14. TruncFits => TruncFits'
    BY <2>1, <2>5, <2>6 DEF TruncFits
  <2>15. (\E f \in File : Loaded(f) /\ fs.din[f].blocks = Top) =>
           (\E f \in File : Loaded(f)' /\ fs'.din[f].blocks = Top)
    BY <2>1, <2>3
  <2>16. BlocksFit => BlocksFit'
    BY <2>9, <2>10, <2>11, <2>12, <2>13, <2>14, <2>1 DEF BlocksFit
  <2> QED BY <2>1, <2>8, <2>15, <2>16 DEF SfsInv
<1>2. ASSUME NEW d \in Fd, NEW f \in File, NEW trunc \in BOOLEAN, NEW append \in BOOLEAN,
             Open(d, f, trunc, append)
      PROVE  SfsInv'
  BY <1>2, OpenStep
<1>3. ASSUME NEW d \in Fd, Close(d) PROVE SfsInv'
  BY <1>3, CloseStep
<1>4. ASSUME NEW d \in Fd, Fsync(d) PROVE SfsInv'
  BY <1>4, FsyncStep
<1>5. ASSUME NEW d \in Fd, NEW e \in Fd, Dup(d, e) PROVE SfsInv'
  BY <1>5, DupStep
<1>6. ASSUME NEW d \in Fd, NEW pos \in Positions, Seek(d, pos) PROVE SfsInv'
  BY <1>6, SeekStep
<1>7. ASSUME NEW d \in Fd, NEW n \in Lengths, Io(d, "read", n, 0) PROVE SfsInv'
  BY <1>7, IoStep
<1>8. ASSUME NEW d \in Fd, NEW n \in Lengths, Io(d, "write", n, 1) PROVE SfsInv'
  BY <1>8, IoStep
<1>9. CASE TruncateTurn
  BY <1>9, TruncateTurnStep
<1>10. CASE TruncateEnd
  BY <1>10, TruncateEndStep
<1>11. CASE IoHead
  BY <1>11, IoHeadStep
<1>12. CASE IoBody
  BY <1>12, IoBodyStep
<1>13. CASE IoTail
  BY <1>13, IoTailStep
<1>14. CASE IoOut
  BY <1>14, IoOutStep
<1> QED BY <1>1, <1>2, <1>3, <1>4, <1>5, <1>6, <1>7, <1>8, <1>9, <1>10, <1>11, <1>12, <1>13,
           <1>14, Zenon DEF Next

(* SfsInv is an invariant, the file system's blocks, inodes and the call   *)
(* in progress together, when programs truncate no file that is open       *)
(* elsewhere and seek no further than the disk has room.                   *)
THEOREM SfsInvariant ==
  ASSUME Careful
  PROVE  Spec => []SfsInv
<1>1. Init => SfsInv
  BY InitInv
<1>2. SfsInv /\ [Next]_vars => SfsInv'
  BY SfsInvStep
<1> QED BY <1>1, <1>2, PTL DEF Spec

(* The places of Where are those of BlocksExact.                           *)
LEMMA EntriesAre ==
  ASSUME Types, NEW f \in File
  PROVE  /\ DOMAIN Entries(f) = 0..(Top - 1)
         /\ \A i \in 0..(Top - 1) : i \in Idx /\ i < Top /\ Entries(f)[i] = Where[f][i]
         /\ Where[f][Top] = Din(f).indirect
<1>1. View \in Inodes /\ fs.data \in Datas /\ View[f] = Din(f)
  BY TypesAre
<1>2. 0..(Top - 1) = 0..(NDirect + BlkNEntry - 1) /\ \A i \in 0..(Top - 1) : i \in Idx /\ i < Top
  BY Consts DEF Idx
<1>3. \A i \in 0..(Top - 1) :
        Entries(f)[i] = IF i < NDirect THEN Din(f).direct[i]
                        ELSE IF Din(f).indirect = 0 THEN 0
                        ELSE fs.data[Din(f).indirect][i - NDirect]
  BY <1>2, Zenon DEF Entries
<1>4. DOMAIN Entries(f) = 0..(Top - 1)
  BY <1>2 DEF Entries
<1>5. /\ Where[f][Top] = Din(f).indirect
      /\ \A i \in Idx : i < NDirect => Where[f][i] = Din(f).direct[i]
      /\ \A i \in Idx : i >= NDirect /\ i < Top =>
           Where[f][i] = IF Din(f).indirect = 0 THEN 0
                         ELSE fs.data[Din(f).indirect][i - NDirect]
  BY <1>1, MapIs DEF Where
<1>6. \A i \in 0..(Top - 1) : i < NDirect \/ i >= NDirect
  BY Consts
<1> QED BY <1>2, <1>3, <1>4, <1>5, <1>6

(* The invariant says which blocks are in use.                             *)
LEMMA ExactMeans ==
  ASSUME SfsInv
  PROVE  BlocksExact
<1>1. Types /\ TypeOK
  BY DEF SfsInv, Types, TypeOK, FsType, CallType
<1> SUFFICES ASSUME call = None, fs.oops = "no"
             PROVE  LET places == {<<f, i>> : f \in File, i \in 0..(NDirect + BlkNEntry)}
                        at(p) == IF p[2] = NDirect + BlkNEntry THEN Din(p[1]).indirect
                                                             ELSE Entries(p[1])[p[2]]
                        used == {p \in places : at(p) # 0}
                    IN  /\ \A p, q \in used : at(p) = at(q) => p = q
                        /\ {at(p) : p \in used} = Blk \ fs.freemap
                        /\ fs.unused = Cardinality(fs.freemap)
                        /\ \A f \in File :
                             /\ Din(f).blocks = Blocks(Din(f).size)
                             /\ \A i \in DOMAIN Entries(f) :
                                  i < Din(f).blocks <=> Entries(f)[i] # 0
  BY <1>1 DEF BlocksExact
<1> DEFINE places == {<<f, i>> : f \in File, i \in 0..(NDirect + BlkNEntry)}
           at(p) == IF p[2] = NDirect + BlkNEntry THEN Din(p[1]).indirect
                                                ELSE Entries(p[1])[p[2]]
           used == {p \in places : at(p) # 0}
<1>2. Layout /\ Plain
  <2>1. Quiet
    BY QuietIs DEF Ready
  <2> QED BY <2>1 DEF Quiet
<1>3. 0..(NDirect + BlkNEntry) = Idx /\ Top = NDirect + BlkNEntry
  BY DEF Idx, Top
<1>4. ASSUME NEW f \in File, NEW i \in Idx
      PROVE  at(<<f, i>>) = Where[f][i]
  <2>1. CASE i = Top
    <3>1. at(<<f, i>>) = Din(f).indirect
      BY <1>3, <2>1
    <3> QED BY <1>1, <2>1, <3>1, EntriesAre
  <2>2. CASE i # Top
    <3>1. at(<<f, i>>) = Entries(f)[i]
      BY <1>3, <2>2
    <3>2. i \in 0..(Top - 1)
      BY <2>2, Consts DEF Idx
    <3> QED BY <1>1, <3>1, <3>2, EntriesAre
  <2> QED BY <2>1, <2>2
<1>5. /\ Where \in [File -> [Idx -> {0} \cup Blk]]
      /\ \A f, g \in File : \A i, j \in Idx :
           Where[f][i] # 0 /\ Where[f][i] = Where[g][j] => f = g /\ i = j
      /\ \A f \in File : \A i \in Idx : Where[f][i] \notin fs.freemap
      /\ \A b \in Blk \ fs.freemap : \E f \in File : \E i \in Idx : Where[f][i] = b
  BY <1>2 DEF Layout, Exact
<1>6. \A p \in places : \E f \in File : \E i \in Idx : p = <<f, i>>
  <2> SUFFICES ASSUME NEW p \in places
               PROVE  \E f \in File : \E i \in Idx : p = <<f, i>>
    OBVIOUS
  <2>1. PICK f \in File, i \in 0..(NDirect + BlkNEntry) : p = <<f, i>>
    OBVIOUS
  <2>2. i \in Idx
    BY ONLY i \in 0..(NDirect + BlkNEntry) DEF Idx, Top
  <2> QED BY <2>1, <2>2
<1>7. \A f \in File : \A i \in Idx : <<f, i>> \in places
  <2> SUFFICES ASSUME NEW f \in File, NEW i \in Idx
               PROVE  <<f, i>> \in places
    OBVIOUS
  <2>1. i \in 0..(NDirect + BlkNEntry)
    BY ONLY i \in Idx DEF Idx, Top
  <2> QED BY <2>1
<1> HIDE DEF places, at
<1>8. \A p, q \in used : at(p) = at(q) => p = q
  <2> SUFFICES ASSUME NEW p \in used, NEW q \in used, at(p) = at(q) PROVE p = q
    OBVIOUS
  <2>1. p \in places /\ q \in places /\ at(p) # 0
    OBVIOUS
  <2>2. PICK f \in File, i \in Idx : p = <<f, i>>
    BY <1>6, <2>1
  <2>3. PICK g \in File, j \in Idx : q = <<g, j>>
    BY <1>6, <2>1
  <2>4. Where[f][i] # 0 /\ Where[f][i] = Where[g][j]
    BY <1>4, <2>1, <2>2, <2>3
  <2> QED BY <1>5, <2>2, <2>3, <2>4
<1>9. {at(p) : p \in used} = Blk \ fs.freemap
  <2>1. ASSUME NEW p \in used PROVE at(p) \in Blk \ fs.freemap
    <3>1. p \in places /\ at(p) # 0
      BY <2>1
    <3>2. PICK f \in File, i \in Idx : p = <<f, i>>
      BY <1>6, <3>1
    <3>3. at(p) = Where[f][i]
      BY <1>4, <3>2
    <3>4. Where[f][i] \in {0} \cup Blk /\ Where[f][i] \notin fs.freemap
      BY <1>5
    <3> QED BY <3>1, <3>3, <3>4
  <2>2. ASSUME NEW b \in Blk \ fs.freemap PROVE b \in {at(p) : p \in used}
    <3>1. PICK f \in File, i \in Idx : Where[f][i] = b
      BY <1>5
    <3>2. at(<<f, i>>) = b /\ <<f, i>> \in places /\ b # 0
      BY <1>4, <1>7, <3>1, Consts
    <3>3. <<f, i>> \in used
      BY <3>2
    <3> QED BY <3>2, <3>3
  <2> QED BY <2>1, <2>2
<1>10. fs.unused = Cardinality(fs.freemap)
  BY <1>2 DEF Layout
<1>11. ASSUME NEW f \in File
       PROVE  /\ Din(f).blocks = Blocks(Din(f).size)
              /\ \A i \in DOMAIN Entries(f) : i < Din(f).blocks <=> Entries(f)[i] # 0
  <2>1. Din(f).blocks = Blocks(Din(f).size)
    BY <1>2 DEF Plain
  <2>2. \A i \in Idx : i < Top => (i < Din(f).blocks <=> Where[f][i] # 0)
    BY <1>1, <1>2, TypesAre DEF Layout, Filled
  <2> QED BY <1>1, <2>1, <2>2, EntriesAre
<1> QED BY <1>8, <1>9, <1>10, <1>11 DEF places, at

(* Between two calls every block is free or at exactly one place of one    *)
(* file, a file has the blocks for its size and no others, and             *)
(* unused_blocks counts the free ones, whatever the sizes of the disk, of  *)
(* a block and of an inode: errors in the middle of a write, which leave   *)
(* or give back what they had, the indirect block, the write-back of       *)
(* inodes and the cut of a file included.                                  *)
THEOREM BlocksCorrect ==
  ASSUME Careful
  PROVE  Spec => []BlocksExact
BY SfsInvariant, ExactMeans, PTL

(* Whatever the largest size is, the assert that finds a hole in a file    *)
(* never fails: a read or write asks for the block behind the last one at  *)
(* most.                                                                   *)
THEOREM NoHoles ==
  ASSUME Careful
  PROVE  Spec => []NoHole
<1>1. SfsInv => NoHole
  BY DEF SfsInv, NoHole
<1> QED BY <1>1, SfsInvariant, PTL

-----------------------------------------------------------------------------
(* The bytes of the files.                                                 *)

(* A step that puts v at the offsets lo to hi - 1 of f, leaves the other   *)
(* bytes that have a block alone, and clears the blocks that are new.      *)
Rewrites(f, lo, hi, v) ==
  \A g \in File : \A k \in Nat :
    k < BlkSize * View'[g].blocks =>
      Byte(g, k)' = IF g = f /\ lo <= k /\ k < hi THEN v
                    ELSE IF k < BlkSize * View[g].blocks THEN Byte(g, k) ELSE 0

(* The block of an offset.                                                 *)
LEMMA PlaceOf ==
  ASSUME Types, Layout, NEW f \in File, NEW k \in Nat, k < BlkSize * View[f].blocks
  PROVE  /\ k \div BlkSize \in Idx /\ k \div BlkSize < Top
         /\ k \div BlkSize < View[f].blocks /\ k % BlkSize \in Cell
         /\ Where[f][k \div BlkSize] \in Blk \ fs.freemap
         /\ \A g \in File : Where[f][k \div BlkSize] # View[g].indirect
<1>1. PICK i : i = k \div BlkSize
  OBVIOUS
<1>2. PICK n : n = View[f].blocks
  OBVIOUS
<1>3. n \in 0..Top /\ \A j \in Idx : j < Top => (j < n <=> Where[f][j] # 0)
  BY <1>2 DEF Layout, Filled
<1>4. i \in Nat /\ k % BlkSize \in Cell /\ BlkSize * i <= k
  BY <1>1, DivMod, Consts DEF Cell
<1>5. i < n
  <2>1. BlkSize * i \in Nat /\ BlkSize * n \in Nat
    BY <1>3, <1>4, Consts
  <2>2. BlkSize * i < BlkSize * n
    BY <1>2, <1>4, <2>1
  <2> QED BY <1>3, <1>4, <2>2, MultLess
<1>6. i \in Idx /\ i < Top
  BY <1>3, <1>4, <1>5, Consts DEF Idx
<1>7. Where[f][i] # 0
  BY <1>3, <1>5, <1>6
<1>8. /\ Where \in [File -> [Idx -> {0} \cup Blk]]
      /\ \A g, h \in File : \A j, l \in Idx :
           Where[g][j] # 0 /\ Where[g][j] = Where[h][l] => g = h /\ j = l
      /\ \A g \in File : \A j \in Idx : Where[g][j] \notin fs.freemap
  BY DEF Layout, Exact
<1>9. Where[f][i] \in Blk \ fs.freemap
  BY <1>6, <1>7, <1>8
<1>10. \A g \in File : Where[g][Top] = View[g].indirect
  BY TypesAre, MapIs DEF Where
<1>11. Top \in Idx /\ i # Top
  BY <1>6, Consts DEF Idx
<1>12. \A g \in File : Where[f][i] # View[g].indirect
  BY <1>6, <1>7, <1>8, <1>10, <1>11
<1> QED BY <1>1, <1>2, <1>4, <1>5, <1>6, <1>9, <1>12

(* A byte whose block stays where it is and is not written.                *)
LEMMA ByteStays ==
  ASSUME NEW g, NEW k, NEW i, i = k \div BlkSize, NEW c, c = Where[g][i], Where'[g][i] = c,
         fs'.data[c] = fs.data[c]
  PROVE  Byte(g, k)' = Byte(g, k)
BY DEF Byte

(* Files that are what they were keep their bytes.                         *)
LEMMA SameBytes ==
  ASSUME SameFiles
  PROVE  /\ Where' = Where /\ \A g, k : Byte(g, k)' = Byte(g, k)
         /\ \A f : Rewrites(f, 0, 0, 0)
<1>1. Where' = Where /\ fs'.data = fs.data /\ View' = View
  BY DEF SameFiles, Where
<1>2. \A g, k : Byte(g, k)' = Byte(g, k)
  BY <1>1 DEF Byte
<1>3. \A k \in Nat : ~(0 <= k /\ k < 0)
  OBVIOUS
<1> QED BY <1>1, <1>2, <1>3 DEF Rewrites

(* A file system of which only blocks that nobody uses have changed.       *)
LEMMA KeptBytes ==
  ASSUME Types, Layout, fs.oops = "no", NEW f \in File, Kept(fs, f, fs'),
         Good(fs, View, f), View' = View
  PROVE  /\ \A g \in File : \A k \in Nat :
              k < BlkSize * View[g].blocks => Byte(g, k)' = Byte(g, k)
         /\ Rewrites(f, 0, 0, 0)
<1>1. Where' = Where
  BY KeptMap DEF Where
<1>2. \A c \in Blk \ fs.freemap : fs'.data[c] = fs.data[c]
  BY DEF Kept
<1>3. ASSUME NEW g \in File, NEW k \in Nat, k < BlkSize * View[g].blocks
      PROVE  Byte(g, k)' = Byte(g, k)
  <2>1. Where[g][k \div BlkSize] \in Blk \ fs.freemap
    BY <1>3, PlaceOf
  <2> QED BY <1>1, <1>2, <2>1, ByteStays
<1>4. \A k \in Nat : ~(0 <= k /\ k < 0)
  OBVIOUS
<1> QED BY <1>3, <1>4 DEF Rewrites

(* A block more, which is empty.                                           *)
LEMMA GrownBytes ==
  ASSUME SfsInv, fs.oops = "no", NEW f, Good(fs, View, f), NEW b, Grown(fs, View, f, fs', b),
         Follows(View', View, f, fs'.din[f])
  PROVE  Rewrites(f, 0, 0, 0)
<1>1. Types /\ Layout
  BY DEF SfsInv, BlocksFit
<1>2. /\ f \in File /\ View[f] = fs.din[f] /\ fs.din[f].blocks \in Nat
  BY GoodIs, Consts DEF Good
<1>3. /\ fs'.din[f].blocks = fs.din[f].blocks + 1 /\ fs'.data[b] = ZeroBlock
      /\ \A c \in Blk \ fs.freemap :
           (\A g \in File : c # View[g].indirect) => fs'.data[c] = fs.data[c]
  BY DEF Grown
<1>4. View'[f] = fs'.din[f] /\ \A g \in File \ {f} : View'[g] = View[g]
  BY DEF Follows
<1>5. GrownMap(fs, View, f, fs', b, View')
  BY DEF Grown
<1>6. /\ Where'[f][View[f].blocks] = b
      /\ \A g \in File : \A i \in Idx :
           i < Top /\ ~(g = f /\ i = View[f].blocks) => Where'[g][i] = Where[g][i]
  BY <1>2, <1>5 DEF GrownMap, Where
<1> SUFFICES ASSUME NEW g \in File, NEW k \in Nat, k < BlkSize * View'[g].blocks
             PROVE  Byte(g, k)' = IF k < BlkSize * View[g].blocks THEN Byte(g, k) ELSE 0
  <2>1. \A k \in Nat : ~(0 <= k /\ k < 0)
    OBVIOUS
  <2> QED BY <2>1 DEF Rewrites
<1>7. PICK i : i = k \div BlkSize
  OBVIOUS
<1>8. CASE k < BlkSize * View[g].blocks
  <2>1. PICK c : c = Where[g][i]
    OBVIOUS
  <2>2. /\ i \in Idx /\ i < Top /\ i < View[g].blocks /\ c \in Blk \ fs.freemap
        /\ \A h \in File : c # View[h].indirect
    BY <1>1, <1>7, <1>8, <2>1, PlaceOf
  <2>3. ~(g = f /\ i = View[f].blocks)
    BY <1>2, <2>2
  <2>4. Where'[g][i] = c
    BY <1>6, <2>1, <2>2, <2>3
  <2>5. fs'.data[c] = fs.data[c]
    BY <1>3, <2>2
  <2> QED BY <1>7, <1>8, <2>1, <2>4, <2>5, ByteStays
<1>9. CASE ~(k < BlkSize * View[g].blocks)
  <2>1. g = f
    BY <1>4, <1>9
  <2>2. PICK n : n = View[f].blocks
    OBVIOUS
  <2>3. n \in Nat /\ View'[f].blocks = n + 1
    BY <1>2, <1>3, <1>4, <2>2
  <2>4. BlkSize * n <= k /\ k < BlkSize * n + BlkSize
    <3>1. BlkSize * (n + 1) = BlkSize * n + BlkSize /\ BlkSize * n \in Nat
      BY <2>3, Consts
    <3> QED BY <1>9, <2>1, <2>2, <2>3, <3>1
  <2>5. i = n
    BY <1>7, <2>3, <2>4, DivIs
  <2>6. Where'[g][i] = b
    BY <1>6, <2>1, <2>2, <2>5
  <2>7. k % BlkSize \in Cell
    BY DivMod
  <2>8. ZeroBlock[k % BlkSize] = 0
    BY <2>7 DEF ZeroBlock
  <2>9. Byte(g, k)' = fs'.data[b][k % BlkSize]
    BY <1>7, <2>6 DEF Byte
  <2> QED BY <1>3, <1>9, <2>8, <2>9
<1> QED BY <1>8, <1>9

(* A block less.                                                           *)
LEMMA ShrunkBytes ==
  ASSUME SfsInv, fs.oops = "no", NEW f, Good(fs, View, f), NEW n, Shrunk(fs, View, f, fs', n),
         Follows(View', View, f, fs'.din[f])
  PROVE  Rewrites(f, 0, 0, 0)
<1>1. Types /\ Layout
  BY DEF SfsInv, BlocksFit
<1>2. f \in File /\ View[f] = fs.din[f]
  BY DEF Good
<1>3. /\ n \in Nat /\ fs.din[f].blocks = n + 1 /\ fs'.din[f].blocks = n
      /\ \A c \in Blk : (\A g \in File : c # View[g].indirect) => fs'.data[c] = fs.data[c]
  BY DEF Shrunk
<1>4. View'[f] = fs'.din[f] /\ \A g \in File \ {f} : View'[g] = View[g]
  BY DEF Follows
<1>5. ShrunkMap(fs, View, f, fs', n, View')
  BY DEF Shrunk
<1>6. \A g \in File : \A i \in Idx :
        i < Top /\ ~(g = f /\ i = n) => Where'[g][i] = Where[g][i]
  BY <1>5 DEF ShrunkMap, Where
<1> SUFFICES ASSUME NEW g \in File, NEW k \in Nat, k < BlkSize * View'[g].blocks
             PROVE  k < BlkSize * View[g].blocks /\ Byte(g, k)' = Byte(g, k)
  <2>1. \A k \in Nat : ~(0 <= k /\ k < 0)
    OBVIOUS
  <2> QED BY <2>1 DEF Rewrites
<1>7. PICK i : i = k \div BlkSize
  OBVIOUS
<1>8. k < BlkSize * View[g].blocks
  <2>1. CASE g = f
    <3>1. BlkSize * (n + 1) = BlkSize * n + BlkSize /\ BlkSize * n \in Nat
      BY <1>3, Consts
    <3>2. k < BlkSize * n
      BY <1>3, <1>4, <2>1
    <3>3. k < BlkSize * (n + 1)
      BY <3>1, <3>2, Consts
    <3> QED BY <1>2, <1>3, <2>1, <3>3
  <2>2. CASE g # f
    BY <1>4, <2>2
  <2> QED BY <2>1, <2>2
<1>9. PICK c : c = Where[g][i]
  OBVIOUS
<1>10. /\ i \in Idx /\ i < Top /\ c \in Blk \ fs.freemap
       /\ \A h \in File : c # View[h].indirect
  BY <1>1, <1>7, <1>8, <1>9, PlaceOf
<1>11. ~(g = f /\ i = n)
  <2> SUFFICES ASSUME g = f, i = n PROVE FALSE
    OBVIOUS
  <2>1. k < BlkSize * n /\ BlkSize * n \in Nat
    BY <1>3, <1>4, Consts
  <2>2. BlkSize * i <= k
    BY <1>7, DivMod, Consts DEF Cell
  <2> QED BY <2>1, <2>2
<1>12. Where'[g][i] = c
  BY <1>6, <1>9, <1>10, <1>11
<1>13. fs'.data[c] = fs.data[c]
  BY <1>3, <1>10
<1> QED BY <1>7, <1>8, <1>9, <1>12, <1>13, ByteStays

(* The contents of the blocks after a part of a read or write.             *)
LEMMA StoredData ==
  ASSUME SfsInv, InIo, fs.oops = "no", NEW f, f = Target, NEW W, NEW b, Found(f, W, b),
         NEW blkoff, NEW sz, NEW X, X = Stored(W, b, blkoff, sz)
  PROVE  /\ \A c \in Blk \ fs.freemap :
              c # b /\ (\A g \in File : c # View[g].indirect) => X.data[c] = fs.data[c]
         /\ call.op # "write" => X = fs /\ call.blkno < fs.din[f].blocks
         /\ call.blkno < fs.din[f].blocks => b = Where[f][call.blkno]
         /\ call.op = "write" =>
              X.data[b] = Overwritten(IF call.blkno < fs.din[f].blocks THEN fs.data[b]
                                                                       ELSE ZeroBlock,
                                      blkoff..(blkoff + sz - 1), call.byte)
<1>1. /\ Types /\ Layout /\ f \in File /\ Good(fs, View, f) /\ call.byte \in Nat
      /\ fs.freemap \subseteq Blk /\ fs.din[f].blocks \in Nat
  BY InCallIo, TypesAre
<1>2. PICK cells : cells = blkoff..(blkoff + sz - 1)
  OBVIOUS
<1>3. call.op = "write" => X = Put(W, b, cells, call.byte)
  BY <1>2, Zenon DEF Stored
<1>4. CASE /\ call.blkno < fs.din[f].blocks /\ call.blkno \in Idx /\ call.blkno < Top
           /\ W = fs /\ b = Where[f][call.blkno] /\ b \in Blk /\ b # 0
  <2>1. CASE call.op = "write"
    <3>1. Sound(fs)
      BY <1>1 DEF Good
    <3>2. /\ Put(fs, b, cells, call.byte).data[b] = Overwritten(fs.data[b], cells, call.byte)
          /\ \A c \in Blk \ {b} : Put(fs, b, cells, call.byte).data[c] = fs.data[c]
      BY <1>1, <1>4, <3>1, PutIs
    <3>3. X = Put(fs, b, cells, call.byte)
      BY <1>3, <1>4, <2>1, Zenon
    <3>4. /\ X.data[b] = Overwritten(fs.data[b], cells, call.byte)
          /\ \A c \in Blk \ {b} : X.data[c] = fs.data[c]
      BY <3>2, <3>3, Zenon
    <3>5. \A c \in Blk \ fs.freemap : c # b => X.data[c] = fs.data[c]
      BY <3>4
    <3> QED BY <1>2, <1>4, <2>1, <3>4, <3>5, Zenon
  <2>2. CASE call.op # "write"
    <3>1. X = fs
      BY <1>4, <2>2, Zenon DEF Stored
    <3> QED BY <1>4, <2>2, <3>1, Zenon
  <2> QED BY <2>1, <2>2
<1>5. CASE call.op = "write" /\ call.blkno = fs.din[f].blocks /\ Grown(fs, View, f, W, b)
  <2>1. /\ Sound(W) /\ b \in fs.freemap /\ W.data[b] = ZeroBlock
        /\ \A c \in Blk \ fs.freemap :
             (\A g \in File : c # View[g].indirect) => W.data[c] = fs.data[c]
    BY <1>5 DEF Grown
  <2>2. b \in Blk
    BY <1>1, <2>1
  <2>3. /\ Put(W, b, cells, call.byte).data[b] = Overwritten(W.data[b], cells, call.byte)
        /\ \A c \in Blk \ {b} : Put(W, b, cells, call.byte).data[c] = W.data[c]
    BY <1>1, <2>1, <2>2, PutIs
  <2>4. /\ X.data[b] = Overwritten(ZeroBlock, cells, call.byte)
        /\ \A c \in Blk \ {b} : X.data[c] = W.data[c]
    BY <1>3, <1>5, <2>1, <2>3, Zenon
  <2>5. ~(call.blkno < fs.din[f].blocks)
    BY <1>1, <1>5
  <2>6. \A c \in Blk \ fs.freemap :
          c # b /\ (\A g \in File : c # View[g].indirect) => X.data[c] = fs.data[c]
    BY <2>1, <2>4
  <2> QED BY <1>2, <1>5, <2>4, <2>5, <2>6, Zenon
<1> QED BY <1>4, <1>5, Zenon DEF Found

(* The bytes after a part of a write: the part, and nothing else ...       *)
LEMMA WriteBytes ==
  ASSUME SfsInv, fs.oops = "no", NEW blkoff, NEW sz, Part(blkoff, sz), call.op = "write",
         NEW f, f = Target, NEW W, NEW b, Found(f, W, b), fs' = Stored(W, b, blkoff, sz),
         Follows(View', View, f, fs'.din[f])
  PROVE  Rewrites(f, Reach, Reach + sz, call.byte)
<1>1. /\ InIo /\ blkoff \in Nat /\ blkoff \in Cell /\ sz \in Nat /\ sz # 0
      /\ blkoff + sz <= BlkSize /\ Reach = BlkSize * call.blkno + blkoff
  BY Consts DEF Part
<1>2. /\ Types /\ Layout /\ f \in File /\ View[f] = fs.din[f] /\ call.blkno \in Nat
      /\ Reach \in Nat /\ fs.din[f].blocks \in Nat /\ call.byte \in Nat
  BY <1>1, InCallIo
<1>3. /\ call.blkno < fs.din[f].blocks => fs'.din = fs.din
      /\ ~(call.blkno < fs.din[f].blocks) =>
           fs'.din[f].blocks = call.blkno + 1 /\ call.blkno = fs.din[f].blocks
      /\ StoredMap(f, b, View', fs'.data, fs'.freemap)
  BY <1>1, StoredIs
<1>4. /\ Exact(Where', fs'.freemap) /\ call.blkno \in Idx /\ call.blkno < Top
      /\ Where'[f][call.blkno] = b
      /\ \A g \in File : \A i \in Idx :
           i < Top /\ ~(g = f /\ i = call.blkno) => Where'[g][i] = Where[g][i]
  BY <1>3 DEF StoredMap, Where
<1>5. /\ \A c \in Blk \ fs.freemap :
           c # b /\ (\A g \in File : c # View[g].indirect) => fs'.data[c] = fs.data[c]
      /\ call.blkno < fs.din[f].blocks => b = Where[f][call.blkno]
      /\ fs'.data[b] = Overwritten(IF call.blkno < fs.din[f].blocks THEN fs.data[b]
                                                                    ELSE ZeroBlock,
                                   blkoff..(blkoff + sz - 1), call.byte)
  BY <1>1, StoredData
<1>6. View'[f] = fs'.din[f] /\ \A g \in File \ {f} : View'[g] = View[g]
  BY DEF Follows
<1> SUFFICES ASSUME NEW g \in File, NEW k \in Nat, k < BlkSize * View'[g].blocks
             PROVE  Byte(g, k)' = IF g = f /\ Reach <= k /\ k < Reach + sz THEN call.byte
                                  ELSE IF k < BlkSize * View[g].blocks THEN Byte(g, k) ELSE 0
  BY DEF Rewrites
<1>7. PICK i, r : i = k \div BlkSize /\ r = k % BlkSize
  OBVIOUS
<1>8. k = BlkSize * i + r /\ r \in Cell /\ i \in Nat /\ r \in Nat /\ r < BlkSize
  BY <1>7, DivMod, Consts DEF Cell
<1>9. CASE g = f /\ i = call.blkno
  <2>1. Byte(g, k)' = fs'.data[b][r]
    BY <1>4, <1>7, <1>9 DEF Byte
  <2>2. r \in blkoff..(blkoff + sz - 1) <=> Reach <= k /\ k < Reach + sz
    <3>1. PICK t : t = BlkSize * call.blkno
      OBVIOUS
    <3>2. t \in Nat /\ Reach = t + blkoff /\ k = t + r
      BY <1>1, <1>2, <1>8, <1>9, <3>1, Consts
    <3> QED BY <1>1, <1>8, <3>2
  <2>3. PICK Y : Y = IF call.blkno < fs.din[f].blocks THEN fs.data[b] ELSE ZeroBlock
    OBVIOUS
  <2>4. fs'.data[b][r] = IF r \in blkoff..(blkoff + sz - 1) THEN call.byte ELSE Y[r]
    <3>1. fs'.data[b] = Overwritten(Y, blkoff..(blkoff + sz - 1), call.byte)
      BY <1>5, <2>3, Zenon
    <3>2. Overwritten(Y, blkoff..(blkoff + sz - 1), call.byte)[r]
            = IF r \in blkoff..(blkoff + sz - 1) THEN call.byte ELSE Y[r]
      BY <1>8, Zenon DEF Overwritten
    <3> QED BY <3>1, <3>2, Zenon
  <2>5. Y[r] = IF k < BlkSize * View[g].blocks THEN Byte(g, k) ELSE 0
    <3>1. CASE call.blkno < fs.din[f].blocks
      <4>1. Y[r] = Byte(g, k)
        BY <1>5, <1>7, <1>9, <2>3, <3>1 DEF Byte
      <4>2. View'[g] = View[g]
        BY <1>2, <1>3, <1>6, <1>9, <3>1
      <4> QED BY <4>1, <4>2
    <3>2. CASE ~(call.blkno < fs.din[f].blocks)
      <4>1. call.blkno = View[f].blocks /\ Y = ZeroBlock
        BY <1>2, <1>3, <2>3, <3>2
      <4>2. ~(k < BlkSize * View[g].blocks)
        <5>1. PICK t : t = BlkSize * call.blkno
          OBVIOUS
        <5>2. t \in Nat /\ k = t + r
          BY <1>2, <1>8, <1>9, <5>1, Consts
        <5>3. ~(k < t)
          BY <1>8, <5>2
        <5> QED BY <1>9, <4>1, <5>1, <5>3
      <4>3. Y[r] = 0
        BY <1>8, <4>1 DEF ZeroBlock
      <4> QED BY <4>2, <4>3
    <3> QED BY <3>1, <3>2
  <2> QED BY <1>9, <2>1, <2>2, <2>4, <2>5
<1>10. CASE ~(g = f /\ i = call.blkno)
  <2>1. ~(g = f /\ Reach <= k /\ k < Reach + sz)
    <3> SUFFICES ASSUME g = f, Reach <= k, k < Reach + sz PROVE FALSE
      OBVIOUS
    <3>1. BlkSize * call.blkno <= k /\ k < BlkSize * call.blkno + BlkSize
      <4>1. PICK t : t = BlkSize * call.blkno
        OBVIOUS
      <4>2. t \in Nat /\ Reach = t + blkoff
        BY <1>1, <1>2, <4>1, Consts
      <4>3. t <= k /\ k < t + BlkSize
        BY <1>1, <1>2, <4>2, Consts
      <4> QED BY <4>1, <4>3
    <3>2. k \div BlkSize = call.blkno
      BY <1>2, <3>1, DivIs
    <3> QED BY <1>7, <1>10, <3>2
  <2>2. i < View'[g].blocks
    <3>1. PICK n : n = View'[g].blocks
      OBVIOUS
    <3>2. n \in Nat
      <4>1. View' \in Inodes
        BY DEF Follows
      <4> QED BY <3>1, <4>1 DEF Inodes, Inode
    <3>3. PICK t, u : t = BlkSize * i /\ u = BlkSize * n
      OBVIOUS
    <3>4. t \in Nat /\ u \in Nat /\ t < u
      BY <1>8, <3>1, <3>2, <3>3, Consts
    <3> QED BY <1>8, <3>1, <3>2, <3>3, <3>4, MultLess
  <2>3. i < View[g].blocks
    <3>1. CASE g # f
      BY <1>6, <2>2, <3>1
    <3>2. CASE g = f /\ call.blkno < fs.din[f].blocks
      BY <1>2, <1>3, <1>6, <2>2, <3>2
    <3>3. CASE g = f /\ ~(call.blkno < fs.din[f].blocks)
      BY <1>2, <1>3, <1>6, <1>8, <1>10, <2>2, <3>3
    <3> QED BY <3>1, <3>2, <3>3
  <2>4. k < BlkSize * View[g].blocks
    <3>1. PICK n : n = View[g].blocks
      OBVIOUS
    <3>2. n \in Nat
      BY <1>2, <3>1, TypesAre
    <3>3. BlkSize * i + BlkSize <= BlkSize * n
      BY <1>8, <2>3, <3>1, <3>2, MultLess
    <3>4. PICK t, u : t = BlkSize * i /\ u = BlkSize * n
      OBVIOUS
    <3>5. t \in Nat /\ u \in Nat /\ k < u
      BY <1>8, <3>2, <3>3, <3>4, Consts
    <3> QED BY <3>1, <3>4, <3>5
  <2>5. PICK c : c = Where[g][i]
    OBVIOUS
  <2>6. i \in Idx /\ i < Top /\ c \in Blk \ fs.freemap /\ \A h \in File : c # View[h].indirect
    BY <1>2, <1>7, <2>4, <2>5, PlaceOf
  <2>7. Where'[g][i] = c
    BY <1>4, <1>10, <2>5, <2>6
  <2>8. c # b
    <3>1. c # 0
      BY <2>6, Consts
    <3>2. \A h, m \in File : \A j, l \in Idx :
            Where'[h][j] # 0 /\ Where'[h][j] = Where'[m][l] => h = m /\ j = l
      BY <1>4 DEF Exact
    <3> QED BY <1>2, <1>4, <1>10, <2>6, <2>7, <3>1, <3>2
  <2>9. fs'.data[c] = fs.data[c]
    BY <1>5, <2>6, <2>8
  <2>10. Byte(g, k)' = Byte(g, k)
    BY <1>7, <2>5, <2>7, <2>9, ByteStays
  <2> QED BY <2>1, <2>4, <2>10
<1> QED BY <1>9, <1>10

(* ... and those that a part of a read copies.                             *)
LEMMA ReadBytes ==
  ASSUME SfsInv, fs.oops = "no", NEW blkoff, NEW sz, Part(blkoff, sz),
         NEW f, f = Target, NEW b, b = Where[f][call.blkno],
         NEW j \in 1..sz
  PROVE  Bytes(b, blkoff, sz)[j] = Byte(f, Reach + j - 1)
<1>1. /\ InIo /\ blkoff \in Nat /\ sz \in Nat /\ sz # 0
      /\ blkoff + sz <= BlkSize /\ Reach = BlkSize * call.blkno + blkoff
  BY Consts DEF Part
<1>2. call.blkno \in Nat /\ Reach \in Nat
  BY <1>1, InCallIo
<1>3. PICK t, k : t = BlkSize * call.blkno /\ k = Reach + j - 1
  OBVIOUS
<1>4. t \in Nat /\ k \in Nat /\ k = t + (blkoff + j - 1) /\ t <= k /\ k < t + BlkSize
  BY <1>1, <1>2, <1>3, Consts
<1>5. k \div BlkSize = call.blkno /\ k % BlkSize = k - t
  BY <1>2, <1>3, <1>4, DivIs
<1>6. k % BlkSize = blkoff + j - 1
  BY <1>1, <1>4, <1>5
<1>7. Bytes(b, blkoff, sz)[j] = fs.data[b][blkoff + j - 1]
  BY DEF Bytes
<1> QED BY <1>3, <1>5, <1>6, <1>7 DEF Byte

-----------------------------------------------------------------------------
(* How the bytes of a file are kept.                                       *)

(* The lengths of a file, and the blocks that it has for them.             *)
LengthsFit(g) ==
  /\ Size(g) \in Nat /\ Size(g) <= MaxFileSize /\ Size(g) <= BlkSize * View[g].blocks
  /\ Extent(g) \in Nat /\ View[g].size <= Extent(g) /\ View[g].size \in Nat
  /\ View[g].blocks \in Nat
  /\ ~(call.step = "trunc" /\ Target = g) =>
       Extent(g) <= BlkSize * View[g].blocks /\ Size(g) = View[g].size
  /\ call.op = "open" /\ Target = g => Size(g) = 0
  /\ ~(call.op = "open" /\ Target = g) => Size(g) = View[g].size

(* A file has the blocks that its length needs, in this state ...          *)
LEMMA LengthsNow ==
  SfsInv /\ fs.oops = "no" => \A g \in File : LengthsFit(g)
<1> SUFFICES ASSUME SfsInv, fs.oops = "no", NEW g \in File
             PROVE  LengthsFit(g)
  OBVIOUS
<1>1. /\ Types /\ SizesFit /\ IoFits /\ TruncFits /\ (call.step = "none" => call = None)
  BY DEF SfsInv, BlocksFit
<1>2. /\ View[g] = Din(g) /\ View[g].size \in Nat /\ View[g].blocks \in Nat
      /\ call \in CallType
  BY <1>1, TypesAre DEF Types
<1>3. View[g].size <= MaxFileSize
  BY <1>1, <1>2 DEF SizesFit
<1>4. InIo => Reach \in Nat
  BY InCallIo
<1>5. Extent(g) \in Nat /\ View[g].size <= Extent(g)
  BY <1>2, <1>4 DEF Extent, Larger
<1>6. call.op = "open" => call.step = "trunc"
  <2>1. call.step \in {"none", "head", "body", "tail", "out", "trunc"}
    BY <1>2 DEF CallType
  <2>2. InIo => call.op \in {"read", "write"}
    BY <1>1 DEF IoFits
  <2> QED BY <1>1, <2>1, <2>2, NoneType DEF InIo
<1>7. /\ call.op = "open" /\ Target = g => Size(g) = 0
      /\ ~(call.op = "open" /\ Target = g) => Size(g) = View[g].size
  BY <1>2 DEF Size, Target
<1>8. PICK t : t = BlkSize * View[g].blocks
  OBVIOUS
<1>9. t \in Nat
  BY <1>2, <1>8, Consts
<1>10. ~(call.step = "trunc" /\ Target = g) => Extent(g) <= t
  <2> SUFFICES ASSUME ~(call.step = "trunc" /\ Target = g) PROVE Extent(g) <= t
    OBVIOUS
  <2>1. View[g].blocks = Blocks(Extent(g))
    BY <1>1, <1>2 DEF SizesFit
  <2> QED BY <1>5, <1>8, <2>1, BlocksIs
<1>11. Size(g) <= t
  <2>1. CASE ~(call.step = "trunc" /\ Target = g)
    BY <1>2, <1>5, <1>6, <1>7, <1>9, <1>10, <2>1
  <2>2. CASE call.op = "open" /\ Target = g
    BY <1>7, <1>9, <2>2
  <2>3. CASE call.step = "trunc" /\ Target = g /\ call.op # "open"
    <3>1. View[g].blocks >= Blocks(View[g].size)
      BY <1>1, <2>3 DEF TruncFits
    <3>2. View[g].size <= BlkSize * View[g].blocks
      BY <1>2, <3>1, BlocksIs
    <3> QED BY <1>7, <1>8, <2>3, <3>2
  <2> QED BY <2>1, <2>2, <2>3
<1>12. Size(g) \in Nat /\ Size(g) <= MaxFileSize
  BY <1>2, <1>3, <1>7, Consts
<1> QED BY <1>2, <1>5, <1>6, <1>7, <1>8, <1>10, <1>11, <1>12 DEF LengthsFit

(* ... and in the next one.                                                *)
LEMMA LengthsThen ==
  (SfsInv /\ fs.oops = "no" => \A g \in File : LengthsFit(g))'
BY LengthsNow, PTL

(* No file gets shorter, unless it has lost its blocks.                    *)
Extends == \A g \in File : Extent(g) <= Extent(g)' \/ View'[g].blocks = 0

(* Behind the ends of the files there are zeros, then as before.           *)
LEMMA ZeroStep ==
  ASSUME SfsInv, fs.oops = "no", SfsInv', fs'.oops = "no", ZeroBehind, Extends,
         NEW f, NEW lo \in Nat, NEW hi \in Nat, NEW v, Rewrites(f, lo, hi, v),
         lo = hi \/ (f \in File /\ hi <= Extent(f)')
  PROVE  ZeroBehind'
<1> SUFFICES ASSUME NEW g \in File, NEW k \in Nat,
                    Extent(g)' <= k, k < BlkSize * Din(g)'.blocks
             PROVE  Byte(g, k)' = 0
  BY DEF ZeroBehind
<1>1. View'[g] = Din(g)' /\ View[g] = Din(g)
  BY DEF View
<1>2. LengthsFit(g) /\ LengthsFit(g)'
  BY LengthsNow, LengthsThen
<1>3. Extent(g) \in Nat /\ Extent(g)' \in Nat
  BY <1>2 DEF LengthsFit
<1>4. Extent(g) <= k
  <2>1. ~(k < BlkSize * 0)
    BY Consts
  <2>2. Extent(g) <= Extent(g)'
    BY <1>1, <2>1 DEF Extends
  <2> QED BY <1>3, <2>2
<1>5. ~(g = f /\ lo <= k /\ k < hi)
  <2>1. CASE lo = hi
    BY <2>1
  <2>2. CASE f \in File /\ hi <= Extent(f)'
    BY <1>3, <2>2
  <2> QED BY <2>1, <2>2
<1>6. Byte(g, k)' = IF k < BlkSize * View[g].blocks THEN Byte(g, k) ELSE 0
  BY <1>1, <1>5 DEF Rewrites
<1>7. k < BlkSize * View[g].blocks => Byte(g, k) = 0
  BY <1>1, <1>4 DEF ZeroBehind
<1> QED BY <1>6, <1>7

(* What a step does to files as sequences of bytes: f has n bytes then,    *)
(* those from lo to hi - 1 are v, and the others what they were, or zero   *)
(* where there was none; the other files stay as they are.                 *)
Edits(f, n, lo, hi, v) ==
  /\ Size(f)' = n /\ \A g \in File \ {f} : Size(g)' = Size(g)
  /\ \A g \in File : \A k \in Nat :
       k < Size(g)' => Byte(g, k)' = IF g = f /\ lo <= k /\ k < hi THEN v
                                     ELSE IF k < Size(g) THEN Byte(g, k) ELSE 0

(* ... or nothing ...                                                      *)
Keeps ==
  \A g \in File : Size(g)' = Size(g) /\ \A k \in Nat : k < Size(g) => Byte(g, k)' = Byte(g, k)

(* ... even when the kernel stops ...                                      *)
Stops ==
  /\ View' = View /\ fs'.data = fs.data /\ fs'.oops # "no"
  /\ \A g \in File : Size(g)' = Size(g)

(* ... and what the abstract files allow.                                  *)
Allowed ==
  \/ Stops
  \/ fs'.oops = "no" /\ Keeps
  \/ fs'.oops = "no" /\ \E f \in File : \E lo, hi \in 0..MaxFileSize :
       lo < hi /\ Edits(f, Larger(Size(f), hi), lo, hi, 1)
  \/ fs'.oops = "no" /\ \E f \in File : \E n \in 0..MaxFileSize : Edits(f, n, 0, 0, 0)

(* From the blocks to the files: l to h - 1 are the bytes of lo to hi - 1  *)
(* that the file has then, and a file only grows where its blocks are      *)
(* empty.                                                                  *)
LEMMA EditsIs ==
  ASSUME SfsInv, fs.oops = "no", SfsInv', fs'.oops = "no", ZeroBehind,
         NEW f \in File, NEW lo, NEW hi, NEW v, Rewrites(f, lo, hi, v),
         NEW l, NEW h, NEW n, Size(f)' = n, \A g \in File \ {f} : Size(g)' = Size(g),
         \A k \in Nat : k < n => (lo <= k /\ k < hi <=> l <= k /\ k < h),
         n <= Size(f) \/ Extent(f) <= Size(f)
  PROVE  Edits(f, n, l, h, v)
<1> SUFFICES ASSUME NEW g \in File, NEW k \in Nat, k < Size(g)'
             PROVE  Byte(g, k)' = IF g = f /\ l <= k /\ k < h THEN v
                                  ELSE IF k < Size(g) THEN Byte(g, k) ELSE 0
  BY DEF Edits
<1>1. LengthsFit(g) /\ LengthsFit(g)'
  BY LengthsNow, LengthsThen
<1>2. PICK t, u : t = BlkSize * View[g].blocks /\ u = BlkSize * View'[g].blocks
  OBVIOUS
<1>3. t \in Nat /\ u \in Nat /\ Size(g) \in Nat /\ Size(g)' \in Nat /\ Extent(g) \in Nat
  BY <1>1, <1>2, Consts DEF LengthsFit
<1>4. Size(g) <= t /\ Size(g)' <= u
  BY <1>1, <1>2 DEF LengthsFit
<1>5. k < u
  BY <1>3, <1>4
<1>6. Byte(g, k)' = IF g = f /\ lo <= k /\ k < hi THEN v
                    ELSE IF k < t THEN Byte(g, k) ELSE 0
  BY <1>2, <1>5 DEF Rewrites
<1>7. g = f => (lo <= k /\ k < hi <=> l <= k /\ k < h)
  OBVIOUS
<1>8. CASE k < Size(g)
  BY <1>3, <1>4, <1>6, <1>7, <1>8
<1>9. CASE ~(k < Size(g))
  <2>1. g = f /\ ~(n <= Size(f))
    BY <1>3, <1>9
  <2>2. Extent(g) <= k
    BY <1>3, <1>9, <2>1
  <2>3. View[g] = Din(g)
    BY DEF View
  <2>4. k < t => Byte(g, k) = 0
    BY <1>2, <2>2, <2>3 DEF ZeroBehind
  <2> QED BY <1>6, <1>7, <1>9, <2>4
<1> QED BY <1>8, <1>9

(* A step that keeps the lengths and does not touch bytes of the files.    *)
LEMMA KeepsIs ==
  ASSUME SfsInv, fs.oops = "no", SfsInv', fs'.oops = "no",
         NEW f, NEW lo, NEW hi, NEW v, Rewrites(f, lo, hi, v),
         \A g \in File : Size(g)' = Size(g),
         f \in File => \A k \in Nat : k < Size(f) => ~(lo <= k /\ k < hi)
  PROVE  Keeps
<1> SUFFICES ASSUME NEW g \in File, NEW k \in Nat, k < Size(g)
             PROVE  Byte(g, k)' = Byte(g, k)
  BY DEF Keeps
<1>1. LengthsFit(g) /\ LengthsFit(g)'
  BY LengthsNow, LengthsThen
<1>2. PICK t, u : t = BlkSize * View[g].blocks /\ u = BlkSize * View'[g].blocks
  OBVIOUS
<1>3. t \in Nat /\ u \in Nat /\ Size(g) \in Nat /\ Size(g)' \in Nat
  BY <1>1, <1>2, Consts DEF LengthsFit
<1>4. Size(g) <= t /\ Size(g)' <= u
  BY <1>1, <1>2 DEF LengthsFit
<1>5. k < u /\ k < t
  BY <1>3, <1>4
<1> QED BY <1>2, <1>5 DEF Rewrites

(* Calls that start, end or do nothing, and leave the files alone.         *)
LEMMA SameStep ==
  ASSUME BytesInv, Ready, SfsInv', SameFiles
  PROVE  ZeroBehind' /\ \A g \in File : View'[g] = View[g]
<1>1. SfsInv /\ fs.oops = "no" /\ fs'.oops = "no" /\ ZeroBehind /\ View' = View /\ call = None
  BY DEF BytesInv, SameFiles, Ready
<1>2. \A g \in File : LengthsFit(g) /\ LengthsFit(g)'
  BY <1>1, LengthsNow, LengthsThen
<1>3. ~InIo
  BY <1>1, NoneType DEF InIo
<1>4. \A g \in File : Extent(g) = View[g].size
  BY <1>3 DEF Extent, View
<1>5. Extends
  BY <1>1, <1>2, <1>4 DEF Extends, LengthsFit
<1>6. Rewrites(NoFile, 0, 0, 0)
  BY SameBytes
<1> QED BY <1>1, <1>5, <1>6, ZeroStep

(* A step that changes no file keeps its size and its bytes.               *)
LEMMA SameKeeps ==
  ASSUME BytesInv, Ready, SfsInv', SameFiles, call'.op # "open"
  PROVE  Keeps
<1>1. SfsInv /\ fs.oops = "no" /\ fs'.oops = "no" /\ View' = View /\ call = None
  BY DEF BytesInv, SameFiles, Ready
<1>2. \A g \in File : LengthsFit(g) /\ LengthsFit(g)'
  BY <1>1, LengthsNow, LengthsThen
<1>3. call.op # "open"
  BY <1>1, NoneType
<1>4. \A g \in File : Size(g)' = Size(g)
  BY <1>1, <1>2, <1>3 DEF LengthsFit
<1>5. \A g, k : Byte(g, k)' = Byte(g, k)
  BY SameBytes
<1> QED BY <1>4, <1>5 DEF Keeps

(* A call that is over, or has its loop before it.                         *)
LEMMA SameInv ==
  ASSUME BytesInv, Ready, SfsInv', SameFiles, ~InIo'
  PROVE  BytesInv'
<1>1. ZeroBehind' /\ fs'.oops = "no"
  BY SameStep DEF SameFiles
<1>2. IoDone'
  BY DEF IoDone
<1> QED BY <1>1, <1>2 DEF BytesInv

(* file_open: O_TRUNC takes the bytes from a file.                         *)
LEMMA OpenBytes ==
  ASSUME Careful, BytesInv, NEW d \in Fd, NEW f \in File, NEW trunc \in BOOLEAN,
         NEW append \in BOOLEAN, Open(d, f, trunc, append)
  PROVE  BytesInv' /\ Allowed
<1>1. SfsInv /\ Ready /\ fs.oops = "no" /\ call = None /\ ZeroBehind
  BY DEF BytesInv, Open, Ready
<1>2. SfsInv' /\ SameFiles /\ (call' = None \/ call' = TruncCall("open", d, 0))
  BY <1>1, OpenStep
<1>3. CASE call' = None
  <2>1. ~InIo' /\ call'.op # "open"
    BY <1>3, NoneType DEF InIo
  <2> QED BY <1>1, <1>2, <2>1, SameInv, SameKeeps DEF Allowed, SameFiles
<1>4. CASE call' = TruncCall("open", d, 0)
  <2>1. call'.step = "trunc" /\ call'.op = "open" /\ call'.d = d
    BY <1>4, TruncCallIs
  <2>2. ~InIo'
    BY <2>1 DEF InIo
  <2>3. fd'[d].file = f
    <3>1. fd \in [Fd -> [file : File \cup {NoFile}, pos : 0..MaxFileSize]]
      BY <1>1 DEF SfsInv, Types
    <3> QED BY <3>1 DEF Open
  <2>4. Target' = f
    BY <2>1, <2>3 DEF Target
  <2>5. View' = View /\ fs'.oops = "no"
    BY <1>2 DEF SameFiles
  <2>6. \A g \in File : LengthsFit(g) /\ LengthsFit(g)'
    BY <1>1, <1>2, <2>5, LengthsNow, LengthsThen
  <2>7. call.op # "open"
    BY <1>1, NoneType
  <2>8. Size(f)' = 0 /\ Size(f) \in Nat /\ \A g \in File \ {f} : Size(g)' = Size(g)
    BY <2>1, <2>4, <2>5, <2>6, <2>7 DEF LengthsFit
  <2>9. Rewrites(f, 0, 0, 0)
    BY <1>2, SameBytes
  <2>10. Edits(f, 0, 0, 0, 0)
    BY <1>1, <1>2, <2>5, <2>8, <2>9, EditsIs
  <2>11. 0 \in 0..MaxFileSize
    BY Consts
  <2>12. BytesInv'
    BY <1>1, <1>2, <2>2, SameInv
  <2> QED BY <2>5, <2>10, <2>11, <2>12 DEF Allowed
<1> QED BY <1>2, <1>3, <1>4

(* file_close, file_fsync, file_dup and file_seek.                         *)
LEMMA CloseBytes ==
  ASSUME BytesInv, NEW d \in Fd, Close(d) \/ Fsync(d)
  PROVE  BytesInv' /\ Allowed
<1>1. SfsInv /\ Ready /\ call' = None
  BY DEF BytesInv, Close, Fsync, Ready
<1>2. SfsInv' /\ SameFiles
  BY <1>1, CloseStep, FsyncStep
<1>3. ~InIo' /\ call'.op # "open"
  BY <1>1, NoneType DEF InIo
<1> QED BY <1>1, <1>2, <1>3, SameInv, SameKeeps DEF Allowed, SameFiles

(* file_dup changes no byte of a file.                                     *)
LEMMA DupBytes ==
  ASSUME BytesInv, NEW d \in Fd, NEW e \in Fd, Dup(d, e)
  PROVE  BytesInv' /\ Allowed
<1>1. SfsInv /\ Ready /\ call' = None
  BY DEF BytesInv, Dup, Ready
<1>2. SfsInv' /\ SameFiles
  BY <1>1, DupStep
<1>3. ~InIo' /\ call'.op # "open"
  BY <1>1, NoneType DEF InIo
<1> QED BY <1>1, <1>2, <1>3, SameInv, SameKeeps DEF Allowed, SameFiles

(* file_seek changes no byte of a file.                                    *)
LEMMA SeekBytes ==
  ASSUME Careful, BytesInv, NEW d \in Fd, NEW pos \in Positions, Seek(d, pos)
  PROVE  BytesInv' /\ Allowed
<1>1. SfsInv /\ Ready
  BY DEF BytesInv, Seek
<1>2. SfsInv' /\ SameFiles /\ (call' = None \/ call' = TruncCall("seek", d, pos))
  BY <1>1, SeekStep
<1>3. pos \in Nat
  BY SizeAssumption
<1>4. ~InIo' /\ call'.op # "open"
  BY <1>2, <1>3, NoneType, TruncCallIs DEF InIo
<1> QED BY <1>1, <1>2, <1>4, SameInv, SameKeeps DEF Allowed, SameFiles

(* file_read and file_write up to the first block.                         *)
LEMMA IoBytes ==
  ASSUME BytesInv, NEW d \in Fd, NEW n \in Lengths, Io(d, "read", n, 0) \/ Io(d, "write", n, 1)
  PROVE  BytesInv' /\ Allowed
<1>1. SfsInv /\ Ready
  BY DEF BytesInv, Io
<1>2. /\ SfsInv' /\ SameFiles /\ InIo' /\ call'.alen = 0 /\ call'.got = <<>>
      /\ \/ call'.op = "read"
         \/ call'.op = "write" /\ call'.byte = 1
  BY <1>1, IoStep
<1>3. ZeroBehind' /\ fs'.oops = "no"
  BY <1>1, <1>2, SameStep DEF SameFiles
<1>4. call'.off \in Nat /\ Reach' = call'.off
  <2>1. call'.off \in Nat
    BY <1>2 DEF SfsInv, Types, CallType
  <2> QED BY <1>2, <2>1 DEF Reach
<1>5. IoDone'
  <2>1. \A k \in Nat : ~(call'.off <= k /\ k < Reach')
    BY <1>4
  <2>2. Len(call'.got) = call'.alen /\ \A k \in 1..call'.alen : FALSE
    BY <1>2
  <2> QED BY <1>2, <2>1, <2>2 DEF IoDone
<1>6. BytesInv'
  BY <1>2, <1>3, <1>5 DEF BytesInv
<1> QED BY <1>1, <1>2, <1>3, <1>6, SameKeeps DEF Allowed

(* A step of sfs_truncfile that stays in its loop.                         *)
LEMMA TurnBytes ==
  ASSUME BytesInv, call.step = "trunc", fs.oops = "no", SfsInv', fs'.oops = "no",
         disk' = disk, fd' = fd, call' = call, NEW f, f = Target,
         fs'.din[f].size = fs.din[f].size, Follows(View', View, f, fs'.din[f]),
         Rewrites(f, 0, 0, 0)
  PROVE  BytesInv' /\ Allowed
<1>1. SfsInv /\ ZeroBehind /\ ~InIo /\ f \in File /\ View[f] = fs.din[f]
  BY InTrunc DEF BytesInv
<1>2. ~InIo' /\ Target' = Target
  BY <1>1 DEF InIo, Target
<1>3. \A g \in File : View'[g].size = View[g].size
  <2>1. View'[f] = fs'.din[f] /\ \A g \in File \ {f} : View'[g] = View[g]
    BY DEF Follows
  <2> QED BY <1>1, <2>1
<1>4. \A g \in File : LengthsFit(g) /\ LengthsFit(g)'
  BY <1>1, LengthsNow, LengthsThen
<1>5. \A g \in File : Extent(g) = View[g].size
  BY <1>1 DEF Extent, View
<1>6. Extends
  BY <1>3, <1>4, <1>5 DEF Extends, LengthsFit
<1>7. ZeroBehind'
  BY <1>1, <1>6, ZeroStep
<1>8. \A g \in File : Size(g)' = Size(g)
  <2> SUFFICES ASSUME NEW g \in File PROVE Size(g)' = Size(g)
    OBVIOUS
  <2>1. LengthsFit(g) /\ LengthsFit(g)'
    BY <1>4
  <2>2. CASE call.op = "open" /\ Target = g
    BY <1>2, <2>1, <2>2 DEF LengthsFit
  <2>3. CASE ~(call.op = "open" /\ Target = g)
    BY <1>2, <1>3, <2>1, <2>3 DEF LengthsFit
  <2> QED BY <2>2, <2>3
<1>9. Keeps
  <2>1. \A k \in Nat : ~(0 <= k /\ k < 0)
    OBVIOUS
  <2> QED BY <1>1, <1>8, <2>1, KeepsIs
<1>10. IoDone'
  BY <1>2 DEF IoDone
<1> QED BY <1>7, <1>9, <1>10 DEF BytesInv, Allowed

(* The kernel stops in a call that is not a read.                          *)
LEMMA StopBytes ==
  ASSUME BytesInv, fs.oops = "no", SfsInv', NEW f, OutOfRange(fs, f, fs'), disk' = disk,
         fd' = fd, call'.op # "read", call'.op # "open", call.op # "open"
  PROVE  BytesInv' /\ Allowed
<1>1. fs'.oops = "range" /\ fs'.din = fs.din /\ fs'.data = fs.data
  BY DEF OutOfRange
<1>2. BytesInv'
  BY <1>1 DEF BytesInv
<1>3. \A g : Loaded(g)' <=> Loaded(g)
  BY SameUsers
<1>4. \A g \in File : Din(g)' = Din(g)
  BY <1>1, <1>3 DEF Din
<1>5. View' = View
  BY <1>4, SameView
<1>6. \A g \in File : Size(g)' = Size(g)
  BY <1>4 DEF Size
<1> QED BY <1>1, <1>2, <1>5, <1>6 DEF Allowed, Stops

(* The loop of sfs_truncfile.                                              *)
LEMMA TruncateTurnBytes ==
  ASSUME BytesInv, TruncateTurn
  PROVE  BytesInv' /\ Allowed
<1>1. /\ SfsInv /\ call.step = "trunc" /\ fs.oops = "no" /\ disk' = disk /\ fd' = fd
  BY DEF BytesInv, TruncateTurn
<1>2. SfsInv' /\ Turned
  BY <1>1, TruncateTurnStep
<1>3. PICK f : f = Target
  OBVIOUS
<1>4. Types /\ f \in File /\ Loaded(f) /\ Good(fs, View, f) /\ fs.din[f].blocks \in 0..Top
  BY <1>1, <1>3, InTrunc, GoodIs
<1>5. fs' \in FsType
  BY <1>2 DEF SfsInv, Types
<1>6. CASE call' = call /\ \E b : Grown(fs, View, f, fs', b)
  <2>1. PICK b : Grown(fs, View, f, fs', b)
    BY <1>6
  <2>2. Sound(fs') /\ fs'.din[f].size = fs.din[f].size
    BY <2>1 DEF Grown
  <2>3. \A g \in File \ {f} : fs'.din[g] = fs.din[g]
    BY <2>1, Zenon DEF Grown
  <2>4. Follows(View', View, f, fs'.din[f])
    BY <1>1, <1>4, <1>5, <2>3, ViewFollows
  <2>5. Rewrites(f, 0, 0, 0)
    BY <1>1, <1>4, <2>1, <2>4, GrownBytes
  <2>6. fs'.oops = "no"
    BY <2>2 DEF Sound
  <2> QED BY <1>1, <1>2, <1>3, <1>6, <2>2, <2>4, <2>5, <2>6, TurnBytes
<1>7. CASE call' = call /\ \E i : Shrunk(fs, View, f, fs', i)
  <2>1. PICK i : Shrunk(fs, View, f, fs', i)
    BY <1>7
  <2>2. Sound(fs') /\ fs'.din[f].size = fs.din[f].size
    BY <2>1 DEF Shrunk
  <2>3. \A g \in File \ {f} : fs'.din[g] = fs.din[g]
    BY <2>1, Zenon DEF Shrunk
  <2>4. Follows(View', View, f, fs'.din[f])
    BY <1>1, <1>4, <1>5, <2>3, ViewFollows
  <2>5. Rewrites(f, 0, 0, 0)
    BY <1>1, <1>4, <2>1, <2>4, ShrunkBytes
  <2>6. fs'.oops = "no"
    BY <2>2 DEF Sound
  <2> QED BY <1>1, <1>2, <1>3, <1>7, <2>2, <2>4, <2>5, <2>6, TurnBytes
<1>8. CASE call' = None /\ OutOfRange(fs, f, fs') /\ call.op = "seek"
  <2>1. call'.op # "read" /\ call'.op # "open" /\ call.op # "open"
    BY <1>8, NoneType
  <2> QED BY <1>1, <1>2, <1>8, <2>1, StopBytes
<1> QED BY <1>2, <1>3, <1>6, <1>7, <1>8 DEF Turned

(* Another size leaves the bytes in the blocks alone.                      *)
LEMMA ResizeBytes ==
  ASSUME Types, Layout, fs.oops = "no", NEW f \in File, Loaded(f), NEW n \in Nat,
         fs' = Changed(fs, f, Resized(fs.din[f], n)), disk' = disk,
         \A d \in Fd : fd'[d].file = fd[d].file
  PROVE  /\ Rewrites(f, 0, 0, 0) /\ \A g, k : Byte(g, k)' = Byte(g, k)
         /\ fs'.oops = "no" /\ View'[f].size = n /\ View'[f].blocks = View[f].blocks
         /\ \A g \in File \ {f} : View'[g] = View[g]
<1>1. /\ Sound(fs') /\ fs'.data = fs.data /\ Where' = Where
      /\ \A g \in File \ {f} : View'[g] = View[g]
      /\ View'[f].size = n /\ View'[f].blocks = fs.din[f].blocks
  BY ResizeLayout
<1>2. \A g, k : Byte(g, k)' = Byte(g, k)
  BY <1>1 DEF Byte
<1>3. View[f] = fs.din[f]
  BY TypesAre DEF Din
<1>4. \A g \in File : View'[g].blocks = View[g].blocks
  BY <1>1, <1>3
<1>5. \A k \in Nat : ~(0 <= k /\ k < 0)
  OBVIOUS
<1>6. Rewrites(f, 0, 0, 0)
  BY <1>2, <1>4, <1>5 DEF Rewrites
<1> QED BY <1>1, <1>2, <1>3, <1>6 DEF Sound

(* The end of sfs_truncfile: zeros for a longer file.                      *)
LEMMA TruncateEndBytes ==
  ASSUME BytesInv, TruncateEnd
  PROVE  BytesInv' /\ Allowed
<1>1. /\ SfsInv /\ call.step = "trunc" /\ fs.oops = "no" /\ disk' = disk /\ call' = None
      /\ ZeroBehind
  BY DEF BytesInv, TruncateEnd
<1>2. SfsInv'
  BY <1>1, TruncateEndStep
<1>3. PICK f, d, n : f = Target /\ d = call.d /\ n = call.end
  OBVIOUS
<1>4. /\ Types /\ Layout /\ ~InIo /\ d \in Fd /\ f = fd[d].file /\ f \in File /\ Loaded(f)
      /\ View[f] = fs.din[f] /\ n \in Nat /\ n <= MaxFileSize
      /\ \/ call.op = "open" /\ n = 0
         \/ call.op = "seek" /\ View[f].size < n
  BY <1>1, <1>3, InTrunc
<1>5. /\ fs.din[f].blocks = Blocks(n) /\ fs' = Changed(fs, f, Resized(fs.din[f], n))
      /\ fd' = IF call.op = "seek" THEN [fd EXCEPT ![d].pos = n] ELSE fd
  BY <1>3, Zenon DEF TruncateEnd, Resized, Target
<1>6. \A c \in Fd : fd'[c].file = fd[c].file
  <2>1. fd \in [Fd -> [file : File \cup {NoFile}, pos : 0..MaxFileSize]]
    BY <1>4 DEF Types
  <2> QED BY <1>4, <1>5, <2>1
<1>7. /\ Rewrites(f, 0, 0, 0) /\ fs'.oops = "no" /\ View'[f].size = n
      /\ View'[f].blocks = Blocks(n) /\ \A g \in File \ {f} : View'[g] = View[g]
  BY <1>1, <1>4, <1>5, <1>6, ResizeBytes
<1>8. \A g \in File : LengthsFit(g) /\ LengthsFit(g)'
  BY <1>1, <1>2, <1>7, LengthsNow, LengthsThen
<1>9. ~InIo' /\ call'.op # "open"
  BY <1>1, NoneType DEF InIo
<1>10. \A g \in File : Extent(g) = View[g].size /\ Extent(g)' = View'[g].size
  BY <1>4, <1>9 DEF Extent, View
<1>11. Extends
  <2> SUFFICES ASSUME NEW g \in File PROVE Extent(g) <= Extent(g)' \/ View'[g].blocks = 0
    BY DEF Extends
  <2>1. View[g].size \in Nat /\ View'[g].size \in Nat
    BY <1>8 DEF LengthsFit
  <2>2. CASE g # f
    BY <1>7, <1>10, <2>1, <2>2
  <2>3. CASE g = f /\ call.op = "seek" /\ View[f].size < n
    BY <1>4, <1>7, <1>10, <2>1, <2>3
  <2>4. CASE g = f /\ call.op = "open" /\ n = 0
    <3>1. Blocks(0) = 0
      BY BlocksIs, Consts
    <3> QED BY <1>7, <2>4, <3>1
  <2> QED BY <1>4, <2>2, <2>3, <2>4
<1>12. ZeroBehind'
  BY <1>1, <1>2, <1>4, <1>7, <1>11, ZeroStep
<1>13. BytesInv'
  BY <1>2, <1>7, <1>9, <1>12 DEF BytesInv, IoDone
<1>14. Size(f)' = n /\ \A g \in File \ {f} : Size(g)' = Size(g)
  BY <1>3, <1>4, <1>7, <1>8, <1>9 DEF LengthsFit
<1>15. CASE call.op = "seek"
  <2>1. Size(f) = View[f].size
    BY <1>4, <1>8, <1>15 DEF LengthsFit
  <2>2. Extent(f) <= Size(f)
    BY <1>4, <1>8, <1>10, <2>1 DEF LengthsFit
  <2>3. Edits(f, n, 0, 0, 0)
    BY <1>1, <1>2, <1>4, <1>7, <1>14, <2>2, EditsIs
  <2>4. n \in 0..MaxFileSize
    BY <1>4, Consts
  <2> QED BY <1>4, <1>7, <1>13, <2>3, <2>4 DEF Allowed
<1>16. CASE call.op = "open" /\ n = 0
  <2>1. Size(f) = 0
    BY <1>3, <1>4, <1>8, <1>16 DEF LengthsFit
  <2>2. \A g \in File : Size(g)' = Size(g)
    BY <1>14, <1>16, <2>1
  <2>3. \A k \in Nat : ~(0 <= k /\ k < 0)
    OBVIOUS
  <2>4. Keeps
    BY <1>1, <1>2, <1>7, <2>2, <2>3, KeepsIs
  <2> QED BY <1>7, <1>13, <2>4 DEF Allowed
<1> QED BY <1>4, <1>15, <1>16

(* A step inside sfs_io_nolock that puts bytes where the call stands, or   *)
(* none.                                                                   *)
LEMMA GoesOn ==
  ASSUME BytesInv, fs.oops = "no", InIo, SfsInv', fs'.oops = "no", InIo', fd' = fd,
         Later(call'), NEW f, f = Target, \A g \in File : View'[g].size = View[g].size,
         NEW lo \in Nat, NEW hi \in Nat, NEW v, Rewrites(f, lo, hi, v),
         \/ lo = hi /\ Reach' = Reach
         \/ lo = Reach /\ hi = Reach' /\ Reach < Reach' /\ v = 1
         \/ lo = hi /\ Reach < Reach' /\ call.op = "read"
  PROVE  ZeroBehind' /\ Allowed /\ (call.op = "write" => IoDone')
<1>1. /\ SfsInv /\ ZeroBehind /\ IoDone /\ f \in File /\ Reach \in Nat /\ call.off \in Nat
      /\ call.d \in Fd
  BY InCallIo DEF BytesInv
<1>2. /\ Target' = f /\ call'.op = call.op /\ call'.off = call.off /\ call'.byte = call.byte
  BY DEF Target, Later
<1>3. Reach' \in Nat /\ Reach <= Reach' /\ Reach' <= MaxFileSize
  <2>1. call'.off \in Nat /\ call'.alen \in Nat /\ call'.end \in Nat
    BY DEF Later, CallType
  <2>2. Reach' <= call'.end /\ call'.end <= MaxFileSize
    BY DEF SfsInv, BlocksFit, IoFits
  <2>3. Reach' \in Nat
    BY <2>1 DEF Reach
  <2> QED BY <1>1, <2>1, <2>2, <2>3, Consts
<1>4. \A g \in File : LengthsFit(g) /\ LengthsFit(g)'
  BY <1>1, LengthsNow, LengthsThen
<1>5. call.step # "trunc" /\ call'.step # "trunc"
  BY DEF InIo
<1>6. \A g \in File : /\ Size(g) = View[g].size /\ Size(g)' = Size(g) /\ Size(g) \in Nat
                      /\ Size(g) <= MaxFileSize
  BY <1>4, <1>5 DEF LengthsFit
<1>7. /\ Extent(f) = Larger(Size(f), Reach) /\ Extent(f)' = Larger(Size(f), Reach')
      /\ \A g \in File \ {f} : Extent(g) = Size(g) /\ Extent(g)' = Size(g)
  <2>1. \A g \in File : View[g] = Din(g) /\ View'[g] = Din(g)'
    BY DEF View
  <2> QED BY <1>1, <1>2, <1>6, <2>1 DEF Extent
<1>8. Extends
  <2> SUFFICES ASSUME NEW g \in File PROVE Extent(g) <= Extent(g)'
    BY DEF Extends
  <2>1. CASE g = f
    BY <1>1, <1>3, <1>6, <1>7, <2>1 DEF Larger
  <2>2. CASE g # f
    BY <1>6, <1>7, <2>2
  <2> QED BY <2>1, <2>2
<1>9. lo = hi \/ hi <= Extent(f)'
  BY <1>1, <1>3, <1>6, <1>7 DEF Larger
<1>10. ZeroBehind'
  BY <1>1, <1>8, <1>9, ZeroStep
<1>11. Allowed
  <2>1. CASE lo = hi
    <3>1. Keeps
      BY <1>1, <1>6, <2>1, KeepsIs
    <3> QED BY <3>1 DEF Allowed
  <2>2. CASE lo = Reach /\ hi = Reach' /\ ~(Reach < Size(f))
    <3>1. \A k \in Nat : k < Size(f) => ~(lo <= k /\ k < hi)
      BY <1>1, <1>3, <1>6, <2>2
    <3>2. Keeps
      BY <1>1, <1>6, <3>1, KeepsIs
    <3> QED BY <3>2 DEF Allowed
  <2>3. CASE lo = Reach /\ hi = Reach' /\ Reach < Reach' /\ v = 1 /\ Reach < Size(f)
    <3>1. PICK h : h = Smaller(Reach', Size(f))
      OBVIOUS
    <3>2. /\ h \in 0..MaxFileSize /\ lo \in 0..MaxFileSize /\ lo < h /\ h <= Size(f)
          /\ \A k \in Nat : k < Size(f) => (lo <= k /\ k < hi <=> lo <= k /\ k < h)
      BY <1>1, <1>3, <1>6, <2>3, <3>1, Consts DEF Smaller
    <3>3. Edits(f, Size(f), lo, h, 1)
      BY <1>1, <1>6, <2>3, <3>2, EditsIs
    <3>4. Larger(Size(f), h) = Size(f)
      BY <1>1, <1>6, <3>2 DEF Larger
    <3>5. Edits(f, Larger(Size(f), h), lo, h, 1)
      BY <3>3, <3>4
    <3> QED BY <1>1, <3>2, <3>5 DEF Allowed
  <2> QED BY <2>1, <2>2, <2>3
<1>12. ASSUME call.op = "write"
       PROVE  IoDone'
  <2>1. call.byte = 1 /\ \A k \in Nat : call.off <= k /\ k < Reach => Byte(f, k) = 1
    BY <1>1, <1>12 DEF IoDone
  <2> SUFFICES ASSUME NEW k \in Nat, call.off <= k, k < Reach'
               PROVE  Byte(f, k)' = 1
    BY <1>2, <1>12, <2>1 DEF IoDone
  <2>2. PICK t, u : t = BlkSize * View[f].blocks /\ u = BlkSize * View'[f].blocks
    OBVIOUS
  <2>3. t \in Nat /\ u \in Nat
    BY <1>1, <1>4, <2>2, Consts DEF LengthsFit
  <2>4. Extent(f) <= t /\ Extent(f)' <= u
    BY <1>1, <1>4, <1>5, <2>2 DEF LengthsFit
  <2>5. Reach <= t /\ Reach' <= u
    BY <1>1, <1>3, <1>6, <1>7, <2>3, <2>4 DEF Larger
  <2>6. k < u
    BY <1>3, <2>3, <2>5
  <2>7. Byte(f, k)' = IF lo <= k /\ k < hi THEN v
                      ELSE IF k < t THEN Byte(f, k) ELSE 0
    BY <1>1, <2>2, <2>6 DEF Rewrites
  <2>8. CASE k < Reach
    <3>1. k < t /\ Byte(f, k) = 1 /\ ~(lo <= k /\ k < hi)
      BY <1>1, <1>3, <2>1, <2>3, <2>5, <2>8
    <3> QED BY <2>7, <3>1
  <2>9. CASE ~(k < Reach)
    <3>1. lo <= k /\ k < hi /\ v = 1
      BY <1>1, <1>3, <1>12, <2>9
    <3> QED BY <2>7, <3>1
  <2> QED BY <2>8, <2>9
<1> QED BY <1>10, <1>11, <1>12

(* ... and what a read has copied then.                                    *)
LEMMA ReadGoesOn ==
  ASSUME InIo', fd' = fd, Later(call'), call.op = "read", NEW f, f = Target, SameFiles,
         Len(call'.got) = call'.alen,
         \A k \in 1..call'.alen : call'.got[k] = Byte(f, call.off + k - 1)
  PROVE  IoDone'
<1>1. /\ Target' = f /\ call'.op = "read" /\ call'.off = call.off
  BY DEF Target, Later
<1>2. \A g, k : Byte(g, k)' = Byte(g, k)
  BY SameBytes
<1> QED BY <1>1, <1>2 DEF IoDone

(* To the next part of a read or write.                                    *)
LEMMA WalkBytes ==
  ASSUME BytesInv, fs.oops = "no", InIo, SfsInv', disk' = disk, fd' = fd, fs' = fs,
         NEW s \in {"body", "tail", "out"}, call' = AtStep(s)
  PROVE  BytesInv' /\ Allowed
<1>1. PICK f : f = Target
  OBVIOUS
<1>2. /\ SfsInv /\ IoDone /\ call \in CallType /\ call.op \in {"read", "write"}
      /\ Types /\ Layout /\ PositionsFit
  BY InCallIo DEF BytesInv
<1>3. /\ Later(call') /\ call'.step = s /\ call'.alen = call.alen /\ call'.got = call.got
  BY <1>2, AtStepIs
<1>4. InIo' /\ Reach' = Reach
  BY <1>3 DEF InIo, Reach, Later
<1>5. SameFiles
  <2>1. call' \in CallType
    BY <1>3 DEF Later
  <2> QED BY <1>2, <2>1, StandsStill DEF SameFiles
<1>6. Rewrites(f, 0, 0, 0) /\ View' = View /\ fs'.oops = "no"
  BY <1>5, SameBytes DEF SameFiles
<1>7. ZeroBehind' /\ Allowed /\ (call.op = "write" => IoDone')
  BY <1>1, <1>2, <1>3, <1>4, <1>6, GoesOn
<1>8. ASSUME call.op = "read"
      PROVE  IoDone'
  <2>1. /\ Len(call.got) = call.alen
        /\ \A k \in 1..call.alen : call.got[k] = Byte(f, call.off + k - 1)
    BY <1>1, <1>2, <1>8 DEF IoDone
  <2> QED BY <1>1, <1>3, <1>4, <1>5, <1>8, <2>1, ReadGoesOn
<1> QED BY <1>2, <1>6, <1>7, <1>8 DEF BytesInv

(* Two sequences in one.                                                   *)
Joins(h, g, B, a, sz) ==
  /\ Len(h) = a + sz
  /\ \A k \in 1..a : h[k] = g[k]
  /\ \A k \in 1..sz : h[a + k] = B[k]

(* What the concatenation of two sequences holds.                          *)
LEMMA Joined ==
  ASSUME NEW g \in Seq(Nat), NEW B \in Seq(Nat)
  PROVE  Joins(Cat(g, B), g, B, Len(g), Len(B))
BY DEF Joins, Cat

(* The bytes of a file from off on, with more of them.                     *)
Holds(g, a, f, off) == \A k \in 1..a : g[k] = Byte(f, off + k - 1)

(* A sequence that holds the bytes of a file from off on still does with   *)
(* the next ones joined on.                                                *)
LEMMA Appended ==
  ASSUME NEW g \in Seq(Nat), NEW B \in Seq(Nat), NEW a \in Nat, NEW sz \in Nat,
         NEW off \in Nat, NEW f, NEW h, Joins(h, g, B, a, sz),
         Holds(g, a, f, off), Holds(B, sz, f, off + a)
  PROVE  Holds(h, a + sz, f, off)
<1>1. /\ \A k \in 1..a : g[k] = Byte(f, off + k - 1)
      /\ \A j \in 1..sz : B[j] = Byte(f, (off + a) + j - 1)
      /\ Len(h) = a + sz /\ \A k \in 1..a : h[k] = g[k]
      /\ \A k \in 1..sz : h[a + k] = B[k]
  BY DEF Joins, Holds
<1>2. ASSUME NEW k \in 1..(a + sz)
      PROVE  h[k] = Byte(f, off + k - 1)
  <2>1. CASE k <= a
    BY <1>1, <2>1
  <2>2. CASE ~(k <= a)
    <3>1. PICK j : j = k - a
      OBVIOUS
    <3>2. j \in 1..sz /\ (off + a) + j - 1 = off + k - 1 /\ a + j = k
      BY <2>2, <3>1
    <3>3. h[a + j] = Byte(f, (off + a) + j - 1)
      BY <1>1, <3>2
    <3> QED BY <3>2, <3>3
  <2> QED BY <2>1, <2>2
<1> QED BY <1>2 DEF Holds

(* A part of a read or write.                                              *)
LEMMA TransferBytes ==
  ASSUME BytesInv, fs.oops = "no", SfsInv', disk' = disk, fd' = fd,
         NEW blkoff, NEW sz, NEW next, Part(blkoff, sz), Transfer(blkoff, sz, next),
         Later(next), next.alen = call.alen, next.got = call.got, next.step \in {"body", "out"}
  PROVE  BytesInv' /\ Allowed
<1>1. /\ InIo /\ blkoff \in Nat /\ blkoff \in Cell /\ sz \in Nat /\ sz # 0
      /\ blkoff + sz <= BlkSize
  BY Consts DEF Part
<1>2. PICK f : f = Target
  OBVIOUS
<1>3. /\ SfsInv /\ IoDone /\ Types /\ Layout /\ f \in File /\ Loaded(f) /\ Good(fs, View, f)
      /\ View[f] = fs.din[f] /\ call \in CallType /\ call.op \in {"read", "write"}
      /\ Reach \in Nat /\ call.off \in Nat /\ call.alen \in Nat /\ call.got \in Seq(Nat)
  BY <1>1, <1>2, InCallIo DEF BytesInv
<1>4. Later(Ended) /\ Ended.step = "out" /\ Ended.alen = call.alen
  BY <1>3, EndedIs
<1>5. fs' \in FsType
  BY DEF SfsInv, Types
<1>6. CASE call.op = "write" /\ OutOfRange(fs, f, fs') /\ call' = Ended
  <2>1. call'.op # "read" /\ call'.op # "open" /\ call.op # "open"
    BY <1>4, <1>6 DEF Later
  <2> QED BY <1>6, <2>1, StopBytes
<1>7. CASE call.op = "write" /\ Kept(fs, f, fs') /\ call' = Ended
  <2>1. fs'.oops = "no" /\ fs'.din = fs.din
    BY <1>7 DEF Kept, Sound
  <2>2. \A g : Loaded(g)' <=> Loaded(g)
    BY SameUsers
  <2>3. \A g \in File : Din(g)' = Din(g)
    BY <2>1, <2>2 DEF Din
  <2>4. View' = View
    BY <2>3, SameView
  <2>5. Rewrites(f, 0, 0, 0)
    BY <1>3, <1>7, <2>4, KeptBytes
  <2>6. Later(call') /\ InIo' /\ Reach' = Reach
    <3>1. Later(call') /\ call'.step = "out" /\ call'.alen = call.alen /\ call'.off = call.off
      BY <1>4, <1>7 DEF Later
    <3> QED BY <3>1 DEF Reach, InIo
  <2>7. ZeroBehind' /\ Allowed /\ IoDone'
    BY <1>1, <1>2, <1>7, <2>1, <2>4, <2>5, <2>6, GoesOn
  <2> QED BY <2>1, <2>7 DEF BytesInv
<1>8. ASSUME NEW W, NEW b, Found(f, W, b), fs' = Stored(W, b, blkoff, sz),
             call' = Copied(next, blkoff, sz, b)
      PROVE  BytesInv' /\ Allowed
  <2>1. /\ Sound(fs') /\ b \in Blk /\ fs'.din[f].size = fs.din[f].size
        /\ \A g \in File \ {f} : fs'.din[g] = fs.din[g]
    BY <1>1, <1>2, <1>3, <1>8, StoredIs
  <2>2. Bytes(b, blkoff, sz) \in Seq(Nat) /\ Len(Bytes(b, blkoff, sz)) = sz
    BY <1>1, <1>3, <2>1, BytesType
  <2>3. /\ Later(call') /\ call'.step = next.step /\ call'.alen = call.alen + sz
        /\ call.op = "read" => call'.got = Cat(call.got, Bytes(b, blkoff, sz))
    <3>1. /\ Later(call') /\ call'.step = next.step /\ call'.alen = next.alen + sz
          /\ call.op = "read" => call'.got = Cat(next.got, Bytes(b, blkoff, sz))
      <4>1. PICK c : c = call'
        OBVIOUS
      <4>2. c = Copied(next, blkoff, sz, b)
        BY <1>8, <4>1, Zenon
      <4>3. /\ Later(c) /\ c.step = next.step /\ c.alen = next.alen + sz
            /\ call.op = "read" => c.got = Cat(next.got, Bytes(b, blkoff, sz))
        BY <1>1, <2>2, <4>2, CopiedIs
      <4> QED BY <4>1, <4>3, Zenon
    <3> QED BY <3>1, Zenon
  <2>4. Reach' = Reach + sz /\ InIo' /\ Reach < Reach'
    <3>1. call'.off = call.off
      BY <2>3 DEF Later
    <3>2. Reach' = Reach + sz
      BY <1>1, <1>3, <2>3, <3>1 DEF Reach
    <3> QED BY <1>1, <1>3, <2>3, <3>2 DEF InIo
  <2>5. Follows(View', View, f, fs'.din[f]) /\ fs'.oops = "no"
    BY <1>3, <1>5, <2>1, ViewFollows DEF Sound
  <2>6. \A g \in File : View'[g].size = View[g].size
    <3>1. View'[f] = fs'.din[f] /\ \A g \in File \ {f} : View'[g] = View[g]
      BY <2>5 DEF Follows
    <3> QED BY <1>3, <2>1, <3>1
  <2>7. CASE call.op = "write"
    <3>1. Rewrites(f, Reach, Reach + sz, call.byte)
      BY <1>2, <1>3, <1>8, <2>5, <2>7, WriteBytes
    <3>2. call.byte = 1
      BY <1>1, <1>3, <2>7 DEF IoDone
    <3>3. Rewrites(f, Reach, Reach', 1) /\ Reach' \in Nat
      BY <1>1, <1>3, <2>4, <3>1, <3>2
    <3>4. ZeroBehind' /\ Allowed /\ IoDone'
      BY <1>1, <1>2, <1>3, <2>3, <2>4, <2>5, <2>6, <2>7, <3>3, GoesOn
    <3> QED BY <2>5, <3>4 DEF BytesInv
  <2>8. CASE call.op = "read"
    <3>1. fs' = fs /\ call.blkno < fs.din[f].blocks /\ b = Where[f][call.blkno]
      BY <1>1, <1>2, <1>3, <1>8, <2>8, StoredData
    <3>2. SameFiles
      <4>1. call' \in CallType /\ PositionsFit
        BY <1>1, <1>3, <2>3, InCallIo DEF Later
      <4> QED BY <1>3, <3>1, <4>1, StandsStill DEF SameFiles
    <3>3. Rewrites(f, 0, 0, 0)
      BY <3>2, SameBytes
    <3>4. ZeroBehind' /\ Allowed
      BY <1>1, <1>2, <2>3, <2>4, <2>5, <2>6, <2>8, <3>3, GoesOn
    <3>5. /\ Len(call.got) = call.alen
          /\ \A k \in 1..call.alen : call.got[k] = Byte(f, call.off + k - 1)
      BY <1>1, <1>2, <1>3, <2>8 DEF IoDone
    <3>6. PICK B, g, a : B = Bytes(b, blkoff, sz) /\ g = call.got /\ a = call.alen
      OBVIOUS
    <3>7. /\ B \in Seq(Nat) /\ Len(B) = sz /\ g \in Seq(Nat) /\ Len(g) = a /\ a \in Nat
          /\ call'.got = Cat(g, B) /\ call'.alen = a + sz
      BY <1>3, <2>2, <2>3, <2>8, <3>5, <3>6, Zenon
    <3>8. \A j \in 1..sz : B[j] = Byte(f, (call.off + a) + j - 1)
      <4>1. \A j \in 1..sz : B[j] = Byte(f, Reach + j - 1)
        BY <1>2, <1>3, <3>1, <3>6, ReadBytes
      <4>2. Reach = call.off + a
        BY <3>6 DEF Reach
      <4> QED BY <4>1, <4>2
    <3>9. \A k \in 1..a : g[k] = Byte(f, call.off + k - 1)
      BY <3>5, <3>6, Zenon
    <3>10. /\ Len(call'.got) = call'.alen
           /\ \A k \in 1..call'.alen : call'.got[k] = Byte(f, call.off + k - 1)
      <4>1. PICK h : h = call'.got
        OBVIOUS
      <4>2. Joins(h, g, B, a, sz)
        BY <3>7, <4>1, Joined, Zenon
      <4>3. Len(h) = a + sz /\ \A k \in 1..(a + sz) : h[k] = Byte(f, call.off + k - 1)
        <5>1. PICK off : off = call.off
          OBVIOUS
        <5>2. off \in Nat /\ g \in Seq(Nat) /\ B \in Seq(Nat) /\ a \in Nat /\ sz \in Nat
          BY <1>1, <1>3, <3>7, <5>1
        <5>3. Holds(g, a, f, off) /\ Holds(B, sz, f, off + a)
          BY <3>8, <3>9, <5>1, Zenon DEF Holds
        <5>4. Holds(h, a + sz, f, off)
          BY <4>2, <5>2, <5>3, Appended, Zenon
        <5> QED BY <4>2, <5>1, <5>4, Zenon DEF Joins, Holds
      <4> QED BY <3>7, <4>1, <4>3, Zenon
    <3>11. IoDone'
      BY <1>2, <2>3, <2>4, <2>8, <3>2, <3>10, ReadGoesOn
    <3> QED BY <2>5, <3>4, <3>11 DEF BytesInv
  <2> QED BY <1>3, <2>7, <2>8
<1> QED BY <1>2, <1>3, <1>6, <1>7, <1>8, TransferIs

(* The end of a read or write: what is behind the old end belongs to the   *)
(* file from now on.                                                       *)
LEMMA IoOutBytes ==
  ASSUME BytesInv, IoOut
  PROVE  BytesInv' /\ Allowed
<1>1. /\ SfsInv /\ call.step = "out" /\ fs.oops = "no" /\ disk' = disk /\ call' = None /\ InIo
      /\ ZeroBehind /\ IoDone
  BY DEF BytesInv, IoOut, InIo
<1>2. SfsInv'
  BY <1>1, IoOutStep
<1>3. PICK f, d, n : f = Target /\ d = call.d /\ n = Reach
  OBVIOUS
<1>4. /\ Types /\ Layout /\ d \in Fd /\ f = fd[d].file /\ f \in File /\ Loaded(f)
      /\ View[f] = fs.din[f] /\ n \in Nat /\ fs.din[f].size \in Nat
      /\ call.off \in Nat /\ call.off <= fs.din[f].size /\ call.op \in {"read", "write"}
      /\ n <= call.end /\ call.end \in Nat /\ call.end <= MaxFileSize
      /\ call.op = "read" => call.end <= fs.din[f].size
  BY <1>1, <1>3, InCallIo
<1>5. /\ fs' = IF n > fs.din[f].size THEN Changed(fs, f, Resized(fs.din[f], n)) ELSE fs
      /\ fd' = [fd EXCEPT ![d].pos = @ + call.alen]
  BY <1>3, Zenon DEF IoOut, Resized, Target, Reach, Moved
<1>6. \A c \in Fd : fd'[c].file = fd[c].file
  <2>1. fd \in [Fd -> [file : File \cup {NoFile}, pos : 0..MaxFileSize]]
    BY <1>4 DEF Types
  <2> QED BY <1>4, <1>5, <2>1
<1>7. ~InIo' /\ call'.op # "open" /\ call'.step # "trunc" /\ call.step # "trunc"
      /\ call.op # "open"
  BY <1>1, <1>4, NoneType DEF InIo
<1>8. \A g \in File : LengthsFit(g)
  BY <1>1, LengthsNow
<1>9. CASE n > fs.din[f].size
  <2>1. fs' = Changed(fs, f, Resized(fs.din[f], n))
    BY <1>5, <1>9, Zenon
  <2>2. /\ Rewrites(f, 0, 0, 0) /\ \A g, k : Byte(g, k)' = Byte(g, k)
        /\ fs'.oops = "no" /\ View'[f].size = n
        /\ \A g \in File \ {f} : View'[g] = View[g]
    BY <1>1, <1>4, <1>6, <2>1, ResizeBytes
  <2>3. \A g \in File : LengthsFit(g)'
    BY <1>2, <2>2, LengthsThen
  <2>4. /\ Size(f) = View[f].size /\ Size(f)' = n /\ Size(f) \in Nat
        /\ \A g \in File \ {f} : Size(g)' = Size(g)
    BY <1>4, <1>7, <1>8, <2>2, <2>3 DEF LengthsFit
  <2>5. /\ Extent(f) = n /\ Extent(f)' = n
        /\ \A g \in File \ {f} : Extent(g) = View[g].size /\ Extent(g)' = View'[g].size
    <3>1. \A g \in File : View[g] = Din(g) /\ View'[g] = Din(g)'
      BY DEF View
    <3> QED BY <1>1, <1>3, <1>4, <1>7, <1>9, <2>2, <3>1 DEF Extent, Larger
  <2>6. Extends
    <3>1. \A g \in File \ {f} : Extent(g) \in Nat
      BY <1>8 DEF LengthsFit
    <3> QED BY <1>4, <2>2, <2>5, <3>1 DEF Extends
  <2>7. ZeroBehind'
    BY <1>1, <1>2, <1>4, <2>2, <2>6, ZeroStep
  <2>8. BytesInv'
    BY <1>2, <1>7, <2>2, <2>7 DEF BytesInv, IoDone
  <2>9. \A k \in Nat : Size(f) <= k /\ k < n => Byte(f, k) = 1
    <3>1. call.op = "write"
      BY <1>4, <1>9
    <3>2. call.byte = 1 /\ \A k \in Nat : call.off <= k /\ k < n => Byte(f, k) = call.byte
      BY <1>1, <1>3, <3>1 DEF IoDone
    <3> QED BY <1>4, <2>4, <3>2
  <2>10. Edits(f, n, Size(f), n, 1)
    <3> SUFFICES ASSUME NEW g \in File, NEW k \in Nat, k < Size(g)'
                 PROVE  Byte(g, k) = IF g = f /\ Size(f) <= k /\ k < n THEN 1
                                     ELSE IF k < Size(g) THEN Byte(g, k) ELSE 0
      BY <2>2, <2>4 DEF Edits
    <3>1. CASE g = f
      BY <2>4, <2>9, <3>1
    <3>2. CASE g # f
      BY <2>4, <3>2
    <3> QED BY <3>1, <3>2
  <2>11. /\ Size(f) \in 0..MaxFileSize /\ n \in 0..MaxFileSize /\ Size(f) < n
         /\ Larger(Size(f), n) = n
    BY <1>4, <1>9, <2>4, Consts DEF Larger
  <2>12. Edits(f, Larger(Size(f), n), Size(f), n, 1)
    BY <2>10, <2>11
  <2> QED BY <1>4, <2>2, <2>8, <2>11, <2>12 DEF Allowed
<1>10. CASE ~(n > fs.din[f].size)
  <2>1. fs' = fs
    BY <1>5, <1>10, Zenon
  <2>2. \A g : Loaded(g)' <=> Loaded(g)
    BY <1>6, SameUsers
  <2>3. \A g \in File : Din(g)' = Din(g)
    BY <1>1, <2>1, <2>2 DEF Din
  <2>4. View' = View /\ fs'.oops = "no"
    BY <1>1, <2>1, <2>3, SameView
  <2>5. SameFiles
    BY <2>1, <2>4 DEF SameFiles
  <2>6. Rewrites(f, 0, 0, 0)
    BY <2>5, SameBytes
  <2>7. \A g \in File : LengthsFit(g)'
    BY <1>2, <2>4, LengthsThen
  <2>8. \A g \in File : Size(g)' = Size(g)
    BY <1>7, <1>8, <2>4, <2>7 DEF LengthsFit
  <2>9. Extends
    <3> SUFFICES ASSUME NEW g \in File PROVE Extent(g) <= Extent(g)'
      BY DEF Extends
    <3>1. Extent(g) = View[g].size /\ Extent(g)' = View[g].size /\ Extent(g) \in Nat
      <4>1. View[g] = Din(g) /\ View'[g] = Din(g)' /\ Extent(g) \in Nat
        BY <1>8 DEF View, LengthsFit
      <4> QED BY <1>1, <1>3, <1>4, <1>7, <1>10, <2>4, <4>1 DEF Extent, Larger
    <3> QED BY <3>1
  <2>10. ZeroBehind'
    BY <1>1, <1>2, <1>4, <2>4, <2>6, <2>9, ZeroStep
  <2>11. Keeps
    <3>1. \A k \in Nat : ~(0 <= k /\ k < 0)
      OBVIOUS
    <3> QED BY <1>1, <1>2, <2>4, <2>6, <2>8, <3>1, KeepsIs
  <2>12. BytesInv'
    BY <1>2, <1>7, <2>4, <2>10 DEF BytesInv, IoDone
  <2> QED BY <2>4, <2>11, <2>12 DEF Allowed
<1> QED BY <1>9, <1>10

(* The other steps of sfs_io_nolock.                                       *)
LEMMA IoMoveBytes ==
  ASSUME BytesInv, IoHead \/ IoBody \/ IoTail
  PROVE  BytesInv' /\ Allowed
<1>1. SfsInv /\ fs.oops = "no" /\ disk' = disk /\ fd' = fd /\ InIo
  BY DEF BytesInv, IoHead, IoBody, IoTail, InIo
<1>2. SfsInv' /\ IoMoves
  BY <1>1, IoHeadStep, IoBodyStep, IoTailStep
<1>3. CASE \E s \in {"body", "tail", "out"} : call' = AtStep(s) /\ fs' = fs
  BY <1>1, <1>2, <1>3, WalkBytes
<1>4. CASE \E blkoff, sz, next :
             /\ Part(blkoff, sz) /\ Transfer(blkoff, sz, next) /\ Later(next)
             /\ next.alen = call.alen /\ next.got = call.got /\ next.step \in {"body", "out"}
  <2>1. PICK blkoff, sz, next :
             /\ Part(blkoff, sz) /\ Transfer(blkoff, sz, next) /\ Later(next)
             /\ next.alen = call.alen /\ next.got = call.got /\ next.step \in {"body", "out"}
    BY <1>4, Zenon
  <2> QED BY <1>1, <1>2, <2>1, TransferBytes
<1> QED BY <1>2, <1>3, <1>4, Zenon DEF IoMoves

-----------------------------------------------------------------------------
(* The theorems about the bytes.                                           *)

(* Empty files have no bytes.                                              *)
LEMMA BytesInit == Init => BytesInv
<1> SUFFICES ASSUME Init PROVE BytesInv
  OBVIOUS
<1>1. SfsInv /\ fs.oops = "no" /\ call = None
  BY InitInv DEF Init
<1>2. ~InIo
  BY <1>1, NoneType DEF InIo
<1>3. \A f \in File : Din(f).blocks = 0
  <2>1. /\ fs.din = [f \in File |-> EmptyInode] /\ disk = [f \in File |-> EmptyInode]
    BY DEF Init
  <2> QED BY <2>1, EmptyType DEF Din
<1>4. ZeroBehind
  <2> SUFFICES ASSUME NEW f \in File, NEW k \in Nat, k < BlkSize * Din(f).blocks PROVE FALSE
    BY DEF ZeroBehind
  <2>1. ~(k < BlkSize * 0)
    BY Consts
  <2> QED BY <1>3, <2>1
<1> QED BY <1>1, <1>2, <1>4 DEF BytesInv, IoDone

(* A step that changes nothing.                                            *)
LEMMA StutterBytes ==
  ASSUME BytesInv, SfsInv', UNCHANGED vars
  PROVE  BytesInv'
<1>1. fs' = fs /\ disk' = disk /\ fd' = fd /\ call' = call
  BY DEF vars
<1>2. \A f : Users(f)' = Users(f)
  BY <1>1 DEF Users
<1>3. \A f : Loaded(f)' <=> Loaded(f)
  BY <1>2 DEF Loaded
<1>4. \A f \in File : Din(f)' = Din(f)
  BY <1>1, <1>3 DEF Din
<1>5. View' = View /\ Where' = Where
  BY <1>1, <1>4, SameView DEF Where
<1>6. Target' = Target /\ (InIo' <=> InIo) /\ Reach' = Reach
  BY <1>1 DEF Target, InIo, Reach
<1>7. \A f \in File : Extent(f)' = Extent(f)
  BY <1>4, <1>6 DEF Extent
<1>8. \A f, k : Byte(f, k)' = Byte(f, k)
  BY <1>1, <1>5 DEF Byte
<1>9. ZeroBehind => ZeroBehind'
  BY <1>4, <1>7, <1>8 DEF ZeroBehind
<1>10. IoDone => IoDone'
  BY <1>1, <1>6, <1>8 DEF IoDone
<1> QED BY <1>1, <1>9, <1>10 DEF BytesInv

(* Every step keeps BytesInv, and does to the bytes what it may do.        *)
LEMMA BytesStep ==
  ASSUME Careful, BytesInv, Next
  PROVE  BytesInv' /\ Allowed
<1>1. ASSUME NEW d \in Fd, NEW f \in File, NEW trunc \in BOOLEAN, NEW append \in BOOLEAN,
             Open(d, f, trunc, append)
      PROVE  BytesInv' /\ Allowed
  BY <1>1, OpenBytes
<1>2. ASSUME NEW d \in Fd, Close(d) \/ Fsync(d) PROVE BytesInv' /\ Allowed
  BY <1>2, CloseBytes
<1>3. ASSUME NEW d \in Fd, NEW e \in Fd, Dup(d, e) PROVE BytesInv' /\ Allowed
  BY <1>3, DupBytes
<1>4. ASSUME NEW d \in Fd, NEW pos \in Positions, Seek(d, pos) PROVE BytesInv' /\ Allowed
  BY <1>4, SeekBytes
<1>5. ASSUME NEW d \in Fd, NEW n \in Lengths, Io(d, "read", n, 0) \/ Io(d, "write", n, 1)
      PROVE  BytesInv' /\ Allowed
  BY <1>5, IoBytes
<1>6. CASE TruncateTurn
  BY <1>6, TruncateTurnBytes
<1>7. CASE TruncateEnd
  BY <1>7, TruncateEndBytes
<1>8. CASE IoHead \/ IoBody \/ IoTail
  BY <1>8, IoMoveBytes
<1>9. CASE IoOut
  BY <1>9, IoOutBytes
<1> QED BY <1>1, <1>2, <1>3, <1>4, <1>5, <1>6, <1>7, <1>8, <1>9, Zenon DEF Next

(* BytesInv is an invariant: behind the end of a file there are zeros,     *)
(* what a write has done so far is in the blocks and what a read has done  *)
(* is in its buffer.                                                       *)
THEOREM BytesInvariant ==
  ASSUME Careful
  PROVE  Spec => []BytesInv
<1>1. Init => BytesInv
  BY BytesInit
<1>2. BytesInv /\ [Next]_vars => BytesInv'
  <2> SUFFICES ASSUME BytesInv, [Next]_vars PROVE BytesInv'
    OBVIOUS
  <2>1. CASE Next
    BY <2>1, BytesStep
  <2>2. CASE UNCHANGED vars
    <3>1. SfsInv'
      BY SfsInvStep DEF BytesInv
    <3> QED BY <2>2, <3>1, StutterBytes
  <2> QED BY <2>1, <2>2
<1> QED BY <1>1, <1>2, PTL DEF Spec

(* The content of a file is the sequence of its bytes.                     *)
ContentIs(f) ==
  /\ Content(f) \in [1..Size(f) -> Nat]
  /\ \A k \in 1..Size(f) : Content(f)[k] = Byte(f, k - 1)

(* The bytes of a file as the abstract specification sees them, in this    *)
(* state ...                                                               *)
LEMMA ContentNow ==
  SfsInv /\ fs.oops = "no" => \A f \in File : ContentIs(f)
<1> SUFFICES ASSUME SfsInv, fs.oops = "no", NEW f \in File
             PROVE  ContentIs(f)
  OBVIOUS
<1>1. Types /\ Layout
  BY DEF SfsInv, BlocksFit
<1>2. LengthsFit(f)
  BY LengthsNow
<1>3. Size(f) \in Nat /\ Size(f) <= BlkSize * View[f].blocks /\ View[f].blocks \in Nat
  BY <1>2 DEF LengthsFit
<1>4. fs.data \in Datas
  BY <1>1, TypesAre
<1>5. ASSUME NEW k \in 1..Size(f)
      PROVE  Content(f)[k] = Byte(f, k - 1) /\ Byte(f, k - 1) \in Nat
  <2>1. PICK j, t : j = k - 1 /\ t = BlkSize * View[f].blocks
    OBVIOUS
  <2>2. j \in Nat /\ j < t
    <3>1. t \in Nat
      BY <1>3, <2>1, Consts
    <3> QED BY <1>3, <2>1, <3>1
  <2>3. PICK i, c : i = j \div BlkSize /\ c = j % BlkSize
    OBVIOUS
  <2>4. i \in Idx /\ i < Top /\ c \in Cell /\ Where[f][i] \in Blk
    BY <1>1, <2>1, <2>2, <2>3, PlaceOf
  <2>5. i \in 0..(Top - 1)
    BY <2>4, Consts DEF Idx
  <2>6. Entries(f)[i] = Where[f][i]
    BY <1>1, <2>5, EntriesAre
  <2>7. PICK b : b = Entries(f)[i]
    OBVIOUS
  <2>8. b \in Blk /\ b # 0 /\ b = Where[f][i]
    BY <2>4, <2>6, <2>7, Consts
  <2>9. Content(f)[k] = fs.data[b][c]
    BY <2>1, <2>3, <2>7, <2>8 DEF Content
  <2>10. Byte(f, j) = fs.data[b][c]
    BY <2>3, <2>8 DEF Byte
  <2>11. fs.data[b][c] \in Nat
    BY <1>4, <2>4, <2>8 DEF Datas
  <2> QED BY <2>1, <2>9, <2>10, <2>11
<1>6. Content(f) = [k \in 1..Size(f) |-> Content(f)[k]]
  BY DEF Content
<1>7. Content(f) \in [1..Size(f) -> Nat]
  BY <1>5, <1>6
<1> QED BY <1>5, <1>7 DEF ContentIs

(* ... and in the next one.                                                *)
LEMMA ContentThen ==
  (SfsInv /\ fs.oops = "no" => \A f \in File : ContentIs(f))'
BY ContentNow, PTL

(* A function on 1 .. n is a sequence of length n.                         *)
LEMMA SequenceOf ==
  ASSUME NEW n \in Nat, NEW s \in [1..n -> Nat]
  PROVE  s \in Seq(Nat) /\ Len(s) = n /\ DOMAIN s = 1..n
OBVIOUS

(* What file_read has copied is what the file holds.                       *)
LEMMA ReadMeans ==
  ASSUME BytesInv
  PROVE  ReadsBack
<1> SUFFICES ASSUME call.op = "read", call.step = "out"
             PROVE  call.got = SubSeq(Content(fd[call.d].file), call.off + 1,
                                      Smaller(call.off + call.len,
                                              Len(Content(fd[call.d].file))))
  BY DEF ReadsBack
<1>1. SfsInv /\ fs.oops = "no" /\ InIo /\ IoDone
  BY DEF BytesInv, InIo
<1>2. /\ IoFits /\ Target = fd[call.d].file /\ Target \in File /\ call.got \in Seq(Nat)
      /\ call.off \in Nat /\ call.alen \in Nat /\ call.len \in Nat /\ call.end \in Nat
  BY <1>1, InCallIo
<1>3. PICK c, z : c = Content(Target) /\ z = Size(Target)
  OBVIOUS
<1>4. z \in Nat /\ z = View[Target].size
  BY <1>1, <1>2, <1>3, LengthsNow DEF LengthsFit
<1>5. c \in [1..z -> Nat] /\ \A k \in 1..z : c[k] = Byte(Target, k - 1)
  BY <1>1, <1>2, <1>3, ContentNow DEF ContentIs
<1>6. Len(c) = z
  BY <1>4, <1>5, SequenceOf
<1>7. call.off + call.alen = call.end /\ call.end = Smaller(call.off + call.len, z)
  BY <1>1, <1>2, <1>4 DEF IoFits, Reach
<1>8. call.end <= z
  <2>1. PICK a : a = call.off + call.len
    OBVIOUS
  <2>2. a \in Nat
    BY <1>2, <2>1
  <2>3. call.end = IF a < z THEN a ELSE z
    BY <1>7, <2>1 DEF Smaller
  <2> QED BY <1>4, <2>2, <2>3
<1>9. Len(call.got) = call.alen
      /\ \A k \in 1..call.alen : call.got[k] = Byte(Target, call.off + k - 1)
  BY <1>1 DEF IoDone
<1>10. PICK m : m = call.off + 1
  OBVIOUS
<1>11. m \in Int /\ call.end \in Int /\ \A k \in m..call.end : c[k] \in Nat
  BY <1>2, <1>4, <1>5, <1>8, <1>10
<1>12. PICK r : r = SubSeq(c, m, call.end)
  OBVIOUS
<1>13. /\ r \in Seq(Nat) /\ Len(r) = IF m <= call.end THEN call.end - m + 1 ELSE 0
       /\ \A k \in 1..(call.end - m + 1) : r[k] = c[m + k - 1]
  BY <1>11, <1>12, SubSeqProperties
<1>14. Len(r) = call.alen
  BY <1>2, <1>7, <1>10, <1>13
<1>15. ASSUME NEW k \in 1..call.alen PROVE call.got[k] = r[k]
  <2>1. PICK j : j = call.off + k
    OBVIOUS
  <2>2. k \in 1..(call.end - m + 1) /\ m + k - 1 = j /\ j \in 1..z /\ call.off + k - 1 = j - 1
    <3>1. PICK o, a, e : o = call.off /\ a = call.alen /\ e = call.end
      OBVIOUS
    <3>2. o \in Nat /\ a \in Nat /\ e \in Nat /\ o + a = e /\ e <= z
      BY <1>2, <1>7, <1>8, <3>1
    <3>3. m = o + 1 /\ j = o + k /\ k \in 1..a
      BY <1>10, <2>1, <3>1
    <3>4. k \in 1..(e - m + 1) /\ m + k - 1 = j /\ j \in 1..z /\ o + k - 1 = j - 1
      BY <1>4, <3>2, <3>3
    <3> QED BY <3>1, <3>4
  <2>3. r[k] = c[j]
    BY <1>13, <2>2
  <2>4. c[j] = Byte(Target, j - 1)
    BY <1>5, <2>2
  <2>5. call.got[k] = Byte(Target, j - 1)
    BY <1>9, <2>2
  <2> QED BY <2>3, <2>4, <2>5
<1>16. call.got = r
  BY <1>2, <1>9, <1>13, <1>14, <1>15, SeqEqual
<1> QED BY <1>2, <1>3, <1>6, <1>7, <1>10, <1>12, <1>16

(* file_read returns the bytes of the file from pos on, as many as are     *)
(* asked for or there are, for any size of a block: across the partial     *)
(* blocks at both ends, the direct and the indirect ones, after any        *)
(* sequence of writes, seeks and cuts.                                     *)
THEOREM ReadsBackCorrect ==
  ASSUME Careful
  PROVE  Spec => []ReadsBack
BY BytesInvariant, ReadMeans, PTL

(* The kernel stops for one reason only, whatever the largest size is that *)
(* sfs_io_nolock and sfs_truncfile let pass: one block more for a file     *)
(* that has all the blocks an inode can address.                           *)
THEOREM OnlyTooLarge ==
  ASSUME Careful
  PROVE  Spec => []StopsOnlyIfTooLarge
<1>1. SfsInv => StopsOnlyIfTooLarge
  BY DEF SfsInv, StopsOnlyIfTooLarge, Top
<1> QED BY <1>1, SfsInvariant, PTL

-----------------------------------------------------------------------------
(* Files are sequences of bytes.                                           *)

(* A file that keeps its length and its bytes keeps its content.           *)
LEMMA KeepsContent ==
  ASSUME SfsInv, fs.oops = "no", SfsInv', fs'.oops = "no", NEW f \in File,
         Size(f)' = Size(f), \A k \in Nat : k < Size(f) => Byte(f, k)' = Byte(f, k)
  PROVE  Content(f)' = Content(f)
<1>1. ContentIs(f) /\ ContentIs(f)' /\ LengthsFit(f)
  BY ContentNow, ContentThen, LengthsNow
<1>2. PICK c, e, z : c = Content(f) /\ e = Content(f)' /\ z = Size(f)
  OBVIOUS
<1>3. z \in Nat /\ c \in [1..z -> Nat] /\ e \in [1..z -> Nat]
  BY <1>1, <1>2 DEF ContentIs, LengthsFit
<1>4. ASSUME NEW k \in 1..z PROVE e[k] = c[k]
  <2>1. c[k] = Byte(f, k - 1) /\ e[k] = Byte(f, k - 1)'
    BY <1>1, <1>2 DEF ContentIs
  <2>2. k - 1 \in Nat /\ k - 1 < Size(f)
    BY <1>2, <1>3
  <2> QED BY <2>1, <2>2
<1> QED BY <1>2, <1>3, <1>4

(* The content of a file that is edited, byte by byte.                     *)
LEMMA EditsContent ==
  ASSUME SfsInv, fs.oops = "no", SfsInv', fs'.oops = "no", NEW f \in File,
         NEW n, NEW lo \in Nat, NEW hi \in Nat, NEW v, Edits(f, n, lo, hi, v)
  PROVE  /\ n \in Nat /\ Len(Content(f)) = Size(f) /\ Size(f) \in Nat
         /\ Content(f)' \in [1..n -> Nat]
         /\ \A k \in 1..n : Content(f)'[k] = IF k > lo /\ k <= hi THEN v
                                             ELSE IF k <= Size(f) THEN Content(f)[k] ELSE 0
         /\ \A g \in File \ {f} : Content(g)' = Content(g)
<1>1. /\ \A g \in File : ContentIs(g) /\ ContentIs(g)' /\ LengthsFit(g)
      /\ LengthsFit(f)'
  BY ContentNow, ContentThen, LengthsNow, LengthsThen
<1>2. Size(f)' = n /\ \A g \in File \ {f} : Size(g)' = Size(g)
  BY DEF Edits
<1>3. PICK c, e, z : c = Content(f) /\ e = Content(f)' /\ z = Size(f)
  OBVIOUS
<1>4. n \in Nat /\ z \in Nat /\ c \in [1..z -> Nat] /\ e \in [1..n -> Nat]
  BY <1>1, <1>2, <1>3 DEF ContentIs, LengthsFit
<1>5. Len(c) = z
  BY <1>4, SequenceOf
<1>6. ASSUME NEW k \in 1..n
      PROVE  e[k] = IF k > lo /\ k <= hi THEN v ELSE IF k <= z THEN c[k] ELSE 0
  <2>1. PICK j : j = k - 1
    OBVIOUS
  <2>2. j \in Nat /\ j < n /\ (k > lo <=> lo <= j) /\ (k <= hi <=> j < hi) /\ (k <= z <=> j < z)
    BY <1>4, <2>1
  <2>3. e[k] = Byte(f, j)'
    BY <1>1, <1>2, <1>3, <2>1 DEF ContentIs
  <2>4. k <= z => c[k] = Byte(f, j)
    BY <1>1, <1>3, <1>4, <2>1 DEF ContentIs
  <2>5. Byte(f, j)' = IF lo <= j /\ j < hi THEN v ELSE IF j < z THEN Byte(f, j) ELSE 0
    BY <1>2, <1>3, <2>2 DEF Edits
  <2> QED BY <2>2, <2>3, <2>4, <2>5
<1>7. ASSUME NEW g \in File \ {f} PROVE Content(g)' = Content(g)
  <2>1. Size(g)' = Size(g) /\ Size(g) \in Nat
    BY <1>1, <1>2 DEF LengthsFit
  <2>2. \A k \in Nat : k < Size(g) => Byte(g, k)' = Byte(g, k)
    BY <2>1 DEF Edits
  <2> QED BY <2>1, <2>2, KeepsContent
<1> QED BY <1>3, <1>4, <1>5, <1>6, <1>7

(* The files as the abstract specification has them.                       *)
Contents == [f \in File |-> Content(f)]

(* A step that changes the bytes of one file.                              *)
LEMMA ContentsStep ==
  ASSUME NEW f \in File, NEW c, Content(f)' = c,
         \A g \in File \ {f} : Content(g)' = Content(g)
  PROVE  Contents' = [Contents EXCEPT ![f] = c]
BY DEF Contents

(* A write.                                                                *)
LEMMA WriteRefines ==
  ASSUME SfsInv, fs.oops = "no", SfsInv', fs'.oops = "no", NEW f \in File,
         NEW lo \in 0..MaxFileSize, NEW hi \in 0..MaxFileSize, lo < hi,
         Edits(f, Larger(Size(f), hi), lo, hi, 1)
  PROVE  /\ hi - lo \in 1..(MaxFileSize - lo)
         /\ Contents' = [Contents EXCEPT ![f] = Abstract!Written(Contents[f], lo, hi - lo, 1)]
<1>1. PICK n : n = Larger(Size(f), hi)
  OBVIOUS
<1>2. lo \in Nat /\ hi \in Nat /\ hi - lo \in 1..(MaxFileSize - lo) /\ lo + (hi - lo) = hi
  BY Consts
<1>3. /\ n \in Nat /\ Len(Content(f)) = Size(f) /\ Size(f) \in Nat
      /\ Content(f)' \in [1..n -> Nat]
      /\ \A k \in 1..n : Content(f)'[k] = IF k > lo /\ k <= hi THEN 1
                                          ELSE IF k <= Size(f) THEN Content(f)[k] ELSE 0
      /\ \A g \in File \ {f} : Content(g)' = Content(g)
  BY <1>1, <1>2, EditsContent
<1>4. PICK c, e, z : c = Content(f) /\ e = Content(f)' /\ z = Size(f)
  OBVIOUS
<1>5. n = IF hi > z THEN hi ELSE z
  BY <1>1, <1>2, <1>3, <1>4 DEF Larger
<1>6. e = [k \in 1..n |-> IF k > lo /\ k <= hi THEN 1 ELSE IF k <= z THEN c[k] ELSE 0]
  BY <1>3, <1>4
<1>7. Abstract!Resized(c, n) = [k \in 1..n |-> IF k <= z THEN c[k] ELSE 0]
  BY <1>3, <1>4 DEF Abstract!Resized
<1>8. Abstract!Written(c, lo, hi - lo, 1) =
        [k \in 1..n |-> IF k > lo /\ k <= hi THEN 1 ELSE IF k <= z THEN c[k] ELSE 0]
  <2>1. Abstract!Written(c, lo, hi - lo, 1) =
          [k \in DOMAIN Abstract!Resized(c, n) |->
             IF k > lo /\ k <= hi THEN 1 ELSE Abstract!Resized(c, n)[k]]
    BY <1>2, <1>3, <1>4, <1>5 DEF Abstract!Written
  <2> QED BY <1>7, <2>1
<1>9. Contents[f] = c
  BY <1>4 DEF Contents
<1>10. Content(f)' = Abstract!Written(Contents[f], lo, hi - lo, 1)
  BY <1>4, <1>6, <1>8, <1>9
<1>11. Contents' = [Contents EXCEPT ![f] = Abstract!Written(Contents[f], lo, hi - lo, 1)]
  BY <1>3, <1>10, ContentsStep
<1> QED BY <1>2, <1>11

(* A new length.                                                           *)
LEMMA SetLenRefines ==
  ASSUME SfsInv, fs.oops = "no", SfsInv', fs'.oops = "no", NEW f \in File,
         NEW n \in 0..MaxFileSize, Edits(f, n, 0, 0, 0)
  PROVE  Contents' = [Contents EXCEPT ![f] = Abstract!Resized(Contents[f], n)]
<1>1. /\ Len(Content(f)) = Size(f) /\ Size(f) \in Nat
      /\ Content(f)' \in [1..n -> Nat]
      /\ \A k \in 1..n : Content(f)'[k] = IF k > 0 /\ k <= 0 THEN 0
                                          ELSE IF k <= Size(f) THEN Content(f)[k] ELSE 0
      /\ \A g \in File \ {f} : Content(g)' = Content(g)
  BY EditsContent
<1>2. PICK c, e, z : c = Content(f) /\ e = Content(f)' /\ z = Size(f)
  OBVIOUS
<1>3. ASSUME NEW k \in 1..n PROVE e[k] = IF k <= z THEN c[k] ELSE 0
  BY <1>1, <1>2, Consts
<1>4. e = [k \in 1..n |-> IF k <= z THEN c[k] ELSE 0]
  BY <1>1, <1>2, <1>3
<1>5. Abstract!Resized(c, n) = [k \in 1..n |-> IF k <= z THEN c[k] ELSE 0]
  BY <1>1, <1>2 DEF Abstract!Resized
<1>6. Contents[f] = c
  BY <1>2 DEF Contents
<1>7. Content(f)' = Abstract!Resized(Contents[f], n)
  BY <1>2, <1>4, <1>5, <1>6
<1> QED BY <1>1, <1>7, ContentsStep

(* A kernel that stops.                                                    *)
LEMMA StopsContent ==
  ASSUME Stops
  PROVE  Contents' = Contents
<1>1. fs'.data = fs.data /\ \A g \in File : Din(g)' = Din(g) /\ Size(g)' = Size(g)
  <2>1. \A g \in File : View[g] = Din(g) /\ View'[g] = Din(g)'
    BY DEF View
  <2> QED BY <2>1 DEF Stops
<1>2. \A g \in File : Entries(g)' = Entries(g)
  BY <1>1 DEF Entries
<1>3. \A g \in File : Content(g)' = Content(g)
  BY <1>1, <1>2 DEF Content
<1> QED BY <1>3 DEF Contents

(* What a step may do is what the abstract files do.                       *)
LEMMA AllowedRefines ==
  ASSUME BytesInv, fs.oops = "no", BytesInv', Allowed
  PROVE  \/ Contents' = Contents
         \/ \E f \in File : \E lo \in 0..MaxFileSize, v \in {1} :
              \E n \in 1..(MaxFileSize - lo) :
                Contents' = [Contents EXCEPT ![f] = Abstract!Written(Contents[f], lo, n, v)]
         \/ \E f \in File : \E n \in 0..MaxFileSize :
              Contents' = [Contents EXCEPT ![f] = Abstract!Resized(Contents[f], n)]
<1>1. SfsInv /\ SfsInv'
  BY DEF BytesInv
<1>2. CASE Stops
  BY <1>2, StopsContent
<1>3. CASE fs'.oops = "no" /\ Keeps
  <2>1. \A f \in File : Content(f)' = Content(f)
    BY <1>1, <1>3, KeepsContent DEF Keeps
  <2> QED BY <2>1 DEF Contents
<1>4. CASE fs'.oops = "no" /\ \E f \in File : \E lo, hi \in 0..MaxFileSize :
             lo < hi /\ Edits(f, Larger(Size(f), hi), lo, hi, 1)
  <2>1. PICK f \in File, lo \in 0..MaxFileSize, hi \in 0..MaxFileSize :
          lo < hi /\ Edits(f, Larger(Size(f), hi), lo, hi, 1)
    BY <1>4
  <2>2. /\ hi - lo \in 1..(MaxFileSize - lo)
        /\ Contents' = [Contents EXCEPT ![f] = Abstract!Written(Contents[f], lo, hi - lo, 1)]
    BY <1>1, <1>4, <2>1, WriteRefines
  <2> QED BY <2>2, Zenon
<1>5. CASE fs'.oops = "no" /\ \E f \in File : \E n \in 0..MaxFileSize : Edits(f, n, 0, 0, 0)
  <2>1. PICK f \in File, n \in 0..MaxFileSize : Edits(f, n, 0, 0, 0)
    BY <1>5
  <2>2. Contents' = [Contents EXCEPT ![f] = Abstract!Resized(Contents[f], n)]
    BY <1>1, <1>5, <2>1, SetLenRefines
  <2> QED BY <2>2, Zenon
<1> QED BY <1>2, <1>3, <1>4, <1>5, Zenon DEF Allowed

(* A disk with empty files.                                                *)
LEMMA InitContents ==
  ASSUME Init
  PROVE  Contents = [f \in File |-> <<>>]
<1>1. call = None /\ \A f \in File : Din(f) = EmptyInode
  BY DEF Init, Din
<1>2. \A f \in File : Size(f) = 0
  BY <1>1, NoneType DEF Size, EmptyInode
<1>3. SfsInv /\ fs.oops = "no"
  BY InitInv DEF Init
<1>4. ASSUME NEW f \in File PROVE Content(f) = <<>>
  <2>1. PICK c : c = Content(f)
    OBVIOUS
  <2>2. c \in [1..0 -> Nat]
    BY <1>2, <1>3, <2>1, ContentNow DEF ContentIs
  <2>3. c \in Seq(Nat) /\ Len(c) = 0
    BY <2>2, SequenceOf
  <2>4. c = <<>>
    BY <2>3, EmptySeq
  <2> QED BY <2>1, <2>4
<1> QED BY <1>4 DEF Contents

(* Blocks, the block map with its indirect block, partial blocks at both   *)
(* ends, truncation, positions behind the end and write-back together      *)
(* implement files that are sequences of bytes, for every size of the      *)
(* disk, of a block and of an inode: every step of a call writes bytes at  *)
(* an offset, sets a length or leaves all the files as they are.           *)
THEOREM FilesAreBytes ==
  ASSUME Careful
  PROVE  Spec => IsByteFile
<1>1. Init => Abstract!Init
  <2> SUFFICES ASSUME Init PROVE Contents = [f \in File |-> <<>>]
    BY DEF Abstract!Init, Contents
  <2> QED BY InitContents
<1>2. ASSUME BytesInv, [Next]_vars
      PROVE  [Abstract!Next]_Contents
  <2>1. CASE UNCHANGED vars
    <3>1. fs' = fs /\ disk' = disk /\ fd' = fd /\ call' = call
      BY <2>1 DEF vars
    <3>2. \A f : Din(f)' = Din(f) /\ Size(f)' = Size(f)
      BY <3>1 DEF Din, Loaded, Users, Size
    <3>3. \A f : Entries(f)' = Entries(f)
      BY <3>1, <3>2 DEF Entries
    <3>4. \A f : Content(f)' = Content(f)
      BY <3>1, <3>2, <3>3 DEF Content
    <3> QED BY <3>4 DEF Contents
  <2>2. CASE Next
    <3>1. fs.oops = "no"
      BY <2>2, Zenon DEF Next, Open, Close, Fsync, Dup, Seek, TruncateTurn, TruncateEnd, Io, IoHead,
         IoBody, IoTail, IoOut, Ready
    <3>2. BytesInv' /\ Allowed
      BY <1>2, <2>2, BytesStep
    <3> QED BY <1>2, <3>1, <3>2, AllowedRefines, Zenon
            DEF Abstract!Next, Abstract!Write, Abstract!SetLen, Contents
  <2> QED BY <1>2, <2>1, <2>2
<1>3. BytesInv /\ [Next]_vars => [Abstract!Next]_([f \in File |-> Content(f)])
  BY <1>2 DEF Contents
<1> QED BY <1>1, <1>3, BytesInvariant, PTL DEF Spec, IsByteFile, Abstract!Spec

=============================================================================
