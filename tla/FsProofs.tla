------------------------------- MODULE FsProofs -------------------------------
(***************************************************************************)
(* Proofs about the file system (Fs), for every number of inodes, blocks,  *)
(* direct blocks and cells, and any number of crashes: whatever block      *)
(* write power fails after, no path leads to something free or shared, and *)
(* what a completed fs_write stored is read back.                          *)
(*                                                                         *)
(* The running call has fixed its block writes when it starts.  The        *)
(* invariant is therefore about every disk they lead through: each has a   *)
(* set of inodes in use, closed under following directory entries, for     *)
(* which the disk is sound.                                                *)
(***************************************************************************)
EXTENDS Fs, NatLemmas, SequenceTheorems, FiniteSetTheorems, FunctionTheorems, TLAPS

-----------------------------------------------------------------------------
(* Disks *)

Blocks  == 0..(Direct - 1)
Indices == 0..(Cells - 1)
Data    == 0..(TotalBlocks - 1)
Claims  == [Inodes -> [Positions -> Payloads \cup {Zero}]]

Disk == [magic : BOOLEAN, imap : SUBSET Inodes, bmap : SUBSET Data,
         inode : [Inodes -> Inode], data : [DeviceBlocks -> [Indices -> Cell]]]

Ptr(d, i, k) == d.inode[i].direct_blocks[k]

\* Slot j of block k of directory i holds an entry.
Used(d, i, k, j) ==
    d.inode[i].type = "DIR" /\ Ptr(d, i, k) # 0 /\ d.data[Ptr(d, i, k)][j].id # 0

At(d, i, k, j) == d.data[Ptr(d, i, k)][j]

\* An inode points to data blocks, behind the one that follows the tables.
Placed(v) == \A k \in Blocks : v.direct_blocks[k] = 0 \/ v.direct_blocks[k] > DataStart + 1

InUse(d, U) == Root \in U /\ U \subseteq d.imap /\ \A i \in U : d.inode[i].type # "NONE"

Marked(d, U) == \A i \in U, k \in Blocks : Ptr(d, i, k) # 0 => Ptr(d, i, k) - 1 \in d.bmap

Apart(d, U) == \A i, h \in U, k, l \in Blocks :
    Ptr(d, i, k) # 0 /\ Ptr(d, i, k) = Ptr(d, h, l) => i = h /\ k = l

Closed(d, U) == \A i \in U, k \in Blocks, j \in Indices :
    Used(d, i, k, j) => At(d, i, k, j).id \in U

Rootless(d, U) == \A i \in U, k \in Blocks, j \in Indices :
    Used(d, i, k, j) => At(d, i, k, j).id # Root

Single(d, U) == \A i, h \in U, k, l \in Blocks, j, m \in Indices :
    Used(d, i, k, j) /\ Used(d, h, l, m) /\ At(d, i, k, j).id = At(d, h, l, m).id
      => i = h /\ k = l /\ j = m

Named(d, U) == \A i \in U, k, l \in Blocks, j, m \in Indices :
    Used(d, i, k, j) /\ Used(d, i, l, m) /\ At(d, i, k, j).name = At(d, i, l, m).name
      => k = l /\ j = m

\* The files in use hold the bytes c claims.
Kept(d, U, c) == \A i \in U, p \in Positions : c[i][p] # Zero =>
    /\ d.inode[i].type = "FILE" /\ p < d.inode[i].size
    /\ Ptr(d, i, p \div Cells) # 0 /\ At(d, i, p \div Cells, p % Cells) = Byte(c[i][p])

\* Disk d is sound for the inodes U in use, the claims c and blind = x.
Sound(d, U, c, x) ==
    /\ d \in Disk /\ Reserved \subseteq d.bmap /\ \A i \in Inodes : Placed(d.inode[i])
    /\ InUse(d, U) /\ Marked(d, U) /\ Apart(d, U)
    /\ Closed(d, U) /\ Rootless(d, U) /\ Single(d, U)
    /\ x \/ Named(d, U)
    /\ Kept(d, U, c)

Slots2(d, i) == {s \in Blocks \X Indices : Used(d, i, s[1], s[2])}

\* Nothing is marked that is not in use, everything in use is on a path from the
\* root, and the sizes of directories are right.
Tidy(d, U) ==
    /\ d.imap = U
    /\ \A b \in Data \ Reserved : b \in d.bmap =>
          \E i \in U, k \in Blocks : Ptr(d, i, k) = b + 1
    /\ \A S \in SUBSET Inodes : Root \in S /\ Closed(d, S) => U \subseteq S
    /\ \A i \in U : d.inode[i].type = "DIR" => d.inode[i].size = Cardinality(Slots2(d, i))

-----------------------------------------------------------------------------
(* The invariant *)

\* The block writes ws take a sound disk d to e, for which U is in use, through
\* sound disks.
Through(d, ws, e, U, c, x) ==
    \E ds, us :
      /\ ds[0] = d /\ ds[Len(ws)] = e /\ us[Len(ws)] = U
      /\ \A n \in 1..Len(ws) : ds[n] = Written(ds[n - 1], ws[n])
      /\ \A n \in 0..Len(ws) : Sound(ds[n], us[n], c, x)

Value == (SUBSET Nat) \cup Inode \cup [Indices -> Cell]
BlockWrite == [block : {"imap", "bmap", "inode", "data"}, at : Nat,
               value : Value]

TypeInv ==
    /\ up \in BOOLEAN /\ total \in {0, TotalInodes} /\ writes \in Seq(BlockWrite)
    /\ content \in Claims /\ promise \in Claims
    /\ crashes \in 0..MaxCrashes /\ lost \in BOOLEAN /\ blind \in BOOLEAN

\* Calls run between fs_init and a crash, on a disk with the magic number.
PhaseInv ==
    /\ total # 0 => up /\ disk.magic
    /\ up /\ disk.magic => total # 0
    /\ total = 0 => imap = {} /\ bmap = {} /\ writes = <<>>

\* Where the running call leads: memory is then what the disk says.
LeadsTo(e, U) ==
    /\ Through(disk, writes, e, U, content, blind)
    /\ held \subseteq U
    /\ Kept(e, U, promise)
    /\ total # 0 => imap = e.imap /\ bmap = e.bmap
    /\ lost \/ Tidy(e, U)

FsInv == TypeInv /\ PhaseInv /\ \E e, U : LeadsTo(e, U)

-----------------------------------------------------------------------------
(* Positions and minima *)

LEMMA Consts ==
    /\ TotalInodes \in Nat /\ TotalInodes >= 1 /\ Direct \in Nat /\ Direct >= 1
    /\ Cells \in Nat /\ Cells >= 1 /\ DataStart \in Nat /\ TotalBlocks \in Nat
    /\ DataStart < TotalBlocks /\ MaxCrashes \in Nat /\ Word \in Nat
  BY FsAssumption

\* Products grow with their first factor.
LEMMA ProductGrows ==
    ASSUME NEW a \in Nat, NEW b \in Nat, NEW m \in Nat, a <= b
    PROVE  a * m <= b * m
  OBVIOUS

\* A position is a block index and a cell index.
LEMMA PositionParts ==
    ASSUME NEW p \in Nat
    PROVE  /\ p \div Cells \in Nat /\ p % Cells \in Indices
           /\ p = (p \div Cells) * Cells + (p % Cells)
           /\ p \in Positions <=> p \div Cells \in Blocks
<1> DEFINE q == p \div Cells
           r == p % Cells
<1>1. q \in Nat /\ r \in 0..(Cells - 1) /\ p = Cells * q + r
  BY Consts
<1> HIDE DEF q, r
<1>2. Cells * q = q * Cells /\ q * Cells \in Nat /\ Direct * Cells \in Nat
  BY <1>1, Consts
<1>3. ASSUME q \in Blocks PROVE p \in Positions
  <2>1. q + 1 \in Nat /\ q + 1 <= Direct
    BY <1>1, <1>3, Consts DEF Blocks
  <2>2. (q + 1) * Cells <= Direct * Cells
    BY <2>1, ProductGrows, Consts
  <2>3. (q + 1) * Cells = q * Cells + Cells
    BY <1>1, Consts
  <2> QED BY <1>1, <1>2, <2>2, <2>3, Consts DEF Positions
<1>4. ASSUME p \in Positions PROVE q \in Blocks
  <2>1. CASE q >= Direct
    <3>1. Direct * Cells <= q * Cells
      BY <1>1, <2>1, ProductGrows, Consts
    <3> QED BY <1>1, <1>2, <1>4, <3>1, Consts DEF Positions
  <2> QED BY <1>1, <2>1, Consts DEF Blocks
<1> QED BY <1>1, <1>2, <1>3, <1>4, Consts DEF q, r, Indices

\* Every pair of indices is the parts of one position.
LEMMA PositionOf ==
    ASSUME NEW k \in Blocks, NEW j \in Indices
    PROVE  LET p == k * Cells + j IN
           p \in Positions /\ p \div Cells = k /\ p % Cells = j
<1> DEFINE p == k * Cells + j
<1>1. k \in Nat /\ j \in Nat /\ j < Cells /\ k * Cells \in Nat /\ p \in Nat
  BY Consts DEF Blocks, Indices
<1>2. p \div Cells = k /\ p % Cells = j
  BY <1>1, Consts
<1>3. p \in Positions
  BY <1>1, <1>2, PositionParts
<1> QED BY <1>2, <1>3

\* The least element of a set of natural numbers.
LEMMA MinOf ==
    ASSUME NEW T \in SUBSET Nat, T # {}
    PROVE  Min(T) \in T /\ \A y \in T : Min(T) <= y
  BY LeastElement DEF Min

-----------------------------------------------------------------------------
(* One block write *)

LEMMA WriteInodeBitmap ==
    ASSUME NEW d \in Disk, NEW m \in SUBSET Inodes
    PROVE  LET e == Written(d, InodeBitmap(m)) IN
           /\ e \in Disk /\ e.magic = d.magic /\ e.imap = m /\ e.bmap = d.bmap
           /\ e.inode = d.inode /\ e.data = d.data
  BY DEF Written, InodeBitmap, Disk

LEMMA WriteBlockBitmap ==
    ASSUME NEW d \in Disk, NEW m \in SUBSET Data
    PROVE  LET e == Written(d, BlockBitmap(m)) IN
           /\ e \in Disk /\ e.magic = d.magic /\ e.imap = d.imap /\ e.bmap = m
           /\ e.inode = d.inode /\ e.data = d.data
  BY DEF Written, BlockBitmap, Disk

LEMMA WriteInodeBlock ==
    ASSUME NEW d \in Disk, NEW i \in Inodes, NEW v \in Inode
    PROVE  LET e == Written(d, InodeBlock(i, v)) IN
           /\ e \in Disk /\ e.magic = d.magic /\ e.imap = d.imap /\ e.bmap = d.bmap
           /\ e.inode = [d.inode EXCEPT ![i] = v] /\ e.data = d.data
  BY DEF Written, InodeBlock, Disk

LEMMA WriteDataBlock ==
    ASSUME NEW d \in Disk, NEW b \in DeviceBlocks, NEW v \in [Indices -> Cell]
    PROVE  LET e == Written(d, DataBlock(b, v)) IN
           /\ e \in Disk /\ e.magic = d.magic /\ e.imap = d.imap /\ e.bmap = d.bmap
           /\ e.inode = d.inode /\ e.data = [d.data EXCEPT ![b] = v]
  BY DEF Written, DataBlock, Disk

LEMMA WriteTypes ==
    /\ \A m \in SUBSET Inodes : InodeBitmap(m) \in BlockWrite
    /\ \A m \in SUBSET Data : BlockBitmap(m) \in BlockWrite
    /\ \A i \in Inodes, v \in Inode : InodeBlock(i, v) \in BlockWrite
    /\ \A b \in DeviceBlocks, v \in [Indices -> Cell] : DataBlock(b, v) \in BlockWrite
<1>1. ASSUME NEW m \in SUBSET Inodes PROVE InodeBitmap(m) \in BlockWrite
  <2>1. m \in SUBSET Nat
    BY Consts DEF Inodes
  <2>2. m \in Value
    BY <2>1 DEF Value
  <2> QED BY <2>1, <2>2 DEF InodeBitmap, BlockWrite
<1>2. ASSUME NEW m \in SUBSET Data PROVE BlockBitmap(m) \in BlockWrite
  <2>1. m \in SUBSET Nat
    BY Consts DEF Data
  <2>2. m \in Value
    BY <2>1 DEF Value
  <2> QED BY <2>1, <2>2 DEF BlockBitmap, BlockWrite
<1>3. ASSUME NEW i \in Inodes, NEW v \in Inode PROVE InodeBlock(i, v) \in BlockWrite
  <2>1. i \in Nat
    BY Consts DEF Inodes
  <2>2. v \in Value
    BY <2>1 DEF Value
  <2> QED BY <2>1, <2>2 DEF InodeBlock, BlockWrite
<1>4. ASSUME NEW b \in DeviceBlocks, NEW v \in [Indices -> Cell]
      PROVE  DataBlock(b, v) \in BlockWrite
  <2>1. b \in Nat
    BY Consts DEF DeviceBlocks
  <2>2. v \in Value
    BY <2>1 DEF Value
  <2> QED BY <2>1, <2>2 DEF DataBlock, BlockWrite
<1> QED BY <1>1, <1>2, <1>3, <1>4

-----------------------------------------------------------------------------
(* Sequences of block writes *)

LEMMA TwoWrites ==
    ASSUME NEW v \in BlockWrite, NEW w \in BlockWrite
    PROVE  /\ <<v, w>> \in Seq(BlockWrite)
           /\ Append(Append(<<>>, v), w) = <<v, w>>
<1> DEFINE s == Append(Append(<<>>, v), w)
           t == <<v, w>>
<1>1. s \in Seq(BlockWrite) /\ t \in Seq(BlockWrite) /\ Len(s) = 2 /\ Len(t) = 2
  OBVIOUS
<1>2. s[1] = v /\ s[2] = w /\ t[1] = v /\ t[2] = w
  OBVIOUS
<1> HIDE DEF s, t
<1>3. \A i \in 1..Len(s) : s[i] = t[i]
  BY <1>1, <1>2
<1>4. s = t
  BY <1>1, <1>3, SeqEqual
<1> QED BY <1>1, <1>4 DEF s, t

LEMMA WritesJoined ==
    ASSUME NEW s \in Seq(BlockWrite), NEW v \in BlockWrite, NEW w \in BlockWrite
    PROVE  /\ s \o <<>> = s /\ s \o <<v>> = Append(s, v)
           /\ s \o <<v, w>> = Append(Append(s, v), w)
           /\ s \o <<v, w>> \in Seq(BlockWrite) /\ s \o <<v>> \in Seq(BlockWrite)
<1>1. s \o <<>> = s /\ s \o <<v>> = Append(s, v) /\ s \o <<v>> \in Seq(BlockWrite)
  OBVIOUS
<1>2. s \o <<v, w>> = Append(Append(s, v), w) /\ s \o <<v, w>> \in Seq(BlockWrite)
  OBVIOUS
<1> QED BY <1>1, <1>2

LEMMA ThreeJoined ==
    ASSUME NEW s \in Seq(BlockWrite), NEW t \in BlockWrite, NEW v \in BlockWrite, NEW w \in BlockWrite
    PROVE  /\ s \o (<<t>> \o <<v, w>>) = Append(Append(Append(s, t), v), w)
           /\ s \o (<<t>> \o <<v, w>>) \in Seq(BlockWrite)
<1>1. <<t>> \in Seq(BlockWrite) /\ <<v, w>> \in Seq(BlockWrite) /\ Append(s, t) \in Seq(BlockWrite)
  OBVIOUS
<1>2. s \o (<<t>> \o <<v, w>>) = (s \o <<t>>) \o <<v, w>>
  BY <1>1, ConcatAssociative
<1>3. s \o <<t>> = Append(s, t)
  BY WritesJoined
<1>4. Append(s, t) \o <<v, w>> = Append(Append(Append(s, t), v), w)
  BY <1>1, WritesJoined
<1>5. Append(s, t) \o <<v, w>> \in Seq(BlockWrite)
  BY <1>1
<1> QED BY <1>2, <1>3, <1>4, <1>5

LEMMA NoWrites ==
    ASSUME NEW d, NEW U, NEW c, NEW x, Sound(d, U, c, x)
    PROVE  Through(d, <<>>, d, U, c, x)
<1> DEFINE ds == [n \in 0..0 |-> d]
           us == [n \in 0..0 |-> U]
<1>1. /\ ds[0] = d /\ us[0] = U
      /\ \A n \in 1..0 : ds[n] = Written(ds[n - 1], <<>>[n])
      /\ \A n \in 0..0 : Sound(ds[n], us[n], c, x)
  OBVIOUS
<1> HIDE DEF ds, us
<1> QED BY <1>1 DEF Through

LEMMA OneMore ==
    ASSUME NEW d, NEW ws \in Seq(BlockWrite), NEW e, NEW U, NEW c, NEW x,
           Through(d, ws, e, U, c, x),
           NEW w \in BlockWrite, NEW V, Sound(Written(e, w), V, c, x)
    PROVE  Through(d, Append(ws, w), Written(e, w), V, c, x)
<1> DEFINE L == Len(ws)
<1>1. PICK ds, us :
      /\ ds[0] = d /\ ds[L] = e /\ us[L] = U
      /\ \A n \in 1..L : ds[n] = Written(ds[n - 1], ws[n])
      /\ \A n \in 0..L : Sound(ds[n], us[n], c, x)
  BY DEF Through
<1> DEFINE es == [n \in 0..(L + 1) |-> IF n = L + 1 THEN Written(e, w) ELSE ds[n]]
           vs == [n \in 0..(L + 1) |-> IF n = L + 1 THEN V ELSE us[n]]
<1>2. L \in Nat /\ Len(Append(ws, w)) = L + 1
  OBVIOUS
<1>3. /\ \A n \in 1..L : Append(ws, w)[n] = ws[n]
      /\ Append(ws, w)[L + 1] = w
  OBVIOUS
<1> HIDE DEF L
<1>4. /\ es[L + 1] = Written(e, w) /\ vs[L + 1] = V
      /\ \A n \in 0..L : es[n] = ds[n] /\ vs[n] = us[n]
  BY <1>2
<1> HIDE DEF es, vs
<1>5. es[0] = d
  BY <1>1, <1>2, <1>4
<1>6. ASSUME NEW n \in 1..(L + 1) PROVE es[n] = Written(es[n - 1], Append(ws, w)[n])
  <2>1. CASE n = L + 1
    <3>1. es[n - 1] = e
      BY <1>1, <1>2, <1>4, <2>1
    <3> QED BY <1>3, <1>4, <2>1, <3>1
  <2>2. CASE n # L + 1
    <3>1. n \in 1..L /\ n - 1 \in 0..L /\ n \in 0..L
      BY <1>2, <2>2
    <3> QED BY <1>1, <1>3, <1>4, <3>1
  <2> QED BY <2>1, <2>2
<1>7. ASSUME NEW n \in 0..(L + 1) PROVE Sound(es[n], vs[n], c, x)
  <2>1. CASE n = L + 1
    BY <1>4, <2>1
  <2>2. CASE n # L + 1
    <3>1. n \in 0..L
      BY <1>2, <2>2
    <3> QED BY <1>1, <1>4, <3>1
  <2> QED BY <2>1, <2>2
<1> QED BY <1>2, <1>4, <1>5, <1>6, <1>7 DEF Through

\* The first write leaves a sound disk, and the others lead on from there.
LEMMA OneDone ==
    ASSUME NEW d, NEW ws \in Seq(BlockWrite), ws # <<>>, NEW e, NEW U, NEW c, NEW x,
           Through(d, ws, e, U, c, x)
    PROVE  Through(Written(d, Head(ws)), Tail(ws), e, U, c, x)
<1> DEFINE L == Len(ws)
           M == Len(Tail(ws))
<1>1. PICK ds, us :
      /\ ds[0] = d /\ ds[L] = e /\ us[L] = U
      /\ \A n \in 1..L : ds[n] = Written(ds[n - 1], ws[n])
      /\ \A n \in 0..L : Sound(ds[n], us[n], c, x)
  BY DEF Through
<1>2. L \in Nat /\ M \in Nat /\ L = M + 1 /\ Head(ws) = ws[1]
  OBVIOUS
<1>3. \A n \in 1..M : Tail(ws)[n] = ws[n + 1]
  OBVIOUS
<1> DEFINE es == [n \in 0..M |-> ds[n + 1]]
           vs == [n \in 0..M |-> us[n + 1]]
<1>4. \A n \in 0..M : es[n] = ds[n + 1] /\ vs[n] = us[n + 1]
  OBVIOUS
<1> HIDE DEF L, es, vs
<1>5. es[0] = Written(d, Head(ws)) /\ es[M] = e /\ vs[M] = U
  <2>1. ds[1] = Written(ds[0], ws[1])
    BY <1>1, <1>2
  <2>2. es[0] = ds[1] /\ es[M] = ds[L] /\ vs[M] = us[L]
    BY <1>2, <1>4
  <2> QED BY <1>1, <1>2, <2>1, <2>2
<1>6. ASSUME NEW n \in 1..M PROVE es[n] = Written(es[n - 1], Tail(ws)[n])
  <2>1. n + 1 \in 1..L /\ n - 1 \in 0..M /\ n \in 0..M /\ n + 1 - 1 = n /\ n - 1 + 1 = n
    BY <1>2
  <2>2. ds[n + 1] = Written(ds[n], ws[n + 1])
    BY <1>1, <2>1
  <2>3. es[n] = ds[n + 1] /\ es[n - 1] = ds[n]
    BY <1>4, <2>1
  <2> QED BY <1>3, <2>2, <2>3
<1>7. ASSUME NEW n \in 0..M PROVE Sound(es[n], vs[n], c, x)
  <2>1. n + 1 \in 0..L
    BY <1>2
  <2> QED BY <1>1, <1>4, <2>1
<1> QED BY <1>5, <1>6, <1>7 DEF Through

\* Before any write, and after the last.
LEMMA Ends ==
    ASSUME NEW d, NEW ws \in Seq(BlockWrite), NEW e, NEW U, NEW c, NEW x,
           Through(d, ws, e, U, c, x)
    PROVE  /\ \E V : Sound(d, V, c, x)
           /\ Sound(e, U, c, x)
           /\ ws = <<>> => d = e /\ Sound(d, U, c, x)
<1> DEFINE L == Len(ws)
<1>1. PICK ds, us :
      /\ ds[0] = d /\ ds[L] = e /\ us[L] = U
      /\ \A n \in 0..L : Sound(ds[n], us[n], c, x)
  BY DEF Through
<1>2. L \in Nat /\ (ws = <<>> => L = 0)
  OBVIOUS
<1> HIDE DEF L
<1> QED BY <1>1, <1>2

-----------------------------------------------------------------------------
(* What a sound disk allows *)

LEMMA RootIsInode == Root \in Inodes
  BY Consts DEF Root, Inodes

LEMMA InodeTypes ==
    ASSUME NEW v \in Inode
    PROVE  /\ v.type \in {"NONE", "FILE", "DIR"} /\ v.size \in 0..(Word - 1)
           /\ v.direct_blocks \in [Blocks -> 0..TotalBlocks]
           /\ \A k \in Blocks : v.direct_blocks[k] \in 0..TotalBlocks
           /\ v = [type |-> v.type, direct_blocks |-> v.direct_blocks, size |-> v.size]
  BY DEF Inode, Blocks

LEMMA PtrTypes ==
    ASSUME NEW d \in Disk, \A i \in Inodes : Placed(d.inode[i]),
           NEW i \in Inodes, NEW k \in Blocks
    PROVE  /\ d.inode[i] \in Inode /\ Ptr(d, i, k) \in 0..TotalBlocks
           /\ Ptr(d, i, k) # 0 => /\ Ptr(d, i, k) \in DeviceBlocks
                                  /\ Ptr(d, i, k) - 1 \in Data \ Reserved
                                  /\ \A j \in Indices : At(d, i, k, j) \in Cell
<1>1. d.inode[i] \in Inode
  BY DEF Disk
<1>2. Ptr(d, i, k) \in 0..TotalBlocks
  BY <1>1, InodeTypes DEF Ptr
<1>3. Ptr(d, i, k) = 0 \/ Ptr(d, i, k) > DataStart + 1
  BY DEF Placed, Ptr
<1>4. ASSUME Ptr(d, i, k) # 0
      PROVE  /\ Ptr(d, i, k) \in DeviceBlocks
             /\ Ptr(d, i, k) - 1 \in Data \ Reserved
  BY <1>2, <1>3, <1>4, Consts DEF DeviceBlocks, Data, Reserved
<1>5. ASSUME Ptr(d, i, k) # 0, NEW j \in Indices PROVE At(d, i, k, j) \in Cell
  <2>1. d.data \in [DeviceBlocks -> [Indices -> Cell]]
    BY DEF Disk
  <2>2. Ptr(d, i, k) \in DeviceBlocks
    BY <1>4, <1>5
  <2> QED BY <2>1, <2>2 DEF At
<1> QED BY <1>1, <1>2, <1>4, <1>5

\* Fewer claims are easier to keep.
LEMMA FewerClaims ==
    ASSUME NEW d, NEW U \in SUBSET Inodes, NEW c, NEW a, NEW x, NEW y, Sound(d, U, c, x), x => y,
           \A i \in U, p \in Positions : a[i][p] \in {Zero, c[i][p]}
    PROVE  Sound(d, U, a, y)
<1>1. Kept(d, U, c)
  BY DEF Sound
<1>2. Kept(d, U, a)
  BY <1>1 DEF Kept
<1> QED BY <1>2 DEF Sound

\* The inodes U have the types, blocks and cells in e that they have in d.
Alike(d, e, U) ==
    /\ \A i \in U : e.inode[i].type = d.inode[i].type
    /\ \A i \in U, k \in Blocks : Ptr(e, i, k) = Ptr(d, i, k)
    /\ \A i \in U, k \in Blocks, j \in Indices :
          Ptr(d, i, k) # 0 => At(e, i, k, j) = At(d, i, k, j)

LEMMA AlikeEntries ==
    ASSUME NEW d, NEW e, NEW U, Alike(d, e, U), NEW i \in U, NEW k \in Blocks, NEW j \in Indices
    PROVE  /\ Used(e, i, k, j) <=> Used(d, i, k, j)
           /\ Used(d, i, k, j) => At(e, i, k, j) = At(d, i, k, j)
  BY DEF Alike, Used, At

\* What soundness says of directories and blocks is then the same for both.
LEMMA AlikeSound ==
    ASSUME NEW d, NEW e, NEW U, NEW x, Alike(d, e, U), Apart(d, U), Closed(d, U),
           Rootless(d, U), Single(d, U), x \/ Named(d, U)
    PROVE  Apart(e, U) /\ Closed(e, U) /\ Rootless(e, U) /\ Single(e, U) /\ (x \/ Named(e, U))
<1>1. Apart(e, U)
  BY DEF Apart, Alike
<1>2. Closed(e, U) /\ Rootless(e, U)
  BY AlikeEntries DEF Closed, Rootless
<1>3. Single(e, U)
  <2> SUFFICES ASSUME NEW i \in U, NEW h \in U, NEW k \in Blocks, NEW l \in Blocks,
                      NEW j \in Indices, NEW m \in Indices, Used(e, i, k, j), Used(e, h, l, m),
                      At(e, i, k, j).id = At(e, h, l, m).id
               PROVE  i = h /\ k = l /\ j = m
    BY DEF Single
  <2>1. /\ Used(d, i, k, j) /\ Used(d, h, l, m)
        /\ At(e, i, k, j) = At(d, i, k, j) /\ At(e, h, l, m) = At(d, h, l, m)
    BY AlikeEntries
  <2> QED BY <2>1 DEF Single
<1>4. ASSUME Named(d, U) PROVE Named(e, U)
  <2> SUFFICES ASSUME NEW i \in U, NEW k \in Blocks, NEW l \in Blocks,
                      NEW j \in Indices, NEW m \in Indices, Used(e, i, k, j), Used(e, i, l, m),
                      At(e, i, k, j).name = At(e, i, l, m).name
               PROVE  k = l /\ j = m
    BY DEF Named
  <2>1. /\ Used(d, i, k, j) /\ Used(d, i, l, m)
        /\ At(e, i, k, j) = At(d, i, k, j) /\ At(e, i, l, m) = At(d, i, l, m)
    BY AlikeEntries
  <2> QED BY <1>4, <2>1 DEF Named
<1> QED BY <1>1, <1>2, <1>3, <1>4

\* The claim on one byte.
Claim(d, i, p, payload) ==
    /\ d.inode[i].type = "FILE" /\ p < d.inode[i].size
    /\ Ptr(d, i, p \div Cells) # 0 /\ At(d, i, p \div Cells, p % Cells) = Byte(payload)

LEMMA KeptClaims ==
    ASSUME NEW d, NEW U, NEW c
    PROVE  Kept(d, U, c) <=> \A i \in U, p \in Positions : c[i][p] # Zero => Claim(d, i, p, c[i][p])
  BY DEF Kept, Claim

LEMMA PositionIndices ==
    ASSUME NEW p \in Positions
    PROVE  p \in Nat /\ p \div Cells \in Blocks /\ p % Cells \in Indices
<1>1. p \in Nat
  BY Consts DEF Positions
<1> QED BY <1>1, PositionParts

\* Inode v is as long as u, or u is a directory, on which there are no claims.
Holds(v, u) == u.type = "DIR" \/ \A p \in Nat : p < u.size => p < v.size

LEMMA AlikeKept ==
    ASSUME NEW d, NEW e, NEW U, NEW c, Alike(d, e, U), Kept(d, U, c),
           \A i \in U : Holds(e.inode[i], d.inode[i])
    PROVE  Kept(e, U, c)
<1> SUFFICES ASSUME NEW i \in U, NEW p \in Positions, c[i][p] # Zero
             PROVE  Claim(e, i, p, c[i][p])
  BY KeptClaims
<1>1. Claim(d, i, p, c[i][p])
  BY KeptClaims
<1>2. p \div Cells \in Blocks /\ p % Cells \in Indices
  BY PositionIndices
<1>3. p < e.inode[i].size
  <2>1. d.inode[i].type = "FILE" /\ p < d.inode[i].size /\ p \in Nat
    BY <1>1, PositionIndices DEF Claim
  <2> QED BY <2>1 DEF Holds
<1> QED BY <1>1, <1>2, <1>3 DEF Claim, Alike

\* The part of soundness that remains to be shown for a disk that is alike.
LEMMA AlikeDisk ==
    ASSUME NEW d, NEW e, NEW U, NEW c, NEW x, Sound(d, U, c, x), Alike(d, e, U),
           e \in Disk, Reserved \subseteq e.bmap, \A i \in Inodes : Placed(e.inode[i]),
           U \subseteq e.imap, Marked(e, U),
           \A i \in U : Holds(e.inode[i], d.inode[i])
    PROVE  Sound(e, U, c, x)
<1>1. InUse(e, U)
  BY DEF Sound, InUse, Alike
<1>2. Apart(e, U) /\ Closed(e, U) /\ Rootless(e, U) /\ Single(e, U) /\ (x \/ Named(e, U))
  BY AlikeSound DEF Sound
<1>3. Kept(e, U, c)
  BY AlikeKept DEF Sound
<1> QED BY <1>1, <1>2, <1>3 DEF Sound

\* The inode bitmap may change as long as it marks what is in use.
LEMMA SoundInodeBitmap ==
    ASSUME NEW d, NEW U, NEW c, NEW x, Sound(d, U, c, x),
           NEW m \in SUBSET Inodes, U \subseteq m
    PROVE  Sound(Written(d, InodeBitmap(m)), U, c, x)
<1> DEFINE e == Written(d, InodeBitmap(m))
<1>1. /\ e \in Disk /\ e.imap = m /\ e.bmap = d.bmap /\ e.inode = d.inode /\ e.data = d.data
  BY WriteInodeBitmap DEF Sound
<1> HIDE DEF e
<1>2. Alike(d, e, U) /\ Marked(e, U)
  BY <1>1 DEF Sound, Alike, Marked, At, Ptr
<1>3. /\ Reserved \subseteq e.bmap /\ U \subseteq e.imap /\ \A h \in Inodes : Placed(e.inode[h])
      /\ \A h \in U : Holds(e.inode[h], d.inode[h])
  BY <1>1 DEF Sound, InUse, Holds
<1>4. Sound(e, U, c, x)
  BY <1>1, <1>2, <1>3, AlikeDisk
<1> QED BY <1>4 DEF e

\* So may the block bitmap.
LEMMA SoundBlockBitmap ==
    ASSUME NEW d, NEW U, NEW c, NEW x, Sound(d, U, c, x),
           NEW m \in SUBSET Data, Reserved \subseteq m,
           \A i \in U, k \in Blocks : Ptr(d, i, k) # 0 => Ptr(d, i, k) - 1 \in m
    PROVE  Sound(Written(d, BlockBitmap(m)), U, c, x)
<1> DEFINE e == Written(d, BlockBitmap(m))
<1>1. /\ e \in Disk /\ e.imap = d.imap /\ e.bmap = m /\ e.inode = d.inode /\ e.data = d.data
  BY WriteBlockBitmap DEF Sound
<1> HIDE DEF e
<1>2. Alike(d, e, U) /\ Marked(e, U)
  BY <1>1 DEF Sound, Alike, Marked, At, Ptr
<1>3. /\ Reserved \subseteq e.bmap /\ U \subseteq e.imap /\ \A h \in Inodes : Placed(e.inode[h])
      /\ \A h \in U : Holds(e.inode[h], d.inode[h])
  BY <1>1 DEF Sound, InUse, Holds
<1>4. Sound(e, U, c, x)
  BY <1>1, <1>2, <1>3, AlikeDisk
<1> QED BY <1>4 DEF e

\* An inode that is not in use may be written.
LEMMA SoundUnusedInode ==
    ASSUME NEW d, NEW U, NEW c, NEW x, Sound(d, U, c, x),
           NEW i \in Inodes, i \notin U, NEW v \in Inode, Placed(v)
    PROVE  Sound(Written(d, InodeBlock(i, v)), U, c, x)
<1> DEFINE e == Written(d, InodeBlock(i, v))
<1>1. /\ e \in Disk /\ e.imap = d.imap /\ e.bmap = d.bmap /\ e.data = d.data
      /\ e.inode = [d.inode EXCEPT ![i] = v]
  BY WriteInodeBlock DEF Sound
<1> HIDE DEF e
<1>2. d.inode \in [Inodes -> Inode] /\ U \subseteq Inodes
  BY DEF Sound, Disk, InUse
<1>3. \A h \in U : e.inode[h] = d.inode[h]
  BY <1>1, <1>2
<1>4. \A h \in Inodes : Placed(e.inode[h])
  BY <1>1, <1>2 DEF Sound
<1>5. Alike(d, e, U) /\ Marked(e, U)
  BY <1>1, <1>3 DEF Sound, Alike, Marked, At, Ptr
<1>6. /\ Reserved \subseteq e.bmap /\ U \subseteq e.imap 
      /\ \A h \in U : Holds(e.inode[h], d.inode[h])
  BY <1>1, <1>3 DEF Sound, InUse, Holds
<1>7. Sound(e, U, c, x)
  BY <1>1, <1>4, <1>5, <1>6, AlikeDisk
<1> QED BY <1>7 DEF e

\* The data of a block no inode in use points to may be written.
LEMMA SoundUnusedData ==
    ASSUME NEW d, NEW U, NEW c, NEW x, Sound(d, U, c, x),
           NEW b \in DeviceBlocks, NEW v \in [Indices -> Cell],
           \A i \in U, k \in Blocks : Ptr(d, i, k) # b
    PROVE  Sound(Written(d, DataBlock(b, v)), U, c, x)
<1> DEFINE e == Written(d, DataBlock(b, v))
<1>1. /\ e \in Disk /\ e.imap = d.imap /\ e.bmap = d.bmap /\ e.inode = d.inode
      /\ e.data = [d.data EXCEPT ![b] = v]
  BY WriteDataBlock DEF Sound
<1> HIDE DEF e
<1>2. U \subseteq Inodes
  BY DEF Sound, Disk, InUse
<1>3. \A i \in U, k \in Blocks : Ptr(e, i, k) = Ptr(d, i, k)
  BY <1>1 DEF Ptr
<1>4. ASSUME NEW i \in U, NEW k \in Blocks, Ptr(d, i, k) # 0, NEW j \in Indices
      PROVE  At(e, i, k, j) = At(d, i, k, j)
  BY <1>1, <1>2, <1>3, <1>4, PtrTypes DEF Sound, At, Disk
<1>5. Alike(d, e, U) /\ Marked(e, U)
  BY <1>1, <1>3, <1>4 DEF Sound, Alike, Marked
<1>6. /\ Reserved \subseteq e.bmap /\ U \subseteq e.imap /\ \A h \in Inodes : Placed(e.inode[h])
      /\ \A h \in U : Holds(e.inode[h], d.inode[h])
  BY <1>1 DEF Sound, InUse, Holds
<1>7. Sound(e, U, c, x)
  BY <1>1, <1>5, <1>6, AlikeDisk
<1> QED BY <1>7 DEF e

\* The inode of a file or directory in use may change its size alone.
LEMMA SoundResized ==
    ASSUME NEW d, NEW U, NEW c, NEW x, Sound(d, U, c, x), NEW i \in U, NEW v \in Inode,
           v.type = d.inode[i].type, v.direct_blocks = d.inode[i].direct_blocks,
           Holds(v, d.inode[i])
    PROVE  Sound(Written(d, InodeBlock(i, v)), U, c, x)
<1> DEFINE e == Written(d, InodeBlock(i, v))
<1>1. d.inode \in [Inodes -> Inode] /\ U \subseteq Inodes
  BY DEF Sound, Disk, InUse
<1>2. /\ e \in Disk /\ e.imap = d.imap /\ e.bmap = d.bmap /\ e.data = d.data
      /\ e.inode = [d.inode EXCEPT ![i] = v]
  BY <1>1, WriteInodeBlock DEF Sound
<1> HIDE DEF e
<1>3. \A h \in Inodes : /\ e.inode[h].type = d.inode[h].type
                        /\ e.inode[h].direct_blocks = d.inode[h].direct_blocks
  BY <1>1, <1>2
<1>4. Alike(d, e, U) /\ Marked(e, U)
  BY <1>1, <1>2, <1>3 DEF Sound, Alike, Marked, At, Ptr
<1>5. /\ Reserved \subseteq e.bmap /\ U \subseteq e.imap
      /\ \A h \in Inodes : Placed(e.inode[h])
  BY <1>2, <1>3 DEF Sound, InUse, Placed
<1>6. \A h \in U : Holds(e.inode[h], d.inode[h])
  BY <1>1, <1>2 DEF Holds
<1>7. Sound(e, U, c, x)
  BY <1>2, <1>4, <1>5, <1>6, AlikeDisk
<1> QED BY <1>7 DEF e

\* Disk e has the entries of d and one more, for an inode without an entry.
Added(d, e, U, i, k, j, new, name) ==
    /\ i \in U /\ k \in Blocks /\ j \in Indices /\ new \in U /\ new # Root
    /\ ~Used(d, i, k, j) /\ Used(e, i, k, j) /\ At(e, i, k, j) = Entry(new, name)
    /\ \A h \in U, l \in Blocks, m \in Indices :
          Used(d, h, l, m) => Used(e, h, l, m) /\ At(e, h, l, m) = At(d, h, l, m)
    /\ \A h \in U, l \in Blocks, m \in Indices :
          Used(e, h, l, m) => \/ h = i /\ l = k /\ m = j
                              \/ Used(d, h, l, m) /\ At(e, h, l, m) = At(d, h, l, m)
    /\ \A h \in U, l \in Blocks, m \in Indices : Used(d, h, l, m) => At(d, h, l, m).id # new

LEMMA AddedSound ==
    ASSUME NEW d, NEW e, NEW U, NEW c, NEW x, Sound(d, U, c, x),
           NEW i, NEW k, NEW j, NEW new, NEW name, Added(d, e, U, i, k, j, new, name),
           \/ x
           \/ \A l \in Blocks, m \in Indices : Used(d, i, l, m) => At(d, i, l, m).name # name
    PROVE  Closed(e, U) /\ Rootless(e, U) /\ Single(e, U) /\ (x \/ Named(e, U))
<1>0. Entry(new, name).id = new /\ Entry(new, name).name = name
  BY DEF Entry
<1>1. Closed(e, U) /\ Rootless(e, U)
  BY <1>0 DEF Sound, Closed, Rootless, Added
<1>2. Single(e, U)
  <2> SUFFICES ASSUME NEW f \in U, NEW h \in U, NEW n \in Blocks, NEW l \in Blocks,
                      NEW o \in Indices, NEW m \in Indices, Used(e, f, n, o), Used(e, h, l, m),
                      At(e, f, n, o).id = At(e, h, l, m).id
               PROVE  f = h /\ n = l /\ o = m
    BY DEF Single
  <2>1. \/ f = i /\ n = k /\ o = j
        \/ Used(d, f, n, o) /\ At(e, f, n, o) = At(d, f, n, o) /\ At(d, f, n, o).id # new
    BY DEF Added
  <2>2. \/ h = i /\ l = k /\ m = j
        \/ Used(d, h, l, m) /\ At(e, h, l, m) = At(d, h, l, m) /\ At(d, h, l, m).id # new
    BY DEF Added
  <2>3. At(e, i, k, j).id = new
    BY <1>0 DEF Added
  <2>4. ASSUME Used(d, f, n, o), At(e, f, n, o) = At(d, f, n, o),
               Used(d, h, l, m), At(e, h, l, m) = At(d, h, l, m)
        PROVE  f = h /\ n = l /\ o = m
    BY <2>4 DEF Sound, Single
  <2> QED BY <2>1, <2>2, <2>3, <2>4
<1>3. ASSUME ~x PROVE Named(e, U)
  <2> SUFFICES ASSUME NEW f \in U, NEW n \in Blocks, NEW l \in Blocks,
                      NEW o \in Indices, NEW m \in Indices, Used(e, f, n, o), Used(e, f, l, m),
                      At(e, f, n, o).name = At(e, f, l, m).name
               PROVE  n = l /\ o = m
    BY DEF Named
  <2>1. \/ f = i /\ n = k /\ o = j
        \/ Used(d, f, n, o) /\ At(e, f, n, o) = At(d, f, n, o)
    BY DEF Added
  <2>2. \/ f = i /\ l = k /\ m = j
        \/ Used(d, f, l, m) /\ At(e, f, l, m) = At(d, f, l, m)
    BY DEF Added
  <2>3. At(e, i, k, j).name = name
    BY <1>0 DEF Added
  <2>4. ASSUME Used(d, f, n, o), At(e, f, n, o) = At(d, f, n, o),
               Used(d, f, l, m), At(e, f, l, m) = At(d, f, l, m)
        PROVE  n = l /\ o = m
    BY <1>3, <2>4 DEF Sound, Named
  <2> QED BY <1>3, <2>1, <2>2, <2>3, <2>4
<1> QED BY <1>1, <1>2, <1>3

\* An entry for an inode without one is written to a free slot of a block the
\* directory has.
LEMMA SoundEntryAdded ==
    ASSUME NEW d, NEW U, NEW c, NEW x, Sound(d, U, c, x),
           NEW i \in U, NEW k \in Blocks, NEW j \in Indices, NEW new \in U, new # Root,
           NEW name \in Names, d.inode[i].type = "DIR", Ptr(d, i, k) # 0,
           ~Used(d, i, k, j),
           \A h \in U, l \in Blocks, m \in Indices : Used(d, h, l, m) => At(d, h, l, m).id # new,
           \/ x
           \/ \A l \in Blocks, m \in Indices : Used(d, i, l, m) => At(d, i, l, m).name # name
    PROVE  LET b == Ptr(d, i, k)
               e == Written(d, DataBlock(b, [d.data[b] EXCEPT ![j] = Entry(new, name)]))
           IN  /\ Sound(e, U, c, x)
               /\ Added(d, e, U, i, k, j, new, name)
<1> DEFINE b == Ptr(d, i, k)
           v == [d.data[b] EXCEPT ![j] = Entry(new, name)]
           e == Written(d, DataBlock(b, v))
<1>1. U \subseteq Inodes /\ new \in 0..TotalInodes /\ new # 0
  BY Consts DEF Sound, Disk, InUse, Inodes
<1>2. b \in DeviceBlocks /\ d.data \in [DeviceBlocks -> [Indices -> Cell]]
  BY <1>1, PtrTypes DEF Sound, Disk
<1>3. Entry(new, name) \in Cell /\ Entry(new, name).id = new
  BY <1>1 DEF Entry, Cell
<1>4. /\ v \in [Indices -> Cell] /\ v[j] = Entry(new, name)
      /\ \A m \in Indices : m # j => v[m] = d.data[b][m]
  BY <1>2, <1>3
<1> HIDE DEF v
<1>5. /\ e \in Disk /\ e.imap = d.imap /\ e.bmap = d.bmap /\ e.inode = d.inode
      /\ e.data = [d.data EXCEPT ![b] = v]
  BY <1>2, <1>4, WriteDataBlock DEF Sound
<1> HIDE DEF e
<1>6. \A h \in U, l \in Blocks : Ptr(e, h, l) = Ptr(d, h, l)
  BY <1>5 DEF Ptr
<1>7. At(e, i, k, j) = Entry(new, name) /\ Used(e, i, k, j)
  BY <1>1, <1>2, <1>3, <1>4, <1>5, <1>6 DEF At, Used
<1>8. ASSUME NEW h \in U, NEW l \in Blocks, NEW m \in Indices, Ptr(d, h, l) # 0
      PROVE  (h = i /\ l = k /\ m = j) \/ At(e, h, l, m) = At(d, h, l, m)
  <2>1. Ptr(d, h, l) \in DeviceBlocks
    BY <1>1, <1>8, PtrTypes DEF Sound
  <2>2. CASE Ptr(d, h, l) = b
    <3>1. h = i /\ l = k
      BY <2>2 DEF Sound, Apart
    <3> QED BY <1>2, <1>4, <1>5, <1>6, <2>1, <2>2, <3>1 DEF At
  <2>3. CASE Ptr(d, h, l) # b
    BY <1>2, <1>5, <1>6, <2>1, <2>3 DEF At
  <2> QED BY <2>2, <2>3
<1>9. Added(d, e, U, i, k, j, new, name)
  <2>1. ASSUME NEW h \in U, NEW l \in Blocks, NEW m \in Indices, Used(e, h, l, m)
        PROVE  \/ h = i /\ l = k /\ m = j
               \/ Used(d, h, l, m) /\ At(e, h, l, m) = At(d, h, l, m)
    <3>1. Ptr(d, h, l) # 0 /\ d.inode[h].type = "DIR"
      BY <1>5, <1>6, <2>1 DEF Used
    <3> QED BY <1>5, <1>6, <1>8, <2>1, <3>1 DEF Used, At
  <2>2. ASSUME NEW h \in U, NEW l \in Blocks, NEW m \in Indices, Used(d, h, l, m)
        PROVE  Used(e, h, l, m) /\ At(e, h, l, m) = At(d, h, l, m)
    <3>1. At(e, h, l, m) = At(d, h, l, m) /\ Ptr(e, h, l) = Ptr(d, h, l)
      BY <1>6, <1>8, <2>2 DEF Used
    <3> QED BY <1>5, <2>2, <3>1 DEF Used, At
  <2> QED BY <1>7, <2>1, <2>2 DEF Added
<1>10. Closed(e, U) /\ Rootless(e, U) /\ Single(e, U) /\ (x \/ Named(e, U))
  BY <1>9, AddedSound
<1>11. Apart(e, U) /\ Marked(e, U)
  BY <1>5, <1>6 DEF Sound, Apart, Marked
<1>12. InUse(e, U) /\ Reserved \subseteq e.bmap /\ \A h \in Inodes : Placed(e.inode[h])
  BY <1>5 DEF Sound, InUse
<1>13. Kept(e, U, c)
  <2> SUFFICES ASSUME NEW h \in U, NEW p \in Positions, c[h][p] # Zero
               PROVE  Claim(e, h, p, c[h][p])
    BY KeptClaims
  <2>1. Claim(d, h, p, c[h][p])
    BY KeptClaims DEF Sound
  <2>2. p \div Cells \in Blocks /\ p % Cells \in Indices /\ h # i
    BY <2>1, PositionIndices DEF Claim
  <2> QED BY <1>5, <1>6, <1>8, <2>1, <2>2 DEF Claim
<1>14. Sound(e, U, c, x)
  BY <1>5, <1>10, <1>11, <1>12, <1>13 DEF Sound
<1> QED BY <1>9, <1>14 DEF e, v

\* An inode in use gets a marked block that no inode in use points to.
LEMMA PointerAdded ==
    ASSUME NEW d, NEW U, NEW c, NEW x, Sound(d, U, c, x), NEW i \in U, NEW k \in Blocks,
           NEW v \in Inode, NEW b \in d.bmap, b \notin Reserved,
           v.type = d.inode[i].type,
           v.direct_blocks = [d.inode[i].direct_blocks EXCEPT ![k] = b + 1],
           \A h \in U, l \in Blocks : Ptr(d, h, l) # b + 1
    PROVE  LET e == Written(d, InodeBlock(i, v)) IN
           /\ e \in Disk /\ e.imap = d.imap /\ e.bmap = d.bmap /\ e.data = d.data
           /\ e.inode = [d.inode EXCEPT ![i] = v] /\ Ptr(e, i, k) = b + 1 /\ b + 1 \in DeviceBlocks
           /\ \A h \in U : e.inode[h].type = d.inode[h].type
           /\ \A h \in U, l \in Blocks : Ptr(e, h, l) = IF h = i /\ l = k THEN b + 1 ELSE Ptr(d, h, l)
           /\ Reserved \subseteq e.bmap /\ \A h \in Inodes : Placed(e.inode[h])
           /\ InUse(e, U) /\ Apart(e, U) /\ Marked(e, U)
<1> DEFINE e == Written(d, InodeBlock(i, v))
<1>1. d.inode \in [Inodes -> Inode] /\ U \subseteq Inodes /\ d.bmap \subseteq Data
  BY DEF Sound, Disk, InUse
<1>2. /\ e \in Disk /\ e.imap = d.imap /\ e.bmap = d.bmap /\ e.data = d.data
      /\ e.inode = [d.inode EXCEPT ![i] = v]
  BY <1>1, WriteInodeBlock DEF Sound
<1> HIDE DEF e
<1>3. b \in Nat /\ b > DataStart /\ b < TotalBlocks /\ b + 1 \in DeviceBlocks
  BY <1>1, Consts DEF Data, Reserved, DeviceBlocks
<1>4. d.inode[i].direct_blocks \in [Blocks -> 0..TotalBlocks]
  BY <1>1, InodeTypes
<1>5. \A h \in U, l \in Blocks : Ptr(e, h, l) = IF h = i /\ l = k THEN b + 1 ELSE Ptr(d, h, l)
  BY <1>1, <1>2, <1>4 DEF Ptr
<1>6. \A h \in U : e.inode[h].type = d.inode[h].type
  BY <1>1, <1>2
<1>7. ASSUME NEW h \in Inodes PROVE Placed(e.inode[h])
  <2>1. CASE h = i
    <3>1. e.inode[h].direct_blocks = [d.inode[i].direct_blocks EXCEPT ![k] = b + 1]
      BY <1>1, <1>2, <2>1
    <3>2. Placed(d.inode[i])
      BY <2>1 DEF Sound
    <3> QED BY <1>3, <1>4, <3>1, <3>2, Consts DEF Placed
  <2>2. CASE h # i
    BY <1>1, <1>2, <2>2 DEF Sound
  <2> QED BY <2>1, <2>2
<1>8. Apart(e, U)
  BY <1>5 DEF Sound, Apart
<1>9. Marked(e, U)
  BY <1>2, <1>3, <1>5 DEF Sound, Marked
<1>10. InUse(e, U) /\ Reserved \subseteq e.bmap
  BY <1>2, <1>6 DEF Sound, InUse
<1> QED BY <1>2, <1>3, <1>5, <1>6, <1>7, <1>8, <1>9, <1>10 DEF e

\* A directory gets a block with one entry, for an inode without one.
LEMMA SoundDirBlock ==
    ASSUME NEW d, NEW U, NEW c, NEW x, Sound(d, U, c, x),
           NEW i \in U, NEW k \in Blocks, NEW j \in Indices, NEW new \in U, new # Root,
           NEW name \in Names, d.inode[i].type = "DIR", Ptr(d, i, k) = 0,
           NEW v \in Inode, NEW b \in d.bmap, b \notin Reserved, v.type = "DIR",
           v.direct_blocks = [d.inode[i].direct_blocks EXCEPT ![k] = b + 1],
           \A h \in U, l \in Blocks : Ptr(d, h, l) # b + 1,
           d.data[b + 1] = [ZeroBlock EXCEPT ![j] = Entry(new, name)],
           \A h \in U, l \in Blocks, m \in Indices : Used(d, h, l, m) => At(d, h, l, m).id # new,
           \/ x
           \/ \A l \in Blocks, m \in Indices : Used(d, i, l, m) => At(d, i, l, m).name # name
    PROVE  LET e == Written(d, InodeBlock(i, v))
           IN  /\ Sound(e, U, c, x)
               /\ Added(d, e, U, i, k, j, new, name)
<1> DEFINE e == Written(d, InodeBlock(i, v))
<1>1. /\ e \in Disk /\ e.imap = d.imap /\ e.bmap = d.bmap /\ e.data = d.data
      /\ e.inode = [d.inode EXCEPT ![i] = v] /\ Ptr(e, i, k) = b + 1 /\ b + 1 \in DeviceBlocks
      /\ \A h \in U : e.inode[h].type = d.inode[h].type
      /\ \A h \in U, l \in Blocks : Ptr(e, h, l) = IF h = i /\ l = k THEN b + 1 ELSE Ptr(d, h, l)
      /\ Reserved \subseteq e.bmap /\ \A h \in Inodes : Placed(e.inode[h])
      /\ InUse(e, U) /\ Apart(e, U) /\ Marked(e, U)
  BY PointerAdded
<1> HIDE DEF e
<1>2. new \in Nat /\ new # 0 /\ b + 1 # 0 /\ U \subseteq Inodes /\ i \in Inodes
  BY <1>1, Consts DEF Sound, Disk, InUse, Inodes, DeviceBlocks
<1>3. /\ d.data[b + 1][j] = Entry(new, name) /\ Entry(new, name).id = new
      /\ \A m \in Indices : m # j => d.data[b + 1][m].id = 0
  BY DEF ZeroBlock, ZeroCell, Entry, Indices
<1>4. At(e, i, k, j) = Entry(new, name) /\ Used(e, i, k, j)
  BY <1>1, <1>2, <1>3 DEF At, Used
<1>5. Added(d, e, U, i, k, j, new, name)
  <2>1. ASSUME NEW h \in U, NEW l \in Blocks, NEW m \in Indices, Used(e, h, l, m)
        PROVE  \/ h = i /\ l = k /\ m = j
               \/ Used(d, h, l, m) /\ At(e, h, l, m) = At(d, h, l, m)
    <3>1. CASE h = i /\ l = k
      BY <1>1, <1>3, <2>1, <3>1 DEF Used
    <3>2. CASE ~(h = i /\ l = k)
      BY <1>1, <2>1, <3>2 DEF Used, At
    <3> QED BY <3>1, <3>2
  <2>2. ASSUME NEW h \in U, NEW l \in Blocks, NEW m \in Indices, Used(d, h, l, m)
        PROVE  Used(e, h, l, m) /\ At(e, h, l, m) = At(d, h, l, m)
    BY <1>1, <2>2 DEF Used, At
  <2>3. ~Used(d, i, k, j)
    BY DEF Used
  <2> QED BY <1>4, <2>1, <2>2, <2>3 DEF Added
<1>6. Closed(e, U) /\ Rootless(e, U) /\ Single(e, U) /\ (x \/ Named(e, U))
  BY ONLY Sound(d, U, c, x), <1>5, AddedSound,
     \/ x
     \/ \A l \in Blocks, m \in Indices : Used(d, i, l, m) => At(d, i, l, m).name # name
<1>7. Kept(e, U, c)
  <2> SUFFICES ASSUME NEW h \in U, NEW p \in Positions, c[h][p] # Zero
               PROVE  Claim(e, h, p, c[h][p])
    BY KeptClaims
  <2>1. Claim(d, h, p, c[h][p])
    BY KeptClaims DEF Sound
  <2>2. p \div Cells \in Blocks /\ p % Cells \in Indices /\ h # i
    BY <2>1, PositionIndices DEF Claim
  <2>3. e.inode[h] = d.inode[h]
    BY <1>1, <1>2, <2>2 DEF Sound, Disk
  <2> QED BY <1>1, <2>1, <2>2, <2>3 DEF Claim, At
<1>8. Sound(e, U, c, x)
  BY <1>1, <1>6, <1>7 DEF Sound
<1> QED BY <1>5, <1>8 DEF e

\* A file gets a block.
LEMMA SoundFileBlock ==
    ASSUME NEW d, NEW U, NEW c, NEW x, Sound(d, U, c, x),
           NEW i \in U, NEW k \in Blocks, d.inode[i].type = "FILE", Ptr(d, i, k) = 0,
           NEW v \in Inode, NEW b \in d.bmap, b \notin Reserved,
           v = [d.inode[i] EXCEPT !.direct_blocks[k] = b + 1],
           \A h \in U, l \in Blocks : Ptr(d, h, l) # b + 1
    PROVE  Sound(Written(d, InodeBlock(i, v)), U, c, x)
<1> DEFINE e == Written(d, InodeBlock(i, v))
<1>0. d.inode \in [Inodes -> Inode] /\ U \subseteq Inodes /\ d.inode[i] \in Inode
  BY DEF Sound, Disk, InUse
<1>1. /\ v.type = d.inode[i].type /\ v.size = d.inode[i].size
      /\ v.direct_blocks = [d.inode[i].direct_blocks EXCEPT ![k] = b + 1]
  BY <1>0 DEF Inode
<1>2. /\ e \in Disk /\ e.imap = d.imap /\ e.bmap = d.bmap /\ e.data = d.data
      /\ e.inode = [d.inode EXCEPT ![i] = v] /\ Ptr(e, i, k) = b + 1 /\ b + 1 \in DeviceBlocks
      /\ \A h \in U : e.inode[h].type = d.inode[h].type
      /\ \A h \in U, l \in Blocks : Ptr(e, h, l) = IF h = i /\ l = k THEN b + 1 ELSE Ptr(d, h, l)
      /\ Reserved \subseteq e.bmap /\ \A h \in Inodes : Placed(e.inode[h])
      /\ InUse(e, U) /\ Apart(e, U) /\ Marked(e, U)
  <2>1. /\ Sound(d, U, c, x) /\ i \in U /\ k \in Blocks /\ v \in Inode /\ b \in d.bmap /\ b \notin Reserved
        /\ \A h \in U, l \in Blocks : Ptr(d, h, l) # b + 1
    OBVIOUS
  <2> QED BY ONLY <1>1, <2>1, PointerAdded
<1> HIDE DEF e
<1>3. ASSUME NEW h \in U, NEW l \in Blocks, NEW m \in Indices
      PROVE  /\ Used(e, h, l, m) <=> Used(d, h, l, m)
             /\ Used(d, h, l, m) => At(e, h, l, m) = At(d, h, l, m)
  BY <1>2 DEF Used, At
<1>4. Closed(e, U) /\ Rootless(e, U)
  BY <1>3 DEF Sound, Closed, Rootless
<1>5. Single(e, U)
  BY <1>3 DEF Sound, Single
<1>6. x \/ Named(e, U)
  BY <1>3 DEF Sound, Named
<1>7. Kept(e, U, c)
  <2> SUFFICES ASSUME NEW h \in U, NEW p \in Positions, c[h][p] # Zero
               PROVE  Claim(e, h, p, c[h][p])
    BY KeptClaims
  <2>1. Claim(d, h, p, c[h][p])
    BY KeptClaims DEF Sound
  <2>2. p \div Cells \in Blocks /\ p % Cells \in Indices
    BY PositionIndices
  <2>3. e.inode[h].size = d.inode[h].size
    BY <1>0, <1>1, <1>2
  <2> QED BY <1>2, <2>1, <2>2, <2>3 DEF Claim, At
<1>8. Sound(e, U, c, x)
  BY <1>2, <1>4, <1>5, <1>6, <1>7 DEF Sound
<1> QED BY <1>8 DEF e

\* The data of a file's block is written, and the claims on it hold for what
\* is written.
LEMMA SoundFileData ==
    ASSUME NEW d, NEW U, NEW c, NEW x, Sound(d, U, c, x),
           NEW i \in U, NEW k \in Blocks, d.inode[i].type = "FILE", Ptr(d, i, k) # 0,
           NEW v \in [Indices -> Cell],
           \A p \in Positions : c[i][p] # Zero /\ p \div Cells = k => v[p % Cells] = Byte(c[i][p])
    PROVE  Sound(Written(d, DataBlock(Ptr(d, i, k), v)), U, c, x)
<1> DEFINE b == Ptr(d, i, k)
           e == Written(d, DataBlock(b, v))
<1>1. U \subseteq Inodes
  BY DEF Sound, Disk, InUse
<1>2. b \in DeviceBlocks /\ d.data \in [DeviceBlocks -> [Indices -> Cell]]
  BY <1>1, PtrTypes DEF Sound, Disk
<1>3. /\ e \in Disk /\ e.imap = d.imap /\ e.bmap = d.bmap /\ e.inode = d.inode
      /\ e.data = [d.data EXCEPT ![b] = v]
  BY <1>2, WriteDataBlock DEF Sound
<1> HIDE DEF e
<1>4. \A h \in U, l \in Blocks : Ptr(e, h, l) = Ptr(d, h, l)
  BY <1>3 DEF Ptr
<1>5. ASSUME NEW h \in U, NEW l \in Blocks, NEW m \in Indices, Ptr(d, h, l) # 0, ~(h = i /\ l = k)
      PROVE  At(e, h, l, m) = At(d, h, l, m)
  <2>1. Ptr(d, h, l) \in DeviceBlocks
    BY <1>1, <1>5, PtrTypes DEF Sound
  <2>2. Ptr(d, h, l) # b
    BY <1>5 DEF Sound, Apart
  <2> QED BY <1>2, <1>3, <1>4, <2>1, <2>2 DEF At
<1>6. \A m \in Indices : At(e, i, k, m) = v[m]
  BY <1>2, <1>3, <1>4 DEF At
<1>7. ASSUME NEW h \in U, NEW l \in Blocks, NEW m \in Indices
      PROVE  /\ Used(e, h, l, m) <=> Used(d, h, l, m)
             /\ Used(d, h, l, m) => At(e, h, l, m) = At(d, h, l, m)
  BY <1>3, <1>4, <1>5 DEF Used, At
<1>8. Closed(e, U) /\ Rootless(e, U)
  BY <1>7 DEF Sound, Closed, Rootless
<1>9. Single(e, U)
  BY <1>7 DEF Sound, Single
<1>10. x \/ Named(e, U)
  BY <1>7 DEF Sound, Named
<1>11. Kept(e, U, c)
  <2> SUFFICES ASSUME NEW h \in U, NEW p \in Positions, c[h][p] # Zero
               PROVE  Claim(e, h, p, c[h][p])
    BY KeptClaims
  <2>1. Claim(d, h, p, c[h][p])
    BY KeptClaims DEF Sound
  <2>2. p \div Cells \in Blocks /\ p % Cells \in Indices
    BY PositionIndices
  <2>3. At(e, h, p \div Cells, p % Cells) = Byte(c[h][p])
    BY <1>5, <1>6, <2>1, <2>2 DEF Claim
  <2> QED BY <1>3, <1>4, <2>1, <2>2, <2>3 DEF Claim
<1>12. /\ Apart(e, U) /\ Marked(e, U) /\ InUse(e, U) /\ Reserved \subseteq e.bmap
       /\ \A h \in Inodes : Placed(e.inode[h])
  BY <1>3, <1>4 DEF Sound, Apart, Marked, InUse
<1>13. Sound(e, U, c, x)
  BY <1>3, <1>8, <1>9, <1>10, <1>11, <1>12 DEF Sound
<1> QED BY <1>13 DEF e

\* An entry is zeroed.
LEMMA SoundEntryGone ==
    ASSUME NEW d, NEW U, NEW c, NEW x, Sound(d, U, c, x),
           NEW i \in U, NEW k \in Blocks, NEW j \in Indices, Used(d, i, k, j)
    PROVE  LET b == Ptr(d, i, k)
               e == Written(d, DataBlock(b, [d.data[b] EXCEPT ![j] = ZeroCell]))
           IN  /\ Sound(e, U, c, x)
               /\ \A h \in U, l \in Blocks, m \in Indices :
                     /\ Used(e, h, l, m) <=> Used(d, h, l, m) /\ ~(h = i /\ l = k /\ m = j)
                     /\ Used(e, h, l, m) => At(e, h, l, m) = At(d, h, l, m)
<1> DEFINE b == Ptr(d, i, k)
           v == [d.data[b] EXCEPT ![j] = ZeroCell]
           e == Written(d, DataBlock(b, v))
<1>1. U \subseteq Inodes /\ d.inode[i].type = "DIR" /\ b # 0
  BY DEF Sound, Disk, InUse, Used
<1>2. b \in DeviceBlocks /\ d.data \in [DeviceBlocks -> [Indices -> Cell]]
  BY <1>1, PtrTypes DEF Sound, Disk
<1>3. ZeroCell \in Cell /\ ZeroCell.id = 0
  BY Consts DEF ZeroCell, Cell
<1>4. /\ v \in [Indices -> Cell] /\ v[j] = ZeroCell
      /\ \A m \in Indices : m # j => v[m] = d.data[b][m]
  BY <1>2, <1>3
<1> HIDE DEF v
<1>5. /\ e \in Disk /\ e.imap = d.imap /\ e.bmap = d.bmap /\ e.inode = d.inode
      /\ e.data = [d.data EXCEPT ![b] = v]
  BY <1>2, <1>4, WriteDataBlock DEF Sound
<1> HIDE DEF e
<1>6. \A h \in U, l \in Blocks : Ptr(e, h, l) = Ptr(d, h, l)
  BY <1>5 DEF Ptr
<1>7. At(e, i, k, j).id = 0
  BY <1>2, <1>3, <1>4, <1>5, <1>6 DEF At
<1>8. ASSUME NEW h \in U, NEW l \in Blocks, NEW m \in Indices, Ptr(d, h, l) # 0
      PROVE  (h = i /\ l = k /\ m = j) \/ At(e, h, l, m) = At(d, h, l, m)
  <2>1. Ptr(d, h, l) \in DeviceBlocks
    BY <1>1, <1>8, PtrTypes DEF Sound
  <2>2. CASE Ptr(d, h, l) = b
    <3>1. h = i /\ l = k
      BY <1>1, <2>2 DEF Sound, Apart
    <3> QED BY <1>2, <1>4, <1>5, <1>6, <2>1, <2>2, <3>1 DEF At
  <2>3. CASE Ptr(d, h, l) # b
    BY <1>2, <1>5, <1>6, <2>1, <2>3 DEF At
  <2> QED BY <2>2, <2>3
<1>9. ASSUME NEW h \in U, NEW l \in Blocks, NEW m \in Indices
      PROVE  /\ Used(e, h, l, m) <=> Used(d, h, l, m) /\ ~(h = i /\ l = k /\ m = j)
             /\ Used(e, h, l, m) => At(e, h, l, m) = At(d, h, l, m)
  BY <1>5, <1>6, <1>7, <1>8 DEF Used, At
<1>10. Closed(e, U) /\ Rootless(e, U)
  BY <1>9 DEF Sound, Closed, Rootless
<1>11. Single(e, U)
  BY <1>9 DEF Sound, Single
<1>12. x \/ Named(e, U)
  BY <1>9 DEF Sound, Named
<1>13. Kept(e, U, c)
  <2> SUFFICES ASSUME NEW h \in U, NEW p \in Positions, c[h][p] # Zero
               PROVE  Claim(e, h, p, c[h][p])
    BY KeptClaims
  <2>1. Claim(d, h, p, c[h][p])
    BY KeptClaims DEF Sound
  <2>2. p \div Cells \in Blocks /\ p % Cells \in Indices /\ h # i
    BY <1>1, <2>1, PositionIndices DEF Claim
  <2> QED BY <1>5, <1>6, <1>8, <2>1, <2>2 DEF Claim
<1>14. /\ Apart(e, U) /\ Marked(e, U) /\ InUse(e, U) /\ Reserved \subseteq e.bmap
       /\ \A h \in Inodes : Placed(e.inode[h])
  BY <1>5, <1>6 DEF Sound, Apart, Marked, InUse
<1>15. Sound(e, U, c, x)
  BY <1>5, <1>10, <1>11, <1>12, <1>13, <1>14 DEF Sound
<1> QED BY <1>9, <1>15 DEF e, v

\* An inode without an entry need not count as in use.
LEMMA SoundWithout ==
    ASSUME NEW d, NEW U, NEW c, NEW x, Sound(d, U, c, x), NEW t \in U, t # Root,
           \A i \in U, k \in Blocks, j \in Indices : Used(d, i, k, j) => At(d, i, k, j).id # t
    PROVE  Sound(d, U \ {t}, c, x)
<1> DEFINE V == U \ {t}
<1>1. V \subseteq U /\ Root \in V
  BY DEF Sound, InUse
<1>2. InUse(d, V) /\ Marked(d, V) /\ Apart(d, V)
  BY <1>1 DEF Sound, InUse, Marked, Apart
<1>3. Closed(d, V) /\ Rootless(d, V)
  BY DEF Sound, Closed, Rootless
<1>4. Single(d, V)
  BY <1>1 DEF Sound, Single
<1>5. x \/ Named(d, V)
  BY <1>1 DEF Sound, Named
<1>6. Kept(d, V, c)
  BY <1>1 DEF Sound, Kept
<1> HIDE DEF V
<1>7. Sound(d, V, c, x)
  BY <1>2, <1>3, <1>4, <1>5, <1>6 DEF Sound
<1> QED BY <1>7 DEF V

\* A marked inode with a type and without blocks may count as in use.
LEMMA SoundWith ==
    ASSUME NEW d, NEW U, NEW c, NEW x, Sound(d, U, c, x), NEW new \in d.imap,
           d.inode[new].type # "NONE", \A k \in Blocks : Ptr(d, new, k) = 0,
           \A p \in Positions : c[new][p] = Zero
    PROVE  Sound(d, U \cup {new}, c, x)
<1> DEFINE V == U \cup {new}
<1>1. \A k \in Blocks, j \in Indices : ~Used(d, new, k, j)
  BY DEF Used
<1>2. InUse(d, V) /\ Marked(d, V)
  BY DEF Sound, InUse, Marked
<1>3. Apart(d, V)
  BY DEF Sound, Apart
<1>4. Closed(d, V) /\ Rootless(d, V)
  BY <1>1 DEF Sound, Closed, Rootless
<1>5. Single(d, V)
  BY <1>1 DEF Sound, Single
<1>6. x \/ Named(d, V)
  BY <1>1 DEF Sound, Named
<1>7. Kept(d, V, c)
  BY DEF Sound, Kept
<1> HIDE DEF V
<1>8. Sound(d, V, c, x)
  BY <1>2, <1>3, <1>4, <1>5, <1>6, <1>7 DEF Sound
<1> QED BY <1>8 DEF V

-----------------------------------------------------------------------------
(* Steps that start no call *)

LEMMA NewInodeTypes ==
    ASSUME NEW type \in {"NONE", "FILE", "DIR"}
    PROVE  /\ NewInode(type) \in Inode /\ NewInode(type).type = type /\ NewInode(type).size = 0
           /\ \A k \in Blocks : NewInode(type).direct_blocks[k] = 0
           /\ Placed(NewInode(type))
<1>1. 0 \in 0..(Word - 1) /\ 0 \in 0..TotalBlocks
  <2>1. Direct * Cells \in Nat
    BY Consts
  <2> QED BY <2>1, FsAssumption
<1>2. NewInode(type) \in Inode
  BY <1>1 DEF NewInode, Inode
<1> QED BY <1>2 DEF NewInode, Blocks, Placed

LEMMA UnknownTypes == Unknown \in [Positions -> Payloads \cup {Zero}]
  BY DEF Unknown

LEMMA MagicWritten ==
    ASSUME NEW d \in Disk, NEW m \in BOOLEAN
    PROVE  LET e == [d EXCEPT !.magic = m] IN
           /\ e \in Disk /\ e.imap = d.imap /\ e.bmap = d.bmap /\ e.inode = d.inode
           /\ e.data = d.data
  BY DEF Disk

LEMMA FormattedSound ==
    ASSUME NEW d \in {Formatted, Blank}, NEW c, NEW x, c = [i \in Inodes |-> Unknown]
    PROVE  Sound(d, {Root}, c, x) /\ Tidy(d, {Root})
<1> DEFINE table == [i \in Inodes |-> NewInode(IF i = Root THEN "DIR" ELSE "NONE")]
           zeros == [b \in DeviceBlocks |-> ZeroBlock]
<1>1. Reserved \in SUBSET Data /\ {Root} \in SUBSET Inodes
  BY Consts, RootIsInode DEF Reserved, Data
<1>2. table \in [Inodes -> Inode] /\ \A i \in Inodes : Placed(table[i])
  BY NewInodeTypes
<1>3. zeros \in [DeviceBlocks -> [Indices -> Cell]]
  <2>1. ZeroCell \in Cell
    BY Consts DEF ZeroCell, Cell
  <2>2. ZeroBlock \in [Indices -> Cell]
    BY <2>1 DEF ZeroBlock, Indices
  <2> QED BY <2>2
<1>4. Formatted = [magic |-> TRUE, imap |-> {Root}, bmap |-> Reserved, inode |-> table, data |-> zeros]
  BY DEF Formatted
<1>5. table[Root].type = "DIR" /\ table[Root].size = 0 /\ \A k \in Blocks : table[Root].direct_blocks[k] = 0
  BY RootIsInode, NewInodeTypes
<1> HIDE DEF table, zeros
<1>6. /\ Formatted \in Disk /\ Formatted.imap = {Root} /\ Formatted.bmap = Reserved
      /\ Formatted.inode = table /\ Formatted.data = zeros
  BY <1>1, <1>2, <1>3, <1>4 DEF Disk
<1>a. /\ d \in Disk /\ d.imap = {Root} /\ d.bmap = Reserved /\ d.inode = table /\ d.data = zeros
  BY <1>6, MagicWritten DEF Blank
<1>b. d.inode[Root].type = "DIR" /\ d.inode[Root].size = 0 /\ \A k \in Blocks : Ptr(d, Root, k) = 0
  BY <1>5, <1>a DEF Ptr
<1>7. \A k \in Blocks, j \in Indices : ~Used(d, Root, k, j)
  BY <1>b DEF Used
<1>8. Kept(d, {Root}, c)
  BY RootIsInode DEF Kept, Unknown
<1>9. Sound(d, {Root}, c, x)
  <2>1. InUse(d, {Root}) /\ Marked(d, {Root}) /\ Apart(d, {Root})
    BY <1>a, <1>b DEF InUse, Marked, Apart
  <2>2. Closed(d, {Root}) /\ Rootless(d, {Root}) /\ Single(d, {Root}) /\ Named(d, {Root})
    BY <1>7 DEF Closed, Rootless, Single, Named
  <2> QED BY <1>2, <1>a, <1>8, <2>1, <2>2 DEF Sound
<1>10. Tidy(d, {Root})
  <2>1. Slots2(d, Root) = {}
    BY <1>7 DEF Slots2
  <2>2. d.inode[Root].size = Cardinality(Slots2(d, Root))
    BY <1>b, <2>1, FS_EmptySet
  <2> QED BY <1>a, <2>2 DEF Tidy
<1> QED BY <1>9, <1>10

LEMMA InitInv == Init => FsInv
<1> SUFFICES ASSUME Init PROVE FsInv
  OBVIOUS
<1>1. disk \in {Formatted, Blank} /\ content = [i \in Inodes |-> Unknown] /\ promise = content
  BY DEF Init
<1>2. Sound(disk, {Root}, content, blind) /\ Tidy(disk, {Root})
  BY <1>1, FormattedSound
<1>3. Through(disk, <<>>, disk, {Root}, content, blind)
  BY <1>2, NoWrites
<1>4. LeadsTo(disk, {Root})
  BY <1>2, <1>3 DEF LeadsTo, Init, Sound
<1>5. TypeInv
  <2>1. content \in Claims /\ promise \in Claims
    BY <1>1, UnknownTypes DEF Claims
  <2>2. writes \in Seq(BlockWrite)
    <3>1. writes = <<>>
      BY DEF Init
    <3> QED BY <3>1
  <2>3. crashes \in 0..MaxCrashes
    BY Consts DEF Init
  <2> QED BY <2>1, <2>2, <2>3 DEF Init, TypeInv
<1>6. PhaseInv
  BY DEF Init, PhaseInv
<1> QED BY <1>4, <1>5, <1>6 DEF FsInv

LEMMA FsInitStep ==
    ASSUME FsInv, fs_init
    PROVE  FsInv'
<1>1. PICK e, U : LeadsTo(e, U)
  BY DEF FsInv
<1>2. /\ total = 0 /\ writes = <<>> /\ writes \in Seq(BlockWrite)
      /\ TypeInv /\ imap = {} /\ bmap = {} /\ ~up
  BY DEF FsInv, PhaseInv, TypeInv, fs_init
<1>3. e = disk
  <2>1. Through(disk, writes, e, U, content, blind)
    BY <1>1 DEF LeadsTo
  <2>2. writes = <<>> => disk = e
    <3>1. writes \in Seq(BlockWrite)
      BY <1>2
    <3> QED BY ONLY <3>1, <2>1, Ends
  <2> QED BY <1>2, <2>2
<1>4. total' # 0 <=> disk.magic
  BY <1>2, Consts DEF fs_init
<1>5. LeadsTo(e, U)'
  BY <1>1, <1>2, <1>3, <1>4 DEF LeadsTo, fs_init
<1>6. PhaseInv'
  BY <1>2, <1>4 DEF PhaseInv, fs_init
<1>7. TypeInv'
  BY <1>2 DEF TypeInv, fs_init
<1> QED BY <1>5, <1>6, <1>7 DEF FsInv

LEMMA MagicStays ==
    ASSUME NEW d \in Disk, NEW w \in BlockWrite
    PROVE  Written(d, w).magic = d.magic
  BY DEF Written, Disk, BlockWrite

LEMMA WriteBlockStep ==
    ASSUME FsInv, write_block
    PROVE  FsInv'
<1>1. PICK e, U : LeadsTo(e, U)
  BY DEF FsInv
<1>2. /\ TypeInv /\ writes \in Seq(BlockWrite) /\ writes # <<>>
      /\ disk' = Written(disk, Head(writes)) /\ writes' = Tail(writes)
      /\ total # 0 /\ total' = total /\ blind' = blind /\ held' = held /\ promise' = promise
      /\ imap' = imap /\ bmap' = bmap /\ lost' = lost
  BY DEF FsInv, TypeInv, PhaseInv, write_block
<1>3. Through(disk', writes', e, U, content, blind)
  BY <1>1, <1>2, OneDone DEF LeadsTo
<1>4. writes' \in Seq(BlockWrite)
  BY <1>2
<1>5. Through(disk', writes', e, U, content', blind')
  <2>1. CASE Len(writes) = 1
    <3>1. writes' = <<>>
      BY <1>2, <2>1
    <3>2. disk' = e /\ Sound(e, U, content, blind)
      BY <1>3, <1>4, <3>1, Ends
    <3>3. Sound(e, U, promise, blind)
      BY <1>1, <3>2 DEF LeadsTo, Sound
    <3>4. content' = promise
      BY <2>1 DEF write_block
    <3> QED BY <1>2, <3>1, <3>2, <3>3, <3>4, NoWrites
  <2>2. CASE Len(writes) # 1
    BY <1>2, <1>3, <2>2 DEF write_block
  <2> QED BY <2>1, <2>2
<1>6. LeadsTo(e, U)'
  BY <1>1, <1>2, <1>5 DEF LeadsTo
<1>7. disk'.magic = disk.magic
  <2>1. disk \in Disk
    BY <1>1, <1>2, Ends DEF LeadsTo, Sound
  <2>2. Head(writes) \in BlockWrite
    BY <1>2
  <2> QED BY <1>2, <2>1, <2>2, MagicStays
<1>8. PhaseInv'
  BY <1>2, <1>7 DEF FsInv, PhaseInv, write_block
<1>9. TypeInv'
  BY <1>2, <1>4 DEF TypeInv, write_block
<1> QED BY <1>6, <1>8, <1>9 DEF FsInv

LEMMA CrashStep ==
    ASSUME FsInv, Crash
    PROVE  FsInv'
<1>1. PICK e, U : LeadsTo(e, U)
  BY DEF FsInv
<1>2. TypeInv /\ writes \in Seq(BlockWrite)
  BY DEF FsInv, TypeInv
<1>3. \E V : Sound(disk, V, content, blind) /\ (lost' \/ Tidy(disk, V))
  <2>1. CASE writes = <<>>
    <3>1. disk = e /\ Sound(disk, U, content, blind)
      BY <1>1, <1>2, <2>1, Ends DEF LeadsTo
    <3> QED BY <1>1, <2>1, <3>1 DEF LeadsTo, Crash
  <2>2. CASE writes # <<>>
    <3>1. PICK V : Sound(disk, V, content, blind)
      BY <1>1, <1>2, Ends DEF LeadsTo
    <3> QED BY <2>2, <3>1 DEF Crash
  <2> QED BY <2>1, <2>2
<1>4. PICK V : Sound(disk, V, content, blind) /\ (lost' \/ Tidy(disk, V))
  BY <1>3
<1>5. Through(disk, <<>>, disk, V, content, blind)
  BY <1>4, NoWrites
<1>6. LeadsTo(disk, V)'
  BY <1>4, <1>5 DEF LeadsTo, Crash, Sound, InUse
<1>7. PhaseInv'
  BY DEF PhaseInv, Crash
<1>8. TypeInv'
  <2>1. writes' \in Seq(BlockWrite)
    <3>1. writes' = <<>>
      BY DEF Crash
    <3> QED BY <3>1
  <2>2. crashes' \in 0..MaxCrashes
    BY <1>2, Consts DEF Crash, TypeInv
  <2>3. lost' \in BOOLEAN
    BY <1>2, Zenon DEF Crash, TypeInv
  <2> QED BY <1>2, <2>1, <2>2, <2>3 DEF TypeInv, Crash
<1> QED BY <1>6, <1>7, <1>8 DEF FsInv

\* Where a call starts.
Ready(U) ==
    /\ Sound(disk, U, content, blind) /\ held \subseteq U /\ Kept(disk, U, promise)
    /\ imap = disk.imap /\ bmap = disk.bmap /\ (lost \/ Tidy(disk, U))
    /\ U \subseteq Inodes

LEMMA CallContext ==
    ASSUME FsInv, Idle, NEW id, Valid(id)
    PROVE  /\ TypeInv /\ PhaseInv /\ up /\ disk.magic /\ total = TotalInodes /\ total # 0
           /\ \E U : Ready(U)
<1>1. PICK e, U : LeadsTo(e, U)
  BY DEF FsInv
<1>2. /\ TypeInv /\ PhaseInv /\ writes \in Seq(BlockWrite) /\ writes = <<>>
      /\ total \in {0, TotalInodes}
  BY DEF FsInv, TypeInv, Idle
<1>3. total # 0
  BY <1>2 DEF Valid
<1>4. Through(disk, writes, e, U, content, blind)
  BY <1>1 DEF LeadsTo
<1>5. writes = <<>> => disk = e /\ Sound(disk, U, content, blind)
  <2>1. writes \in Seq(BlockWrite)
    BY <1>2
  <2> QED BY ONLY <2>1, <1>4, Ends
<1>6. U \subseteq Inodes
  BY <1>2, <1>5 DEF Sound, InUse, Disk
<1>7. Ready(U)
  BY <1>1, <1>2, <1>3, <1>5, <1>6 DEF LeadsTo, Ready
<1> QED BY <1>2, <1>3, <1>7 DEF PhaseInv

\* The entry a lookup finds is the first of its name.
LEMMA LookupFinds ==
    ASSUME NEW parent, NEW name, Lookup(parent, name) # 0
    PROVE  LET p == Min(Matches(disk, disk.inode[parent], name)) IN
           /\ p \in Positions /\ p \div Cells \in Blocks /\ p % Cells \in Indices
           /\ disk.inode[parent].type = "DIR"
           /\ Used(disk, parent, p \div Cells, p % Cells)
           /\ At(disk, parent, p \div Cells, p % Cells).id = Lookup(parent, name)
           /\ At(disk, parent, p \div Cells, p % Cells).name = name
<1> DEFINE F == Matches(disk, disk.inode[parent], name)
           p == Min(F)
<1>1. disk.inode[parent].type = "DIR" /\ F # {} /\ Lookup(parent, name) = CellAt(disk, disk.inode[parent], p).id
  BY DEF Lookup
<1>2. F \in SUBSET Nat /\ F \subseteq Positions
  BY Consts DEF Matches, Slots, Positions
<1> HIDE DEF F
<1>3. p \in F
  BY <1>1, <1>2, MinOf
<1> HIDE DEF p
<1>4. p \in Positions /\ p \div Cells \in Blocks /\ p % Cells \in Indices
  BY <1>2, <1>3, PositionIndices
<1>5. /\ Ptr(disk, parent, p \div Cells) # 0
      /\ At(disk, parent, p \div Cells, p % Cells).name = name
      /\ At(disk, parent, p \div Cells, p % Cells) = CellAt(disk, disk.inode[parent], p)
  BY <1>3 DEF F, Matches, Slots, CellAt, Ptr, At
<1>6. Used(disk, parent, p \div Cells, p % Cells)
  BY <1>1, <1>5 DEF Used, At
<1> QED BY <1>1, <1>4, <1>5, <1>6 DEF p, F

\* A name a lookup does not find is not in the directory.
LEMMA LookupMisses ==
    ASSUME NEW parent, NEW name, Lookup(parent, name) = 0, NEW k \in Blocks, NEW j \in Indices,
           Used(disk, parent, k, j)
    PROVE  At(disk, parent, k, j).name # name
<1> DEFINE F == Matches(disk, disk.inode[parent], name)
           p == k * Cells + j
<1> SUFFICES ASSUME At(disk, parent, k, j).name = name PROVE FALSE
  OBVIOUS
<1>1. p \in Positions /\ p \div Cells = k /\ p % Cells = j
  BY PositionOf
<1> HIDE DEF p
<1>2. p \in F
  BY <1>1 DEF Matches, Slots, CellAt, Used, At, Ptr
<1>3. F \in SUBSET Nat
  BY Consts DEF Matches, Slots, Positions
<1>4. Min(F) \in F
  <2> HIDE DEF F
  <2> QED BY <1>2, <1>3, MinOf
<1>5. CellAt(disk, disk.inode[parent], Min(F)).id # 0
  BY <1>4 DEF Matches
<1>6. F # {} /\ disk.inode[parent].type = "DIR"
  BY <1>2 DEF Used
<1> QED BY <1>5, <1>6 DEF Lookup

LEMMA FsLookupStep ==
    ASSUME FsInv, NEW parent, NEW name, fs_lookup(parent, name)
    PROVE  FsInv'
<1>1. Idle /\ parent \in held /\ Valid(parent) /\ Lookup(parent, name) # 0
  BY DEF fs_lookup
<1>2. PICK U : Ready(U)
  BY <1>1, CallContext
<1>3. Lookup(parent, name) \in U
  <2>1. parent \in U /\ Closed(disk, U)
    BY <1>1, <1>2 DEF Ready, Sound
  <2> QED BY <1>1, <2>1, LookupFinds DEF Closed
<1>4. Through(disk, <<>>, disk, U, content, blind)
  BY <1>2, NoWrites DEF Ready
<1>5. writes = <<>>
  BY <1>1 DEF Idle
<1>6. LeadsTo(disk, U)'
  BY <1>2, <1>3, <1>4, <1>5 DEF Ready, LeadsTo, fs_lookup
<1>7. TypeInv' /\ PhaseInv'
  BY <1>1, CallContext DEF TypeInv, PhaseInv, fs_lookup
<1> QED BY <1>6, <1>7 DEF FsInv

-----------------------------------------------------------------------------
(* fs_create *)

LEMMA InodeAllocated ==
    ASSUME total = TotalInodes, allocate_inode # 0
    PROVE  allocate_inode \in Inodes \ imap
<1> DEFINE free == {i \in 0..(total - 1) : (i + 1) \notin imap}
<1>1. free # {} /\ allocate_inode = Min(free) + 1
  BY DEF allocate_inode
<1>2. free \in SUBSET Nat
  BY Consts
<1> HIDE DEF free
<1>3. Min(free) \in free
  BY <1>1, <1>2, MinOf
<1> QED BY <1>1, <1>3, Consts DEF free, Inodes

LEMMA BlockAllocated ==
    ASSUME NEW m, allocate_block(m) # 0
    PROVE  allocate_block(m) - 1 \in Data \ m /\ allocate_block(m) \in Nat
<1> DEFINE free == (0..(TotalBlocks - 1)) \ m
<1>1. free # {} /\ allocate_block(m) = Min(free) + 1
  BY DEF allocate_block
<1>2. free \in SUBSET Nat
  BY Consts
<1> HIDE DEF free
<1>3. Min(free) \in free
  BY <1>1, <1>2, MinOf
<1>4. PICK n \in Nat : n = Min(free)
  BY <1>2, <1>3
<1>5. allocate_block(m) = n + 1 /\ n \in free
  BY <1>1, <1>3, <1>4
<1>6. n + 1 - 1 = n /\ n + 1 \in Nat
  OBVIOUS
<1> QED BY <1>5, <1>6 DEF free, Data

LEMMA EntryIndexOpen ==
    ASSUME NEW v
    PROVE  LET i == EntryIndex(v) IN
           /\ i \in 0..Direct
           /\ i < Direct => /\ i \in Blocks
                            /\ \/ v.direct_blocks[i] = 0
                               \/ \E j \in Indices : disk.data[v.direct_blocks[i]][j].id = 0
<1> DEFINE open == {i \in 0..(Direct - 1) :
                      \/ v.direct_blocks[i] = 0
                      \/ \E j \in 0..(Cells - 1) : disk.data[v.direct_blocks[i]][j].id = 0}
<1>1. EntryIndex(v) = IF open = {} THEN Direct ELSE Min(open)
  BY DEF EntryIndex
<1>2. open \in SUBSET Nat
  BY Consts
<1>3. \A i \in open : /\ i \in Blocks
                      /\ \/ v.direct_blocks[i] = 0
                         \/ \E j \in Indices : disk.data[v.direct_blocks[i]][j].id = 0
  BY DEF Blocks, Indices
<1> HIDE DEF open
<1>4. CASE open = {}
  BY <1>1, <1>4, Consts
<1>5. CASE open # {}
  <2>1. Min(open) \in open
    BY <1>2, <1>5, MinOf
  <2> QED BY <1>1, <1>3, <1>5, <2>1, Consts DEF Blocks
<1> QED BY <1>4, <1>5

\* A directory never has as many entries as a size can count.
LEMMA SlotsFinite ==
    ASSUME NEW d, NEW i
    PROVE  /\ IsFiniteSet(Slots2(d, i)) /\ Cardinality(Slots2(d, i)) \in Nat
           /\ Cardinality(Slots2(d, i)) <= Direct * Cells
<1>1. IsFiniteSet(Blocks) /\ Cardinality(Blocks) = Direct
  BY FS_Interval, Consts DEF Blocks
<1>2. IsFiniteSet(Indices) /\ Cardinality(Indices) = Cells
  BY FS_Interval, Consts DEF Indices
<1>3. IsFiniteSet(Blocks \X Indices) /\ Cardinality(Blocks \X Indices) = Direct * Cells
  BY <1>1, <1>2, FS_Product
<1>4. Slots2(d, i) \subseteq Blocks \X Indices
  BY DEF Slots2
<1> QED BY <1>3, <1>4, FS_Subset, FS_CardinalityType

\* Disk e is d with a new inode and its entry in directory i.
Created(d, e, U, i, k, j, new) ==
    /\ e.imap = U \cup {new}
    /\ \A h \in U : /\ e.inode[h].type = d.inode[h].type
                    /\ h # i => e.inode[h].size = d.inode[h].size
    /\ e.inode[i].size = (d.inode[i].size + 1) % Word /\ e.inode[new].size = 0
    /\ \A h \in U, l \in Blocks, m \in Indices :
          /\ Used(e, h, l, m) <=> Used(d, h, l, m) \/ (h = i /\ l = k /\ m = j)
          /\ Used(d, h, l, m) => At(e, h, l, m) = At(d, h, l, m)
    /\ ~Used(d, i, k, j) /\ At(e, i, k, j).id = new
    /\ \A l \in Blocks, m \in Indices : ~Used(e, new, l, m)
    /\ \A h \in U, l \in Blocks : Ptr(d, h, l) # 0 => Ptr(e, h, l) = Ptr(d, h, l)
    /\ \A b \in e.bmap : b \in d.bmap \/ \E h \in U, l \in Blocks : Ptr(e, h, l) = b + 1

LEMMA TidyCreated ==
    ASSUME NEW d, NEW e, NEW U \in SUBSET Inodes, NEW c, NEW x, Sound(d, U, c, x), Tidy(d, U),
           NEW i \in U, NEW k \in Blocks, NEW j \in Indices, NEW new \in Inodes \ U,
           d.inode[i].type = "DIR", Created(d, e, U, i, k, j, new)
    PROVE  Tidy(e, U \cup {new})
<1> DEFINE V == U \cup {new}
<1>1. ASSUME NEW b \in Data \ Reserved, b \in e.bmap
      PROVE  \E h \in V, l \in Blocks : Ptr(e, h, l) = b + 1
  <2>1. CASE b \in d.bmap
    <3>1. PICK h \in U, l \in Blocks : Ptr(d, h, l) = b + 1
      BY <2>1 DEF Tidy
    <3>2. b + 1 # 0
      BY Consts DEF Data
    <3> QED BY <3>1, <3>2 DEF Created
  <2>2. CASE b \notin d.bmap
    BY <1>1, <2>2 DEF Created
  <2> QED BY <2>1, <2>2
<1>2. ASSUME NEW S \in SUBSET Inodes, Root \in S, Closed(e, S) PROVE V \subseteq S
  <2> DEFINE T == S \cap U
  <2>1. Root \in T /\ T \in SUBSET Inodes
    BY <1>2 DEF Sound, InUse
  <2>2. Closed(d, T)
    <3> SUFFICES ASSUME NEW h \in T, NEW l \in Blocks, NEW m \in Indices, Used(d, h, l, m)
                 PROVE  At(d, h, l, m).id \in T
      BY DEF Closed
    <3>1. At(d, h, l, m).id \in U
      BY DEF Sound, Closed
    <3>2. Used(e, h, l, m) /\ At(e, h, l, m) = At(d, h, l, m)
      BY DEF Created
    <3> QED BY <1>2, <3>1, <3>2 DEF Closed
  <2> HIDE DEF T
  <2>3. U \subseteq T
    BY <2>1, <2>2 DEF Tidy
  <2>4. i \in S /\ U \subseteq S
    BY <2>3 DEF T
  <2>5. Used(e, i, k, j) /\ At(e, i, k, j).id = new
    BY DEF Created
  <2>6. new \in S
    BY <1>2, <2>4, <2>5 DEF Closed
  <2> QED BY <2>4, <2>6
<1>3. ASSUME NEW h \in V, e.inode[h].type = "DIR" PROVE e.inode[h].size = Cardinality(Slots2(e, h))
  <2>1. CASE h = new
    <3>1. Slots2(e, h) = {}
      BY <2>1 DEF Slots2, Created
    <3> QED BY <2>1, <3>1, FS_EmptySet DEF Created
  <2>2. CASE h # new /\ h # i
    <3>1. Slots2(e, h) = Slots2(d, h)
      BY <2>2 DEF Slots2, Created
    <3> QED BY <1>3, <2>2, <3>1 DEF Created, Tidy
  <2>3. CASE h = i
    <3>1. Slots2(e, i) = Slots2(d, i) \cup {<<k, j>>}
      <4>1. ASSUME NEW s \in Blocks \X Indices
            PROVE  s \in Slots2(e, i) <=> s \in Slots2(d, i) \/ s = <<k, j>>
        <5>1. s[1] \in Blocks /\ s[2] \in Indices /\ (s = <<k, j>> <=> s[1] = k /\ s[2] = j)
          OBVIOUS
        <5> QED BY <5>1 DEF Slots2, Created
      <4>2. <<k, j>> \in Blocks \X Indices
        OBVIOUS
      <4> QED BY <4>1, <4>2 DEF Slots2
    <3>2. <<k, j>> \notin Slots2(d, i)
      BY DEF Slots2, Created
    <3>3. Cardinality(Slots2(e, i)) = Cardinality(Slots2(d, i)) + 1
      BY <3>1, <3>2, SlotsFinite, FS_AddElement
    <3>4. Direct * Cells \in Nat /\ Direct * Cells < Word
      BY FsAssumption, Consts
    <3>5. d.inode[i].size = Cardinality(Slots2(d, i))
      BY DEF Tidy
    <3>6. d.inode[i].size + 1 \in 0..(Word - 1)
      BY <3>3, <3>4, <3>5, SlotsFinite, Consts
    <3>7. (d.inode[i].size + 1) % Word = d.inode[i].size + 1
      BY <3>6, Consts
    <3> QED BY <2>3, <3>3, <3>5, <3>7 DEF Created
  <2> QED BY <2>1, <2>2, <2>3
<1> QED BY <1>1, <1>2, <1>3 DEF Tidy, Created

\* fs_create's first two writes: the bitmap v, then the new inode w.
NewInodeWrites(d, U, c, x, new, type, v, w, e) ==
    /\ Sound(d, U, c, x) /\ new \in Inodes \ d.imap /\ type \in {"FILE", "DIR"}
    /\ \A p \in Positions : c[new][p] = Zero
    /\ v = InodeBitmap(d.imap \cup {new}) /\ w = InodeBlock(new, NewInode(type))
    /\ e = Written(Written(d, v), w)

\* They lead to a disk with one more inode in use.
WithNewInode(d, V, c, x, new, type, ws, e) ==
    /\ Through(d, ws, e, V, c, x) /\ ws \in Seq(BlockWrite) /\ Sound(e, V, c, x)
    /\ e.imap = d.imap \cup {new} /\ e.bmap = d.bmap /\ e.data = d.data
    /\ e.inode = [d.inode EXCEPT ![new] = NewInode(type)]

LEMMA CreateStart ==
    ASSUME NEW d, NEW U, NEW c, NEW x, NEW new, NEW type, NEW v, NEW w, NEW e,
           NewInodeWrites(d, U, c, x, new, type, v, w, e)
    PROVE  WithNewInode(d, U \cup {new}, c, x, new, type, <<v, w>>, e)
<1> USE DEF NewInodeWrites
<1> DEFINE m == d.imap \cup {new}
           V == U \cup {new}
           f == Written(d, v)
<1>1. d \in Disk /\ d.inode \in [Inodes -> Inode] /\ d.imap \subseteq Inodes /\ U \subseteq d.imap
  BY DEF Sound, Disk, InUse
<1>2. m \in SUBSET Inodes /\ U \subseteq m
  BY <1>1
<1>3. /\ f \in Disk /\ f.imap = m /\ f.bmap = d.bmap /\ f.inode = d.inode /\ f.data = d.data
  BY <1>1, <1>2, WriteInodeBitmap
<1>4. Sound(f, U, c, x)
  BY <1>2, SoundInodeBitmap
<1>5. /\ NewInode(type) \in Inode /\ Placed(NewInode(type)) /\ NewInode(type).type = type
      /\ \A k \in Blocks : NewInode(type).direct_blocks[k] = 0
  BY NewInodeTypes
<1>6. v \in BlockWrite /\ w \in BlockWrite
  BY <1>2, <1>5, WriteTypes
<1>16. e = Written(f, w)
  OBVIOUS
<1> HIDE DEF f
<1>7. /\ e.imap = f.imap /\ e.bmap = f.bmap /\ e.data = f.data
      /\ e.inode = [f.inode EXCEPT ![new] = NewInode(type)]
  BY <1>3, <1>5, <1>16, WriteInodeBlock
<1>8. Sound(e, U, c, x)
  BY <1>1, <1>4, <1>5, <1>16, SoundUnusedInode
<1>9. e.inode[new] = NewInode(type) /\ new \in e.imap
  BY <1>1, <1>3, <1>7
<1>10. Sound(e, V, c, x)
  BY <1>5, <1>8, <1>9, SoundWith DEF Ptr
<1>11. Through(d, <<>>, d, U, c, x)
  BY NoWrites
<1>12. Through(d, Append(<<>>, v), f, U, c, x)
  <2>1. <<>> \in Seq(BlockWrite)
    OBVIOUS
  <2>2. Sound(Written(d, v), U, c, x)
    BY <1>4 DEF f
  <2>3. Through(d, Append(<<>>, v), Written(d, v), U, c, x)
    BY ONLY <1>6, <1>11, <2>1, <2>2, OneMore
  <2> QED BY <2>3 DEF f
<1>13. Append(<<>>, v) \in Seq(BlockWrite)
  BY <1>6
<1>15. <<v, w>> \in Seq(BlockWrite) /\ Append(Append(<<>>, v), w) = <<v, w>>
  BY ONLY <1>6, TwoWrites
<1>14. Through(d, Append(Append(<<>>, v), w), e, V, c, x)
  <2>1. Sound(Written(f, w), V, c, x)
    BY <1>10, <1>16
  <2>2. Through(d, Append(Append(<<>>, v), w), Written(f, w), V, c, x)
    BY ONLY <1>6, <1>12, <1>13, <2>1, OneMore
  <2> QED BY <1>16, <2>2
<1>17. Through(d, <<v, w>>, e, V, c, x)
  BY <1>14, <1>15
<1>18. /\ e.imap = m /\ e.bmap = d.bmap /\ e.data = d.data
       /\ e.inode = [d.inode EXCEPT ![new] = NewInode(type)]
  BY <1>3, <1>7
<1> QED BY <1>10, <1>15, <1>17, <1>18 DEF WithNewInode

\* A block allocated from the bitmap is one no inode in use points to.
LEMMA UnmarkedUnused ==
    ASSUME NEW d, NEW U, NEW c, NEW x, Sound(d, U, c, x), NEW b \in Data \ d.bmap
    PROVE  /\ b \notin Reserved /\ b \in Nat /\ b + 1 \in DeviceBlocks /\ b + 1 \in 0..TotalBlocks
           /\ d.bmap \cup {b} \in SUBSET Data
           /\ \A h \in U, l \in Blocks : Ptr(d, h, l) # b + 1
<1>1. d.bmap \subseteq Data /\ Reserved \subseteq d.bmap /\ Marked(d, U)
  BY DEF Sound, Disk
<1>2. b \in Nat /\ b < TotalBlocks /\ b \notin Reserved
  BY <1>1, Consts DEF Data
<1>3. b + 1 \in DeviceBlocks /\ b + 1 \in 0..TotalBlocks
  BY <1>2, Consts DEF DeviceBlocks, Reserved
<1>4. \A h \in U, l \in Blocks : Ptr(d, h, l) # b + 1
  BY <1>1, <1>2 DEF Marked
<1> QED BY <1>1, <1>2, <1>3, <1>4

-----------------------------------------------------------------------------
(* The entry fs_create writes *)

\* The writes ws lead from o to d, where the new inode has no entry yet and its
\* name is free in directory i.
EntryPlace(o, ws, d, V, c, x, i, k, j, new, name) ==
    /\ ws \in Seq(BlockWrite) /\ Through(o, ws, d, V, c, x) /\ Sound(d, V, c, x)
    /\ i \in V /\ k \in Blocks /\ j \in Indices /\ new \in V /\ new # Root /\ new # i
    /\ name \in Names /\ d.inode[i].type = "DIR"
    /\ \A h \in V, l \in Blocks, m \in Indices : Used(d, h, l, m) => At(d, h, l, m).id # new
    /\ \/ x
       \/ \A l \in Blocks, m \in Indices : Used(d, i, l, m) => At(d, i, l, m).name # name

\* Disk e is d with the entry, in a block directory i has or in a new one.
WithEntry(d, e, V, i, k, j, new, name) ==
    /\ Added(d, e, V, i, k, j, new, name)
    /\ e.imap = d.imap
    /\ \A h \in V : /\ e.inode[h].type = d.inode[h].type
                    /\ h # i => e.inode[h].size = d.inode[h].size
    /\ e.inode[i].size = (d.inode[i].size + 1) % Word
    /\ \A h \in V, l \in Blocks : Ptr(d, h, l) # 0 => Ptr(e, h, l) = Ptr(d, h, l)
    /\ \A b \in e.bmap : b \in d.bmap \/ Ptr(e, i, k) = b + 1

EntryReached(o, ws, d, V, c, x, i, k, j, new, name, m) ==
    /\ ws \in Seq(BlockWrite)
    /\ \E e : /\ Through(o, ws, e, V, c, x) /\ e.bmap = m
              /\ WithEntry(d, e, V, i, k, j, new, name)

\* The last two writes with room in a block of the parent: the entry, then the
\* parent's inode.
BlockWrites(o, ws, d, V, c, x, i, k, j, new, name, b, v, w) ==
    /\ EntryPlace(o, ws, d, V, c, x, i, k, j, new, name)
    /\ Ptr(d, i, k) # 0 /\ ~Used(d, i, k, j) /\ b = Ptr(d, i, k)
    /\ v = DataBlock(b, [d.data[b] EXCEPT ![j] = Entry(new, name)])
    /\ w = InodeBlock(i, [d.inode[i] EXCEPT !.direct_blocks[k] = b, !.size = (@ + 1) % Word])

LEMMA EntryInBlock ==
    ASSUME NEW o, NEW ws, NEW d, NEW V, NEW c, NEW x, NEW i, NEW k, NEW j, NEW new, NEW name,
           NEW b, NEW v, NEW w, BlockWrites(o, ws, d, V, c, x, i, k, j, new, name, b, v, w)
    PROVE  EntryReached(o, ws \o <<v, w>>, d, V, c, x, i, k, j, new, name, d.bmap)
<1> DEFINE z == [d.data[b] EXCEPT ![j] = Entry(new, name)]
           u == [d.inode[i] EXCEPT !.direct_blocks[k] = b, !.size = (@ + 1) % Word]
           f == Written(d, v)
           e == Written(f, w)
<1>0. /\ Sound(d, V, c, x)
      /\ i \in V /\ k \in Blocks /\ j \in Indices /\ new \in V /\ new # Root /\ new # i
      /\ name \in Names /\ d.inode[i].type = "DIR"
      /\ \A h \in V, l \in Blocks, m \in Indices : Used(d, h, l, m) => At(d, h, l, m).id # new
      /\ \/ x
         \/ \A l \in Blocks, m \in Indices : Used(d, i, l, m) => At(d, i, l, m).name # name
      /\ Ptr(d, i, k) # 0 /\ ~Used(d, i, k, j) /\ b = Ptr(d, i, k)
      /\ v = DataBlock(b, z) /\ w = InodeBlock(i, u)
      /\ ws \in Seq(BlockWrite) /\ Through(o, ws, d, V, c, x)
  BY DEF BlockWrites, EntryPlace
<1>1. /\ d \in Disk /\ d.inode \in [Inodes -> Inode] /\ V \subseteq Inodes /\ i \in Inodes
      /\ d.inode[i] \in Inode /\ d.data \in [DeviceBlocks -> [Indices -> Cell]]
  BY <1>0 DEF Sound, Disk, InUse
<1>2. b \in DeviceBlocks /\ b \in 0..TotalBlocks
  BY <1>0, <1>1, PtrTypes DEF Sound
<1>3. (d.inode[i].size + 1) % Word \in 0..(Word - 1)
  <2>1. d.inode[i].size \in 0..(Word - 1) /\ Word \in Nat /\ Word > 0
    BY <1>0, <1>1, InodeTypes, Consts
  <2> QED BY <1>0, <2>1
<1>4. /\ u \in Inode /\ u.type = "DIR" /\ u.size = (d.inode[i].size + 1) % Word
      /\ u.direct_blocks = d.inode[i].direct_blocks
  <2>1. d.inode[i].direct_blocks \in [Blocks -> 0..TotalBlocks]
    BY <1>0, <1>1, InodeTypes
  <2>2. [d.inode[i].direct_blocks EXCEPT ![k] = b] = d.inode[i].direct_blocks
    BY <1>0, <2>1 DEF Ptr
  <2>3. u = [d.inode[i] EXCEPT !.size = (@ + 1) % Word]
    BY <1>0, <1>1, <2>2 DEF Inode
  <2> QED BY <1>0, <1>1, <1>3, <2>3 DEF Inode
<1>5. z \in [Indices -> Cell]
  <2>1. new \in 0..TotalInodes
    BY <1>0, <1>1, Consts DEF Inodes
  <2>2. Entry(new, name) \in Cell
    BY <1>0, <2>1 DEF Entry, Cell
  <2> QED BY <1>0, <1>1, <1>2, <2>2
<1>6. /\ Sound(f, V, c, x) /\ Added(d, f, V, i, k, j, new, name)
  BY <1>0, SoundEntryAdded
<1> HIDE DEF u, z
<1>7. v \in BlockWrite /\ w \in BlockWrite
  BY <1>0, <1>1, <1>2, <1>4, <1>5, WriteTypes
<1>8. /\ f \in Disk /\ f.imap = d.imap /\ f.bmap = d.bmap /\ f.inode = d.inode
      /\ f.data = [d.data EXCEPT ![b] = z]
  BY <1>0, <1>1, <1>2, <1>5, WriteDataBlock
<1> HIDE DEF f
<1>9. Sound(e, V, c, x)
  BY <1>0, <1>4, <1>6, <1>8, SoundResized DEF Holds
<1>10. /\ e.imap = f.imap /\ e.bmap = f.bmap /\ e.data = f.data
       /\ e.inode = [d.inode EXCEPT ![i] = u]
  BY <1>0, <1>1, <1>4, <1>8, WriteInodeBlock
<1> HIDE DEF e
<1>11. \A h \in V : /\ e.inode[h].type = f.inode[h].type
                    /\ e.inode[h].direct_blocks = f.inode[h].direct_blocks
  BY <1>0, <1>1, <1>4, <1>8, <1>10
<1>12. \A h \in V, l \in Blocks : Ptr(e, h, l) = Ptr(d, h, l)
  BY <1>0, <1>8, <1>11 DEF Ptr
<1>13. \A h \in V, l \in Blocks, m \in Indices : /\ Used(e, h, l, m) <=> Used(f, h, l, m)
                                                 /\ At(e, h, l, m) = At(f, h, l, m)
  BY <1>0, <1>10, <1>11 DEF Used, At, Ptr
<1>14. Added(d, e, V, i, k, j, new, name)
  BY <1>0, <1>6, <1>13 DEF Added
<1>15. WithEntry(d, e, V, i, k, j, new, name)
  BY <1>0, <1>1, <1>4, <1>8, <1>10, <1>12, <1>14 DEF WithEntry
<1>16. Append(ws, v) \in Seq(BlockWrite)
  BY <1>0, <1>7
<1>17. Through(o, Append(ws, v), f, V, c, x)
  BY <1>0, <1>6, <1>7, OneMore DEF f
<1>18. Through(o, Append(Append(ws, v), w), e, V, c, x)
  BY <1>7, <1>9, <1>16, <1>17, OneMore DEF e
<1>19. ws \o <<v, w>> = Append(Append(ws, v), w) /\ ws \o <<v, w>> \in Seq(BlockWrite)
  BY ONLY <1>0, <1>7, WritesJoined
<1>20. e.bmap = d.bmap
  BY <1>8, <1>10
<1> QED BY <1>15, <1>18, <1>19, <1>20 DEF EntryReached

\* The last three writes with a new block: the bitmap, the block with the entry,
\* then the parent's inode that points to it.
NewBlockWrites(o, ws, d, V, c, x, i, k, j, new, name, b, t, v, w) ==
    /\ EntryPlace(o, ws, d, V, c, x, i, k, j, new, name)
    /\ Ptr(d, i, k) = 0 /\ b \in Data \ d.bmap
    /\ t = BlockBitmap(d.bmap \cup {b})
    /\ v = DataBlock(b + 1, [ZeroBlock EXCEPT ![j] = Entry(new, name)])
    /\ w = InodeBlock(i, [d.inode[i] EXCEPT !.direct_blocks[k] = b + 1, !.size = (@ + 1) % Word])

LEMMA EntryInNewBlock ==
    ASSUME NEW o, NEW ws, NEW d, NEW V, NEW c, NEW x, NEW i, NEW k, NEW j, NEW new, NEW name,
           NEW b, NEW t, NEW v, NEW w,
           NewBlockWrites(o, ws, d, V, c, x, i, k, j, new, name, b, t, v, w)
    PROVE  EntryReached(o, ws \o (<<t>> \o <<v, w>>), d, V, c, x, i, k, j, new, name, d.bmap \cup {b})
<1> DEFINE m0 == d.bmap \cup {b}
           z == [ZeroBlock EXCEPT ![j] = Entry(new, name)]
           u == [d.inode[i] EXCEPT !.direct_blocks[k] = b + 1, !.size = (@ + 1) % Word]
           f == Written(d, t)
           g == Written(f, v)
           e == Written(g, w)
<1>0. /\ Sound(d, V, c, x)
      /\ i \in V /\ k \in Blocks /\ j \in Indices /\ new \in V /\ new # Root /\ new # i
      /\ name \in Names /\ d.inode[i].type = "DIR"
      /\ \A h \in V, l \in Blocks, m \in Indices : Used(d, h, l, m) => At(d, h, l, m).id # new
      /\ \/ x
         \/ \A l \in Blocks, m \in Indices : Used(d, i, l, m) => At(d, i, l, m).name # name
      /\ Ptr(d, i, k) = 0 /\ b \in Data \ d.bmap
      /\ t = BlockBitmap(m0) /\ v = DataBlock(b + 1, z) /\ w = InodeBlock(i, u)
      /\ ws \in Seq(BlockWrite) /\ Through(o, ws, d, V, c, x)
  BY DEF NewBlockWrites, EntryPlace
<1>1. /\ d \in Disk /\ d.inode \in [Inodes -> Inode] /\ V \subseteq Inodes /\ i \in Inodes
      /\ d.inode[i] \in Inode /\ d.data \in [DeviceBlocks -> [Indices -> Cell]]
      /\ Reserved \subseteq d.bmap /\ Marked(d, V)
  BY <1>0 DEF Sound, Disk, InUse
<1>2. /\ b \notin Reserved /\ b \in Nat /\ b + 1 \in DeviceBlocks /\ b + 1 \in 0..TotalBlocks
      /\ m0 \in SUBSET Data
      /\ \A h \in V, l \in Blocks : Ptr(d, h, l) # b + 1
  BY <1>0, UnmarkedUnused
<1>3. (d.inode[i].size + 1) % Word \in 0..(Word - 1)
  <2>1. d.inode[i].size \in 0..(Word - 1) /\ Word \in Nat /\ Word > 0
    BY <1>0, <1>1, InodeTypes, Consts
  <2> QED BY <1>0, <2>1
<1>4. /\ u \in Inode /\ u.type = "DIR" /\ u.size = (d.inode[i].size + 1) % Word
      /\ u.direct_blocks = [d.inode[i].direct_blocks EXCEPT ![k] = b + 1]
  BY <1>0, <1>1, <1>2, <1>3 DEF Inode, Blocks
<1>5. z \in [Indices -> Cell]
  <2>0. new \in Inodes
    BY <1>0, <1>1
  <2>1. new \in 0..TotalInodes
    BY ONLY <2>0, Consts DEF Inodes
  <2>2. Entry(new, name) \in Cell /\ ZeroCell \in Cell
    BY <1>0, <2>1, Consts DEF Entry, Cell, ZeroCell
  <2> QED BY <1>0, <2>2 DEF ZeroBlock, Indices
<1> HIDE DEF u, z, m0
<1>6. t \in BlockWrite /\ v \in BlockWrite /\ w \in BlockWrite
  BY <1>0, <1>1, <1>2, <1>4, <1>5, WriteTypes
<1>7. Sound(f, V, c, x)
  <2>1. Reserved \subseteq m0 /\ \A h \in V, l \in Blocks : Ptr(d, h, l) # 0 => Ptr(d, h, l) - 1 \in m0
    BY <1>0, <1>1 DEF m0, Marked
  <2> QED BY <1>0, <1>2, <2>1, SoundBlockBitmap
<1>8. f \in Disk /\ f.imap = d.imap /\ f.bmap = m0 /\ f.inode = d.inode /\ f.data = d.data
  BY <1>0, <1>1, <1>2, WriteBlockBitmap
<1> HIDE DEF f
<1>9. Sound(g, V, c, x)
  <2>1. \A h \in V, l \in Blocks : Ptr(f, h, l) # b + 1
    BY <1>0, <1>2, <1>8 DEF Ptr
  <2> QED BY <1>0, <1>2, <1>5, <1>7, <2>1, SoundUnusedData
<1>10. /\ g \in Disk /\ g.imap = d.imap /\ g.bmap = m0 /\ g.inode = d.inode
       /\ g.data = [d.data EXCEPT ![b + 1] = z]
  BY <1>0, <1>2, <1>5, <1>8, WriteDataBlock
<1> HIDE DEF g
<1>11. \A h \in V, l \in Blocks : Ptr(g, h, l) = Ptr(d, h, l)
  BY <1>0, <1>10 DEF Ptr
<1>12. ASSUME NEW h \in V, NEW l \in Blocks, NEW m \in Indices
       PROVE  /\ Used(g, h, l, m) <=> Used(d, h, l, m)
              /\ Used(d, h, l, m) => At(g, h, l, m) = At(d, h, l, m)
  <2>1. Ptr(d, h, l) # 0 => Ptr(d, h, l) \in DeviceBlocks /\ Ptr(d, h, l) # b + 1
    BY <1>0, <1>1, <1>2, PtrTypes DEF Sound
  <2> QED BY <1>0, <1>1, <1>2, <1>10, <1>11, <2>1 DEF Used, At
<1>13. /\ b \in g.bmap /\ g.inode[i].type = "DIR" /\ Ptr(g, i, k) = 0 /\ u.type = "DIR"
       /\ u.direct_blocks = [g.inode[i].direct_blocks EXCEPT ![k] = b + 1]
       /\ g.data[b + 1] = [ZeroBlock EXCEPT ![j] = Entry(new, name)]
       /\ \A h \in V, l \in Blocks : Ptr(g, h, l) # b + 1
  BY <1>0, <1>1, <1>2, <1>4, <1>10, <1>11 DEF m0, z
<1>14. /\ \A h \in V, l \in Blocks, m \in Indices : Used(g, h, l, m) => At(g, h, l, m).id # new
       /\ \/ x
          \/ \A l \in Blocks, m \in Indices : Used(g, i, l, m) => At(g, i, l, m).name # name
  BY <1>0, <1>12
<1>15. Sound(e, V, c, x) /\ Added(g, e, V, i, k, j, new, name)
  <2>1. /\ i \in V /\ k \in Blocks /\ j \in Indices /\ new \in V /\ new # Root /\ name \in Names
        /\ e = Written(g, InodeBlock(i, u))
    BY <1>0, <1>1
  <2> HIDE DEF e
  <2>2. u \in Inode /\ b \notin Reserved
    BY <1>2, <1>4
  <2>3. LET r == Written(g, InodeBlock(i, u))
        IN  Sound(r, V, c, x) /\ Added(g, r, V, i, k, j, new, name)
    BY ONLY <1>9, <1>13, <1>14, <2>1, <2>2, SoundDirBlock
  <2> QED BY <2>1, <2>3
<1>16. /\ e.imap = g.imap /\ e.bmap = g.bmap /\ e.data = g.data
       /\ e.inode = [d.inode EXCEPT ![i] = u]
  BY <1>0, <1>1, <1>4, <1>10, WriteInodeBlock
<1> HIDE DEF e
<1>17. \A h \in V, l \in Blocks : Ptr(e, h, l) = IF h = i /\ l = k THEN b + 1 ELSE Ptr(d, h, l)
  <2>1. d.inode[i].direct_blocks \in [Blocks -> 0..TotalBlocks]
    BY <1>0, <1>1, InodeTypes
  <2> QED BY <1>0, <1>1, <1>4, <1>16, <2>1 DEF Ptr
<1>18. Added(d, e, V, i, k, j, new, name)
  <2>1. ~Used(d, i, k, j)
    BY <1>0 DEF Used
  <2>2. ASSUME NEW h \in V, NEW l \in Blocks, NEW m \in Indices
        PROVE  /\ Used(d, h, l, m) => Used(e, h, l, m) /\ At(e, h, l, m) = At(d, h, l, m)
               /\ Used(e, h, l, m) => \/ h = i /\ l = k /\ m = j
                                      \/ Used(d, h, l, m) /\ At(e, h, l, m) = At(d, h, l, m)
    BY <1>0, <1>12, <1>15 DEF Added
  <2> QED BY <1>0, <1>15, <2>1, <2>2 DEF Added
<1>19. WithEntry(d, e, V, i, k, j, new, name)
  BY <1>0, <1>1, <1>4, <1>10, <1>16, <1>17, <1>18 DEF WithEntry, m0
<1>20. /\ Append(ws, t) \in Seq(BlockWrite) /\ Append(Append(ws, t), v) \in Seq(BlockWrite)
  BY <1>0, <1>6
<1>21. Through(o, Append(ws, t), f, V, c, x)
  BY <1>0, <1>6, <1>7, OneMore DEF f
<1>22. Through(o, Append(Append(ws, t), v), g, V, c, x)
  BY <1>6, <1>9, <1>20, <1>21, OneMore DEF g
<1>23. Through(o, Append(Append(Append(ws, t), v), w), e, V, c, x)
  BY <1>6, <1>15, <1>20, <1>22, OneMore DEF e
<1>24. /\ ws \o (<<t>> \o <<v, w>>) = Append(Append(Append(ws, t), v), w)
       /\ ws \o (<<t>> \o <<v, w>>) \in Seq(BlockWrite)
  BY ONLY <1>0, <1>6, ThreeJoined
<1>25. e.bmap = m0
  BY <1>10, <1>16
<1> QED BY <1>19, <1>23, <1>24, <1>25 DEF EntryReached, m0

\* What is known of the files while a call runs and when it has returned.
LEMMA StartClaims ==
    ASSUME NEW w, NEW c \in Claims, content \in Claims, Start(w, c)
    PROVE  /\ writes' = w /\ promise' = c /\ content' \in Claims
           /\ disk' = disk /\ up' = up /\ total' = total /\ crashes' = crashes
           /\ \A i \in Inodes, p \in Positions :
                 content'[i][p] = IF c[i][p] = content[i][p] THEN c[i][p] ELSE Zero
  BY DEF Start, Claims

\* A call that creates or deletes an inode forgets what it held, and no more.
LEMMA ForgetClaims ==
    ASSUME NEW w, NEW i \in Inodes, content \in Claims, Start(w, [content EXCEPT ![i] = Unknown])
    PROVE  /\ content' = [content EXCEPT ![i] = Unknown] /\ promise' = content'
           /\ content' \in Claims /\ \A p \in Positions : content'[i][p] = Zero
           /\ \A h \in Inodes, p \in Positions : content'[h][p] \in {Zero, content[h][p]}
<1> DEFINE c == [content EXCEPT ![i] = Unknown]
<1>1. c \in Claims
  BY UnknownTypes DEF Claims
<1>2. \A h \in Inodes, p \in Positions : c[h][p] = IF h = i THEN Zero ELSE content[h][p]
  BY DEF Claims, Unknown
<1> HIDE DEF c
<1>3. /\ promise' = c /\ content' \in Claims
      /\ \A h \in Inodes, p \in Positions :
            content'[h][p] = IF c[h][p] = content[h][p] THEN c[h][p] ELSE Zero
  BY <1>1, StartClaims DEF c
<1>4. \A h \in Inodes, p \in Positions : content'[h][p] = c[h][p]
  BY <1>2, <1>3
<1>5. content' = c
  <2>1. ASSUME NEW h \in Inodes PROVE content'[h] = c[h]
    <3>1. content'[h] \in [Positions -> Payloads \cup {Zero}] /\ c[h] \in [Positions -> Payloads \cup {Zero}]
      BY <1>1, <1>3 DEF Claims
    <3> QED BY <1>4, <3>1
  <2> QED BY <1>1, <1>3, <2>1 DEF Claims
<1> QED BY <1>2, <1>3, <1>4, <1>5 DEF c

LEMMA FsCreateStep ==
    ASSUME FsInv, NEW parent \in Inodes, NEW name \in Names, NEW type \in Types,
           NEW read \in BOOLEAN, fs_create(parent, name, type, read)
    PROVE  FsInv'
<1>0. PICK new : new = allocate_inode
  OBVIOUS
<1> DEFINE dir   == disk.inode[parent]
           i     == EntryIndex(dir)
           grow  == i < Direct /\ dir.direct_blocks[i] = 0
           b     == IF grow THEN allocate_block(bmap) ELSE dir.direct_blocks[i]
           cells == IF grow THEN ZeroBlock ELSE disk.data[b]
           j     == Min({k \in 0..(Cells - 1) : cells[k].id = 0})
           room  == i < Direct /\ b # 0
           marks == IF grow /\ room THEN bmap \cup {b - 1} ELSE bmap
           w3 == DataBlock(b, [cells EXCEPT ![j] = Entry(new, name)])
           w4 == InodeBlock(parent, [dir EXCEPT !.direct_blocks[i] = b, !.size = (@ + 1) % Word])
           entry == IF ~room THEN <<>> ELSE
                      (IF grow THEN <<BlockBitmap(marks)>> ELSE <<>>) \o <<w3, w4>>
           w1 == InodeBitmap(imap \cup {new})
           w2 == InodeBlock(new, NewInode(type))
<1>1. /\ Idle /\ parent \in held /\ Valid(parent) /\ dir.type = "DIR" /\ new # 0
      /\ imap' = imap \cup {new} /\ bmap' = marks /\ held' = held \cup {new}
      /\ lost' = (lost \/ ~room) /\ blind' = (blind \/ ~Absent(parent, name))
      /\ Start(<<w1, w2>> \o entry, [content EXCEPT ![new] = Unknown])
  BY <1>0 DEF fs_create
<1>2. TypeInv /\ PhaseInv /\ up /\ disk.magic /\ total = TotalInodes /\ total # 0
  BY <1>1, CallContext
<1>3. PICK U : Ready(U)
  BY <1>1, CallContext
<1>4. /\ Sound(disk, U, content, blind) /\ U \in SUBSET Inodes /\ parent \in U /\ Root \in U
      /\ imap = disk.imap /\ bmap = disk.bmap /\ held \subseteq U /\ (lost \/ Tidy(disk, U))
      /\ U \subseteq imap /\ disk \in Disk /\ disk.inode \in [Inodes -> Inode]
      /\ bmap \subseteq Data /\ Closed(disk, U)
  BY <1>1, <1>3 DEF Ready, Sound, InUse, Disk
<1>5. new \in Inodes \ disk.imap /\ new \notin U /\ new # Root /\ new # parent
  BY <1>0, <1>1, <1>2, <1>4, InodeAllocated
<1>6. type \in {"FILE", "DIR"} /\ content \in Claims
  BY <1>2, FsAssumption DEF TypeInv
<1> DEFINE c == content'
           x == blind'
           V == U \cup {new}
           d == Written(Written(disk, w1), w2)
<1>7. /\ promise' = c /\ c \in Claims /\ \A p \in Positions : c[new][p] = Zero
      /\ \A h \in Inodes, p \in Positions : c[h][p] \in {Zero, content[h][p]}
  BY <1>1, <1>5, <1>6, ForgetClaims
<1>8. /\ writes' = <<w1, w2>> \o entry /\ disk' = disk /\ up' = up /\ total' = total
      /\ crashes' = crashes
  BY <1>1 DEF Start
<1>9. Sound(disk, U, c, x)
  <2>1. blind => x
    BY <1>1
  <2>2. \A h \in U, p \in Positions : c[h][p] \in {Zero, content[h][p]}
    BY <1>4, <1>7
  <2> QED BY <1>4, <2>1, <2>2, FewerClaims
<1> HIDE DEF c
<1>10. /\ Through(disk, <<w1, w2>>, d, V, c, x) /\ <<w1, w2>> \in Seq(BlockWrite)
       /\ Sound(d, V, c, x)
       /\ d.imap = imap \cup {new} /\ d.bmap = bmap /\ d.data = disk.data
       /\ d.inode = [disk.inode EXCEPT ![new] = NewInode(type)]
  <2>1. NewInodeWrites(disk, U, c, x, new, type, w1, w2, d)
    BY <1>4, <1>5, <1>6, <1>7, <1>9 DEF NewInodeWrites
  <2>2. WithNewInode(disk, U \cup {new}, c, x, new, type, <<w1, w2>>, d)
    BY ONLY <2>1, CreateStart
  <2> QED BY <1>4, <2>2 DEF WithNewInode
<1> HIDE DEF w1, w2, d
<1>11. /\ parent \in V /\ new \in V /\ d.inode[parent] = dir /\ d.inode[new] = NewInode(type)
       /\ \A h \in U : d.inode[h] = disk.inode[h]
  BY <1>4, <1>5, <1>10
<1>12. \A h \in U, l \in Blocks, m \in Indices :
          /\ Used(d, h, l, m) <=> Used(disk, h, l, m)
          /\ At(d, h, l, m) = At(disk, h, l, m) /\ Ptr(d, h, l) = Ptr(disk, h, l)
  BY <1>10, <1>11 DEF Used, At, Ptr
<1>13. NewInode(type).size = 0 /\ \A k \in Blocks : NewInode(type).direct_blocks[k] = 0
  BY <1>6, NewInodeTypes
<1>14. \A l \in Blocks, m \in Indices : ~Used(d, new, l, m)
  BY <1>11, <1>13 DEF Used, Ptr
<1>15. \A h \in V, l \in Blocks, m \in Indices : Used(d, h, l, m) => At(d, h, l, m).id # new
  BY <1>4, <1>5, <1>12, <1>14 DEF Closed
<1>16. \/ x
       \/ \A l \in Blocks, m \in Indices : Used(d, parent, l, m) => At(d, parent, l, m).name # name
  <2>1. CASE Lookup(parent, name) = 0
    BY <1>4, <1>12, <2>1, LookupMisses
  <2>2. CASE Lookup(parent, name) # 0
    BY <1>1, <2>2 DEF Absent
  <2> QED BY <2>1, <2>2
<1>17. /\ i \in 0..Direct
       /\ i < Direct => /\ i \in Blocks
                        /\ \/ dir.direct_blocks[i] = 0
                           \/ \E k \in Indices : disk.data[dir.direct_blocks[i]][k].id = 0
  BY EntryIndexOpen
<1> HIDE DEF i
\* Every case ends in a disk e with the promised state.
<1>20. ASSUME NEW e, Through(disk, writes', e, V, c, x), writes' \in Seq(BlockWrite),
              e.imap = imap', e.bmap = bmap', lost' \/ Tidy(e, V)
       PROVE  FsInv'
  <2>1. Sound(e, V, c, x)
    BY <1>20, Ends
  <2>2. Kept(e, V, promise')
    BY <1>7, <2>1 DEF Sound
  <2>3. LeadsTo(e, V)'
    BY <1>1, <1>4, <1>8, <1>20, <2>2 DEF LeadsTo, c
  <2>4. PhaseInv'
    BY <1>2, <1>8 DEF PhaseInv
  <2>5. lost' \in BOOLEAN /\ blind' \in BOOLEAN
    BY <1>1, <1>2, Zenon DEF TypeInv
  <2>6. TypeInv'
    BY <1>2, <1>7, <1>8, <1>20, <2>5 DEF TypeInv, c
  <2> QED BY <2>3, <2>4, <2>6 DEF FsInv
<1>21. ASSUME NEW k \in Indices, i \in Blocks
       PROVE  EntryPlace(disk, <<w1, w2>>, d, V, c, x, parent, i, k, new, name)
  BY <1>1, <1>5, <1>10, <1>11, <1>15, <1>16, <1>21 DEF EntryPlace
<1>22. ASSUME NEW k \in Indices, i \in Blocks, NEW ws, writes' = ws,
              EntryReached(disk, ws, d, V, c, x, parent, i, k, new, name, bmap')
       PROVE  FsInv'
  <2>1. PICK e : /\ Through(disk, ws, e, V, c, x) /\ e.bmap = bmap'
                 /\ WithEntry(d, e, V, parent, i, k, new, name)
    BY <1>22 DEF EntryReached
  <2>2. ASSUME Tidy(disk, U) PROVE Tidy(e, V)
    <3>1. /\ e.imap = U \cup {new} /\ e.inode[new].size = 0
          /\ \A h \in U : /\ e.inode[h].type = disk.inode[h].type
                          /\ h # parent => e.inode[h].size = disk.inode[h].size
          /\ e.inode[parent].size = (disk.inode[parent].size + 1) % Word
      BY <1>4, <1>5, <1>10, <1>11, <1>13, <2>1, <2>2 DEF WithEntry, Tidy
    <3>2. \A h \in U, l \in Blocks, m \in Indices :
            /\ Used(e, h, l, m) <=> Used(disk, h, l, m) \/ (h = parent /\ l = i /\ m = k)
            /\ Used(disk, h, l, m) => At(e, h, l, m) = At(disk, h, l, m)
      BY <1>12, <2>1 DEF WithEntry, Added
    <3>3. ~Used(disk, parent, i, k) /\ At(e, parent, i, k).id = new
      BY <1>4, <1>12, <1>22, <2>1 DEF WithEntry, Added, Entry
    <3>4. \A l \in Blocks, m \in Indices : ~Used(e, new, l, m)
      BY <1>5, <1>11, <1>14, <2>1 DEF WithEntry, Added
    <3>5. \A h \in U, l \in Blocks : Ptr(disk, h, l) # 0 => Ptr(e, h, l) = Ptr(disk, h, l)
      <4>1. \A h \in U, l \in Blocks : Ptr(d, h, l) = Ptr(disk, h, l)
        BY <1>11 DEF Ptr
      <4> QED BY <2>1, <4>1 DEF WithEntry
    <3>6. \A a \in e.bmap : a \in disk.bmap \/ \E h \in U, l \in Blocks : Ptr(e, h, l) = a + 1
      BY <1>4, <1>10, <1>22, <2>1 DEF WithEntry
    <3>7. Created(disk, e, U, parent, i, k, new)
      BY <3>1, <3>2, <3>3, <3>4, <3>5, <3>6 DEF Created
    <3>8. disk.inode[parent].type = "DIR" /\ new \in Inodes \ U
      BY <1>1, <1>5
    <3> QED BY ONLY <1>4, <1>22, <2>2, <3>7, <3>8, TidyCreated DEF V
  <2>3. e.imap = imap'
    BY <1>1, <1>10, <2>1 DEF WithEntry
  <2>4. lost' \/ Tidy(e, V)
    BY <1>1, <1>4, <2>2
  <2>5. writes' \in Seq(BlockWrite)
    BY <1>22 DEF EntryReached
  <2>6. Through(disk, writes', e, V, c, x)
    BY <1>22, <2>1
  <2> HIDE DEF V, x
  <2> QED BY ONLY <2>1, <2>3, <2>4, <2>5, <2>6, <1>20
<1>23. CASE ~room
  <2>1. writes' = <<w1, w2>> /\ bmap' = bmap /\ lost'
    <3>1. <<w1, w2>> \o <<>> = <<w1, w2>>
      BY <1>10, ConcatEmptySeq
    <3> QED BY <1>1, <1>8, <1>23, <3>1
  <2>2. /\ Through(disk, writes', d, V, c, x) /\ writes' \in Seq(BlockWrite)
        /\ d.imap = imap' /\ d.bmap = bmap' /\ (lost' \/ Tidy(d, V))
    BY <1>1, <1>10, <2>1
  <2> HIDE DEF V, x
  <2> QED BY ONLY <2>2, <1>20
<1>24. CASE room /\ ~grow
  <2>1. /\ i \in Blocks /\ b = dir.direct_blocks[i] /\ b # 0 /\ cells = disk.data[b]
        /\ \E k \in Indices : cells[k].id = 0
    BY <1>17, <1>24
  <2>2. j \in Indices /\ cells[j].id = 0
    <3> DEFINE F == {k \in 0..(Cells - 1) : cells[k].id = 0}
    <3>0. \E k \in Indices : cells[k].id = 0
      BY <2>1
    <3> HIDE DEF cells
    <3>1. F # {} /\ F \in SUBSET Nat
      BY <3>0, Consts DEF Indices
    <3> HIDE DEF F
    <3>2. Min(F) \in F
      BY <3>1, MinOf
    <3> QED BY <3>2 DEF F, Indices
  <2>3. EntryPlace(disk, <<w1, w2>>, d, V, c, x, parent, i, j, new, name)
    BY <1>21, <2>1, <2>2
  <2>4. Ptr(d, parent, i) = b /\ d.data = disk.data /\ d.inode[parent] = dir
    BY <1>10, <1>11, <2>1 DEF Ptr
  <2>5. ~Used(d, parent, i, j)
    BY <2>1, <2>2, <2>4 DEF Used
  <2>6. BlockWrites(disk, <<w1, w2>>, d, V, c, x, parent, i, j, new, name, b, w3, w4)
    BY <2>1, <2>3, <2>4, <2>5 DEF BlockWrites
  <2>7. writes' = <<w1, w2>> \o <<w3, w4>> /\ bmap' = d.bmap
    <3>1. <<>> \o <<w3, w4>> = <<w3, w4>>
      BY ConcatEmptySeq
    <3> QED BY <1>1, <1>8, <1>10, <1>24, <3>1
  <2> HIDE DEF j, b, cells, w3, w4, V, x
  <2>8. EntryReached(disk, <<w1, w2>> \o <<w3, w4>>, d, V, c, x, parent, i, j, new, name, d.bmap)
    BY ONLY <2>6, EntryInBlock
  <2> QED BY <1>22, <2>1, <2>2, <2>7, <2>8
<1>25. CASE room /\ grow
  <2>1. i \in Blocks /\ dir.direct_blocks[i] = 0 /\ b = allocate_block(bmap) /\ b # 0 /\ cells = ZeroBlock
    BY <1>17, <1>25
  <2>2. PICK a : a = b - 1
    OBVIOUS
  <2>3. a \in Data \ bmap /\ b = a + 1 /\ marks = bmap \cup {a}
    BY <1>25, <2>1, <2>2, BlockAllocated, Consts DEF Data
  <2>4. j \in Indices
    <3> DEFINE F == {k \in 0..(Cells - 1) : cells[k].id = 0}
    <3>1. ZeroBlock[0].id = 0 /\ 0 \in 0..(Cells - 1)
      BY Consts DEF ZeroBlock, ZeroCell
    <3>2. F # {} /\ F \in SUBSET Nat
      BY <2>1, <3>1, Consts
    <3> HIDE DEF F
    <3>3. Min(F) \in F
      BY <3>2, MinOf
    <3> QED BY <3>3 DEF F, Indices
  <2>5. EntryPlace(disk, <<w1, w2>>, d, V, c, x, parent, i, j, new, name)
    BY <1>21, <2>1, <2>4
  <2> DEFINE t == BlockBitmap(marks)
  <2>6. Ptr(d, parent, i) = 0 /\ d.bmap = bmap /\ d.inode[parent] = dir
    BY <1>10, <1>11, <2>1 DEF Ptr
  <2>7. NewBlockWrites(disk, <<w1, w2>>, d, V, c, x, parent, i, j, new, name, a, t, w3, w4)
    BY <2>1, <2>3, <2>5, <2>6 DEF NewBlockWrites
  <2>8. writes' = <<w1, w2>> \o (<<t>> \o <<w3, w4>>) /\ bmap' = d.bmap \cup {a}
    BY <1>1, <1>8, <1>25, <2>3, <2>6
  <2> HIDE DEF j, b, cells, w3, w4, t, V, x
  <2>9. EntryReached(disk, <<w1, w2>> \o (<<t>> \o <<w3, w4>>), d, V, c, x, parent, i, j, new, name,
                     d.bmap \cup {a})
    BY ONLY <2>7, EntryInNewBlock
  <2> QED BY <1>22, <2>1, <2>4, <2>8, <2>9
<1> QED BY <1>23, <1>24, <1>25

-----------------------------------------------------------------------------
(* The entry fs_delete removes *)

\* fs_delete's first two writes: the block without the entry in slot j of block k
\* of directory i, then the directory's inode.
RemovalWrites(d, U, c, x, i, k, j, t, b, v, w, e) ==
    /\ Sound(d, U, c, x) /\ i \in U /\ k \in Blocks /\ j \in Indices /\ Used(d, i, k, j)
    /\ t = At(d, i, k, j).id /\ b = Ptr(d, i, k)
    /\ v = DataBlock(b, [d.data[b] EXCEPT ![j] = ZeroCell])
    /\ w = InodeBlock(i, [d.inode[i] EXCEPT !.size = (@ - 1) % Word])
    /\ e = Written(Written(d, v), w)

\* Disk e is d without that entry; the inode it led to is no longer in use.
WithoutEntry(d, ws, e, U, c, x, i, k, j, t) ==
    /\ ws \in Seq(BlockWrite) /\ Through(d, ws, e, U \ {t}, c, x) /\ Sound(e, U \ {t}, c, x)
    /\ e.imap = d.imap /\ e.bmap = d.bmap /\ t \in U /\ t # Root
    /\ \A h \in U : /\ e.inode[h].type = d.inode[h].type
                    /\ e.inode[h].direct_blocks = d.inode[h].direct_blocks
                    /\ h # i => e.inode[h].size = d.inode[h].size
    /\ e.inode[i].size = (d.inode[i].size - 1) % Word
    /\ \A h \in U, l \in Blocks, m \in Indices :
          /\ Used(e, h, l, m) <=> Used(d, h, l, m) /\ ~(h = i /\ l = k /\ m = j)
          /\ Used(e, h, l, m) => At(e, h, l, m) = At(d, h, l, m)

LEMMA DeleteEntry ==
    ASSUME NEW d, NEW U, NEW c, NEW x, NEW i, NEW k, NEW j, NEW t, NEW b, NEW v, NEW w, NEW e,
           RemovalWrites(d, U, c, x, i, k, j, t, b, v, w, e)
    PROVE  WithoutEntry(d, <<v, w>>, e, U, c, x, i, k, j, t)
<1> DEFINE z == [d.data[b] EXCEPT ![j] = ZeroCell]
           u == [d.inode[i] EXCEPT !.size = (@ - 1) % Word]
           f == Written(d, v)
           W == U \ {t}
<1>0. /\ Sound(d, U, c, x) /\ i \in U /\ k \in Blocks /\ j \in Indices /\ Used(d, i, k, j)
      /\ t = At(d, i, k, j).id /\ b = Ptr(d, i, k)
      /\ v = DataBlock(b, z) /\ w = InodeBlock(i, u) /\ e = Written(f, w)
  BY DEF RemovalWrites
<1>1. /\ d \in Disk /\ d.inode \in [Inodes -> Inode] /\ U \subseteq Inodes /\ i \in Inodes
      /\ d.inode[i] \in Inode /\ d.data \in [DeviceBlocks -> [Indices -> Cell]]
      /\ Closed(d, U) /\ Rootless(d, U) /\ Single(d, U)
      /\ \A h \in Inodes : Placed(d.inode[h])
  BY <1>0 DEF Sound, Disk, InUse
<1>2. b \in DeviceBlocks
  <2>1. Ptr(d, i, k) # 0
    BY <1>0 DEF Used
  <2> QED BY <1>0, <1>1, <2>1, PtrTypes
<1>3. z \in [Indices -> Cell]
  <2>1. ZeroCell \in Cell
    BY Consts DEF ZeroCell, Cell
  <2> QED BY <1>1, <1>2, <2>1
<1>4. u \in Inode /\ u.type = d.inode[i].type /\ u.direct_blocks = d.inode[i].direct_blocks
      /\ u.size = (d.inode[i].size - 1) % Word
  <2>1. d.inode[i].size \in 0..(Word - 1) /\ Word \in Nat /\ Word > 0
    BY <1>1, InodeTypes, Consts
  <2>2. (d.inode[i].size - 1) % Word \in 0..(Word - 1)
    BY <2>1
  <2> QED BY <1>1, <2>2 DEF Inode
<1>5. /\ Sound(f, U, c, x)
      /\ \A h \in U, l \in Blocks, m \in Indices :
            /\ Used(f, h, l, m) <=> Used(d, h, l, m) /\ ~(h = i /\ l = k /\ m = j)
            /\ Used(f, h, l, m) => At(f, h, l, m) = At(d, h, l, m)
  BY <1>0, SoundEntryGone
<1> HIDE DEF z, u
<1>6. /\ f \in Disk /\ f.imap = d.imap /\ f.bmap = d.bmap /\ f.inode = d.inode
  <2>1. f = Written(d, DataBlock(b, z))
    BY <1>0
  <2> HIDE DEF f
  <2> QED BY ONLY <1>1, <1>2, <1>3, <2>1, WriteDataBlock
<1>7. v \in BlockWrite /\ w \in BlockWrite
  BY <1>0, <1>1, <1>2, <1>3, <1>4, WriteTypes
<1> HIDE DEF f
<1>8. t \in U /\ t # Root
  BY <1>0, <1>1 DEF Closed, Rootless
<1>9. \A h \in U, l \in Blocks, m \in Indices : Used(f, h, l, m) => At(f, h, l, m).id # t
  BY <1>0, <1>1, <1>5 DEF Single
<1>10. Sound(f, W, c, x)
  BY <1>5, <1>8, <1>9, SoundWithout
<1>11. Sound(e, W, c, x)
  <2>1. CASE i = t
    <3>1. Placed(u)
      BY <1>1, <1>4 DEF Placed
    <3> QED BY <1>0, <1>1, <1>4, <1>10, <2>1, <3>1, SoundUnusedInode
  <2>2. CASE i # t
    <3>1. i \in W /\ f.inode[i] = d.inode[i] /\ d.inode[i].type = "DIR"
      BY <1>0, <1>6, <2>2 DEF Used
    <3>2. Holds(u, f.inode[i])
      BY <1>4, <3>1 DEF Holds
    <3> QED BY <1>0, <1>4, <1>10, <3>1, <3>2, SoundResized
  <2> QED BY <2>1, <2>2
<1>12. /\ e.imap = f.imap /\ e.bmap = f.bmap /\ e.data = f.data
       /\ e.inode = [d.inode EXCEPT ![i] = u]
  BY <1>0, <1>1, <1>4, <1>6, WriteInodeBlock
<1>13. \A h \in U : /\ e.inode[h].type = d.inode[h].type
                    /\ e.inode[h].direct_blocks = d.inode[h].direct_blocks
                    /\ h # i => e.inode[h].size = d.inode[h].size
  BY <1>1, <1>4, <1>12
<1>14. \A h \in U, l \in Blocks, m \in Indices : /\ Used(e, h, l, m) <=> Used(f, h, l, m)
                                                 /\ At(e, h, l, m) = At(f, h, l, m)
  BY <1>6, <1>12, <1>13 DEF Used, At, Ptr
<1>15. e.inode[i].size = (d.inode[i].size - 1) % Word
  BY <1>1, <1>4, <1>12
<1>16. Through(d, <<>>, d, U, c, x) /\ <<>> \in Seq(BlockWrite)
  BY <1>0, NoWrites
<1>17. Append(<<>>, v) \in Seq(BlockWrite)
  BY <1>7
<1>18. Through(d, Append(<<>>, v), f, W, c, x)
  BY ONLY <1>7, <1>10, <1>16, OneMore DEF f
<1>19. Through(d, Append(Append(<<>>, v), w), e, W, c, x)
  BY ONLY <1>0, <1>7, <1>11, <1>17, <1>18, OneMore
<1>20. <<v, w>> \in Seq(BlockWrite) /\ Append(Append(<<>>, v), w) = <<v, w>>
  BY ONLY <1>7, TwoWrites
<1>21. Through(d, <<v, w>>, e, W, c, x)
  BY <1>19, <1>20
<1>22. e.imap = d.imap /\ e.bmap = d.bmap
  BY <1>6, <1>12
<1>23. \A h \in U, l \in Blocks, m \in Indices :
          /\ Used(e, h, l, m) <=> Used(d, h, l, m) /\ ~(h = i /\ l = k /\ m = j)
          /\ Used(e, h, l, m) => At(e, h, l, m) = At(d, h, l, m)
  BY <1>5, <1>14
<1> QED BY <1>8, <1>11, <1>13, <1>15, <1>20, <1>21, <1>22, <1>23 DEF WithoutEntry

-----------------------------------------------------------------------------
(* The blocks fs_delete frees *)

\* One round of the loop in Cleared.
ClearedRound(v, s, k) ==
    IF v.direct_blocks[k] = 0 THEN s
    ELSE LET marks == free_block(s.bmap, v.direct_blocks[k])
         IN  [bmap |-> marks, writes |-> Append(s.writes, BlockBitmap(marks))]

ClearedFirst == [bmap |-> bmap, writes |-> <<>>]

ClearedUnfolded(v, f, k) == IF k = 0 THEN ClearedFirst ELSE ClearedRound(v, f[k - 1], k - 1)

LEMMA ClearedExists ==
    ASSUME NEW v
    PROVE  \A m \in Nat : \E f : f = [k \in 0..m |-> ClearedUnfolded(v, f, k)]
<1> DEFINE Solves(f, m) == f = [k \in 0..m |-> ClearedUnfolded(v, f, k)]
           T == {m \in Nat : \E f : Solves(f, m)}
<1>1. 0 \in T
  <2> DEFINE f == [k \in 0..0 |-> ClearedFirst]
  <2>1. \A k \in 0..0 : ClearedUnfolded(v, f, k) = ClearedFirst
    BY DEF ClearedUnfolded
  <2> HIDE DEF f
  <2>2. Solves(f, 0)
    BY <2>1 DEF f
  <2> QED BY <2>2
<1>2. ASSUME NEW m \in Nat, m \in T PROVE m + 1 \in T
  <2>1. PICK f : Solves(f, m)
    BY <1>2
  <2> DEFINE g == [k \in 0..(m + 1) |-> IF k = m + 1 THEN ClearedUnfolded(v, f, m + 1) ELSE f[k]]
  <2>2. ASSUME NEW k \in 0..(m + 1) PROVE ClearedUnfolded(v, g, k) = ClearedUnfolded(v, f, k)
    <3>1. CASE k = 0
      BY <3>1 DEF ClearedUnfolded
    <3>2. CASE k # 0
      <4>1. k - 1 \in 0..(m + 1) /\ k - 1 # m + 1
        BY <3>2
      <4>2. g[k - 1] = f[k - 1]
        BY <4>1
      <4> HIDE DEF g
      <4> QED BY <3>2, <4>2 DEF ClearedUnfolded
    <3> QED BY <3>1, <3>2
  <2>3. ASSUME NEW k \in 0..(m + 1) PROVE g[k] = ClearedUnfolded(v, f, k)
    <3>1. CASE k = m + 1
      BY <3>1
    <3>2. CASE k # m + 1
      <4>1. k \in 0..m
        BY <3>2
      <4>2. f[k] = ClearedUnfolded(v, f, k)
        BY <2>1, <4>1
      <4> QED BY <3>2, <4>2
    <3> QED BY <3>1, <3>2
  <2>4. g = [k \in 0..(m + 1) |-> ClearedUnfolded(v, f, k)]
    BY <2>3
  <2>5. Solves(g, m + 1)
    <3> HIDE DEF g
    <3> QED BY <2>2, <2>4
  <2> HIDE DEF g, Solves
  <2> QED BY <2>5
<1> HIDE DEF T
<1>3. \A m \in Nat : m \in T
  BY <1>1, <1>2, SetInduction
<1> QED BY <1>3 DEF T

\* The states the loop goes through.
LEMMA ClearedLoop ==
    ASSUME NEW v
    PROVE  \E f : /\ f[0] = ClearedFirst /\ FreeBlocks(v) = f[Direct]
                  /\ \A k \in Nat : k < Direct => f[k + 1] = ClearedRound(v, f[k], k)
<1> DEFINE f == CHOOSE f : f = [k \in 0..Direct |-> ClearedUnfolded(v, f, k)]
<1>1. \E g : g = [k \in 0..Direct |-> ClearedUnfolded(v, g, k)]
  BY Consts, ClearedExists
<1>2. f = [k \in 0..Direct |-> ClearedUnfolded(v, f, k)]
  BY <1>1
<1>3. FreeBlocks(v) = f[Direct]
  BY DEF FreeBlocks, Cleared, ClearedUnfolded, ClearedRound, ClearedFirst
<1> HIDE DEF f
<1>4. \A k \in 0..Direct : f[k] = ClearedUnfolded(v, f, k)
  BY <1>2
<1>5. f[0] = ClearedFirst
  BY <1>4, Consts DEF ClearedUnfolded
<1>6. ASSUME NEW k \in Nat, k < Direct PROVE f[k + 1] = ClearedRound(v, f[k], k)
  <2>1. k + 1 \in 0..Direct /\ k + 1 # 0 /\ k + 1 - 1 = k
    BY <1>6, Consts
  <2>2. f[k + 1] = ClearedRound(v, f[k + 1 - 1], k + 1 - 1)
    BY <1>4, <2>1 DEF ClearedUnfolded
  <2> QED BY <2>1, <2>2
<1> QED BY <1>3, <1>5, <1>6

\* The loop starts on disk d, where nothing in use shares a block with inode v.
FreeStart(o, ws, d, W, c, x, v) ==
    /\ ws \in Seq(BlockWrite) /\ Through(o, ws, d, W, c, x) /\ Sound(d, W, c, x) /\ d.bmap = bmap
    /\ v \in Inode /\ Placed(v)
    /\ \A h \in W, l, m \in Blocks : Ptr(d, h, l) # 0 => Ptr(d, h, l) # v.direct_blocks[m]

\* After k rounds it is in state s.
Freed(o, ws, d, W, c, x, v, s, k) ==
    /\ s.writes \in Seq(BlockWrite)
    /\ \A b : b \in s.bmap <=> /\ b \in bmap
                               /\ \A l \in Blocks : l < k /\ v.direct_blocks[l] # 0 =>
                                                       b # v.direct_blocks[l] - 1
    /\ \E e : /\ Through(o, ws \o s.writes, e, W, c, x) /\ e \in Disk /\ e.bmap = s.bmap
              /\ e.imap = d.imap /\ e.inode = d.inode /\ e.data = d.data

LEMMA AppendJoined ==
    ASSUME NEW s \in Seq(BlockWrite), NEW t \in Seq(BlockWrite), NEW w \in BlockWrite
    PROVE  s \o Append(t, w) = Append(s \o t, w) /\ s \o t \in Seq(BlockWrite)
<1>1. <<w>> \in Seq(BlockWrite) /\ s \o t \in Seq(BlockWrite)
  OBVIOUS
<1>2. t \o <<w>> = Append(t, w) /\ (s \o t) \o <<w>> = Append(s \o t, w)
  BY <1>1, WritesJoined
<1>3. s \o (t \o <<w>>) = (s \o t) \o <<w>>
  BY <1>1, ConcatAssociative
<1> QED BY <1>1, <1>2, <1>3

LEMMA FreedNext ==
    ASSUME NEW o, NEW ws, NEW d, NEW W, NEW c, NEW x, NEW v, NEW s, NEW k \in Blocks, NEW r,
           FreeStart(o, ws, d, W, c, x, v), Freed(o, ws, d, W, c, x, v, s, k),
           r = ClearedRound(v, s, k)
    PROVE  Freed(o, ws, d, W, c, x, v, r, k + 1)
<1>0. k \in Nat /\ k + 1 - 1 = k /\ \A l \in Blocks : l < k + 1 <=> l < k \/ l = k
  BY Consts DEF Blocks
<1>1. CASE v.direct_blocks[k] = 0
  <2>1. r = s
    BY <1>1 DEF ClearedRound
  <2>2. \A l \in Blocks : l < k + 1 /\ v.direct_blocks[l] # 0 <=> l < k /\ v.direct_blocks[l] # 0
    BY <1>0, <1>1
  <2> QED BY <2>1, <2>2 DEF Freed
<1>2. CASE v.direct_blocks[k] # 0
  <2> DEFINE a == v.direct_blocks[k] - 1
             marks == s.bmap \ {a}
             w == BlockBitmap(marks)
  <2>1. r = [bmap |-> marks, writes |-> Append(s.writes, w)]
    <3>2. free_block(s.bmap, v.direct_blocks[k]) = marks
      BY DEF free_block
    <3> HIDE DEF marks
    <3> QED BY <1>2, <3>2 DEF ClearedRound
  <2>2. r.bmap = marks /\ r.writes = Append(s.writes, w)
    BY <2>1
  <2>3. PICK e : /\ Through(o, ws \o s.writes, e, W, c, x) /\ e \in Disk /\ e.bmap = s.bmap
                 /\ e.imap = d.imap /\ e.inode = d.inode /\ e.data = d.data
    BY DEF Freed
  <2>4. ws \in Seq(BlockWrite) /\ s.writes \in Seq(BlockWrite) /\ ws \o s.writes \in Seq(BlockWrite)
    BY DEF FreeStart, Freed
  <2>5. Sound(e, W, c, x)
    BY ONLY <2>3, <2>4, Ends
  <2>6. v.direct_blocks[k] \in 0..TotalBlocks /\ v.direct_blocks[k] > DataStart + 1 /\ a \in Nat
    BY <1>2, InodeTypes, Consts DEF FreeStart, Placed
  <2>7. marks \in SUBSET Data /\ Reserved \subseteq marks
    <3>1. s.bmap \subseteq Data /\ Reserved \subseteq s.bmap
      BY <2>3, <2>5 DEF Sound, Disk
    <3>2. a \notin Reserved
      BY <2>6, Consts DEF Reserved
    <3> QED BY <3>1, <3>2
  <2>8. ASSUME NEW h \in W, NEW l \in Blocks, Ptr(e, h, l) # 0 PROVE Ptr(e, h, l) - 1 \in marks
    <3>1. Ptr(e, h, l) - 1 \in s.bmap
      BY <2>3, <2>5, <2>8 DEF Sound, Marked
    <3>2. Ptr(e, h, l) = Ptr(d, h, l) /\ Ptr(d, h, l) # v.direct_blocks[k]
      BY <2>3, <2>8 DEF FreeStart, Ptr
    <3>3. Ptr(e, h, l) \in Nat
      <4>1. h \in Inodes /\ e \in Disk /\ \A i \in Inodes : Placed(e.inode[i])
        BY <2>5 DEF Sound, InUse, Disk
      <4> QED BY <4>1, PtrTypes, Consts
    <3> QED BY <2>6, <3>1, <3>2, <3>3
  <2> HIDE DEF marks
  <2>9. Sound(Written(e, w), W, c, x)
    BY <2>5, <2>7, <2>8, SoundBlockBitmap
  <2>10. LET g == Written(e, w) IN
         g \in Disk /\ g.bmap = marks /\ g.imap = e.imap /\ g.inode = e.inode /\ g.data = e.data
    BY <2>3, <2>7, WriteBlockBitmap
  <2>11. w \in BlockWrite
    BY <2>7, WriteTypes
  <2> HIDE DEF w
  <2>12. Through(o, Append(ws \o s.writes, w), Written(e, w), W, c, x)
    BY ONLY <2>3, <2>4, <2>9, <2>11, OneMore
  <2>13. ws \o r.writes = Append(ws \o s.writes, w) /\ r.writes \in Seq(BlockWrite)
    <3>1. ws \o Append(s.writes, w) = Append(ws \o s.writes, w)
      BY ONLY <2>4, <2>11, AppendJoined
    <3>2. Append(s.writes, w) \in Seq(BlockWrite)
      BY <2>4, <2>11
    <3> QED BY ONLY <2>2, <3>1, <3>2
  <2>14. \A b : b \in r.bmap <=> /\ b \in bmap
                                 /\ \A l \in Blocks : l < k + 1 /\ v.direct_blocks[l] # 0 =>
                                                         b # v.direct_blocks[l] - 1
    <3>1. \A b : b \in r.bmap <=> b \in s.bmap /\ b # a
      BY <2>2 DEF marks
    <3> HIDE DEF a
    <3>2. v.direct_blocks[k] - 1 = a
      BY DEF a
    <3> QED BY <1>0, <1>2, <3>1, <3>2 DEF Freed
  <2> QED BY <2>2, <2>3, <2>10, <2>12, <2>13, <2>14 DEF Freed
<1> QED BY <1>1, <1>2

LEMMA FreedAll ==
    ASSUME NEW o, NEW ws, NEW d, NEW W, NEW c, NEW x, NEW v, FreeStart(o, ws, d, W, c, x, v)
    PROVE  Freed(o, ws, d, W, c, x, v, FreeBlocks(v), Direct)
<1>1. PICK f : /\ f[0] = ClearedFirst /\ FreeBlocks(v) = f[Direct]
               /\ \A k \in Nat : k < Direct => f[k + 1] = ClearedRound(v, f[k], k)
  BY ClearedLoop
<1> DEFINE T == {k \in Nat : k <= Direct => Freed(o, ws, d, W, c, x, v, f[k], k)}
<1>2. Freed(o, ws, d, W, c, x, v, f[0], 0)
  <2>1. f[0].bmap = bmap /\ f[0].writes = <<>>
    BY <1>1 DEF ClearedFirst
  <2>2. ws \o <<>> = ws /\ <<>> \in Seq(BlockWrite)
    BY ConcatEmptySeq DEF FreeStart
  <2>3. \A l \in Blocks : ~(l < 0)
    BY Consts DEF Blocks
  <2>4. d \in Disk
    BY DEF FreeStart, Sound
  <2> QED BY <2>1, <2>2, <2>3, <2>4 DEF Freed, FreeStart
<1>3. ASSUME NEW k \in Nat, k \in T PROVE k + 1 \in T
  <2> SUFFICES ASSUME k + 1 <= Direct PROVE Freed(o, ws, d, W, c, x, v, f[k + 1], k + 1)
    OBVIOUS
  <2>1. k <= Direct /\ k < Direct /\ k \in Blocks
    BY Consts DEF Blocks
  <2>2. Freed(o, ws, d, W, c, x, v, f[k], k) /\ f[k + 1] = ClearedRound(v, f[k], k)
    BY <1>1, <1>3, <2>1
  <2> QED BY ONLY <2>1, <2>2, FreeStart(o, ws, d, W, c, x, v), FreedNext
<1>4. 0 \in T
  BY <1>2
<1> HIDE DEF T
<1>5. \A k \in Nat : k \in T
  BY <1>3, <1>4, SetInduction
<1>6. Direct \in T /\ Direct <= Direct
  BY <1>5, Consts
<1> QED BY <1>1, <1>6 DEF T

-----------------------------------------------------------------------------
(* fs_delete *)

\* Disk e is d without inode t and its entry in slot j of block k of directory i.
Deleted(d, e, U, i, k, j, t) ==
    /\ e.imap = U \ {t}
    /\ \A h \in U : /\ e.inode[h].type = d.inode[h].type
                    /\ h # i => e.inode[h].size = d.inode[h].size
    /\ e.inode[i].size = (d.inode[i].size - 1) % Word
    /\ \A h \in U, l \in Blocks : Ptr(e, h, l) = Ptr(d, h, l)
    /\ \A h \in U, l \in Blocks, m \in Indices :
          /\ Used(e, h, l, m) <=> Used(d, h, l, m) /\ ~(h = i /\ l = k /\ m = j)
          /\ Used(e, h, l, m) => At(e, h, l, m) = At(d, h, l, m)
    /\ \A b \in e.bmap : b \in d.bmap /\ \A l \in Blocks : Ptr(d, t, l) # b + 1

\* Nothing leaks when the inode has no entries of its own.
LEMMA TidyDeleted ==
    ASSUME NEW d, NEW e, NEW U \in SUBSET Inodes, NEW c, NEW x, Sound(d, U, c, x), Tidy(d, U),
           NEW i \in U, NEW k \in Blocks, NEW j \in Indices, NEW t \in U, t # Root,
           Used(d, i, k, j), At(d, i, k, j).id = t,
           d.inode[t].type = "DIR" => d.inode[t].size = 0,
           Deleted(d, e, U, i, k, j, t)
    PROVE  Tidy(e, U \ {t})
<1> DEFINE W == U \ {t}
<1>0. \A l \in Blocks, m \in Indices : ~Used(d, t, l, m)
  <2>1. CASE d.inode[t].type # "DIR"
    BY <2>1 DEF Used
  <2>2. CASE d.inode[t].type = "DIR"
    <3>1. Cardinality(Slots2(d, t)) = 0
      BY <2>2 DEF Tidy
    <3>2. Slots2(d, t) = {}
      BY <3>1, SlotsFinite, FS_EmptySet
    <3>3. ASSUME NEW l \in Blocks, NEW m \in Indices, Used(d, t, l, m) PROVE FALSE
      <4>1. <<l, m>> \in Slots2(d, t)
        BY <3>3 DEF Slots2
      <4> QED BY <3>2, <4>1
    <3> QED BY <3>3
  <2> QED BY <2>1, <2>2
<1>1. ASSUME NEW b \in Data \ Reserved, b \in e.bmap
      PROVE  \E h \in W, l \in Blocks : Ptr(e, h, l) = b + 1
  <2>1. b \in d.bmap
    BY <1>1 DEF Deleted
  <2>2. PICK h \in U, l \in Blocks : Ptr(d, h, l) = b + 1
    BY <2>1 DEF Tidy
  <2>3. h # t
    BY <1>1, <2>2 DEF Deleted
  <2> QED BY <2>2, <2>3 DEF Deleted
<1>2. ASSUME NEW S \in SUBSET Inodes, Root \in S, Closed(e, S) PROVE W \subseteq S
  <2> DEFINE R == (S \cap U) \cup {t}
  <2>1. Root \in R /\ R \in SUBSET Inodes
    BY <1>2 DEF Sound, InUse
  <2>2. Closed(d, R)
    <3> SUFFICES ASSUME NEW h \in R, NEW l \in Blocks, NEW m \in Indices, Used(d, h, l, m)
                 PROVE  At(d, h, l, m).id \in R
      BY DEF Closed
    <3>1. h \in S /\ h \in U
      BY <1>0
    <3>2. At(d, h, l, m).id \in U
      BY <3>1 DEF Sound, Closed
    <3>3. CASE h = i /\ l = k /\ m = j
      BY <3>3
    <3>4. CASE ~(h = i /\ l = k /\ m = j)
      <4>1. Used(e, h, l, m) /\ At(e, h, l, m) = At(d, h, l, m)
        BY <3>1, <3>4 DEF Deleted
      <4> QED BY <1>2, <3>1, <3>2, <4>1 DEF Closed
    <3> QED BY <3>3, <3>4
  <2> HIDE DEF R
  <2>3. U \subseteq R
    BY <2>1, <2>2 DEF Tidy
  <2> QED BY <2>3 DEF R
<1>3. ASSUME NEW h \in W, e.inode[h].type = "DIR" PROVE e.inode[h].size = Cardinality(Slots2(e, h))
  <2>0. d.inode[h].size = Cardinality(Slots2(d, h))
    BY <1>3 DEF Tidy, Deleted
  <2>1. CASE h # i
    <3>1. Slots2(e, h) = Slots2(d, h)
      BY <2>1 DEF Slots2, Deleted
    <3> QED BY <2>0, <2>1, <3>1 DEF Deleted
  <2>2. CASE h = i
    <3>1. Slots2(e, i) = Slots2(d, i) \ {<<k, j>>}
      <4>1. ASSUME NEW s \in Blocks \X Indices
            PROVE  s \in Slots2(e, i) <=> s \in Slots2(d, i) /\ s # <<k, j>>
        <5>1. s[1] \in Blocks /\ s[2] \in Indices /\ (s = <<k, j>> <=> s[1] = k /\ s[2] = j)
          OBVIOUS
        <5> QED BY <5>1 DEF Slots2, Deleted
      <4> QED BY <4>1 DEF Slots2
    <3>2. <<k, j>> \in Slots2(d, i)
      BY DEF Slots2
    <3>3. Cardinality(Slots2(e, i)) = Cardinality(Slots2(d, i)) - 1
      <4> DEFINE A == Slots2(d, i)
                 q == <<k, j>>
      <4>1. IsFiniteSet(A) /\ q \in A
        BY <3>2, SlotsFinite
      <4>2. Slots2(e, i) = A \ {q}
        BY <3>1
      <4> HIDE DEF A, q
      <4>3. Cardinality(A \ {q}) = Cardinality(A) - 1
        BY <4>1, FS_RemoveElement
      <4> QED BY <4>2, <4>3 DEF A
    <3>4. Direct * Cells \in Nat /\ Direct * Cells < Word
      BY FsAssumption, Consts
    <3>5. d.inode[i].size - 1 \in 0..(Word - 1)
      BY <2>0, <2>2, <3>3, <3>4, SlotsFinite, Consts
    <3>6. (d.inode[i].size - 1) % Word = d.inode[i].size - 1
      BY <3>5, Consts
    <3> QED BY <2>0, <2>2, <3>3, <3>6 DEF Deleted
  <2> QED BY <2>1, <2>2
<1>4. e.imap = W
  BY DEF Deleted
<1> QED BY <1>1, <1>2, <1>3, <1>4 DEF Tidy

LEMMA FsDeleteStep ==
    ASSUME FsInv, NEW parent \in Inodes, NEW name \in Names, NEW read \in BOOLEAN,
           fs_delete(parent, name, read)
    PROVE  FsInv'
<1>0. PICK p, target, freed : /\ p = Min(Matches(disk, disk.inode[parent], name))
                              /\ target = Lookup(parent, name)
                              /\ freed = FreeBlocks(disk.inode[target])
  OBVIOUS
<1> DEFINE dir == disk.inode[parent]
           k   == p \div Cells
           j   == p % Cells
           b   == dir.direct_blocks[k]
           w1  == DataBlock(b, [disk.data[b] EXCEPT ![j] = ZeroCell])
           w2  == InodeBlock(parent, [dir EXCEPT !.size = (@ - 1) % Word])
           entry == <<w1, w2>>
           w3 == InodeBitmap(imap \ {target})
           full == disk.inode[target].type = "DIR" /\ disk.inode[target].size # 0
<1>1. /\ Idle /\ parent \in held /\ Valid(parent) /\ target # 0
      /\ held' = held \ {target} /\ blind' = blind
      /\ \/ /\ imap' = imap \ {target} /\ bmap' = freed.bmap /\ lost' = (lost \/ full)
            /\ Start(entry \o freed.writes \o <<w3>>, [content EXCEPT ![target] = Unknown])
         \/ /\ lost' /\ imap' = imap /\ bmap' = bmap
            /\ Start(entry, [content EXCEPT ![target] = Unknown])
  BY <1>0 DEF fs_delete, free_inode, DeleteOrder
<1>2. TypeInv /\ PhaseInv /\ up /\ disk.magic /\ total = TotalInodes /\ total # 0
  BY <1>1, CallContext
<1>3. PICK U : Ready(U)
  BY <1>1, CallContext
<1>4. /\ Sound(disk, U, content, blind) /\ U \in SUBSET Inodes /\ parent \in U /\ Root \in U
      /\ imap = disk.imap /\ bmap = disk.bmap /\ held \subseteq U /\ (lost \/ Tidy(disk, U))
      /\ U \subseteq imap /\ disk \in Disk /\ disk.inode \in [Inodes -> Inode]
      /\ imap \subseteq Inodes /\ Closed(disk, U) /\ Apart(disk, U)
      /\ \A i \in Inodes : Placed(disk.inode[i])
  BY <1>1, <1>3 DEF Ready, Sound, InUse, Disk
<1>5. /\ k \in Blocks /\ j \in Indices /\ Used(disk, parent, k, j)
      /\ At(disk, parent, k, j).id = target
  BY <1>0, <1>1, LookupFinds
<1>6. target \in U /\ target \in Inodes
  BY <1>4, <1>5 DEF Closed
<1> DEFINE c == content'
           W == U \ {target}
           d == Written(Written(disk, w1), w2)
<1>7. /\ promise' = c /\ c \in Claims
      /\ \A h \in Inodes, q \in Positions : c[h][q] \in {Zero, content[h][q]}
  <2>1. content \in Claims
    BY <1>2 DEF TypeInv
  <2>2. \E w : Start(w, [content EXCEPT ![target] = Unknown])
    BY <1>1
  <2> QED BY <1>6, <2>1, <2>2, ForgetClaims
<1>8. disk' = disk /\ up' = up /\ total' = total /\ crashes' = crashes
  BY <1>1 DEF Start
<1>9. Sound(disk, U, c, blind)
  <2>1. \A h \in U, q \in Positions : c[h][q] \in {Zero, content[h][q]}
    BY <1>4, <1>7
  <2> QED BY <1>4, <2>1, FewerClaims
<1> HIDE DEF c
<1>10. WithoutEntry(disk, entry, d, U, c, blind, parent, k, j, target)
  <2>1. RemovalWrites(disk, U, c, blind, parent, k, j, target, b, w1, w2, d)
    BY <1>4, <1>5, <1>9 DEF RemovalWrites, Ptr
  <2> HIDE DEF k, j, b, w1, w2, d
  <2> QED BY ONLY <2>1, DeleteEntry
<1> HIDE DEF k, j, w1, w2, d
<1>11. /\ entry \in Seq(BlockWrite) /\ Through(disk, entry, d, W, c, blind) /\ Sound(d, W, c, blind)
       /\ d.imap = imap /\ d.bmap = bmap /\ target # Root /\ d \in Disk
  BY <1>4, <1>10 DEF WithoutEntry, Sound
\* Both cases end in a disk e with the promised state.
<1>12. ASSUME NEW e, Through(disk, writes', e, W, c, blind), writes' \in Seq(BlockWrite),
              e.imap = imap', e.bmap = bmap', lost' \/ Tidy(e, W)
       PROVE  FsInv'
  <2>1. Sound(e, W, c, blind)
    BY <1>12, Ends
  <2>2. Kept(e, W, promise')
    BY <1>7, <2>1 DEF Sound
  <2>3. LeadsTo(e, W)'
    BY <1>1, <1>4, <1>8, <1>12, <2>2 DEF LeadsTo, c
  <2>4. PhaseInv'
    BY <1>2, <1>8 DEF PhaseInv
  <2>5. lost' \in BOOLEAN /\ blind' \in BOOLEAN
    BY <1>1, <1>2, Zenon DEF TypeInv
  <2>6. TypeInv'
    BY <1>2, <1>7, <1>8, <1>12, <2>5 DEF TypeInv, c
  <2> QED BY <2>3, <2>4, <2>6 DEF FsInv
<1>13. CASE lost' /\ imap' = imap /\ bmap' = bmap /\ writes' = entry
  <2>1. /\ Through(disk, writes', d, W, c, blind) /\ writes' \in Seq(BlockWrite)
        /\ d.imap = imap' /\ d.bmap = bmap' /\ (lost' \/ Tidy(d, W))
    BY <1>11, <1>13
  <2> HIDE DEF W
  <2> QED BY ONLY <2>1, <1>12
<1>14. CASE /\ imap' = imap \ {target} /\ bmap' = freed.bmap /\ lost' = (lost \/ full)
            /\ writes' = entry \o freed.writes \o <<w3>>
  <2> DEFINE v == disk.inode[target]
  <2>1. \A h \in U : d.inode[h].direct_blocks = disk.inode[h].direct_blocks
    BY <1>10 DEF WithoutEntry
  <2>2. FreeStart(disk, entry, d, W, c, blind, v)
    <3>1. v \in Inode /\ Placed(v)
      BY <1>4, <1>6
    <3>2. \A h \in W, l, m \in Blocks : Ptr(d, h, l) # 0 => Ptr(d, h, l) # v.direct_blocks[m]
      BY <1>4, <1>6, <2>1 DEF Apart, Ptr
    <3> QED BY <1>11, <3>1, <3>2 DEF FreeStart
  <2>3. Freed(disk, entry, d, W, c, blind, v, freed, Direct)
    <3>1. freed = FreeBlocks(v)
      BY <1>0
    <3> HIDE DEF v, W, entry
    <3> QED BY ONLY <2>2, <3>1, FreedAll
  <2>4. PICK f : /\ Through(disk, entry \o freed.writes, f, W, c, blind) /\ f \in Disk
                 /\ f.bmap = freed.bmap
                 /\ f.imap = d.imap /\ f.inode = d.inode /\ f.data = d.data
    BY <2>3 DEF Freed
  <2>5. freed.writes \in Seq(BlockWrite) /\ entry \o freed.writes \in Seq(BlockWrite)
    BY <1>11, <2>3 DEF Freed
  <2> HIDE DEF entry
  <2>6. Sound(f, W, c, blind)
    BY ONLY <2>4, <2>5, Ends
  <2> DEFINE m == imap \ {target}
             e == Written(f, w3)
  <2>7. m \in SUBSET Inodes /\ W \subseteq m
    BY <1>4
  <2>8. Sound(e, W, c, blind)
    BY <2>6, <2>7, SoundInodeBitmap
  <2>9. e.imap = m /\ e.bmap = f.bmap /\ e.inode = f.inode /\ e.data = f.data
    BY <2>4, <2>7, WriteInodeBitmap
  <2>10. w3 \in BlockWrite
    BY <2>7, WriteTypes
  <2> HIDE DEF w3, m, e
  <2>11. /\ Through(disk, Append(entry \o freed.writes, w3), e, W, c, blind)
    BY ONLY <2>4, <2>5, <2>8, <2>10, OneMore DEF e
  <2>12. /\ writes' = Append(entry \o freed.writes, w3) /\ writes' \in Seq(BlockWrite)
    <3>1. /\ (entry \o freed.writes) \o <<w3>> = Append(entry \o freed.writes, w3)
          /\ (entry \o freed.writes) \o <<w3>> \in Seq(BlockWrite)
      BY ONLY <2>5, <2>10, WritesJoined
    <3> QED BY <1>14, <3>1
  <2>13. ASSUME Tidy(disk, U), ~full PROVE Tidy(e, W)
    <3>1. disk.imap = U
      BY <2>13 DEF Tidy
    <3>2. e.imap = U \ {target}
      BY <1>4, <2>9, <3>1 DEF m
    <3>3. e.inode = d.inode /\ e.data = d.data
      BY <2>4, <2>9
    <3>4. \A h \in U : /\ e.inode[h].type = disk.inode[h].type
                       /\ e.inode[h].direct_blocks = disk.inode[h].direct_blocks
                       /\ h # parent => e.inode[h].size = disk.inode[h].size
      BY <1>10, <3>3 DEF WithoutEntry
    <3>5. e.inode[parent].size = (disk.inode[parent].size - 1) % Word
      BY <1>10, <3>3 DEF WithoutEntry
    <3>6. \A h \in U, l \in Blocks : Ptr(e, h, l) = Ptr(disk, h, l)
      BY <3>4 DEF Ptr
    <3>7. \A h \in U, l \in Blocks, n \in Indices :
             /\ Used(e, h, l, n) <=> Used(d, h, l, n)
             /\ At(e, h, l, n) = At(d, h, l, n)
      BY <3>3 DEF Used, At, Ptr
    <3>8. \A h \in U, l \in Blocks, n \in Indices :
             /\ Used(e, h, l, n) <=> Used(disk, h, l, n) /\ ~(h = parent /\ l = k /\ n = j)
             /\ Used(e, h, l, n) => At(e, h, l, n) = At(disk, h, l, n)
      BY <1>10, <3>7 DEF WithoutEntry
    <3>9. ASSUME NEW a \in e.bmap
          PROVE  a \in disk.bmap /\ \A l \in Blocks : Ptr(disk, target, l) # a + 1
      <4>1. /\ a \in bmap
            /\ \A l \in Blocks : l < Direct /\ v.direct_blocks[l] # 0 => a # v.direct_blocks[l] - 1
        BY <2>3, <2>4, <2>9 DEF Freed
      <4>2. a \in Nat
        BY <1>4, <4>1, Consts DEF Disk, Data
      <4>3. ASSUME NEW l \in Blocks, Ptr(disk, target, l) = a + 1 PROVE FALSE
        <5>1. l < Direct /\ v.direct_blocks[l] = a + 1
          BY <4>3, Consts DEF Blocks, Ptr
        <5>2. a + 1 # 0 /\ a + 1 - 1 = a
          BY <4>2
        <5> HIDE DEF v
        <5>3. a # v.direct_blocks[l] - 1
          BY <4>1, <5>1, <5>2
        <5>4. v.direct_blocks[l] - 1 = (a + 1) - 1
          BY ONLY <5>1, Zenon
        <5>5. v.direct_blocks[l] - 1 = a
          BY ONLY <4>2, <5>4
        <5> QED BY ONLY <5>3, <5>5, Zenon
      <4> QED BY <1>4, <4>1, <4>3
    <3>10. Deleted(disk, e, U, parent, k, j, target)
      BY <3>2, <3>4, <3>5, <3>6, <3>8, <3>9 DEF Deleted
    <3>11. /\ disk.inode[target].type = "DIR" => disk.inode[target].size = 0
      BY <2>13
    <3> QED BY ONLY <1>4, <1>5, <1>6, <1>11, <2>13, <3>10, <3>11, TidyDeleted
  <2>14. lost' \/ Tidy(e, W)
    BY <1>4, <1>14, <2>13
  <2>15. /\ Through(disk, writes', e, W, c, blind) /\ e.imap = imap' /\ e.bmap = bmap'
    BY <1>14, <2>4, <2>9, <2>11, <2>12 DEF m
  <2> HIDE DEF W
  <2> QED BY ONLY <2>12, <2>14, <2>15, <1>12
<1> QED BY <1>1, <1>13, <1>14 DEF Start

-----------------------------------------------------------------------------
(* One round of fs_write *)

\* The file fs_write is to change, and the claims c while it does.
WriteContext(U, c, x, id, offset, payload) ==
    /\ Sound(disk, U, c, x) /\ id \in U /\ disk.inode[id].type = "FILE"
    /\ offset \in Nat /\ payload \in Payloads

\* Disk d with done bytes written: m is the bitmap and v the file's inode.  The
\* blocks that have changed are the file's, and lie behind the next byte.
Reached(d, id, offset, payload, m, v, done) ==
    /\ d.imap = disk.imap /\ d.bmap = m /\ d.inode = [disk.inode EXCEPT ![id] = v]
    /\ v \in Inode /\ v.type = "FILE" /\ v.size = disk.inode[id].size
    /\ \A l \in Blocks : Ptr(disk, id, l) # 0 => v.direct_blocks[l] = Ptr(disk, id, l)
    /\ \A a \in m : a \in disk.bmap \/ \E l \in Blocks : v.direct_blocks[l] = a + 1
    /\ \A b \in DeviceBlocks :
          \/ d.data[b] = disk.data[b]
          \/ /\ done # 0 /\ b # 0
             /\ \E l \in Blocks : v.direct_blocks[l] = b /\ l * Cells < offset + done
    /\ \A q \in Positions : offset <= q /\ q < offset + done =>
          /\ v.direct_blocks[q \div Cells] # 0
          /\ d.data[v.direct_blocks[q \div Cells]][q % Cells] = Byte(payload)

\* The block writes ws lead there.
Reaches(U, c, x, id, offset, payload, ws, m, v, done) ==
    /\ ws \in Seq(BlockWrite)
    /\ \E d : Through(disk, ws, d, U, c, x) /\ Reached(d, id, offset, payload, m, v, done)

\* A fresh block: the bitmap, then the inode that points to it.
GrowWrites(U, c, x, id, offset, payload, ws, m, v, done, i, a, t, w) ==
    /\ WriteContext(U, c, x, id, offset, payload)
    /\ Reaches(U, c, x, id, offset, payload, ws, m, v, done) /\ done \in Nat
    /\ i \in Blocks /\ v.direct_blocks[i] = 0 /\ a \in Data \ m
    /\ t = BlockBitmap(m \cup {a}) /\ w = InodeBlock(id, [v EXCEPT !.direct_blocks[i] = a + 1])

LEMMA WriteGrows ==
    ASSUME NEW U, NEW c, NEW x, NEW id, NEW offset, NEW payload, NEW ws, NEW m, NEW v, NEW done,
           NEW i, NEW a, NEW t, NEW w,
           GrowWrites(U, c, x, id, offset, payload, ws, m, v, done, i, a, t, w)
    PROVE  Reaches(U, c, x, id, offset, payload, ws \o <<t, w>>, m \cup {a},
                   [v EXCEPT !.direct_blocks[i] = a + 1], done)
<1> DEFINE m2 == m \cup {a}
           u == [v EXCEPT !.direct_blocks[i] = a + 1]
<1>0. /\ Sound(disk, U, c, x) /\ id \in U /\ ws \in Seq(BlockWrite)
      /\ i \in Blocks /\ v.direct_blocks[i] = 0 /\ a \in Data \ m
      /\ t = BlockBitmap(m2) /\ w = InodeBlock(id, u)
  BY DEF GrowWrites, WriteContext, Reaches
<1>1. PICK d : Through(disk, ws, d, U, c, x) /\ Reached(d, id, offset, payload, m, v, done)
  BY DEF GrowWrites, Reaches
<1>2. Sound(d, U, c, x)
  BY ONLY <1>0, <1>1, Ends
<1>3. /\ d \in Disk /\ d.inode \in [Inodes -> Inode] /\ U \subseteq Inodes /\ id \in Inodes
      /\ disk \in Disk /\ disk.inode \in [Inodes -> Inode]
      /\ Reserved \subseteq d.bmap /\ Marked(d, U)
  BY <1>0, <1>2 DEF Sound, Disk, InUse
<1>4. /\ d.inode[id] = v /\ d.bmap = m /\ v \in Inode /\ v.type = "FILE"
      /\ v.direct_blocks \in [Blocks -> 0..TotalBlocks]
  BY <1>1, <1>3, InodeTypes DEF Reached
<1>5. /\ a \notin Reserved /\ a \in Nat /\ a + 1 \in 0..TotalBlocks /\ m2 \in SUBSET Data
      /\ \A h \in U, l \in Blocks : Ptr(d, h, l) # a + 1
  BY <1>0, <1>2, <1>4, UnmarkedUnused
<1>6. /\ u \in Inode /\ u.type = "FILE" /\ u.size = v.size
      /\ u.direct_blocks = [v.direct_blocks EXCEPT ![i] = a + 1]
  BY <1>0, <1>4, <1>5 DEF Inode, Blocks
<1> HIDE DEF u, m2
<1> DEFINE f == Written(d, t)
           g == Written(f, w)
<1>7. Sound(f, U, c, x)
  <2>1. Reserved \subseteq m2 /\ \A h \in U, l \in Blocks : Ptr(d, h, l) # 0 => Ptr(d, h, l) - 1 \in m2
    BY <1>3, <1>4 DEF m2, Marked
  <2> QED BY <1>0, <1>2, <1>5, <2>1, SoundBlockBitmap
<1>8. f \in Disk /\ f.imap = d.imap /\ f.bmap = m2 /\ f.inode = d.inode /\ f.data = d.data
  BY <1>0, <1>3, <1>5, WriteBlockBitmap
<1>9. t \in BlockWrite /\ w \in BlockWrite
  BY <1>0, <1>3, <1>5, <1>6, WriteTypes
<1> HIDE DEF f
<1>10. Sound(g, U, c, x)
  <2>1. /\ f.inode[id].type = "FILE" /\ Ptr(f, id, i) = 0 /\ a \in f.bmap
        /\ u = [f.inode[id] EXCEPT !.direct_blocks[i] = a + 1]
        /\ \A h \in U, l \in Blocks : Ptr(f, h, l) # a + 1
    BY <1>0, <1>4, <1>5, <1>8 DEF Ptr, u, m2
  <2>2. Sound(Written(f, InodeBlock(id, u)), U, c, x)
    BY ONLY <1>0, <1>5, <1>6, <1>7, <2>1, SoundFileBlock
  <2> QED BY <1>0, <2>2
<1>11. /\ g \in Disk /\ g.imap = d.imap /\ g.bmap = m2 /\ g.data = d.data
       /\ g.inode = [d.inode EXCEPT ![id] = u]
  BY <1>0, <1>3, <1>6, <1>8, WriteInodeBlock
<1> HIDE DEF g
<1>12. Append(ws, t) \in Seq(BlockWrite)
  BY <1>0, <1>9
<1>13. Through(disk, Append(ws, t), f, U, c, x)
  BY ONLY <1>0, <1>1, <1>7, <1>9, OneMore DEF f
<1>14. Through(disk, Append(Append(ws, t), w), g, U, c, x)
  BY ONLY <1>9, <1>10, <1>12, <1>13, OneMore DEF g
<1>15. ws \o <<t, w>> = Append(Append(ws, t), w) /\ ws \o <<t, w>> \in Seq(BlockWrite)
  BY ONLY <1>0, <1>9, WritesJoined
<1>16. \A l \in Blocks : v.direct_blocks[l] # 0 => u.direct_blocks[l] = v.direct_blocks[l]
  BY <1>0, <1>4, <1>6
<1>17. Reached(g, id, offset, payload, m2, u, done)
  <2>1. /\ g.imap = disk.imap /\ g.bmap = m2 /\ g.inode = [disk.inode EXCEPT ![id] = u]
        /\ u \in Inode /\ u.type = "FILE" /\ u.size = disk.inode[id].size
    BY <1>1, <1>3, <1>6, <1>11 DEF Reached
  <2>2. \A l \in Blocks : Ptr(disk, id, l) # 0 => u.direct_blocks[l] = Ptr(disk, id, l)
    BY <1>1, <1>16 DEF Reached
  <2>3. ASSUME NEW y \in m2 PROVE y \in disk.bmap \/ \E l \in Blocks : u.direct_blocks[l] = y + 1
    <3>1. CASE y = a
      BY <1>0, <1>4, <1>6, <3>1
    <3>2. CASE y # a
      <4>1. y \in m /\ y + 1 # 0
        BY <1>3, <1>4, <3>2, Consts DEF m2, Disk, Data
      <4> QED BY <1>1, <1>16, <4>1 DEF Reached
    <3> QED BY <3>1, <3>2
  <2>4. ASSUME NEW b \in DeviceBlocks
        PROVE  \/ g.data[b] = disk.data[b]
               \/ /\ done # 0 /\ b # 0
                  /\ \E l \in Blocks : u.direct_blocks[l] = b /\ l * Cells < offset + done
    BY <1>1, <1>11, <1>16 DEF Reached
  <2>5. ASSUME NEW q \in Positions, offset <= q, q < offset + done
        PROVE  /\ u.direct_blocks[q \div Cells] # 0
               /\ g.data[u.direct_blocks[q \div Cells]][q % Cells] = Byte(payload)
    <3>1. q \div Cells \in Blocks
      BY PositionIndices
    <3> QED BY <1>1, <1>11, <1>16, <2>5, <3>1 DEF Reached
  <2> QED BY <2>1, <2>2, <2>3, <2>4, <2>5 DEF Reached
<1> QED BY <1>14, <1>15, <1>17 DEF Reaches, u, m2

LEMMA SplitPosition ==
    ASSUME NEW p \in Nat
    PROVE  \E i \in Nat, r \in Nat :
              i = p \div Cells /\ r = p % Cells /\ r < Cells /\ p = i * Cells + r
<1> DEFINE i == p \div Cells
           r == p % Cells
<1>1. i \in Nat /\ r \in Indices /\ p = i * Cells + r
  BY PositionParts
<1> HIDE DEF i, r
<1>2. r \in Nat /\ r < Cells
  BY <1>1, Consts DEF Indices
<1> QED BY <1>1, <1>2 DEF i, r

LEMMA JoinPosition ==
    ASSUME NEW i \in Nat, NEW r \in Nat, r < Cells, NEW p, p = i * Cells + r
    PROVE  p \div Cells = i /\ p % Cells = r
<1>1. i * Cells \in Nat
  BY Consts
<1> QED BY <1>1, Consts

\* A round stays in one block.
LEMMA RoundSpan ==
    ASSUME NEW p \in Nat, NEW n \in Nat, n >= 1, n <= Cells - (p % Cells)
    PROVE  /\ (p \div Cells) * Cells <= p /\ p + n <= (p \div Cells) * Cells + Cells
           /\ \A q \in Nat : p <= q /\ q < p + n =>
                 q \div Cells = p \div Cells /\ (q % Cells) - (p % Cells) = q - p
           /\ \A q \in Nat : q \div Cells = p \div Cells /\ (q % Cells) - (p % Cells) \in 0..(n - 1) =>
                 p <= q /\ q < p + n
<1>0. Cells \in Nat /\ Cells >= 1
  BY Consts
<1>1. PICK i \in Nat, r \in Nat : i = p \div Cells /\ r = p % Cells /\ r < Cells /\ p = i * Cells + r
  BY SplitPosition
<1>2. PICK z \in Nat : z = i * Cells
  BY <1>0, <1>1
<1>3. z <= p /\ p + n <= z + Cells
  BY <1>0, <1>1, <1>2
<1>4. ASSUME NEW q \in Nat, p <= q, q < p + n
      PROVE  q \div Cells = i /\ (q % Cells) - r = q - p
  <2>1. PICK s \in Nat : s = q - z
    BY <1>3, <1>4, <1>2
  <2>2. s < Cells /\ q = i * Cells + s
    BY <1>0, <1>2, <1>3, <1>4, <2>1
  <2>3. q \div Cells = i /\ q % Cells = s
    BY ONLY <2>2, i \in Nat, s \in Nat, JoinPosition
  <2>4. s - r = q - p
    <3>1. p = z + r
      BY <1>1, <1>2
    <3> QED BY ONLY <2>1, <3>1, r \in Nat, z \in Nat, s \in Nat, q \in Nat
  <2> QED BY <2>3, <2>4
<1>5. ASSUME NEW q \in Nat, q \div Cells = i, (q % Cells) - r \in 0..(n - 1)
      PROVE  p <= q /\ q < p + n
  <2>1. PICK s \in Nat : s = q % Cells /\ q = i * Cells + s
    BY <1>5, SplitPosition
  <2>2. s - r \in 0..(n - 1)
    BY <1>5, <2>1
  <2> QED BY <1>1, <1>2, <2>1, <2>2
<1> QED BY <1>1, <1>2, <1>3, <1>4, <1>5

\* The block a round writes.
Bytes(b, p, n, payload) ==
    [j \in 0..(Cells - 1) |-> IF j - (p % Cells) \in 0..(n - 1) THEN Byte(payload) ELSE disk.data[b][j]]

DataWrites(U, c, x, id, offset, payload, ws, m, v, done, i, n, w) ==
    /\ WriteContext(U, c, x, id, offset, payload)
    /\ Reaches(U, c, x, id, offset, payload, ws, m, v, done) /\ done \in Nat
    /\ i = (offset + done) \div Cells /\ i \in Blocks /\ v.direct_blocks[i] # 0
    /\ done = 0 \/ (offset + done) % Cells = 0
    /\ n \in Nat /\ n >= 1 /\ n <= Cells - ((offset + done) % Cells)
    /\ \A q \in Positions : offset <= q /\ q < offset + (done + n) => c[id][q] \in {Zero, payload}
    /\ w = DataBlock(v.direct_blocks[i], Bytes(v.direct_blocks[i], offset + done, n, payload))

LEMMA WriteLands ==
    ASSUME NEW U, NEW c, NEW x, NEW id, NEW offset, NEW payload, NEW ws, NEW m, NEW v, NEW done,
           NEW i, NEW n, NEW w,
           DataWrites(U, c, x, id, offset, payload, ws, m, v, done, i, n, w)
    PROVE  Reaches(U, c, x, id, offset, payload, Append(ws, w), m, v, done + n)
<1>0. PICK p, b, z : /\ p = offset + done /\ b = v.direct_blocks[i]
                     /\ z = Bytes(b, p, n, payload)
  OBVIOUS
<1>1. /\ Sound(disk, U, c, x) /\ id \in U /\ ws \in Seq(BlockWrite) /\ payload \in Payloads
      /\ offset \in Nat /\ done \in Nat /\ p \in Nat /\ n \in Nat /\ n >= 1
      /\ n <= Cells - (p % Cells) /\ i = p \div Cells /\ i \in Blocks /\ b # 0
      /\ done = 0 \/ p % Cells = 0
      /\ \A q \in Positions : offset <= q /\ q < p + n => c[id][q] \in {Zero, payload}
      /\ w = DataBlock(b, z)
  BY <1>0 DEF DataWrites, WriteContext, Reaches
<1>2. PICK d : Through(disk, ws, d, U, c, x) /\ Reached(d, id, offset, payload, m, v, done)
  BY DEF DataWrites, Reaches
<1>3. Sound(d, U, c, x)
  BY ONLY <1>1, <1>2, Ends
<1>4. /\ d \in Disk /\ d.inode \in [Inodes -> Inode] /\ U \subseteq Inodes /\ id \in Inodes
      /\ disk \in Disk /\ disk.inode \in [Inodes -> Inode]
      /\ disk.data \in [DeviceBlocks -> [Indices -> Cell]]
      /\ d.data \in [DeviceBlocks -> [Indices -> Cell]]
      /\ Apart(d, U) /\ Kept(d, U, c) /\ \A h \in Inodes : Placed(d.inode[h])
  BY <1>1, <1>3 DEF Sound, Disk, InUse
<1>5. /\ d.inode[id] = v /\ d.bmap = m /\ v \in Inode /\ v.type = "FILE"
      /\ \A l \in Blocks : Ptr(d, id, l) = v.direct_blocks[l]
  BY <1>2, <1>4 DEF Reached, Ptr
<1>6. b = Ptr(d, id, i) /\ b \in DeviceBlocks
  BY <1>0, <1>1, <1>4, <1>5, PtrTypes
<1>7. /\ i * Cells <= p
      /\ \A q \in Nat : p <= q /\ q < p + n =>
            q \div Cells = i /\ (q % Cells) - (p % Cells) = q - p
      /\ \A q \in Nat : q \div Cells = i /\ (q % Cells) - (p % Cells) \in 0..(n - 1) =>
            p <= q /\ q < p + n
  BY ONLY <1>1, RoundSpan
\* The block has not changed yet.
<1>8. d.data[b] = disk.data[b]
  <2> SUFFICES ASSUME d.data[b] # disk.data[b] PROVE FALSE
    OBVIOUS
  <2>1. done # 0
    BY <1>2, <1>6 DEF Reached
  <2>2. PICK l \in Blocks : v.direct_blocks[l] = b /\ l * Cells < p
    BY <1>0, <1>2, <1>6 DEF Reached
  <2>3. l = i
    BY <1>1, <1>4, <1>5, <1>6, <2>2 DEF Apart
  <2>4. p = i * Cells
    <3>1. p = (p \div Cells) * Cells + (p % Cells) /\ p % Cells = 0 /\ i * Cells \in Nat
      BY <1>1, <2>1, PositionParts, Consts DEF Blocks
    <3> QED BY <1>1, <3>1
  <2> QED BY <1>1, <2>2, <2>3, <2>4
<1>9. z \in [Indices -> Cell]
  <2>1. Byte(payload) \in Cell
    BY <1>1, Consts DEF Byte, Cell
  <2>2. \A j \in Indices : disk.data[b][j] \in Cell
    BY <1>4, <1>6
  <2> QED BY <1>0, <2>1, <2>2 DEF Bytes, Indices
<1>10. \A j \in Indices : z[j] = IF j - (p % Cells) \in 0..(n - 1) THEN Byte(payload) ELSE d.data[b][j]
  BY <1>0, <1>8 DEF Bytes, Indices
<1> DEFINE e == Written(d, w)
<1>11. Sound(e, U, c, x)
  <2>1. ASSUME NEW q \in Positions, c[id][q] # Zero, q \div Cells = i
        PROVE  z[q % Cells] = Byte(c[id][q])
    <3>1. q \in Nat /\ q % Cells \in Indices
      BY PositionIndices
    <3>2. CASE (q % Cells) - (p % Cells) \in 0..(n - 1)
      <4>1. p <= q /\ q < p + n
        BY <1>7, <2>1, <3>1, <3>2
      <4>2. offset <= q
        BY <1>0, <1>1, <3>1, <4>1
      <4>3. c[id][q] = payload
        BY <1>1, <2>1, <4>1, <4>2
      <4> QED BY <1>10, <3>1, <3>2, <4>3
    <3>3. CASE ~((q % Cells) - (p % Cells) \in 0..(n - 1))
      <4>1. At(d, id, i, q % Cells) = Byte(c[id][q])
        BY <1>1, <1>4, <2>1 DEF Kept
      <4> QED BY <1>6, <1>10, <3>1, <3>3, <4>1 DEF At
    <3> QED BY <3>2, <3>3
  <2>2. d.inode[id].type = "FILE" /\ Ptr(d, id, i) # 0
    BY <1>1, <1>5, <1>6
  <2>3. Sound(Written(d, DataBlock(Ptr(d, id, i), z)), U, c, x)
    BY ONLY <1>1, <1>3, <1>9, <2>1, <2>2, SoundFileData
  <2> QED BY <1>1, <1>6, <2>3
<1>12. /\ e \in Disk /\ e.imap = d.imap /\ e.bmap = d.bmap /\ e.inode = d.inode
       /\ e.data = [d.data EXCEPT ![b] = z]
  BY <1>1, <1>4, <1>6, <1>9, WriteDataBlock
<1>13. w \in BlockWrite
  BY <1>1, <1>6, <1>9, WriteTypes
<1> HIDE DEF e
<1>14. Through(disk, Append(ws, w), e, U, c, x) /\ Append(ws, w) \in Seq(BlockWrite)
  <2>1. Through(disk, Append(ws, w), e, U, c, x)
    BY ONLY <1>1, <1>2, <1>11, <1>13, OneMore DEF e
  <2> QED BY <1>1, <1>13, <2>1
<1>15. Reached(e, id, offset, payload, m, v, done + n)
  <2>1. ASSUME NEW y \in DeviceBlocks
        PROVE  \/ e.data[y] = disk.data[y]
               \/ /\ done + n # 0 /\ y # 0
                  /\ \E l \in Blocks : v.direct_blocks[l] = y /\ l * Cells < offset + (done + n)
    <3>1. CASE y = b
      <4>1. i * Cells < offset + (done + n) /\ done + n # 0
        <5>1. i * Cells \in Nat
          BY <1>1, Consts DEF Blocks
        <5> QED BY <1>0, <1>1, <1>7, <5>1
      <4> QED BY <1>0, <1>1, <3>1, <4>1
    <3>2. CASE y # b /\ d.data[y] # disk.data[y]
      <4>1. PICK l \in Blocks : v.direct_blocks[l] = y /\ l * Cells < offset + done
        BY <1>2, <3>2 DEF Reached
      <4>2. l * Cells \in Nat
        BY Consts DEF Blocks
      <4>3. l * Cells < offset + (done + n) /\ done + n # 0
        BY <1>1, <4>1, <4>2
      <4>4. y # 0
        BY <1>2, <3>2 DEF Reached
      <4> QED BY <4>1, <4>3, <4>4
    <3>3. CASE y # b /\ d.data[y] = disk.data[y]
      BY <1>4, <1>12, <3>3
    <3> QED BY <3>1, <3>2, <3>3
  <2>2. ASSUME NEW q \in Positions, offset <= q, q < offset + (done + n)
        PROVE  /\ v.direct_blocks[q \div Cells] # 0
               /\ e.data[v.direct_blocks[q \div Cells]][q % Cells] = Byte(payload)
    <3>1. q \in Nat /\ q % Cells \in Indices /\ q \div Cells \in Blocks
      BY PositionIndices
    <3>2. CASE p <= q
      <4>1. q < p + n
        BY <1>0, <1>1, <2>2, <3>1
      <4>2. q \div Cells = i /\ (q % Cells) - (p % Cells) = q - p
        BY <1>7, <3>1, <3>2, <4>1
      <4>3. q - p \in 0..(n - 1)
        BY <1>1, <3>1, <3>2, <4>1
      <4>4. z[q % Cells] = Byte(payload)
        BY <1>10, <3>1, <4>2, <4>3
      <4>5. e.data[b] = z
        BY <1>4, <1>6, <1>12
      <4> QED BY <1>0, <1>1, <4>2, <4>4, <4>5
    <3>3. CASE q < p
      <4>1. q < offset + done /\ done # 0
        BY <1>0, <1>1, <2>2, <3>1, <3>3
      <4>2. /\ v.direct_blocks[q \div Cells] # 0
            /\ d.data[v.direct_blocks[q \div Cells]][q % Cells] = Byte(payload)
        BY <1>2, <2>2, <4>1 DEF Reached
      <4>3. q \div Cells # i
        <5>1. p = i * Cells
          <6>1. p = (p \div Cells) * Cells + (p % Cells) /\ p % Cells = 0 /\ i * Cells \in Nat
            BY <1>1, <4>1, PositionParts, Consts DEF Blocks
          <6> QED BY <1>1, <6>1
        <5>2. q = (q \div Cells) * Cells + (q % Cells) /\ q % Cells \in Nat
          BY <3>1, PositionParts, Consts DEF Indices
        <5> QED BY <1>1, <3>1, <3>3, <5>1, <5>2
      <4>4. v.direct_blocks[q \div Cells] # b
        BY <1>1, <1>4, <1>5, <1>6, <3>1, <4>2, <4>3 DEF Apart
      <4>5. v.direct_blocks[q \div Cells] \in DeviceBlocks
        BY <1>4, <1>5, <3>1, <4>2, PtrTypes
      <4> QED BY <1>4, <1>12, <4>2, <4>4, <4>5
    <3> QED BY <1>1, <3>1, <3>2, <3>3
  <2> QED BY <1>2, <1>12, <2>1, <2>2 DEF Reached
<1> QED BY <1>14, <1>15 DEF Reaches

-----------------------------------------------------------------------------
(* The loop of fs_write *)

\* The bytes a round writes.
RoundBytes(offset, count, done) == Min({Cells - ((offset + done) % Cells), count - done})

RoundInode(v, i, b) == [v EXCEPT !.direct_blocks[i] = b]

\* A round changes nothing, writes to a block the file has, or to a fresh one.
RoundInPlace(s, r, id, offset, count, payload, i, n, b) ==
    /\ s.done < count /\ i = (offset + s.done) \div Cells /\ ~(i >= Direct)
    /\ n = RoundBytes(offset, count, s.done)
    /\ b = s.inode.direct_blocks[i] /\ b # 0
    /\ r.bmap = s.bmap /\ r.inode = RoundInode(s.inode, i, b) /\ r.done = s.done + n
    /\ r.writes = (s.writes \o <<>>) \o <<DataBlock(b, Bytes(b, offset + s.done, n, payload))>>

RoundFresh(s, r, id, offset, count, payload, i, n, b) ==
    /\ s.done < count /\ i = (offset + s.done) \div Cells /\ ~(i >= Direct)
    /\ n = RoundBytes(offset, count, s.done)
    /\ s.inode.direct_blocks[i] = 0 /\ b = allocate_block(s.bmap) /\ b # 0
    /\ r.bmap = s.bmap \cup {b - 1} /\ r.inode = RoundInode(s.inode, i, b) /\ r.done = s.done + n
    /\ r.writes = (s.writes \o <<BlockBitmap(r.bmap), InodeBlock(id, r.inode)>>)
                    \o <<DataBlock(b, Bytes(b, offset + s.done, n, payload))>>

LEMMA RoundCases ==
    ASSUME NEW s, s.done \in Nat, NEW id, NEW offset \in Nat, NEW count \in Nat,
           NEW payload, NEW r, r = WriteRound(s, id, offset, count, payload)
    PROVE  \/ r = s
           \/ \E i, n, b : RoundInPlace(s, r, id, offset, count, payload, i, n, b)
           \/ \E i, n, b : RoundFresh(s, r, id, offset, count, payload, i, n, b)
<1> DEFINE p     == offset + s.done
           i     == p \div Cells
           fresh == s.inode.direct_blocks[i] = 0
           b     == IF fresh THEN allocate_block(s.bmap) ELSE s.inode.direct_blocks[i]
           n     == RoundBytes(offset, count, s.done)
           marks == IF fresh THEN s.bmap \cup {b - 1} ELSE s.bmap
           inode == RoundInode(s.inode, i, b)
           data  == DataBlock(b, Bytes(b, p, n, payload))
           ws    == (s.writes \o (IF fresh THEN <<BlockBitmap(marks), InodeBlock(id, inode)>> ELSE <<>>))
                      \o <<data>>
           next  == [bmap |-> marks, inode |-> inode, done |-> s.done + n, writes |-> ws]
<1>1. r = IF s.done >= count \/ i >= Direct \/ b = 0 THEN s ELSE next
  BY DEF WriteRound, RoundBytes, RoundInode, Bytes, NewCells
<1>2. next.bmap = marks /\ next.inode = inode /\ next.done = s.done + n /\ next.writes = ws
  <2> HIDE DEF marks, inode, n, data, ws
  <2> QED OBVIOUS
<1> HIDE DEF marks, inode, n, data, ws, i, b, fresh, next
<1>3. CASE s.done < count /\ ~(i >= Direct) /\ b # 0 /\ r = next
  <2>1. CASE fresh
    <3>1. RoundFresh(s, r, id, offset, count, payload, i, n, b)
      <4>1. b = allocate_block(s.bmap) /\ s.inode.direct_blocks[i] = 0
        BY <2>1 DEF b, fresh
      <4>2. marks = s.bmap \cup {b - 1}
        BY <2>1 DEF marks
      <4>3. ws = (s.writes \o <<BlockBitmap(marks), InodeBlock(id, inode)>>) \o <<data>>
        BY <2>1 DEF ws
      <4>4. i = (offset + s.done) \div Cells /\ n = RoundBytes(offset, count, s.done)
        BY DEF i, n
      <4>5. inode = RoundInode(s.inode, i, b) /\ data = DataBlock(b, Bytes(b, offset + s.done, n, payload))
        BY DEF inode, data
      <4> QED BY ONLY <1>2, <1>3, <4>1, <4>2, <4>3, <4>4, <4>5 DEF RoundFresh
    <3> QED BY <3>1
  <2>2. CASE ~fresh
    <3>1. RoundInPlace(s, r, id, offset, count, payload, i, n, b)
      BY <1>2, <1>3, <2>2 DEF RoundInPlace, fresh, i, b, n, marks, inode, data, ws
    <3> QED BY <3>1
  <2> QED BY <2>1, <2>2
<1>4. r = s \/ (~(s.done >= count) /\ ~(i >= Direct) /\ b # 0 /\ r = next)
  BY <1>1, Zenon
<1>5. ~(s.done >= count) => s.done < count
  OBVIOUS
<1> QED BY <1>3, <1>4, <1>5

LEMMA RoundLength ==
    ASSUME NEW offset \in Nat, NEW count \in Nat, NEW done \in Nat, done < count,
           NEW n, n = RoundBytes(offset, count, done)
    PROVE  /\ n \in Nat /\ n >= 1 /\ n <= Cells - ((offset + done) % Cells) /\ done + n <= count
           /\ n = Cells - ((offset + done) % Cells) \/ done + n = count
<1>1. PICK r \in Nat : r = (offset + done) % Cells /\ r < Cells
  BY SplitPosition
<1> DEFINE S == {Cells - r, count - done}
<1>2. S \in SUBSET Nat /\ S # {} /\ Cells - r >= 1 /\ count - done >= 1
  BY <1>1, Consts
<1>3. n = Min(S)
  BY <1>1 DEF RoundBytes
<1>4. S = {Cells - r, count - done}
  OBVIOUS
<1> HIDE DEF S
<1>5. n \in S /\ \A y \in S : n <= y
  BY <1>2, <1>3, MinOf
<1>6. n \in Nat /\ n >= 1 /\ n <= Cells - r /\ n <= count - done /\ (n = Cells - r \/ n = count - done)
  BY <1>2, <1>4, <1>5
<1>7. done + n <= count /\ (n = count - done => done + n = count)
  BY <1>6
<1> QED BY <1>1, <1>6, <1>7

LEMMA RoundEnd ==
    ASSUME NEW p \in Nat, NEW n \in Nat, n >= 1, n <= Cells - (p % Cells), p \div Cells < Direct
    PROVE  /\ p \div Cells \in Blocks /\ p + n <= Direct * Cells
           /\ n = Cells - (p % Cells) => (p + n) % Cells = 0
<1>1. PICK i \in Nat, r \in Nat : i = p \div Cells /\ r = p % Cells /\ r < Cells /\ p = i * Cells + r
  BY SplitPosition
<1>2. i \in Blocks /\ i + 1 <= Direct
  BY <1>1, Consts DEF Blocks
<1>3. (i + 1) * Cells <= Direct * Cells /\ (i + 1) * Cells = i * Cells + Cells
  BY <1>2, ProductGrows, Consts
<1>4. PICK y \in Nat, z \in Nat : y = i * Cells /\ z = Direct * Cells
  BY Consts
<1>5. p + n <= Direct * Cells
  BY <1>1, <1>3, <1>4, Consts
<1>6. ASSUME n = Cells - (p % Cells) PROVE (p + n) % Cells = 0
  <2>1. p + n = (i + 1) * Cells + 0
    BY <1>1, <1>3, <1>4, <1>6, Consts
  <2>2. 0 < Cells /\ 0 \in Nat /\ i + 1 \in Nat
    BY Consts
  <2> QED BY ONLY <2>1, <2>2, JoinPosition
<1> QED BY <1>1, <1>2, <1>5, <1>6

LEMMA DoneGrows ==
    ASSUME NEW s, NEW id, NEW offset \in Nat, NEW count \in Nat, NEW payload, s.done \in 0..count,
           NEW r, r = WriteRound(s, id, offset, count, payload)
    PROVE  r.done \in 0..count /\ s.done <= r.done
<1>0. s.done \in Nat
  OBVIOUS
<1>1. ASSUME NEW n, s.done < count, n = RoundBytes(offset, count, s.done), r.done = s.done + n
      PROVE  r.done \in 0..count /\ s.done <= r.done
  <2>1. n \in Nat /\ s.done + n <= count
    BY ONLY <1>0, <1>1, offset \in Nat, count \in Nat, RoundLength
  <2> QED BY <1>0, <1>1, <2>1
<1>2. CASE r = s
  BY <1>2
<1>3. CASE \E i, n, b : RoundInPlace(s, r, id, offset, count, payload, i, n, b)
  BY <1>1, <1>3 DEF RoundInPlace
<1>4. CASE \E i, n, b : RoundFresh(s, r, id, offset, count, payload, i, n, b)
  BY <1>1, <1>4 DEF RoundFresh
<1> QED BY <1>0, <1>2, <1>3, <1>4, RoundCases

Progress(U, c, x, id, offset, count, payload, s) ==
    /\ s.done \in 0..count
    /\ s.done = 0 \/ (offset + s.done) % Cells = 0 \/ s.done = count
    /\ s.done = 0 \/ offset + s.done <= Direct * Cells
    /\ Reaches(U, c, x, id, offset, payload, s.writes, s.bmap, s.inode, s.done)

LEMMA ProgressNext ==
    ASSUME NEW U, NEW c, NEW x, NEW id, NEW offset, NEW count \in Nat, NEW payload, NEW s, NEW r,
           WriteContext(U, c, x, id, offset, payload),
           Progress(U, c, x, id, offset, count, payload, s),
           r = WriteRound(s, id, offset, count, payload),
           \A q \in Positions : offset <= q /\ q < offset + r.done => c[id][q] \in {Zero, payload}
    PROVE  Progress(U, c, x, id, offset, count, payload, r)
<1>0. offset \in Nat /\ s.done \in Nat /\ s.done \in 0..count
  BY DEF WriteContext, Progress
<1>1. CASE r = s
  BY <1>1
\* The block and inode are in place; the data are next.
<1>2. ASSUME NEW i, NEW n, NEW b, NEW ws, NEW w, s.done < count, i = (offset + s.done) \div Cells,
             ~(i >= Direct), n = RoundBytes(offset, count, s.done), r.done = s.done + n,
             b = r.inode.direct_blocks[i], b # 0,
             Reaches(U, c, x, id, offset, payload, ws, r.bmap, r.inode, s.done),
             w = DataBlock(b, Bytes(b, offset + s.done, n, payload)), r.writes = ws \o <<w>>
      PROVE  Progress(U, c, x, id, offset, count, payload, r)
  <2>1. /\ n \in Nat /\ n >= 1 /\ n <= Cells - ((offset + s.done) % Cells) /\ s.done + n <= count
        /\ n = Cells - ((offset + s.done) % Cells) \/ s.done + n = count
    <3>1. s.done < count /\ n = RoundBytes(offset, count, s.done) /\ count \in Nat
      BY <1>2
    <3>2. PICK g \in Nat : g = s.done
      BY <1>0
    <3>3. offset \in Nat /\ count \in Nat /\ g < count /\ n = RoundBytes(offset, count, g)
      BY <1>0, <3>1, <3>2
    <3>4. /\ n \in Nat /\ n >= 1 /\ n <= Cells - ((offset + g) % Cells) /\ g + n <= count
          /\ n = Cells - ((offset + g) % Cells) \/ g + n = count
      BY ONLY <3>3, g \in Nat, RoundLength
    <3> QED BY ONLY <3>2, <3>4, Zenon
  <2>2. PICK p \in Nat : p = offset + s.done
    BY <1>0
  <2>3. i \in Nat /\ i < Direct /\ p \div Cells < Direct
    <3>1. i \in Nat
      BY <1>2, <2>2, SplitPosition
    <3> QED BY <1>2, <2>2, <3>1, Consts
  <2>4. /\ i \in Blocks /\ p + n <= Direct * Cells
        /\ n = Cells - (p % Cells) => (p + n) % Cells = 0
    BY <1>2, <2>1, <2>2, <2>3, RoundEnd
  <2>5. offset + r.done = p + n /\ r.done \in 0..count /\ r.done # 0
    BY <1>0, <1>2, <2>1, <2>2
  <2>6. s.done = 0 \/ (offset + s.done) % Cells = 0
    BY <1>0, <1>2 DEF Progress
  <2>7. DataWrites(U, c, x, id, offset, payload, ws, r.bmap, r.inode, s.done, i, n, w)
    <3>1. \A q \in Positions : offset <= q /\ q < offset + (s.done + n) => c[id][q] \in {Zero, payload}
      BY <1>2
    <3> QED BY <1>0, <1>2, <2>1, <2>4, <2>6, <3>1 DEF DataWrites
  <2>8. Reaches(U, c, x, id, offset, payload, Append(ws, w), r.bmap, r.inode, s.done + n)
    BY ONLY <2>7, WriteLands
  <2>9. r.writes = Append(ws, w)
    <3>1. ws \in Seq(BlockWrite)
      BY <1>2 DEF Reaches
    <3>2. ws \o <<w>> = Append(ws, w)
      BY <3>1
    <3> QED BY <1>2, <3>2
  <2>10. r.done = 0 \/ (offset + r.done) % Cells = 0 \/ r.done = count
    BY <1>2, <2>1, <2>2, <2>4, <2>5
  <2> QED BY <1>2, <2>4, <2>5, <2>8, <2>9, <2>10 DEF Progress
<1>3. CASE \E i, n, b : RoundInPlace(s, r, id, offset, count, payload, i, n, b)
  <2>1. PICK i, n, b : RoundInPlace(s, r, id, offset, count, payload, i, n, b)
    BY <1>3
  <2>2. s.inode \in Inode
    BY DEF Progress, Reaches, Reached
  <2>3. r.inode = s.inode
    <3>1. s.inode.direct_blocks \in [Blocks -> 0..TotalBlocks]
      BY <2>2, InodeTypes
    <3>2. [s.inode.direct_blocks EXCEPT ![i] = b] = s.inode.direct_blocks
      BY <2>1, <3>1 DEF RoundInPlace
    <3>3. RoundInode(s.inode, i, b) = [s.inode EXCEPT !.direct_blocks = [s.inode.direct_blocks EXCEPT ![i] = b]]
      BY DEF RoundInode
    <3>4. [s.inode EXCEPT !.direct_blocks = s.inode.direct_blocks] = s.inode
      BY <2>2 DEF Inode
    <3> QED BY <2>1, <3>2, <3>3, <3>4 DEF RoundInPlace
  <2>4. s.writes \in Seq(BlockWrite) /\ s.writes \o <<>> = s.writes
    <3>1. s.writes \in Seq(BlockWrite)
      BY DEF Progress, Reaches
    <3> QED BY <3>1, ConcatEmptySeq
  <2>5. Reaches(U, c, x, id, offset, payload, s.writes, r.bmap, r.inode, s.done)
    BY <2>1, <2>3 DEF Progress, RoundInPlace
  <2>6. r.writes = s.writes \o <<DataBlock(b, Bytes(b, offset + s.done, n, payload))>>
    BY <2>1, <2>4 DEF RoundInPlace
  <2>7. /\ s.done < count /\ i = (offset + s.done) \div Cells
        /\ ~(i >= Direct) /\ n = RoundBytes(offset, count, s.done) /\ r.done = s.done + n
        /\ b = r.inode.direct_blocks[i] /\ b # 0
    BY <2>1, <2>3 DEF RoundInPlace
  <2>8. PICK w : w = DataBlock(b, Bytes(b, offset + s.done, n, payload))
    OBVIOUS
  <2>9. r.writes = s.writes \o <<w>>
    BY <2>6, <2>8
  <2> QED BY ONLY <1>2, <2>5, <2>7, <2>8, <2>9
<1>4. CASE \E i, n, b : RoundFresh(s, r, id, offset, count, payload, i, n, b)
  <2>1. PICK i, n, b : RoundFresh(s, r, id, offset, count, payload, i, n, b)
    BY <1>4
  <2>2. PICK a : a = b - 1
    OBVIOUS
  <2>3. a \in Data \ s.bmap /\ b = a + 1 /\ a \in Nat
    BY <2>1, <2>2, BlockAllocated, Consts DEF Data, RoundFresh
  <2>4. s.inode \in Inode
    BY DEF Progress, Reaches, Reached
  <2>5. PICK p \in Nat : p = offset + s.done
    BY <1>0
  <2>6. i \in Blocks
    <3>1. i \in Nat
      BY <2>1, <2>5, SplitPosition DEF RoundFresh
    <3> QED BY <2>1, <3>1, Consts DEF Blocks, RoundFresh
  <2>7. PICK t, u, w : t = BlockBitmap(r.bmap) /\ u = InodeBlock(id, r.inode)
                       /\ w = DataBlock(b, Bytes(b, offset + s.done, n, payload))
    OBVIOUS
  <2>8. r.bmap = s.bmap \cup {a} /\ r.inode = [s.inode EXCEPT !.direct_blocks[i] = a + 1]
    BY <2>1, <2>2, <2>3 DEF RoundFresh, RoundInode
  <2>9. GrowWrites(U, c, x, id, offset, payload, s.writes, s.bmap, s.inode, s.done, i, a, t, u)
    BY <1>0, <2>1, <2>3, <2>6, <2>7, <2>8 DEF GrowWrites, Progress, RoundFresh
  <2>10. Reaches(U, c, x, id, offset, payload, s.writes \o <<t, u>>, s.bmap \cup {a},
                 [s.inode EXCEPT !.direct_blocks[i] = a + 1], s.done)
    BY ONLY <2>9, WriteGrows
  <2>11. Reaches(U, c, x, id, offset, payload, s.writes \o <<t, u>>, r.bmap, r.inode, s.done)
    BY <2>8, <2>10
  <2>12. b = r.inode.direct_blocks[i] /\ b # 0
    <3>1. s.inode.direct_blocks \in [Blocks -> 0..TotalBlocks]
      BY <2>4, InodeTypes
    <3>2. r.inode.direct_blocks = [s.inode.direct_blocks EXCEPT ![i] = a + 1]
      BY <2>4, <2>8 DEF Inode
    <3> QED BY <2>1, <2>3, <2>6, <3>1, <3>2 DEF RoundFresh
  <2>13. /\ s.done < count /\ i = (offset + s.done) \div Cells
         /\ ~(i >= Direct) /\ n = RoundBytes(offset, count, s.done) /\ r.done = s.done + n
    BY <2>1 DEF RoundFresh
  <2>14. r.writes = (s.writes \o <<t, u>>) \o <<w>>
    BY <2>1, <2>7 DEF RoundFresh
  <2> QED BY ONLY <1>2, <2>7, <2>11, <2>12, <2>13, <2>14
<1> QED BY <1>0, <1>1, <1>3, <1>4, RoundCases

LoopFirst(id) == [bmap |-> bmap, inode |-> disk.inode[id], done |-> 0, writes |-> <<>>]

LoopUnfolded(id, offset, count, payload, f, k) ==
    IF k = 0 THEN LoopFirst(id) ELSE WriteRound(f[k - 1], id, offset, count, payload)

LoopSolves(id, offset, count, payload, f, m) ==
    f = [k \in 0..m |-> LoopUnfolded(id, offset, count, payload, f, k)]

LEMMA LoopExists ==
    ASSUME NEW id, NEW offset, NEW count, NEW payload
    PROVE  \A m \in Nat : \E f : LoopSolves(id, offset, count, payload, f, m)
<1> DEFINE Step(f, k) == LoopUnfolded(id, offset, count, payload, f, k)
           Solves(f, m) == f = [k \in 0..m |-> Step(f, k)]
           T == {m \in Nat : \E f : Solves(f, m)}
<1>1. 0 \in T
  <2> DEFINE f == [k \in 0..0 |-> LoopFirst(id)]
  <2>1. \A k \in 0..0 : Step(f, k) = LoopFirst(id)
    BY DEF LoopUnfolded
  <2> HIDE DEF f, Step
  <2>2. Solves(f, 0)
    BY <2>1 DEF f
  <2> QED BY <2>2
<1>2. ASSUME NEW m \in Nat, m \in T PROVE m + 1 \in T
  <2>1. PICK f : Solves(f, m)
    BY <1>2
  <2> DEFINE g == [k \in 0..(m + 1) |-> IF k = m + 1 THEN Step(f, m + 1) ELSE f[k]]
  <2>2. ASSUME NEW k \in 0..(m + 1) PROVE Step(g, k) = Step(f, k)
    <3>1. CASE k = 0
      BY <3>1 DEF LoopUnfolded
    <3>2. CASE k # 0
      <4>1. k - 1 \in 0..(m + 1) /\ k - 1 # m + 1
        BY <3>2
      <4>2. g[k - 1] = f[k - 1]
        BY <4>1
      <4> HIDE DEF g
      <4> QED BY <3>2, <4>2 DEF LoopUnfolded
    <3> QED BY <3>1, <3>2
  <2>0. \A k \in 0..m : f[k] = Step(f, k)
    BY <2>1
  <2> HIDE DEF Step
  <2>3. ASSUME NEW k \in 0..(m + 1) PROVE g[k] = Step(f, k)
    <3>1. CASE k = m + 1
      BY <3>1
    <3>2. CASE k # m + 1
      <4>1. k \in 0..m
        BY <3>2
      <4>2. f[k] = Step(f, k)
        BY <2>0, <4>1
      <4> QED BY <3>2, <4>2
    <3> QED BY <3>1, <3>2
  <2>4. g = [k \in 0..(m + 1) |-> Step(f, k)]
    BY <2>3
  <2>5. Solves(g, m + 1)
    <3> HIDE DEF g
    <3> QED BY <2>2, <2>4
  <2> HIDE DEF g, Solves
  <2> QED BY <2>5
<1> HIDE DEF T
<1>3. \A m \in Nat : m \in T
  BY <1>1, <1>2, SetInduction
<1> QED BY <1>3 DEF T, LoopSolves

\* The states the loop goes through.
LEMMA LoopStates ==
    ASSUME NEW id, NEW offset, NEW count \in Nat, NEW payload
    PROVE  \E f : /\ f[0] = LoopFirst(id) /\ WriteLoop(id, offset, count, payload) = f[count]
                  /\ \A k \in Nat : k < count => f[k + 1] = WriteRound(f[k], id, offset, count, payload)
<1> DEFINE f == CHOOSE f : f = [k \in 0..count |-> LoopUnfolded(id, offset, count, payload, f, k)]
<1>0. \E g : LoopSolves(id, offset, count, payload, g, count)
  BY LoopExists
<1>1. \E g : g = [k \in 0..count |-> LoopUnfolded(id, offset, count, payload, g, k)]
  BY <1>0 DEF LoopSolves
<1>2. f = [k \in 0..count |-> LoopUnfolded(id, offset, count, payload, f, k)]
  BY <1>1
<1>3. WriteLoop(id, offset, count, payload) = f[count]
  BY DEF WriteLoop, LoopUnfolded, LoopFirst
<1> HIDE DEF f
<1>4. \A k \in 0..count : f[k] = LoopUnfolded(id, offset, count, payload, f, k)
  BY <1>2
<1>5. f[0] = LoopFirst(id)
  BY <1>4 DEF LoopUnfolded
<1>6. ASSUME NEW k \in Nat, k < count
      PROVE  f[k + 1] = WriteRound(f[k], id, offset, count, payload)
  <2>1. k + 1 \in 0..count /\ k + 1 # 0 /\ k + 1 - 1 = k
    BY <1>6
  <2>2. f[k + 1] = WriteRound(f[k + 1 - 1], id, offset, count, payload)
    BY <1>4, <2>1 DEF LoopUnfolded
  <2> QED BY <2>1, <2>2
<1> QED BY <1>3, <1>5, <1>6

LEMMA LoopDone ==
    ASSUME NEW id, NEW offset \in Nat, NEW count \in Nat, NEW payload, NEW end,
           end = WriteLoop(id, offset, count, payload)
    PROVE  end.done \in 0..count
<1>1. PICK f : /\ f[0] = LoopFirst(id) /\ end = f[count]
               /\ \A k \in Nat : k < count => f[k + 1] = WriteRound(f[k], id, offset, count, payload)
  BY LoopStates
<1> DEFINE T == {k \in Nat : k <= count => f[k].done \in 0..count}
<1>2. 0 \in T
  BY <1>1 DEF LoopFirst
<1>3. ASSUME NEW k \in Nat, k \in T PROVE k + 1 \in T
  <2> SUFFICES ASSUME k + 1 <= count PROVE f[k + 1].done \in 0..count
    OBVIOUS
  <2>1. f[k].done \in 0..count /\ f[k + 1] = WriteRound(f[k], id, offset, count, payload)
    BY <1>1, <1>3
  <2> QED BY ONLY <2>1, offset \in Nat, count \in Nat, DoneGrows
<1> HIDE DEF T
<1>4. \A k \in Nat : k \in T
  BY <1>2, <1>3, SetInduction
<1>5. count \in T /\ count <= count
  BY <1>4
<1> QED BY <1>1, <1>5 DEF T

\* The claims hold for all the loop will have written when it ends.
LEMMA LoopProgress ==
    ASSUME NEW U, NEW c, NEW x, NEW id, NEW offset, NEW count \in Nat, NEW payload, NEW end,
           WriteContext(U, c, x, id, offset, payload), bmap = disk.bmap,
           end = WriteLoop(id, offset, count, payload),
           \A q \in Positions : offset <= q /\ q < offset + end.done => c[id][q] \in {Zero, payload}
    PROVE  Progress(U, c, x, id, offset, count, payload, end)
<1>0. offset \in Nat
  BY DEF WriteContext
<1>1. PICK f : /\ f[0] = LoopFirst(id) /\ end = f[count]
               /\ \A k \in Nat : k < count => f[k + 1] = WriteRound(f[k], id, offset, count, payload)
  BY LoopStates
<1>2. f[0].done = 0 /\ f[0].writes = <<>> /\ f[0].bmap = bmap /\ f[0].inode = disk.inode[id]
  BY <1>1 DEF LoopFirst
\* The count never goes down.
<1>3. \A k \in 0..count : f[k].done \in 0..count
  <2> DEFINE T == {k \in Nat : k <= count => f[k].done \in 0..count}
  <2>1. 0 \in T
    BY <1>2
  <2>2. ASSUME NEW k \in Nat, k \in T PROVE k + 1 \in T
    <3> SUFFICES ASSUME k + 1 <= count PROVE f[k + 1].done \in 0..count
      OBVIOUS
    <3>1. f[k].done \in 0..count /\ f[k + 1] = WriteRound(f[k], id, offset, count, payload)
      BY <1>1, <2>2
    <3> QED BY ONLY <1>0, <3>1, count \in Nat, DoneGrows
  <2> HIDE DEF T
  <2>3. \A k \in Nat : k \in T
    BY <2>1, <2>2, SetInduction
  <2> QED BY <2>3 DEF T
<1>4. \A k \in Nat : k < count => f[k].done <= f[k + 1].done
  <2> SUFFICES ASSUME NEW k \in Nat, k < count PROVE f[k].done <= f[k + 1].done
    OBVIOUS
  <2>1. f[k].done \in 0..count /\ f[k + 1] = WriteRound(f[k], id, offset, count, payload)
    BY <1>1, <1>3
  <2> QED BY ONLY <1>0, <2>1, count \in Nat, DoneGrows
<1>5. \A k \in 0..count : f[k].done <= end.done
  <2> DEFINE T == {j \in Nat : j <= count => f[count - j].done <= end.done}
  <2>0. \A k \in 0..count : f[k].done \in Nat
    BY <1>3
  <2>1. 0 \in T
    <3>1. count - 0 = count /\ end.done \in Nat
      BY <1>1, <2>0
    <3> QED BY <1>1, <3>1
  <2>2. ASSUME NEW j \in Nat, j \in T PROVE j + 1 \in T
    <3> SUFFICES ASSUME j + 1 <= count PROVE f[count - (j + 1)].done <= end.done
      OBVIOUS
    <3>1. PICK k \in Nat : k = count - (j + 1)
      OBVIOUS
    <3>2. k < count /\ k + 1 = count - j /\ k \in 0..count /\ k + 1 \in 0..count /\ count \in 0..count
      BY <3>1
    <3>3. f[k].done <= f[k + 1].done /\ f[k + 1].done <= end.done
      BY <1>4, <2>2, <3>2
    <3>4. f[k].done \in Nat /\ f[k + 1].done \in Nat /\ end.done \in Nat
      BY <1>1, <2>0, <3>2
    <3> QED BY ONLY <3>1, <3>3, <3>4
  <2>4. ASSUME NEW k \in 0..count PROVE f[k].done <= end.done
    <3> HIDE DEF T
    <3>1. \A j \in Nat : j \in T
      BY <2>1, <2>2, SetInduction
    <3>2. count - k \in Nat /\ count - (count - k) = k /\ count - k <= count
      OBVIOUS
    <3>3. f[count - (count - k)].done <= end.done
      BY <3>1, <3>2 DEF T
    <3> QED BY <3>2, <3>3
  <2> QED BY <2>4
<1>6. Progress(U, c, x, id, offset, count, payload, f[0])
  <2>1. /\ Sound(disk, U, c, x) /\ id \in U /\ U \subseteq Inodes /\ disk \in Disk
        /\ disk.inode \in [Inodes -> Inode] /\ disk.inode[id].type = "FILE"
    BY DEF WriteContext, Sound, InUse, Disk
  <2>2. Through(disk, <<>>, disk, U, c, x)
    BY <2>1, NoWrites
  <2>3. disk.inode = [disk.inode EXCEPT ![id] = disk.inode[id]] /\ disk.inode[id] \in Inode
    BY <2>1
  <2>4. \A q \in Positions : ~(offset <= q /\ q < offset + 0)
    BY <1>0, PositionIndices
  <2>5. Reached(disk, id, offset, payload, bmap, disk.inode[id], 0)
    BY <2>1, <2>3, <2>4 DEF Reached, Ptr
  <2>6. Reaches(U, c, x, id, offset, payload, <<>>, bmap, disk.inode[id], 0)
    BY <2>2, <2>5 DEF Reaches
  <2> QED BY <1>2, <2>6 DEF Progress
<1> DEFINE T == {k \in Nat : k <= count => Progress(U, c, x, id, offset, count, payload, f[k])}
<1>7. 0 \in T
  BY <1>6
<1>8. ASSUME NEW k \in Nat, k \in T PROVE k + 1 \in T
  <2> SUFFICES ASSUME k + 1 <= count PROVE Progress(U, c, x, id, offset, count, payload, f[k + 1])
    OBVIOUS
  <2>1. PICK s, r : s = f[k] /\ r = f[k + 1]
    OBVIOUS
  <2>2. r = WriteRound(s, id, offset, count, payload)
    BY <1>1, <2>1
  <2>3. Progress(U, c, x, id, offset, count, payload, s)
    BY <1>8, <2>1
  <2>4. r.done <= end.done /\ r.done \in Nat /\ end.done \in Nat
    BY <1>1, <1>3, <1>5, <2>1
  <2>5. ASSUME NEW q \in Positions, offset <= q, q < offset + r.done PROVE c[id][q] \in {Zero, payload}
    <3>1. q \in Nat
      BY PositionIndices
    <3>2. q < offset + end.done
      BY <1>0, <2>4, <2>5, <3>1
    <3> QED BY <2>5, <3>2
  <2>6. Progress(U, c, x, id, offset, count, payload, r)
    <3>1. WriteContext(U, c, x, id, offset, payload) /\ count \in Nat
      OBVIOUS
    <3> QED BY ONLY <2>2, <2>3, <2>5, <3>1, ProgressNext
  <2> QED BY <2>1, <2>6
<1> HIDE DEF T
<1>9. \A k \in Nat : k \in T
  BY <1>7, <1>8, SetInduction
<1>10. count \in T /\ count <= count
  BY <1>9
<1> QED BY <1>1, <1>10 DEF T

-----------------------------------------------------------------------------
(* fs_write *)

\* Disk e is d with more blocks and bytes in a file, and no directory changed.
Grown(d, e, U) ==
    /\ e.imap = d.imap
    /\ \A h \in U : /\ e.inode[h].type = d.inode[h].type
                    /\ e.inode[h].type = "DIR" => e.inode[h].size = d.inode[h].size
    /\ \A h \in U, l \in Blocks, m \in Indices :
          /\ Used(e, h, l, m) <=> Used(d, h, l, m)
          /\ Used(d, h, l, m) => At(e, h, l, m) = At(d, h, l, m)
    /\ \A h \in U, l \in Blocks : Ptr(d, h, l) # 0 => Ptr(e, h, l) = Ptr(d, h, l)
    /\ \A b \in e.bmap : b \in d.bmap \/ \E h \in U, l \in Blocks : Ptr(e, h, l) = b + 1

LEMMA TidyGrown ==
    ASSUME NEW d, NEW e, NEW U \in SUBSET Inodes, NEW c, NEW x, Sound(d, U, c, x), Tidy(d, U),
           Grown(d, e, U)
    PROVE  Tidy(e, U)
<1>1. ASSUME NEW b \in Data \ Reserved, b \in e.bmap
      PROVE  \E h \in U, l \in Blocks : Ptr(e, h, l) = b + 1
  <2>1. CASE b \in d.bmap
    <3>1. PICK h \in U, l \in Blocks : Ptr(d, h, l) = b + 1
      BY <2>1 DEF Tidy
    <3>2. b + 1 # 0
      BY Consts DEF Data
    <3> QED BY <3>1, <3>2 DEF Grown
  <2>2. CASE b \notin d.bmap
    BY <1>1, <2>2 DEF Grown
  <2> QED BY <2>1, <2>2
<1>2. ASSUME NEW S \in SUBSET Inodes, Root \in S, Closed(e, S) PROVE U \subseteq S
  <2> DEFINE T == S \cap U
  <2>1. Root \in T /\ T \in SUBSET Inodes
    BY <1>2 DEF Sound, InUse
  <2>2. Closed(d, T)
    <3> SUFFICES ASSUME NEW h \in T, NEW l \in Blocks, NEW m \in Indices, Used(d, h, l, m)
                 PROVE  At(d, h, l, m).id \in T
      BY DEF Closed
    <3>1. At(d, h, l, m).id \in U
      BY DEF Sound, Closed
    <3>2. Used(e, h, l, m) /\ At(e, h, l, m) = At(d, h, l, m)
      BY DEF Grown
    <3> QED BY <1>2, <3>1, <3>2 DEF Closed
  <2> HIDE DEF T
  <2>3. U \subseteq T
    BY <2>1, <2>2 DEF Tidy
  <2> QED BY <2>3 DEF T
<1>3. ASSUME NEW h \in U, e.inode[h].type = "DIR" PROVE e.inode[h].size = Cardinality(Slots2(e, h))
  <2>1. Slots2(e, h) = Slots2(d, h)
    BY DEF Slots2, Grown
  <2> QED BY <1>3, <2>1 DEF Grown, Tidy
<1> QED BY <1>1, <1>2, <1>3 DEF Tidy, Grown

\* Disk e at the end of fs_write, from disk d at the end of its loop.
WriteEnd(d, e, id, v, size) ==
    /\ e.imap = d.imap /\ e.bmap = d.bmap /\ e.data = d.data
    /\ \A h \in Inodes : h # id => e.inode[h] = d.inode[h]
    /\ e.inode[id].type = v.type /\ e.inode[id].direct_blocks = v.direct_blocks
    /\ \A p \in Nat : p < size => p < e.inode[id].size

LEMMA WriteGrown ==
    ASSUME NEW U, NEW c, NEW x, NEW id, NEW offset, NEW payload, NEW m, NEW v, NEW done, NEW size,
           NEW d, NEW e, WriteContext(U, c, x, id, offset, payload),
           Reached(d, id, offset, payload, m, v, done), WriteEnd(d, e, id, v, size),
           Sound(e, U, c, x)
    PROVE  Grown(disk, e, U)
<1>1. /\ Sound(disk, U, c, x) /\ id \in U /\ disk.inode[id].type = "FILE" /\ U \subseteq Inodes
      /\ disk \in Disk /\ disk.inode \in [Inodes -> Inode]
  BY DEF WriteContext, Sound, InUse, Disk
<1>2. \A h \in U : h # id => e.inode[h] = disk.inode[h]
  BY <1>1 DEF WriteEnd, Reached
<1>3. e.inode[id].type = "FILE" /\ \A l \in Blocks : Ptr(e, id, l) = v.direct_blocks[l]
  BY DEF WriteEnd, Reached, Ptr
<1>4. ASSUME NEW h \in U, NEW l \in Blocks, Ptr(disk, h, l) # 0 PROVE Ptr(e, h, l) = Ptr(disk, h, l)
  <2>1. CASE h = id
    BY <1>3, <1>4, <2>1 DEF Reached
  <2>2. CASE h # id
    BY <1>2, <2>2 DEF Ptr
  <2> QED BY <2>1, <2>2
<1>5. ASSUME NEW h \in U, h # id, NEW l \in Blocks, Ptr(disk, h, l) # 0
      PROVE  e.data[Ptr(disk, h, l)] = disk.data[Ptr(disk, h, l)]
  <2>1. PICK b : b = Ptr(disk, h, l)
    OBVIOUS
  <2>2. b \in DeviceBlocks
    <3>1. h \in Inodes /\ \A i \in Inodes : Placed(disk.inode[i])
      BY <1>1 DEF Sound
    <3> QED BY <1>1, <1>5, <2>1, <3>1, PtrTypes
  <2>3. ASSUME NEW n \in Blocks, v.direct_blocks[n] = b PROVE FALSE
    <3>1. Ptr(e, id, n) = b /\ Ptr(e, h, l) = b /\ b # 0
      BY <1>3, <1>4, <1>5, <2>1, <2>3
    <3> QED BY <1>1, <1>5, <3>1 DEF Sound, Apart
  <2>4. d.data[b] = disk.data[b]
    BY <2>2, <2>3 DEF Reached
  <2> QED BY <2>1, <2>4 DEF WriteEnd
<1>6. ASSUME NEW h \in U, NEW l \in Blocks, NEW n \in Indices
      PROVE  /\ Used(e, h, l, n) <=> Used(disk, h, l, n)
             /\ Used(disk, h, l, n) => At(e, h, l, n) = At(disk, h, l, n)
  <2>1. CASE h = id
    BY <1>1, <1>3, <2>1 DEF Used
  <2>2. CASE h # id
    <3>1. e.inode[h] = disk.inode[h] /\ Ptr(e, h, l) = Ptr(disk, h, l)
      BY <1>2, <2>2 DEF Ptr
    <3>2. Ptr(disk, h, l) # 0 => e.data[Ptr(disk, h, l)] = disk.data[Ptr(disk, h, l)]
      BY <1>5, <2>2
    <3> QED BY <3>1, <3>2 DEF Used, At
  <2> QED BY <2>1, <2>2
<1>7. ASSUME NEW a \in e.bmap PROVE a \in disk.bmap \/ \E h \in U, l \in Blocks : Ptr(e, h, l) = a + 1
  BY <1>1, <1>3 DEF WriteEnd, Reached
<1>8. \A h \in U : /\ e.inode[h].type = disk.inode[h].type
                   /\ e.inode[h].type = "DIR" => e.inode[h].size = disk.inode[h].size
  BY <1>1, <1>2, <1>3
<1>9. e.imap = disk.imap
  BY DEF WriteEnd, Reached
<1> QED BY <1>4, <1>6, <1>7, <1>8, <1>9 DEF Grown

LEMMA FsWriteStep ==
    ASSUME FsInv, NEW id \in Inodes, NEW offset \in Offsets, NEW count \in Counts,
           NEW payload \in Payloads, fs_write(id, offset, count, payload)
    PROVE  FsInv'
<1>0. PICK end : end = WriteLoop(id, offset, count, payload)
  OBVIOUS
<1>1. PICK size : size = offset + end.done
  OBVIOUS
<1> DEFINE v2   == [end.inode EXCEPT !.size = size]
           last == IF size > end.inode.size THEN <<InodeBlock(id, v2)>> ELSE <<>>
           made == [content EXCEPT ![id] = [p \in Positions |->
                      IF p \in offset..(size - 1) THEN payload ELSE content[id][p]]]
<1>2. /\ Idle /\ id \in held /\ Valid(id) /\ disk.inode[id].type = "FILE"
      /\ bmap' = end.bmap /\ Start(end.writes \o last, made)
      /\ imap' = imap /\ held' = held /\ lost' = lost /\ blind' = blind
  BY <1>0, <1>1 DEF fs_write
<1>3. TypeInv /\ PhaseInv /\ up /\ disk.magic /\ total = TotalInodes /\ total # 0
  BY <1>2, CallContext
<1>4. PICK U : Ready(U)
  BY <1>2, CallContext
<1>5. /\ Sound(disk, U, content, blind) /\ U \in SUBSET Inodes /\ id \in U /\ held \subseteq U
      /\ imap = disk.imap /\ bmap = disk.bmap /\ (lost \/ Tidy(disk, U))
  BY <1>2, <1>4 DEF Ready
<1>6. offset \in Nat /\ offset <= Word - 1 /\ count \in Nat /\ Direct * Cells \in Nat
      /\ Direct * Cells < Word
  BY FsAssumption, Consts
<1>7. content \in Claims /\ made \in Claims
  <2>1. content \in Claims
    BY <1>3 DEF TypeInv
  <2>2. [p \in Positions |-> IF p \in offset..(size - 1) THEN payload ELSE content[id][p]]
            \in [Positions -> Payloads \cup {Zero}]
    BY <2>1 DEF Claims
  <2> QED BY <2>1, <2>2 DEF Claims
<1>8. \A i \in Inodes, p \in Positions :
         made[i][p] = IF i = id /\ p \in offset..(size - 1) THEN payload ELSE content[i][p]
  BY <1>7 DEF Claims
<1>9. PICK c, to : c = content' /\ to = made
  OBVIOUS
<1> HIDE DEF made
<1>10. /\ writes' = end.writes \o last /\ promise' = to /\ c \in Claims /\ to \in Claims
       /\ disk' = disk /\ up' = up /\ total' = total /\ crashes' = crashes
       /\ \A i \in Inodes, p \in Positions :
             c[i][p] = IF to[i][p] = content[i][p] THEN to[i][p] ELSE Zero
  <2>1. PICK w : w = end.writes \o last
    OBVIOUS
  <2>2. Start(w, to) /\ to \in Claims /\ content \in Claims
    BY <1>2, <1>7, <1>9, <2>1
  <2>3. /\ writes' = w /\ promise' = to /\ content' \in Claims
        /\ disk' = disk /\ up' = up /\ total' = total /\ crashes' = crashes
        /\ \A i \in Inodes, p \in Positions :
              content'[i][p] = IF to[i][p] = content[i][p] THEN to[i][p] ELSE Zero
    BY ONLY <2>2, StartClaims
  <2> HIDE DEF last
  <2> QED BY <1>9, <2>1, <2>2, <2>3
<1>11. \A i \in Inodes, p \in Positions :
          to[i][p] = IF i = id /\ p \in offset..(size - 1) THEN payload ELSE content[i][p]
  BY <1>8, <1>9
<1>12. Sound(disk, U, c, blind)
  <2>1. \A i \in U, p \in Positions : c[i][p] \in {Zero, content[i][p]}
    BY <1>5, <1>10
  <2> QED BY <1>5, <2>1, FewerClaims
<1>13. WriteContext(U, c, blind, id, offset, payload)
  BY <1>2, <1>5, <1>6, <1>12 DEF WriteContext
<1>14. end.done \in 0..count /\ end.done \in Nat /\ size \in Nat
  <2>1. end.done \in 0..count
    BY ONLY <1>0, <1>6, LoopDone
  <2> QED BY <1>1, <1>6, <2>1
<1>15. Progress(U, c, blind, id, offset, count, payload, end)
  <2>1. ASSUME NEW q \in Positions, offset <= q, q < offset + end.done PROVE c[id][q] \in {Zero, payload}
    <3>1. q \in Nat
      BY PositionIndices
    <3>2. q \in offset..(size - 1)
      BY <1>1, <1>6, <1>14, <2>1, <3>1
    <3> QED BY <1>10, <1>11, <3>2
  <2> QED BY ONLY <1>0, <1>5, <1>6, <1>13, <2>1, LoopProgress
<1>16. end.writes \in Seq(BlockWrite) /\ (end.done = 0 \/ offset + end.done <= Direct * Cells)
  BY <1>15 DEF Progress, Reaches
<1>17. PICK d : /\ Through(disk, end.writes, d, U, c, blind)
                /\ Reached(d, id, offset, payload, end.bmap, end.inode, end.done)
  BY <1>15 DEF Progress, Reaches
<1>18. Sound(d, U, c, blind)
  BY ONLY <1>16, <1>17, Ends
<1>19. /\ d.imap = disk.imap /\ d.bmap = end.bmap /\ d.inode = [disk.inode EXCEPT ![id] = end.inode]
       /\ end.inode \in Inode /\ end.inode.type = "FILE"
  BY <1>17 DEF Reached
<1>20. disk.inode \in [Inodes -> Inode] /\ d.inode[id] = end.inode /\ d \in Disk
  <2>1. disk.inode \in [Inodes -> Inode] /\ d \in Disk
    BY <1>5, <1>18 DEF Sound, Disk
  <2> QED BY <1>19, <2>1
\* What the last disk is to be, whether the size has changed or not.
<1>21. ASSUME NEW e, Through(disk, writes', e, U, c, blind), writes' \in Seq(BlockWrite),
              WriteEnd(d, e, id, end.inode, size)
       PROVE  FsInv'
  <2>1. Sound(e, U, c, blind)
    BY ONLY <1>21, Ends
  <2>2. Grown(disk, e, U)
    BY ONLY <1>13, <1>17, <1>21, <2>1, WriteGrown
  <2>3. lost \/ Tidy(e, U)
    BY ONLY <1>5, <2>2, TidyGrown
  <2>4. ASSUME NEW i \in U, NEW p \in Positions, to[i][p] # Zero PROVE Claim(e, i, p, to[i][p])
    <3>1. p \in Nat /\ i \in Inodes
      BY <1>5, PositionIndices
    <3>2. CASE i = id /\ p \in offset..(size - 1)
      <4>1. to[i][p] = payload /\ offset <= p /\ p < size /\ p < offset + end.done
        BY <1>1, <1>6, <1>11, <1>14, <3>1, <3>2
      <4>2. /\ end.inode.direct_blocks[p \div Cells] # 0
            /\ d.data[end.inode.direct_blocks[p \div Cells]][p % Cells] = Byte(payload)
        BY <1>17, <4>1 DEF Reached
      <4>3. /\ e.inode[id].type = "FILE" /\ p < e.inode[id].size
            /\ e.inode[id].direct_blocks = end.inode.direct_blocks /\ e.data = d.data
        BY <1>19, <1>21, <3>1, <4>1 DEF WriteEnd
      <4> QED BY <3>2, <4>1, <4>2, <4>3 DEF Claim, Ptr, At
    <3>3. CASE ~(i = id /\ p \in offset..(size - 1))
      <4>1. to[i][p] = content[i][p] /\ c[i][p] = to[i][p]
        BY <1>10, <1>11, <3>1, <3>3
      <4>2. Kept(e, U, c)
        BY <2>1 DEF Sound
      <4> QED BY <2>4, <4>1, <4>2, KeptClaims
    <3> QED BY <3>2, <3>3
  <2>5. Kept(e, U, to)
    BY <2>4, KeptClaims
  <2>6. e.imap = imap /\ e.bmap = bmap'
    BY <1>2, <1>5, <1>19, <1>21 DEF WriteEnd
  <2> HIDE DEF last
  <2>7. LeadsTo(e, U)'
    BY <1>2, <1>5, <1>9, <1>10, <1>21, <2>3, <2>5, <2>6 DEF LeadsTo
  <2>8. PhaseInv'
    BY <1>3, <1>10 DEF PhaseInv
  <2>9. TypeInv'
    BY <1>2, <1>3, <1>9, <1>10, <1>21 DEF TypeInv
  <2> QED BY <2>7, <2>8, <2>9 DEF FsInv
<1>22. CASE size > end.inode.size
  <2>1. PICK w : w = InodeBlock(id, v2)
    OBVIOUS
  <2>2. end.inode.size \in Nat /\ size < Word
    <3>1. end.inode.size \in 0..(Word - 1)
      BY <1>19, InodeTypes
    <3> QED BY <1>1, <1>6, <1>14, <1>16, <3>1, Consts
  <2>3. /\ v2 \in Inode /\ v2.size = size /\ v2.type = end.inode.type
        /\ v2.direct_blocks = end.inode.direct_blocks
    <3>1. size \in 0..(Word - 1)
      BY <1>14, <2>2, Consts
    <3> QED BY <1>19, <3>1 DEF Inode
  <2> HIDE DEF v2
  <2>4. Holds(v2, d.inode[id])
    <3>1. \A p \in Nat : p < end.inode.size => p < size
      BY <1>14, <1>22, <2>2
    <3> QED BY <1>20, <2>3, <3>1 DEF Holds
  <2>5. PICK e : e = Written(d, w)
    OBVIOUS
  <2>6. Sound(e, U, c, blind)
    BY <1>5, <1>18, <1>20, <2>1, <2>3, <2>4, <2>5, SoundResized
  <2>7. /\ e.imap = d.imap /\ e.bmap = d.bmap /\ e.data = d.data
        /\ e.inode = [d.inode EXCEPT ![id] = v2]
    BY <1>20, <2>1, <2>3, <2>5, WriteInodeBlock
  <2>8. d.inode \in [Inodes -> Inode]
    BY <1>20 DEF Disk
  <2>9. WriteEnd(d, e, id, end.inode, size)
    BY <2>3, <2>7, <2>8 DEF WriteEnd
  <2>10. w \in BlockWrite
    BY <2>1, <2>3, WriteTypes
  <2>11. Through(disk, Append(end.writes, w), e, U, c, blind)
    BY ONLY <1>16, <1>17, <2>5, <2>6, <2>10, OneMore
  <2>12. end.writes \o <<w>> = Append(end.writes, w) /\ end.writes \o <<w>> \in Seq(BlockWrite)
    BY ONLY <1>16, <2>10, WritesJoined
  <2>13. writes' = end.writes \o <<w>>
    BY <1>10, <1>22, <2>1
  <2>14. Through(disk, writes', e, U, c, blind) /\ writes' \in Seq(BlockWrite)
    BY ONLY <2>11, <2>12, <2>13
  <2> QED BY ONLY <2>9, <2>14, <1>21
<1>23. CASE ~(size > end.inode.size)
  <2>1. writes' = end.writes
    <3>1. writes' = end.writes \o <<>>
      BY <1>10, <1>23
    <3> QED BY ONLY <1>16, <3>1, ConcatEmptySeq
  <2>2. end.inode.size \in Nat
    <3>1. end.inode.size \in 0..(Word - 1)
      BY <1>19, InodeTypes
    <3> QED BY <3>1, Consts
  <2>3. \A p \in Nat : p < size => p < end.inode.size
    BY <1>14, <1>23, <2>2
  <2>4. WriteEnd(d, d, id, end.inode, size)
    BY <1>20, <2>3 DEF WriteEnd
  <2>5. Through(disk, writes', d, U, c, blind) /\ writes' \in Seq(BlockWrite)
    BY ONLY <1>16, <1>17, <2>1
  <2> QED BY ONLY <2>4, <2>5, <1>21
<1> QED BY <1>22, <1>23

-----------------------------------------------------------------------------
(* The invariant holds *)

LEMMA StutterStep ==
    ASSUME FsInv, UNCHANGED vars
    PROVE  FsInv'
<1>1. PICK e, U : LeadsTo(e, U)
  BY DEF FsInv
<1>2. LeadsTo(e, U)'
  BY <1>1 DEF LeadsTo, vars
<1>3. TypeInv' /\ PhaseInv'
  BY DEF FsInv, TypeInv, PhaseInv, vars
<1> QED BY <1>2, <1>3 DEF FsInv

LEMMA NextInv == FsInv /\ [Next]_vars => FsInv'
<1> SUFFICES ASSUME FsInv, [Next]_vars PROVE FsInv'
  OBVIOUS
<1>1. CASE fs_init
  BY <1>1, FsInitStep
<1>2. CASE write_block
  BY <1>2, WriteBlockStep
<1>3. ASSUME NEW parent \in Inodes, NEW name \in Names, NEW type \in Types, NEW read \in BOOLEAN,
             fs_create(parent, name, type, read)
      PROVE  FsInv'
  BY <1>3, FsCreateStep
<1>4. ASSUME NEW parent \in Inodes, NEW name \in Names, fs_lookup(parent, name)
      PROVE  FsInv'
  BY <1>4, FsLookupStep
<1>5. ASSUME NEW parent \in Inodes, NEW name \in Names, NEW read \in BOOLEAN,
             fs_delete(parent, name, read)
      PROVE  FsInv'
  BY <1>5, FsDeleteStep
<1>6. ASSUME NEW id \in Inodes, NEW offset \in Offsets, NEW count \in Counts,
             NEW payload \in Payloads, fs_write(id, offset, count, payload)
      PROVE  FsInv'
  BY <1>6, FsWriteStep
<1>7. CASE Crash
  BY <1>7, CrashStep
<1>8. CASE UNCHANGED vars
  BY <1>8, StutterStep
<1> QED BY <1>1, <1>2, <1>3, <1>4, <1>5, <1>6, <1>7, <1>8 DEF Next

LEMMA Invariance == Spec => []FsInv
  BY InitInv, NextInv, PTL DEF Spec

-----------------------------------------------------------------------------
(* Paths *)

\* The children of a directory are what its used slots name.
LEMMA ChildrenUsed ==
    ASSUME NEW i, NEW y
    PROVE  y \in Children(i) <=> \E k \in Blocks, j \in Indices :
                                    Used(disk, i, k, j) /\ At(disk, i, k, j).id = y
<1>1. ASSUME y \in Children(i)
      PROVE  \E k \in Blocks, j \in Indices : Used(disk, i, k, j) /\ At(disk, i, k, j).id = y
  <2>1. disk.inode[i].type = "DIR" /\ y # 0
    BY <1>1 DEF Children
  <2>2. PICK p \in Slots(disk.inode[i]) : y = CellAt(disk, disk.inode[i], p).id
    BY <1>1, <2>1 DEF Children
  <2>3. p \in Positions /\ disk.inode[i].direct_blocks[p \div Cells] # 0
    BY DEF Slots
  <2>4. p \div Cells \in Blocks /\ p % Cells \in Indices
    BY <2>3, PositionIndices
  <2>5. Used(disk, i, p \div Cells, p % Cells) /\ At(disk, i, p \div Cells, p % Cells).id = y
    BY <2>1, <2>2, <2>3 DEF Used, At, Ptr, CellAt
  <2> QED BY <2>4, <2>5
<1>2. ASSUME NEW k \in Blocks, NEW j \in Indices, Used(disk, i, k, j), At(disk, i, k, j).id = y
      PROVE  y \in Children(i)
  <2>1. PICK p \in Positions : p \div Cells = k /\ p % Cells = j
    BY PositionOf
  <2>2. p \in Slots(disk.inode[i]) /\ CellAt(disk, disk.inode[i], p).id = y
    BY <1>2, <2>1 DEF Used, At, Ptr, CellAt, Slots
  <2>3. disk.inode[i].type = "DIR" /\ y # 0
    BY <1>2 DEF Used, At
  <2> QED BY <2>2, <2>3 DEF Children
<1> QED BY <1>1, <1>2

Around(S) == S \cup UNION {Children(i) : i \in S}

ReachUnfolded(f, n) == IF n = 0 THEN {Root} ELSE Around(f[n - 1])

ReachSolves(f, m) == f = [n \in 0..m |-> ReachUnfolded(f, n)]

LEMMA ReachExists == \A m \in Nat : \E f : ReachSolves(f, m)
<1> DEFINE T == {m \in Nat : \E f : ReachSolves(f, m)}
<1>1. 0 \in T
  <2> DEFINE f == [k \in 0..0 |-> {Root}]
  <2>1. \A k \in 0..0 : ReachUnfolded(f, k) = {Root}
    BY DEF ReachUnfolded
  <2> HIDE DEF f
  <2>2. ReachSolves(f, 0)
    BY <2>1 DEF f, ReachSolves
  <2> QED BY <2>2
<1>2. ASSUME NEW m \in Nat, m \in T PROVE m + 1 \in T
  <2>1. PICK f : ReachSolves(f, m)
    BY <1>2
  <2> DEFINE g == [k \in 0..(m + 1) |-> IF k = m + 1 THEN ReachUnfolded(f, m + 1) ELSE f[k]]
  <2>2. ASSUME NEW k \in 0..(m + 1) PROVE ReachUnfolded(g, k) = ReachUnfolded(f, k)
    <3>1. CASE k = 0
      BY <3>1 DEF ReachUnfolded
    <3>2. CASE k # 0
      <4>1. k - 1 \in 0..(m + 1) /\ k - 1 # m + 1
        BY <3>2
      <4>2. g[k - 1] = f[k - 1]
        BY <4>1
      <4> HIDE DEF g
      <4> QED BY <3>2, <4>2 DEF ReachUnfolded
    <3> QED BY <3>1, <3>2
  <2>0. \A k \in 0..m : f[k] = ReachUnfolded(f, k)
    BY <2>1 DEF ReachSolves
  <2>3. ASSUME NEW k \in 0..(m + 1) PROVE g[k] = ReachUnfolded(f, k)
    <3>1. CASE k = m + 1
      BY <3>1
    <3>2. CASE k # m + 1
      <4>1. k \in 0..m
        BY <3>2
      <4>2. f[k] = ReachUnfolded(f, k)
        BY <2>0, <4>1
      <4> QED BY <3>2, <4>2
    <3> QED BY <3>1, <3>2
  <2>4. g = [k \in 0..(m + 1) |-> ReachUnfolded(f, k)]
    BY <2>3
  <2>5. ReachSolves(g, m + 1)
    <3> HIDE DEF g
    <3> QED BY <2>2, <2>4 DEF ReachSolves
  <2> HIDE DEF g
  <2> QED BY <2>5
<1> HIDE DEF T
<1>3. \A m \in Nat : m \in T
  BY <1>1, <1>2, SetInduction
<1> QED BY <1>3 DEF T

\* The sets of inodes within so many steps of the root.
LEMMA ReachStates ==
    \E f : /\ f[0] = {Root} /\ Reachable = f[TotalInodes - 1]
           /\ \A n \in Nat : n < TotalInodes - 1 => f[n + 1] = Around(f[n])
<1> DEFINE f == CHOOSE f : f = [n \in 0..(TotalInodes - 1) |-> ReachUnfolded(f, n)]
<1>0. TotalInodes - 1 \in Nat
  BY Consts
<1>1. \E g : ReachSolves(g, TotalInodes - 1)
  BY <1>0, ReachExists
<1>2. f = [n \in 0..(TotalInodes - 1) |-> ReachUnfolded(f, n)]
  BY <1>1 DEF ReachSolves
<1>3. Reachable = f[TotalInodes - 1]
  BY DEF Reachable, ReachUnfolded, Around
<1> HIDE DEF f
<1>4. \A n \in 0..(TotalInodes - 1) : f[n] = ReachUnfolded(f, n)
  BY <1>2
<1>5. f[0] = {Root}
  BY <1>0, <1>4 DEF ReachUnfolded
<1>6. ASSUME NEW n \in Nat, n < TotalInodes - 1 PROVE f[n + 1] = Around(f[n])
  <2>1. n + 1 \in 0..(TotalInodes - 1) /\ n + 1 # 0 /\ n + 1 - 1 = n
    BY <1>0, <1>6
  <2>2. f[n + 1] = Around(f[n + 1 - 1])
    BY <1>4, <2>1 DEF ReachUnfolded
  <2> QED BY <2>1, <2>2
<1> QED BY <1>3, <1>5, <1>6

LEMMA AroundClosed ==
    ASSUME NEW S, Closed(disk, S), NEW A, A \subseteq S
    PROVE  Around(A) \subseteq S
<1> SUFFICES ASSUME NEW i \in A, NEW y \in Children(i) PROVE y \in S
  BY DEF Around
<1>1. PICK k \in Blocks, j \in Indices : Used(disk, i, k, j) /\ At(disk, i, k, j).id = y
  BY ChildrenUsed
<1> QED BY <1>1 DEF Closed

LEMMA ClosedAround ==
    ASSUME NEW A, Around(A) \subseteq A
    PROVE  Closed(disk, A)
<1> SUFFICES ASSUME NEW i \in A, NEW k \in Blocks, NEW j \in Indices, Used(disk, i, k, j)
             PROVE  At(disk, i, k, j).id \in A
  BY DEF Closed
<1>1. PICK y : y = At(disk, i, k, j).id
  OBVIOUS
<1>2. y \in Children(i)
  BY <1>1, ChildrenUsed
<1> QED BY <1>1, <1>2 DEF Around

\* Every path stays in a set with the root that following entries does not leave.
LEMMA ReachableWithin ==
    ASSUME NEW S, Root \in S, Closed(disk, S)
    PROVE  Reachable \subseteq S
<1>1. PICK f : /\ f[0] = {Root} /\ Reachable = f[TotalInodes - 1]
               /\ \A n \in Nat : n < TotalInodes - 1 => f[n + 1] = Around(f[n])
  BY ReachStates
<1>0. TotalInodes - 1 \in Nat
  BY Consts
<1> DEFINE T == {n \in Nat : n <= TotalInodes - 1 => f[n] \subseteq S}
<1>2. 0 \in T
  BY <1>1
<1>3. ASSUME NEW n \in Nat, n \in T PROVE n + 1 \in T
  <2> SUFFICES ASSUME n + 1 <= TotalInodes - 1 PROVE f[n + 1] \subseteq S
    OBVIOUS
  <2>1. f[n] \subseteq S /\ f[n + 1] = Around(f[n])
    BY <1>0, <1>1, <1>3
  <2> QED BY <2>1, AroundClosed
<1> HIDE DEF T
<1>4. \A n \in Nat : n \in T
  BY <1>2, <1>3, SetInduction
<1>5. TotalInodes - 1 \in T /\ TotalInodes - 1 <= TotalInodes - 1
  BY <1>0, <1>4
<1> QED BY <1>1, <1>5 DEF T

\* The steps Reachable takes are enough: a path need not visit an inode twice.
\* Each step adds an inode until none is left to add.
LEMMA ReachableClosed ==
    ASSUME Closed(disk, Inodes)
    PROVE  Root \in Reachable /\ Closed(disk, Reachable)
<1>0. TotalInodes - 1 \in Nat /\ Root \in Inodes
  BY Consts, RootIsInode
<1>1. PICK f : /\ f[0] = {Root} /\ Reachable = f[TotalInodes - 1]
               /\ \A n \in Nat : n < TotalInodes - 1 => f[n + 1] = Around(f[n])
  BY ReachStates
<1>2. IsFiniteSet(Inodes) /\ Cardinality(Inodes) = TotalInodes
  BY FS_Interval, Consts DEF Inodes
<1> DEFINE Big(A, n) == Cardinality(A) >= n + 1
           Fine(n) == Root \in f[n] /\ f[n] \subseteq Inodes /\ (Closed(disk, f[n]) \/ Big(f[n], n))
           T == {n \in Nat : n <= TotalInodes - 1 => Fine(n)}
<1>3. 0 \in T
  <2>1. Cardinality({Root}) = 1
    BY FS_Singleton
  <2>2. Big(f[0], 0)
    BY <1>1, <2>1
  <2> QED BY <1>0, <1>1, <2>2
<1>4. ASSUME NEW n \in Nat, n \in T PROVE n + 1 \in T
  <2> SUFFICES ASSUME n + 1 <= TotalInodes - 1 PROVE Fine(n + 1)
    OBVIOUS
  <2>1. PICK A, B : A = f[n] /\ B = f[n + 1]
    OBVIOUS
  <2>2. B = Around(A) /\ Root \in A /\ A \subseteq Inodes /\ (Closed(disk, A) \/ Big(A, n))
    BY <1>0, <1>1, <1>4, <2>1
  <2>3. A \subseteq B /\ B \subseteq Inodes
    BY <2>2, AroundClosed DEF Around
  <2>4. CASE Closed(disk, A)
    <3>1. B = A
      BY <2>2, <2>3, <2>4, AroundClosed
    <3> QED BY <2>1, <2>2, <2>4, <3>1
  <2>5. CASE ~Closed(disk, A)
    <3>1. PICK y \in B : y \notin A
      BY <2>2, <2>5, ClosedAround
    <3>2. IsFiniteSet(A) /\ IsFiniteSet(B)
      BY <1>2, <2>2, <2>3, FS_Subset
    <3>3. Cardinality(A \cup {y}) = Cardinality(A) + 1
      BY <3>1, <3>2, FS_AddElement
    <3>4. Cardinality(A \cup {y}) <= Cardinality(B)
      <4>1. A \cup {y} \in SUBSET B
        BY <2>3, <3>1
      <4> QED BY <3>2, <4>1, FS_Subset
    <3>5. Cardinality(A) \in Nat /\ Cardinality(B) \in Nat
      BY <3>2, FS_CardinalityType
    <3>6. Big(A, n)
      BY <2>2, <2>5
    <3>7. Cardinality(B) >= n + 1 + 1
      BY <3>3, <3>4, <3>5, <3>6
    <3> QED BY <2>1, <2>2, <2>3, <3>7
  <2> QED BY <2>4, <2>5
<1> HIDE DEF T
<1>5. \A n \in Nat : n \in T
  BY <1>3, <1>4, SetInduction
<1>6. Fine(TotalInodes - 1)
  BY <1>0, <1>5 DEF T
<1>7. Root \in Reachable /\ Reachable \subseteq Inodes
  BY <1>1, <1>6
<1>8. CASE Big(f[TotalInodes - 1], TotalInodes - 1)
  <2>1. Cardinality(Reachable) >= TotalInodes
    BY <1>1, <1>8, Consts
  <2>2. /\ IsFiniteSet(Reachable) /\ Cardinality(Reachable) <= Cardinality(Inodes)
        /\ (Cardinality(Inodes) = Cardinality(Reachable) => Inodes = Reachable)
    BY <1>2, <1>7, FS_Subset
  <2>3. Cardinality(Reachable) \in Nat
    BY <2>2, FS_CardinalityType
  <2>4. Inodes = Reachable
    BY <1>2, <2>1, <2>2, <2>3, Consts
  <2> QED BY <1>7, <2>4
<1> QED BY <1>1, <1>6, <1>7, <1>8

LEMMA InodesClosed ==
    ASSUME NEW d \in Disk, \A i \in Inodes : Placed(d.inode[i])
    PROVE  Closed(d, Inodes)
<1> SUFFICES ASSUME NEW i \in Inodes, NEW k \in Blocks, NEW j \in Indices, Used(d, i, k, j)
             PROVE  At(d, i, k, j).id \in Inodes
  BY DEF Closed
<1>1. Ptr(d, i, k) # 0 /\ At(d, i, k, j).id # 0
  BY DEF Used, At
<1>2. At(d, i, k, j) \in Cell
  BY <1>1, PtrTypes
<1>3. At(d, i, k, j).id \in 0..TotalInodes
  BY <1>2 DEF Cell
<1> QED BY <1>1, <1>3, Consts DEF Inodes

-----------------------------------------------------------------------------
(* The properties *)

\* The disk is sound now, for whatever is in use.
Holding(W) ==
    /\ Sound(disk, W, content, blind) /\ W \subseteq Inodes
    /\ Live \subseteq W /\ Reachable \subseteq W
    /\ writes = <<>> /\ disk.magic => lost \/ Tidy(disk, W)

LEMMA InvHolding ==
    ASSUME FsInv
    PROVE  \E W : Holding(W)
<1>1. PICK e, U : LeadsTo(e, U)
  BY DEF FsInv
<1>2. TypeInv /\ writes \in Seq(BlockWrite)
  BY DEF FsInv, TypeInv
<1>3. Through(disk, writes, e, U, content, blind)
  BY <1>1 DEF LeadsTo
<1>4. /\ \E V : Sound(disk, V, content, blind)
      /\ writes = <<>> => disk = e /\ Sound(disk, U, content, blind)
  BY ONLY <1>2, <1>3, Ends
<1>5. \A V : Sound(disk, V, content, blind) => V \subseteq Inodes /\ Reachable \subseteq V
  <2> SUFFICES ASSUME NEW V, Sound(disk, V, content, blind)
               PROVE  V \subseteq Inodes /\ Reachable \subseteq V
    OBVIOUS
  <2>1. Root \in V /\ Closed(disk, V) /\ V \subseteq Inodes
    BY DEF Sound, InUse, Disk
  <2> QED BY <2>1, ReachableWithin
<1>6. CASE writes = <<>>
  <2>1. held \subseteq U /\ (lost \/ Tidy(disk, U))
    BY <1>1, <1>4, <1>6 DEF LeadsTo
  <2>2. Live \subseteq U
    BY <1>4, <1>5, <1>6, <2>1 DEF Live
  <2> QED BY <1>4, <1>5, <1>6, <2>1, <2>2 DEF Holding
<1>7. CASE writes # <<>>
  <2>1. Live = Reachable
    BY <1>7 DEF Live, Idle
  <2> QED BY <1>4, <1>5, <1>7, <2>1 DEF Holding
<1> QED BY <1>6, <1>7

LEMMA PointersUsed ==
    ASSUME NEW x \in AllPointers
    PROVE  \E i \in Live, k \in Blocks : x = <<i, k>> /\ Target(x) = Ptr(disk, i, k) /\ Target(x) # 0
<1>1. PICK i \in Live : x \in Pointers(i)
  BY DEF AllPointers
<1>2. PICK k \in Blocks : x = <<i, k>> /\ disk.inode[i].direct_blocks[k] # 0
  BY <1>1 DEF Pointers, Blocks
<1>3. Target(x) = Ptr(disk, i, k)
  BY <1>2 DEF Target, Ptr
<1> QED BY <1>2, <1>3 DEF Ptr

\* An entry on a path, as the directory, the block and the slot it is in.
LinkIn(x, i, k, j) ==
    /\ x = <<i, x[2]>> /\ x[2] \in Nat /\ k = x[2] \div Cells /\ j = x[2] % Cells
    /\ Used(disk, i, k, j) /\ LinkTo(x) = At(disk, i, k, j)

LEMMA LinksUsed ==
    ASSUME NEW x \in Links
    PROVE  \E i \in Reachable, k \in Blocks, j \in Indices : LinkIn(x, i, k, j)
<1>1. PICK i, p : i = x[1] /\ p = x[2]
  OBVIOUS
<1>2. /\ x = <<i, p>> /\ i \in Reachable /\ p \in Positions /\ disk.inode[i].type = "DIR"
      /\ p \in Slots(disk.inode[i]) /\ LinkTo(x).id # 0
  BY <1>1 DEF Links
<1>3. p \in Nat /\ p \div Cells \in Blocks /\ p % Cells \in Indices
  BY <1>2, PositionIndices
<1>4. LinkTo(x) = At(disk, i, p \div Cells, p % Cells)
  BY <1>1 DEF LinkTo, CellAt, At, Ptr
<1>5. Used(disk, i, p \div Cells, p % Cells)
  BY <1>2, <1>4 DEF Used, At, Slots, Ptr
<1> QED BY <1>1, <1>2, <1>3, <1>4, <1>5 DEF LinkIn

LEMMA SamePosition ==
    ASSUME NEW p \in Nat, NEW q \in Nat, p \div Cells = q \div Cells, p % Cells = q % Cells
    PROVE  p = q
<1>1. p = (p \div Cells) * Cells + (p % Cells) /\ q = (q \div Cells) * Cells + (q % Cells)
  BY PositionParts
<1> QED BY <1>1, Zenon

LEMMA SameLink ==
    ASSUME NEW x, NEW y, NEW i, NEW k, NEW j, LinkIn(x, i, k, j), LinkIn(y, i, k, j)
    PROVE  x = y
<1>1. PICK p, q : p = x[2] /\ q = y[2]
  OBVIOUS
<1>2. p \in Nat /\ q \in Nat /\ p \div Cells = q \div Cells /\ p % Cells = q % Cells
  BY <1>1, Zenon DEF LinkIn
<1>3. p = q
  BY <1>2, SamePosition
<1> QED BY <1>1, <1>3, Zenon DEF LinkIn

\* Every write of every call keeps the types: in particular allocate_block sets
\* no bit beyond the blocks the superblock counts, and no size leaves 64 bits.
THEOREM TypesHold == Spec => []TypeOK
<1>1. FsInv => TypeOK
  <2> SUFFICES ASSUME FsInv PROVE TypeOK
    OBVIOUS
  <2>1. PICK W : Holding(W)
    BY InvHolding
  <2>2. disk \in Disk
    BY <2>1 DEF Holding, Sound
  <2>3. /\ disk.magic \in BOOLEAN
        /\ disk.imap \subseteq Inodes /\ disk.bmap \subseteq 0..(TotalBlocks - 1)
        /\ \A i \in Inodes : disk.inode[i] \in Inode
        /\ \A b \in DOMAIN disk.data : \A j \in 0..(Cells - 1) : disk.data[b][j] \in Cell
    BY <2>2 DEF Disk, Data, Indices
  <2>4. PICK e, U : LeadsTo(e, U)
    BY DEF FsInv
  <2>5. TypeInv /\ PhaseInv /\ writes \in Seq(BlockWrite)
    BY DEF FsInv, TypeInv
  <2>6. Through(disk, writes, e, U, content, blind)
    BY <2>4 DEF LeadsTo
  <2>7. Sound(e, U, content, blind)
    BY ONLY <2>5, <2>6, Ends
  <2>8. e \in Disk /\ U \subseteq e.imap
    BY <2>7 DEF Sound, InUse
  <2>9. e.imap \subseteq Inodes /\ e.bmap \subseteq 0..(TotalBlocks - 1)
    BY <2>8 DEF Disk, Data
  <2>10. /\ imap \subseteq Inodes /\ bmap \subseteq 0..(TotalBlocks - 1) /\ held \subseteq Inodes
    BY <2>4, <2>5, <2>8, <2>9 DEF LeadsTo, PhaseInv
  <2>11. /\ \A i \in Inodes : content[i] \in [Positions -> Payloads \cup {Zero}]
         /\ \A i \in Inodes : promise[i] \in [Positions -> Payloads \cup {Zero}]
    BY <2>5 DEF TypeInv, Claims
  <2> QED BY <2>3, <2>5, <2>10, <2>11 DEF TypeOK, TypeInv
<1> QED BY <1>1, Invariance, PTL

\* Whatever block write power fails after: an inode a path leads to is marked and
\* has a type, and the blocks of the inodes in use are marked data blocks.
THEOREM NothingEverDangles == Spec => []NothingDangles
<1>1. FsInv => NothingDangles
  <2> SUFFICES ASSUME FsInv PROVE NothingDangles
    OBVIOUS
  <2>1. PICK W : Holding(W)
    BY InvHolding
  <2>2. \A i \in Reachable : i \in disk.imap /\ disk.inode[i].type # "NONE"
    BY <2>1 DEF Holding, Sound, InUse
  <2>3. ASSUME NEW x \in AllPointers PROVE Target(x) > DataStart /\ Target(x) - 1 \in disk.bmap
    <3>1. PICK i \in Live, k \in Blocks :
             x = <<i, k>> /\ Target(x) = Ptr(disk, i, k) /\ Target(x) # 0
      BY PointersUsed
    <3>2. i \in W /\ i \in Inodes /\ disk \in Disk /\ \A h \in Inodes : Placed(disk.inode[h])
      BY <2>1 DEF Holding, Sound
    <3>3. Target(x) - 1 \in disk.bmap
      BY <2>1, <3>1, <3>2 DEF Holding, Sound, Marked
    <3>4. Ptr(disk, i, k) \in 0..TotalBlocks /\ Ptr(disk, i, k) > DataStart + 1
      BY <3>1, <3>2, PtrTypes DEF Placed, Ptr
    <3>5. Target(x) > DataStart
      BY <3>1, <3>4, Consts
    <3> QED BY <3>3, <3>5
  <2> QED BY <2>2, <2>3 DEF NothingDangles
<1> QED BY <1>1, Invariance, PTL

\* Whatever block write power fails after: no block is pointed to from two places,
\* and no inode has two entries on paths.
THEOREM NeverCrossLinked == Spec => []NoCrossLinks
<1>1. FsInv => NoCrossLinks
  <2> SUFFICES ASSUME FsInv PROVE NoCrossLinks
    OBVIOUS
  <2>1. PICK W : Holding(W)
    BY InvHolding
  <2>2. Live \subseteq W /\ Reachable \subseteq W /\ Apart(disk, W) /\ Single(disk, W)
    BY <2>1 DEF Holding, Sound
  <2>3. ASSUME NEW x \in AllPointers, NEW y \in AllPointers, Target(x) = Target(y) PROVE x = y
    <3>1. PICK i \in Live, k \in Blocks :
             x = <<i, k>> /\ Target(x) = Ptr(disk, i, k) /\ Target(x) # 0
      BY PointersUsed
    <3>2. PICK h \in Live, l \in Blocks :
             y = <<h, l>> /\ Target(y) = Ptr(disk, h, l) /\ Target(y) # 0
      BY PointersUsed
    <3>3. i \in W /\ h \in W /\ Ptr(disk, i, k) # 0 /\ Ptr(disk, i, k) = Ptr(disk, h, l)
      BY <2>2, <2>3, <3>1, <3>2
    <3>4. i = h /\ k = l
      BY ONLY <2>2, <3>3, k \in Blocks, l \in Blocks DEF Apart
    <3> QED BY <3>1, <3>2, <3>4
  <2>4. ASSUME NEW x \in Links, NEW y \in Links, LinkTo(x).id = LinkTo(y).id PROVE x = y
    <3>1. PICK i \in Reachable, k \in Blocks, j \in Indices : LinkIn(x, i, k, j)
      BY LinksUsed
    <3>2. PICK h \in Reachable, l \in Blocks, m \in Indices : LinkIn(y, h, l, m)
      BY LinksUsed
    <3>3. i = h /\ k = l /\ j = m
      BY <2>2, <2>4, <3>1, <3>2 DEF Single, LinkIn
    <3> QED BY <3>1, <3>2, <3>3, SameLink
  <2> QED BY <2>3, <2>4 DEF NoCrossLinks
<1> QED BY <1>1, Invariance, PTL

\* Whatever block write power fails after: two entries of one directory differ in
\* name, unless fs_create once had no memory for its lookup.
THEOREM NamesStayUnique == Spec => []NamesUnique
<1>1. FsInv => NamesUnique
  <2> SUFFICES ASSUME FsInv, ~blind, NEW x \in Links, NEW y \in Links, x[1] = y[1],
                      LinkTo(x).name = LinkTo(y).name
               PROVE  x = y
    BY DEF NamesUnique
  <2>1. PICK W : Holding(W)
    BY InvHolding
  <2>2. Reachable \subseteq W /\ Named(disk, W)
    BY <2>1 DEF Holding, Sound
  <2>3. PICK i \in Reachable, k \in Blocks, j \in Indices : LinkIn(x, i, k, j)
    BY LinksUsed
  <2>4. PICK h \in Reachable, l \in Blocks, m \in Indices : LinkIn(y, h, l, m)
    BY LinksUsed
  <2>5. i = h
    BY <2>3, <2>4 DEF LinkIn
  <2>6. k = l /\ j = m
    BY <2>2, <2>3, <2>4, <2>5 DEF Named, LinkIn
  <2> QED BY <2>3, <2>4, <2>5, <2>6, SameLink
<1> QED BY <1>1, Invariance, PTL

\* A read of one byte the file has gives that byte.
LEMMA ReadsOne ==
    ASSUME NEW d \in Disk, NEW i \in Inodes, NEW p \in Positions, NEW payload, Claim(d, i, p, payload)
    PROVE  fs_read(d, i, p, 1) = <<Byte(payload)>>
<1>1. p \in Nat /\ p \div Cells \in Blocks /\ p % Cells \in Indices
  BY PositionIndices
<1>2. PICK v : v = d.inode[i]
  OBVIOUS
<1>3. v \in Inode /\ v.size \in 0..(Word - 1) /\ p < v.size
  BY <1>2, InodeTypes DEF Disk, Claim
<1>4. p + 1 \in 0..(Word - 1) /\ ~(p + 1 > v.size)
  BY <1>1, <1>3, Consts
<1>5. (p + 1) % Word = p + 1
  BY <1>4, Consts
<1>6. p \in Slots(v) /\ CellAt(d, v, p) = Byte(payload)
  BY <1>2 DEF Slots, CellAt, Claim, Ptr, At
<1>7. {k \in 0..(1 - 1) : p + k \notin Slots(v)} = {}
  <2>1. p + 0 = p
    BY <1>1
  <2> QED BY <1>6, <2>1
<1>8. Min({1}) = 1
  BY MinOf
<1>9. fs_read(d, i, p, 1) = [k \in 1..1 |-> CellAt(d, v, p + k - 1)]
  <2>1. fs_read(d, i, p, 1) = [k \in 1..Min({k \in 0..(1 - 1) : p + k \notin Slots(v)} \cup {1})
                                 |-> CellAt(d, v, p + k - 1)]
    BY <1>2, <1>4, <1>5 DEF fs_read
  <2>2. {k \in 0..(1 - 1) : p + k \notin Slots(v)} \cup {1} = {1}
    BY <1>7
  <2> QED BY <1>8, <2>1, <2>2
<1>10. \A k \in 1..1 : CellAt(d, v, p + k - 1) = Byte(payload)
  <2>1. \A k \in 1..1 : p + k - 1 = p
    BY <1>1
  <2> QED BY <1>6, <2>1
<1> QED BY <1>9, <1>10

\* What a completed fs_write stored is read back, whatever other calls and crashes
\* came between.
THEOREM WritesReadBack == Spec => []ReadsBack
<1>1. FsInv => ReadsBack
  <2> SUFFICES ASSUME FsInv, writes = <<>>, NEW i \in Live, NEW p \in Positions,
                      content[i][p] # Zero
               PROVE  fs_read(disk, i, p, 1) = <<Byte(content[i][p])>>
    BY DEF ReadsBack
  <2>1. PICK W : Holding(W)
    BY InvHolding
  <2>2. i \in W /\ i \in Inodes /\ disk \in Disk /\ Kept(disk, W, content)
    BY <2>1 DEF Holding, Sound
  <2>3. PICK payload : payload = content[i][p]
    OBVIOUS
  <2>4. Claim(disk, i, p, payload)
    BY <2>2, <2>3, KeptClaims
  <2> QED BY <2>2, <2>3, <2>4, ReadsOne
<1> QED BY <1>1, Invariance, PTL

\* The entries of a directory, counted by position and by block and slot.
LEMMA EntriesCounted ==
    ASSUME NEW i \in Reachable, disk.inode[i].type = "DIR"
    PROVE  Cardinality({p \in Positions : <<i, p>> \in Links}) = Cardinality(Slots2(disk, i))
<1> DEFINE A == {p \in Positions : <<i, p>> \in Links}
           B == Slots2(disk, i)
           F == [p \in A |-> <<p \div Cells, p % Cells>>]
<1>1. ASSUME NEW p \in Positions
      PROVE  p \in A <=> Used(disk, i, p \div Cells, p % Cells)
  <2>1. <<i, p>> \in Reachable \X Positions /\ <<i, p>>[1] = i /\ <<i, p>>[2] = p
    OBVIOUS
  <2>2. LinkTo(<<i, p>>) = At(disk, i, p \div Cells, p % Cells)
    BY <2>1 DEF LinkTo, CellAt, At, Ptr
  <2>3. p \in Slots(disk.inode[i]) <=> Ptr(disk, i, p \div Cells) # 0
    BY DEF Slots, Ptr
  <2>4. <<i, p>> \in Links <=> p \in Slots(disk.inode[i]) /\ LinkTo(<<i, p>>).id # 0
    BY <2>1 DEF Links
  <2> QED BY <2>2, <2>3, <2>4 DEF Used, At
<1>2. A \subseteq Positions
  OBVIOUS
<1> HIDE DEF A
<1>3. ASSUME NEW p \in A PROVE F[p] \in B
  <2>1. p \in Positions /\ p \div Cells \in Blocks /\ p % Cells \in Indices
    BY <1>2, PositionIndices
  <2>2. Used(disk, i, p \div Cells, p % Cells)
    BY <1>1, <2>1
  <2> QED BY <2>1, <2>2 DEF Slots2
<1>4. ASSUME NEW p \in A, NEW q \in A, F[p] = F[q] PROVE p = q
  <2>1. p \in Nat /\ q \in Nat
    BY <1>2, PositionIndices
  <2>2. p \div Cells = q \div Cells /\ p % Cells = q % Cells
    BY <1>4
  <2> HIDE DEF F
  <2> QED BY <2>1, <2>2, SamePosition
<1>5. ASSUME NEW s \in B PROVE \E p \in A : F[p] = s
  <2>1. PICK k \in Blocks, j \in Indices : s = <<k, j>> /\ Used(disk, i, k, j)
    BY DEF Slots2
  <2>2. PICK p \in Positions : p \div Cells = k /\ p % Cells = j
    BY PositionOf
  <2>3. p \in A
    BY <1>1, <2>1, <2>2
  <2> QED BY <2>1, <2>2, <2>3
<1>6. F \in [A -> B]
  BY <1>3
<1> HIDE DEF F, B
<1>7. F \in Bijection(A, B)
  BY <1>4, <1>5, <1>6, Fun_IsBij
<1>8. IsFiniteSet(B)
  BY SlotsFinite DEF B
<1>9. ExistsBijection(A, B)
  BY <1>7, Fun_ExistsBij
<1>10. ExistsBijection(B, A)
  BY <1>9, Fun_ExistsBijSymmetric
<1>11. Cardinality(A) = Cardinality(B)
  BY <1>8, <1>10, FS_Bijection
<1> QED BY <1>11 DEF A, B

\* Nothing leaks: with no call running and nothing that is known to leak behind it,
\* the bitmaps mark exactly what paths lead to and the sizes of directories count
\* their entries.
THEOREM CleanWhenUndisturbed == Spec => []CleanUnlessDisturbed
<1>1. FsInv => CleanUnlessDisturbed
  <2> SUFFICES ASSUME FsInv, disk.magic, writes = <<>>, ~lost PROVE Clean
    BY DEF CleanUnlessDisturbed
  <2>1. PICK W : Holding(W)
    BY InvHolding
  <2>2. /\ Tidy(disk, W) /\ Sound(disk, W, content, blind) /\ W \subseteq Inodes /\ Reachable \subseteq W
        /\ disk \in Disk /\ \A i \in Inodes : Placed(disk.inode[i])
    BY <2>1 DEF Holding, Sound
  <2>3. Root \in Reachable /\ Closed(disk, Reachable)
    BY <2>2, InodesClosed, ReachableClosed
  <2>4. Reachable = W
    BY <2>2, <2>3 DEF Tidy
  <2>5. disk.imap = Reachable
    BY <2>2, <2>4 DEF Tidy
  <2> DEFINE P == UNION {Pointers(i) : i \in Reachable}
  <2>6. ASSUME NEW i \in Reachable, NEW k \in Blocks, Ptr(disk, i, k) # 0
        PROVE  <<i, k>> \in P /\ Target(<<i, k>>) = Ptr(disk, i, k)
    <3>1. <<i, k>> \in Pointers(i)
      BY <2>6 DEF Pointers, Ptr, Blocks
    <3> QED BY <3>1 DEF Target, Ptr
  <2>7. ASSUME NEW x \in P
        PROVE  \E i \in Reachable, k \in Blocks : Target(x) = Ptr(disk, i, k) /\ Ptr(disk, i, k) # 0
    <3>1. PICK i \in Reachable : x \in Pointers(i)
      OBVIOUS
    <3>2. PICK k \in Blocks : x = <<i, k>> /\ disk.inode[i].direct_blocks[k] # 0
      BY <3>1 DEF Pointers, Blocks
    <3> QED BY <3>2 DEF Target, Ptr
  <2> HIDE DEF P
  <2>8. ASSUME NEW b \in disk.bmap PROVE b \in Reserved \cup {Target(x) - 1 : x \in P}
    <3>1. CASE b \in Reserved
      BY <3>1
    <3>2. CASE b \notin Reserved
      <4>1. b \in Data \ Reserved /\ b \in Nat
        BY <2>2, <3>2, Consts DEF Disk, Data
      <4>2. PICK i \in W, k \in Blocks : Ptr(disk, i, k) = b + 1
        BY <2>2, <4>1 DEF Tidy
      <4>3. b + 1 # 0 /\ b + 1 - 1 = b
        BY <4>1
      <4>4. PICK x : x = <<i, k>>
        OBVIOUS
      <4>5. x \in P /\ Target(x) = b + 1
        BY <2>4, <2>6, <4>2, <4>3, <4>4
      <4>6. Target(x) - 1 = (b + 1) - 1
        BY ONLY <4>5, Zenon
      <4>7. Target(x) - 1 = b
        BY ONLY <4>1, <4>6
      <4> QED BY <4>5, <4>7
    <3> QED BY <3>1, <3>2
  <2>9. ASSUME NEW b, b \in Reserved \cup {Target(x) - 1 : x \in P} PROVE b \in disk.bmap
    <3>1. CASE b \in Reserved
      BY <2>2, <3>1 DEF Sound
    <3>2. CASE b \notin Reserved
      <4>1. PICK x \in P : b = Target(x) - 1
        BY <2>9, <3>2
      <4>2. PICK i \in Reachable, k \in Blocks : Target(x) = Ptr(disk, i, k) /\ Ptr(disk, i, k) # 0
        BY <2>7
      <4>3. Ptr(disk, i, k) - 1 \in disk.bmap
        BY <2>2, <4>2 DEF Sound, Marked
      <4> QED BY <4>1, <4>2, <4>3
    <3> QED BY <3>1, <3>2
  <2>10. disk.bmap = Reserved \cup {Target(x) - 1 : x \in P}
    BY <2>8, <2>9
  <2>11. ASSUME NEW i \in Reachable, disk.inode[i].type = "DIR"
         PROVE  disk.inode[i].size = Cardinality({p \in Positions : <<i, p>> \in Links})
    <3>1. disk.inode[i].size = Cardinality(Slots2(disk, i))
      BY <2>2, <2>4, <2>11 DEF Tidy
    <3> QED BY <2>11, <3>1, EntriesCounted
  <2> QED BY <2>5, <2>10, <2>11 DEF Clean, P
<1> QED BY <1>1, Invariance, PTL
=============================================================================
