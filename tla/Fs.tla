---------------------------------- MODULE Fs ----------------------------------
(***************************************************************************)
(* The on-disk file system of fs/fs.c: one superblock, an inode bitmap, a  *)
(* block bitmap, an inode table and data blocks, changed by fs_create,     *)
(* fs_delete and fs_write through synchronous single-block writes, and     *)
(* read back by fs_init after a reboot.                                    *)
(*                                                                         *)
(* No call yields, so a call is one action.  What a crash can separate is  *)
(* its block writes: the action computes them in program order and leaves  *)
(* them in "writes", from where write_block takes them to the device one   *)
(* at a time.  Power may fail between any two of them.  A block write is   *)
(* atomic.                                                                 *)
(*                                                                         *)
(* A cell is the unit of both a directory (one dir_entry_t) and a file     *)
(* (one byte); a block holds Cells of them.  A read, modify and write of a *)
(* shared inode block changes one inode, so the table is a function of     *)
(* inode numbers.  Calls that return an error leave everything unchanged   *)
(* and are the disabled cases of their actions.  The counters free_blocks  *)
(* and free_inodes are read nowhere and are left out.                      *)
(***************************************************************************)
EXTENDS Integers, Sequences, FiniteSets, FiniteSetsExt

CONSTANTS
    TotalInodes,  \* superblock_t.total_inodes
    TotalBlocks,  \* superblock_t.total_blocks
    DataStart,    \* superblock_t.data_start_block
    Direct,       \* number of direct_blocks of an inode
    Cells,        \* cells of a block
    Word,         \* 2^64, the modulus of sizes and byte counts
    Names,        \* names no longer than FS_MAX_FILENAME_LEN
    Types,        \* types callers create: FS_INODE_TYPE_FILE, FS_INODE_TYPE_DIR
    Payloads,     \* bytes callers write
    Offsets,      \* file offsets callers write at, below 2^32 blocks
    Counts,       \* byte counts callers write
    MaxCrashes,   \* bound on the power failures of a behaviour
    Zero          \* the byte memset leaves

ASSUME FsAssumption ==
    /\ {TotalInodes, Direct, Cells} \subseteq Nat \ {0}
    /\ DataStart \in Nat /\ TotalBlocks \in Nat /\ DataStart < TotalBlocks
    /\ Types \subseteq {"FILE", "DIR"}
    /\ Zero \notin Names \cup Payloads
    /\ Word \in Nat /\ Direct * Cells < Word
    /\ Offsets \subseteq 0..(Word - 1) /\ Counts \subseteq Nat
    /\ MaxCrashes \in Nat

VARIABLES
    disk,    \* what the device holds
    up,      \* fs_init has run since the last power-up
    total,   \* current_superblock.total_inodes
    imap,    \* inode_bitmap: the inode numbers whose bit is set
    bmap,    \* block_bitmap: the positions of the bits that are set
    writes,  \* block writes of the running call still to be made
    held,    \* inode numbers callers know and have not deleted
    content, \* history: the bytes completed fs_write calls left in each file
    crashes, \* history: the power failures so far
    promise, \* history: content once the running call has returned
    lost,    \* history: a crash inside a call, or a call known to leak, happened
    blind    \* history: fs_create had no memory to see that its name exists

vars == <<disk, up, total, imap, bmap, writes, held, content, promise, crashes,
          lost, blind>>

Root == 1
Inodes == 1..TotalInodes
Reserved == 0..DataStart
\* The device has blocks beyond those the superblock counts: block TotalBlocks
\* is the number allocate_block gives to the last bit.
DeviceBlocks == DataStart..(TotalBlocks + 1)
Positions == 0..(Direct * Cells - 1)
Unknown == [p \in Positions |-> Zero]

Cell == [id : 0..TotalInodes, name : Names \cup Payloads \cup {Zero}]
ZeroCell == [id |-> 0, name |-> Zero]
Entry(id, name) == [id |-> id, name |-> name]
Byte(payload) == [id |-> 0, name |-> payload]
ZeroBlock == [j \in 0..(Cells - 1) |-> ZeroCell]

Inode == [type : {"NONE", "FILE", "DIR"},
          direct_blocks : [0..(Direct - 1) -> 0..TotalBlocks], size : 0..(Word - 1)]
NewInode(type) ==
    [type |-> type, direct_blocks |-> [i \in 0..(Direct - 1) |-> 0], size |-> 0]

-----------------------------------------------------------------------------
(* The device *)

\* A disk as the formatting branch of fs_init lays it out.  That branch runs
\* only when the superblock cannot be read, which the UFS driver never reports,
\* so a formatted disk comes from elsewhere.  The loop that reserves the
\* metadata blocks runs to data_start_block inclusive.
Formatted ==
    [magic |-> TRUE, imap |-> {Root}, bmap |-> Reserved,
     inode |-> [i \in Inodes |-> NewInode(IF i = Root THEN "DIR" ELSE "NONE")],
     data |-> [b \in DeviceBlocks |-> ZeroBlock]]

\* A disk without the magic number, taken to be all zero in its first block: fs_init
\* copies whatever counts that block has before it looks at the number.
Blank == [Formatted EXCEPT !.magic = FALSE]

InodeBitmap(m) == [block |-> "imap", at |-> 0, value |-> m]
BlockBitmap(m) == [block |-> "bmap", at |-> 0, value |-> m]
InodeBlock(id, inode) == [block |-> "inode", at |-> id, value |-> inode]
DataBlock(b, cells) == [block |-> "data", at |-> b, value |-> cells]

\* The device after one block write.
Written(d, w) ==
    CASE w.block = "imap"  -> [d EXCEPT !.imap = w.value]
      [] w.block = "bmap"  -> [d EXCEPT !.bmap = w.value]
      [] w.block = "inode" -> [d EXCEPT !.inode[w.at] = w.value]
      [] w.block = "data"  -> [d EXCEPT !.data[w.at] = w.value]

-----------------------------------------------------------------------------
(* Bitmaps *)

\* allocate_inode: the first inode whose bit is clear, 0 when there is none.
allocate_inode ==
    LET free == {i \in 0..(total - 1) : (i + 1) \notin imap}
    IN  IF free = {} THEN 0 ELSE Min(free) + 1

\* Slip: the loop looks at one bit too many.
allocate_block_OneTooMany(m) ==
    LET free == (0..TotalBlocks) \ m
    IN  IF free = {} THEN 0 ELSE Min(free) + 1

\* allocate_block: the bit it sets is i, the block number it returns i + 1,
\* and 0 means that the disk is full.
allocate_block(m) ==
    LET free == (0..(TotalBlocks - 1)) \ m
    IN  IF free = {} THEN 0 ELSE Min(free) + 1

\* Slip: the block number is taken for the position of its bit.
free_block_WrongBit(m, b) == m \ {b}

\* free_block: the inverse, clearing bit block_num - 1.  Numbers above total_blocks,
\* which it refuses, are never allocated.
free_block(m, b) == m \ {b - 1}

free_inode(m, id) == m \ {id}

-----------------------------------------------------------------------------
(* Directories *)

\* The slots of a directory's blocks in scanning order, as positions.
Slots(inode) == {p \in Positions : inode.direct_blocks[p \div Cells] # 0}

CellAt(d, inode, p) == d.data[inode.direct_blocks[p \div Cells]][p % Cells]

\* The positions of the entries for a name; all three scans take the first.
Matches(d, inode, name) ==
    {p \in Slots(inode) : CellAt(d, inode, p).id # 0 /\ CellAt(d, inode, p).name = name}

\* The scan of fs_lookup and fs_delete; 0 when the name is absent.
Lookup(id, name) ==
    LET found == Matches(disk, disk.inode[id], name)
    IN  IF disk.inode[id].type # "DIR" \/ found = {} THEN 0
        ELSE CellAt(disk, disk.inode[id], Min(found)).id

\* The block index where fs_create puts an entry: the first that has no block
\* yet or has a free slot; Direct when there is none.
EntryIndex(inode) ==
    LET open == {i \in 0..(Direct - 1) :
                    \/ inode.direct_blocks[i] = 0
                    \/ \E j \in 0..(Cells - 1) :
                          disk.data[inode.direct_blocks[i]][j].id = 0}
    IN  IF open = {} THEN Direct ELSE Min(open)

-----------------------------------------------------------------------------
(* Calls *)

Idle == up /\ writes = <<>>

Init ==
    /\ disk \in {Formatted, Blank}
    /\ up = FALSE
    /\ total = 0
    /\ imap = {}
    /\ bmap = {}
    /\ writes = <<>>
    /\ held = {Root}
    /\ content = [i \in Inodes |-> Unknown]
    /\ promise = content
    /\ crashes = 0
    /\ lost = FALSE
    /\ blind = FALSE

\* fs_init on a readable device: the superblock, then both bitmaps.  Without
\* the magic number it returns early, and total_inodes is the 0 of an empty
\* disk.
fs_init ==
    /\ ~up
    /\ up' = TRUE
    /\ IF disk.magic
       THEN total' = TotalInodes /\ imap' = disk.imap /\ bmap' = disk.bmap
       ELSE UNCHANGED <<total, imap, bmap>>
    /\ UNCHANGED <<disk, writes, held, content, promise, crashes, lost, blind>>

\* get_inode: the inode numbers it accepts.
Valid(id) == id \in 1..total

\* The next block write of the running call reaches the device.
write_block ==
    /\ up /\ writes # <<>>
    /\ disk' = Written(disk, Head(writes))
    /\ writes' = Tail(writes)
    /\ content' = IF Len(writes) = 1 THEN promise ELSE content
    /\ UNCHANGED <<up, total, imap, bmap, held, promise, crashes, lost, blind>>

\* The call starts: its writes w are to be made, c is what files then hold.
\* Until the call returns nothing is known of the bytes it changes.
Start(w, c) ==
    /\ writes' = w
    /\ promise' = c
    /\ content' = [i \in Inodes |-> [p \in Positions |->
                     IF c[i][p] = content[i][p] THEN c[i][p] ELSE Zero]]
    /\ UNCHANGED <<disk, up, total, crashes>>

\* fs_lookup hands the caller an inode number.
fs_lookup(parent, name) ==
    /\ Idle /\ parent \in held /\ Valid(parent)
    /\ Lookup(parent, name) # 0
    /\ held' = held \cup {Lookup(parent, name)}
    /\ UNCHANGED <<disk, up, total, imap, bmap, writes, content, promise, crashes, lost,
                   blind>>

\* Slip: an existing name is not noticed.
Absent_Unchecked(parent, name) == TRUE

\* fs_create refuses a name the directory has.
Absent(parent, name) == Lookup(parent, name) = 0

\* fs_create: a new inode, bitmap first, then an entry in the parent, in a new
\* zeroed block if the parent needs one, and last the parent's inode.  With no
\* room for the entry the inode is allocated and its number returned all the
\* same.  The lookup reads the parent once more; when there is no memory for
\* that (read = FALSE) it returns 0, as for a name that is absent.
fs_create(parent, name, type, read) ==
    LET dir   == disk.inode[parent]
        new   == allocate_inode
        i     == EntryIndex(dir)
        grow  == i < Direct /\ dir.direct_blocks[i] = 0
        b     == IF grow THEN allocate_block(bmap) ELSE dir.direct_blocks[i]
        cells == IF grow THEN ZeroBlock ELSE disk.data[b]
        j     == Min({k \in 0..(Cells - 1) : cells[k].id = 0})
        room  == i < Direct /\ b # 0
        marks == IF grow /\ room THEN bmap \cup {b - 1} ELSE bmap
        entry == IF ~room THEN <<>> ELSE
                   (IF grow THEN <<BlockBitmap(marks)>> ELSE <<>>)
                   \o <<DataBlock(b, [cells EXCEPT ![j] = Entry(new, name)]),
                        InodeBlock(parent, [dir EXCEPT !.direct_blocks[i] = b,
                                                       !.size = (@ + 1) % Word])>>
    IN  /\ Idle /\ parent \in held /\ Valid(parent)
        /\ dir.type = "DIR"
        /\ read => Absent(parent, name)
        /\ new # 0
        /\ imap' = imap \cup {new}
        /\ bmap' = marks
        /\ held' = held \cup {new}
        /\ lost' = (lost \/ ~room)
        /\ blind' = (blind \/ ~Absent(parent, name))
        /\ Start(<<InodeBitmap(imap'), InodeBlock(new, NewInode(type))>> \o entry,
                 [content EXCEPT ![new] = Unknown])

\* fs_delete's loop over the first n direct blocks: the bitmap it leaves, and
\* the bitmap written after each free_block.
Cleared(inode, n) ==
    LET loop[i \in 0..n] ==
          IF i = 0 THEN [bmap |-> bmap, writes |-> <<>>]
          ELSE IF inode.direct_blocks[i - 1] = 0 THEN loop[i - 1]
          ELSE LET marks == free_block(loop[i - 1].bmap, inode.direct_blocks[i - 1])
               IN  [bmap |-> marks, writes |-> Append(loop[i - 1].writes, BlockBitmap(marks))]
    IN  loop[n]

\* Slip: the loop ends one block early.
FreeBlocks_SkipsLast(inode) == Cleared(inode, Direct - 1)

\* fs_delete frees every direct block of the target.
FreeBlocks(inode) == Cleared(inode, Direct)

\* Slip: the entry is removed last.
DeleteOrder_EntryLast(entry, blocks, inode) == blocks \o inode \o entry

\* fs_delete removes the entry before it frees what the entry led to.
DeleteOrder(entry, blocks, inode) == entry \o blocks \o inode

\* fs_delete: the entry is zeroed, then the target's blocks and inode are
\* freed; the target's inode itself is not rewritten and its children, if it
\* is a directory, are not looked at.  When the second get_inode has no memory
\* (read = FALSE) the call ends after removing the entry.
fs_delete(parent, name, read) ==
    LET dir    == disk.inode[parent]
        p      == Min(Matches(disk, dir, name))
        b      == dir.direct_blocks[p \div Cells]
        target == Lookup(parent, name)
        entry  == <<DataBlock(b, [disk.data[b] EXCEPT ![p % Cells] = ZeroCell]),
                    InodeBlock(parent, [dir EXCEPT !.size = (@ - 1) % Word])>>
        freed  == FreeBlocks(disk.inode[target])
    IN  /\ Idle /\ parent \in held /\ Valid(parent)
        /\ target # 0
        /\ held' = held \ {target}
        /\ UNCHANGED blind
        /\ IF read
           THEN /\ imap' = free_inode(imap, target)
                /\ bmap' = freed.bmap
                /\ lost' = (lost \/ (disk.inode[target].type = "DIR" /\ disk.inode[target].size # 0))
                /\ Start(DeleteOrder(entry, freed.writes, <<InodeBitmap(imap')>>),
                         [content EXCEPT ![target] = Unknown])
           ELSE /\ lost' = TRUE
                /\ Start(entry, [content EXCEPT ![target] = Unknown])
                /\ UNCHANGED <<imap, bmap>>

\* Slip: the block is not read before it is changed.
NewCells_Zeroed(b) == ZeroBlock

\* fs_write reads the block it is about to change, a fresh one included, so a
\* write that covers part of it keeps the other cells.
NewCells(b) == disk.data[b]

\* One round of fs_write's loop.  s holds the block bitmap, the inode, the
\* writes made and the count of bytes written.  A loop that is left, because
\* the direct blocks end or the disk is full, would find the same once more.
WriteRound(s, id, offset, count, payload) ==
    LET p     == offset + s.done
        i     == p \div Cells
        fresh == s.inode.direct_blocks[i] = 0
        b     == IF fresh THEN allocate_block(s.bmap) ELSE s.inode.direct_blocks[i]
        n     == Min({Cells - (p % Cells), count - s.done})
        marks == IF fresh THEN s.bmap \cup {b - 1} ELSE s.bmap
        inode == [s.inode EXCEPT !.direct_blocks[i] = b]
        cells == [j \in 0..(Cells - 1) |->
                    IF j - (p % Cells) \in 0..(n - 1) THEN Byte(payload) ELSE NewCells(b)[j]]
    IN  IF s.done >= count \/ i >= Direct \/ b = 0 THEN s
        ELSE [bmap |-> marks, inode |-> inode, done |-> s.done + n,
              writes |-> s.writes
                \o (IF fresh THEN <<BlockBitmap(marks), InodeBlock(id, inode)>> ELSE <<>>)
                \o <<DataBlock(b, cells)>>]

\* fs_write's loop.  A round writes at least one byte, so count rounds do.
WriteLoop(id, offset, count, payload) ==
    LET loop[k \in 0..count] ==
          IF k = 0 THEN [bmap |-> bmap, inode |-> disk.inode[id], done |-> 0, writes |-> <<>>]
          ELSE WriteRound(loop[k - 1], id, offset, count, payload)
    IN  loop[count]

\* fs_write: block after block until all is written, the direct blocks end or
\* the disk is full, then the inode with its new size if the file grew.
fs_write(id, offset, count, payload) ==
    LET end   == WriteLoop(id, offset, count, payload)
        size  == offset + end.done
        last  == IF size > end.inode.size
                 THEN <<InodeBlock(id, [end.inode EXCEPT !.size = size])>> ELSE <<>>
    IN  /\ Idle /\ id \in held /\ Valid(id)
        /\ disk.inode[id].type = "FILE"
        /\ end.writes \o last # <<>>
        /\ bmap' = end.bmap
        /\ Start(end.writes \o last,
                 [content EXCEPT ![id] = [p \in Positions |->
                    IF p \in offset..(size - 1) THEN payload ELSE @[p]]])
        /\ UNCHANGED <<imap, held, lost, blind>>

\* fs_read: the cells it copies to the buffer.  A count that passes the end of
\* the file is cut to size - offset in 64 bits; the loop also ends at a hole
\* and after the direct blocks.
fs_read(d, id, offset, count) ==
    LET inode == d.inode[id]
        n     == IF (offset + count) % Word > inode.size
                 THEN (inode.size - offset) % Word ELSE count
        stops == {k \in 0..(n - 1) : offset + k \notin Slots(inode)}
    IN  [k \in 1..Min(stops \cup {n}) |-> CellAt(d, inode, offset + k - 1)]

\* Power fails: memory is gone, and the writes of the running call not made
\* yet never happen.
Crash ==
    /\ up /\ crashes < MaxCrashes
    /\ crashes' = crashes + 1
    /\ up' = FALSE
    /\ total' = 0 /\ imap' = {} /\ bmap' = {}
    /\ writes' = <<>>
    /\ held' = {Root}
    /\ promise' = content
    /\ lost' = (lost \/ writes # <<>>)
    /\ UNCHANGED <<disk, content, blind>>

Next ==
    \/ fs_init
    \/ write_block
    \/ \E parent \in Inodes, name \in Names, type \in Types, read \in BOOLEAN :
          fs_create(parent, name, type, read)
    \/ \E parent \in Inodes, name \in Names : fs_lookup(parent, name)
    \/ \E parent \in Inodes, name \in Names, read \in BOOLEAN : fs_delete(parent, name, read)
    \/ \E id \in Inodes, offset \in Offsets, count \in Counts, payload \in Payloads :
          fs_write(id, offset, count, payload)
    \/ Crash

Spec == Init /\ [][Next]_vars

-----------------------------------------------------------------------------
(* What the disk holds *)

Children(i) ==
    IF disk.inode[i].type # "DIR" THEN {}
    ELSE {CellAt(disk, disk.inode[i], p).id : p \in Slots(disk.inode[i])} \ {0}

\* The inodes a path from the root leads to.
Reachable ==
    LET within[n \in 0..(TotalInodes - 1)] ==
          IF n = 0 THEN {Root}
          ELSE LET near == within[n - 1]
               IN  near \cup UNION {Children(i) : i \in near}
    IN  within[TotalInodes - 1]

\* The inodes in use: those on a path and, between calls, those callers hold.
Live == IF disk.magic /\ Idle /\ total # 0 THEN Reachable \cup held ELSE Reachable

Pointers(i) == {<<i, k>> : k \in {m \in 0..(Direct - 1) : disk.inode[i].direct_blocks[m] # 0}}
AllPointers == UNION {Pointers(i) : i \in Live}
Target(x) == disk.inode[x[1]].direct_blocks[x[2]]

LinkTo(x) == CellAt(disk, disk.inode[x[1]], x[2])
Links == {x \in Reachable \X Positions :
            /\ disk.inode[x[1]].type = "DIR"
            /\ x[2] \in Slots(disk.inode[x[1]])
            /\ LinkTo(x).id # 0}

-----------------------------------------------------------------------------
(* Properties *)

\* Types; in particular the bits set in the block bitmap are those of blocks
\* the superblock counts.
TypeOK ==
    /\ disk.magic \in BOOLEAN
    /\ disk.imap \subseteq Inodes /\ disk.bmap \subseteq 0..(TotalBlocks - 1)
    /\ \A i \in Inodes : disk.inode[i] \in Inode
    /\ \A b \in DOMAIN disk.data : \A j \in 0..(Cells - 1) : disk.data[b][j] \in Cell
    /\ up \in BOOLEAN /\ total \in {0, TotalInodes}
    /\ imap \subseteq Inodes /\ bmap \subseteq 0..(TotalBlocks - 1)
    /\ held \subseteq Inodes
    /\ \A i \in Inodes : content[i] \in [Positions -> Payloads \cup {Zero}]
    /\ \A i \in Inodes : promise[i] \in [Positions -> Payloads \cup {Zero}]
    /\ crashes \in 0..MaxCrashes
    /\ lost \in BOOLEAN /\ blind \in BOOLEAN

\* At every moment, whatever block write a crash comes after: an inode a path
\* leads to is marked in the inode bitmap and has a type, and a block such an
\* inode points to is a data block marked in the block bitmap.  It rests on
\* the order of the writes in fs_create, fs_delete and fs_write.
NothingDangles ==
    disk.magic =>
      /\ \A i \in Reachable : i \in disk.imap /\ disk.inode[i].type # "NONE"
      /\ \A x \in AllPointers : Target(x) > DataStart /\ Target(x) - 1 \in disk.bmap

\* At every moment no block is pointed to from two places, and no inode has
\* two directory entries.
NoCrossLinks ==
    /\ \A x, y \in AllPointers : Target(x) = Target(y) => x = y
    /\ \A x, y \in Links : LinkTo(x).id = LinkTo(y).id => x = y

\* At every moment no directory has two entries with one name: the check in
\* fs_create covers slots reused after a delete and blocks added later.  The
\* exception is a create whose lookup had no memory and took the name for
\* absent.
NamesUnique == ~blind =>
    \A x, y \in Links : (x[1] = y[1] /\ LinkTo(x).name = LinkTo(y).name) => x = y

\* Bytes written by an fs_write that returned are what fs_read gives back, in
\* every file a path or a caller leads to, after other files have come, grown
\* and gone, and after any number of crashes.
ReadsBack ==
    writes = <<>> =>
      \A i \in Live, p \in Positions : content[i][p] # Zero =>
         fs_read(disk, i, p, 1) = <<Byte(content[i][p])>>

\* What a check of the disk expects: the bitmaps mark exactly what paths lead
\* to, and the size of a directory counts its entries.
Clean ==
    /\ disk.imap = Reachable
    /\ disk.bmap = Reserved \cup {Target(x) - 1 : x \in UNION {Pointers(i) : i \in Reachable}}
    /\ \A i \in Reachable : disk.inode[i].type = "DIR" =>
          disk.inode[i].size = Cardinality({p \in Positions : <<i, p>> \in Links})

\* Unless power failed inside a call, a directory had no room for an entry, a
\* directory was deleted with entries in it, or fs_delete had no memory, the
\* disk is clean whenever no call is running: nothing leaks.
CleanUnlessDisturbed == disk.magic /\ writes = <<>> /\ ~lost => Clean
=============================================================================
