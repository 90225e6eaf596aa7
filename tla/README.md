# AstralOS in TLA+

TLA+ models of the kernel under `src/kern`, TLC configurations that check them
on small instances, and TLAPS proofs for the heap, the scheduler, the mapping
table, the file system, the block drivers, the virtual file system and the
console.
`PROJECT.json` maps each definition to the lines it models and lists the runs,
mutants, hazards, findings and theorems.

Checking: `tlc -config X.cfg M` for a run, `tlapm M.tla` for the proofs of a
module (`NatLemmas` and those whose names end in `Proofs`).

## The system

AstralOS boots one ARMv8 core (the boot code parks the others), calls
`kernel_main`, sets up memory, device, file system and tasks, enables the timer
interrupt and hands the core to the first task.

| Part | State | Operations | Interacts with |
|---|---|---|---|
| kernel heap `memory/kmalloc.c` | a singly linked list of block headers inside the heap | `kmalloc_init`, `kmalloc` (first fit, split), `kfree` (mark, one merging pass) | called by everyone, no lock |
| scheduler `sched/astral_sched.c` | `task_list`, `num_tasks`, `current_task(_index)`, `sched_lock` | `sched_init`, `sched_create_task`, `sched_add_task`, `sched_schedule`, `sched_yield` | heap, page tables, context switch, timer |
| timer, exception entry `drivers/timer`, `cpu/exceptions.s` | comparator, interrupt mask | interrupt entry, `timer_handle_interrupt`, `eret` | calls `sched_yield` above whatever ran |
| context switch `cpu/context_switch.s` | registers, two contexts | save old, restore new | called by `sched_yield` |
| mapping table `memory/vm_maps.c`, `security/security.c` | 64 entries: address, size, flags | `vm_init`, `vm_map`, `vm_unmap`, `vm_protect`, `vm_map_allocate`, `security_enforce_wx` | bookkeeping only |
| page tables `memory/vm_maps.c` | two static tables, one for the framebuffer, one copy per task | `cpu_enable_mmu`, `vm_create_task_pagetable` | heap, scheduler |
| file system `fs/fs.c` | superblock, two bitmaps in memory; those, inodes and data on disk | `fs_init`, `fs_create`, `fs_lookup`, `fs_delete`, `fs_write`, `fs_read` | block device, heap |
| block device `drivers/block` | the active device, a descriptor in memory, controller registers | `ufs_init`, `block_device_read`, `block_device_write` through UFS or eMMC, by polling | file system, the controllers |
| device tree `boot/dtb.c` | none | `dtb_get_property` | decides panic and heap size in `kernel_main` |
| virtual file system `fs/vfs.c` | nodes linked by parent, child, sibling | `vfs_init`, `vfs_create_dir`, `vfs_create_file`, `vfs_lookup`, `vfs_mount` | heap, kernel start; no lock |
| console `debug/kprintf.c`, `lib/lib.c` | one cursor, the framebuffer | `kprintf`, `snprintf` | called by every task, no lock |
| panic, boot code, font | see "Not modelled" | | |

What is hard to test here, and what each part has to keep true:

- **Heap.** Long sequences of calls reshape the list: blocks must tile the heap,
  live allocations must not overlap, an allocation may fail only when nothing
  fits, and freed neighbours must merge.
- **Scheduler.** The timer fires between any two instructions: inside the
  critical section, between releasing the lock and switching, inside
  `sched_schedule`. The lock, the current task and its page table must stay
  consistent, and every task should run.
- **File system.** Each call is several block writes and power may fail between
  any two: paths must not lead to free inodes or blocks, no block may be shared,
  and written bytes must come back.
- **Mapping table.** Ranges that wrap at 2^64, flags that free an entry, and
  refusals that the caller is not told of.
- **Page tables.** Two constants have to agree with the shape of the tables:
  the level at which the walk begins, and where each table is.
- **Block device.** Every wait is a loop without a timeout on a register that
  the controller changes at its own time; one descriptor and one status bit are
  used again and again.
- **Virtual file system, console.** Tasks that are switched between anywhere
  walk and change lists, or move one cursor, without a lock.
- **Formatting.** Buffers that a conversion fills exactly, or but for one byte.
- **Device tree.** The path search is a small state machine that decides whether
  the kernel starts at all.

## Modules

| Module | Models | State and actions |
|---|---|---|
| `HeapContract` | what callers may rely on from an allocator | the set of live allocations; allocate a disjoint range, refuse, release |
| `Kmalloc` | `kmalloc.c` | the header list; each call, each loop iteration of both loops is an action |
| `KmallocProofs` | | proofs about `Kmalloc` |
| `Sched` | `astral_sched.c`, the end of `kernel_main`, timer entry and exit, `context_switch` from its caller's side | the static variables under their names, plus the running continuation (owner and frames), the saved ones, the mask and the active page table |
| `SchedProofs` | | proofs about `Sched` |
| `ContextSwitch` | `context_switch.s` | registers and memory; one action per register pair |
| `VmMap` | the mapping table and the W^X helper | the table; one action per call |
| `VmMapProofs` | | proofs about `VmMap` |
| `NatLemmas` | | a least element, and induction over the naturals in the form of sets, for the proofs |
| `Fs` (`MCFs` adds symmetry) | `fs.c` over a block device | disk, bitmaps in memory, the block writes still to be made; one action per call, `write_block`, `Crash` |
| `FsProofs` | | proofs about `Fs` |
| `PageTables` | `cpu_enable_mmu`, `vm_create_task_pagetable`, and the processor's table walk | tables by address, the registers; one action per call |
| `BlockStore` | what callers may rely on from a block device | blocks, the caller's buffer, how far the call is; begin, transfer, return, refuse |
| `BlockDevice` (`MCBlockDevice` gives buffers) | `block_device.c` with both controllers | registers and descriptor; one action per access or polling loop of the driver, and the controllers' steps |
| `BlockDeviceProofs` | | proofs about `BlockDevice` |
| `VfsTree` | what `vfs.c` says of its tree | the root, directories as sequences; make the root, add a node as the last child |
| `Vfs` | `vfs.c`, and `kmalloc` as it uses it | marked blocks, nodes under their field names, each caller's locals; one action per access to a link, and one each for the check and the mark of `kmalloc` |
| `VfsProofs` | | proofs about `Vfs` |
| `Format` | `vsnprintf`, `itoa` | operators, next to a reference definition (`Expansion`, `Numeral`) |
| `Console` (`MCConsole` gives messages and bounds) | `kprintf.c` | cursor, screen, each caller's text and registers; one action per access to the cursor |
| `ConsoleProofs` | | proofs about `Console` |
| `Dtb` | `dtb_get_property` with the two queries that decide how `kernel_main` starts | tokens left, depth, path segment; one action per token |

`Kmalloc` implements `HeapContract` (`ImplementsContract`, a refinement with
`live` mapped to itself), `BlockDevice` implements `BlockStore`
(`ImplementsStore`), and `Vfs` implements `VfsTree` until calls overlap
(`ImplementsTree`, the list of siblings mapped to a sequence).

Operators whose comment begins with "Slip" are plausible mistakes. Each property
of a passing run has one, and fails when the slip replaces the definition behind
it.

### What the models abstract

- **Sched.** One core. A stretch under the lock that touches shared state only
  between acquire and release is one action that ends in the release; an
  interrupt inside it is represented by the state at its beginning, with the lock
  held, and can do no more than spin. An interrupt is assumed to reach `el1_irq`
  and to restore what it saved; the spacing of the vector table and the
  save/restore macros are not modelled. `context_switch` has two outcomes,
  chosen by a constant: "resume" (its comments) and "wild" (its instructions,
  see `ContextSwitch`). Nothing is assumed about the code after a wild jump. The
  loads of the first task's stack pointer and entry and the branch to it are one
  step. The
  mask is not part of the context, because the code does not switch it.
- **Kmalloc.** Payload bytes are not modelled, so a caller that writes outside
  its allocation is not. Callers free only what they hold. Calls do not overlap:
  `kernel_main` makes them all before tasks run. What overlapping calls do to
  their callers is modelled in `Vfs`.
- **VmMap.** Physical addresses are stored and never read; they are left out. A
  free entry keeps its address and size, as in the code.
- **Fs.** A call runs to its end before the next one (nothing in `fs.c` yields
  and `kernel_main` starts it with interrupts masked), so only its block writes
  are spread over steps. A block write is atomic. A cell is both the unit of a
  directory (an entry) and of a file (a byte). `get_inode` can fail for lack of
  memory. In the second read of `fs_delete` this leaves work half done; in the
  lookup that `fs_create` makes it is taken for an absent name, so that a
  duplicate can be created. Both are modelled; elsewhere the call returns without
  effect. The counters
  `free_blocks` and `free_inodes` are not read by anything. The formatting
  branch of `fs_init` needs a read error, which the UFS driver never reports; the
  layout it would produce is the initial disk, next to one without the magic
  number, whose superblock is taken to be zero: the code goes on with whatever
  counts it has read. The loop that reserves metadata bits runs to `data_start_block`
  inclusive. Block numbers are bit positions plus one, so block `total_blocks`
  is used and must exist on the device. Callers forget the number of an inode
  they delete. Offsets stay below 2^32 blocks, where the cast to a 32-bit index
  is exact. The eMMC driver transfers 512 bytes where the file system expects
  4096; the model's device transfers a block.
- **PageTables.** Addresses count blocks of 2 MB, tables have four entries in
  place of 512; all that matters is that a table of blocks spans what one entry
  of the level above does. The walk is the processor's: 40 to 48 address bits
  begin at level 0, and a block of level 1 ignores the address bits below its
  own. Memory at address 0 is taken to hold what is written there, and pages
  from `kmalloc` to begin where a table may, though the heap aligns to 8 bytes
  only; the violation that is shown needs neither. TLB
  invalidation is left out, since no table changes while it is in use.
- **BlockDevice.** One caller at a time. The controllers are known only from the
  drivers: a step of theirs comes at any time after it is asked for, and the eMMC
  controller reports completion of every command, which is what
  `emmc_send_command` waits for. A block is a few words. Errors are not modelled
  because the drivers never look for them. The UFS controller may or may not
  have been started by firmware, since nothing in the kernel calls `ufs_init`.
  Accesses take effect in program order, although the descriptor is written with
  ordinary stores and no barrier comes before the doorbell. Both drivers move
  blocks of the same number of words.
- **Vfs.** `kernel_main` makes its calls one after another; `overlapped` records
  that a call began before another had ended, as it may among tasks. Calls
  interleave at every access to a link that another can see, and inside `kmalloc`
  between its check of a block and its mark on it. There two creations can be
  given the same node (`shared` records it); what follows depends on whose stores
  come last, and nothing is claimed from then on. `vfs.c` says that a creation
  adds its node as the last child: this is `ImplementsTree` and
  `ReturnedAreListed`, and holds until calls overlap. Then a creation can be lost,
  and what is left is `UndoesOnlyRecent`. It, `LinksFormTree` and
  `LookupFindsOldest` are
  therefore statements about `vfs.c` given a heap that serves each caller. Until
  then a new node is private until it is linked, and a walk of `kmalloc` over
  blocks in use is one step, since nothing is freed. A pointer that is tested and
  then used is read once: a later second read acts like a later single one,
  because links never become null again. Names are compared only. `vfs_read` and
  `vfs_write` change no node.
- **Format, Console.** A format is a sequence of characters and conversions.
  Numbers have eight bits in place of 64. A '%' has a letter behind it
  (`vsnprintf` steps over the terminator of a format that ends in one), and `i`
  and `p`, which are `d` and `x`, are left out. Conversions `vsnprintf` does not know
  (the `%llx` of `kernel.c` and `vm_maps.c`) are skipped without their argument,
  and `%x` of a number from 2^63 on has no digits to show for it; the reference
  is compared where neither occurs. The cursor is shared without a lock: a caller
  may go on with a value in a register or load it again, and keeps what it has
  loaded, except behind the calls
  of `memcpy` and `memset`. Glyphs and screen are followed until two calls
  overlap; from then on only the cursor is.
- **Dtb.** Names are compared up to '@'; byte order and alignment are left out.
- **ContextSwitch.** The first switch from a running task to a fresh one. Memory
  not known to hold anything reads as 0, which includes the new task's
  instructions.

## Runs

| Run | Shows |
|---|---|
| `kmalloc` | tiling, ownership, completeness of first fit, at most one unmerged free pair between calls, calls return, refinement of `HeapContract` |
| `sched` | mutual exclusion, no task is switched out with the lock, the mask is on exactly while one handler is outstanding, index, task and page table agree, memory leaks only when the list is full, contexts go to their own control blocks unless a tick falls between unlock and switch; with the timer silent and `context_switch` as commented each listed task runs |
| `sched_lock` | violation of `TimerGetsThrough`: a timer tick inside the critical section spins for ever |
| `context_switch` | violation of `ReturnsToNewContext`: the first restoring load overwrites its base register |
| `vm_map` | mappings that do not wrap stay apart; W^X takes hold unless an empty or wrapping mapping shares the address; an allocated address is unmapped only if something overlaps it |
| `mmu` | violation of `FramebufferIsDevice`: the tables are one level off, the framebuffer's addresses lead to normal memory at address 0 |
| `fs_tree` | at each moment, crash or not: nothing reachable is free, nothing is shared, names are unique (unless `fs_create` had no memory for its lookup); undisturbed, the bitmaps are exact |
| `fs_data` | completed writes are read back after other calls and a crash |
| `dtb_boot` | violation of `PanicsOnlyWithoutFramebuffer`: no path below the root is ever found |
| `block` | calls move their words in order and return only when these have arrived; the descriptor does not change while the doorbell is rung; calls return |
| `console` | formatting agrees with the reference; without overlap the screen shows the last lines; with overlap `cursor_x` always comes back to the line |
| `vfs` | until calls overlap they implement `VfsTree`: each creation adds a new node as the last child; whatever was returned stays listed; calls return. Overlapping calls, while each creation has a node of its own: links form a tree; a creation takes out only nodes linked since it began; a lookup finds the oldest node of a name that stays |

The four violations are the findings in `PROJECT.json`, each with the line of the
repository that says otherwise.

### Bounds

- `Kmalloc`: 228 bytes hold seven of the smallest blocks, so lists have free
  blocks before, behind and between used ones; the four odd bytes give the last
  block an unaligned size. The request sizes are zero, one that needs rounding,
  one that takes the room of several blocks, and the largest that rounding does
  not wrap.
- `Sched`: three slots and four creations overfill the list; each creation may
  fail at any of its allocations, so zero to three tasks are listed. Two
  handlers above the task's own frame: one more than the mask allows, so a
  nested handler would show.
- `VmMap`: three slots fill up; sizes include empty, more than one allocation
  step, and one that wraps.
- `Fs`: three inodes and three data blocks run out; two blocks of two cells make
  directories and files grow by a block. Writes cross a block boundary, leave a
  hole in front, and run past the last direct block. One crash, between any two
  block writes, followed by every continuation. `fs_tree` has directories and
  files with one kind of write, `fs_data` files alone with two. Sizes are taken
  modulo `Word` = 8, above the largest size. Names are symmetric: they are only
  compared for equality.
- `PageTables`: tables of four entries, a framebuffer of two blocks.
- `BlockDevice`: three blocks of two words, calls of up to two blocks and of
  none, two values; a call begins while the status of the one before is still
  set if the driver forgets to clear it.
- `Vfs`: the root and three nodes, so that two creations race behind a child
  that is there. One caller looks up one of the two names: names are alike, and
  lookups change nothing. One node is mounted on. The run stops where the heap
  has given one node to two creations (`OwnNodes`), from where on its properties
  claim nothing.
- `Console`: a screen of two columns, two rows and half a row more, a buffer of
  three bytes, so that messages are cut; the cursor goes at most two cells off
  the screen (`NearScreen`), since only 2^29 overlapping calls would bring it
  round. Formats of up to two conversions with buffers of one to four bytes, and
  each number of eight bits.
- `Dtb`: up to two children of the root with at most one property each.

### Fairness

`Sched` assumes weak fairness of what the running code does by itself: the core
keeps executing. It assumes nothing of the timer. `Kmalloc` assumes it of the
loop steps and nothing of the callers. `BlockDevice` assumes it of the driver
while a call is under way and of each controller: hardware that never answers
hangs the kernel, because there is no timeout. `Vfs` assumes
that the core goes on with one call or another, not with each: nothing is claimed
about when a call that was preempted returns, since the scheduler does not
guarantee that it does. The other models have
no liveness properties. Deadlock is checked where the system cannot stop
(`kmalloc`, `vm_map`, `vfs`, `console`). Elsewhere it may: the scheduler's core
halts or spins, a call to a UFS controller that was never started does not
return, and a file system on a disk of zeros refuses each call.

## Proofs

Each theorem holds for every value of the constants that satisfies the named
assumptions of its model. The inductive invariants were first checked by TLC on
the instance of the model's run, except that of `FsProofs`, which quantifies over
sequences of disks; what it says of one disk was.

| Module | Theorem | Property |
|---|---|---|
| `KmallocProofs` | `TypeCorrect`, `Tiling`, `Ownership`, `FirstFitIsComplete`, `FragmentationBound`, `HeapImplementsContract` | `TypeOK`, `HeapTiled`, `LiveBlocksAreUsed`, `FailsOnlyWhenFull`, `AtMostOneFreePair`, `ImplementsContract` |
| `SchedProofs` | `SchedTypeCorrect`, `LockIsExclusive`, `CurrentTaskConsistent`, `LeaksOnlyToFullList`, `ContextsGoHome`, `OneHandlerMasks` | `TypeOK`, `LockHeldByOne`, `CurrentIsConsistent`, `LeaksOnlyWhenFull`, `SavesOwnContext`, `MaskedByOneHandler` |
| `VmMapProofs` | `TableTypeCorrect`, `MappingsStayApart`, `EnforcementIsEffective`, `AllocationLosesOnlyToOverlap` | `TypeOK`, `NoOverlap`, `EnforcedHolds`, `LostOnlyToOverlap` |
| `BlockDeviceProofs` | `DeviceTypeCorrect`, `DriversImplementStore`, `DescriptorIsStable` | `TypeOK`, `ImplementsStore`, `DescriptorStable` |
| `FsProofs` | `TypesHold`, `NothingEverDangles`, `NeverCrossLinked`, `NamesStayUnique`, `WritesReadBack`, `CleanWhenUndisturbed` | `TypeOK`, `NothingDangles`, `NoCrossLinks`, `NamesUnique`, `ReadsBack`, `CleanUnlessDisturbed` |
| `VfsProofs` | `NodesTypeCorrect`, `LinksAreTree`, `LookupIsOldest`, `DamageIsRecent`, `NothingIsLost`, `LinksImplementTree` | `TypeOK`, `LinksFormTree`, `LookupFindsOldest`, `UndoesOnlyRecent`, `ReturnedAreListed`, `ImplementsTree` |
| `ConsoleProofs` | `TypesHold`, `ScreenIsFaithful`, `CursorStaysInLine` | `TypeOK`, `ScreenShowsLastLines`, `CursorComesBack` (while the cursor does not go round 2^32) |

**`KmallocProofs`** (from `HeapAssumption`: the heap starts above address 0, has
room for a header, ends inside the address space, and no request wraps when
rounded). The inductive invariant `HeapInv` is the conjunction of `TypeOK`, that
the first header is listed once the heap is set up, that a search has a request,
`HeapTiled`, `LiveBlocksAreUsed` and `FailsOnlyWhenFull`. Tiling is needed for
the rest: that the end of each block is its successor or the end of the heap is
what makes the header a split creates new, and the one a merge drops not live.
Lemmas state what `Mark`, `Split` and `Merge` do to headers and to the tiling.
`FragmentationBound`: `kfree` looks at each pair once, moving on after a merge,
so it can leave a pair. `PairInv` says that between calls there is at most one,
and during the pass: at most one pair is behind the cursor; once one is, no three
free neighbours are ahead; and runs of three free blocks ahead are the same run
or overlap, so that the pass resolves them. `HeapImplementsContract`: each step is
a step of `HeapContract` or leaves it unchanged.

**`SchedProofs`** (from `SchedAssumption`: sizes are natural numbers; either
outcome of `context_switch`). `BaseInv` describes continuations: `TypeInv`; the
shape of frames (`ShapeInv`: a handler is inside `sched_yield`, what a control
block holds is a task that has not started or one inside the call of
`context_switch`); the list is filled from the front (`ListInv`); until a task is
chosen nothing was switched (`StartInv`). Actions replace, push or pop the
executing frame, and the lemmas on these three carry each invariant over all
actions alike. On top of it:

- `LockInv` names the frame that holds the lock and says that whatever runs above
  it waits at `spinlock_acquire`. `LockHeldByOne` alone would not rule out that a
  handler above the holder comes past the lock.
- `CurrentInv` drops the condition that the lock is free, which no step needs.
- `RaceInv`, for `SavesOwnContext`: without an interrupt between unlock and
  switch the running task is the current one outside that window and the old one
  inside it, and no saved or interrupted frame is in the window.
- `OwnInv` and `MaskInv`, for `MaskedByOneHandler`: the property assumes that
  each context is in its own control block, an assumption that may become false
  and, for an induction, must not become true again. `OwnInv` says that once it is
  false some context has no copy left, and a context that is gone does not come
  back. `MaskInv` bounds the handlers of each continuation by one and names the
  outstanding one.

**`VmMapProofs`** (from `VmAssumption`). `VmInv` is the table's type with the
pairwise separation of mappings that do not wrap. That a scan finds the first
match is `LeastElement`. `EnforcedHolds` and `LostOnlyToOverlap` look back at the
last call: `vm_protect` takes the first entry with the address, and by the
separation any other entry there is empty, wraps, or is that one.

**`BlockDeviceProofs`** (from `BlockDeviceAssumption`, whose moduli say that the
fields of the descriptor hold every address and length a call may have, and
`NoCallAssumption`, that the value for "no call" is not a call). `CallInv` ties
the driver's position to the call and lets it return only with the last word;
`UfsInv` says that the doorbell is rung only while the driver polls it, for the
descriptor of this call; `EmmcInv` says for each wait what the status bits may
show, and through `Moving` that the FIFO holds exactly the words between what the
driver and what the card have done. `NextStep` proves for each action that it
keeps the invariant and is a step of `BlockStore` or leaves it unchanged. That no
status is left from the call before follows from `Resting` outside of calls.

**`FsProofs`** (from `FsAssumption`: there is an inode, a direct block, a cell and
a data block; the bytes of the direct blocks and every offset are below `Word`,
which is 2^64 in the code, where the direct blocks of a file hold 40 KB; a name
and a written byte differ from the zero `memset` leaves). A call has fixed its
block writes when it starts, and power may fail after each of them. `FsInv`
therefore is about every disk that `writes` leads through (`Through`): for each
there is a set of inodes in use that has the root, is closed under directory
entries, and for which the disk is `Sound`. This means that its inodes are marked
and have a type, their blocks are marked, no two pointers lead to one block and no
two entries to one inode, names differ within a directory, and files hold the bytes
that completed writes left. The set is not the reachable inodes but contains them:
between two writes of a create it lacks the new inode or has it already, and a
caller may hold an inode whose directory was deleted, so soundness of what is
reachable alone is not inductive. At the end of the writes the disk agrees with the
bitmaps in memory, and, unless something is known to have leaked, it is `Tidy`:
nothing else is marked, and the set is the least closed one.

`write_block` and `Crash` only drop disks from the front or from behind. Each call
is a claim about its own writes, one lemma per write: marking something, an inode
that is not in use yet, an entry for it in a free slot, the zeroing of a slot, and
so on. The loops of `fs_write` and of the freeing of blocks are recursive functions
of the round, and the claim is carried along them by `SetInduction`. `Reachable` is
a recursive function too. That it is within every closed set is an induction over
its rounds; that it is itself closed (needed for `CleanWhenUndisturbed` only) is an
argument by cardinality: each round adds an inode until one adds none, and there
are as many rounds as inodes besides the root.

**`VfsProofs`** (from `VfsAssumption`). The invariant `Inv` holds as long as each
creation has a node of its own (`OwnInv`). `LinkInv` says that links lead only to
nodes whose creation has ended, of the right parent; `CallInv` that a new node is
its creator's alone and without links, and that every walk is at a node of its
directory, in the list or dropped from it. `KidsInv` says that each directory has
a list: a sequence of different nodes, each the sibling of the one before, the
last without one. A sequence of different nodes is no longer than there are
nodes, so the cut-off in `Children` does not matter, and by induction over its
length the walk along such a chain yields it (`WalkAlongChain`): a list is known
as soon as some sequence satisfies `ChildList`. `LinkKids` says what linking does
to it: the node comes behind the place the walk ended at, what stood behind that
place is dropped, and if the place itself had been dropped the list is as before.
Two invariants are over these lists. `LookupInv`: what a lookup is to find is
ahead of it, with none of that name between. `SinceInv`: what stands behind the
place of a creation has come since it began, and a place that is no longer in the
list was dropped by a creation that ended since. With `LinkKids` this is
`UndoesOnlyRecent`. Until calls overlap (`AloneInv`), `TurnsInv` says that nothing has
come since a creation began and that the block it has checked is still free. So
its mark is the first one (`NeverShared`), the place of its walk is the end of
the list, and linking appends (`LinkAppends`), from which `NothingIsLost` and
`ImplementsTree` follow.

**`ConsoleProofs`** (from `ConsoleAssumption`: the screen has a row for every
caller and a column, and is far smaller than 2^32 pixels in each direction; and
`MessagesAssumption`: the arguments of a message fit its conversions, so that what
the conversions write is a sequence of characters, of whatever length).
`BoundsInv`, for `TypeOK`: every text still to be put out is shorter than the
buffer, because `Terminated` gives the last byte to the terminator, and is not
empty while one of its characters is being put out.
`ScreenInv` says for each point of the loop, of the only call under way, where the
cursor stands relative to the history of lines and whether the scroll is still to
come. `RoomInv`: a cursor too far right was stored by a call that is about to
compare it. The comparison of kprintf.c:78 adds before it compares, so a cursor
less than a glyph from 2^32 passes for one on the left. It takes 2^29 overlapping
calls to bring it there; `CursorStaysInLine` therefore assumes that it does not
happen, and the run assumes the stronger `NearScreen`.

Induction over data is used in the form of sets: `SetInduction` of `NatLemmas`
says that a set with 0 and the successor of each of its elements has every
number. It proves that the recursive function `ListFrom` exists and what it
computes.

Only model-checked:

- liveness (`CallsReturn`, `EveryTaskRuns`, `TimerGetsThrough`): the prover does
  not handle fairness;
- `FormatsAsExpected` of `Console`: it compares what two recursive definitions
  compute, the fold over a format and the digits of a number;
- `Dtb`, `ContextSwitch`, `PageTables`: their runs show violations, and there is
  nothing to prove.

## Not modelled

- Exception entry at register level: `save_context` and `restore_context`, which
  pops with the addressing mode of a push, and the vector table, whose entries
  are four bytes apart. `Sched` assumes that an interrupt reaches its handler and
  that registers come back.
- `uart_init`, timer registers, boot code, per-core state: straight-line set-up,
  one core.
- Font: data.
- `dtb_find_node` and `dtb_get_framebuffer_info`: no caller.
- `vfs_read` and `vfs_write`: they change nothing, and their calls of `fs_read`
  and `fs_write` do not match the declarations.

## Plan

Modelled: heap (everything allocates from it), scheduler with its interrupts,
mapping table and page tables, file system with crashes, block drivers, virtual
file system, console, device tree search.

Proved: all invariants and action properties of `Kmalloc`, `Sched`, `VmMap`,
`BlockDevice`, `Fs` and `Vfs`, the three refinements, and those of `Console` but
`FormatsAsExpected`. What is left would need more of the system modelled first:
the exception entry at register level, and what a caller finds through the number
of a deleted inode.
