------------------------------ MODULE PageTables ------------------------------
(***************************************************************************)
(* The page tables of src/kern/memory/vm_maps.c: the kernel's, which       *)
(* cpu_enable_mmu builds and switches on, and the tasks', which are copies *)
(* of its first level.                                                     *)
(*                                                                         *)
(* Addresses count blocks of BLOCK_SIZE, 2 MB; a table has Entries entries *)
(* in place of 512, so a table of blocks spans Entries of them, which is   *)
(* the first gigabyte.  An entry is invalid, a block or a table.           *)
(***************************************************************************)
EXTENDS Naturals

CONSTANTS Entries,
          FbBlocks,    \* blocks of the framebuffer
          Pages,       \* pages of the heap that become tables
          Null         \* address 0, where a table may be all the same

VARIABLES tables,      \* address |-> table
          heap,        \* kmalloc_init was called
          tcr,         \* the width of an address, 64 less the T0SZ field
          ttbr0,
          mmu,         \* SCTLR_EL1.M
          task_tables  \* what vm_create_task_pagetable has returned

vars == <<tables, heap, tcr, ttbr0, mmu, task_tables>>

MT_DEVICE_NGNRNE == "device"
MT_NORMAL        == "normal"
INITIAL_MAPPING_BASE == Entries

Invalid        == [kind |-> "invalid"]
Block(pa, type) == [kind |-> "block", pa |-> pa, type |-> type]
Table(address) == [kind |-> "table", table |-> address]
Cleared        == [i \in 0 .. (Entries - 1) |-> Invalid]

Static == {"kernel_l1_page_table", "kernel_l2_page_table"}

\* At reset the tables are zero and the MMU is off.
Init ==
    /\ tables = [t \in Static |-> Cleared]
    /\ heap = FALSE
    /\ tcr = 0 /\ ttbr0 = Null /\ mmu = FALSE
    /\ task_tables = {}

With(fn, address, table) ==
    [t \in DOMAIN fn \cup {address} |-> IF t = address THEN table ELSE fn[t]]

\* kmalloc of a page: nothing before kmalloc_init, and possibly nothing after.
\* Taken to be aligned as a table must be; the heap aligns to 8 bytes.
kmalloc(page) == page = Null \/ (heap /\ page \in Pages \ DOMAIN tables)

\* The first gigabyte as blocks, through the static second level.
FirstGigabyte ==
    [tables EXCEPT
       !["kernel_l1_page_table"] = [Cleared EXCEPT ![0] = Table("kernel_l2_page_table")],
       !["kernel_l2_page_table"] = [i \in 0 .. (Entries - 1) |-> Block(i, MT_NORMAL)]]

\* The framebuffer's blocks in the table that its entry of the first level names,
\* a cleared one at the address kmalloc returned if it names none.
MapFramebuffer(fn, page) ==
    LET l1     == fn["kernel_l1_page_table"]
        l1_idx == (INITIAL_MAPPING_BASE \div Entries) % Entries
        missing == l1[l1_idx] = Invalid
        fb_l2  == IF missing THEN page ELSE l1[l1_idx].table
        old    == IF missing THEN Cleared ELSE fn[fb_l2]
        blocks == INITIAL_MAPPING_BASE .. (INITIAL_MAPPING_BASE + FbBlocks - 1)
        new    == [i \in 0 .. (Entries - 1) |->
                     IF \E pa \in blocks : pa % Entries = i
                     THEN Block(CHOOSE pa \in blocks : pa % Entries = i, MT_DEVICE_NGNRNE)
                     ELSE old[i]]
    IN  With([fn EXCEPT !["kernel_l1_page_table"][l1_idx] = Table(fb_l2)], fb_l2, new)

\* cpu_enable_mmu, which kernel_main calls once, before kmalloc_init.
cpu_enable_mmu ==
    /\ ~mmu
    /\ \E page \in Pages \cup {Null} :
         kmalloc(page) /\ tables' = MapFramebuffer(FirstGigabyte, page)
    /\ tcr' = 48 /\ ttbr0' = "kernel_l1_page_table" /\ mmu' = TRUE
    /\ UNCHANGED <<heap, task_tables>>

kmalloc_init ==
    /\ mmu /\ ~heap /\ heap' = TRUE
    /\ UNCHANGED <<tables, tcr, ttbr0, mmu, task_tables>>

\* vm_create_task_pagetable: a copy of the kernel's first level; without memory
\* it returns 0 and nothing has changed.
vm_create_task_pagetable ==
    /\ heap
    /\ \E page \in Pages :
         /\ kmalloc(page)
         /\ tables' = With(tables, page, tables["kernel_l1_page_table"])
         /\ task_tables' = task_tables \cup {page}
    /\ UNCHANGED <<heap, tcr, ttbr0, mmu>>

\* sched_schedule and sched_yield switch to a task's table.
SwitchTable ==
    /\ \E page \in task_tables : ttbr0' = page
    /\ UNCHANGED <<tables, heap, tcr, mmu, task_tables>>

Next == cpu_enable_mmu \/ kmalloc_init \/ vm_create_task_pagetable \/ SwitchTable

Spec == Init /\ [][Next]_vars

-----------------------------------------------------------------------------
(* The processor's table walk with pages of 4 KB.  An address of 40 to 48   *)
(* bits is looked up from level 0, one of 31 to 39 bits from level 1.       *)

StartLevel == IF tcr > 39 THEN 0 ELSE 1

\* Blocks that an entry of a level spans; one of level 0 cannot be a block.
Span(level) == Entries ^ (2 - level)

Fault == [pa |-> 0, type |-> "fault"]

Translate(va) ==
    LET walk[level \in 0 .. 2] == [t \in DOMAIN tables |->
          LET e == tables[t][(va \div Span(level)) % Entries] IN
          CASE e.kind = "block" /\ level > 0 ->
                 [pa |-> Span(level) * (e.pa \div Span(level)) + (va % Span(level)), type |-> e.type]
            [] e.kind = "table" /\ level < 2 -> walk[level + 1][e.table]
            [] OTHER -> Fault]
    IN  walk[StartLevel][ttbr0]

\* vm_maps.c:178 says "map the framebuffer as device memory, assuming framebuffer
\* is 16mb at 0x40000000": with the MMU on, an access to an address of the
\* framebuffer goes to that address, as device memory.
FramebufferIsDevice ==
    mmu => \A va \in INITIAL_MAPPING_BASE .. (INITIAL_MAPPING_BASE + FbBlocks - 1) :
              Translate(va) = [pa |-> va, type |-> MT_DEVICE_NGNRNE]
=============================================================================
