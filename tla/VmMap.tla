------------------------------- MODULE VmMap -------------------------------
(***************************************************************************)
(* The table of virtual memory mappings, src/kern/memory/vm_maps.c, and    *)
(* the W^X helper above it, src/kern/security/security.c.  The table is    *)
(* bookkeeping only: none of its functions touches a page table.           *)
(*                                                                         *)
(* An entry is free when its protection flags are exactly VM_PROT_FREE; it *)
(* keeps its range until it is used again.  Physical addresses are stored  *)
(* and never read; they are left out.                                      *)
(***************************************************************************)
EXTENDS Integers

CONSTANTS NumEntries,      \* MAX_VM_MAP_ENTRIES
          WordSize,        \* 2^64: the range of uint64_t
          KernelSize,      \* size of the mapping that vm_init makes
          AllocBase,       \* INITIAL_MAPPING_BASE
          AllocAlign,      \* ALLOC_ALIGN
          Addresses,       \* addresses that callers pass
          Sizes,           \* sizes that callers pass
          Flags            \* protection flags that callers pass

ASSUME VmAssumption ==
    /\ NumEntries \in Nat \ {0}
    /\ WordSize \in Nat
    /\ KernelSize \in 1 .. (WordSize - 1)
    /\ AllocBase \in Nat
    /\ AllocAlign \in Nat \ {0}
    /\ AllocBase + NumEntries * AllocAlign < WordSize
    /\ Addresses \subseteq 0 .. (WordSize - 1)
    /\ Sizes \subseteq 0 .. (WordSize - 1)
    /\ Flags \subseteq SUBSET {"READ", "WRITE", "EXEC", "KERNEL", "FREE"}

VM_PROT_NONE == {}
VM_PROT_FREE == {"FREE"}
KernelFlags  == {"READ", "WRITE", "EXEC", "KERNEL"}

Slots == 0 .. (NumEntries - 1)

VARIABLES
    vm_map_entries,        \* slot |-> [va, size, prot]
    last                   \* what the last call was asked and answered, for the
                           \* calls that a property looks back at

vars == <<vm_map_entries, last>>

-----------------------------------------------------------------------------
Entry(va, size, prot) == [va |-> va, size |-> size, prot |-> prot]

Used(i) == vm_map_entries[i].prot # VM_PROT_FREE

FreeSlots == {i \in Slots : ~Used(i)}

\* find_free_vm_map_entry_slot, when there is one: the first.
find_free_vm_map_entry_slot == CHOOSE i \in FreeSlots : \A j \in FreeSlots : i <= j

\* The end of a range in 64 bits: one that reaches the top wraps to zero.
End(va, size) == (va + size) % WordSize

\* Slip: only ranges that start inside an existing one are noticed.
OverlapsStartOnly(va, size, i) ==
    LET e == vm_map_entries[i]
    IN  va >= e.va /\ va < End(e.va, e.size)

Overlaps(va, size, i) ==
    LET e == vm_map_entries[i]
    IN  va < End(e.va, e.size) /\ End(va, size) > e.va

check_range_overlap(va, size) == \E i \in Slots : Used(i) /\ Overlaps(va, size, i)

\* vm_map_add_entry: on overlap, or with a full table, it only prints.
vm_map_add_entry(va, size, prot) ==
    vm_map_entries' =
        IF check_range_overlap(va, size) \/ FreeSlots = {} THEN vm_map_entries
        ELSE [vm_map_entries EXCEPT ![find_free_vm_map_entry_slot] = Entry(va, size, prot)]

Call(op, va, size, prot, result) ==
    last' = [op |-> op, va |-> va, size |-> size, prot |-> prot, result |-> result]

\* The other calls.
SilentCall == Call("silent", 0, 0, VM_PROT_NONE, 0)

-----------------------------------------------------------------------------
\* Before vm_init the table is zero: every entry counts as a used, empty one.
Init ==
    /\ vm_map_entries = [i \in Slots |-> Entry(0, 0, VM_PROT_NONE)]
    /\ last = [op |-> "boot", va |-> 0, size |-> 0, prot |-> VM_PROT_NONE, result |-> 0]

\* Slip: the loop writes one entry too many.
vm_init_OneTooMany ==
    /\ last.op = "boot"
    /\ vm_map_entries' = [[i \in 0 .. NumEntries |-> Entry(0, 0, VM_PROT_FREE)] EXCEPT
                            ![0] = Entry(0, KernelSize, KernelFlags)]
    /\ SilentCall

\* kernel_main's first call: all entries free, then the kernel's mapping.
vm_init ==
    /\ last.op = "boot"
    /\ vm_map_entries' = [[i \in Slots |-> [vm_map_entries[i] EXCEPT !.prot = VM_PROT_FREE]] EXCEPT
                            ![0] = Entry(0, KernelSize, KernelFlags)]
    /\ SilentCall

Ready == last.op # "boot"

\* vm_map reports success whatever vm_map_add_entry did.
vm_map(va, size, prot) ==
    /\ Ready
    /\ vm_map_add_entry(va, size, prot)
    /\ SilentCall

Matches(va) == {i \in Slots : vm_map_entries[i].va = va /\ Used(i)}

\* Slip: the scan leaves out the last slot.
FirstMatchStopsShort(va) ==
    {i \in Matches(va) : i # NumEntries - 1 /\ \A j \in Matches(va) : i <= j}

\* The slot that the scan over the table finds for address va, if any.
FirstMatch(va) == {i \in Matches(va) : \A j \in Matches(va) : i <= j}

\* Set the flags of the entry found for va, the rest of it stays.
SetFlags(va, prot) ==
    vm_map_entries' = [i \in Slots |->
        IF i \in FirstMatch(va) THEN [vm_map_entries[i] EXCEPT !.prot = prot]
        ELSE vm_map_entries[i]]

\* vm_unmap ignores its size; vm_map_deallocate is the same call.
vm_unmap(va) ==
    /\ Ready
    /\ SetFlags(va, VM_PROT_FREE)
    /\ SilentCall

\* vm_protect ignores its size; new flags VM_PROT_FREE free the entry.
vm_protect(va, prot) ==
    /\ Ready
    /\ SetFlags(va, prot)
    /\ SilentCall

\* security_enforce_wx acts on the flags its caller says the mapping has, and
\* does not look at the result of vm_protect.
security_enforce_wx(va, prot) ==
    /\ Ready
    /\ IF {"WRITE", "EXEC"} \subseteq prot
       THEN SetFlags(va, prot \ {"EXEC"}) /\ Call("enforce", va, 0, prot, 0)
       ELSE UNCHANGED vm_map_entries /\ SilentCall

\* Slip: the address returned is the next slot's.
AddressOf_Next(i) == AllocBase + (i + 1) * AllocAlign

\* The address of a slot, which vm_map_allocate returns.
AddressOf(i) == AllocBase + i * AllocAlign

\* vm_map_allocate: the address depends on the slot alone, and is returned
\* whether or not vm_map_add_entry took the mapping.
vm_map_allocate(size, prot) ==
    /\ Ready
    /\ IF FreeSlots = {}
       THEN /\ UNCHANGED vm_map_entries
            /\ Call("allocate", 0, size, prot, 0)
       ELSE LET i == find_free_vm_map_entry_slot
            IN  /\ vm_map_add_entry(AllocBase + i * AllocAlign, size, prot)
                /\ Call("allocate", AddressOf(i), size, prot, AddressOf(i))

Next ==
    \/ vm_init
    \/ \E va \in Addresses, size \in Sizes, prot \in Flags : vm_map(va, size, prot)
    \/ \E va \in Addresses : vm_unmap(va)
    \/ \E va \in Addresses, prot \in Flags : vm_protect(va, prot)
    \/ \E va \in Addresses, prot \in Flags : security_enforce_wx(va, prot)
    \/ \E size \in Sizes, prot \in Flags : vm_map_allocate(size, prot)

Spec == Init /\ [][Next]_vars

-----------------------------------------------------------------------------
AnyFlags == SUBSET {"READ", "WRITE", "EXEC", "KERNEL", "FREE"}

\* The table has its entries and no more, each with an address, a size and flags.
TypeOK ==
    vm_map_entries \in
        [Slots -> [va : 0 .. (WordSize - 1), size : 0 .. (WordSize - 1), prot : AnyFlags]]

\* A range whose end is an address, as check_range_overlap takes for granted.
Bounded(e) == e.va + e.size < WordSize

\* The mappings that do not wrap around the address space never share a byte,
\* in whatever order they were made, changed and freed: check_range_overlap
\* (vm_maps.c:65-76) sees every pair that matters, and the range that a free
\* entry keeps (vm_maps.c:120, 133) does not come back.  A range that wraps escapes
\* the check.
NoOverlap ==
    \A i, j \in Slots :
        LET d == vm_map_entries[i]
            e == vm_map_entries[j]
        IN  i # j /\ Used(i) /\ Used(j) /\ Bounded(d) /\ Bounded(e)
                /\ d.size > 0 /\ e.size > 0
              => d.va + d.size <= e.va \/ e.va + e.size <= d.va

\* After security_enforce_wx was told of a writable and executable mapping, no
\* mapping at that address is both, unless an empty or a wrapping one has the same
\* address and was found in its place: vm_protect takes the first entry with the
\* address (vm_maps.c:131-137), and only the overlap check makes it the right one.
EnforcedHolds ==
    last.op = "enforce" =>
        \A i \in Matches(last.va) :
            {"WRITE", "EXEC"} \subseteq vm_map_entries[i].prot =>
                \E j \in Matches(last.va) \ {i} :
                    {vm_map_entries[i].size, vm_map_entries[j].size} \cap {0} # {}
                    \/ ~Bounded(vm_map_entries[i]) \/ ~Bounded(vm_map_entries[j])

\* vm_map_allocate returns 0 only with a full table, and an address it returns
\* is mapped with the size and flags asked for, unless another mapping
\* overlaps it or it was asked for a free entry.
LostOnlyToOverlap ==
    last.op = "allocate" =>
        /\ last.result = 0 => FreeSlots = {} \/ AllocBase = 0
        /\ last.result # 0 =>
             \/ \E i \in Slots : vm_map_entries[i] = Entry(last.va, last.size, last.prot)
             \/ \E i \in Slots : Used(i) /\ Overlaps(last.va, last.size, i)
=============================================================================
