---------------------------- MODULE VmMapProofs ----------------------------
(***************************************************************************)
(* Proofs about the mapping table (VmMap), for every table size, word      *)
(* size and set of inputs that its assumption admits.                      *)
(***************************************************************************)
EXTENDS VmMap, NatLemmas, TLAPS

Word == 0 .. (WordSize - 1)

\* The shape of one entry.
EntryOK(e) == e \in [va : Word, size : Word, prot : AnyFlags]

TableOK == /\ DOMAIN vm_map_entries = Slots
           /\ vm_map_entries = [i \in Slots |-> vm_map_entries[i]]
           /\ \A i \in Slots : EntryOK(vm_map_entries[i])

\* Two entries share no byte, if both are used, not empty and do not wrap.
Apart(d, e) ==
    d.prot # VM_PROT_FREE /\ e.prot # VM_PROT_FREE /\ Bounded(d) /\ Bounded(e)
        /\ d.size > 0 /\ e.size > 0
      => d.va + d.size <= e.va \/ e.va + e.size <= d.va

\* What is written into a slot is a well formed entry.
LEMMA EntryFacts ==
    ASSUME NEW va \in Word, NEW size \in Word, NEW prot \in AnyFlags
    PROVE  EntryOK(Entry(va, size, prot))
BY DEF EntryOK, Entry

\* A range that passes check_range_overlap shares no byte with any entry.
LEMMA CheckedIsApart ==
    ASSUME TypeOK, NEW va \in Word, NEW size \in Word, NEW prot \in AnyFlags,
           ~check_range_overlap(va, size), NEW i \in Slots
    PROVE  /\ Apart(Entry(va, size, prot), vm_map_entries[i])
           /\ Apart(vm_map_entries[i], Entry(va, size, prot))
<1> DEFINE d == Entry(va, size, prot)
           e == vm_map_entries[i]
<1>1. /\ e.va \in Word /\ e.size \in Word
      /\ WordSize \in Nat
  BY VmAssumption DEF TypeOK, Word
<1>2. e.prot # VM_PROT_FREE => ~(va < End(e.va, e.size) /\ End(va, size) > e.va)
  BY DEF check_range_overlap, Overlaps, Used
<1>3. Bounded(e) => End(e.va, e.size) = e.va + e.size
  BY <1>1 DEF Bounded, End, Word
<1>4. d.va = va /\ d.size = size
  BY DEF Entry
<1>5. va + size < WordSize => End(va, size) = va + size
  BY <1>1 DEF End, Word
<1> HIDE DEF d, e
<1>6. Apart(d, e) /\ Apart(e, d)
  BY <1>1, <1>2, <1>3, <1>4, <1>5 DEF Apart, Bounded, Word
<1> QED
  BY <1>6 DEF d, e

\* The first free slot is a free slot.
LEMMA FreeSlotFacts ==
    ASSUME FreeSlots # {}
    PROVE  /\ find_free_vm_map_entry_slot \in FreeSlots
           /\ find_free_vm_map_entry_slot \in Slots
<1>1. FreeSlots \subseteq Nat /\ FreeSlots \subseteq Slots
  BY VmAssumption DEF FreeSlots, Slots
<1>2. \E i \in FreeSlots : \A j \in FreeSlots : i <= j
  BY <1>1, LeastElement
<1>3. find_free_vm_map_entry_slot \in FreeSlots
  BY <1>2 DEF find_free_vm_map_entry_slot
<1> QED
  BY <1>1, <1>3

\* The table in the words of its entries.
LEMMA TypeIsTable == TypeOK <=> TableOK
BY DEF TypeOK, TableOK, EntryOK, Word

LEMMA NoOverlapIsApart ==
    NoOverlap <=> \A i, j \in Slots : i # j => Apart(vm_map_entries[i], vm_map_entries[j])
BY DEF NoOverlap, Apart, Used

\* A step that writes at most one slot, with a range that was checked.
LEMMA AddKeepsTable ==
    ASSUME TypeOK, NoOverlap, NEW va \in Word, NEW size \in Word, NEW prot \in AnyFlags,
           vm_map_add_entry(va, size, prot)
    PROVE  TypeOK' /\ NoOverlap'
<1> DEFINE d == Entry(va, size, prot)
           k == find_free_vm_map_entry_slot
<1>1. CASE check_range_overlap(va, size) \/ FreeSlots = {}
  BY <1>1 DEF vm_map_add_entry, TypeOK, NoOverlap, Used
<1>2. CASE ~(check_range_overlap(va, size) \/ FreeSlots = {})
  <2>1. k \in Slots /\ vm_map_entries' = [vm_map_entries EXCEPT ![k] = d]
    BY <1>2, FreeSlotFacts DEF vm_map_add_entry
  <2>2. EntryOK(d)
    BY EntryFacts
  <2>3. \A i \in Slots : Apart(d, vm_map_entries[i]) /\ Apart(vm_map_entries[i], d)
    BY <1>2, CheckedIsApart
  <2> HIDE DEF d, k
  <2>4. \A i \in Slots : vm_map_entries'[i] = IF i = k THEN d ELSE vm_map_entries[i]
    BY <2>1 DEF TypeOK
  <2>5. TypeOK'
    <3>1. TableOK
      BY TypeIsTable
    <3>2. vm_map_entries' \in [Slots -> [va : Word, size : Word, prot : AnyFlags]]
      BY <2>1, <2>2, <3>1 DEF TableOK, EntryOK
    <3> QED
      BY <3>2 DEF TypeOK, Word
  <2>6. NoOverlap'
    <3>1. \A i, j \in Slots : i # j => Apart(vm_map_entries[i], vm_map_entries[j])
      BY NoOverlapIsApart
    <3>2. \A i, j \in Slots : i # j => Apart(vm_map_entries'[i], vm_map_entries'[j])
      <4> SUFFICES ASSUME NEW i \in Slots, NEW j \in Slots, i # j
                   PROVE  Apart(vm_map_entries'[i], vm_map_entries'[j])
        OBVIOUS
      <4>1. CASE i = k
        <5>1. vm_map_entries'[i] = d /\ vm_map_entries'[j] = vm_map_entries[j]
          BY <4>1, <2>4
        <5> QED
          BY <5>1, <2>3
      <4>2. CASE j = k
        <5>1. vm_map_entries'[j] = d /\ vm_map_entries'[i] = vm_map_entries[i]
          BY <4>2, <2>4
        <5> QED
          BY <5>1, <2>3
      <4>3. CASE i # k /\ j # k
        <5>1. vm_map_entries'[i] = vm_map_entries[i] /\ vm_map_entries'[j] = vm_map_entries[j]
          BY <4>3, <2>4
        <5> QED
          BY <5>1, <3>1
      <4> QED
        BY <4>1, <4>2, <4>3
    <3> QED
      BY <3>2 DEF NoOverlap, Apart, Used
  <2> QED
    BY <2>5, <2>6
<1> QED
  BY <1>1, <1>2

\* A step that sets the flags of one used entry, or frees it.
LEMMA SetFlagsKeepsTable ==
    ASSUME TypeOK, NoOverlap, NEW va, NEW prot \in AnyFlags, SetFlags(va, prot)
    PROVE  TypeOK' /\ NoOverlap'
<1>1. TableOK
  BY TypeIsTable
<1>2. vm_map_entries' = [i \in Slots |->
        IF i \in FirstMatch(va) THEN [vm_map_entries[i] EXCEPT !.prot = prot]
        ELSE vm_map_entries[i]]
  BY DEF SetFlags
<1>3. ASSUME NEW i \in Slots
      PROVE  /\ EntryOK(vm_map_entries'[i])
             /\ vm_map_entries'[i].prot # VM_PROT_FREE =>
                  /\ vm_map_entries[i].prot # VM_PROT_FREE
                  /\ vm_map_entries'[i].va = vm_map_entries[i].va
                  /\ vm_map_entries'[i].size = vm_map_entries[i].size
  <2>1. CASE i \in FirstMatch(va)
    <3>1. /\ vm_map_entries[i].prot # VM_PROT_FREE
          /\ vm_map_entries'[i] = [vm_map_entries[i] EXCEPT !.prot = prot]
      BY <1>2, <2>1 DEF FirstMatch, Matches, Used
    <3>2. EntryOK(vm_map_entries[i])
      BY <1>1 DEF TableOK
    <3> QED
      BY <3>1, <3>2 DEF EntryOK
  <2>2. CASE i \notin FirstMatch(va)
    BY <1>1, <1>2, <2>2 DEF TableOK
  <2> QED
    BY <2>1, <2>2
<1>4. TypeOK'
  <2>1. \A i \in Slots : vm_map_entries'[i] \in [va : Word, size : Word, prot : AnyFlags]
    BY <1>3 DEF EntryOK
  <2>2. vm_map_entries' \in [Slots -> [va : Word, size : Word, prot : AnyFlags]]
    BY <1>2, <2>1
  <2> QED
    BY <2>2 DEF TypeOK, Word
<1>5. NoOverlap'
  <2>1. \A i, j \in Slots : i # j => Apart(vm_map_entries[i], vm_map_entries[j])
    BY NoOverlapIsApart
  <2>2. \A i, j \in Slots : i # j => Apart(vm_map_entries'[i], vm_map_entries'[j])
    BY <1>3, <2>1 DEF Apart, Bounded
  <2> QED
    BY <2>2 DEF NoOverlap, Apart, Used
<1> QED
  BY <1>4, <1>5

VmInv == TypeOK /\ NoOverlap

\* The table before vm_init: all entries used and empty.
LEMMA InitVmInv == Init => VmInv
BY VmAssumption DEF Init, VmInv, TypeOK, NoOverlap, Entry, VM_PROT_NONE, VM_PROT_FREE,
                    AnyFlags

\* vm_init leaves one used entry.
LEMMA VmInitKeepsInv == ASSUME VmInv, vm_init PROVE VmInv'
<1> DEFINE kernel == Entry(0, KernelSize, KernelFlags)
           freed(i) == [vm_map_entries[i] EXCEPT !.prot = VM_PROT_FREE]
<1>1. vm_map_entries' = [i \in Slots |-> IF i = 0 THEN kernel ELSE freed(i)]
  <2>1. vm_map_entries' = [[i \in Slots |-> freed(i)] EXCEPT ![0] = kernel]
    BY DEF vm_init
  <2> HIDE DEF kernel, freed
  <2> QED
    BY <2>1
<1>2. EntryOK(kernel)
  <2>1. 0 \in Word /\ KernelSize \in Word /\ KernelFlags \in AnyFlags
    BY VmAssumption DEF Word, KernelFlags, AnyFlags
  <2> QED
    BY <2>1, EntryFacts
<1>3. \A i \in Slots : EntryOK(freed(i)) /\ freed(i).prot = VM_PROT_FREE
  <2>1. \A i \in Slots : vm_map_entries[i] \in [va : Word, size : Word, prot : AnyFlags]
    BY DEF VmInv, TypeOK, Word
  <2>2. VM_PROT_FREE \in AnyFlags
    BY DEF VM_PROT_FREE, AnyFlags
  <2> QED
    BY <2>1, <2>2 DEF EntryOK
<1> HIDE DEF kernel, freed
<1>4. TypeOK'
  BY <1>1, <1>2, <1>3 DEF TypeOK, EntryOK, Word
<1>5. NoOverlap'
  BY <1>1, <1>3 DEF NoOverlap, Used
<1> QED
  BY <1>4, <1>5 DEF VmInv

\* Every call keeps the mappings apart.
LEMMA NextVmInv == VmInv /\ [Next]_vars => VmInv'
<1> SUFFICES ASSUME VmInv, [Next]_vars PROVE VmInv'
  OBVIOUS
<1>1. CASE vm_init
  BY <1>1, VmInitKeepsInv
<1>2. ASSUME NEW va \in Addresses, NEW size \in Sizes, NEW prot \in Flags, vm_map(va, size, prot)
      PROVE  VmInv'
  BY <1>2, AddKeepsTable, VmAssumption DEF vm_map, VmInv, Word, AnyFlags
<1>3. ASSUME NEW va \in Addresses, vm_unmap(va) PROVE VmInv'
  <2>1. VM_PROT_FREE \in AnyFlags
    BY DEF VM_PROT_FREE, AnyFlags
  <2> QED
    BY <1>3, <2>1, SetFlagsKeepsTable DEF vm_unmap, VmInv
<1>4. ASSUME NEW va \in Addresses, NEW prot \in Flags, vm_protect(va, prot) PROVE VmInv'
  BY <1>4, SetFlagsKeepsTable, VmAssumption DEF vm_protect, VmInv, AnyFlags
<1>5. ASSUME NEW va \in Addresses, NEW prot \in Flags, security_enforce_wx(va, prot)
      PROVE  VmInv'
  <2>1. prot \ {"EXEC"} \in AnyFlags
    BY VmAssumption DEF AnyFlags
  <2>2. CASE {"WRITE", "EXEC"} \subseteq prot
    BY <1>5, <2>1, <2>2, SetFlagsKeepsTable DEF security_enforce_wx, VmInv
  <2>3. CASE ~({"WRITE", "EXEC"} \subseteq prot)
    BY <1>5, <2>3 DEF security_enforce_wx, VmInv, TypeOK, NoOverlap, Used
  <2> QED
    BY <2>2, <2>3
<1>6. ASSUME NEW size \in Sizes, NEW prot \in Flags, vm_map_allocate(size, prot) PROVE VmInv'
  <2>1. CASE FreeSlots = {}
    BY <1>6, <2>1 DEF vm_map_allocate, VmInv, TypeOK, NoOverlap, Used
  <2>2. CASE FreeSlots # {}
    <3> DEFINE k  == find_free_vm_map_entry_slot
               va == AllocBase + k * AllocAlign
    <3>1. vm_map_add_entry(va, size, prot)
      BY <1>6, <2>2 DEF vm_map_allocate
    <3>2. k \in 0 .. (NumEntries - 1)
      BY <2>2, FreeSlotFacts DEF Slots
    <3> HIDE DEF k
    <3>3. va \in Word
      BY <3>2, VmAssumption DEF Word
    <3> HIDE DEF va
    <3> QED
      BY <3>1, <3>3, AddKeepsTable, VmAssumption DEF VmInv, Word, AnyFlags
  <2> QED
    BY <2>1, <2>2
<1>7. CASE UNCHANGED vars
  BY <1>7 DEF vars, VmInv, TypeOK, NoOverlap, Used
<1> QED
  BY <1>1, <1>2, <1>3, <1>4, <1>5, <1>6, <1>7 DEF Next

\* The table stays well formed through every sequence of calls.
THEOREM TableTypeCorrect == Spec => []TypeOK
<1>1. VmInv => TypeOK
  BY DEF VmInv
<1> QED
  BY <1>1, InitVmInv, NextVmInv, PTL DEF Spec

\* Mappings that do not wrap never share a byte.
THEOREM MappingsStayApart == Spec => []NoOverlap
<1>1. VmInv => NoOverlap
  BY DEF VmInv
<1> QED
  BY <1>1, InitVmInv, NextVmInv, PTL DEF Spec

-----------------------------------------------------------------------------
(* What the last call left: the two properties that look back at it.       *)

\* The scan finds the first match when there is one.
LEMMA FirstMatchFacts ==
    ASSUME NEW va, Matches(va) # {}
    PROVE  \E j \in FirstMatch(va) : j \in Matches(va) /\ FirstMatch(va) = {j}
<1>1. Matches(va) \subseteq Nat
  BY VmAssumption DEF Matches, Slots
<1>2. PICK j \in Matches(va) : \A k \in Matches(va) : j <= k
  BY <1>1, LeastElement
<1>3. \A k \in FirstMatch(va) : k = j
  BY <1>1, <1>2 DEF FirstMatch
<1> QED
  BY <1>2, <1>3 DEF FirstMatch

\* security_enforce_wx takes EXEC off the first entry with the address; any other
\* entry with that address overlaps it, or one of the two is empty or wraps.
LEMMA EnforceLeavesNone ==
    ASSUME TypeOK, NoOverlap, NEW va, NEW prot \in AnyFlags,
           {"WRITE", "EXEC"} \subseteq prot, SetFlags(va, prot \ {"EXEC"}), last'.va = va
    PROVE  EnforcedHolds'
<1> DEFINE w == prot \ {"EXEC"}
<1>0. "EXEC" \notin w /\ w # VM_PROT_FREE
  BY DEF VM_PROT_FREE
<1>1. vm_map_entries' = [i \in Slots |->
        IF i \in FirstMatch(va) THEN [vm_map_entries[i] EXCEPT !.prot = w]
        ELSE vm_map_entries[i]]
  BY DEF SetFlags
<1> HIDE DEF w
<1>2. \A i \in Slots : i \in FirstMatch(va) =>
        /\ vm_map_entries'[i].va = va /\ vm_map_entries'[i].prot = w
        /\ vm_map_entries'[i].size = vm_map_entries[i].size
  BY <1>1 DEF FirstMatch, Matches, TypeOK
<1>3. SUFFICES ASSUME NEW i \in Matches(va)',
                      {"WRITE", "EXEC"} \subseteq vm_map_entries'[i].prot
               PROVE  \E j \in Matches(va)' \ {i} :
                        \/ {vm_map_entries'[i].size, vm_map_entries'[j].size} \cap {0} # {}
                        \/ ~Bounded(vm_map_entries'[i]) \/ ~Bounded(vm_map_entries'[j])
  BY DEF EnforcedHolds
<1>4. i \in Slots
  BY <1>3 DEF Matches
<1>5. i \notin FirstMatch(va)
  BY <1>0, <1>1, <1>2, <1>3, <1>4
<1>6. vm_map_entries'[i] = vm_map_entries[i] /\ i \in Matches(va)
  BY <1>1, <1>3, <1>4, <1>5 DEF Matches, Used
<1>7. PICK j \in FirstMatch(va) : j \in Matches(va) /\ FirstMatch(va) = {j}
  BY <1>6, FirstMatchFacts
<1>8. j \in Slots /\ j # i
  BY <1>5, <1>7 DEF Matches
<1>9. /\ vm_map_entries'[j].va = va /\ vm_map_entries'[j].size = vm_map_entries[j].size
      /\ vm_map_entries'[j].prot = w
  BY <1>1, <1>2, <1>7, <1>8
<1>10. j \in Matches(va)' \ {i}
  BY <1>0, <1>8, <1>9 DEF Matches, Used
<1>11. /\ vm_map_entries[i].va = va /\ vm_map_entries[j].va = va
       /\ Used(i) /\ Used(j)
  BY <1>6, <1>7 DEF Matches
<1>12. ~( /\ Bounded(vm_map_entries[i]) /\ Bounded(vm_map_entries[j])
          /\ vm_map_entries[i].size > 0 /\ vm_map_entries[j].size > 0 )
  <2>1. /\ va \in Nat /\ vm_map_entries[i].size \in Nat /\ vm_map_entries[j].size \in Nat
    BY <1>4, <1>8, <1>11, VmAssumption DEF TypeOK
  <2> QED
    BY <1>4, <1>8, <1>11, <2>1 DEF NoOverlap
<1>13. vm_map_entries[i].size \in Nat /\ vm_map_entries[j].size \in Nat
  BY <1>4, <1>8, VmAssumption DEF TypeOK
<1>14. \/ vm_map_entries'[i].size = 0 \/ vm_map_entries'[j].size = 0
       \/ ~Bounded(vm_map_entries'[i]) \/ ~Bounded(vm_map_entries'[j])
  BY <1>6, <1>9, <1>11, <1>12, <1>13 DEF Bounded
<1> QED
  BY <1>10, <1>14

\* vm_map_allocate maps the address of the slot it found, or an overlap with a
\* mapping in the table is why it did not.
LEMMA AllocateLosesOnlyToOverlap ==
    ASSUME TypeOK, NEW size \in Sizes, NEW prot \in Flags, vm_map_allocate(size, prot)
    PROVE  LostOnlyToOverlap'
<1>1. CASE FreeSlots = {}
  BY <1>1 DEF vm_map_allocate, Call, LostOnlyToOverlap, FreeSlots, Used
<1>2. CASE FreeSlots # {}
  <2> DEFINE k == find_free_vm_map_entry_slot
             a == AddressOf(k)
  <2>1. /\ vm_map_add_entry(a, size, prot)
        /\ last' = [op |-> "allocate", va |-> a, size |-> size, prot |-> prot, result |-> a]
    BY <1>2 DEF vm_map_allocate, Call, AddressOf
  <2>2. k \in Slots
    BY <1>2, FreeSlotFacts
  <2>3. vm_map_entries' =
          IF check_range_overlap(a, size) THEN vm_map_entries
          ELSE [vm_map_entries EXCEPT ![k] = Entry(a, size, prot)]
    BY <1>2, <2>1 DEF vm_map_add_entry
  <2>4. a = 0 => AllocBase = 0
    <3> HIDE DEF k
    <3>1. k \in Nat /\ AllocAlign \in Nat /\ AllocBase \in Nat
      BY <2>2, VmAssumption DEF Slots
    <3>2. k * AllocAlign \in Nat
      BY <3>1
    <3> QED
      BY <3>1, <3>2 DEF AddressOf
  <2> HIDE DEF k, a
  <2>5. CASE check_range_overlap(a, size)
    BY <2>1, <2>3, <2>4, <2>5 DEF LostOnlyToOverlap, check_range_overlap, Used, Overlaps
  <2>6. CASE ~check_range_overlap(a, size)
    <3>1. vm_map_entries'[k] = Entry(a, size, prot)
      BY <2>2, <2>3, <2>6 DEF TypeOK
    <3> QED
      BY <2>1, <2>2, <2>4, <3>1 DEF LostOnlyToOverlap
  <2> QED
    BY <2>5, <2>6
<1> QED
  BY <1>1, <1>2

\* Each call leaves both properties; those that no property looks back at leave
\* them trivially.
LEMMA NextLastCall ==
    VmInv /\ EnforcedHolds /\ LostOnlyToOverlap /\ [Next]_vars
        => EnforcedHolds' /\ LostOnlyToOverlap'
<1> SUFFICES ASSUME VmInv, EnforcedHolds, LostOnlyToOverlap, [Next]_vars
             PROVE  EnforcedHolds' /\ LostOnlyToOverlap'
  OBVIOUS
<1>1. ASSUME SilentCall PROVE EnforcedHolds' /\ LostOnlyToOverlap'
  BY <1>1 DEF SilentCall, Call, EnforcedHolds, LostOnlyToOverlap
<1>2. ASSUME NEW va \in Addresses, NEW prot \in Flags, security_enforce_wx(va, prot)
      PROVE  EnforcedHolds' /\ LostOnlyToOverlap'
  <2>1. CASE {"WRITE", "EXEC"} \subseteq prot
    <3>1. /\ SetFlags(va, prot \ {"EXEC"}) /\ prot \in AnyFlags
          /\ last'.va = va /\ last'.op = "enforce"
      BY <1>2, <2>1, VmAssumption DEF security_enforce_wx, Call, AnyFlags
    <3>2. EnforcedHolds'
      BY <2>1, <3>1, EnforceLeavesNone DEF VmInv
    <3> QED
      BY <3>1, <3>2 DEF LostOnlyToOverlap
  <2>2. CASE ~({"WRITE", "EXEC"} \subseteq prot)
    BY <1>1, <1>2, <2>2 DEF security_enforce_wx
  <2> QED
    BY <2>1, <2>2
<1>3. ASSUME NEW size \in Sizes, NEW prot \in Flags, vm_map_allocate(size, prot)
      PROVE  EnforcedHolds' /\ LostOnlyToOverlap'
  <2>1. last'.op = "allocate"
    BY <1>3 DEF vm_map_allocate, Call
  <2> QED
    BY <1>3, <2>1, AllocateLosesOnlyToOverlap DEF VmInv, EnforcedHolds
<1>4. CASE UNCHANGED vars
  BY <1>4 DEF vars, EnforcedHolds, LostOnlyToOverlap, Matches, FreeSlots, Used, Overlaps
<1> QED
  BY <1>1, <1>2, <1>3, <1>4 DEF Next, vm_init, vm_map, vm_unmap, vm_protect

LEMMA InitLastCall == Init => EnforcedHolds /\ LostOnlyToOverlap
BY DEF Init, EnforcedHolds, LostOnlyToOverlap

\* Whatever was mapped, changed and freed before, security_enforce_wx leaves no
\* mapping at its address writable and executable, apart from the stated cases.
THEOREM EnforcementIsEffective == Spec => []EnforcedHolds
  BY InitVmInv, NextVmInv, InitLastCall, NextLastCall, PTL DEF Spec

\* An address that vm_map_allocate returns is mapped as asked, or was lost to a
\* mapping it overlaps.
THEOREM AllocationLosesOnlyToOverlap == Spec => []LostOnlyToOverlap
  BY InitVmInv, NextVmInv, InitLastCall, NextLastCall, PTL DEF Spec
=============================================================================
