------------------------------ MODULE Kmalloc ------------------------------
(***************************************************************************)
(* The kernel heap, src/kern/memory/kmalloc.c: one singly linked list of   *)
(* block headers, first fit with splitting in kmalloc, one forward         *)
(* coalescing pass in kfree.  The heap has no lock and every caller runs   *)
(* in kernel_main before interrupts are enabled, so calls do not overlap;  *)
(* both loops over the list are taken one iteration per step.              *)
(*                                                                         *)
(* A header is known by its address.  `hdr' holds the headers that the     *)
(* list reaches; when kfree merges a block into its predecessor the header *)
(* of the merged block becomes payload bytes and leaves `hdr'.             *)
(***************************************************************************)
EXTENDS Integers

CONSTANTS HeapStart,   \* kmalloc_init's heap_start
          HeapSize,    \* kmalloc_init's heap_size, in bytes
          WordSize,    \* 2^64: the range of uint64_t
          Requests     \* the sizes callers pass to kmalloc

Hdr   == 24            \* sizeof(block_header_t)
NULL  == 0

HeapEnd == HeapStart + HeapSize

\* The heap does not start at address 0, has room for its first header and
\* ends inside the address space; no caller asks for so much that rounding
\* up to eight bytes overflows.
ASSUME HeapAssumption ==
    /\ HeapStart \in Nat \ {NULL}
    /\ HeapSize \in Nat
    /\ HeapSize > Hdr
    /\ WordSize \in Nat
    /\ HeapEnd <= WordSize
    /\ Requests \subseteq 0 .. (WordSize - 8)

VARIABLES
    heap_start_ptr,    \* static block_header_t* heap_start_ptr
    hdr,               \* address |-> [size, next, free] of each listed block
    pc,                \* "idle", or the loop the running call is in
    cur,               \* the loop's `current'
    want,              \* kmalloc's argument while its loop runs
    live               \* pointers callers own |-> the bytes they asked for

vars == <<heap_start_ptr, hdr, pc, cur, want, live>>

blocks == DOMAIN hdr

Header == [size : Nat, next : Nat, free : BOOLEAN]

Headers(h) == DOMAIN h \subseteq HeapStart .. HeapEnd /\ h \in [DOMAIN h -> Header]

-----------------------------------------------------------------------------
\* size = (size + 7) & ~7, in 64 bits
Align8(n) == LET m == (n + 7) % WordSize IN m - (m % 8)

\* The operators on the list take the headers h as an argument.

\* First address behind block b: its header and its payload.
End(h, b) == b + Hdr + h[b].size

\* block->free = f
Mark(h, b, f) ==
    [h EXCEPT ![b] = [size |-> h[b].size, next |-> h[b].next, free |-> f]]

\* Slip: the rest keeps the bytes of its own header.
SplitKeepsHeaderBytes(h, b, n) ==
    LET new == b + Hdr + n
    IN  [x \in DOMAIN h \cup {new} |->
           IF x = new
           THEN [size |-> h[b].size - n, next |-> h[b].next, free |-> TRUE]
           ELSE IF x = b
           THEN [size |-> n, next |-> new, free |-> FALSE]
           ELSE h[x]]

\* Slip: the block that is cut is linked to itself instead of to the rest.
SplitLinksItself(h, b, n) ==
    LET new == b + Hdr + n
    IN  [x \in DOMAIN h \cup {new} |->
           IF x = new
           THEN [size |-> h[b].size - n - Hdr, next |-> h[b].next, free |-> TRUE]
           ELSE IF x = b
           THEN [size |-> n, next |-> b, free |-> FALSE]
           ELSE h[x]]

\* Slip: the block that is cut stays marked free.
SplitStaysFree(h, b, n) ==
    LET new == b + Hdr + n
    IN  [x \in DOMAIN h \cup {new} |->
           IF x = new
           THEN [size |-> h[b].size - n - Hdr, next |-> h[b].next, free |-> TRUE]
           ELSE IF x = b
           THEN [size |-> n, next |-> new, free |-> TRUE]
           ELSE h[x]]

\* Cut block b behind n payload bytes; b is handed out, the rest is free.
Split(h, b, n) ==
    LET new == b + Hdr + n
    IN  [x \in DOMAIN h \cup {new} |->
           IF x = new
           THEN [size |-> h[b].size - n - Hdr, next |-> h[b].next, free |-> TRUE]
           ELSE IF x = b
           THEN [size |-> n, next |-> new, free |-> FALSE]
           ELSE h[x]]

\* Slip: the successor's mark is not looked at.
MergeableIgnoresNext(h, b) == h[b].free /\ h[b].next # NULL /\ End(h, b) = h[b].next

\* The condition of kfree's loop for merging b with its successor.
Mergeable(h, b) ==
    /\ h[b].free
    /\ h[b].next # NULL
    /\ h[h[b].next].free
    /\ End(h, b) = h[b].next

\* Block b swallows its successor.
Merge(h, b) ==
    LET n == h[b].next
    IN  [x \in DOMAIN h \ {n} |->
           IF x = b
           THEN [size |-> h[b].size + Hdr + h[n].size, next |-> h[n].next, free |-> h[b].free]
           ELSE h[x]]

-----------------------------------------------------------------------------

Init ==
    /\ heap_start_ptr = NULL
    /\ hdr = [b \in {} |-> [size |-> 0, next |-> NULL, free |-> TRUE]]
    /\ pc = "idle"
    /\ cur = NULL
    /\ want = 0
    /\ live = [p \in {} |-> 0]

\* One free block that spans the heap.
kmalloc_init ==
    /\ heap_start_ptr = NULL
    /\ pc = "idle"
    /\ heap_start_ptr' = HeapStart
    /\ hdr' = [b \in {HeapStart} |->
                 [size |-> HeapSize - Hdr, next |-> NULL, free |-> TRUE]]
    /\ UNCHANGED <<pc, cur, want, live>>

-----------------------------------------------------------------------------
\* kmalloc.  A call with size 0 returns 0 at once and changes nothing.
kmalloc(n) ==
    /\ pc = "idle"
    /\ n # 0
    /\ pc' = "walk"
    /\ want' = n
    /\ cur' = heap_start_ptr
    /\ UNCHANGED <<heap_start_ptr, hdr, live>>

\* Slip: a block of exactly the requested size is passed over.
FitsStrictly(b) == hdr[b].free /\ hdr[b].size > Align8(want)

Fits(b) == hdr[b].free /\ hdr[b].size >= Align8(want)

WalkNext ==
    /\ pc = "walk"
    /\ cur # NULL
    /\ ~Fits(cur)
    /\ cur' = hdr[cur].next
    /\ UNCHANGED <<heap_start_ptr, hdr, pc, want, live>>

\* The block is larger than the request and a header: cut it in two.
Splits(b) == hdr[b].size > Align8(want) + Hdr

\* Take the first block that fits, and return the address of its payload.
WalkTake ==
    /\ pc = "walk"
    /\ cur # NULL
    /\ Fits(cur)
    /\ hdr' = IF Splits(cur) THEN Split(hdr, cur, Align8(want))
              ELSE Mark(hdr, cur, FALSE)
    /\ live' = [p \in DOMAIN live \cup {cur + Hdr} |->
                  IF p = cur + Hdr THEN want ELSE live[p]]
    /\ pc' = "idle"
    /\ cur' = NULL
    /\ want' = 0
    /\ UNCHANGED heap_start_ptr

\* The list is exhausted: return 0.
WalkFail ==
    /\ pc = "walk"
    /\ cur = NULL
    /\ pc' = "idle"
    /\ want' = 0
    /\ UNCHANGED <<heap_start_ptr, hdr, cur, live>>

-----------------------------------------------------------------------------
\* Slip: the pass starts at the freed block and misses its predecessor.
kfree_FromBlock(p) ==
    /\ pc = "idle"
    /\ p \in DOMAIN live
    /\ hdr' = Mark(hdr, p - Hdr, TRUE)
    /\ live' = [q \in DOMAIN live \ {p} |-> live[q]]
    /\ pc' = "coalesce"
    /\ cur' = p - Hdr
    /\ UNCHANGED <<heap_start_ptr, want>>

\* kfree.  Callers pass what kmalloc gave them; kfree(0) returns at once and
\* changes nothing.
kfree(p) ==
    /\ pc = "idle"
    /\ p \in DOMAIN live
    /\ hdr' = Mark(hdr, p - Hdr, TRUE)
    /\ live' = [q \in DOMAIN live \ {p} |-> live[q]]
    /\ pc' = "coalesce"
    /\ cur' = heap_start_ptr
    /\ UNCHANGED <<heap_start_ptr, want>>

\* Slip: the successor is read before the merge unlinks it.
CoalesceReadsNextEarly ==
    /\ pc = "coalesce"
    /\ cur # NULL
    /\ hdr' = IF Mergeable(hdr, cur) THEN Merge(hdr, cur) ELSE hdr
    /\ cur' = hdr[cur].next
    /\ UNCHANGED <<heap_start_ptr, pc, want, live>>

\* One iteration of the pass: at most one merge, then on to the next block.
CoalesceNext ==
    /\ pc = "coalesce"
    /\ cur # NULL
    /\ hdr' = IF Mergeable(hdr, cur) THEN Merge(hdr, cur) ELSE hdr
    /\ cur' = hdr'[cur].next
    /\ UNCHANGED <<heap_start_ptr, pc, want, live>>

CoalesceDone ==
    /\ pc = "coalesce"
    /\ cur = NULL
    /\ pc' = "idle"
    /\ UNCHANGED <<heap_start_ptr, hdr, cur, want, live>>

-----------------------------------------------------------------------------
Call ==
    \/ kmalloc_init
    \/ \E n \in Requests : kmalloc(n)
    \/ \E p \in DOMAIN live : kfree(p)

Step == WalkNext \/ WalkTake \/ WalkFail \/ CoalesceNext \/ CoalesceDone

Next == Call \/ Step

Spec == Init /\ [][Next]_vars

\* A call that has started keeps executing: nothing can block it.
FairSpec == Spec /\ WF_vars(Step)

-----------------------------------------------------------------------------
\* Types of the heap's state.
TypeOK ==
    /\ heap_start_ptr \in {NULL, HeapStart}
    /\ Headers(hdr)
    /\ pc \in {"idle", "walk", "coalesce"}
    /\ cur \in blocks \cup {NULL}
    /\ want \in Requests \cup {0}
    /\ DOMAIN live \subseteq HeapStart .. HeapEnd
    /\ live \in [DOMAIN live -> Requests \ {0}]

\* The listed blocks tile the heap: the list starts at the heap's first
\* byte, each block ends where its successor's header begins, the last one
\* ends at the heap's last byte, and no header lies inside another block.
\* Every split (kmalloc.c:31-38) and merge (:55-58) has to keep this, or
\* bytes are lost or a header lands in somebody's payload.
Tiled(h) ==
    /\ DOMAIN h # {} => HeapStart \in DOMAIN h
    /\ \A b \in DOMAIN h :
         /\ End(h, b) \in DOMAIN h \cup {HeapEnd}
         /\ h[b].next = IF End(h, b) = HeapEnd THEN NULL ELSE End(h, b)
    /\ \A b, c \in DOMAIN h : b < c => End(h, b) <= c

HeapTiled == Tiled(hdr)

\* Ownership: each pointer a caller holds is the payload of a listed block
\* that is marked used and holds at least the bytes asked for, and each
\* block marked used is held by somebody: kfree's pass over the list never
\* absorbs a block that is in use, and no block is lost to its owner.
LiveBlocksAreUsed ==
    /\ \A p \in DOMAIN live :
         /\ p - Hdr \in blocks
         /\ ~hdr[p - Hdr].free
         /\ live[p] <= hdr[p - Hdr].size
    /\ \A b \in blocks : ~hdr[b].free => b + Hdr \in DOMAIN live

\* kmalloc returns 0 only when no listed block is free and large enough:
\* the walk passes over no block that would do (kmalloc.c:28-44).
FailsOnlyWhenFull ==
    pc = "walk" => \A b \in blocks : (cur = NULL \/ b < cur) =>
        ~(hdr[b].free /\ hdr[b].size >= Align8(want))

\* Two neighbouring free blocks that kfree has left apart.
FreePair(h, b) ==
    /\ b \in DOMAIN h
    /\ h[b].free
    /\ h[b].next # NULL
    /\ h[h[b].next].free

\* kfree's single pass merges a block with its successor and then moves on
\* (kmalloc.c:54-60), so a block freed between two free blocks is not merged
\* with both.  The fragmentation this leaves never accumulates: between
\* calls at most one pair of neighbouring free blocks exists.
AtMostOneFreePair ==
    pc = "idle" =>
        \A b, c \in blocks : FreePair(hdr, b) /\ FreePair(hdr, c) => b = c

\* Every kmalloc and every kfree returns: the list a loop walks is never
\* cyclic, also while kfree unlinks blocks under its own cursor.
CallsReturn == pc # "idle" ~> pc = "idle"

\* The heap implements its contract: ranges owned together are disjoint and
\* inside the heap, whatever the list does below.
Contract == INSTANCE HeapContract WITH
    ArenaStart <- HeapStart, ArenaSize <- HeapSize

ImplementsContract == Contract!Spec
=============================================================================
