---------------------------- MODULE HeapContract ----------------------------
(***************************************************************************)
(* What the kernel heap (memory/kmalloc.h) promises its callers, without   *)
(* any block list: kmalloc hands out byte ranges of the arena, no two      *)
(* ranges that are owned at the same time share a byte, a range keeps its  *)
(* length for as long as it is owned, and kfree ends the ownership of      *)
(* exactly the range it is given.  A kmalloc that returns 0 is a step that *)
(* changes nothing here.                                                   *)
(***************************************************************************)
EXTENDS Integers

CONSTANTS ArenaStart,  \* first byte of the arena
          ArenaSize,   \* its length in bytes
          Requests     \* lengths that callers ask for

VARIABLE live          \* owned pointer |-> bytes its owner asked for

Owned == DOMAIN live

\* No byte of [p, p + n) belongs to a range that is owned already.
Unshared(p, n) ==
    \A q \in Owned : p + n <= q \/ q + live[q] <= p

Alloc(p, n) ==
    /\ p \notin Owned
    /\ ArenaStart <= p
    /\ p + n <= ArenaStart + ArenaSize
    /\ Unshared(p, n)
    /\ live' = [q \in Owned \cup {p} |-> IF q = p THEN n ELSE live[q]]

Free(p) ==
    /\ p \in Owned
    /\ live' = [q \in Owned \ {p} |-> live[q]]

Init == live = [p \in {} |-> 0]

Next ==
    \/ \E p \in ArenaStart .. (ArenaStart + ArenaSize) : \E n \in Requests : Alloc(p, n)
    \/ \E p \in Owned : Free(p)

Spec == Init /\ [][Next]_live
=============================================================================
