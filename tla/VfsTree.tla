------------------------------- MODULE VfsTree -------------------------------
(***************************************************************************)
(* What src/kern/fs/vfs.c says of its tree: vfs_init makes a root, and a   *)
(* creation adds its node as the last child of a directory that is in the  *)
(* tree ("add the new directory as the last child of the parent", line     *)
(* 53).  Nothing is ever removed.                                          *)
(***************************************************************************)
EXTENDS Naturals, Sequences

CONSTANTS Nodes, Null

VARIABLES root,
          children   \* directory |-> its nodes, the oldest first

\* The root and all that was added.
Known == {root} \cup {n \in Nodes : \E d \in Nodes : \E i \in DOMAIN children[d] : children[d][i] = n}

Init ==
    /\ root = Null
    /\ children = [d \in Nodes |-> <<>>]

MakeRoot(n) ==
    /\ root = Null /\ root' = n
    /\ UNCHANGED children

Add(d, n) ==
    /\ d \in Known /\ n \notin Known
    /\ children' = [children EXCEPT ![d] = Append(@, n)]
    /\ UNCHANGED root

Next == \E n \in Nodes : MakeRoot(n) \/ \E d \in Nodes : Add(d, n)

\* What a step may do.
Step == [Next]_<<root, children>>
=============================================================================
