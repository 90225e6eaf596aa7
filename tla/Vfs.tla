--------------------------------- MODULE Vfs ---------------------------------
(***************************************************************************)
(* The virtual file system, src/kern/fs/vfs.c: nodes linked by parent,     *)
(* child and sibling.  There is no removal and no lock, here or in         *)
(* kmalloc.                                                                *)
(*                                                                         *)
(* kernel_main makes its calls one after another, before there are tasks.  *)
(* Among tasks calls may overlap: the timer may switch at every access to  *)
(* a link another caller can see, and inside kmalloc between its check of  *)
(* a block and its mark on it (kmalloc.c:30, 39).  Two creations then may  *)
(* be given one node, after which nothing is claimed.  Otherwise the       *)
(* fields of a new node are its creator's until it is linked.              *)
(***************************************************************************)
EXTENDS Naturals, Sequences, FiniteSets

CONSTANTS Nodes,      \* the addresses kmalloc can return
          Null,       \* the null pointer
          Names, Callers,
          FsRoot,     \* a file system to mount, and data of files
          MountPoints,    \* bound: the nodes it is mounted on
          LookedUp,       \* bound: the names that are looked up; names are alike
          Readers         \* bound: the callers that look up; lookups change nothing

ASSUME VfsAssumption ==
    Null \notin Nodes /\ Nodes \subseteq Nat /\ IsFiniteSet(Nodes)

VARIABLES root,
          used,      \* the nodes whose block the heap has marked
          mem,       \* the nodes that were set up: address |-> vfs_node_t
          pc,        \* caller |-> where it is
          call,      \* caller |-> its arguments and locals
          since,     \* history: creation |-> what was linked in its directory since it began
          overlapped, \* history: a call began before another had ended
          shared     \* history: kmalloc has returned a node that was in use

vars == <<root, used, mem, pc, call, since, overlapped, shared>>

VFS_NODE_DIR  == "dir"
VFS_NODE_FILE == "file"

Pointers  == Nodes \cup {Null}
Allocated == DOMAIN mem

Idle == [dir |-> Null, name |-> Null, node |-> Null, cur |-> Null, first |-> Null, new |-> Null]

Init ==
    /\ root = Null
    /\ used = {}
    /\ mem = <<>>
    /\ pc = [p \in Callers |-> "idle"]
    /\ call = [p \in Callers |-> Idle]
    /\ since = [p \in Callers |-> {}]
    /\ overlapped = FALSE
    /\ shared = FALSE

\* kmalloc up to its check: the first node that is free.
kmalloc(n) == n \in Nodes \ used /\ \A m \in Nodes \ used : n <= m

\* The rest of kmalloc splits the block and marks it, in use or not by now.  A
\* split that was decided on before another caller came makes a free block of all
\* that is behind the node.
Marks(n) == IF n \in used THEN {used, {m \in used : m <= n}} ELSE {used \cup {n}}

With(n, record) == [m \in Allocated \cup {n} |-> IF m = n THEN record ELSE mem[m]]

\* Slip: a new node hangs off the root.
NewNode_AtRoot(parent, name, type, fs_data) ==
    [name |-> name, type |-> type, parent |-> root, child |-> Null, sibling |-> Null,
     fs_data |-> fs_data]

NewNode(parent, name, type, fs_data) ==
    [name |-> name, type |-> type, parent |-> parent, child |-> Null, sibling |-> Null,
     fs_data |-> fs_data]

\* vfs_init, called by kernel_main before there are tasks.  Without memory root
\* stays 0.
vfs_init ==
    /\ root = Null
    /\ \E n \in Nodes :
         /\ kmalloc(n) /\ root' = n /\ used' \in Marks(n)
         /\ mem' = With(n, NewNode(Null, "root", VFS_NODE_DIR, Null))
    /\ UNCHANGED <<pc, call, since, overlapped, shared>>

\* Slip: every node takes children.
IsDirectory_Any(d) == d # Null

IsDirectory(d) == d # Null /\ mem[d].type = VFS_NODE_DIR

\* A call begins.
Begin(p, label) ==
    /\ pc' = [pc EXCEPT ![p] = label]
    /\ overlapped' = (overlapped \/ \E q \in Callers : pc[q] # "idle")

\* vfs_create_dir and vfs_create_file up to the check in kmalloc.  With an invalid
\* parent or without memory they return 0 and nothing has changed.
vfs_create(p, d, name, type, fs_data) ==
    /\ pc[p] = "idle" /\ IsDirectory(d)
    /\ \E n \in Nodes :
         /\ kmalloc(n)
         /\ call' = [call EXCEPT ![p] = [Idle EXCEPT !.dir = d, !.cur = n,
                                           !.new = NewNode(d, name, type, fs_data)]]
    /\ Begin(p, "alloc")
    /\ UNCHANGED <<root, used, mem, since, shared>>

vfs_create_dir(p, d, name)           == vfs_create(p, d, name, VFS_NODE_DIR, Null)
vfs_create_file(p, d, name, fs_data) == vfs_create(p, d, name, VFS_NODE_FILE, fs_data)

\* kmalloc returns the node, and its fields are set.
SetUp(p) ==
    LET n == call[p].cur IN
    /\ pc[p] = "alloc"
    /\ used' \in Marks(n) /\ shared' = (shared \/ n \in used)
    /\ mem' = With(n, call[p].new)
    /\ call' = [call EXCEPT ![p] = [Idle EXCEPT !.dir = call[p].dir, !.node = n]]
    /\ pc' = [pc EXCEPT ![p] = "created"]
    /\ UNCHANGED <<root, since, overlapped>>

\* The parent has no child yet, or the walk begins.
FirstChild(p) ==
    LET child == mem[call[p].dir].child IN
    /\ pc[p] = "created"
    /\ pc' = [pc EXCEPT ![p] = IF child = Null THEN "head" ELSE "walk"]
    /\ call' = [call EXCEPT ![p].cur = child]
    /\ UNCHANGED <<root, used, mem, since, overlapped, shared>>

\* Slip: the walk stays where it is.
NextNode_Same(cur) == IF mem[cur].sibling = Null THEN Null ELSE cur

NextNode(cur) == mem[cur].sibling

\* while (cur->sibling) cur = cur->sibling;
Walk(p) ==
    LET next == NextNode(call[p].cur) IN
    /\ pc[p] = "walk"
    /\ IF next = Null THEN pc' = [pc EXCEPT ![p] = "tail"] /\ UNCHANGED call
       ELSE call' = [call EXCEPT ![p].cur = next] /\ UNCHANGED pc
    /\ UNCHANGED <<root, used, mem, since, overlapped, shared>>

Creates(p) == pc[p] \in {"alloc", "created", "head", "walk", "tail"}

\* The node is linked, the call returns it.
Created(p) ==
    /\ pc' = [pc EXCEPT ![p] = "idle"] /\ call' = [call EXCEPT ![p] = Idle]
    /\ since' = [q \in Callers |->
         IF q = p THEN {}
         ELSE IF Creates(q) /\ call[q].dir = call[p].dir THEN since[q] \cup {call[p].node}
         ELSE since[q]]
    /\ UNCHANGED <<root, used, overlapped, shared>>

LinkChild(p) ==
    /\ pc[p] = "head"
    /\ mem' = [mem EXCEPT ![call[p].dir].child = call[p].node]
    /\ Created(p)

\* Slip: the node goes behind the first child.
LinkedTo_First(p) == mem[call[p].dir].child

LinkedTo(p) == call[p].cur

LinkSibling(p) ==
    /\ pc[p] = "tail"
    /\ mem' = [mem EXCEPT ![LinkedTo(p)].sibling = call[p].node]
    /\ Created(p)

-----------------------------------------------------------------------------
(* The nodes of a list as a sequence, cut off after as many as there are.   *)
ListFrom[k \in 0 .. Cardinality(Nodes)] ==
    [n \in Pointers |-> IF n = Null \/ k = 0 THEN <<>>
                        ELSE <<n>> \o ListFrom[k - 1][mem[n].sibling]]
Children(d) == IF d \in Allocated THEN ListFrom[Cardinality(Nodes)][mem[d].child] ELSE <<>>
Elements(seq) == {seq[i] : i \in DOMAIN seq}

\* The oldest child of that name.
Oldest(d, name) ==
    LET named == {i \in DOMAIN Children(d) : mem[Children(d)[i]].name = name}
    IN  IF named = {} THEN Null
        ELSE Children(d)[CHOOSE i \in named : \A j \in named : i <= j]

\* vfs_lookup: what it is to find is remembered.
vfs_lookup(p, d, name) ==
    /\ pc[p] = "idle" /\ IsDirectory(d)
    /\ Begin(p, "lookup")
    /\ call' = [call EXCEPT ![p] = [Idle EXCEPT !.dir = d, !.name = name, !.cur = mem[d].child,
                                                !.first = Oldest(d, name)]]
    /\ UNCHANGED <<root, used, mem, since, shared>>

\* Slip: the last child is not looked at.
Matches_NotLast(cur, name) == mem[cur].name = name /\ mem[cur].sibling # Null

Matches(cur, name) == mem[cur].name = name

\* The loop ends at the first match, or behind the last child with 0.
Compare(p) ==
    LET cur == call[p].cur IN
    /\ pc[p] = "lookup"
    /\ IF cur = Null \/ (cur # Null /\ Matches(cur, call[p].name))
       THEN pc' = [pc EXCEPT ![p] = "found"] /\ UNCHANGED call
       ELSE call' = [call EXCEPT ![p].cur = NextNode(cur)] /\ UNCHANGED pc
    /\ UNCHANGED <<root, used, mem, since, overlapped, shared>>

Return(p) ==
    /\ pc[p] = "found"
    /\ pc' = [pc EXCEPT ![p] = "idle"] /\ call' = [call EXCEPT ![p] = Idle]
    /\ UNCHANGED <<root, used, mem, since, overlapped, shared>>

\* vfs_mount replaces whatever the node had.
vfs_mount(p, n, fs_root) ==
    /\ pc[p] = "idle" /\ n # Null
    /\ mem' = [mem EXCEPT ![n].fs_data = fs_root]
    /\ UNCHANGED <<root, used, pc, call, since, overlapped, shared>>

-----------------------------------------------------------------------------
\* The nodes a caller can name: what vfs_get_root and the other calls returned.
Returned == Allocated \ {call[p].node : p \in Callers}

Step(p) == \/ SetUp(p) \/ FirstChild(p) \/ Walk(p) \/ LinkChild(p) \/ LinkSibling(p)
           \/ Compare(p) \/ Return(p)

Next ==
    \/ vfs_init
    \/ \E p \in Callers :
         \/ \E d \in Returned, name \in Names :
              \/ vfs_create_dir(p, d, name)
              \/ vfs_create_file(p, d, name, FsRoot)
              \/ p \in Readers /\ name \in LookedUp /\ vfs_lookup(p, d, name)
         \/ \E n \in Returned \cap MountPoints, fs_root \in {FsRoot, Null} :
              vfs_mount(p, n, fs_root)
         \/ Step(p)

Spec == Init /\ [][Next]_vars

\* The processor goes on, with one call or another.
FairSpec == Spec /\ WF_vars(\E p \in Callers : Step(p))

-----------------------------------------------------------------------------
\* Every node was given to one caller.  Bound: TLC follows the tasks while this is so;
\* the properties claim nothing of what comes after.
OwnNodes == ~shared

\* Types; only directories have children.
TypeOK ==
    ~shared =>
      /\ root \in Pointers /\ used = Allocated /\ Allocated \subseteq Nodes
      /\ root # Null => root \in Allocated
      /\ \A n \in Allocated :
           /\ mem[n].type \in {VFS_NODE_DIR, VFS_NODE_FILE} /\ mem[n].fs_data \in {FsRoot, Null}
           /\ {mem[n].parent, mem[n].child, mem[n].sibling} \subseteq Allocated \cup {Null}
           /\ mem[n].type = VFS_NODE_FILE => mem[n].child = Null
      /\ \A p \in Callers :
           pc[p] \in {"idle", "alloc", "created", "head", "walk", "tail", "lookup", "found"}

\* However creations interleave, as long as the heap has given each its own node:
\* every child of a directory names it as its parent, no node is in two places,
\* and the root is in none.  The links form a tree, which the loops of vfs.c:57-59,
\* 88-90 and 102-106 rely on to end.
LinksFormTree ==
    ~shared =>
      LET place == {pair \in Allocated \X (1 .. Cardinality(Nodes)) :
                      pair[2] \in DOMAIN Children(pair[1])}
      IN  /\ \A a \in place : mem[Children(a[1])[a[2]]].parent = a[1]
          /\ \A a, b \in place : Children(a[1])[a[2]] = Children(b[1])[b[2]] => a = b

\* What vfs_lookup finds is of that directory and name, and it is the oldest
\* child that had the name when the call began, unless creations that ran at the
\* same time have dropped that one from the list (vfs.c:98-108), or the heap has
\* given one node to two of them.
LookupFindsOldest ==
    ~shared => \A p \in Callers : pc[p] = "found" =>
        LET c == call[p] IN
        /\ c.cur # Null => mem[c.cur].name = c.name /\ mem[c.cur].parent = c.dir
        /\ c.first # Null /\ c.first \in Elements(Children(c.dir)) => c.cur = c.first

\* The caller links its node in directory d.
LinksIn(p, d) == pc[p] \in {"head", "tail"} /\ pc'[p] = "idle" /\ call[p].dir = d

\* List s becomes t: node n stands behind its first k nodes, and what was behind
\* them is of the set recent; or n is not put in, and recent is not empty.
PutIn(s, t, n, recent) ==
    \/ \E k \in 0 .. Len(s) : /\ \A i \in (k + 1) .. Len(s) : s[i] \in recent
                              /\ t = Append(SubSeq(s, 1, k), n)
    \/ t = s /\ recent # {}

\* How much two creations in one directory can damage, since there is no lock
\* around the search for the last child (vfs.c:54-61, 85-92): a creation takes out
\* only nodes that were linked after it began, and its own node is missing only if
\* there are such.
UndoesOnlyRecent ==
    [][~shared' => \A d \in Nodes :
         IF \E p \in Callers : LinksIn(p, d)
         THEN \E p \in Callers : LinksIn(p, d)
                /\ PutIn(Children(d), Children(d)', call[p].node, since[p])
         ELSE Children(d)' = Children(d)]_vars

\* A creation "adds it to the parent's children linked list" (vfs.c:35): until calls
\* overlap, whatever was returned, but for the root, is among the children of its
\* parent.
ReturnedAreListed ==
    ~overlapped => \A n \in Returned \ {root} : n \in Elements(Children(mem[n].parent))

Tree == INSTANCE VfsTree WITH children <- [d \in Nodes |-> Children(d)]

\* Until calls overlap they do what VfsTree says: each creation adds its node, a new
\* one, "as the last child of the parent" (vfs.c:53, 84), and nothing else changes.
ImplementsTree == Tree!Init /\ [][~overlapped' => Tree!Step]_vars

\* A call that no other overlaps returns: the loops come to the end of the list
\* (vfs.c:58, 89, 102).
CallsReturn == \A p \in Callers : pc[p] # "idle" ~> pc[p] = "idle" \/ overlapped
=============================================================================
