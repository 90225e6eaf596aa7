------------------------------ MODULE VfsProofs ------------------------------
(***************************************************************************)
(* Proofs about the virtual file system (Vfs), for every number of nodes,  *)
(* names and callers.  Among tasks, while the heap gives each creation its *)
(* own node: the links form a tree, lookups find the oldest node of the    *)
(* name, and creations undo only what was linked since they began.  When   *)
(* calls take turns: every node that was returned is listed, and the lists *)
(* of children change as VfsTree says.                                     *)
(***************************************************************************)
EXTENDS Vfs, NatLemmas, SequenceTheorems, FiniteSetTheorems, TLAPS

-----------------------------------------------------------------------------
(* ListFrom satisfies its equation *)

Unfolded(f, k) ==
    [n \in Pointers |-> IF n = Null \/ k = 0 THEN <<>>
                        ELSE <<n>> \o f[k - 1][mem[n].sibling]]

\* An equation up to m has a solution, for every m.
LEMMA ListFromExists ==
    \A m \in Nat : \E f : f = [k \in 0 .. m |-> Unfolded(f, k)]
<1> DEFINE Solves(f, m) == f = [k \in 0 .. m |-> Unfolded(f, k)]
           T == {m \in Nat : \E f : Solves(f, m)}
<1>1. 0 \in T
  <2> DEFINE f == [k \in 0 .. 0 |-> [n \in Pointers |-> <<>>]]
  <2>1. \A k \in 0 .. 0 : Unfolded(f, k) = [n \in Pointers |-> <<>>]
    BY DEF Unfolded
  <2> HIDE DEF f
  <2>2. Solves(f, 0)
    BY <2>1 DEF f
  <2> QED BY <2>2
<1>2. ASSUME NEW m \in Nat, m \in T PROVE m + 1 \in T
  <2>1. PICK f : Solves(f, m)
    BY <1>2
  <2> DEFINE g == [k \in 0 .. (m + 1) |-> IF k = m + 1 THEN Unfolded(f, m + 1) ELSE f[k]]
  <2>2. ASSUME NEW k \in 0 .. (m + 1) PROVE Unfolded(g, k) = Unfolded(f, k)
    <3>1. CASE k = 0
      BY <3>1 DEF Unfolded
    <3>2. CASE k # 0
      <4>1. k - 1 \in 0 .. (m + 1) /\ k - 1 # m + 1
        BY <3>2
      <4>2. g[k - 1] = f[k - 1]
        BY <4>1
      <4> HIDE DEF g
      <4> QED BY <4>2 DEF Unfolded
    <3> QED BY <3>1, <3>2
  <2>3. ASSUME NEW k \in 0 .. (m + 1) PROVE g[k] = Unfolded(f, k)
    <3>1. CASE k = m + 1
      BY <3>1
    <3>2. CASE k # m + 1
      <4>1. k \in 0 .. m
        BY <3>2
      <4>2. f[k] = Unfolded(f, k)
        BY <2>1, <4>1
      <4> QED BY <3>2, <4>2
    <3> QED BY <3>1, <3>2
  <2>4. g = [k \in 0 .. (m + 1) |-> Unfolded(f, k)]
    BY <2>3
  <2>5. Solves(g, m + 1)
    <3> HIDE DEF g
    <3> QED BY <2>2, <2>4
  <2> HIDE DEF g, Solves
  <2> QED BY <2>5
<1> HIDE DEF T
<1>3. \A m \in Nat : m \in T
  BY <1>1, <1>2, SetInduction
<1> QED BY <1>3 DEF T

LEMMA ListFromUnfolds ==
    ListFrom = [k \in 0 .. Cardinality(Nodes) |-> Unfolded(ListFrom, k)]
<1> DEFINE N == Cardinality(Nodes)
<1>1. N \in Nat
  BY VfsAssumption, FS_CardinalityType
<1>2. \E f : f = [k \in 0 .. N |-> Unfolded(f, k)]
  BY <1>1, ListFromExists
<1> HIDE DEF N
<1>3. ListFrom = CHOOSE f : f = [k \in 0 .. N |-> Unfolded(f, k)]
  BY DEF ListFrom, Unfolded, N
<1> QED BY <1>2, <1>3 DEF N

-----------------------------------------------------------------------------
(* The list of a directory's children *)

Labels   == {"idle", "alloc", "created", "head", "walk", "tail", "lookup", "found"}
NodeRec  == [name : Names \cup {"root"}, type : {VFS_NODE_DIR, VFS_NODE_FILE}, parent : Pointers,
             child : Pointers, sibling : Pointers, fs_data : {FsRoot, Null}]
CallRec  == [dir : Pointers, name : Names \cup {Null}, node : Pointers, cur : Pointers,
             first : Pointers, new : NodeRec \cup {Null}]

TypeInv ==
    /\ Allocated \subseteq Nodes /\ used = Allocated /\ mem \in [Allocated -> NodeRec]
    /\ root \in Pointers /\ (root # Null => root \in Allocated)
    /\ pc \in [Callers -> Labels] /\ call \in [Callers -> CallRec]
    /\ since \in [Callers -> SUBSET Nodes]

\* The nodes of s are linked by sibling, and the last one has none.
Chain(s, head) ==
    /\ s \in Seq(Nodes)
    /\ head = IF s = <<>> THEN Null ELSE s[1]
    /\ \A i \in 1 .. Len(s) : mem[s[i]].sibling = IF i = Len(s) THEN Null ELSE s[i + 1]

\* The walk along a chain yields the chain.
LEMMA WalkAlongChain ==
    \A k \in Nat : k <= Cardinality(Nodes) =>
        \A s, head : Chain(s, head) /\ Len(s) <= k => ListFrom[k][head] = s
<1> DEFINE N == Cardinality(Nodes)
           Walks(k, s, head) == Chain(s, head) /\ Len(s) <= k => ListFrom[k][head] = s
           T == {k \in Nat : k <= N => \A s, head : Walks(k, s, head)}
<1>0. N \in Nat /\ Null \notin Nodes
  BY VfsAssumption, FS_CardinalityType
<1>1. ASSUME NEW k \in Nat, k <= N, NEW n \in Pointers
      PROVE  ListFrom[k][n] = IF n = Null \/ k = 0 THEN <<>>
                              ELSE <<n>> \o ListFrom[k - 1][mem[n].sibling]
  <2>1. k \in 0 .. N
    BY <1>0, <1>1
  <2>2. ListFrom[k] = Unfolded(ListFrom, k)
    BY <2>1, ListFromUnfolds
  <2> QED BY <2>2 DEF Unfolded
<1> HIDE DEF N
<1>2. ASSUME NEW k \in Nat, k <= N, NEW s, NEW head, Chain(s, head), s = <<>>
      PROVE  ListFrom[k][head] = s
  <2>1. head = Null /\ head \in Pointers
    BY <1>2 DEF Chain, Pointers
  <2> QED BY <1>1, <1>2, <2>1
<1>3. 0 \in T
  <2>1. ASSUME NEW s, NEW head, Chain(s, head), Len(s) <= 0, 0 <= N PROVE ListFrom[0][head] = s
    <3>1. s = <<>>
      BY <2>1 DEF Chain
    <3> QED BY <1>2, <2>1, <3>1
  <2> QED BY <2>1
<1>4. ASSUME NEW k \in Nat, k \in T PROVE k + 1 \in T
  <2> SUFFICES ASSUME k + 1 <= N, NEW s, NEW head, Chain(s, head), Len(s) <= k + 1
               PROVE  ListFrom[k + 1][head] = s
    OBVIOUS
  <2>1. CASE s = <<>>
    BY <1>2, <2>1
  <2>2. CASE s # <<>>
    <3> DEFINE t == Tail(s)
    <3>1. /\ s \in Seq(Nodes) /\ Len(s) \in Nat /\ Len(s) >= 1 /\ head = s[1] /\ s[1] \in Nodes
          /\ \A i \in 1 .. Len(s) : mem[s[i]].sibling = IF i = Len(s) THEN Null ELSE s[i + 1]
      BY <2>2 DEF Chain
    <3>2. /\ t \in Seq(Nodes) /\ Len(t) = Len(s) - 1 /\ \A i \in 1 .. Len(t) : t[i] = s[i + 1]
      BY <2>2, <3>1, HeadTailProperties
    <3> HIDE DEF t
    <3>3. Chain(t, mem[s[1]].sibling)
      <4>1. mem[s[1]].sibling = IF t = <<>> THEN Null ELSE t[1]
        <5>1. CASE Len(s) = 1
          <6>1. t = <<>>
            BY <3>2, <5>1
          <6> QED BY <3>1, <5>1, <6>1
        <5>2. CASE Len(s) # 1
          <6>1. t # <<>> /\ 1 \in 1 .. Len(t) /\ 1 \in 1 .. Len(s)
            BY <3>1, <3>2, <5>2
          <6>2. t[1] = s[1 + 1] /\ mem[s[1]].sibling = s[1 + 1]
            BY <3>1, <3>2, <5>2, <6>1
          <6> QED BY <6>1, <6>2
        <5> QED BY <5>1, <5>2
      <4>2. ASSUME NEW i \in 1 .. Len(t)
            PROVE  mem[t[i]].sibling = IF i = Len(t) THEN Null ELSE t[i + 1]
        <5>1. i + 1 \in 1 .. Len(s) /\ t[i] = s[i + 1]
          BY <3>1, <3>2
        <5>2. mem[t[i]].sibling = IF i + 1 = Len(s) THEN Null ELSE s[i + 1 + 1]
          BY <3>1, <5>1
        <5>3. CASE i = Len(t)
          BY <3>1, <3>2, <5>2, <5>3
        <5>4. CASE i # Len(t)
          <6>1. i + 1 \in 1 .. Len(t) /\ i + 1 # Len(s)
            BY <3>1, <3>2, <5>4
          <6>2. t[i + 1] = s[i + 1 + 1]
            BY <3>2, <6>1
          <6> QED BY <5>2, <5>4, <6>1, <6>2
        <5> QED BY <5>3, <5>4
      <4> QED BY <3>2, <4>1, <4>2 DEF Chain
    <3>4. Len(t) <= k /\ k <= N /\ k + 1 - 1 = k /\ k + 1 # 0
      BY <1>0, <3>1, <3>2
    <3>5. ListFrom[k][mem[s[1]].sibling] = t
      BY <1>4, <3>3, <3>4
    <3>6. ListFrom[k + 1][head] = <<s[1]>> \o ListFrom[k + 1 - 1][mem[s[1]].sibling]
      <4>1. s[1] \in Pointers /\ s[1] # Null /\ k + 1 \in Nat
        BY <1>0, <3>1 DEF Pointers
      <4>2. ListFrom[k + 1][s[1]] = IF s[1] = Null \/ k + 1 = 0 THEN <<>>
                                    ELSE <<s[1]>> \o ListFrom[k + 1 - 1][mem[s[1]].sibling]
        <5> DEFINE l == k + 1
        <5>1. l \in Nat /\ l <= N
          BY <4>1
        <5> HIDE DEF l
        <5>2. ListFrom[l][s[1]] = IF s[1] = Null \/ l = 0 THEN <<>>
                                  ELSE <<s[1]>> \o ListFrom[l - 1][mem[s[1]].sibling]
          BY <1>1, <4>1, <5>1
        <5> QED BY <5>2 DEF l
      <4> QED BY ONLY <3>1, <3>4, <4>1, <4>2, Zenon
    <3>7. <<s[1]>> \o t = s
      <4>1. <<s[1]>> \in Seq(Nodes) /\ Len(<<s[1]>>) = 1 /\ <<s[1]>>[1] = s[1]
        BY <3>1
      <4> DEFINE u == <<s[1]>>
      <4>2. u \in Seq(Nodes) /\ Len(u) = 1 /\ u[1] = s[1]
        BY <4>1
      <4> HIDE DEF u
      <4>3. /\ u \o t \in Seq(Nodes) /\ Len(u \o t) = Len(s)
            /\ \A i \in 1 .. Len(s) : (u \o t)[i] = IF i <= 1 THEN u[i] ELSE t[i - 1]
        <5>0. u \in Seq(Nodes) /\ t \in Seq(Nodes)
          BY <3>2, <4>2
        <5>1. u \o t \in Seq(Nodes) /\ Len(u \o t) = Len(u) + Len(t)
          BY ONLY <5>0, ConcatProperties
        <5>2. ASSUME NEW i \in 1 .. Len(s) PROVE (u \o t)[i] = IF i <= 1 THEN u[i] ELSE t[i - 1]
          <6>1. i \in 1 .. (Len(u) + Len(t))
            BY <3>1, <3>2, <4>2
          <6>2. (u \o t)[i] = IF i <= Len(u) THEN u[i] ELSE t[i - Len(u)]
            BY ONLY <5>0, <6>1, ConcatProperties
          <6> QED BY <4>2, <6>2
        <5> QED BY <3>1, <3>2, <4>2, <5>1, <5>2
      <4>4. ASSUME NEW i \in 1 .. Len(s) PROVE (u \o t)[i] = s[i]
        <5>1. CASE i = 1
          BY <4>2, <4>3, <5>1
        <5>2. CASE i # 1
          <6>1. i - 1 \in 1 .. Len(t) /\ ~(i <= 1) /\ i - 1 + 1 = i
            BY <3>1, <3>2, <5>2
          <6> QED BY <3>2, <4>3, <6>1
        <5> QED BY <5>1, <5>2
      <4>5. u \o t = s
        BY <3>1, <4>3, <4>4, SeqEqual
      <4> QED BY <4>5 DEF u
    <3> QED BY <3>4, <3>5, <3>6, <3>7
  <2> QED BY <2>1, <2>2
<1> HIDE DEF T
<1>5. \A k \in Nat : k \in T
  BY <1>3, <1>4, SetInduction
<1> QED BY <1>5 DEF T, N

\* A sequence of different nodes is no longer than there are nodes.
LEMMA NoLongerThanNodes ==
    ASSUME NEW s \in Seq(Nodes), \A i, j \in 1 .. Len(s) : s[i] = s[j] => i = j
    PROVE  Len(s) <= Cardinality(Nodes)
<1>1. s \in Injection(1 .. Len(s), Nodes)
  BY DEF Injection, IsInjective
<1>2. Cardinality(1 .. Len(s)) <= Cardinality(Nodes)
  BY <1>1, VfsAssumption, FS_Injection
<1>3. Len(s) \in Nat
  OBVIOUS
<1>4. Cardinality(1 .. Len(s)) = IF 1 > Len(s) THEN 0 ELSE Len(s) - 1 + 1
  BY <1>3, FS_Interval
<1>5. Cardinality(1 .. Len(s)) = Len(s)
  BY <1>3, <1>4
<1> QED BY <1>2, <1>5

\* s lists the children of d: each is linked, names d as its parent and occurs once.
ChildList(d, s) ==
    /\ Chain(s, mem[d].child)
    /\ \A i \in 1 .. Len(s) : s[i] \in Returned /\ mem[s[i]].parent = d
    /\ \A i, j \in 1 .. Len(s) : s[i] = s[j] => i = j

\* There is only one such list, and the loops of vfs.c walk along it.
ListIsUnique == \A d \in Allocated : \A s : ChildList(d, s) => Children(d) = s

LEMMA ChildrenDetermined == ListIsUnique
<1> SUFFICES ASSUME NEW d \in Allocated, NEW s, ChildList(d, s) PROVE Children(d) = s
  BY DEF ListIsUnique
<1>1. Chain(s, mem[d].child) /\ s \in Seq(Nodes)
  BY DEF ChildList, Chain
<1>2. Len(s) <= Cardinality(Nodes)
  BY <1>1, NoLongerThanNodes DEF ChildList
<1>3. Cardinality(Nodes) \in Nat /\ Cardinality(Nodes) <= Cardinality(Nodes)
  BY VfsAssumption, FS_CardinalityType
<1>4. ListFrom[Cardinality(Nodes)][mem[d].child] = s
  BY <1>1, <1>2, <1>3, WalkAlongChain
<1> QED BY <1>4 DEF Children

LEMMA ChildrenDeterminedNext ==
    ASSUME NEW d \in Allocated', NEW s, ChildList(d, s)'
    PROVE  Children(d)' = s
<1>1. ListIsUnique'
  BY ChildrenDetermined, PTL
<1> QED BY <1>1 DEF ListIsUnique

-----------------------------------------------------------------------------
(* The inductive invariant *)

Creating(p) == pc[p] \in {"created", "head", "walk", "tail"}

\* Whatever a link points to has been linked, and names the parent it should.
LinkInv ==
    \A n \in Allocated :
        /\ mem[n].parent \in Allocated \cup {Null}
        /\ mem[n].child # Null => /\ mem[n].child \in Returned /\ mem[mem[n].child].parent = n
                                  /\ mem[n].type = VFS_NODE_DIR
        /\ mem[n].sibling # Null => /\ mem[n].sibling \in Returned
                                    /\ mem[mem[n].sibling].parent = mem[n].parent

\* What the fields of a new node will be.
NewOK(c) == /\ c.dir \in Returned /\ mem[c.dir].type = VFS_NODE_DIR /\ c.cur \in Nodes
            /\ c.new \in NodeRec /\ c.new.parent = c.dir
            /\ c.new.child = Null /\ c.new.sibling = Null

\* A new node is its creator's alone until it is linked; a walk or a lookup is at
\* a node of its directory, in the list or dropped from it.
CallOK(p) ==
    LET c == call[p] IN
    /\ Creating(p) <=> c.node # Null
    /\ pc[p] = "alloc" => NewOK(c)
    /\ Creating(p) =>
         /\ c.node \in Allocated /\ c.dir \in Returned /\ mem[c.dir].type = VFS_NODE_DIR
         /\ mem[c.node].parent = c.dir /\ mem[c.node].child = Null /\ mem[c.node].sibling = Null
    /\ pc[p] \in {"walk", "tail"} => c.cur \in Returned /\ mem[c.cur].parent = c.dir
    /\ pc[p] \in {"lookup", "found"} =>
         /\ c.dir \in Returned
         /\ c.cur # Null => c.cur \in Returned /\ mem[c.cur].parent = c.dir
         /\ c.first # Null => c.first \in Returned /\ mem[c.first].name = c.name
    /\ pc[p] = "found" /\ c.cur # Null => mem[c.cur].name = c.name

CallInv ==
    /\ \A p \in Callers : CallOK(p)
    /\ \A p, q \in Callers : call[p].node # Null /\ call[q].node = call[p].node => q = p

KidsInv == \A d \in Allocated : ChildList(d, Children(d))

\* From where a lookup is, what it is to find is still ahead, if it is there, and
\* nothing else of the name comes before it.
Ahead(s, c) ==
    \E i, j \in 1 .. Len(s) :
        /\ i <= j /\ s[i] = c.cur /\ s[j] = c.first
        /\ \A l \in i .. (j - 1) : mem[s[l]].name # c.name

LookupOK(label, s, c) ==
    label \in {"lookup", "found"} /\ c.first # Null /\ c.first \in Elements(s) =>
        /\ label = "lookup" => Ahead(s, c)
        /\ label = "found" => c.cur = c.first

LookupInv ==
    \A p \in Callers, d \in Nodes :
        d = call[p].dir => LookupOK(pc[p], Children(d), call[p])

\* What stands behind the place of a creation has come since it began, and so has
\* whatever has dropped that place from the list.
SinceOK(label, cur, s, recent) ==
    /\ label = "head" => \A i \in 1 .. Len(s) : s[i] \in recent
    /\ label \in {"walk", "tail"} /\ recent = {} => \E i \in 1 .. Len(s) : s[i] = cur
    /\ label = "tail" => \A i \in 1 .. Len(s) : s[i] = cur =>
          \A j \in (i + 1) .. Len(s) : s[j] \in recent

SinceInv ==
    \A p \in Callers, d \in Nodes : Creating(p) /\ d = call[p].dir =>
        SinceOK(pc[p], call[p].cur, Children(d), since[p])

PointerInv == TypeInv /\ LinkInv /\ CallInv
Inv        == PointerInv /\ KidsInv /\ LookupInv /\ SinceInv

LEMMA InitInv == Init => Inv
<1> SUFFICES ASSUME Init PROVE Inv
  OBVIOUS
<1>1. Allocated = {} /\ mem \in [Allocated -> NodeRec]
  BY DEF Init, Allocated
<1>2. TypeInv
  BY <1>1 DEF Init, TypeInv, Labels, CallRec, Idle, Pointers
<1>3. LinkInv /\ KidsInv
  BY <1>1 DEF LinkInv, KidsInv
<1>4. CallInv
  BY DEF Init, CallInv, CallOK, Creating, Idle
<1>5. LookupInv /\ SinceInv
  BY DEF Init, LookupInv, LookupOK, SinceInv, Creating
<1> QED BY <1>2, <1>3, <1>4, <1>5 DEF Inv, PointerInv

-----------------------------------------------------------------------------
(* The kinds of steps *)

\* Asks is a creation up to the heap's check, Begins what follows if no other has
\* taken the node in between.
Asks(p)   == \E d \in Returned, name \in Names, type \in {VFS_NODE_DIR, VFS_NODE_FILE},
                fs_data \in {FsRoot, Null} : vfs_create(p, d, name, type, fs_data)
Begins(p) == SetUp(p) /\ call[p].cur \notin used
Looks(p)  == \E d \in Returned, name \in Names : vfs_lookup(p, d, name)
Moves(p)  == FirstChild(p) \/ Walk(p) \/ Compare(p) \/ Return(p)
Mounts(p) == \E n \in Returned, fs_root \in {FsRoot, Null} : vfs_mount(p, n, fs_root)

LEMMA NextCases ==
    ASSUME [Next]_vars, ~shared'
    PROVE  \/ UNCHANGED vars
           \/ vfs_init
           \/ \E p \in Callers : \/ Asks(p) \/ Begins(p) \/ Looks(p) \/ Moves(p) \/ Mounts(p)
                                 \/ LinkChild(p) \/ LinkSibling(p)
<1>1. CASE Next
  <2>1. CASE vfs_init
    BY <2>1
  <2>2. ASSUME NEW p \in Callers, NEW d \in Returned, NEW name \in Names,
               \/ vfs_create_dir(p, d, name) \/ vfs_create_file(p, d, name, FsRoot)
               \/ vfs_lookup(p, d, name)
        PROVE  Asks(p) \/ Looks(p)
    BY <2>2 DEF Asks, Looks, vfs_create_dir, vfs_create_file
  <2>3. ASSUME NEW p \in Callers, NEW n \in Returned \cap MountPoints,
               NEW fs_root \in {FsRoot, Null}, vfs_mount(p, n, fs_root)
        PROVE  Mounts(p)
    BY <2>3 DEF Mounts
  <2>4. ASSUME NEW p \in Callers, Step(p)
        PROVE  Begins(p) \/ Moves(p) \/ LinkChild(p) \/ LinkSibling(p)
    <3>1. CASE SetUp(p)
      <4>1. shared' = (shared \/ call[p].cur \in used)
        BY <3>1 DEF SetUp
      <4> QED BY <3>1, <4>1, Zenon DEF Begins
    <3> QED BY <2>4, <3>1 DEF Step, Moves
  <2> QED BY <1>1, <2>1, <2>2, <2>3, <2>4 DEF Next
<1> QED BY <1>1

\* Once a node was given twice, the properties claim nothing any more.
LEMMA SharedStays ==
    ASSUME [Next]_vars, shared
    PROVE  shared'
<1>1. CASE vfs_init
  BY <1>1 DEF vfs_init
<1>2. ASSUME NEW p \in Callers, NEW d, NEW name,
             \/ vfs_create_dir(p, d, name) \/ vfs_create_file(p, d, name, FsRoot)
             \/ vfs_lookup(p, d, name)
      PROVE  shared'
  BY <1>2 DEF vfs_create_dir, vfs_create_file, vfs_create, Begin, vfs_lookup
<1>3. ASSUME NEW p \in Callers, NEW n, NEW fs_root, vfs_mount(p, n, fs_root) PROVE shared'
  BY <1>3 DEF vfs_mount
<1>4. ASSUME NEW p \in Callers, Step(p) PROVE shared'
  <2>1. CASE SetUp(p)
    <3>1. shared' = (shared \/ call[p].cur \in used)
      BY <2>1 DEF SetUp
    <3> QED BY <3>1, Zenon
  <2>2. CASE ~SetUp(p)
    BY <1>4, <2>2 DEF Step, FirstChild, Walk, LinkChild, LinkSibling, Created, Compare, Return
  <2> QED BY <2>1, <2>2
<1> QED BY <1>1, <1>2, <1>3, <1>4 DEF Next, vars

\* A new node, and nothing else changed in memory.
LEMMA WithFacts ==
    ASSUME TypeInv, NEW n \in Nodes, n \notin Allocated, NEW record \in NodeRec,
           mem' = With(n, record)
    PROVE  /\ Allocated' = Allocated \cup {n} /\ mem'[n] = record
           /\ \A m \in Allocated : mem'[m] = mem[m]
           /\ mem' \in [Allocated' -> NodeRec] /\ Allocated' \subseteq Nodes
<1>1. Allocated' = Allocated \cup {n}
  BY DEF With, Allocated
<1>2. mem'[n] = record /\ \A m \in Allocated : mem'[m] = mem[m]
  BY DEF With
<1>3. \A m \in Allocated : mem[m] \in NodeRec
  BY DEF TypeInv
<1>4. mem' \in [Allocated' -> NodeRec]
  BY <1>1, <1>3 DEF With
<1> QED BY <1>1, <1>2, <1>4 DEF TypeInv

\* What a lookup is to find is the first of the name in the list.
LEMMA OldestFacts ==
    ASSUME KidsInv, NEW d \in Allocated, NEW name, Oldest(d, name) # Null
    PROVE  \E j \in 1 .. Len(Children(d)) :
             /\ Children(d)[j] = Oldest(d, name) /\ mem[Children(d)[j]].name = name
             /\ \A l \in 1 .. (j - 1) : mem[Children(d)[l]].name # name
<1> DEFINE s == Children(d)
           named == {i \in DOMAIN s : mem[s[i]].name = name}
<1>1. s \in Seq(Nodes) /\ DOMAIN s = 1 .. Len(s) /\ Len(s) \in Nat
  <2>1. s \in Seq(Nodes)
    BY DEF KidsInv, ChildList, Chain
  <2> HIDE DEF s
  <2> QED BY <2>1
<1>2. named # {} /\ Oldest(d, name) = s[CHOOSE i \in named : \A j \in named : i <= j]
  BY DEF Oldest
<1>3. named \subseteq Nat /\ named \subseteq 1 .. Len(s)
  BY <1>1
<1> DEFINE j == CHOOSE i \in named : \A k \in named : i <= k
<1>4. j \in named /\ \A k \in named : j <= k
  <2>1. \E i \in named : \A k \in named : i <= k
    BY <1>2, <1>3, LeastElement
  <2> QED BY <2>1
<1>5. ASSUME NEW l \in 1 .. (j - 1) PROVE mem[s[l]].name # name
  <2>1. j \in 1 .. Len(s)
    BY <1>3, <1>4
  <2> HIDE DEF j
  <2>2. l \in DOMAIN s /\ ~(j <= l)
    BY <1>1, <2>1
  <2> QED BY <1>4, <2>2
<1>6. j \in 1 .. Len(s) /\ s[j] = Oldest(d, name) /\ mem[s[j]].name = name
  BY <1>1, <1>2, <1>4
<1> HIDE DEF j, s
<1>7. \E k \in 1 .. Len(s) : /\ s[k] = Oldest(d, name) /\ mem[s[k]].name = name
                             /\ \A l \in 1 .. (k - 1) : mem[s[l]].name # name
  BY <1>5, <1>6
<1> QED BY <1>7 DEF s

\* What vfs_init does.
RootMade(n) ==
    /\ n \notin Allocated /\ root = Null /\ root' = n /\ used' = used \cup {n}
    /\ mem' = With(n, NewNode(Null, "root", VFS_NODE_DIR, Null))
    /\ pc' = pc /\ call' = call /\ since' = since

LEMMA InitFacts ==
    ASSUME TypeInv, vfs_init
    PROVE  \E n \in Nodes : RootMade(n)
<1>1. PICK n \in Nodes : /\ kmalloc(n) /\ root' = n /\ used' \in Marks(n)
                         /\ mem' = With(n, NewNode(Null, "root", VFS_NODE_DIR, Null))
  BY DEF vfs_init
<1>2. n \notin used /\ n \notin Allocated
  BY <1>1 DEF kmalloc, TypeInv
<1>3. used' = used \cup {n}
  BY <1>1, <1>2 DEF Marks
<1> QED BY <1>1, <1>2, <1>3 DEF RootMade, vfs_init

\* What a creation has to begin with.
Asked(p, d, n, r) ==
    /\ pc[p] = "idle" /\ pc' = [pc EXCEPT ![p] = "alloc"]
    /\ mem[d].type = VFS_NODE_DIR /\ n \notin used
    /\ r.parent = d /\ r.child = Null /\ r.sibling = Null
    /\ call' = [call EXCEPT ![p] = [Idle EXCEPT !.dir = d, !.cur = n, !.new = r]]
    /\ root' = root /\ used' = used /\ mem' = mem /\ since' = since

LEMMA AskFacts ==
    ASSUME PointerInv, NEW p \in Callers, Asks(p)
    PROVE  \E d \in Returned, n \in Nodes, r \in NodeRec : Asked(p, d, n, r)
<1>1. PICK d \in Returned, name \in Names, type \in {VFS_NODE_DIR, VFS_NODE_FILE},
           fs_data \in {FsRoot, Null} : vfs_create(p, d, name, type, fs_data)
  BY DEF Asks
<1>2. PICK n \in Nodes :
        /\ kmalloc(n)
        /\ call' = [call EXCEPT ![p] = [Idle EXCEPT !.dir = d, !.cur = n,
                                          !.new = NewNode(d, name, type, fs_data)]]
  BY <1>1 DEF vfs_create, Begin
<1>3. PICK r : r = NewNode(d, name, type, fs_data)
  OBVIOUS
<1>4. d \in Pointers
  BY DEF Returned, Pointers, PointerInv, TypeInv
<1>5. r \in NodeRec /\ r.parent = d /\ r.child = Null /\ r.sibling = Null
  BY <1>3, <1>4 DEF NewNode, NodeRec, Pointers
<1>6. /\ pc[p] = "idle" /\ pc' = [pc EXCEPT ![p] = "alloc"] /\ mem[d].type = VFS_NODE_DIR
      /\ root' = root /\ used' = used /\ mem' = mem /\ since' = since /\ n \notin used
  BY <1>1, <1>2 DEF vfs_create, Begin, IsDirectory, kmalloc
<1> QED BY <1>2, <1>3, <1>5, <1>6 DEF Asked

\* What a creation begins with.
Begun(p, d, n) ==
    /\ n \notin Allocated /\ Allocated' = Allocated \cup {n} /\ Allocated' \subseteq Nodes
    /\ used' = used \cup {n} /\ mem' \in [Allocated' -> NodeRec]
    /\ pc[p] = "alloc" /\ pc' = [pc EXCEPT ![p] = "created"]
    /\ mem[d].type = VFS_NODE_DIR
    /\ mem'[n].parent = d /\ mem'[n].child = Null /\ mem'[n].sibling = Null
    /\ \A m \in Allocated : mem'[m] = mem[m]
    /\ call' = [call EXCEPT ![p] = [Idle EXCEPT !.dir = d, !.node = n]]
    /\ root' = root /\ since' = since

LEMMA BeginFacts ==
    ASSUME PointerInv, NEW p \in Callers, Begins(p)
    PROVE  \E d \in Returned, n \in Nodes : Begun(p, d, n)
<1>1. PICK d, n, r : d = call[p].dir /\ n = call[p].cur /\ r = call[p].new
  OBVIOUS
<1>2. pc[p] = "alloc" /\ NewOK(call[p]) /\ n \notin used
  BY <1>1 DEF Begins, SetUp, PointerInv, CallInv, CallOK
<1>3. /\ d \in Returned /\ mem[d].type = VFS_NODE_DIR /\ n \in Nodes /\ n \notin Allocated
      /\ r \in NodeRec /\ r.parent = d /\ r.child = Null /\ r.sibling = Null
  BY <1>1, <1>2 DEF NewOK, PointerInv, TypeInv
<1>4. /\ used' \in Marks(n) /\ mem' = With(n, r) /\ pc' = [pc EXCEPT ![p] = "created"]
      /\ call' = [call EXCEPT ![p] = [Idle EXCEPT !.dir = d, !.node = n]]
      /\ root' = root /\ since' = since
  BY <1>1 DEF Begins, SetUp
<1>5. used' = used \cup {n}
  BY <1>2, <1>4 DEF Marks
<1>6. /\ Allocated' = Allocated \cup {n} /\ mem'[n] = r /\ \A m \in Allocated : mem'[m] = mem[m]
      /\ mem' \in [Allocated' -> NodeRec] /\ Allocated' \subseteq Nodes
  BY <1>3, <1>4, WithFacts DEF PointerInv
<1> QED BY <1>2, <1>3, <1>4, <1>5, <1>6 DEF Begun

LEMMA TypeStep ==
    ASSUME PointerInv, KidsInv, [Next]_vars, ~shared'
    PROVE  TypeInv'
<1> USE DEF PointerInv
<1>0. Null \notin Nodes /\ Returned \subseteq Allocated /\ Allocated \subseteq Nodes
  BY VfsAssumption DEF Returned, TypeInv
<1>1. CASE UNCHANGED vars
  BY <1>1 DEF vars, TypeInv, Allocated
<1>2. CASE vfs_init
  <2>1. PICK n \in Nodes : RootMade(n)
    BY <1>2, InitFacts
  <2>2. NewNode(Null, "root", VFS_NODE_DIR, Null) \in NodeRec
    BY DEF NewNode, NodeRec, Pointers
  <2>3. /\ mem' \in [Allocated' -> NodeRec] /\ Allocated' \subseteq Nodes
        /\ Allocated' = Allocated \cup {n} /\ root' \in Pointers
    BY <2>1, <2>2, WithFacts DEF RootMade, Pointers
  <2> QED BY <2>1, <2>3 DEF RootMade, TypeInv
<1>3. ASSUME NEW p \in Callers,
             \/ Asks(p) \/ Begins(p) \/ Looks(p) \/ Moves(p) \/ Mounts(p)
             \/ LinkChild(p) \/ LinkSibling(p)
      PROVE  TypeInv'
  <2>0. /\ call \in [Callers -> CallRec] /\ pc \in [Callers -> Labels]
        /\ mem \in [Allocated -> NodeRec] /\ since \in [Callers -> SUBSET Nodes]
        /\ used = Allocated
    BY DEF TypeInv
  <2>1. ASSUME Asks(p) PROVE TypeInv'
    <3>1. PICK d \in Returned, n \in Nodes, r \in NodeRec : Asked(p, d, n, r)
      BY <2>1, AskFacts
    <3>2. [Idle EXCEPT !.dir = d, !.cur = n, !.new = r] \in CallRec
      BY <1>0 DEF Idle, CallRec, Pointers
    <3>3. call' \in [Callers -> CallRec] /\ pc' \in [Callers -> Labels]
      BY <2>0, <3>1, <3>2 DEF Asked, Labels
    <3> QED BY <3>1, <3>3 DEF Asked, TypeInv, Allocated
  <2>6. ASSUME Begins(p) PROVE TypeInv'
    <3>1. PICK d \in Returned, n \in Nodes : Begun(p, d, n)
      BY <2>6, BeginFacts
    <3>2. [Idle EXCEPT !.dir = d, !.node = n] \in CallRec
      BY <1>0 DEF Idle, CallRec, Pointers
    <3>3. call' \in [Callers -> CallRec] /\ pc' \in [Callers -> Labels]
      BY <2>0, <3>1, <3>2 DEF Begun, Labels
    <3> QED BY <2>0, <3>1, <3>3 DEF Begun, TypeInv
  <2>2. ASSUME Looks(p) PROVE TypeInv'
    <3>1. PICK d \in Returned, name \in Names : vfs_lookup(p, d, name)
      BY <2>2 DEF Looks
    <3>2. mem[d].child \in Pointers /\ d \in Pointers
      BY <1>0, <2>0 DEF NodeRec, Pointers
    <3>3. Oldest(d, name) \in Pointers
      <4>1. CASE Oldest(d, name) = Null
        BY <4>1 DEF Pointers
      <4>2. CASE Oldest(d, name) # Null
        <5>1. PICK j \in 1 .. Len(Children(d)) : Children(d)[j] = Oldest(d, name)
          BY <1>0, <4>2, OldestFacts
        <5>2. Children(d)[j] \in Returned
          BY <1>0 DEF KidsInv, ChildList
        <5> QED BY <1>0, <5>1, <5>2 DEF Pointers
      <4> QED BY <4>1, <4>2
    <3> DEFINE c == [Idle EXCEPT !.dir = d, !.name = name, !.cur = mem[d].child,
                                 !.first = Oldest(d, name)]
    <3>4. c \in CallRec
      BY <3>2, <3>3 DEF Idle, CallRec, Pointers
    <3>5. call' = [call EXCEPT ![p] = c] /\ pc' = [pc EXCEPT ![p] = "lookup"]
          /\ root' = root /\ mem' = mem /\ used' = used /\ since' = since
      BY <3>1 DEF vfs_lookup, Begin
    <3> HIDE DEF c
    <3>6. call' \in [Callers -> CallRec] /\ pc' \in [Callers -> Labels]
      BY <2>0, <3>4, <3>5 DEF Labels
    <3> QED BY <3>5, <3>6 DEF TypeInv, Allocated
  <2>3. ASSUME Moves(p) PROVE TypeInv'
    <3>1. root' = root /\ mem' = mem /\ used' = used /\ since' = since
      BY <2>3 DEF Moves, FirstChild, Walk, Compare, Return
    <3>2. pc' \in [Callers -> Labels]
      BY <2>0, <2>3 DEF Moves, FirstChild, Walk, Compare, Return, Labels
    <3>3. ASSUME NEW n \in Allocated PROVE mem[n].child \in Pointers /\ mem[n].sibling \in Pointers
      BY <2>0 DEF NodeRec
    <3>4. ASSUME NEW n \in Pointers PROVE [call EXCEPT ![p].cur = n] \in [Callers -> CallRec]
      <4>1. [call[p] EXCEPT !.cur = n] \in CallRec
        <5>1. call[p] \in CallRec
          BY <2>0
        <5> QED BY <5>1 DEF CallRec
      <4> QED BY <2>0, <4>1
    <3>5. call' \in [Callers -> CallRec]
      <4>0. CallOK(p)
        BY DEF CallInv
      <4>1. CASE FirstChild(p)
        <5>1. call[p].dir \in Allocated
          BY <1>0, <4>0, <4>1 DEF FirstChild, CallOK, Creating
        <5> QED BY <3>3, <3>4, <4>1, <5>1 DEF FirstChild
      <4>2. CASE Walk(p)
        <5>1. call[p].cur \in Allocated
          BY <1>0, <4>0, <4>2 DEF Walk, CallOK
        <5> QED BY <2>0, <3>3, <3>4, <4>2, <5>1 DEF Walk, NextNode
      <4>3. CASE Compare(p)
        <5>1. call[p].cur # Null => call[p].cur \in Allocated
          BY <1>0, <4>0, <4>3 DEF Compare, CallOK
        <5> QED BY <2>0, <3>3, <3>4, <4>3, <5>1 DEF Compare, NextNode
      <4>4. CASE Return(p)
        <5>1. Idle \in CallRec
          BY DEF Idle, CallRec, Pointers
        <5> QED BY <2>0, <4>4, <5>1 DEF Return
      <4> QED BY <2>3, <4>1, <4>2, <4>3, <4>4 DEF Moves
    <3> QED BY <3>1, <3>2, <3>5 DEF TypeInv, Allocated
  <2>4. ASSUME Mounts(p) PROVE TypeInv'
    <3>1. PICK n \in Returned, fs_root \in {FsRoot, Null} : vfs_mount(p, n, fs_root)
      BY <2>4 DEF Mounts
    <3>2. /\ mem' = [mem EXCEPT ![n].fs_data = fs_root] /\ n \in Allocated
          /\ UNCHANGED <<root, used, pc, call, since>>
      BY <1>0, <3>1 DEF vfs_mount
    <3>3. [mem[n] EXCEPT !.fs_data = fs_root] \in NodeRec
      <4>1. mem[n] \in NodeRec
        BY <2>0, <3>2
      <4> QED BY <4>1 DEF NodeRec
    <3>4. mem' \in [Allocated -> NodeRec] /\ Allocated' = Allocated
      BY <2>0, <3>2, <3>3 DEF Allocated
    <3> QED BY <3>2, <3>4 DEF TypeInv
  <2>5. ASSUME LinkChild(p) \/ LinkSibling(p) PROVE TypeInv'
    <3>0. /\ CallOK(p) /\ Creating(p) /\ call[p].node \in Nodes /\ call[p].dir \in Allocated
          /\ pc[p] = "tail" => call[p].cur \in Allocated
      BY <1>0, <2>5 DEF CallInv, CallOK, Creating, LinkChild, LinkSibling
    <3>1. root' = root /\ used' = used /\ pc' \in [Callers -> Labels] /\ call' \in [Callers -> CallRec]
      <4>1. Idle \in CallRec
        BY DEF Idle, CallRec, Pointers
      <4>2. Created(p)
        BY <2>5 DEF LinkChild, LinkSibling
      <4> QED BY <2>0, <4>1, <4>2 DEF Created, Labels
    <3>2. since' \in [Callers -> SUBSET Nodes]
      <4>1. since' = [q \in Callers |->
              IF q = p THEN {}
              ELSE IF Creates(q) /\ call[q].dir = call[p].dir THEN since[q] \cup {call[p].node}
              ELSE since[q]]
        BY <2>5 DEF LinkChild, LinkSibling, Created
      <4> QED BY <2>0, <3>0, <4>1
    <3>3. mem' \in [Allocated -> NodeRec] /\ Allocated' = Allocated
      <4>1. \A n \in Allocated : mem[n] \in NodeRec
        BY <2>0
      <4>2. \A n \in Allocated : /\ [mem[n] EXCEPT !.child = call[p].node] \in NodeRec
                                 /\ [mem[n] EXCEPT !.sibling = call[p].node] \in NodeRec
        BY <3>0, <4>1 DEF NodeRec, Pointers
      <4>3. CASE LinkChild(p)
        BY <2>0, <3>0, <4>2, <4>3 DEF LinkChild, Allocated
      <4>4. CASE LinkSibling(p)
        BY <2>0, <3>0, <4>2, <4>4 DEF LinkSibling, LinkedTo, Allocated
      <4> QED BY <2>5, <4>3, <4>4
    <3> QED BY <2>0, <3>1, <3>2, <3>3 DEF TypeInv
  <2> QED BY <1>3, <2>1, <2>2, <2>3, <2>4, <2>5, <2>6
<1> QED BY <1>1, <1>2, <1>3, NextCases

-----------------------------------------------------------------------------
(* Steps that leave the links alone *)

\* New nodes hang in the air; everything else is as it was.
Steady ==
    /\ Allocated \subseteq Allocated' /\ Returned \subseteq Returned'
    /\ \A n \in Allocated : /\ mem'[n].name = mem[n].name /\ mem'[n].type = mem[n].type
                            /\ mem'[n].parent = mem[n].parent /\ mem'[n].child = mem[n].child
                            /\ mem'[n].sibling = mem[n].sibling
    /\ \A n \in Allocated' : n \notin Allocated =>
          /\ mem'[n].child = Null /\ mem'[n].sibling = Null
          /\ mem'[n].parent \in Allocated \cup {Null}

LEMMA SteadyMemory ==
    ASSUME mem' = mem, \A q \in Callers : call'[q].node \in {call[q].node, Null},
           Null \notin Allocated
    PROVE  Steady
<1>1. Allocated' = Allocated
  BY DEF Allocated
<1>2. Returned \subseteq Returned'
  BY <1>1 DEF Returned
<1> QED BY <1>1, <1>2 DEF Steady

LEMMA SteadySteps ==
    ASSUME PointerInv,
           \/ UNCHANGED vars \/ vfs_init
           \/ \E p \in Callers : Asks(p) \/ Begins(p) \/ Looks(p) \/ Moves(p) \/ Mounts(p)
    PROVE  Steady
<1>0. /\ Null \notin Nodes /\ Returned \subseteq Allocated /\ Allocated \subseteq Nodes
      /\ call \in [Callers -> CallRec] /\ \A p \in Callers : call[p].node \in Allocated \cup {Null}
  BY VfsAssumption DEF Returned, PointerInv, TypeInv, CallInv, CallOK
<1>1. CASE UNCHANGED vars
  BY <1>0, <1>1, SteadyMemory DEF vars
<1>2. CASE vfs_init
  <2>1. PICK n \in Nodes : RootMade(n)
    BY <1>2, InitFacts DEF PointerInv
  <2>2. NewNode(Null, "root", VFS_NODE_DIR, Null) \in NodeRec
    BY DEF NewNode, NodeRec, Pointers
  <2>3. /\ Allocated' = Allocated \cup {n} /\ \A m \in Allocated : mem'[m] = mem[m]
        /\ mem'[n] = NewNode(Null, "root", VFS_NODE_DIR, Null)
    BY <2>1, <2>2, WithFacts DEF RootMade, PointerInv
  <2>4. mem'[n].child = Null /\ mem'[n].sibling = Null /\ mem'[n].parent = Null
    BY <2>3 DEF NewNode
  <2>5. Returned \subseteq Returned'
    BY <2>1, <2>3 DEF RootMade, Returned
  <2> QED BY <2>3, <2>4, <2>5 DEF Steady
<1>3. ASSUME NEW p \in Callers, Begins(p) PROVE Steady
  <2>1. PICK d \in Returned, n \in Nodes : Begun(p, d, n)
    BY <1>3, BeginFacts
  <2>2. \A q \in Callers : call'[q].node \in {n, call[q].node}
    BY <1>0, <2>1 DEF Idle, Begun
  <2>3. Returned \subseteq Returned'
    BY <2>1, <2>2 DEF Returned, Begun
  <2> QED BY <1>0, <2>1, <2>3 DEF Steady, Begun
<1>4. ASSUME NEW p \in Callers, Asks(p) \/ Looks(p) \/ Moves(p) PROVE Steady
  <2>1. mem' = mem
    BY <1>4 DEF Asks, vfs_create, Begin, Looks, vfs_lookup, Moves, FirstChild, Walk, Compare, Return
  <2>2. ASSUME NEW q \in Callers PROVE call'[q].node \in {call[q].node, Null}
    <3>0. CASE Asks(p)
      <4>1. PICK d \in Returned, n \in Nodes, r \in NodeRec : Asked(p, d, n, r)
        BY <3>0, AskFacts
      <4>2. call'[q] = IF q = p THEN [Idle EXCEPT !.dir = d, !.cur = n, !.new = r] ELSE call[q]
        BY <1>0, <4>1 DEF Asked
      <4> QED BY <4>2 DEF Idle
    <3>1. CASE Looks(p)
      BY <1>0, <3>1 DEF Looks, vfs_lookup, Begin, Idle
    <3>2. CASE FirstChild(p)
      BY <1>0, <3>2 DEF FirstChild, CallRec
    <3>3. CASE Walk(p)
      BY <1>0, <3>3 DEF Walk, CallRec
    <3>4. CASE Compare(p)
      BY <1>0, <3>4 DEF Compare, CallRec
    <3>5. CASE Return(p)
      BY <1>0, <3>5 DEF Return, Idle
    <3> QED BY <1>4, <3>0, <3>1, <3>2, <3>3, <3>4, <3>5 DEF Moves
  <2> QED BY <1>0, <2>1, <2>2, SteadyMemory
<1>5. ASSUME NEW p \in Callers, Mounts(p) PROVE Steady
  <2>1. PICK n \in Allocated, fs_root \in {FsRoot, Null} :
           mem' = [mem EXCEPT ![n].fs_data = fs_root] /\ call' = call
    BY <1>0, <1>5 DEF Mounts, vfs_mount
  <2>2. mem \in [Allocated -> NodeRec]
    BY DEF PointerInv, TypeInv
  <2>3. Allocated' = Allocated /\ Returned' = Returned
    <3>1. Allocated' = Allocated
      BY <2>1, <2>2 DEF Allocated
    <3> QED BY <2>1, <3>1 DEF Returned
  <2>4. ASSUME NEW m \in Allocated
        PROVE  /\ mem'[m].name = mem[m].name /\ mem'[m].type = mem[m].type
               /\ mem'[m].parent = mem[m].parent /\ mem'[m].child = mem[m].child
               /\ mem'[m].sibling = mem[m].sibling
    <3>1. mem[m] \in NodeRec
      BY <2>2
    <3>2. mem'[m] = mem[m] \/ mem'[m] = [mem[m] EXCEPT !.fs_data = fs_root]
      BY <2>1, <2>2
    <3> QED BY <3>1, <3>2 DEF NodeRec
  <2> QED BY <2>3, <2>4 DEF Steady
<1> QED BY <1>1, <1>2, <1>3, <1>4, <1>5

LEMMA SteadyLinks ==
    ASSUME PointerInv, Steady
    PROVE  LinkInv'
<1>0. Null \notin Allocated /\ Returned \subseteq Allocated
  BY VfsAssumption DEF Returned, PointerInv, TypeInv
<1> SUFFICES ASSUME NEW n \in Allocated'
             PROVE  /\ mem'[n].parent \in Allocated' \cup {Null}
                    /\ mem'[n].child # Null =>
                          /\ mem'[n].child \in Returned' /\ mem'[mem'[n].child].parent = n
                          /\ mem'[n].type = VFS_NODE_DIR
                    /\ mem'[n].sibling # Null =>
                          /\ mem'[n].sibling \in Returned'
                          /\ mem'[mem'[n].sibling].parent = mem'[n].parent
  BY DEF LinkInv
<1>1. CASE n \in Allocated
  BY <1>0, <1>1 DEF Steady, LinkInv, PointerInv
<1>2. CASE n \notin Allocated
  BY <1>2 DEF Steady
<1> QED BY <1>1, <1>2

\* The lists of children are as they were.
LEMMA SteadyKids ==
    ASSUME PointerInv, KidsInv, Steady
    PROVE  KidsInv' /\ \A d \in Nodes : Children(d)' = Children(d)
<1>0. Null \notin Allocated /\ Returned \subseteq Allocated
  BY VfsAssumption DEF Returned, PointerInv, TypeInv
<1>1. ASSUME NEW d \in Allocated
      PROVE  ChildList(d, Children(d))' /\ Children(d)' = Children(d)
  <2>1. ChildList(d, Children(d))
    BY DEF KidsInv
  <2>2. PICK t : t = Children(d)
    OBVIOUS
  <2>3. ChildList(d, t)
    BY <2>1, <2>2
  <2>4. ChildList(d, t)'
    BY <1>0, <2>3 DEF ChildList, Chain, Steady
  <2>5. Children(d)' = t
    <3>1. d \in Allocated'
      BY DEF Steady
    <3> QED BY <2>4, <3>1, ChildrenDeterminedNext
  <2> QED BY <2>2, <2>4, <2>5
<1>2. ASSUME NEW d \in Allocated', d \notin Allocated
      PROVE  ChildList(d, Children(d))' /\ Children(d)' = Children(d)
  <2>1. mem'[d].child = Null
    BY <1>2 DEF Steady
  <2>2. ChildList(d, <<>>)'
    BY <2>1 DEF ChildList, Chain
  <2>3. Children(d)' = <<>>
    BY <2>2, ChildrenDeterminedNext
  <2> QED BY <1>2, <2>2, <2>3 DEF Children
<1>3. ASSUME NEW d \in Nodes, d \notin Allocated' PROVE Children(d)' = Children(d)
  <2>1. d \notin Allocated
    BY <1>3 DEF Steady
  <2> QED BY <1>3, <2>1 DEF Children
<1>4. KidsInv'
  BY <1>1, <1>2 DEF KidsInv
<1> QED BY <1>1, <1>2, <1>3, <1>4

\* A call of another is where it was.
LEMMA OtherCall ==
    ASSUME TypeInv, NEW q \in Callers, CallOK(q), pc'[q] = pc[q], call'[q] = call[q],
           Allocated \subseteq Allocated', Returned \subseteq Returned',
           \A n \in Allocated : /\ mem'[n].name = mem[n].name /\ mem'[n].type = mem[n].type
                                /\ mem'[n].parent = mem[n].parent,
           call[q].node # Null => /\ mem'[call[q].node].child = mem[call[q].node].child
                                  /\ mem'[call[q].node].sibling = mem[call[q].node].sibling
    PROVE  CallOK(q)'
<1>1. Returned \subseteq Allocated
  BY DEF Returned
<1> QED BY <1>1 DEF CallOK, NewOK, Creating

LEMMA SteadyOthers ==
    ASSUME PointerInv, Steady, NEW q \in Callers,
           pc'[q] = pc[q], call'[q] = call[q]
    PROVE  CallOK(q)'
<1>1. CallOK(q) /\ TypeInv
  BY DEF PointerInv, CallInv
<1>2. call[q].node # Null => call[q].node \in Allocated
  BY <1>1 DEF CallOK
<1> QED BY <1>1, <1>2, OtherCall DEF Steady

LEMMA BeginCalls ==
    ASSUME PointerInv, NEW p \in Callers, Begins(p)
    PROVE  CallInv'
<1>0. /\ Null \notin Nodes /\ Returned \subseteq Allocated /\ Allocated \subseteq Nodes
      /\ call \in [Callers -> CallRec] /\ pc \in [Callers -> Labels]
      /\ \A q \in Callers : call[q].node \in Allocated \cup {Null}
  BY VfsAssumption DEF Returned, PointerInv, TypeInv, CallInv, CallOK
<1>1. PICK d \in Returned, n \in Nodes : Begun(p, d, n)
  BY BeginFacts
<1>2. Steady
  BY SteadySteps
<1>3. ASSUME NEW q \in Callers, q # p PROVE CallOK(q)'
  BY <1>0, <1>1, <1>2, <1>3, SteadyOthers DEF Begun
<1>4. call'[p].node = n /\ call'[p].dir = d /\ pc'[p] = "created"
  BY <1>0, <1>1 DEF Begun, Idle
<1>6. CallOK(p)'
  <2>1. n \in Allocated' /\ d \in Returned' /\ n # Null
    BY <1>0, <1>1, <1>2 DEF Begun, Steady
  <2>2. mem'[d].type = VFS_NODE_DIR /\ mem'[n].parent = d
        /\ mem'[n].child = Null /\ mem'[n].sibling = Null
    BY <1>0, <1>1 DEF Begun
  <2> QED BY <1>4, <2>1, <2>2 DEF CallOK, Creating
<1>7. ASSUME NEW q \in Callers, NEW r \in Callers,
             call'[q].node # Null, call'[r].node = call'[q].node
      PROVE  r = q
  <2>1. \A u \in Callers : u # p => call'[u] = call[u]
    BY <1>0, <1>1 DEF Begun
  <2>2. \A u \in Callers : call[u].node # n
    BY <1>0, <1>1 DEF Begun
  <2> QED BY <1>4, <1>7, <2>1, <2>2 DEF PointerInv, CallInv
<1> QED BY <1>3, <1>6, <1>7 DEF CallInv

LEMMA AskCalls ==
    ASSUME PointerInv, NEW p \in Callers, Asks(p)
    PROVE  CallInv'
<1>0. /\ Null \notin Nodes /\ call \in [Callers -> CallRec] /\ pc \in [Callers -> Labels]
  BY VfsAssumption DEF PointerInv, TypeInv
<1>1. PICK d \in Returned, n \in Nodes, r \in NodeRec : Asked(p, d, n, r)
  BY AskFacts
<1>2. Steady
  BY SteadySteps
<1>3. \A q \in Callers : q # p => call'[q] = call[q] /\ pc'[q] = pc[q]
  BY <1>0, <1>1 DEF Asked
<1>4. ASSUME NEW q \in Callers, q # p PROVE CallOK(q)'
  BY <1>2, <1>3, <1>4, SteadyOthers
<1>5. /\ call'[p].node = Null /\ call'[p].dir = d /\ call'[p].cur = n /\ call'[p].new = r
      /\ pc'[p] = "alloc"
  BY <1>0, <1>1 DEF Asked, Idle
<1>6. NewOK(call[p])'
  BY <1>1, <1>2, <1>5 DEF Asked, Steady, NewOK
<1>7. CallOK(p)'
  BY <1>5, <1>6 DEF CallOK, Creating
<1>8. \A q, r2 \in Callers : call'[q].node # Null /\ call'[r2].node = call'[q].node => r2 = q
  BY <1>3, <1>5 DEF PointerInv, CallInv
<1> QED BY <1>4, <1>7, <1>8 DEF CallInv

LEMMA LookCalls ==
    ASSUME PointerInv, KidsInv, NEW p \in Callers, Looks(p)
    PROVE  CallInv'
<1>0. /\ Null \notin Nodes /\ Returned \subseteq Allocated /\ Allocated \subseteq Nodes
      /\ call \in [Callers -> CallRec] /\ pc \in [Callers -> Labels]
  BY VfsAssumption DEF Returned, PointerInv, TypeInv
<1>1. PICK d \in Returned, name \in Names : vfs_lookup(p, d, name)
  BY DEF Looks
<1>2. Steady
  BY SteadySteps
<1>3. /\ pc[p] = "idle" /\ pc' = [pc EXCEPT ![p] = "lookup"] /\ mem' = mem
      /\ Allocated' = Allocated
  BY <1>1 DEF vfs_lookup, Begin, Allocated
<1>4. /\ call'[p].dir = d /\ call'[p].name = name /\ call'[p].cur = mem[d].child
      /\ call'[p].first = Oldest(d, name) /\ call'[p].node = Null
      /\ \A q \in Callers : q # p => call'[q] = call[q]
  BY <1>0, <1>1 DEF vfs_lookup, Begin, Idle
<1>5. ASSUME NEW q \in Callers, q # p PROVE CallOK(q)'
  BY <1>0, <1>2, <1>3, <1>4, <1>5, SteadyOthers
<1>6. CallOK(p)'
  <2>1. pc'[p] = "lookup"
    BY <1>0, <1>3
  <2>2. mem[d].child # Null => mem[d].child \in Returned /\ mem[mem[d].child].parent = d
    BY <1>0 DEF PointerInv, LinkInv
  <2>3. Oldest(d, name) # Null => Oldest(d, name) \in Returned /\ mem[Oldest(d, name)].name = name
    <3> SUFFICES ASSUME Oldest(d, name) # Null
                 PROVE  Oldest(d, name) \in Returned /\ mem[Oldest(d, name)].name = name
      OBVIOUS
    <3>1. PICK j \in 1 .. Len(Children(d)) :
             Children(d)[j] = Oldest(d, name) /\ mem[Children(d)[j]].name = name
      BY <1>0, OldestFacts
    <3>2. Children(d)[j] \in Returned
      BY <1>0 DEF KidsInv, ChildList
    <3> QED BY <3>1, <3>2
  <2>4. Returned \subseteq Returned'
    BY <1>2 DEF Steady
  <2> QED BY <1>3, <1>4, <2>1, <2>2, <2>3, <2>4 DEF CallOK, Creating
<1>7. \A q, r \in Callers : call'[q].node # Null /\ call'[r].node = call'[q].node => r = q
  BY <1>4 DEF PointerInv, CallInv
<1> QED BY <1>5, <1>6, <1>7 DEF CallInv

LEMMA MoveCalls ==
    ASSUME PointerInv, NEW p \in Callers, Moves(p)
    PROVE  CallInv'
<1>0. /\ Null \notin Nodes /\ Returned \subseteq Allocated /\ Allocated \subseteq Nodes
      /\ call \in [Callers -> CallRec] /\ pc \in [Callers -> Labels]
      /\ call[p] \in CallRec /\ CallOK(p) /\ LinkInv
  BY VfsAssumption DEF Returned, PointerInv, TypeInv, CallInv
<1>1. Steady
  BY SteadySteps
<1>2. /\ mem' = mem /\ Allocated' = Allocated /\ Returned \subseteq Returned'
      /\ \A q \in Callers : q # p => call'[q] = call[q] /\ pc'[q] = pc[q]
  <2>1. mem' = mem
    BY DEF Moves, FirstChild, Walk, Compare, Return
  <2>2. \A q \in Callers : q # p => call'[q] = call[q] /\ pc'[q] = pc[q]
    BY <1>0 DEF Moves, FirstChild, Walk, Compare, Return
  <2> QED BY <1>1, <2>1, <2>2 DEF Steady, Allocated
<1>3. ASSUME NEW q \in Callers, q # p PROVE CallOK(q)'
  BY <1>1, <1>2, <1>3, SteadyOthers
<1>4. CASE FirstChild(p)
  <2>1. /\ pc[p] = "created" /\ call'[p] = [call[p] EXCEPT !.cur = mem[call[p].dir].child]
        /\ pc'[p] = IF mem[call[p].dir].child = Null THEN "head" ELSE "walk"
    BY <1>0, <1>4 DEF FirstChild
  <2>2. /\ call'[p].node = call[p].node /\ call'[p].dir = call[p].dir
        /\ call'[p].cur = mem[call[p].dir].child
    BY <1>0, <2>1 DEF CallRec
  <2>3. call[p].dir \in Allocated
    BY <1>0, <2>1 DEF CallOK, Creating
  <2>4. CallOK(p)'
    BY <1>0, <1>2, <2>1, <2>2, <2>3 DEF CallOK, Creating, LinkInv
  <2>5. \A q, r \in Callers : call'[q].node # Null /\ call'[r].node = call'[q].node => r = q
    BY <1>2, <2>2 DEF PointerInv, CallInv
  <2> QED BY <1>3, <2>4, <2>5 DEF CallInv
<1>5. CASE Walk(p)
  <2>1. CASE NextNode(call[p].cur) = Null
    <3>1. pc[p] = "walk" /\ call' = call /\ pc'[p] = "tail"
      BY <1>0, <1>5, <2>1 DEF Walk
    <3>2. CallOK(p)'
      BY <1>0, <1>2, <3>1 DEF CallOK, Creating
    <3> QED BY <1>3, <3>1, <3>2 DEF CallInv, PointerInv
  <2>2. CASE NextNode(call[p].cur) # Null
    <3>1. /\ pc[p] = "walk" /\ pc' = pc
          /\ call'[p] = [call[p] EXCEPT !.cur = mem[call[p].cur].sibling]
      BY <1>0, <1>5, <2>2 DEF Walk, NextNode
    <3>2. /\ call'[p].node = call[p].node /\ call'[p].dir = call[p].dir
          /\ call'[p].cur = mem[call[p].cur].sibling
      BY <1>0, <3>1 DEF CallRec
    <3>3. call[p].cur \in Allocated /\ mem[call[p].cur].parent = call[p].dir
      BY <1>0, <3>1 DEF CallOK
    <3>4. CallOK(p)'
      BY <1>0, <1>2, <2>2, <3>1, <3>2, <3>3 DEF CallOK, Creating, LinkInv, NextNode
    <3>5. \A q, r \in Callers : call'[q].node # Null /\ call'[r].node = call'[q].node => r = q
      BY <1>2, <3>2 DEF PointerInv, CallInv
    <3> QED BY <1>3, <3>4, <3>5 DEF CallInv
  <2> QED BY <2>1, <2>2
<1>6. CASE Compare(p)
  <2>1. pc[p] = "lookup"
    BY <1>6 DEF Compare
  <2>2. CASE call[p].cur = Null \/ Matches(call[p].cur, call[p].name)
    <3>1. call' = call /\ pc'[p] = "found"
      BY <1>0, <1>6, <2>2 DEF Compare
    <3>2. CallOK(p)'
      BY <1>0, <1>2, <2>1, <2>2, <3>1 DEF CallOK, Creating, Matches
    <3> QED BY <1>3, <3>1, <3>2 DEF CallInv, PointerInv
  <2>3. CASE ~(call[p].cur = Null \/ Matches(call[p].cur, call[p].name))
    <3>1. /\ pc' = pc /\ call'[p] = [call[p] EXCEPT !.cur = mem[call[p].cur].sibling]
      BY <1>0, <1>6, <2>3 DEF Compare, NextNode
    <3>2. /\ call'[p].node = call[p].node /\ call'[p].dir = call[p].dir
          /\ call'[p].cur = mem[call[p].cur].sibling /\ call'[p].first = call[p].first
          /\ call'[p].name = call[p].name
      BY <1>0, <3>1 DEF CallRec
    <3>3. call[p].cur \in Allocated /\ mem[call[p].cur].parent = call[p].dir
      BY <1>0, <2>1, <2>3 DEF CallOK
    <3>4. CallOK(p)'
      BY <1>0, <1>2, <2>1, <2>3, <3>1, <3>2, <3>3 DEF CallOK, Creating, LinkInv
    <3>5. \A q, r \in Callers : call'[q].node # Null /\ call'[r].node = call'[q].node => r = q
      BY <1>2, <3>2 DEF PointerInv, CallInv
    <3> QED BY <1>3, <3>4, <3>5 DEF CallInv
  <2> QED BY <2>2, <2>3
<1>7. CASE Return(p)
  <2>1. pc[p] = "found" /\ pc'[p] = "idle" /\ call'[p] = Idle
    BY <1>0, <1>7 DEF Return
  <2>2. CallOK(p)' /\ call'[p].node = Null
    BY <1>0, <1>2, <2>1 DEF CallOK, Creating, Idle
  <2>3. \A q, r \in Callers : call'[q].node # Null /\ call'[r].node = call'[q].node => r = q
    BY <1>2, <2>2 DEF PointerInv, CallInv
  <2> QED BY <1>3, <2>2, <2>3 DEF CallInv
<1> QED BY <1>4, <1>5, <1>6, <1>7 DEF Moves

LEMMA IdleCalls ==
    ASSUME PointerInv, UNCHANGED vars \/ vfs_init \/ \E p \in Callers : Mounts(p)
    PROVE  CallInv'
<1>1. pc' = pc /\ call' = call
  BY DEF vars, vfs_init, Mounts, vfs_mount
<1>2. Steady
  BY SteadySteps
<1>3. \A q \in Callers : CallOK(q)'
  BY <1>1, <1>2, SteadyOthers
<1> QED BY <1>1, <1>3 DEF CallInv, PointerInv

-----------------------------------------------------------------------------
(* A creation links its node *)

\* The node becomes the first child of its directory, or the sibling of the node
\* the walk has ended at.
Linked(p) ==
    LET c == call[p] IN
    /\ CallOK(p) /\ Creating(p)
    /\ Allocated' = Allocated /\ Returned' = Returned \cup {c.node}
    /\ pc' = [pc EXCEPT ![p] = "idle"] /\ call' = [call EXCEPT ![p] = Idle]
    /\ since' = [q \in Callers |->
         IF q = p THEN {}
         ELSE IF Creates(q) /\ call[q].dir = c.dir THEN since[q] \cup {c.node} ELSE since[q]]
    /\ \A n \in Allocated : /\ mem'[n].name = mem[n].name /\ mem'[n].type = mem[n].type
                            /\ mem'[n].parent = mem[n].parent
    /\ \/ /\ pc[p] = "head"
          /\ \A n \in Allocated : /\ mem'[n].sibling = mem[n].sibling
                                  /\ mem'[n].child = IF n = c.dir THEN c.node ELSE mem[n].child
       \/ /\ pc[p] = "tail"
          /\ \A n \in Allocated : /\ mem'[n].child = mem[n].child
                                  /\ mem'[n].sibling = IF n = c.cur THEN c.node ELSE mem[n].sibling

LEMMA LinkFacts ==
    ASSUME PointerInv, NEW p \in Callers, LinkChild(p) \/ LinkSibling(p)
    PROVE  Linked(p) /\ root' = root
<1>0. /\ Null \notin Nodes /\ Returned \subseteq Allocated /\ Allocated \subseteq Nodes
      /\ call \in [Callers -> CallRec] /\ mem \in [Allocated -> NodeRec]
      /\ \A q \in Callers : call[q].node \in Allocated \cup {Null}
  BY VfsAssumption DEF Returned, PointerInv, TypeInv, CallInv, CallOK
<1>1. CallOK(p) /\ Creating(p) /\ pc[p] \in {"head", "tail"} /\ Created(p)
  BY DEF PointerInv, CallInv, Creating, LinkChild, LinkSibling
<1>2. /\ call[p].dir \in Allocated /\ call[p].node \in Allocated
      /\ pc[p] = "tail" => call[p].cur \in Allocated
  BY <1>0, <1>1 DEF CallOK
<1>3. ASSUME NEW n \in Allocated, NEW v
      PROVE  /\ [mem[n] EXCEPT !.child = v].name = mem[n].name
             /\ [mem[n] EXCEPT !.child = v].type = mem[n].type
             /\ [mem[n] EXCEPT !.child = v].parent = mem[n].parent
             /\ [mem[n] EXCEPT !.child = v].sibling = mem[n].sibling
             /\ [mem[n] EXCEPT !.child = v].child = v
             /\ [mem[n] EXCEPT !.sibling = v].name = mem[n].name
             /\ [mem[n] EXCEPT !.sibling = v].type = mem[n].type
             /\ [mem[n] EXCEPT !.sibling = v].parent = mem[n].parent
             /\ [mem[n] EXCEPT !.sibling = v].child = mem[n].child
             /\ [mem[n] EXCEPT !.sibling = v].sibling = v
  <2>1. mem[n] \in NodeRec
    BY <1>0
  <2> QED BY <2>1 DEF NodeRec
<1>4. /\ Allocated' = Allocated
      /\ \A n \in Allocated : /\ mem'[n].name = mem[n].name /\ mem'[n].type = mem[n].type
                              /\ mem'[n].parent = mem[n].parent
      /\ \/ /\ pc[p] = "head"
            /\ \A n \in Allocated :
                 /\ mem'[n].sibling = mem[n].sibling
                 /\ mem'[n].child = IF n = call[p].dir THEN call[p].node ELSE mem[n].child
         \/ /\ pc[p] = "tail"
            /\ \A n \in Allocated :
                 /\ mem'[n].child = mem[n].child
                 /\ mem'[n].sibling = IF n = call[p].cur THEN call[p].node ELSE mem[n].sibling
  <2>1. CASE LinkChild(p)
    <3>1. pc[p] = "head" /\ mem' = [mem EXCEPT ![call[p].dir].child = call[p].node]
      BY <2>1 DEF LinkChild
    <3>2. Allocated' = Allocated
      BY <1>0, <3>1 DEF Allocated
    <3>3. \A n \in Allocated : mem'[n] = IF n = call[p].dir
                                         THEN [mem[n] EXCEPT !.child = call[p].node] ELSE mem[n]
      BY <1>0, <3>1
    <3>4. ASSUME NEW n \in Allocated
          PROVE  /\ mem'[n].name = mem[n].name /\ mem'[n].type = mem[n].type
                 /\ mem'[n].parent = mem[n].parent /\ mem'[n].sibling = mem[n].sibling
                 /\ mem'[n].child = IF n = call[p].dir THEN call[p].node ELSE mem[n].child
      <4>1. CASE n = call[p].dir
        <5>1. mem'[n] = [mem[n] EXCEPT !.child = call[p].node]
          BY <3>3, <4>1
        <5> QED BY <1>3, <4>1, <5>1
      <4>2. CASE n # call[p].dir
        BY <3>3, <4>2
      <4> QED BY <4>1, <4>2
    <3> QED BY <3>1, <3>2, <3>4
  <2>2. CASE LinkSibling(p)
    <3>1. pc[p] = "tail" /\ mem' = [mem EXCEPT ![call[p].cur].sibling = call[p].node]
      BY <2>2 DEF LinkSibling, LinkedTo
    <3>2. Allocated' = Allocated
      BY <1>0, <3>1 DEF Allocated
    <3>3. \A n \in Allocated : mem'[n] = IF n = call[p].cur
                                         THEN [mem[n] EXCEPT !.sibling = call[p].node] ELSE mem[n]
      BY <1>0, <3>1
    <3>4. ASSUME NEW n \in Allocated
          PROVE  /\ mem'[n].name = mem[n].name /\ mem'[n].type = mem[n].type
                 /\ mem'[n].parent = mem[n].parent /\ mem'[n].child = mem[n].child
                 /\ mem'[n].sibling = IF n = call[p].cur THEN call[p].node ELSE mem[n].sibling
      <4>1. CASE n = call[p].cur
        <5>1. mem'[n] = [mem[n] EXCEPT !.sibling = call[p].node]
          BY <3>3, <4>1
        <5> QED BY <1>3, <4>1, <5>1
      <4>2. CASE n # call[p].cur
        BY <3>3, <4>2
      <4> QED BY <4>1, <4>2
    <3> QED BY <3>1, <3>2, <3>4
  <2> QED BY <2>1, <2>2
<1>5. /\ pc' = [pc EXCEPT ![p] = "idle"] /\ call' = [call EXCEPT ![p] = Idle] /\ root' = root
      /\ since' = [q \in Callers |->
           IF q = p THEN {}
           ELSE IF Creates(q) /\ call[q].dir = call[p].dir THEN since[q] \cup {call[p].node}
           ELSE since[q]]
  BY <1>1 DEF Created
<1>6. Returned' = Returned \cup {call[p].node}
  <2>1. call'[p].node = Null /\ \A q \in Callers : q # p => call'[q] = call[q]
    BY <1>0, <1>5 DEF Idle
  <2>2. call[p].node # Null /\ \A q \in Callers : q # p => call[q].node # call[p].node
    BY <1>1 DEF CallOK, PointerInv, CallInv
  <2>3. Null \notin Allocated
    BY <1>0
  <2> QED BY <1>2, <1>4, <2>1, <2>2, <2>3 DEF Returned
<1> QED BY <1>1, <1>4, <1>5, <1>6 DEF Linked

LEMMA LinkLinks ==
    ASSUME PointerInv, NEW p \in Callers, Linked(p)
    PROVE  LinkInv'
<1> DEFINE c == call[p]
<1>0. /\ Null \notin Allocated /\ Returned \subseteq Allocated /\ LinkInv
      /\ Allocated' = Allocated /\ Returned' = Returned \cup {c.node}
      /\ c.node \in Allocated /\ c.dir \in Allocated /\ mem[c.dir].type = VFS_NODE_DIR
      /\ mem[c.node].parent = c.dir
      /\ pc[p] = "tail" => c.cur \in Allocated /\ mem[c.cur].parent = c.dir
  BY VfsAssumption DEF Returned, PointerInv, TypeInv, Linked, CallOK
<1>1. ASSUME NEW n \in Allocated
      PROVE  /\ mem'[n].type = mem[n].type /\ mem'[n].parent = mem[n].parent
             /\ mem'[n].child = mem[n].child \/ (n = c.dir /\ mem'[n].child = c.node)
             /\ mem'[n].sibling = mem[n].sibling
                \/ (pc[p] = "tail" /\ n = c.cur /\ mem'[n].sibling = c.node)
  BY DEF Linked
<1> HIDE DEF c
<1>2. ASSUME NEW n \in Allocated
      PROVE  /\ mem'[n].parent \in Allocated \cup {Null}
             /\ mem'[n].child # Null =>
                   /\ mem'[n].child \in Returned' /\ mem'[mem'[n].child].parent = n
                   /\ mem'[n].type = VFS_NODE_DIR
             /\ mem'[n].sibling # Null =>
                   /\ mem'[n].sibling \in Returned'
                   /\ mem'[mem'[n].sibling].parent = mem'[n].parent
  <2>1. mem'[n].parent \in Allocated \cup {Null}
    BY <1>0, <1>1 DEF LinkInv
  <2>2. mem'[n].child # Null =>
                   /\ mem'[n].child \in Returned' /\ mem'[mem'[n].child].parent = n
                   /\ mem'[n].type = VFS_NODE_DIR
    BY <1>0, <1>1 DEF LinkInv
  <2>3. mem'[n].sibling # Null =>
                   /\ mem'[n].sibling \in Returned'
                   /\ mem'[mem'[n].sibling].parent = mem'[n].parent
    BY <1>0, <1>1 DEF LinkInv
  <2> QED BY <2>1, <2>2, <2>3
<1> QED BY <1>0, <1>2 DEF LinkInv

LEMMA LinkCalls ==
    ASSUME PointerInv, NEW p \in Callers, Linked(p)
    PROVE  CallInv'
<1>0. /\ Null \notin Allocated /\ Returned \subseteq Allocated /\ CallInv /\ TypeInv
      /\ pc \in [Callers -> Labels] /\ call \in [Callers -> CallRec]
  BY VfsAssumption DEF Returned, PointerInv, TypeInv
<1>1. ASSUME NEW q \in Callers, q # p PROVE CallOK(q)'
  <2>1. CallOK(q) /\ pc'[q] = pc[q] /\ call'[q] = call[q]
    BY <1>0, <1>1 DEF Linked, CallInv
  <2>3. call[q].node # Null => /\ mem'[call[q].node].child = mem[call[q].node].child
                               /\ mem'[call[q].node].sibling = mem[call[q].node].sibling
    <3> SUFFICES ASSUME call[q].node # Null
                 PROVE  /\ mem'[call[q].node].child = mem[call[q].node].child
                        /\ mem'[call[q].node].sibling = mem[call[q].node].sibling
      OBVIOUS
    <3>1. call[q].node \in Allocated /\ call[q].node \notin Returned
      BY <2>1 DEF CallOK, Returned
    <3>2. call[p].dir \in Returned /\ (pc[p] = "tail" => call[p].cur \in Returned)
      BY DEF Linked, CallOK
    <3> QED BY <3>1, <3>2 DEF Linked
  <2> QED BY <1>0, <2>1, <2>3, OtherCall DEF Linked
<1>2. pc'[p] = "idle" /\ call'[p] = Idle
  BY <1>0 DEF Linked
<1>3. CallOK(p)'
  BY <1>2 DEF CallOK, Creating, Idle
<1>4. \A q, r \in Callers : call'[q].node # Null /\ call'[r].node = call'[q].node => r = q
  <2>1. call'[p].node = Null /\ \A q \in Callers : q # p => call'[q] = call[q]
    BY <1>0, <1>2 DEF Linked, Idle
  <2> QED BY <1>0, <2>1 DEF CallInv
<1> QED BY <1>1, <1>3, <1>4 DEF CallInv

\* The first k nodes of s, and n behind them.
Put(s, k, n) == Append(SubSeq(s, 1, k), n)

LEMMA PutFacts ==
    ASSUME NEW s \in Seq(Nodes), NEW k \in 0 .. Len(s), NEW n \in Nodes
    PROVE  /\ Put(s, k, n) \in Seq(Nodes) /\ Len(Put(s, k, n)) = k + 1 /\ Put(s, k, n)[k + 1] = n
           /\ \A i \in 1 .. k : Put(s, k, n)[i] = s[i]
<1> DEFINE u == SubSeq(s, 1, k)
<1>1. u \in Seq(Nodes) /\ Len(u) = k /\ \A i \in 1 .. k : u[i] = s[i]
  OBVIOUS
<1>2. k \in Nat
  OBVIOUS
<1> HIDE DEF u
<1>3. /\ Append(u, n) \in Seq(Nodes) /\ Len(Append(u, n)) = k + 1 /\ Append(u, n)[k + 1] = n
      /\ \A i \in 1 .. k : Append(u, n)[i] = u[i]
  BY <1>1, <1>2, AppendProperties
<1>4. \A i \in 1 .. k : Append(u, n)[i] = s[i]
  BY <1>1, <1>3
<1> QED BY <1>3, <1>4 DEF Put, u

\* What the list s of the directory becomes.
Outcome(p, s, t) ==
    \/ pc[p] = "head" /\ t = Put(s, 0, call[p].node)
    \/ /\ pc[p] = "tail"
       /\ \E k \in 1 .. Len(s) : s[k] = call[p].cur /\ t = Put(s, k, call[p].node)
    \/ pc[p] = "tail" /\ t = s /\ \A k \in 1 .. Len(s) : s[k] # call[p].cur

LEMMA LinkElsewhere ==
    ASSUME PointerInv, NEW p \in Callers, Linked(p), NEW d \in Allocated, NEW s, ChildList(d, s),
           \/ d # call[p].dir
           \/ pc[p] = "tail" /\ \A k \in 1 .. Len(s) : s[k] # call[p].cur
    PROVE  ChildList(d, s)'
<1>1. /\ s \in Seq(Nodes) /\ Returned \subseteq Returned' /\ Returned \subseteq Allocated
      /\ Len(s) \in Nat
  BY DEF ChildList, Chain, Linked, Returned
<1>2. ASSUME NEW i \in 1 .. Len(s)
      PROVE  /\ s[i] \in Returned' /\ mem'[s[i]].parent = d
             /\ mem'[s[i]].sibling = mem[s[i]].sibling
  <2>1. s[i] \in Returned /\ s[i] \in Allocated /\ mem[s[i]].parent = d
    BY <1>1 DEF ChildList
  <2>2. pc[p] = "tail" => s[i] # call[p].cur
    BY <2>1 DEF Linked, CallOK
  <2> QED BY <1>1, <2>1, <2>2 DEF Linked
<1>3. mem'[d].child = mem[d].child
  BY DEF Linked
<1>4. Chain(s, mem[d].child)'
  BY <1>2, <1>3 DEF ChildList, Chain
<1> QED BY <1>2, <1>4 DEF ChildList

LEMMA LinkHere ==
    ASSUME PointerInv, NEW p \in Callers, Linked(p), NEW d, NEW n, d = call[p].dir, n = call[p].node,
           NEW s, ChildList(d, s), NEW k \in 0 .. Len(s),
           \/ pc[p] = "head" /\ k = 0
           \/ pc[p] = "tail" /\ k # 0 /\ s[k] = call[p].cur
    PROVE  ChildList(d, Put(s, k, n))'
<1>1. PICK cur, t : d = call[p].dir /\ n = call[p].node /\ cur = call[p].cur /\ t = Put(s, k, n)
  OBVIOUS
<1>2. /\ s \in Seq(Nodes) /\ Returned \subseteq Allocated /\ Len(s) \in Nat /\ k \in Nat
      /\ Null \notin Nodes /\ Allocated \subseteq Nodes
  BY VfsAssumption DEF ChildList, Chain, Returned, PointerInv, TypeInv
<1>3. /\ d \in Allocated /\ n \in Allocated /\ n \in Nodes /\ n \notin Returned /\ d # n
      /\ mem[n].parent = d /\ mem[n].sibling = Null /\ mem[n].child = Null
      /\ pc[p] = "tail" => cur \in Returned
  BY <1>1, <1>2 DEF Linked, CallOK, Returned
<1>4. t \in Seq(Nodes) /\ Len(t) = k + 1 /\ t[k + 1] = n /\ \A i \in 1 .. k : t[i] = s[i]
  BY <1>1, <1>2, <1>3, PutFacts
<1>5. Returned' = Returned \cup {n} /\ \A m \in Allocated : mem'[m].parent = mem[m].parent
  BY <1>1 DEF Linked
<1>6. /\ \A i \in 1 .. Len(s) : s[i] \in Returned /\ mem[s[i]].parent = d
      /\ \A i, j \in 1 .. Len(s) : s[i] = s[j] => i = j
      /\ mem[d].child = IF s = <<>> THEN Null ELSE s[1]
      /\ \A i \in 1 .. Len(s) : mem[s[i]].sibling = IF i = Len(s) THEN Null ELSE s[i + 1]
  BY <1>1 DEF ChildList, Chain
<1>7. ASSUME NEW i \in 1 .. Len(t) PROVE t[i] \in Returned' /\ mem'[t[i]].parent = d
  <2>1. CASE i = k + 1
    BY <1>3, <1>4, <1>5, <2>1
  <2>2. CASE i # k + 1
    <3>1. i \in 1 .. k /\ i \in 1 .. Len(s)
      BY <1>2, <1>4, <2>2
    <3>2. t[i] = s[i] /\ s[i] \in Returned /\ mem[s[i]].parent = d
      BY <1>4, <1>6, <3>1
    <3> QED BY <1>2, <1>5, <3>2
  <2> QED BY <2>1, <2>2
<1>8. ASSUME NEW i \in 1 .. Len(t), NEW j \in 1 .. Len(t), t[i] = t[j] PROVE i = j
  <2>1. ASSUME NEW l \in 1 .. Len(t), l # k + 1
        PROVE  l \in 1 .. Len(s) /\ t[l] = s[l] /\ t[l] # n
    <3>1. l \in 1 .. k /\ l \in 1 .. Len(s)
      BY <1>2, <1>4, <2>1
    <3> QED BY <1>3, <1>4, <1>6, <3>1
  <2> QED BY <1>4, <1>6, <1>8, <2>1
<1>9. ASSUME NEW i \in 1 .. Len(t)
      PROVE  mem'[t[i]].sibling = IF i = Len(t) THEN Null ELSE t[i + 1]
  <2>1. CASE i = k + 1
    <3>1. mem'[n].sibling = mem[n].sibling
      BY <1>1, <1>3 DEF Linked
    <3> QED BY <1>3, <1>4, <2>1, <3>1
  <2>2. CASE i = k
    <3>1. pc[p] = "tail" /\ i \in 1 .. k /\ t[i] = cur /\ cur \in Allocated
      BY <1>1, <1>2, <1>3, <1>4, <2>2
    <3>2. mem'[cur].sibling = n
      BY <1>1, <3>1 DEF Linked
    <3>3. i # Len(t) /\ t[i + 1] = n
      BY <1>2, <1>4, <2>2
    <3> QED BY <3>1, <3>2, <3>3
  <2>3. CASE i # k /\ i # k + 1
    <3>1. i \in 1 .. k /\ i + 1 \in 1 .. k /\ i \in 1 .. Len(s) /\ i # Len(s) /\ i # Len(t)
          /\ k \in 1 .. Len(s)
      BY <1>2, <1>4, <2>3
    <3>2. t[i] = s[i] /\ t[i + 1] = s[i + 1] /\ s[i] # s[k] /\ s[i] \in Allocated
      BY <1>2, <1>4, <1>6, <2>3, <3>1
    <3>3. pc[p] = "tail" /\ s[k] = cur
      BY <1>1, <3>1
    <3>4. mem'[s[i]].sibling = mem[s[i]].sibling
      BY <1>1, <3>2, <3>3 DEF Linked
    <3>5. mem[s[i]].sibling = s[i + 1]
      BY <1>6, <3>1
    <3> QED BY <3>1, <3>2, <3>4, <3>5
  <2> QED BY <2>1, <2>2, <2>3
<1>10. t # <<>> /\ mem'[d].child = t[1]
  <2>1. t # <<>>
    BY <1>2, <1>4
  <2>2. CASE k = 0
    <3>1. mem'[d].child = n
      BY <1>1, <1>3, <2>2 DEF Linked
    <3> QED BY <1>4, <2>1, <2>2, <3>1
  <2>3. CASE k # 0
    <3>1. 1 \in 1 .. k /\ s # <<>> /\ pc[p] = "tail"
      BY <1>2, <2>3
    <3>2. mem'[d].child = mem[d].child
      BY <1>3, <3>1 DEF Linked
    <3> QED BY <1>4, <1>6, <2>1, <3>1, <3>2
  <2> QED BY <2>2, <2>3
<1>11. Chain(t, mem[d].child)'
  BY <1>4, <1>9, <1>10 DEF Chain
<1>12. ChildList(d, t)'
  BY <1>7, <1>8, <1>11 DEF ChildList
<1> QED BY <1>1, <1>12

LEMMA LinkKids ==
    ASSUME PointerInv, KidsInv, NEW p \in Callers, Linked(p)
    PROVE  /\ KidsInv'
           /\ \A d \in Nodes : IF d = call[p].dir THEN Outcome(p, Children(d), Children(d)')
                             ELSE Children(d)' = Children(d)
<1>0. Allocated' = Allocated /\ call[p].dir \in Allocated /\ pc[p] \in {"head", "tail"}
  BY DEF Linked, CallOK, Returned
<1>1. ASSUME NEW d \in Allocated, NEW t, ChildList(d, t)'
      PROVE  ChildList(d, Children(d))' /\ Children(d)' = t
  <2>1. Children(d)' = t
    BY <1>0, <1>1, ChildrenDeterminedNext
  <2> QED BY <1>1, <2>1
<1>2. ASSUME NEW d \in Allocated, d # call[p].dir
      PROVE  ChildList(d, Children(d))' /\ Children(d)' = Children(d)
  <2>1. PICK s : s = Children(d)
    OBVIOUS
  <2>2. ChildList(d, s)
    BY <2>1 DEF KidsInv
  <2>3. ChildList(d, s)'
    BY <1>2, <2>2, LinkElsewhere
  <2> QED BY <1>1, <2>1, <2>3
<1>3. PICK d, s, n : d = call[p].dir /\ s = Children(d) /\ n = call[p].node
  OBVIOUS
<1>4. ChildList(d, s) /\ d \in Allocated /\ Len(s) \in Nat
  BY <1>0, <1>3 DEF KidsInv, ChildList, Chain
<1>5. \E t : ChildList(d, t)' /\ Outcome(p, s, t)
  <2>1. CASE pc[p] = "head"
    <3>1. 0 \in 0 .. Len(s)
      BY <1>4
    <3>2. ChildList(d, Put(s, 0, n))'
      BY <1>3, <1>4, <2>1, <3>1, LinkHere
    <3>3. Outcome(p, s, Put(s, 0, n))
      BY <1>3, <2>1 DEF Outcome
    <3> QED BY <3>2, <3>3
  <2>2. CASE pc[p] = "tail" /\ \A k \in 1 .. Len(s) : s[k] # call[p].cur
    <3>1. ChildList(d, s)'
      BY <1>4, <2>2, LinkElsewhere
    <3> QED BY <2>2, <3>1 DEF Outcome
  <2>3. ASSUME pc[p] = "tail", NEW k \in 1 .. Len(s), s[k] = call[p].cur
        PROVE  \E t : ChildList(d, t)' /\ Outcome(p, s, t)
    <3>1. k \in 0 .. Len(s) /\ k # 0
      BY <1>4
    <3>2. ChildList(d, Put(s, k, n))'
      BY <1>3, <1>4, <2>3, <3>1, LinkHere
    <3>3. Outcome(p, s, Put(s, k, n))
      BY <1>3, <2>3 DEF Outcome
    <3> QED BY <3>2, <3>3
  <2> QED BY <1>0, <2>1, <2>2, <2>3
<1>6. PICK t : ChildList(d, t)' /\ Outcome(p, s, t)
  BY <1>5
<1>7. ChildList(d, Children(d))' /\ Children(d)' = t
  BY <1>1, <1>4, <1>6
<1>8. Outcome(p, Children(d), Children(d)')
  BY <1>3, <1>6, <1>7
<1>9. KidsInv'
  BY <1>0, <1>2, <1>3, <1>7 DEF KidsInv
<1>10. ASSUME NEW e \in Nodes, e # call[p].dir PROVE Children(e)' = Children(e)
  <2>1. CASE e \in Allocated
    BY <1>2, <1>10, <2>1
  <2>2. CASE e \notin Allocated
    BY <1>0, <2>2 DEF Children
  <2> QED BY <2>1, <2>2
<1> QED BY <1>3, <1>8, <1>9, <1>10

LEMMA PointerStep ==
    ASSUME PointerInv, KidsInv, [Next]_vars, ~shared'
    PROVE  PointerInv' /\ KidsInv'
<1>1. TypeInv'
  BY TypeStep
<1>2. CASE UNCHANGED vars \/ vfs_init \/ \E p \in Callers : Mounts(p)
  <2>1. Steady
    BY <1>2, SteadySteps
  <2> QED BY <1>1, <1>2, <2>1, SteadyLinks, SteadyKids, IdleCalls DEF PointerInv
<1>3. ASSUME NEW p \in Callers, Asks(p) \/ Begins(p) \/ Looks(p) \/ Moves(p) PROVE PointerInv' /\ KidsInv'
  <2>1. Steady
    BY <1>3, SteadySteps
  <2>2. CallInv'
    BY <1>3, AskCalls, BeginCalls, LookCalls, MoveCalls
  <2> QED BY <1>1, <2>1, <2>2, SteadyLinks, SteadyKids DEF PointerInv
<1>4. ASSUME NEW p \in Callers, LinkChild(p) \/ LinkSibling(p) PROVE PointerInv' /\ KidsInv'
  <2>1. Linked(p)
    BY <1>4, LinkFacts
  <2> QED BY <1>1, <2>1, LinkLinks, LinkCalls, LinkKids DEF PointerInv
<1> QED BY <1>2, <1>3, <1>4, NextCases

-----------------------------------------------------------------------------
(* Lookups *)

\* A lookup that keeps its place, in a list that keeps its nodes and their names.
Alike(s, t, k) ==
    /\ s \in Seq(Nodes) /\ t \in Seq(Nodes) /\ k \in Nat /\ k <= Len(s) /\ k <= Len(t)
    /\ \A i \in 1 .. k : t[i] = s[i]
    /\ \A i \in 1 .. Len(s) : mem'[s[i]].name = mem[s[i]].name
    /\ \A i, j \in 1 .. Len(s) : s[i] = s[j] => i = j

LEMMA AheadKeeps ==
    ASSUME NEW s, NEW t, NEW c, NEW k, Alike(s, t, k), Ahead(s, c),
           \E i \in 1 .. k : s[i] = c.first
    PROVE  Ahead(t, c)'
<1>0. /\ s \in Seq(Nodes) /\ t \in Seq(Nodes) /\ k \in Nat /\ k <= Len(s) /\ k <= Len(t)
      /\ \A i \in 1 .. k : t[i] = s[i]
      /\ \A i \in 1 .. Len(s) : mem'[s[i]].name = mem[s[i]].name
      /\ \A i, j \in 1 .. Len(s) : s[i] = s[j] => i = j
  BY DEF Alike
<1>1. PICK i \in 1 .. Len(s), j \in 1 .. Len(s) :
        /\ i <= j /\ s[i] = c.cur /\ s[j] = c.first
        /\ \A l \in i .. (j - 1) : mem[s[l]].name # c.name
  BY DEF Ahead
<1>2. PICK m \in 1 .. k : s[m] = c.first
  OBVIOUS
<1>3. Len(s) \in Nat /\ Len(t) \in Nat /\ m \in 1 .. Len(s)
  BY <1>0
<1>4. m = j
  BY <1>0, <1>1, <1>2, <1>3
<1>5. i \in 1 .. k /\ j \in 1 .. k /\ i \in 1 .. Len(t) /\ j \in 1 .. Len(t)
  <2>1. i <= j /\ k <= Len(t) /\ k \in Nat
    BY <1>0, <1>1
  <2> QED BY <1>3, <1>4, <2>1
<1>6. t[i] = c.cur /\ t[j] = c.first
  BY <1>0, <1>1, <1>5
<1>7. ASSUME NEW l \in i .. (j - 1) PROVE mem'[t[l]].name # c.name
  <2>1. l \in 1 .. k /\ l \in 1 .. Len(s)
    <3>1. k <= Len(s) /\ k \in Nat
      BY <1>0
    <3> QED BY <1>3, <1>5, <3>1
  <2>2. t[l] = s[l] /\ mem'[s[l]].name = mem[s[l]].name /\ mem[s[l]].name # c.name
    BY <1>0, <1>1, <2>1
  <2> QED BY <2>2
<1> QED BY <1>1, <1>5, <1>6, <1>7 DEF Ahead

LEMMA LookupKeeps ==
    ASSUME PointerInv, KidsInv, NEW q \in Callers, NEW d \in Nodes, d = call[q].dir,
           LookupOK(pc[q], Children(d), call[q]), pc'[q] = pc[q], call'[q] = call[q],
           Children(d)' = Children(d), \A n \in Allocated : mem'[n].name = mem[n].name
    PROVE  LookupOK(pc[q], Children(d), call[q])'
<1>1. PICK s, c : s = Children(d) /\ c = call[q]
  OBVIOUS
<1>2. CASE ~(pc[q] \in {"lookup", "found"} /\ c.first # Null /\ c.first \in Elements(s))
  BY <1>1, <1>2 DEF LookupOK, Elements
<1>3. CASE pc[q] \in {"lookup", "found"} /\ c.first # Null /\ c.first \in Elements(s)
  <2>1. d \in Allocated /\ Returned \subseteq Allocated
    BY <1>1, <1>3 DEF PointerInv, CallInv, CallOK, Returned
  <2>2. ChildList(d, s)
    BY <1>1, <2>1 DEF KidsInv
  <2>3. /\ s \in Seq(Nodes) /\ \A i, j \in 1 .. Len(s) : s[i] = s[j] => i = j
        /\ \A i \in 1 .. Len(s) : s[i] \in Allocated
        /\ Len(s) \in Nat /\ DOMAIN s = 1 .. Len(s)
    BY <2>1, <2>2 DEF ChildList, Chain
  <2>4. CASE pc[q] = "found"
    BY <1>1, <1>3, <2>4 DEF LookupOK
  <2>5. CASE pc[q] = "lookup"
    <3>1. Ahead(s, c)
      BY <1>1, <1>3, <2>5 DEF LookupOK
    <3>2. \E i \in 1 .. Len(s) : s[i] = c.first
      BY <1>3, <2>3 DEF Elements
    <3>3. PICK k : k = Len(s)
      OBVIOUS
    <3>4. Alike(s, s, k)
      BY <2>3, <3>3 DEF Alike
    <3>5. Ahead(s, c)'
      BY <3>1, <3>2, <3>3, <3>4, AheadKeeps
    <3> QED BY <1>1, <2>5, <3>5 DEF LookupOK, Ahead
  <2> QED BY <1>3, <2>4, <2>5
<1> QED BY <1>2, <1>3

LEMMA LookBegins ==
    ASSUME PointerInv, KidsInv, NEW d \in Returned, NEW name, NEW p \in Callers,
           vfs_lookup(p, d, name), Children(d)' = Children(d)
    PROVE  \A e \in Nodes : e = call'[p].dir => LookupOK(pc[p], Children(e), call[p])'
<1>0. Null \notin Nodes /\ Returned \subseteq Allocated /\ call \in [Callers -> CallRec]
      /\ pc \in [Callers -> Labels]
  BY VfsAssumption DEF Returned, PointerInv, TypeInv
<1>1. /\ call'[p].dir = d /\ call'[p].name = name /\ call'[p].cur = mem[d].child
      /\ call'[p].first = Oldest(d, name) /\ pc'[p] = "lookup" /\ mem' = mem
  BY <1>0 DEF vfs_lookup, Begin, Idle
<1>2. PICK s : s = Children(d)
  OBVIOUS
<1>3. ChildList(d, s) /\ s \in Seq(Nodes) /\ Len(s) \in Nat
  BY <1>0, <1>2 DEF KidsInv, ChildList, Chain
<1>4. ASSUME Oldest(d, name) # Null PROVE Ahead(s, call[p])'
  <2>1. PICK j \in 1 .. Len(s) : /\ s[j] = Oldest(d, name)
                                 /\ \A l \in 1 .. (j - 1) : mem[s[l]].name # name
    BY <1>0, <1>2, <1>4, OldestFacts
  <2>2. 1 \in 1 .. Len(s) /\ 1 <= j /\ s # <<>>
    BY <1>3
  <2>3. s[1] = mem[d].child
    BY <1>3, <2>2 DEF ChildList, Chain
  <2> QED BY <1>1, <2>1, <2>2, <2>3 DEF Ahead
<1>5. LookupOK(pc[p], s, call[p])'
  BY <1>1, <1>4 DEF LookupOK
<1> QED BY <1>1, <1>2, <1>5 DEF LookupOK, Ahead, Elements

LEMMA LookCompares ==
    ASSUME PointerInv, KidsInv, LookupInv, NEW p \in Callers, Compare(p),
           \A e \in Nodes : Children(e)' = Children(e)
    PROVE  \A e \in Nodes : e = call'[p].dir => LookupOK(pc[p], Children(e), call[p])'
<1>0. /\ Null \notin Nodes /\ Returned \subseteq Allocated /\ call \in [Callers -> CallRec]
      /\ pc \in [Callers -> Labels] /\ call[p] \in CallRec /\ pc[p] = "lookup" /\ CallOK(p)
      /\ Allocated \subseteq Nodes /\ mem' = mem
  BY VfsAssumption DEF Returned, PointerInv, TypeInv, Compare, CallInv
<1>1. PICK c, d, s : c = call[p] /\ d = c.dir /\ s = Children(d)
  OBVIOUS
<1>2. /\ d \in Allocated /\ d \in Nodes /\ ChildList(d, s) /\ s \in Seq(Nodes) /\ Len(s) \in Nat
      /\ DOMAIN s = 1 .. Len(s)
      /\ \A i \in 1 .. Len(s) : mem[s[i]].sibling = IF i = Len(s) THEN Null ELSE s[i + 1]
  <2>1. d \in Allocated /\ d \in Nodes
    BY <1>0, <1>1 DEF CallOK
  <2>2. ChildList(d, s)
    BY <1>1, <2>1 DEF KidsInv
  <2> QED BY <2>1, <2>2 DEF ChildList, Chain
<1>3. call'[p].dir = d /\ call'[p].first = c.first /\ call'[p].name = c.name
  BY <1>0, <1>1 DEF Compare, CallRec
<1> SUFFICES ASSUME NEW e \in Nodes, e = call'[p].dir PROVE LookupOK(pc[p], Children(e), call[p])'
  OBVIOUS
<1>4. e = d /\ Children(e)' = s
  BY <1>1, <1>2, <1>3
<1>5. CASE c.first = Null \/ c.first \notin Elements(s)
  <2>1. LookupOK(pc[p], s, call[p])'
    BY <1>3, <1>5 DEF LookupOK, Elements
  <2> QED BY <1>4, <2>1 DEF LookupOK, Ahead, Elements
<1>6. CASE c.first # Null /\ c.first \in Elements(s)
  <2>1. Ahead(s, c) /\ mem[c.first].name = c.name
    BY <1>0, <1>1, <1>2, <1>6 DEF LookupInv, LookupOK, CallOK
  <2>2. PICK i \in 1 .. Len(s), j \in 1 .. Len(s) :
          /\ i <= j /\ s[i] = c.cur /\ s[j] = c.first
          /\ \A l \in i .. (j - 1) : mem[s[l]].name # c.name
    BY <2>1 DEF Ahead
  <2>3. c.cur \in Nodes /\ c.cur # Null
    BY <1>0, <1>2, <2>2
  <2>4. i \in Nat /\ j \in Nat /\ Len(s) \in Nat /\ 1 <= i /\ i <= j /\ j <= Len(s)
    <3>1. i <= j /\ Len(s) \in Nat
      BY <1>2, <2>2
    <3> QED BY <3>1
  <2>5. CASE Matches(c.cur, c.name)
    <3>1. pc'[p] = "found" /\ call'[p] = c
      BY <1>0, <1>1, <2>5, <2>3 DEF Compare
    <3>2. i = j
      <4>1. ~(i \in i .. (j - 1))
        BY <2>2, <2>5 DEF Matches
      <4> QED BY <2>4, <4>1
    <3>3. c.cur = c.first
      BY <2>2, <3>2
    <3>4. LookupOK(pc[p], s, call[p])'
      BY <3>1, <3>3 DEF LookupOK
    <3> QED BY <1>4, <3>4 DEF LookupOK, Ahead, Elements
  <2>6. CASE ~Matches(c.cur, c.name)
    <3>1. pc'[p] = "lookup" /\ call'[p] = [c EXCEPT !.cur = mem[c.cur].sibling]
      BY <1>0, <1>1, <2>3, <2>6 DEF Compare, NextNode
    <3>2. call'[p].cur = mem[c.cur].sibling
      BY <1>0, <1>1, <3>1 DEF CallRec
    <3>3. i # j
      BY <2>1, <2>2, <2>6 DEF Matches
    <3>4. i + 1 \in 1 .. Len(s) /\ i + 1 <= j /\ i # Len(s)
      BY <2>4, <3>3
    <3>5. s[i + 1] = call'[p].cur
      BY <1>2, <2>2, <3>2, <3>4
    <3>6. \A l \in (i + 1) .. (j - 1) : mem'[s[l]].name # c.name
      BY <1>0, <2>2
    <3>7. Ahead(s, call[p])'
      BY <1>3, <2>2, <3>4, <3>5, <3>6 DEF Ahead
    <3>8. LookupOK(pc[p], s, call[p])'
      BY <3>1, <3>7 DEF LookupOK
    <3> QED BY <1>4, <3>8 DEF LookupOK, Ahead, Elements
  <2> QED BY <2>5, <2>6
<1> QED BY <1>5, <1>6

\* What a lookup is to find was linked before; if it is still in the list, so are
\* the nodes before it.
LEMMA LookupLinks ==
    ASSUME PointerInv, KidsInv, LookupInv, NEW p \in Callers, Linked(p)
    PROVE  LookupInv'
<1>0. /\ call \in [Callers -> CallRec] /\ pc \in [Callers -> Labels] /\ Returned \subseteq Allocated
      /\ \A n \in Allocated : mem'[n].name = mem[n].name
      /\ call[p].node \in Allocated /\ call[p].node \notin Returned
      /\ call[p].dir \in Nodes /\ call[p].node \in Nodes
  BY DEF PointerInv, TypeInv, Returned, Linked, CallOK
<1> SUFFICES ASSUME NEW q \in Callers, NEW d \in Nodes, d = call'[q].dir
             PROVE  LookupOK(pc[q], Children(d), call[q])'
  BY DEF LookupInv
<1>1. CASE q = p
  <2>1. pc'[q] = "idle"
    BY <1>0, <1>1 DEF Linked
  <2> QED BY <2>1 DEF LookupOK
<1>2. CASE q # p
  <2>1. pc'[q] = pc[q] /\ call'[q] = call[q] /\ LookupOK(pc[q], Children(d), call[q])
    BY <1>0, <1>2 DEF Linked, LookupInv
  <2>2. CASE d # call[p].dir
    <3>1. Children(d)' = Children(d)
      BY <2>2, LinkKids
    <3> QED BY <1>0, <2>1, <3>1, LookupKeeps
  <2>3. CASE d = call[p].dir
    <3>1. PICK s, t, c : s = Children(d) /\ t = Children(d)' /\ c = call[q]
      OBVIOUS
    <3>2. Outcome(p, s, t)
      BY <2>3, <3>1, LinkKids
    <3>3. CASE t = s
      <4>3. Children(d)' = Children(d)
        BY <3>1, <3>3
      <4> QED BY <1>0, <2>1, <4>3, LookupKeeps
    <3>4. CASE t # s
      <4>1. Ahead(t, c)' => Ahead(Children(d), call[q])'
        BY <2>1, <3>1 DEF Ahead
      <4>2. Elements(Children(d))' = Elements(t)
        BY <3>1 DEF Elements
      <4> SUFFICES ASSUME pc[q] \in {"lookup", "found"}, c.first # Null, c.first \in Elements(t)
                   PROVE  /\ pc[q] = "lookup" => Ahead(t, c)'
                          /\ pc[q] = "found" => c.cur = c.first
        BY <2>1, <3>1, <4>1, <4>2 DEF LookupOK
      <4>3. c.first \in Returned /\ d \in Allocated
        BY <1>0, <2>1, <3>1 DEF PointerInv, CallInv, CallOK
      <4>4. ChildList(d, s)
        BY <3>1, <4>3 DEF KidsInv
      <4>5. /\ s \in Seq(Nodes) /\ Len(s) \in Nat /\ \A i, j \in 1 .. Len(s) : s[i] = s[j] => i = j
            /\ \A i \in 1 .. Len(s) : s[i] \in Returned
            /\ DOMAIN s = 1 .. Len(s)
        BY <4>4 DEF ChildList, Chain
      <4>6. PICK k \in 0 .. Len(s) : t = Put(s, k, call[p].node)
        BY <3>2, <3>4, <4>5 DEF Outcome
      <4>7. /\ t \in Seq(Nodes) /\ Len(t) = k + 1 /\ t[k + 1] = call[p].node
            /\ \A i \in 1 .. k : t[i] = s[i]
        <5>1. PICK n : n = call[p].node
          OBVIOUS
        <5>2. n \in Nodes /\ s \in Seq(Nodes) /\ t = Put(s, k, n)
          BY <1>0, <4>5, <4>6, <5>1
        <5>3. t \in Seq(Nodes) /\ Len(t) = k + 1 /\ t[k + 1] = n /\ \A i \in 1 .. k : t[i] = s[i]
          BY ONLY <5>2, k \in 0 .. Len(s), PutFacts
        <5> QED BY <5>1, <5>3
      <4>8. PICK m \in DOMAIN t : t[m] = c.first
        BY DEF Elements
      <4>9. m \in 1 .. k /\ m \in 1 .. Len(s) /\ s[m] = c.first
        <5>1. m \in 1 .. (k + 1) /\ m # k + 1
          BY <1>0, <4>3, <4>7, <4>8
        <5>2. m \in 1 .. k /\ m \in 1 .. Len(s)
          BY <4>5, <5>1
        <5> QED BY <4>7, <4>8, <5>2
      <4>10. c.first \in Elements(s)
        BY <4>5, <4>9 DEF Elements
      <4>11. CASE pc[q] = "found"
        BY <2>1, <3>1, <4>10, <4>11 DEF LookupOK
      <4>12. CASE pc[q] = "lookup"
        <5>1. Ahead(s, c)
          BY <2>1, <3>1, <4>10, <4>12 DEF LookupOK
        <5>2. Alike(s, t, k)
          <6>1. k \in Nat /\ k <= Len(s) /\ k <= Len(t)
            BY <4>5, <4>7
          <6>2. \A i \in 1 .. Len(s) : mem'[s[i]].name = mem[s[i]].name
            BY <1>0, <4>5
          <6> QED BY <4>5, <4>7, <6>1, <6>2 DEF Alike
        <5>3. \E i \in 1 .. k : s[i] = c.first
          BY <4>9
        <5>4. Ahead(t, c)'
          BY <5>1, <5>2, <5>3, AheadKeeps
        <5> QED BY <4>12, <5>4
      <4> QED BY <4>11, <4>12
    <3> QED BY <3>3, <3>4
  <2> QED BY <2>2, <2>3
<1> QED BY <1>1, <1>2

LEMMA LookupStep ==
    ASSUME PointerInv, KidsInv, LookupInv, [Next]_vars, ~shared'
    PROVE  LookupInv'
<1>0. call \in [Callers -> CallRec] /\ pc \in [Callers -> Labels] /\ Returned \subseteq Nodes
  BY DEF PointerInv, TypeInv, Returned
<1>1. ASSUME Steady, NEW q \in Callers, pc'[q] = pc[q], call'[q] = call[q],
             NEW d \in Nodes, d = call'[q].dir
      PROVE  LookupOK(pc[q], Children(d), call[q])'
  <2>1. Children(d)' = Children(d) /\ \A n \in Allocated : mem'[n].name = mem[n].name
    BY <1>1, SteadyKids DEF Steady
  <2>2. LookupOK(pc[q], Children(d), call[q]) /\ d = call[q].dir
    BY <1>1 DEF LookupInv
  <2> QED BY <1>1, <2>1, <2>2, LookupKeeps
<1>2. CASE UNCHANGED vars \/ vfs_init \/ \E p \in Callers : Mounts(p)
  <2>1. Steady
    BY <1>2, SteadySteps
  <2>2. pc' = pc /\ call' = call
    BY <1>2 DEF vars, vfs_init, Mounts, vfs_mount
  <2> QED BY <1>1, <2>1, <2>2 DEF LookupInv
<1>3. ASSUME NEW p \in Callers, Asks(p) \/ Begins(p) \/ Looks(p) \/ Moves(p) PROVE LookupInv'
  <2>1. Steady
    BY <1>3, SteadySteps
  <2>2. \A d \in Nodes : Children(d)' = Children(d)
    BY <2>1, SteadyKids
  <2>3. ASSUME NEW q \in Callers, q # p PROVE pc'[q] = pc[q] /\ call'[q] = call[q]
    <3>0. CASE Asks(p)
      BY <1>0, <2>3, <3>0, AskFacts DEF Asked
    <3>1. CASE Begins(p)
      BY <1>0, <2>3, <3>1, BeginFacts DEF Begun
    <3>2. CASE Looks(p)
      BY <1>0, <2>3, <3>2 DEF Looks, vfs_lookup, Begin
    <3>3. CASE Moves(p)
      BY <1>0, <2>3, <3>3 DEF Moves, FirstChild, Walk, Compare, Return
    <3> QED BY <1>3, <3>0, <3>1, <3>2, <3>3
  <2>4. ASSUME NEW d \in Nodes, d = call'[p].dir PROVE LookupOK(pc[p], Children(d), call[p])'
    <3>1. CASE Looks(p)
      <4>1. PICK e \in Returned, name \in Names : vfs_lookup(p, e, name)
        BY <3>1 DEF Looks
      <4>2. Children(e)' = Children(e)
        BY <1>0, <2>2
      <4> QED BY <2>4, <4>1, <4>2, LookBegins
    <3>2. CASE Compare(p)
      BY <2>2, <2>4, <3>2, LookCompares
    <3>3. CASE Asks(p) \/ Begins(p) \/ FirstChild(p) \/ Walk(p) \/ Return(p)
      <4>1. pc'[p] \notin {"lookup", "found"}
        <5>0. CASE Asks(p)
          BY <1>0, <5>0, AskFacts DEF Asked
        <5>1. CASE Begins(p)
          BY <1>0, <5>1, BeginFacts DEF Begun
        <5>2. CASE FirstChild(p) \/ Walk(p) \/ Return(p)
          BY <1>0, <5>2 DEF FirstChild, Walk, Return
        <5> QED BY <3>3, <5>0, <5>1, <5>2
      <4> QED BY <4>1 DEF LookupOK
    <3> QED BY <1>3, <3>1, <3>2, <3>3 DEF Moves
  <2> QED BY <1>1, <2>1, <2>3, <2>4 DEF LookupInv
<1>4. ASSUME NEW p \in Callers, LinkChild(p) \/ LinkSibling(p) PROVE LookupInv'
  BY <1>4, LinkFacts, LookupLinks
<1> QED BY <1>2, <1>3, <1>4, NextCases

-----------------------------------------------------------------------------
(* Creations *)

\* The creation that walks sees the list as it is.
LEMMA SinceMoves ==
    ASSUME PointerInv, KidsInv, SinceInv, NEW p \in Callers, FirstChild(p) \/ Walk(p),
           NEW d \in Nodes, d = call'[p].dir, Children(d)' = Children(d)
    PROVE  SinceOK(pc[p], call[p].cur, Children(d), since[p])'
<1>0. /\ Null \notin Nodes /\ Returned \subseteq Allocated /\ call \in [Callers -> CallRec]
      /\ pc \in [Callers -> Labels] /\ call[p] \in CallRec /\ CallOK(p) /\ Creating(p)
      /\ mem' = mem /\ since' = since
  BY VfsAssumption DEF Returned, PointerInv, TypeInv, FirstChild, Walk, CallInv, Creating
<1>1. PICK s, recent, cur : s = Children(d) /\ recent = since[p] /\ cur = call[p].cur
  OBVIOUS
<1>2. call'[p].dir = call[p].dir
  BY <1>0 DEF FirstChild, Walk, CallRec
<1>3. d \in Allocated /\ d = call[p].dir
  BY <1>0, <1>2 DEF CallOK
<1>4. ChildList(d, s)
  BY <1>1, <1>3 DEF KidsInv
<1>5. /\ s \in Seq(Nodes) /\ Len(s) \in Nat /\ mem[d].child = IF s = <<>> THEN Null ELSE s[1]
      /\ \A i \in 1 .. Len(s) : mem[s[i]].sibling = IF i = Len(s) THEN Null ELSE s[i + 1]
  BY <1>4 DEF ChildList, Chain
<1>6. SinceOK(pc[p], cur, s, recent)
  BY <1>0, <1>1, <1>3 DEF SinceInv
<1>7. SinceOK(pc'[p], call'[p].cur, s, recent)
  <2>1. CASE FirstChild(p) /\ mem[d].child = Null
    <3>1. pc'[p] = "head" /\ s = <<>>
      <4>1. pc'[p] = "head"
        BY <1>0, <1>3, <2>1 DEF FirstChild
      <4>2. s # <<>> => s[1] \in Nodes
        BY <1>5
      <4> QED BY <1>0, <1>5, <2>1, <4>1, <4>2
    <3> QED BY <3>1 DEF SinceOK
  <2>2. CASE FirstChild(p) /\ mem[d].child # Null
    <3>1. pc'[p] = "walk" /\ call'[p].cur = mem[d].child
      BY <1>0, <1>3, <2>2 DEF FirstChild, CallRec
    <3>2. 1 \in 1 .. Len(s) /\ s[1] = mem[d].child
      BY <1>5, <2>2
    <3> QED BY <3>1, <3>2 DEF SinceOK
  <2>3. CASE Walk(p) /\ mem[cur].sibling = Null
    <3>1. pc[p] = "walk" /\ pc'[p] = "tail" /\ call'[p].cur = cur
      BY <1>0, <1>1, <2>3 DEF Walk, NextNode
    <3>2. ASSUME NEW i \in 1 .. Len(s), s[i] = cur PROVE i = Len(s)
      <4>1. ASSUME i # Len(s) PROVE FALSE
        <5>1. i + 1 \in 1 .. Len(s)
          BY <1>5, <4>1
        <5>2. s[i + 1] \in Nodes /\ mem[s[i]].sibling = s[i + 1]
          BY <1>5, <4>1, <5>1
        <5> QED BY <1>0, <2>3, <3>2, <5>2
      <4> QED BY <4>1
    <3>3. \A i \in 1 .. Len(s) : s[i] = cur => \A j \in (i + 1) .. Len(s) : s[j] \in recent
      BY <1>5, <3>2
    <3>4. recent = {} => \E i \in 1 .. Len(s) : s[i] = cur
      BY <1>6, <3>1 DEF SinceOK
    <3> QED BY <3>1, <3>3, <3>4 DEF SinceOK
  <2>4. CASE Walk(p) /\ mem[cur].sibling # Null
    <3>1. pc[p] = "walk" /\ pc'[p] = "walk" /\ call'[p].cur = mem[cur].sibling
      BY <1>0, <1>1, <2>4 DEF Walk, NextNode, CallRec
    <3>2. ASSUME recent = {} PROVE \E i \in 1 .. Len(s) : s[i] = mem[cur].sibling
      <4>1. PICK i \in 1 .. Len(s) : s[i] = cur
        BY <1>6, <3>1, <3>2 DEF SinceOK
      <4>2. i # Len(s) /\ s[i + 1] = mem[cur].sibling
        BY <1>5, <2>4, <4>1
      <4>3. i + 1 \in 1 .. Len(s)
        BY <1>5, <4>2
      <4> QED BY <4>2, <4>3
    <3> QED BY <3>1, <3>2 DEF SinceOK
  <2> QED BY <2>1, <2>2, <2>3, <2>4
<1> QED BY <1>0, <1>1, <1>7 DEF SinceOK

\* A creation that ends in the directory of another one counts as come since.
LEMMA SinceGrows ==
    ASSUME NEW p \in Callers, NEW s \in Seq(Nodes), NEW t, Outcome(p, s, t), call[p].node \in Nodes,
           NEW label, NEW cur, NEW recent, SinceOK(label, cur, s, recent)
    PROVE  SinceOK(label, cur, t, recent \cup {call[p].node})
<1>1. PICK n : n = call[p].node
  OBVIOUS
<1>2. CASE t = s
  BY <1>1, <1>2 DEF SinceOK
<1>3. CASE t # s
  <2>1. Len(s) \in Nat
    OBVIOUS
  <2>2. PICK k \in 0 .. Len(s) : t = Put(s, k, n)
    BY <1>1, <1>3, <2>1 DEF Outcome
  <2>3. t \in Seq(Nodes) /\ Len(t) = k + 1 /\ t[k + 1] = n /\ \A i \in 1 .. k : t[i] = s[i]
    <3>1. n \in Nodes
      BY <1>1
    <3> QED BY <2>2, <3>1, PutFacts
  <2>4. ASSUME NEW i \in 1 .. Len(t) PROVE t[i] = n \/ (i \in 1 .. Len(s) /\ t[i] = s[i])
    <3>1. CASE i = k + 1
      BY <2>3, <3>1
    <3>2. CASE i # k + 1
      <4>1. i \in 1 .. k /\ i \in 1 .. Len(s)
        BY <2>1, <2>3, <3>2
      <4> QED BY <2>3, <4>1
    <3> QED BY <3>1, <3>2
  <2>5. label = "head" => \A i \in 1 .. Len(t) : t[i] \in recent \cup {n}
    BY <2>4 DEF SinceOK
  <2>6. ASSUME label = "tail", NEW i \in 1 .. Len(t), t[i] = cur, NEW j \in (i + 1) .. Len(t)
        PROVE  t[j] \in recent \cup {n}
    <3>1. i \in 1 .. k /\ i \in 1 .. Len(s) /\ j \in 1 .. Len(t)
      BY <2>1, <2>3
    <3>2. s[i] = cur
      BY <2>3, <2>6, <3>1
    <3>3. CASE t[j] = n
      BY <3>3
    <3>4. CASE j \in 1 .. Len(s) /\ t[j] = s[j]
      <4>1. j \in (i + 1) .. Len(s)
        BY <2>1, <3>1, <3>4
      <4> QED BY <2>6, <3>1, <3>2, <3>4, <4>1 DEF SinceOK
    <3> QED BY <2>4, <3>1, <3>3, <3>4
  <2>7. recent \cup {n} # {}
    OBVIOUS
  <2> QED BY <1>1, <2>5, <2>6, <2>7 DEF SinceOK
<1> QED BY <1>2, <1>3

LEMMA SinceLinks ==
    ASSUME PointerInv, KidsInv, SinceInv, NEW p \in Callers, Linked(p)
    PROVE  SinceInv'
<1>0. /\ call \in [Callers -> CallRec] /\ pc \in [Callers -> Labels]
      /\ call[p].node \in Nodes
  BY DEF PointerInv, TypeInv, Returned, Linked, CallOK
<1> SUFFICES ASSUME NEW q \in Callers, NEW d \in Nodes, Creating(q)', d = call'[q].dir
             PROVE  SinceOK(pc[q], call[q].cur, Children(d), since[q])'
  BY DEF SinceInv
<1>1. q # p
  BY <1>0 DEF Linked, Creating
<1>2. pc'[q] = pc[q] /\ call'[q] = call[q] /\ Creating(q) /\ d = call[q].dir
  <2>1. pc'[q] = pc[q] /\ call'[q] = call[q]
    BY <1>0, <1>1 DEF Linked
  <2>2. Creating(q) /\ d = call[q].dir
    BY <2>1 DEF Creating
  <2> QED BY <2>1, <2>2
<1>3. PICK s, t, recent : s = Children(d) /\ t = Children(d)' /\ recent = since[q]
  OBVIOUS
<1>4. SinceOK(pc[q], call[q].cur, s, recent)
  BY <1>2, <1>3 DEF SinceInv
<1>5. SinceOK(pc[q], call[q].cur, t, since'[q])
  <2>1. CASE d # call[p].dir
    <3>1. since'[q] = since[q]
      BY <1>1, <1>2, <2>1 DEF Linked
    <3>2. t = s
      BY <1>3, <2>1, LinkKids
    <3> QED BY <1>3, <1>4, <3>1, <3>2
  <2>2. CASE d = call[p].dir
    <3>2. since'[q] = recent \cup {call[p].node}
      BY <1>1, <1>2, <1>3, <2>2 DEF Linked, Creating, Creates
    <3>3. Outcome(p, s, t)
      BY <1>3, <2>2, LinkKids
    <3>4. s \in Seq(Nodes)
      <4>1. d \in Allocated
        BY <2>2 DEF Linked, CallOK, Returned
      <4> QED BY <1>3, <4>1 DEF KidsInv, ChildList, Chain
    <3>5. SinceOK(pc[q], call[q].cur, t, recent \cup {call[p].node})
      BY <1>0, <1>4, <3>3, <3>4, SinceGrows
    <3> QED BY <3>2, <3>5
  <2> QED BY <2>1, <2>2
<1> QED BY <1>2, <1>3, <1>5 DEF SinceOK

LEMMA SinceStep ==
    ASSUME PointerInv, KidsInv, SinceInv, [Next]_vars, ~shared'
    PROVE  SinceInv'
<1>0. call \in [Callers -> CallRec] /\ pc \in [Callers -> Labels] /\ Returned \subseteq Nodes
  BY DEF PointerInv, TypeInv, Returned
<1>1. ASSUME Steady, NEW q \in Callers, pc'[q] = pc[q], call'[q] = call[q],
             since'[q] = since[q], NEW d \in Nodes, Creating(q)', d = call'[q].dir
      PROVE  SinceOK(pc[q], call[q].cur, Children(d), since[q])'
  <2>1. PICK s : s = Children(d)
    OBVIOUS
  <2>2. Children(d)' = s
    BY <1>1, <2>1, SteadyKids
  <2>3. SinceOK(pc[q], call[q].cur, s, since[q])
    BY <1>1, <2>1 DEF SinceInv, Creating
  <2> QED BY <1>1, <2>2, <2>3 DEF SinceOK
<1>2. CASE UNCHANGED vars \/ vfs_init \/ \E p \in Callers : Mounts(p)
  <2>1. Steady
    BY <1>2, SteadySteps
  <2>2. pc' = pc /\ call' = call /\ since' = since
    BY <1>2 DEF vars, vfs_init, Mounts, vfs_mount
  <2> QED BY <1>1, <2>1, <2>2 DEF SinceInv
<1>3. ASSUME NEW p \in Callers, Asks(p) \/ Begins(p) \/ Looks(p) \/ Moves(p) PROVE SinceInv'
  <2>1. Steady
    BY <1>3, SteadySteps
  <2>2. \A d \in Nodes : Children(d)' = Children(d)
    BY <2>1, SteadyKids
  <2>3. ASSUME NEW q \in Callers, q # p
        PROVE  pc'[q] = pc[q] /\ call'[q] = call[q] /\ since'[q] = since[q]
    <3>0. CASE Asks(p)
      BY <1>0, <2>3, <3>0, AskFacts DEF Asked
    <3>1. CASE Begins(p)
      BY <1>0, <2>3, <3>1, BeginFacts DEF Begun
    <3>2. CASE Looks(p)
      BY <1>0, <2>3, <3>2 DEF Looks, vfs_lookup, Begin
    <3>3. CASE Moves(p)
      BY <1>0, <2>3, <3>3 DEF Moves, FirstChild, Walk, Compare, Return
    <3> QED BY <1>3, <3>0, <3>1, <3>2, <3>3
  <2>4. ASSUME NEW d \in Nodes, Creating(p)', d = call'[p].dir
        PROVE  SinceOK(pc[p], call[p].cur, Children(d), since[p])'
    <3>1. CASE FirstChild(p) \/ Walk(p)
      BY <2>2, <2>4, <3>1, SinceMoves
    <3>2. CASE Begins(p)
      <4>1. pc'[p] = "created"
        BY <1>0, <3>2, BeginFacts DEF Begun
      <4> QED BY <4>1 DEF SinceOK
    <3>3. CASE Asks(p) \/ Looks(p) \/ Compare(p) \/ Return(p)
      <4>1. pc'[p] \in {"alloc", "lookup", "found", "idle"}
        BY <1>0, <3>3 DEF Asks, vfs_create, Begin, Looks, vfs_lookup, Compare, Return
      <4> QED BY <2>4, <4>1 DEF Creating
    <3> QED BY <1>3, <3>1, <3>2, <3>3 DEF Moves
  <2> QED BY <1>1, <2>1, <2>3, <2>4 DEF SinceInv
<1>4. ASSUME NEW p \in Callers, LinkChild(p) \/ LinkSibling(p) PROVE SinceInv'
  BY <1>4, LinkFacts, SinceLinks
<1> QED BY <1>2, <1>3, <1>4, NextCases

-----------------------------------------------------------------------------
(* The theorems *)

\* While every node was given once.
OwnInv == ~shared => Inv

LEMMA InvStep == ASSUME Inv, [Next]_vars, ~shared' PROVE Inv'
BY PointerStep, LookupStep, SinceStep DEF Inv

LEMMA OwnStep == ASSUME OwnInv, [Next]_vars, ~shared' PROVE Inv /\ Inv'
<1>1. ~shared
  BY SharedStays
<1>2. Inv
  BY <1>1 DEF OwnInv
<1> QED BY <1>2, InvStep

LEMMA Invariance == Spec => []OwnInv
<1>1. Init => OwnInv
  BY InitInv DEF OwnInv
<1>2. OwnInv /\ [Next]_vars => OwnInv'
  BY OwnStep DEF OwnInv
<1> QED BY <1>1, <1>2, PTL DEF Spec

\* Every field and every caller is as declared, links lead to allocated nodes, and
\* only directories have children (vfs.h).
THEOREM NodesTypeCorrect == Spec => []TypeOK
<1>1. OwnInv => TypeOK
  <2> SUFFICES ASSUME Inv PROVE TypeOK
    BY DEF OwnInv, TypeOK
  <2>1. TypeInv /\ LinkInv /\ Returned \subseteq Allocated
    BY DEF Inv, PointerInv, Returned
  <2>2. ASSUME NEW n \in Allocated
        PROVE  /\ mem[n].type \in {VFS_NODE_DIR, VFS_NODE_FILE} /\ mem[n].fs_data \in {FsRoot, Null}
               /\ {mem[n].parent, mem[n].child, mem[n].sibling} \subseteq Allocated \cup {Null}
               /\ mem[n].type = VFS_NODE_FILE => mem[n].child = Null
    <3>1. mem[n] \in NodeRec
      BY <2>1 DEF TypeInv
    <3> QED BY <2>1, <3>1 DEF NodeRec, LinkInv, VFS_NODE_FILE, VFS_NODE_DIR
  <2> QED BY <2>1, <2>2 DEF TypeOK, TypeInv, Labels
<1> QED BY <1>1, Invariance, PTL

\* The links form a tree, however the linking of nodes interleaves (vfs.c:54-61,
\* 85-92), as long as the heap has not given one node to two creations: every child
\* names its directory as its parent, and no node is in two places.
THEOREM LinksAreTree == Spec => []LinksFormTree
<1>1. OwnInv => LinksFormTree
  <2> SUFFICES ASSUME Inv PROVE LinksFormTree
    BY DEF OwnInv, LinksFormTree
  <2> DEFINE place == {pair \in Allocated \X (1 .. Cardinality(Nodes)) :
                         pair[2] \in DOMAIN Children(pair[1])}
  <2>1. ASSUME NEW a \in place
        PROVE  /\ a[1] \in Allocated /\ a = <<a[1], a[2]>> /\ ChildList(a[1], Children(a[1]))
               /\ a[2] \in 1 .. Len(Children(a[1])) /\ mem[Children(a[1])[a[2]]].parent = a[1]
    <3>1. a[1] \in Allocated /\ a[2] \in DOMAIN Children(a[1]) /\ a = <<a[1], a[2]>>
      OBVIOUS
    <3>2. ChildList(a[1], Children(a[1]))
      BY <3>1 DEF Inv, KidsInv
    <3>3. Children(a[1]) \in Seq(Nodes)
      BY <3>2 DEF ChildList, Chain
    <3>4. a[2] \in 1 .. Len(Children(a[1]))
      BY <3>1, <3>3
    <3> QED BY <3>1, <3>2, <3>4 DEF ChildList
  <2>2. ASSUME NEW a \in place, NEW b \in place, Children(a[1])[a[2]] = Children(b[1])[b[2]]
        PROVE  a = b
    <3>1. a[1] = b[1]
      BY <2>1, <2>2
    <3>2. a[2] = b[2]
      BY <2>1, <2>2, <3>1 DEF ChildList
    <3> QED BY <2>1, <3>1, <3>2
  <2> QED BY <2>1, <2>2 DEF LinksFormTree
<1> QED BY <1>1, Invariance, PTL

\* vfs_lookup, Begin finds the oldest child that had the name when it began, unless a
\* creation of the same time has dropped it (vfs.c:98-108) or was given its node.
THEOREM LookupIsOldest == Spec => []LookupFindsOldest
<1>1. OwnInv => LookupFindsOldest
  <2> SUFFICES ASSUME Inv, NEW p \in Callers, pc[p] = "found"
               PROVE  /\ call[p].cur # Null => /\ mem[call[p].cur].name = call[p].name
                                               /\ mem[call[p].cur].parent = call[p].dir
                      /\ call[p].first # Null /\ call[p].first \in Elements(Children(call[p].dir))
                            => call[p].cur = call[p].first
    BY DEF OwnInv, LookupFindsOldest
  <2>1. CallOK(p) /\ call[p].dir \in Nodes
    BY DEF Inv, PointerInv, CallInv, CallOK, TypeInv, Returned
  <2>2. LookupOK(pc[p], Children(call[p].dir), call[p])
    BY <2>1 DEF Inv, LookupInv
  <2> QED BY <2>1, <2>2 DEF CallOK, LookupOK
<1> QED BY <1>1, Invariance, PTL

-----------------------------------------------------------------------------
(* What creations may undo *)

LEMMA NothingLinked ==
    ASSUME PointerInv,
           \/ UNCHANGED vars \/ vfs_init
           \/ \E p \in Callers : Asks(p) \/ Begins(p) \/ Looks(p) \/ Moves(p) \/ Mounts(p),
           NEW q \in Callers, NEW d
    PROVE  ~LinksIn(q, d)
<1>0. pc \in [Callers -> Labels]
  BY DEF PointerInv, TypeInv
<1>1. CASE UNCHANGED vars \/ vfs_init \/ \E p \in Callers : Mounts(p)
  BY <1>1 DEF vars, vfs_init, Mounts, vfs_mount, LinksIn
<1>2. ASSUME NEW p \in Callers, Asks(p) \/ Begins(p) \/ Looks(p) PROVE ~LinksIn(q, d)
  BY <1>0, <1>2 DEF Asks, vfs_create, Begin, Begins, SetUp, Looks, vfs_lookup, LinksIn
<1>3. ASSUME NEW p \in Callers, Moves(p) PROVE ~LinksIn(q, d)
  BY <1>0, <1>3 DEF Moves, FirstChild, Walk, Compare, Return, LinksIn
<1> QED BY <1>1, <1>2, <1>3

\* The node of a creation goes behind all that was there before the creation began.
LEMMA LinkPutsIn ==
    ASSUME PointerInv, KidsInv, SinceInv, NEW p \in Callers, Linked(p),
           NEW d, d = call[p].dir
    PROVE  PutIn(Children(d), Children(d)', call[p].node, since[p])
<1>1. PICK n, s, t, recent : /\ n = call[p].node /\ recent = since[p]
                             /\ s = Children(d) /\ t = Children(d)'
  OBVIOUS
<1>2. d \in Nodes /\ d \in Allocated /\ Creating(p)
  BY <1>1 DEF Linked, CallOK, Returned, PointerInv, TypeInv
<1>3. s \in Seq(Nodes) /\ Len(s) \in Nat
  <2>1. s \in Seq(Nodes)
    BY <1>1, <1>2 DEF KidsInv, ChildList, Chain
  <2> QED BY <2>1
<1>4. SinceOK(pc[p], call[p].cur, s, recent)
  BY <1>1, <1>2 DEF SinceInv
<1>5. Outcome(p, s, t)
  BY <1>1, <1>2, LinkKids
<1>6. PutIn(s, t, n, recent)
  <2>1. CASE pc[p] = "head"
    <3>1. 0 \in 0 .. Len(s) /\ t = Put(s, 0, n)
      BY <1>1, <1>3, <1>5, <2>1 DEF Outcome
    <3>2. \A i \in (0 + 1) .. Len(s) : s[i] \in recent
      BY <1>3, <1>4, <2>1 DEF SinceOK
    <3> QED BY <3>1, <3>2 DEF Put, PutIn
  <2>2. ASSUME pc[p] = "tail", NEW k \in 1 .. Len(s), s[k] = call[p].cur, t = Put(s, k, n)
        PROVE  PutIn(s, t, n, recent)
    <3>1. k \in 0 .. Len(s)
      BY <1>3
    <3>2. \A i \in (k + 1) .. Len(s) : s[i] \in recent
      BY <1>4, <2>2 DEF SinceOK
    <3> QED BY <2>2, <3>1, <3>2 DEF Put, PutIn
  <2>3. CASE pc[p] = "tail" /\ t = s /\ \A k \in 1 .. Len(s) : s[k] # call[p].cur
    BY <1>4, <2>3 DEF SinceOK, PutIn
  <2> QED BY <1>1, <1>5, <2>1, <2>2, <2>3 DEF Outcome
<1> QED BY <1>1, <1>6

\* A list changes only when a creation links its node in it.
Damage(d) ==
    IF \E p \in Callers : LinksIn(p, d)
    THEN \E p \in Callers : LinksIn(p, d)
           /\ PutIn(Children(d), Children(d)', call[p].node, since[p])
    ELSE Children(d)' = Children(d)

LEMMA StepDamage ==
    ASSUME Inv, [Next]_vars, ~shared', NEW d \in Nodes
    PROVE  Damage(d)
<1>0. PointerInv /\ KidsInv /\ SinceInv
  BY DEF Inv
<1>1. CASE \/ UNCHANGED vars \/ vfs_init
           \/ \E p \in Callers : Asks(p) \/ Begins(p) \/ Looks(p) \/ Moves(p) \/ Mounts(p)
  <2>1. Steady
    BY <1>0, <1>1, SteadySteps
  <2>2. Children(d)' = Children(d)
    BY <1>0, <2>1, SteadyKids
  <2>3. \A q \in Callers : ~LinksIn(q, d)
    BY <1>0, <1>1, NothingLinked
  <2> QED BY <2>2, <2>3 DEF Damage
<1>2. ASSUME NEW p \in Callers, LinkChild(p) \/ LinkSibling(p) PROVE Damage(d)
  <2>1. Linked(p)
    BY <1>0, <1>2, LinkFacts
  <2>2. /\ pc \in [Callers -> Labels] /\ pc[p] \in {"head", "tail"} /\ pc'[p] = "idle"
        /\ \A q \in Callers : q # p => pc'[q] = pc[q]
    BY <1>0, <2>1 DEF PointerInv, TypeInv, Linked
  <2>3. CASE d = call[p].dir
    <3>1. LinksIn(p, d)
      BY <2>2, <2>3 DEF LinksIn
    <3>2. PutIn(Children(d), Children(d)', call[p].node, since[p])
      BY <1>0, <2>1, <2>3, LinkPutsIn
    <3> QED BY <3>1, <3>2 DEF Damage
  <2>4. CASE d # call[p].dir
    <3>1. \A q \in Callers : ~LinksIn(q, d)
      BY <2>2, <2>4 DEF LinksIn
    <3>2. Children(d)' = Children(d)
      BY <1>0, <2>1, <2>4, LinkKids
    <3> QED BY <3>1, <3>2 DEF Damage
  <2> QED BY <2>3, <2>4
<1> QED BY <1>1, <1>2, NextCases

\* A creation takes out of a directory only nodes that were linked there after it
\* began, and its own node is missing only if there are such (vfs.c:54-61, 85-92).
THEOREM DamageIsRecent == Spec => UndoesOnlyRecent
<1>1. OwnInv /\ [Next]_vars =>
        [~shared' => \A d \in Nodes :
           IF \E p \in Callers : LinksIn(p, d)
           THEN \E p \in Callers : LinksIn(p, d)
                  /\ PutIn(Children(d), Children(d)', call[p].node, since[p])
           ELSE Children(d)' = Children(d)]_vars
  <2> SUFFICES ASSUME OwnInv, [Next]_vars, ~shared', NEW d \in Nodes PROVE Damage(d)
    BY DEF Damage
  <2>1. Inv
    BY OwnStep
  <2> QED BY <2>1, StepDamage
<1> QED BY <1>1, Invariance, PTL DEF Spec, UndoesOnlyRecent

-----------------------------------------------------------------------------
(* Until calls overlap *)

\* No call is in the way of another: nothing was linked since a creation began, and
\* the node that the heap has found for it is still free.
Turns == \A p, q \in Callers : pc[p] # "idle" /\ pc[q] # "idle" => p = q

TurnsInv ==
    /\ Turns /\ ~shared
    /\ \A p \in Callers : since[p] = {}
    /\ \A p \in Callers : pc[p] = "alloc" => call[p].cur \notin used
    /\ root = Null => Allocated = {}
    /\ root # Null => root \in Returned

Listed == \A n \in Returned \ {root} : n \in Elements(Children(mem[n].parent))

SerialInv == Inv /\ TurnsInv /\ Listed

\* Nothing else is returned than what was there, but for the root.
LEMMA ReturnedSteady ==
    ASSUME PointerInv, KidsInv,
           \/ UNCHANGED vars
           \/ \E p \in Callers : Asks(p) \/ Begins(p) \/ Looks(p) \/ Moves(p) \/ Mounts(p)
    PROVE  Returned' = Returned /\ root' = root
<1>0. /\ Null \notin Nodes /\ Allocated \subseteq Nodes
      /\ call \in [Callers -> CallRec] /\ \A p \in Callers : call[p].node \in Allocated \cup {Null}
      /\ \A p \in Callers : call[p].node # Null => Creating(p)
  BY VfsAssumption DEF PointerInv, TypeInv, CallInv, CallOK
<1>1. CASE UNCHANGED vars
  BY <1>1 DEF vars, Returned, Allocated
<1>2. ASSUME NEW p \in Callers, Begins(p) PROVE Returned' = Returned /\ root' = root
  <2>1. PICK d \in Returned, n \in Nodes : Begun(p, d, n)
    BY <1>2, BeginFacts
  <2>2. call[p].node = Null
    BY <1>0, <2>1 DEF Begun, Creating
  <2>3. call'[p].node = n /\ \A q \in Callers : q # p => call'[q] = call[q]
    BY <1>0, <2>1 DEF Begun, Idle
  <2>4. Returned' = Returned
    BY <1>0, <2>1, <2>2, <2>3 DEF Begun, Returned
  <2> QED BY <2>1, <2>4 DEF Begun
<1>3. ASSUME NEW p \in Callers, Asks(p) \/ Looks(p) \/ Moves(p)
      PROVE  Returned' = Returned /\ root' = root
  <2>1. mem' = mem /\ root' = root
    BY <1>3 DEF Asks, vfs_create, Begin, Looks, vfs_lookup, Moves, FirstChild, Walk, Compare, Return
  <2>2. ASSUME NEW q \in Callers PROVE call'[q].node = call[q].node
    <3>1. CASE Asks(p)
      <4>1. PICK d \in Returned, n \in Nodes, r \in NodeRec : Asked(p, d, n, r)
        BY <3>1, AskFacts
      <4>2. call[p].node = Null
        BY <1>0, <4>1 DEF Asked, Creating
      <4>3. call'[q] = IF q = p THEN [Idle EXCEPT !.dir = d, !.cur = n, !.new = r] ELSE call[q]
        BY <1>0, <4>1 DEF Asked
      <4> QED BY <4>2, <4>3 DEF Idle
    <3>2. CASE Looks(p)
      BY <1>0, <3>2 DEF Looks, vfs_lookup, Begin, Idle, Creating
    <3>3. CASE FirstChild(p)
      BY <1>0, <3>3 DEF FirstChild, CallRec
    <3>4. CASE Walk(p)
      BY <1>0, <3>4 DEF Walk, CallRec
    <3>5. CASE Compare(p)
      BY <1>0, <3>5 DEF Compare, CallRec
    <3>6. CASE Return(p)
      BY <1>0, <3>6 DEF Return, Idle, Creating
    <3> QED BY <1>3, <3>1, <3>2, <3>3, <3>4, <3>5, <3>6 DEF Moves
  <2>3. Returned' = Returned
    BY <2>1, <2>2 DEF Returned, Allocated
  <2> QED BY <2>1, <2>3
<1>4. ASSUME NEW p \in Callers, Mounts(p) PROVE Returned' = Returned /\ root' = root
  <2>1. PICK n, fs_root : /\ mem' = [mem EXCEPT ![n].fs_data = fs_root] /\ call' = call
                          /\ root' = root
    BY <1>4 DEF Mounts, vfs_mount
  <2>2. mem \in [Allocated -> NodeRec]
    BY DEF PointerInv, TypeInv
  <2>3. Allocated' = Allocated
    BY <2>1, <2>2 DEF Allocated
  <2> QED BY <2>1, <2>3 DEF Returned
<1> QED BY <1>1, <1>2, <1>3, <1>4

\* The node goes behind the last child.
LEMMA LinkAppends ==
    ASSUME PointerInv, KidsInv, SinceInv, NEW p \in Callers, Linked(p), since[p] = {},
           NEW d, d = call[p].dir
    PROVE  Children(d)' = Append(Children(d), call[p].node)
<1>1. PICK s, t, n : s = Children(d) /\ t = Children(d)' /\ n = call[p].node
  OBVIOUS
<1>2. PutIn(s, t, n, {})
  BY <1>1, LinkPutsIn
<1>3. s \in Seq(Nodes) /\ Len(s) \in Nat
  <2>1. d \in Allocated
    BY DEF Linked, CallOK, Returned
  <2>2. s \in Seq(Nodes)
    BY <1>1, <2>1 DEF KidsInv, ChildList, Chain
  <2> QED BY <2>2
<1>4. PICK k \in 0 .. Len(s) : /\ \A i \in (k + 1) .. Len(s) : s[i] \in {}
                               /\ t = Append(SubSeq(s, 1, k), n)
  BY <1>2 DEF PutIn
<1>5. k = Len(s)
  <2>1. ASSUME k # Len(s) PROVE FALSE
    <3>1. k + 1 \in (k + 1) .. Len(s)
      BY <1>3, <2>1
    <3> QED BY <1>4, <3>1
  <2> QED BY <2>1
<1>6. SubSeq(s, 1, Len(s)) = s
  BY <1>3
<1> QED BY <1>1, <1>4, <1>5, <1>6

LEMMA AppendElements ==
    ASSUME NEW s \in Seq(Nodes), NEW n \in Nodes
    PROVE  Elements(Append(s, n)) = Elements(s) \cup {n}
<1>1. /\ Append(s, n) \in Seq(Nodes) /\ Len(Append(s, n)) = Len(s) + 1 /\ Len(s) \in Nat
      /\ Append(s, n)[Len(s) + 1] = n /\ \A i \in 1 .. Len(s) : Append(s, n)[i] = s[i]
  BY AppendProperties
<1>2. DOMAIN Append(s, n) = 1 .. (Len(s) + 1) /\ DOMAIN s = 1 .. Len(s)
  BY <1>1
<1>3. \A i \in 1 .. (Len(s) + 1) : i \in 1 .. Len(s) \/ i = Len(s) + 1
  BY <1>1
<1>4. \A i \in 1 .. Len(s) : i \in 1 .. (Len(s) + 1)
  BY <1>1
<1>5. Len(s) + 1 \in 1 .. (Len(s) + 1)
  BY <1>1
<1> QED BY <1>1, <1>2, <1>3, <1>4, <1>5 DEF Elements

-----------------------------------------------------------------------------
(* The steps of calls that take turns *)

LEMMA OverlappedStays ==
    ASSUME [Next]_vars, overlapped
    PROVE  overlapped'
<1>1. ASSUME NEW p, NEW label, Begin(p, label) PROVE overlapped'
  <2>1. overlapped' = (overlapped \/ \E q \in Callers : pc[q] # "idle")
    BY <1>1 DEF Begin
  <2> QED BY <2>1, Zenon
<1>2. ASSUME NEW p \in Callers, NEW d, NEW name,
             \/ vfs_create_dir(p, d, name) \/ vfs_create_file(p, d, name, FsRoot)
             \/ vfs_lookup(p, d, name)
      PROVE  overlapped'
  <2>1. Begin(p, "alloc") \/ Begin(p, "lookup")
    BY <1>2 DEF vfs_create_dir, vfs_create_file, vfs_create, vfs_lookup
  <2> QED BY <1>1, <2>1
<1>3. CASE vfs_init \/ UNCHANGED vars
  BY <1>3 DEF vfs_init, vars
<1>4. ASSUME NEW p \in Callers, NEW n, NEW fs_root, vfs_mount(p, n, fs_root) PROVE overlapped'
  BY <1>4 DEF vfs_mount
<1>5. ASSUME NEW p \in Callers, Step(p) PROVE overlapped'
  BY <1>5 DEF Step, SetUp, FirstChild, Walk, LinkChild, LinkSibling, Created, Compare, Return
<1> QED BY <1>2, <1>3, <1>4, <1>5 DEF Next

\* A call that begins while another is under way is noticed.
LEMMA TurnsKept ==
    ASSUME TypeInv, Turns, [Next]_vars, ~overlapped'
    PROVE  Turns'
<1>0. pc \in [Callers -> Labels]
  BY DEF TypeInv
<1>1. ASSUME NEW p \in Callers, NEW label, Begin(p, label) PROVE Turns'
  <2>1. pc' = [pc EXCEPT ![p] = label] /\ overlapped' = (overlapped \/ \E q \in Callers : pc[q] # "idle")
    BY <1>1 DEF Begin
  <2>2. ~overlapped /\ \A q \in Callers : pc[q] = "idle"
    BY <2>1, Zenon
  <2>3. \A q \in Callers : q # p => pc'[q] = "idle"
    BY <1>0, <2>1, <2>2
  <2> QED BY <2>2, <2>3 DEF Turns
<1>2. ASSUME NEW p \in Callers, NEW d, NEW name,
             \/ vfs_create_dir(p, d, name) \/ vfs_create_file(p, d, name, FsRoot)
             \/ vfs_lookup(p, d, name)
      PROVE  Turns'
  <2>1. Begin(p, "alloc") \/ Begin(p, "lookup")
    BY <1>2 DEF vfs_create_dir, vfs_create_file, vfs_create, vfs_lookup
  <2> QED BY <1>1, <2>1
<1>3. ASSUME overlapped' = overlapped, \A q \in Callers : pc[q] = "idle" => pc'[q] = "idle"
      PROVE  Turns'
  BY <1>3 DEF Turns
<1>4. CASE vfs_init \/ UNCHANGED vars
  BY <1>3, <1>4 DEF vfs_init, vars
<1>5. ASSUME NEW p \in Callers, NEW n, NEW fs_root, vfs_mount(p, n, fs_root)
      PROVE  Turns'
  BY <1>3, <1>5 DEF vfs_mount
<1>6. ASSUME NEW p \in Callers, Step(p) PROVE Turns'
  <2>1. overlapped' = overlapped
    BY <1>6 DEF Step, SetUp, FirstChild, Walk, LinkChild, LinkSibling, Created, Compare, Return
  <2>2. pc[p] # "idle" /\ \A q \in Callers : q # p => pc'[q] = pc[q]
    BY <1>0, <1>6 DEF Step, SetUp, FirstChild, Walk, LinkChild, LinkSibling, Created, Compare, Return
  <2> QED BY <1>3, <2>1, <2>2
<1> QED BY <1>2, <1>4, <1>5, <1>6 DEF Next

LEMMA NeverShared ==
    ASSUME TurnsInv, Next
    PROVE  ~shared'
<1>0. ~shared
  BY DEF TurnsInv
<1>1. CASE vfs_init
  BY <1>0, <1>1 DEF vfs_init
<1>2. ASSUME NEW p \in Callers, NEW d, NEW name,
             \/ vfs_create_dir(p, d, name) \/ vfs_create_file(p, d, name, FsRoot)
             \/ vfs_lookup(p, d, name)
      PROVE  ~shared'
  BY <1>0, <1>2 DEF vfs_create_dir, vfs_create_file, vfs_create, Begin, vfs_lookup
<1>3. ASSUME NEW p \in Callers, NEW n, NEW fs_root, vfs_mount(p, n, fs_root) PROVE ~shared'
  BY <1>0, <1>3 DEF vfs_mount
<1>4. ASSUME NEW p \in Callers, Step(p) PROVE ~shared'
  <2>1. CASE SetUp(p)
    <3>1. shared' = (shared \/ call[p].cur \in used) /\ pc[p] = "alloc"
      BY <2>1 DEF SetUp
    <3>2. call[p].cur \notin used
      BY <3>1 DEF TurnsInv
    <3> QED BY <1>0, <3>1, <3>2, Zenon
  <2>2. CASE ~SetUp(p)
    BY <1>0, <1>4, <2>2 DEF Step, FirstChild, Walk, LinkChild, LinkSibling, Created, Compare, Return
  <2> QED BY <2>1, <2>2
<1> QED BY <1>1, <1>2, <1>3, <1>4 DEF Next

LEMMA TurnsStep ==
    ASSUME Inv, TurnsInv, Next, Turns', ~shared'
    PROVE  TurnsInv'
<1>0. /\ PointerInv /\ KidsInv /\ SinceInv /\ Returned \subseteq Allocated
      /\ pc \in [Callers -> Labels] /\ call \in [Callers -> CallRec]
      /\ since \in [Callers -> SUBSET Nodes] /\ used = Allocated /\ Null \notin Nodes
      /\ Allocated \subseteq Nodes
  BY VfsAssumption DEF Inv, PointerInv, TypeInv, Returned
<1>1. CASE vfs_init
  <2>1. PICK n \in Nodes : RootMade(n)
    BY <1>0, <1>1, InitFacts DEF PointerInv
  <2>2. Allocated = {} /\ root' = n /\ n # Null /\ pc' = pc /\ call' = call /\ since' = since
    BY <1>0, <2>1 DEF RootMade, TurnsInv
  <2>3. \A p \in Callers : pc[p] # "alloc" /\ call[p].node = Null
    BY <1>0, <2>2 DEF PointerInv, CallInv, CallOK, NewOK
  <2>4. n \in Returned'
    <3>1. n \in Allocated'
      BY <2>1 DEF RootMade, With, Allocated
    <3> QED BY <2>2, <2>3, <3>1 DEF Returned
  <2> QED BY <2>2, <2>3, <2>4 DEF TurnsInv
<1>2. ASSUME NEW p \in Callers, Asks(p) PROVE TurnsInv'
  <2>1. PICK d \in Returned, n \in Nodes, r \in NodeRec : Asked(p, d, n, r)
    BY <1>0, <1>2, AskFacts
  <2>2. Returned' = Returned /\ root' = root
    BY <1>0, <1>2, ReturnedSteady
  <2>3. ASSUME NEW q \in Callers, pc'[q] = "alloc" PROVE call'[q].cur \notin used'
    <3>1. CASE q = p
      <4>1. call'[q].cur = n
        BY <1>0, <2>1, <3>1 DEF Asked, Idle
      <4> QED BY <2>1, <4>1 DEF Asked
    <3>2. CASE q # p
      BY <1>0, <2>1, <2>3, <3>2 DEF Asked, TurnsInv
    <3> QED BY <3>1, <3>2
  <2>4. Allocated' = Allocated /\ since' = since
    BY <2>1 DEF Asked, Allocated
  <2> QED BY <2>2, <2>3, <2>4 DEF TurnsInv
<1>3. ASSUME NEW p \in Callers, Begins(p) PROVE TurnsInv'
  <2>1. PICK d \in Returned, n \in Nodes : Begun(p, d, n)
    BY <1>0, <1>3, BeginFacts
  <2>2. Returned' = Returned /\ root' = root
    BY <1>0, <1>3, ReturnedSteady
  <2>3. root # Null /\ since' = since
    BY <1>0, <2>1 DEF Begun, TurnsInv
  <2>4. ASSUME NEW q \in Callers PROVE pc'[q] # "alloc"
    <3>1. q # p => pc[q] = "idle"
      BY <2>1 DEF Begun, TurnsInv, Turns
    <3> QED BY <1>0, <2>1, <3>1 DEF Begun
  <2> QED BY <2>2, <2>3, <2>4 DEF TurnsInv
<1>4. ASSUME NEW p \in Callers, Looks(p) \/ Moves(p) \/ Mounts(p) PROVE TurnsInv'
  <2>1. Returned' = Returned /\ root' = root
    BY <1>0, <1>4, ReturnedSteady
  <2>2. since' = since /\ used' = used
    BY <1>4 DEF Looks, vfs_lookup, Begin, Moves, FirstChild, Walk, Compare, Return, Mounts, vfs_mount
  <2>3. Allocated' = Allocated
    <3>1. TypeInv'
      BY InvStep DEF Inv, PointerInv
    <3> QED BY <1>0, <2>2, <3>1 DEF TypeInv
  <2>4. ASSUME NEW q \in Callers, pc'[q] = "alloc" PROVE pc[q] = "alloc" /\ call'[q] = call[q]
    BY <1>0, <1>4, <2>4 DEF Looks, vfs_lookup, Begin, Moves, FirstChild, Walk, Compare, Return,
       Mounts, vfs_mount
  <2> QED BY <2>1, <2>2, <2>3, <2>4 DEF TurnsInv
<1>5. ASSUME NEW p \in Callers, LinkChild(p) \/ LinkSibling(p) PROVE TurnsInv'
  <2>1. Linked(p) /\ root' = root
    BY <1>0, <1>5, LinkFacts
  <2>2. pc[p] \in {"head", "tail"} /\ \A q \in Callers : q # p => pc[q] = "idle"
    BY <2>1 DEF Linked, TurnsInv, Turns
  <2>3. \A q \in Callers : pc'[q] = "idle"
    BY <1>0, <2>1, <2>2 DEF Linked
  <2>4. \A q \in Callers : since'[q] = {}
    BY <2>1, <2>2 DEF Linked, Creates, TurnsInv
  <2>5. Allocated' = Allocated /\ Returned \subseteq Returned'
    BY <2>1 DEF Linked
  <2> QED BY <2>1, <2>3, <2>4, <2>5 DEF TurnsInv
<1>6. CASE UNCHANGED vars
  BY <1>6 DEF vars, TurnsInv, Returned, Allocated
<1> QED BY <1>1, <1>2, <1>3, <1>4, <1>5, <1>6, NextCases

LEMMA ListedStep ==
    ASSUME Inv, TurnsInv, Listed, [Next]_vars, ~shared'
    PROVE  Listed'
<1>0. /\ PointerInv /\ KidsInv /\ SinceInv /\ LinkInv /\ Returned \subseteq Allocated
      /\ Null \notin Nodes /\ Allocated \subseteq Nodes
  BY VfsAssumption DEF Inv, PointerInv, TypeInv, Returned
<1>1. \A e \in Returned \ {root} : mem[e].parent \in Nodes
  <2> SUFFICES ASSUME NEW e \in Returned \ {root}, mem[e].parent = Null PROVE FALSE
    BY <1>0 DEF LinkInv
  <2>1. e \in Elements(Children(Null))
    BY DEF Listed
  <2>2. Children(Null) = <<>>
    BY <1>0 DEF Children
  <2> QED BY <2>1, <2>2 DEF Elements
<1>2. CASE \/ UNCHANGED vars
           \/ \E p \in Callers : Asks(p) \/ Begins(p) \/ Looks(p) \/ Moves(p) \/ Mounts(p)
  <2>1. Steady /\ Returned' = Returned /\ root' = root
    BY <1>0, <1>2, SteadySteps, ReturnedSteady
  <2>2. \A d \in Nodes : Children(d)' = Children(d)
    BY <1>0, <2>1, SteadyKids
  <2>3. ASSUME NEW e \in Returned' \ {root'} PROVE e \in Elements(Children(mem[e].parent))'
    <3>1. PICK d : d = mem[e].parent
      OBVIOUS
    <3>2. e \in Elements(Children(d)) /\ d \in Nodes
      BY <1>1, <2>1, <3>1 DEF Listed
    <3>3. mem'[e].parent = d
      BY <1>0, <2>1, <3>1 DEF Steady
    <3>4. e \in Elements(Children(d)')
      BY <2>2, <3>2
    <3> QED BY <3>3, <3>4 DEF Elements
  <2> QED BY <2>3 DEF Listed
<1>3. CASE vfs_init
  <2>1. PICK n \in Nodes : RootMade(n)
    BY <1>0, <1>3, InitFacts DEF PointerInv
  <2>2. Allocated = {} /\ root' = n
    BY <1>0, <2>1 DEF RootMade, TurnsInv
  <2>3. Returned' \subseteq {n}
    BY <2>1, <2>2 DEF RootMade, With, Allocated, Returned
  <2> QED BY <2>2, <2>3 DEF Listed
<1>4. ASSUME NEW p \in Callers, LinkChild(p) \/ LinkSibling(p) PROVE Listed'
  <2>1. Linked(p) /\ root' = root
    BY <1>0, <1>4, LinkFacts
  <2>2. PICK d, n : d = call[p].dir /\ n = call[p].node
    OBVIOUS
  <2>3. /\ d \in Allocated /\ n \in Allocated /\ mem[n].parent = d /\ since[p] = {}
        /\ Returned' = Returned \cup {n} /\ \A e \in Allocated : mem'[e].parent = mem[e].parent
    BY <1>0, <2>1, <2>2 DEF Linked, CallOK, TurnsInv
  <2>4. Children(d)' = Append(Children(d), n)
    BY <1>0, <2>1, <2>2, <2>3, LinkAppends
  <2>5. Children(d) \in Seq(Nodes)
    BY <1>0, <2>3 DEF KidsInv, ChildList, Chain
  <2>6. Elements(Children(d)') = Elements(Children(d)) \cup {n}
    BY <1>0, <2>3, <2>4, <2>5, AppendElements
  <2>7. \A e \in Nodes : e # d => Children(e)' = Children(e)
    BY <1>0, <2>1, <2>2, LinkKids
  <2>8. ASSUME NEW e \in Returned' \ {root'} PROVE e \in Elements(Children(mem[e].parent))'
    <3>1. PICK f : f = mem[e].parent
      OBVIOUS
    <3>2. mem'[e].parent = f
      BY <1>0, <2>3, <3>1
    <3>3. e \in Elements(Children(f)')
      <4>1. CASE e = n
        BY <2>3, <2>6, <3>1, <4>1
      <4>2. CASE e # n
        <5>1. e \in Elements(Children(f)) /\ f \in Nodes
          BY <1>1, <2>1, <2>3, <3>1, <4>2 DEF Listed
        <5>2. CASE f = d
          BY <2>6, <5>1, <5>2
        <5>3. CASE f # d
          BY <2>7, <5>1, <5>3
        <5> QED BY <5>2, <5>3
      <4> QED BY <4>1, <4>2
    <3> QED BY <3>2, <3>3 DEF Elements
  <2> QED BY <2>8 DEF Listed
<1> QED BY <1>2, <1>3, <1>4, NextCases

AloneInv == ~overlapped => SerialInv

\* A step before calls overlap.
LEMMA AloneStep ==
    ASSUME AloneInv, [Next]_vars, ~overlapped'
    PROVE  SerialInv /\ SerialInv'
<1>1. ~overlapped
  BY OverlappedStays
<1>2. SerialInv /\ Inv /\ TurnsInv /\ Listed
  BY <1>1 DEF AloneInv, SerialInv
<1>3. Turns'
  BY <1>2, TurnsKept DEF Inv, PointerInv, TurnsInv
<1>4. CASE Next
  <2>1. ~shared'
    BY <1>2, <1>4, NeverShared
  <2> QED BY <1>2, <1>3, <1>4, <2>1, InvStep, TurnsStep, ListedStep DEF SerialInv
<1>5. CASE UNCHANGED vars
  <2>1. ~shared' /\ Returned' = Returned /\ Allocated' = Allocated
    BY <1>2, <1>5 DEF vars, TurnsInv, Returned, Allocated
  <2>2. Inv'
    BY <1>2, <1>5, <2>1, InvStep
  <2>3. TurnsInv'
    BY <1>2, <1>5, <2>1 DEF vars, TurnsInv, Turns
  <2>4. Listed'
    BY <1>2, <1>5, <2>1, ListedStep
  <2> QED BY <1>2, <2>2, <2>3, <2>4 DEF SerialInv
<1> QED BY <1>4, <1>5

LEMMA AloneInvariance == Spec => []AloneInv
<1>1. Init => AloneInv
  <2> SUFFICES ASSUME Init PROVE SerialInv
    BY DEF AloneInv
  <2>1. Allocated = {} /\ Returned = {}
    BY DEF Init, Allocated, Returned
  <2>2. TurnsInv
    BY <2>1 DEF Init, TurnsInv, Turns
  <2> QED BY <2>1, <2>2, InitInv DEF Listed, SerialInv
<1>2. AloneInv /\ [Next]_vars => AloneInv'
  BY AloneStep DEF AloneInv
<1> QED BY <1>1, <1>2, PTL DEF Spec

\* Until calls overlap, the heap gives no node twice, so that what is proved above
\* holds, and whatever a creation has returned is among the children of its parent
\* (vfs.c:34-35, 53, 84).
THEOREM NothingIsLost == Spec => []((~overlapped => OwnNodes) /\ ReturnedAreListed)
<1>1. AloneInv => (~overlapped => OwnNodes) /\ ReturnedAreListed
  BY DEF AloneInv, SerialInv, TurnsInv, Listed, OwnNodes, ReturnedAreListed
<1> QED BY <1>1, AloneInvariance, PTL

-----------------------------------------------------------------------------
(* The refinement of VfsTree *)

Kids == [d \in Nodes |-> Children(d)]

LEMMA LinkAdds ==
    ASSUME SerialInv, NEW p \in Callers, Linked(p), root' = root
    PROVE  \E n \in Nodes : \E d \in Nodes : Tree!Add(d, n)
<1>0. /\ PointerInv /\ KidsInv /\ SinceInv /\ TurnsInv /\ Listed /\ Allocated \subseteq Nodes
      /\ Returned \subseteq Allocated /\ Null \notin Nodes /\ LinkInv
  BY VfsAssumption DEF SerialInv, Inv, PointerInv, TypeInv, Returned
<1>1. PICK d, n : d = call[p].dir /\ n = call[p].node
  OBVIOUS
<1>2. /\ d \in Returned /\ d \in Nodes /\ n \in Nodes /\ n \in Allocated /\ n \notin Returned
      /\ since[p] = {}
  BY <1>0, <1>1 DEF Linked, CallOK, Returned, TurnsInv
<1>3. \A e \in Nodes : Kids[e] = Children(e)
  BY DEF Kids
<1>4. d \in Tree!Known
  <2>1. CASE d = root
    BY <2>1 DEF Tree!Known
  <2>2. CASE d # root
    <3>1. PICK e : e = mem[d].parent
      OBVIOUS
    <3>2. d \in Elements(Children(e))
      BY <1>0, <1>2, <2>2, <3>1 DEF Listed
    <3>3. e \in Allocated
      <4>1. CASE e \notin Allocated
        BY <3>2, <4>1 DEF Children, Elements
      <4> QED BY <4>1
    <3>4. \E i \in DOMAIN Children(e) : Children(e)[i] = d
      BY <3>2 DEF Elements
    <3> QED BY <1>0, <1>2, <1>3, <3>3, <3>4 DEF Tree!Known, Kids
  <2> QED BY <2>1, <2>2
<1>5. n \notin Tree!Known
  <2>1. n # root
    BY <1>0, <1>2 DEF TurnsInv
  <2>2. ASSUME NEW e \in Nodes, NEW i \in DOMAIN Children(e), Children(e)[i] = n PROVE FALSE
    <3>1. e \in Allocated
      <4>1. CASE e \notin Allocated
        BY <4>1 DEF Children
      <4> QED BY <4>1
    <3>2. ChildList(e, Children(e)) /\ Children(e) \in Seq(Nodes)
      BY <1>0, <3>1 DEF KidsInv, ChildList, Chain
    <3>3. i \in 1 .. Len(Children(e))
      BY <3>2
    <3> QED BY <1>2, <2>2, <3>2, <3>3 DEF ChildList
  <2> QED BY <2>1, <2>2 DEF Tree!Known
<1>6. Children(d)' = Append(Children(d), n)
  BY <1>0, <1>1, <1>2, LinkAppends
<1>7. \A e \in Nodes : e # d => Children(e)' = Children(e)
  BY <1>0, <1>1, LinkKids
<1>8. Kids' = [Kids EXCEPT ![d] = Append(@, n)]
  <2>1. Kids' = [e \in Nodes |-> Children(e)']
    BY DEF Kids
  <2> QED BY <1>2, <1>6, <1>7, <2>1 DEF Kids
<1>9. Tree!Add(d, n)
  BY <1>4, <1>5, <1>8 DEF Tree!Add, Kids
<1> QED BY <1>2, <1>9

\* Until calls overlap they do what VfsTree says: a creation adds its node, a new
\* one, as the last child of its directory (vfs.c:53, 84), and nothing else changes.
THEOREM LinksImplementTree == Spec => ImplementsTree
<1>1. Init => Tree!Init
  <2> SUFFICES ASSUME Init PROVE Tree!Init
    OBVIOUS
  <2>1. \A d \in Nodes : Children(d) = <<>>
    BY DEF Init, Children, Allocated
  <2> QED BY <2>1 DEF Init, Tree!Init
<1>2. AloneInv /\ [Next]_vars => [~overlapped' => Tree!Step]_vars
  <2> SUFFICES ASSUME AloneInv, [Next]_vars, ~overlapped'
               PROVE  Tree!Next \/ (root' = root /\ Kids' = Kids)
    BY DEF Kids, Tree!Step
  <2>0. SerialInv /\ PointerInv /\ KidsInv /\ SinceInv /\ ~shared'
    BY AloneStep DEF SerialInv, Inv, TurnsInv
  <2>1. CASE \/ UNCHANGED vars
             \/ \E p \in Callers : Asks(p) \/ Begins(p) \/ Looks(p) \/ Moves(p) \/ Mounts(p)
    <3>1. Steady /\ root' = root
      BY <2>0, <2>1, SteadySteps, ReturnedSteady
    <3>2. \A d \in Nodes : Children(d)' = Children(d)
      BY <2>0, <3>1, SteadyKids
    <3> QED BY <3>1, <3>2 DEF Kids
  <2>2. CASE vfs_init
    <3>1. PICK n \in Nodes : RootMade(n)
      BY <2>0, <2>2, InitFacts DEF PointerInv
    <3>2. Steady
      BY <2>0, <2>2, SteadySteps
    <3>3. \A d \in Nodes : Children(d)' = Children(d)
      BY <2>0, <3>2, SteadyKids
    <3>4. Kids' = Kids
      BY <3>3 DEF Kids
    <3>5. Tree!MakeRoot(n)
      BY <3>1, <3>4 DEF RootMade, Tree!MakeRoot, Kids
    <3> QED BY <3>5 DEF Tree!Next
  <2>3. ASSUME NEW p \in Callers, LinkChild(p) \/ LinkSibling(p) PROVE Tree!Next
    <3>1. Linked(p) /\ root' = root
      BY <2>0, <2>3, LinkFacts
    <3> QED BY <2>0, <3>1, LinkAdds DEF Tree!Next
  <2> QED BY <2>0, <2>1, <2>2, <2>3, NextCases
<1> QED BY <1>1, <1>2, AloneInvariance, PTL DEF Spec, ImplementsTree
=============================================================================
