--------------------------------- MODULE Dtb ---------------------------------
(***************************************************************************)
(* The device tree parser, src/kern/boot/dtb.c, as kernel_main uses it:    *)
(* dtb_init, then a search for the framebuffer, which decides whether the  *)
(* kernel goes on or panics, then one for the memory that kmalloc_init     *)
(* gets.                                                                   *)
(*                                                                         *)
(* The structure block is a sequence of tokens.  A node's name stands for  *)
(* the part before '@', which is all the comparisons look at for a path    *)
(* segment without '@'; a path is the sequence of the parts between its    *)
(* slashes, so "/chosen" is <<"", "chosen">>.  Byte order and alignment    *)
(* are left out.                                                           *)
(***************************************************************************)
EXTENDS Integers, Sequences, SequencesExt

CONSTANTS Nodes,    \* names of the root's children in the trees considered
          Props,    \* names of properties
          Lengths,  \* lengths of properties
          MaxNodes  \* bound on the children of the root

VARIABLES
    magic,          \* the header has FDT_MAGIC
    fdt,            \* the tokens of the structure block
    pc,             \* where kernel_main is
    rest,           \* struct_ptr: the tokens not looked at yet
    depth,          \* depth, and the index of the path segment to match next
    segment,
    node_found,
    heap            \* what kmalloc_init was given: "dtb", "default" or "none"

vars == <<magic, fdt, pc, rest, depth, segment, node_found, heap>>

FDT_BEGIN_NODE(name) == [tag |-> "BEGIN_NODE", name |-> name, len |-> 0]
FDT_PROP(name, len)  == [tag |-> "PROP", name |-> name, len |-> len]
FDT_END_NODE         == [tag |-> "END_NODE", name |-> "", len |-> 0]
FDT_NOP              == [tag |-> "NOP", name |-> "", len |-> 0]

\* The trees considered: properties of the root, then its children, each with
\* at most one property and perhaps a token to skip.
Node(name, props) == <<FDT_BEGIN_NODE(name)>> \o props \o <<FDT_END_NODE>>
PropLists == {<<>>} \cup {<<FDT_PROP(p, n)>> : p \in Props, n \in Lengths}
Children == {Node(name, props) : name \in Nodes, props \in PropLists}
              \cup {Node(name, <<FDT_NOP>>) : name \in Nodes}
Trees == {Node("", props \o FlattenSeq(kids)) :
            props \in PropLists, kids \in BoundedSeq(Children, MaxNodes)}

\* The queries of kernel_main and dtb_get_memory_info.
Path == IF pc = "framebuffer" THEN <<"", "chosen">> ELSE <<"", "memory">>
PropName == IF pc = "framebuffer" THEN "framebuffer" ELSE "reg"

\* dtb_get_property counts the slashes, without the one the path starts with.
target_depth == Len(Path) - 1 - (IF Path[1] = "" THEN 1 ELSE 0)

-----------------------------------------------------------------------------
Init ==
    /\ magic \in BOOLEAN
    /\ fdt \in Trees
    /\ pc = "dtb_init"
    /\ rest = <<>>
    /\ depth = 0
    /\ segment = 1
    /\ node_found = FALSE
    /\ heap = "none"

\* dtb_get_property begins: without the magic number it returns 0 at once,
\* which is the end of an empty structure block.
Query(at) ==
    /\ pc' = at
    /\ rest' = IF magic THEN fdt ELSE <<>>
    /\ depth' = 0
    /\ segment' = 1
    /\ node_found' = FALSE
    /\ UNCHANGED <<magic, fdt>>

dtb_init == pc = "dtb_init" /\ Query("framebuffer") /\ UNCHANGED heap

\* What kernel_main does with a property of length len, 0 for none: both
\* searches want 16 bytes.
Answer(len) ==
    \/ /\ pc = "framebuffer" /\ len >= 16
       /\ Query("memory")
       /\ UNCHANGED heap
    \/ /\ pc = "framebuffer" /\ len < 16
       /\ pc' = "panic"
       /\ UNCHANGED <<magic, fdt, rest, depth, segment, node_found, heap>>
    \/ /\ pc = "memory"
       /\ pc' = "running"
       /\ heap' = IF len >= 16 THEN "dtb" ELSE "default"
       /\ UNCHANGED <<magic, fdt, rest, depth, segment, node_found>>

Scanning(tag) == pc \in {"framebuffer", "memory"} /\ rest # <<>> /\ Head(rest).tag = tag
Skip == rest' = Tail(rest) /\ UNCHANGED <<magic, fdt, pc, heap>>

\* A node begins.  Its name is compared at one depth only, whichever segment
\* of the path is next.
BeginNode ==
    /\ Scanning("BEGIN_NODE")
    /\ Skip
    /\ depth' = depth + 1
    /\ IF ~node_found /\ depth' = target_depth + 1 /\ Head(rest).name = Path[segment]
       THEN IF segment < Len(Path)
            THEN /\ segment' = segment + 1
                 /\ node_found' = (segment' = Len(Path) /\ Path[segment'] = "")
            ELSE UNCHANGED segment /\ node_found' = TRUE
       ELSE UNCHANGED <<segment, node_found>>

\* The first node to end after the match ends the search.
EndNode ==
    /\ Scanning("END_NODE")
    /\ IF node_found THEN Answer(0)
       ELSE Skip /\ depth' = depth - 1 /\ UNCHANGED <<segment, node_found>>

Prop ==
    /\ Scanning("PROP")
    /\ IF node_found /\ Head(rest).name = PropName THEN Answer(Head(rest).len)
       ELSE Skip /\ UNCHANGED <<depth, segment, node_found>>

Nop == Scanning("NOP") /\ Skip /\ UNCHANGED <<depth, segment, node_found>>

\* FDT_END
End == pc \in {"framebuffer", "memory"} /\ rest = <<>> /\ Answer(0)

Next == dtb_init \/ BeginNode \/ EndNode \/ Prop \/ Nop \/ End

Spec == Init /\ [][Next]_vars

-----------------------------------------------------------------------------
\* The node of a name directly under the root has the property.
Has(name, prop) ==
    \E i, j \in DOMAIN fdt :
        /\ i < j
        /\ fdt[i] = FDT_BEGIN_NODE(name)
        /\ fdt[j].tag = "PROP" /\ fdt[j].name = prop /\ fdt[j].len >= 16
        /\ \A k \in i..j : fdt[k].tag # "END_NODE"

\* kernel_main panics only "if dtb info not found" (kernel.c:65): not with a
\* device tree whose /chosen node has the framebuffer property.
PanicsOnlyWithoutFramebuffer ==
    pc = "panic" => ~(magic /\ Has("chosen", "framebuffer"))
=============================================================================
