---------------------------- MODULE ContextSwitch ----------------------------
(***************************************************************************)
(* context_switch(old_context, new_context), src/kern/cpu/context_switch.s,*)
(* instruction by instruction, when sched_yield switches from a running    *)
(* task to one that sched_create_task has prepared and that has not run.   *)
(*                                                                         *)
(* Memory is a function of word addresses, eight bytes each: the running   *)
(* task's control block with the heap behind it, the new task's, and the   *)
(* code of the new task's function.  Words that nothing is known of, the   *)
(* instructions of that function among them, are 0.                        *)
(***************************************************************************)
EXTENDS Integers

CONSTANTS old_context, new_context,  \* addresses of the two contexts
          Function,  \* address of the new task's function
          Stack      \* the stack pointer sched_create_task gave the new task

Memory == 0 .. (Function + 40)

\* Words of cpu_context_t: sp, lr, x19 to x28, fp.
SP == 0
LR == 1
FP == 12

VARIABLES
    x,               \* general registers x0 to x30
    special,         \* sp_el0, elr_el1, spsr_el1
    mem,
    pc,              \* "save", "save_special", "restore", "restore_special", "returned"
    pair             \* the number of the next register pair

vars == <<x, special, mem, pc, pair>>

\* The running task's registers are told apart by value; x0 and x1 are the
\* arguments.
Init ==
    /\ x = [r \in 0 .. 30 |-> CASE r = 0 -> old_context [] r = 1 -> new_context
                                [] OTHER -> 100 + r]
    /\ special = <<131, 132, 133>>
    /\ mem = [a \in Memory |-> CASE a \in {new_context + SP, new_context + FP} -> Stack
                                 [] a = new_context + LR -> Function
                                 [] OTHER -> 0]
    /\ pc = "save"
    /\ pair = 0

\* stp x0, x1, [x0, #0] to str x30, [x0, #240]
Save ==
    /\ pc = "save"
    /\ mem' = [a \in Memory |-> IF a - x[0] \in {2 * pair, 2 * pair + 1} \cap (0 .. 30)
                                THEN x[a - x[0]] ELSE mem[a]]
    /\ IF pair < 15 THEN pair' = pair + 1 /\ UNCHANGED pc
                    ELSE pair' = 0 /\ pc' = "save_special"
    /\ UNCHANGED <<x, special>>

\* sp_el0, elr_el1 and spsr_el1, through x10
SaveSpecial ==
    /\ pc = "save_special"
    /\ mem' = [a \in Memory |-> IF a - x[0] \in 31 .. 33 THEN special[a - x[0] - 30] ELSE mem[a]]
    /\ x' = [x EXCEPT ![10] = special[3]]
    /\ pc' = "restore"
    /\ UNCHANGED <<special, pair>>

\* What a load from an address gives; nothing is known of most of memory.
Load(a) == IF a \in Memory THEN mem[a] ELSE 0

\* ldp x0, x1, [x1, #0] to ldr x30, [x1, #240]: x1 is the base, and the first
\* of the loads replaces it.
Restore ==
    /\ pc = "restore"
    /\ x' = [r \in 0 .. 30 |-> IF r \in {2 * pair, 2 * pair + 1} THEN Load(x[1] + r) ELSE x[r]]
    /\ IF pair < 15 THEN pair' = pair + 1 /\ UNCHANGED pc
                    ELSE pair' = 0 /\ pc' = "restore_special"
    /\ UNCHANGED <<special, mem>>

RestoreSpecial ==
    /\ pc = "restore_special"
    /\ special' = [s \in 1 .. 3 |-> Load(x[1] + 30 + s)]
    /\ x' = [x EXCEPT ![10] = special'[3]]
    /\ pc' = "returned"
    /\ UNCHANGED <<mem, pair>>

Next == Save \/ SaveSpecial \/ Restore \/ RestoreSpecial

Spec == Init /\ [][Next]_vars

\* context_switch.s:29 says "restore new context (new_context)": it returns to
\* the address that the new context holds in lr.
ReturnsToNewContext == pc = "returned" => x[30] = Function
=============================================================================
