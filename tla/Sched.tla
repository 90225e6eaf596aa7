------------------------------- MODULE Sched -------------------------------
(***************************************************************************)
(* The scheduler, src/kern/sched/astral_sched.c, with what drives it: the  *)
(* end of kernel_main, the tasks' own calls of sched_yield and the timer   *)
(* interrupt (cpu/exceptions.s el1_irq, drivers/timer/timer.c).  One core  *)
(* runs; the bootloader parks the others.                                  *)
(*                                                                         *)
(* What executes is a continuation: whose code it is, and the frames on    *)
(* its stack, the last one executing.  The first frame is boot code or a   *)
(* task's code, a second one is the interrupt handler above it.  A task    *)
(* control block holds the continuation that context_switch saved in it.   *)
(*                                                                         *)
(* context_switch.s is seen from its caller here: it saves the running     *)
(* continuation in old_context and either resumes the one in new_context,  *)
(* as its comments say, or jumps to an address that is not one of the      *)
(* kernel's, as its instructions do.  Nothing is assumed of a wild jump.   *)
(***************************************************************************)
EXTENDS Integers, Sequences, FiniteSets

CONSTANTS MaxTasks,        \* MAX_TASKS
          Creates,         \* calls of sched_create_task in kernel_main
          MaxHandlers,     \* bound: interrupt handlers above one another
          SwitchOutcomes   \* what context_switch may do: "resume", "wild"

ASSUME SchedAssumption ==
    /\ MaxTasks \in Nat \ {0}
    /\ Creates \in Nat
    /\ MaxHandlers \in Nat \ {0}
    /\ SwitchOutcomes \subseteq {"resume", "wild"}

NULL  == 0
BOOT  == 0                 \* owner of kernel_main's code: no task
WILD  == -1                \* owner of whatever a wild jump executes
Tasks == 1 .. Creates      \* task k is the k-th that kernel_main creates
Slots == 0 .. (MaxTasks - 1)

VARIABLES
    task_list,             \* static tcb_t* task_list[MAX_TASKS]
    num_tasks,             \* static int num_tasks
    current_task_index,    \* static int current_task_index
    current_task,          \* static tcb_t* current_task
    sched_lock,            \* static spinlock_t sched_lock
    heap,                  \* what sched_create_task holds of kmalloc's memory
    created,               \* how often kernel_main has called it
    saved,                 \* task control block |-> continuation saved in it
    running,               \* the continuation on the core
    masked,                \* PSTATE.I: interrupts are masked
    ttbr0_el1,             \* the task whose page table is active
    timer_on,              \* whether the timer's interrupt reaches the core: the
                           \* kernel leaves the interrupt controller as it finds it
    raced                  \* history: an interrupt came after spinlock_release and
                           \* before context_switch in one sched_yield

vars == <<task_list, num_tasks, current_task_index, current_task, sched_lock,
          heap, created, saved, running, masked, ttbr0_el1, timer_on, raced>>

list == <<task_list, num_tasks, heap, created>>
observed == <<timer_on, raced>>

-----------------------------------------------------------------------------
Pcs == {"init", "create", "enable", "s_acquire", "s_locked", "s_start", "halt",
        "body", "y_acquire", "y_locked", "y_switch", "y_return"}

\* A frame: where it is, and old_context and new_context of sched_yield.
Frame(pc) == [pc |-> pc, old |-> NULL, new |-> NULL]

Fresh(t) == [owner |-> t, frames |-> <<Frame("body")>>]
Boot     == [owner |-> BOOT, frames |-> <<Frame("init")>>]
Wild     == [owner |-> WILD, frames |-> <<>>]

Depth     == Len(running.frames)
Top       == running.frames[Depth]
At(pc)    == Depth > 0 /\ Top.pc = pc
InHandler == Depth > 1

\* The running continuation with its executing frame replaced.
WithTop(frame) == [running EXCEPT !.frames = [@ EXCEPT ![Depth] = frame]]
Goto(pc) == running' = WithTop(Frame(pc))

\* Slip: the interrupted code goes on with interrupts masked.
ReturnStaysMasked ==
    /\ IF InHandler
       THEN running' = [running EXCEPT !.frames = SubSeq(@, 1, Depth - 1)]
       ELSE Goto(IF running.owner = BOOT THEN "halt" ELSE "body")
    /\ UNCHANGED masked

\* Where sched_yield returns to.  From the interrupt handler to the code it
\* interrupted, by eret, which unmasks interrupts again; from a task's call to
\* its loop; from sched_schedule to kernel_main's final loop, which masks
\* interrupts and waits for ever.
Return ==
    \/ /\ InHandler
       /\ running' = [running EXCEPT !.frames = SubSeq(@, 1, Depth - 1)]
       /\ masked' = FALSE
    \/ /\ ~InHandler
       /\ Goto(IF running.owner = BOOT THEN "halt" ELSE "body")
       /\ masked' = (masked \/ running.owner = BOOT)

-----------------------------------------------------------------------------
Init ==
    /\ task_list = [i \in Slots |-> NULL]
    /\ num_tasks = 0
    /\ current_task_index = -1
    /\ current_task = NULL
    /\ sched_lock = 0
    /\ heap = {}
    /\ created = 0
    /\ saved = [t \in {NULL} \cup Tasks |-> Fresh(t)]
    /\ running = Boot
    /\ masked = TRUE
    /\ ttbr0_el1 = NULL
    /\ timer_on \in BOOLEAN
    /\ raced = FALSE

sched_init ==
    /\ At("init")
    /\ task_list' = [i \in Slots |-> NULL]
    /\ num_tasks' = 0
    /\ current_task_index' = -1
    /\ sched_lock' = 0
    /\ Goto("create")
    /\ UNCHANGED <<current_task, heap, created, saved, masked, ttbr0_el1, observed>>

\* The first k of the three pieces of memory that task t asks kmalloc for,
\* and what sched_create_task gives back when the next one is refused.
Allocated(t, k) ==
    {<<"tcb", t>> : x \in 1 .. k} \cup {<<"stack", t>> : x \in 2 .. k}
        \cup {<<"pagetable", t>> : x \in 3 .. k}

\* Slip: the stack is not given back when there is no page table.
ReturnedForgetsStack(t, k) == IF k \in {1, 2} THEN {<<"tcb", t>>} ELSE {}

Returned(t, k) ==
    CASE k = 1 -> {<<"tcb", t>>}
      [] k = 2 -> {<<"stack", t>>, <<"tcb", t>>}
      [] OTHER -> {}

\* Slip: the limit is off by one.
HasRoom_OneTooMany == num_tasks <= MaxTasks

\* sched_add_task lists the task.
HasRoom == num_tasks < MaxTasks

\* sched_create_task, of which k allocations succeed; with all three it ends
\* in sched_add_task, which lists the task, or returns without a word when
\* the list is full.  Interrupts are still masked: it runs in one step.
sched_create_task(k) ==
    LET t     == created + 1
        added == k = 3 /\ HasRoom
    IN  /\ At("create") /\ created < Creates
        /\ created' = t
        /\ heap' = (heap \cup Allocated(t, k)) \ Returned(t, k)
        /\ saved' = [saved EXCEPT ![t] = Fresh(t)]
        /\ task_list' = IF added THEN [task_list EXCEPT ![num_tasks] = t] ELSE task_list
        /\ num_tasks' = IF added THEN num_tasks + 1 ELSE num_tasks
        /\ Goto("create")
        /\ UNCHANGED <<current_task_index, current_task, sched_lock, masked, ttbr0_el1,
                       observed>>

\* timer_init, timer_enable_interrupt, cpu_enable_interrupts
cpu_enable_interrupts ==
    /\ At("create") /\ created = Creates
    /\ Goto("s_acquire")
    /\ masked' = FALSE
    /\ UNCHANGED <<list, current_task_index, current_task, sched_lock, saved, ttbr0_el1,
                   observed>>

-----------------------------------------------------------------------------
\* spinlock_acquire: the exclusive load and store succeed only on a free
\* lock; until then the caller spins.
spinlock_acquire(from, to) ==
    /\ At(from)
    /\ sched_lock = 0
    /\ sched_lock' = 1
    /\ Goto(to)
    /\ UNCHANGED <<list, current_task_index, current_task, saved, masked, ttbr0_el1,
                   observed>>

\* Slip: the store is missing.
spinlock_release_Nothing == UNCHANGED sched_lock

spinlock_release == sched_lock' = 0

\* sched_schedule under the lock, up to spinlock_release.
sched_schedule ==
    /\ At("s_locked")
    /\ spinlock_release
    /\ IF num_tasks = 0
       THEN /\ Goto("halt")
            /\ masked' = TRUE
            /\ UNCHANGED <<current_task_index, current_task, ttbr0_el1>>
       ELSE IF current_task = NULL
       THEN /\ current_task_index' = 0
            /\ current_task' = task_list[0]
            /\ ttbr0_el1' = task_list[0]
            /\ Goto("s_start")
            /\ UNCHANGED masked
       ELSE /\ Goto("y_acquire")
            /\ UNCHANGED <<current_task_index, current_task, ttbr0_el1, masked>>
    /\ UNCHANGED <<list, saved, observed>>

\* sched_schedule loads sp and x30 of the current task and branches: the
\* task's first instruction, unless an interrupt has overwritten its context.  The
\* loads and the branch are one step.
StartFirstTask ==
    /\ At("s_start")
    /\ running' = IF saved[current_task] = Fresh(current_task)
                  THEN Fresh(current_task) ELSE Wild
    /\ UNCHANGED <<list, current_task_index, current_task, sched_lock, saved,
                   masked, ttbr0_el1, observed>>

-----------------------------------------------------------------------------
\* A task's loop calls sched_yield.
TaskYields ==
    /\ At("body")
    /\ Goto("y_acquire")
    /\ UNCHANGED <<list, current_task_index, current_task, sched_lock, saved,
                   masked, ttbr0_el1, observed>>

\* The timer interrupts whatever runs with interrupts unmasked; the handler,
\* el1_irq and timer_handle_interrupt, calls sched_yield.
TimerInterrupt ==
    /\ timer_on
    /\ ~masked
    /\ Depth \in 1 .. MaxHandlers
    /\ masked' = TRUE
    /\ running' = [running EXCEPT !.frames = Append(@, Frame("y_acquire"))]
    /\ raced' = (raced \/ At("y_switch"))
    /\ UNCHANGED <<list, current_task_index, current_task, sched_lock, saved, ttbr0_el1,
                   timer_on>>

\* Slip: the index wraps one task early.
NextIndex_WrapsEarly == (current_task_index + 1) % (num_tasks - 1)

NextIndex == (current_task_index + 1) % num_tasks

\* Slip: the page table is read before current_task moves on.
NextTable_Old == current_task

\* The task whose page table sched_yield loads.
NextTable == task_list[NextIndex]

\* Slip: the old task is looked up when current_task is the next one already.
OldTask_Late == task_list[NextIndex]

\* The task in whose control block sched_yield has the context saved.
OldTask == current_task

\* sched_yield under the lock, up to spinlock_release.
sched_yield ==
    /\ At("y_locked")
    /\ spinlock_release
    /\ \/ /\ num_tasks <= 1
          /\ Return
          /\ UNCHANGED <<current_task_index, current_task, ttbr0_el1>>
       \/ /\ num_tasks > 1
          /\ current_task_index' = NextIndex
          /\ current_task' = task_list[NextIndex]
          /\ ttbr0_el1' = NextTable
          /\ running' = WithTop([pc |-> "y_switch", old |-> OldTask,
                                 new |-> task_list[NextIndex]])
          /\ UNCHANGED masked
    /\ UNCHANGED <<list, saved, observed>>

\* context_switch(old_context, new_context).  It does not touch PSTATE.
context_switch ==
    /\ At("y_switch")
    /\ saved' = [saved EXCEPT ![Top.old] = WithTop(Frame("y_return"))]
    /\ \/ "resume" \in SwitchOutcomes /\ running' = saved'[Top.new]
       \/ "wild" \in SwitchOutcomes /\ running' = Wild
    /\ UNCHANGED <<list, current_task_index, current_task, sched_lock, masked, ttbr0_el1,
                   observed>>

\* A resumed sched_yield returns.
YieldReturns ==
    /\ At("y_return")
    /\ Return
    /\ UNCHANGED <<list, current_task_index, current_task, sched_lock, saved, ttbr0_el1,
                   observed>>

-----------------------------------------------------------------------------
\* What the running code does by itself.
Execute ==
    \/ sched_init \/ (\E k \in 0 .. 3 : sched_create_task(k))
    \/ cpu_enable_interrupts
    \/ spinlock_acquire("s_acquire", "s_locked") \/ sched_schedule \/ StartFirstTask
    \/ TaskYields
    \/ spinlock_acquire("y_acquire", "y_locked") \/ sched_yield \/ context_switch \/ YieldReturns

Next == Execute \/ TimerInterrupt

Spec == Init /\ [][Next]_vars

\* The core keeps executing instructions.
FairSpec == Spec /\ WF_vars(Execute)

-----------------------------------------------------------------------------
IsContinuation(c) ==
    /\ c.owner \in Tasks \cup {BOOT, WILD}
    /\ c.frames \in Seq([pc : Pcs, old : Tasks \cup {NULL}, new : Tasks \cup {NULL}])
    /\ Len(c.frames) <= MaxHandlers + 1

\* Types of the scheduler's state.
TypeOK ==
    /\ task_list \in [Slots -> Tasks \cup {NULL}]
    /\ num_tasks \in 0 .. MaxTasks
    /\ current_task_index \in -1 .. (MaxTasks - 1)
    /\ current_task \in Tasks \cup {NULL}
    /\ sched_lock \in {0, 1}
    /\ heap \subseteq {"tcb", "stack", "pagetable"} \X Tasks
    /\ created \in 0 .. Creates
    /\ IsContinuation(running)
    /\ \A t \in {NULL} \cup Tasks : IsContinuation(saved[t])
    /\ masked \in BOOLEAN
    /\ ttbr0_el1 \in Tasks \cup {NULL}
    /\ timer_on \in BOOLEAN /\ raced \in BOOLEAN

\* Frames of a continuation that are between acquiring and releasing the lock.
InCritical(c) == {i \in DOMAIN c.frames : c.frames[i].pc \in {"s_locked", "y_locked"}}

\* sched_lock is taken exactly while one frame of the running code is between
\* spinlock_acquire and spinlock_release (astral_sched.c:60-71, 85-98): an
\* interrupt handler above such a frame does not get in as well, and no task
\* is ever switched out while it holds the lock.
LockHeldByOne ==
    /\ sched_lock = Cardinality(InCritical(running))
    /\ \A t \in DOMAIN saved : InCritical(saved[t]) = {}

\* Interrupt handlers that were entered and have not returned: above the
\* running code (counted as WILD, which is no task control block), or in
\* the context of code that is switched out.
Outstanding ==
    {t \in DOMAIN saved \ {running.owner} : Len(saved[t].frames) > 1}
        \cup (IF InHandler THEN {WILD} ELSE {})

\* As long as every context is in its own task control block: once
\* kernel_main has enabled interrupts, they are masked exactly while one
\* handler has been entered and has not returned, whichever tasks run in
\* between.  Entry masks (el1_irq), eret unmasks, context_switch does neither.
\* So a task that a timer tick switched to runs with preemption off until the
\* interrupted code is resumed, and handlers never nest.
MaskedByOneHandler ==
    (\A t \in Tasks : saved[t].owner = t)
        /\ Depth > 0 /\ ~At("init") /\ ~At("create") /\ ~At("halt") =>
            /\ Depth <= 2
            /\ Cardinality(Outstanding) = IF masked THEN 1 ELSE 0

\* Whenever the lock is free, the current task is the one at the current
\* index of the list, and its page table is the active one: the three are
\* updated together (astral_sched.c:68-70, 93-97).
CurrentIsConsistent ==
    sched_lock = 0 /\ current_task # NULL =>
        /\ current_task_index < num_tasks
        /\ current_task = task_list[current_task_index]
        /\ ttbr0_el1 = current_task

\* Memory of a task that is not on the list is given back, whichever of its
\* allocations failed (astral_sched.c:104-123), unless the list was full:
\* then sched_add_task drops the task and its memory (:50-53).
LeaksOnlyWhenFull ==
    \A t \in Tasks :
        (\E m \in heap : m[2] = t) /\ (\A i \in Slots : task_list[i] # t)
            => num_tasks = MaxTasks

\* Round robin: when tasks yield by themselves and context_switch does what
\* its comments say, every listed task runs again and again.
EveryTaskRuns ==
    [](~timer_on /\ running.owner # WILD) =>
        \A t \in Tasks :
            (\E i \in Slots : task_list[i] = t) ~> (running.owner = t /\ At("body"))

\* A timer interrupt's call of sched_yield gets past the lock: the handler
\* never waits for the code that it interrupted.
TimerGetsThrough ==
    (InHandler /\ At("y_acquire")) ~> ~(InHandler /\ At("y_acquire"))

\* context_switch saves a task's context in that task's own control block,
\* however timer interrupts fall, unless one of them came in the window of
\* sched_yield in which the lock is free, current_task is the next task and the
\* old one is not saved (astral_sched.c:98-99).
SavesOwnContext ==
    At("y_switch") /\ running.owner \in Tasks /\ ~raced => Top.old = running.owner
=============================================================================
