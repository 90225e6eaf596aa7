---------------------------- MODULE SchedProofs ----------------------------
(***************************************************************************)
(* Proofs about the scheduler (Sched), for every number of tasks and of    *)
(* calls of sched_create_task, every depth of handlers and either outcome  *)
(* of context_switch.                                                      *)
(***************************************************************************)
EXTENDS Sched, SequenceTheorems, FiniteSetTheorems, TLAPS

Contexts == {NULL} \cup Tasks
Frames   == [pc : Pcs, old : Contexts, new : Contexts]
Conts    == [owner : Contexts \cup {WILD}, frames : Seq(Frames)]

-----------------------------------------------------------------------------
(* The inductive invariant.                                                *)

\* TypeOK, and that continuations are records and saved is a function.
TypeInv ==
    /\ TypeOK
    /\ running \in Conts
    /\ saved \in [Contexts -> Conts]

BootPcs    == {"init", "create", "s_acquire", "s_locked", "s_start", "halt"}
QuietPcs   == {"init", "create", "halt"}
HandlerPcs == {"y_acquire", "y_locked", "y_switch", "y_return"}

\* A handler is in sched_yield; kernel_main's code is its own, and is not
\* interrupted before interrupts are enabled or once they are off for good;
\* sched_yield switches to a task, and away from none only in kernel_main.
FramesOK(c) ==
    \A i \in 1 .. Len(c.frames) :
        /\ c.owner # WILD
        /\ i > 1 => c.frames[i].pc \in HandlerPcs
        /\ c.frames[i].pc \in BootPcs => c.owner = BOOT
        /\ i < Len(c.frames) => c.frames[i].pc \notin QuietPcs
        /\ c.frames[i].pc = "y_switch" => /\ c.frames[i].new \in Tasks
                                          /\ c.frames[i].old = NULL => c.owner = BOOT

\* What a control block holds: a task that has not started, or one inside the
\* call of context_switch.
SavedOK(c) ==
    /\ FramesOK(c)
    /\ Len(c.frames) > 0
    /\ c.frames[Len(c.frames)].pc \in {"body", "y_return"}

ShapeInv ==
    /\ FramesOK(running)
    /\ \A t \in Contexts : SavedOK(saved[t])
    /\ saved[NULL].owner = BOOT

\* The list is filled from the front.
ListInv ==
    /\ \A i \in Slots : task_list[i] \in Tasks <=> i < num_tasks
    /\ heap \subseteq {"tcb", "stack", "pagetable"} \X (1 .. created)

\* Until sched_schedule or a handler has chosen a task, nothing was switched.
StartInv ==
    /\ At("init") => created = 0 /\ heap = {}
    /\ At("init") \/ At("create") => current_task = NULL
    /\ At("init") \/ At("create") \/ At("halt") => masked
    /\ current_task = NULL =>
         /\ running.owner = BOOT
         /\ \A i \in 1 .. Depth : running.frames[i].pc \notin {"s_start", "y_switch"}
         /\ \A t \in Contexts : saved[t] = Fresh(t)

\* Whatever is above the frame that holds the lock waits for it.
LockInv ==
    /\ \/ sched_lock = 0 /\ InCritical(running) = {}
       \/ sched_lock = 1 /\ \E i \in 1 .. Depth :
            /\ InCritical(running) = {i}
            /\ \A j \in (i + 1) .. Depth : running.frames[j].pc = "y_acquire"
    /\ \A t \in Contexts : InCritical(saved[t]) = {}

CurrentInv ==
    current_task # NULL =>
        /\ current_task_index \in 0 .. (num_tasks - 1)
        /\ current_task = task_list[current_task_index]
        /\ ttbr0_el1 = current_task

\* Once a context is overwritten by another one, no copy of it is left.
AllOwn  == \A t \in Tasks : saved[t].owner = t
Gone(t) == running.owner # t /\ \A u \in Contexts : saved[u].owner # t
OwnInv  == AllOwn \/ \E t \in Tasks : Gone(t)

\* MaskedByOneHandler, with the one handler named; kernel_main's own context is
\* not saved before it is left for good.
MaskInv ==
    AllOwn /\ Depth > 0 =>
        /\ Depth <= 2 /\ \A t \in Contexts : Len(saved[t].frames) <= 2
        /\ running.owner = BOOT => saved[NULL] = Fresh(NULL)
        /\ ~At("init") /\ ~At("create") /\ ~At("halt") =>
             \/ ~masked /\ Outstanding = {}
             \/ masked /\ \E h \in Contexts \cup {WILD} : Outstanding = {h}

\* Without an interrupt in the window, the task that runs is the current one,
\* outside the window, and the old one inside it.
RaceInv == ~raced =>
    /\ \A i \in 1 .. (Depth - 1) : running.frames[i].pc # "y_switch"
    /\ \A t \in Contexts : \A i \in 1 .. Len(saved[t].frames) :
                              saved[t].frames[i].pc # "y_switch"
    /\ \A t \in Tasks : saved[t].owner \in {t, BOOT}
    /\ running.owner \in Tasks /\ ~At("y_switch") => current_task = running.owner
    /\ At("y_switch") => /\ Top.new = current_task
                         /\ running.owner \in Tasks => Top.old = running.owner

BaseInv == TypeInv /\ ShapeInv /\ ListInv /\ StartInv

-----------------------------------------------------------------------------
(* What an action does to the running continuation.                        *)

\* d is c with its executing frame replaced by f, with f above it, without it.
Replaced(d, c, f) ==
    /\ d \in Conts
    /\ d.owner = c.owner
    /\ Len(d.frames) = Len(c.frames)
    /\ d.frames[Len(c.frames)] = f
    /\ \A i \in 1 .. Len(c.frames) : i # Len(c.frames) => d.frames[i] = c.frames[i]

Pushed(d, c, f) ==
    /\ d \in Conts
    /\ d.owner = c.owner
    /\ Len(d.frames) = Len(c.frames) + 1
    /\ d.frames[Len(c.frames) + 1] = f
    /\ \A i \in 1 .. Len(c.frames) : d.frames[i] = c.frames[i]

Popped(d, c) ==
    /\ d \in Conts
    /\ d.owner = c.owner
    /\ Len(d.frames) = Len(c.frames) - 1
    /\ \A i \in 1 .. (Len(c.frames) - 1) : d.frames[i] = c.frames[i]

LEMMA ConstantFacts ==
    /\ Tasks \subseteq Nat \ {0}
    /\ Contexts \subseteq Nat /\ NULL = 0 /\ BOOT = 0 /\ WILD = -1
    /\ WILD \notin Contexts /\ BOOT \in Contexts /\ NULL \notin Tasks
    /\ MaxTasks \in Nat /\ MaxTasks > 0 /\ Creates \in Nat /\ MaxHandlers \in Nat
    /\ MaxHandlers > 0
BY SchedAssumption DEF Tasks, Contexts, NULL, BOOT, WILD

LEMMA FrameFacts ==
    ASSUME NEW pc \in Pcs
    PROVE  /\ Frame(pc) \in Frames /\ Frame(pc).pc = pc
           /\ Frame(pc).old = NULL /\ Frame(pc).new = NULL
BY DEF Frame, Frames, Contexts

LEMMA ReplaceTop ==
    ASSUME NEW c \in Conts, Len(c.frames) > 0, NEW f \in Frames
    PROVE  Replaced([c EXCEPT !.frames = [@ EXCEPT ![Len(c.frames)] = f]], c, f)
<1> DEFINE s == [c.frames EXCEPT ![Len(c.frames)] = f]
<1>1. c.frames \in Seq(Frames) /\ Len(c.frames) \in 1 .. Len(c.frames)
  BY DEF Conts
<1>2. /\ s \in Seq(Frames) /\ Len(s) = Len(c.frames)
      /\ \A i \in 1 .. Len(c.frames) : s[i] = IF i = Len(c.frames) THEN f ELSE c.frames[i]
  BY <1>1, ExceptSeq
<1>3. [c EXCEPT !.frames = [@ EXCEPT ![Len(c.frames)] = f]] = [c EXCEPT !.frames = s]
  OBVIOUS
<1> HIDE DEF s
<1> QED
  BY <1>1, <1>2, <1>3 DEF Replaced, Conts

LEMMA PushTop ==
    ASSUME NEW c \in Conts, NEW f \in Frames
    PROVE  Pushed([c EXCEPT !.frames = Append(@, f)], c, f)
<1> DEFINE s == Append(c.frames, f)
<1>1. c.frames \in Seq(Frames)
  BY DEF Conts
<1>2. /\ s \in Seq(Frames) /\ Len(s) = Len(c.frames) + 1
      /\ s[Len(c.frames) + 1] = f
      /\ \A i \in 1 .. Len(c.frames) : s[i] = c.frames[i]
  BY <1>1, AppendProperties
<1>3. [c EXCEPT !.frames = Append(@, f)] = [c EXCEPT !.frames = s]
  OBVIOUS
<1> HIDE DEF s
<1> QED
  BY <1>1, <1>2, <1>3 DEF Pushed, Conts

LEMMA PopTop ==
    ASSUME NEW c \in Conts, Len(c.frames) > 1
    PROVE  Popped([c EXCEPT !.frames = SubSeq(@, 1, Len(c.frames) - 1)], c)
<1> DEFINE s == SubSeq(c.frames, 1, Len(c.frames) - 1)
<1>1. c.frames \in Seq(Frames) /\ Len(c.frames) \in Nat
  BY DEF Conts
<1>2. \A i \in 1 .. (Len(c.frames) - 1) : c.frames[i] \in Frames
  BY <1>1, ElementOfSeq
<1>3. /\ s \in Seq(Frames) /\ Len(s) = Len(c.frames) - 1
      /\ \A i \in 1 .. (Len(c.frames) - 1) : s[i] = c.frames[i]
  BY <1>1, <1>2, SubSeqProperties
<1>4. [c EXCEPT !.frames = SubSeq(@, 1, Len(c.frames) - 1)] = [c EXCEPT !.frames = s]
  OBVIOUS
<1> HIDE DEF s
<1> QED
  BY <1>1, <1>3, <1>4 DEF Popped, Conts

LEMMA FreshFacts ==
    ASSUME NEW t \in Contexts
    PROVE  /\ Fresh(t) \in Conts /\ Fresh(t).owner = t
           /\ Len(Fresh(t).frames) = 1 /\ Fresh(t).frames[1].pc = "body"
           /\ SavedOK(Fresh(t))
<1>1. Frame("body") \in Frames /\ Frame("body").pc = "body"
  BY FrameFacts DEF Pcs
<1>2. /\ Fresh(t) \in Conts /\ Fresh(t).owner = t
      /\ Len(Fresh(t).frames) = 1 /\ Fresh(t).frames[1] = Frame("body")
  BY <1>1 DEF Fresh, Conts
<1> QED
  BY <1>1, <1>2, ConstantFacts DEF SavedOK, FramesOK, BootPcs, QuietPcs

LEMMA FreshDepth ==
    \A t \in Contexts : /\ Fresh(t).owner = t
                        /\ Len(Fresh(t).frames) <= 2 /\ ~(Len(Fresh(t).frames) > 1)
<1> SUFFICES ASSUME NEW t \in Contexts
             PROVE  /\ Fresh(t).owner = t
                    /\ Len(Fresh(t).frames) <= 2 /\ ~(Len(Fresh(t).frames) > 1)
  OBVIOUS
<1>1. Len(Fresh(t).frames) = 1 /\ Fresh(t).owner = t
  BY FreshFacts
<1> QED
  BY <1>1

LEMMA WildFacts ==
    /\ Wild \in Conts /\ Wild.owner = WILD /\ Len(Wild.frames) = 0
BY DEF Wild, Conts

LEMMA ContFacts ==
    ASSUME NEW c \in Conts
    PROVE  /\ c.owner \in Contexts \cup {WILD}
           /\ Len(c.frames) \in Nat
           /\ DOMAIN c.frames = 1 .. Len(c.frames)
           /\ \A i \in 1 .. Len(c.frames) : c.frames[i] \in Frames
           /\ Len(c.frames) <= MaxHandlers + 1 <=> IsContinuation(c)
<1>1. c.owner \in Contexts \cup {WILD} /\ c.frames \in Seq(Frames)
  BY DEF Conts
<1>2. /\ Len(c.frames) \in Nat /\ DOMAIN c.frames = 1 .. Len(c.frames)
      /\ \A i \in 1 .. Len(c.frames) : c.frames[i] \in Frames
  BY <1>1, LenProperties, ElementOfSeq
<1>3. /\ Contexts \cup {WILD} = Tasks \cup {BOOT, WILD}
      /\ Frames = [pc : Pcs, old : Tasks \cup {NULL}, new : Tasks \cup {NULL}]
  BY ConstantFacts DEF Contexts, Frames
<1> QED
  BY <1>1, <1>2, <1>3 DEF IsContinuation

LEMMA GotoFacts ==
    ASSUME running \in Conts, Depth > 0, NEW pc \in Pcs, Goto(pc)
    PROVE  Replaced(running', running, Frame(pc))
BY ReplaceTop, FrameFacts DEF Goto, WithTop, Depth

LEMMA ReturnFacts ==
    ASSUME running \in Conts, masked \in BOOLEAN, Depth > 0, Return
    PROVE  \/ /\ Depth > 1 /\ Popped(running', running) /\ masked' = FALSE
           \/ /\ Depth = 1 /\ running.owner = BOOT
              /\ Goto("halt") /\ masked' = TRUE
           \/ /\ Depth = 1 /\ running.owner # BOOT
              /\ Goto("body") /\ masked' = masked
<1>1. Depth \in Nat
  BY ContFacts DEF Depth
<1>2. CASE InHandler
  BY <1>2, PopTop DEF Return, InHandler, Depth
<1>3. CASE ~InHandler /\ running.owner = BOOT
  <2>1. Goto("halt") /\ masked' = TRUE
    BY <1>3 DEF Return
  <2> QED
    BY <1>1, <1>3, <2>1 DEF InHandler
<1>4. CASE ~InHandler /\ running.owner # BOOT
  <2>1. Goto("body") /\ masked' = masked
    BY <1>4, Zenon DEF Return
  <2> QED
    BY <1>1, <1>4, <2>1 DEF InHandler
<1> QED
  BY <1>2, <1>3, <1>4

\* The branch of sched_yield that chooses another task.
Switching ==
    /\ num_tasks > 1
    /\ current_task_index' = NextIndex
    /\ current_task' = task_list[NextIndex]
    /\ ttbr0_el1' = task_list[NextIndex]
    /\ Replaced(running', running,
                [pc |-> "y_switch", old |-> current_task, new |-> task_list[NextIndex]])
    /\ UNCHANGED masked

LEMMA YieldFacts ==
    ASSUME TypeInv, ListInv, sched_yield
    PROVE  /\ At("y_locked") /\ sched_lock' = 0
           /\ UNCHANGED <<task_list, num_tasks, heap, created, saved, timer_on, raced>>
           /\ \/ Return /\ UNCHANGED <<current_task_index, current_task, ttbr0_el1>>
              \/ /\ Switching
                 /\ NextIndex \in 0 .. (num_tasks - 1) /\ NextIndex \in Slots
                 /\ task_list[NextIndex] \in Tasks
<1>1. /\ At("y_locked") /\ sched_lock' = 0
      /\ UNCHANGED <<task_list, num_tasks, heap, created, saved, timer_on, raced>>
  BY DEF sched_yield, spinlock_release, list, observed
<1>2. CASE num_tasks <= 1
  <2>1. num_tasks \in Int
    BY DEF TypeInv, TypeOK
  <2> QED
    BY <1>1, <1>2, <2>1 DEF sched_yield
<1>3. CASE num_tasks > 1
  <2>1. num_tasks \in 0 .. MaxTasks /\ current_task_index \in -1 .. (MaxTasks - 1)
    BY DEF TypeInv, TypeOK
  <2>2. NextIndex \in 0 .. (num_tasks - 1) /\ NextIndex \in Slots
    BY <1>3, <2>1, ConstantFacts DEF NextIndex, Slots
  <2>3. task_list[NextIndex] \in Tasks
    BY <2>1, <2>2 DEF ListInv
  <2> DEFINE f == [pc |-> "y_switch", old |-> current_task, new |-> task_list[NextIndex]]
  <2>4. f \in Frames
    BY <2>3 DEF Frames, Pcs, Contexts, TypeInv, TypeOK
  <2>5. running' = WithTop(f)
    BY <1>3, <2>1 DEF sched_yield, OldTask
  <2> HIDE DEF f
  <2>6. Replaced(running', running, f)
    BY <1>1, <2>4, <2>5, ReplaceTop DEF WithTop, Depth, At, TypeInv
  <2>7. Switching
    BY <1>3, <2>1, <2>6 DEF Switching, sched_yield, NextTable, f
  <2> QED
    BY <1>1, <2>2, <2>3, <2>7
<1> QED
  BY <1>2, <1>3 DEF TypeInv, TypeOK

\* What context_switch leaves in the control block it saves to.
LEMMA SwitchFacts ==
    ASSUME TypeInv, context_switch
    PROVE  /\ At("y_switch") /\ Top \in Frames
           /\ \E c \in Conts : /\ Replaced(c, running, Frame("y_return"))
                               /\ saved' = [saved EXCEPT ![Top.old] = c]
           /\ running' = saved'[Top.new] \/ running' = Wild
           /\ UNCHANGED <<task_list, num_tasks, heap, created, current_task_index, current_task,
                          sched_lock, masked, ttbr0_el1, timer_on, raced>>
<1>1. At("y_switch")
  BY DEF context_switch
<1>2. Top \in Frames
  BY <1>1, ContFacts DEF At, Top, Depth, TypeInv
<1>3. Replaced(WithTop(Frame("y_return")), running, Frame("y_return"))
  BY <1>1, ReplaceTop, FrameFacts DEF WithTop, At, Depth, TypeInv, Pcs
<1>4. WithTop(Frame("y_return")) \in Conts
  BY <1>3 DEF Replaced
<1> QED
  BY <1>1, <1>2, <1>3, <1>4 DEF context_switch, list, observed

-----------------------------------------------------------------------------
(* Shapes of continuations.                                                *)

LEMMA ReplacedShape ==
    ASSUME NEW c \in Conts, NEW d, NEW f \in Frames, Len(c.frames) > 0,
           FramesOK(c), Replaced(d, c, f),
           Len(c.frames) > 1 => f.pc \in HandlerPcs,
           f.pc \in BootPcs => c.owner = BOOT,
           f.pc = "y_switch" => f.new \in Tasks /\ (f.old = NULL => c.owner = BOOT)
    PROVE  FramesOK(d)
<1>1. Len(c.frames) \in Nat
  BY ContFacts
<1> SUFFICES ASSUME NEW i \in 1 .. Len(d.frames)
             PROVE  /\ d.owner # WILD
                    /\ i > 1 => d.frames[i].pc \in HandlerPcs
                    /\ d.frames[i].pc \in BootPcs => d.owner = BOOT
                    /\ i < Len(d.frames) => d.frames[i].pc \notin QuietPcs
                    /\ d.frames[i].pc = "y_switch" =>
                         /\ d.frames[i].new \in Tasks
                         /\ d.frames[i].old = NULL => d.owner = BOOT
  BY DEF FramesOK
<1>2. CASE i = Len(c.frames)
  BY <1>1, <1>2 DEF Replaced, FramesOK
<1>3. CASE i # Len(c.frames)
  BY <1>1, <1>3 DEF Replaced, FramesOK
<1> QED
  BY <1>2, <1>3

LEMMA PushedShape ==
    ASSUME NEW c \in Conts, NEW d, Len(c.frames) > 0,
           FramesOK(c), Pushed(d, c, Frame("y_acquire")),
           c.frames[Len(c.frames)].pc \notin QuietPcs
    PROVE  FramesOK(d)
<1>1. Len(c.frames) \in Nat
  BY ContFacts
<1>2. Frame("y_acquire").pc = "y_acquire"
  BY DEF Frame
<1> SUFFICES ASSUME NEW i \in 1 .. Len(d.frames)
             PROVE  /\ d.owner # WILD
                    /\ i > 1 => d.frames[i].pc \in HandlerPcs
                    /\ d.frames[i].pc \in BootPcs => d.owner = BOOT
                    /\ i < Len(d.frames) => d.frames[i].pc \notin QuietPcs
                    /\ d.frames[i].pc = "y_switch" =>
                         /\ d.frames[i].new \in Tasks
                         /\ d.frames[i].old = NULL => d.owner = BOOT
  BY DEF FramesOK
<1>3. CASE i = Len(c.frames) + 1
  BY <1>1, <1>2, <1>3 DEF Pushed, BootPcs, HandlerPcs, FramesOK
<1>4. CASE i # Len(c.frames) + 1
  <2>1. i \in 1 .. Len(c.frames) /\ d.frames[i] = c.frames[i] /\ d.owner = c.owner
    BY <1>1, <1>4 DEF Pushed
  <2>2. c.frames[i].pc \notin QuietPcs
    BY <1>1, <2>1 DEF FramesOK
  <2> QED
    BY <2>1, <2>2 DEF FramesOK
<1> QED
  BY <1>3, <1>4

LEMMA PoppedShape ==
    ASSUME NEW c \in Conts, NEW d, Len(c.frames) > 1, FramesOK(c), Popped(d, c)
    PROVE  FramesOK(d)
<1>1. Len(c.frames) \in Nat
  BY ContFacts
<1> QED
  BY <1>1 DEF Popped, FramesOK

\* The executing frame goes from one place to another one.
LEMMA MoveFacts ==
    ASSUME TypeInv, ShapeInv, NEW from \in Pcs, NEW to \in Pcs, At(from), Goto(to),
           Depth > 1 /\ from \in HandlerPcs => to \in HandlerPcs,
           to \in BootPcs => from \in BootPcs \/ running.owner = BOOT,
           to # "y_switch"
    PROVE  /\ Replaced(running', running, Frame(to))
           /\ FramesOK(running') /\ IsContinuation(running')
           /\ Depth' = Depth /\ Depth \in Nat /\ Depth > 0
           /\ \A pc : At(pc)' <=> pc = to
<1>1. Replaced(running', running, Frame(to))
  BY GotoFacts DEF TypeInv, At
<1>2. /\ Depth' = Depth /\ Depth \in Nat /\ Depth > 0
      /\ Len(running.frames) = Depth
  BY <1>1, ContFacts DEF Depth, Replaced, TypeInv, At
<1>3. \A pc : At(pc)' <=> pc = to
  <2>1. Top' = Frame(to)
    BY <1>1, <1>2 DEF Top, Depth, Replaced
  <2> QED
    BY <1>2, <2>1 DEF At, Frame
<1>4. IsContinuation(running')
  BY <1>1, ContFacts DEF Replaced, TypeInv, TypeOK
<1>5. FramesOK(running')
  <2>1. Frame(to) \in Frames /\ Frame(to).pc = to
    BY FrameFacts
  <2>2. running.frames[Depth].pc = from
    BY DEF At, Top
  <2>3. Depth > 1 => to \in HandlerPcs
    BY <1>2, <2>2 DEF ShapeInv, FramesOK
  <2>4. to \in BootPcs => running.owner = BOOT
    BY <1>2, <2>2 DEF ShapeInv, FramesOK
  <2> QED
    BY <1>1, <1>2, <2>1, <2>3, <2>4, ReplacedShape DEF ShapeInv, TypeInv
<1> QED
  BY <1>1, <1>2, <1>3, <1>4, <1>5

\* Such a step keeps what the base invariant says of what it leaves alone.
LEMMA MoveKeepsBase ==
    ASSUME BaseInv, NEW from \in Pcs, NEW to \in Pcs, At(from), Goto(to),
           Depth > 1 /\ from \in HandlerPcs => to \in HandlerPcs,
           to \in BootPcs => from \in BootPcs \/ running.owner = BOOT,
           to \notin {"y_switch", "s_start", "init", "create"}, from # "init",
           to = "halt" => masked', masked' \in BOOLEAN, sched_lock' \in {0, 1},
           UNCHANGED <<task_list, num_tasks, current_task_index, current_task, heap, created,
                       saved, ttbr0_el1, timer_on, raced>>
    PROVE  BaseInv'
<1>1. /\ Replaced(running', running, Frame(to))
      /\ FramesOK(running') /\ IsContinuation(running')
      /\ Depth' = Depth /\ Depth \in Nat /\ Depth > 0
      /\ \A pc : At(pc)' <=> pc = to
  BY MoveFacts DEF BaseInv
<1>2. TypeInv'
  BY <1>1 DEF BaseInv, TypeInv, TypeOK, Replaced
<1>3. ShapeInv'
  BY <1>1 DEF BaseInv, ShapeInv
<1>4. ListInv'
  BY DEF BaseInv, ListInv
<1>5. StartInv'
  <2>1. current_task = NULL => /\ running'.owner = BOOT
                               /\ \A i \in 1 .. Depth' : running'.frames[i].pc \notin {"s_start", "y_switch"}
    <3>1. Frame(to).pc = to
      BY FrameFacts
    <3> QED
      BY <1>1, <3>1 DEF BaseInv, StartInv, Replaced, Depth
  <2> QED
    BY <1>1, <2>1 DEF BaseInv, StartInv
<1> QED
  BY <1>2, <1>3, <1>4, <1>5 DEF BaseInv

-----------------------------------------------------------------------------
(* The base invariant, action by action.                                   *)

LEMMA InitBase == Init => BaseInv
<1> SUFFICES ASSUME Init PROVE BaseInv
  OBVIOUS
<1>1. /\ running \in Conts /\ running.owner = BOOT
      /\ Len(running.frames) = 1 /\ running.frames[1] = Frame("init")
  <2>1. Frame("init") \in Frames
    BY FrameFacts DEF Pcs
  <2> QED
    BY <2>1 DEF Init, Boot, Conts, Contexts, BOOT, NULL
<1>2. saved = [t \in Contexts |-> Fresh(t)]
  BY DEF Init, Contexts
<1>3. saved \in [Contexts -> Conts] /\ \A t \in Contexts : IsContinuation(saved[t])
  BY <1>2, FreshFacts, ContFacts, ConstantFacts
<1>4. TypeInv
  <2>1. IsContinuation(running)
    BY <1>1, ContFacts, ConstantFacts
  <2>2. /\ task_list \in [Slots -> Tasks \cup {NULL}]
        /\ num_tasks \in 0 .. MaxTasks /\ current_task_index \in -1 .. (MaxTasks - 1)
        /\ created \in 0 .. Creates
    BY ConstantFacts DEF Init
  <2>3. masked \in BOOLEAN /\ timer_on \in BOOLEAN /\ raced \in BOOLEAN
    BY DEF Init
  <2> QED
    BY <1>1, <1>3, <2>1, <2>2, <2>3 DEF TypeInv, TypeOK, Init, Contexts
<1>5. Frame("init").pc = "init"
  BY DEF Frame
<1>6. ShapeInv
  <2>1. FramesOK(running)
    BY <1>1, <1>5, ConstantFacts DEF FramesOK
  <2> QED
    BY <2>1, <1>2, FreshFacts, ConstantFacts DEF ShapeInv
<1>7. ListInv
  BY ConstantFacts DEF Init, ListInv, Slots
<1>8. StartInv
  BY <1>1, <1>2, <1>5 DEF Init, StartInv, At, Top, Depth
<1> QED
  BY <1>4, <1>6, <1>7, <1>8 DEF BaseInv

LEMMA InitCallBase == BaseInv /\ sched_init => BaseInv'
<1> SUFFICES ASSUME BaseInv, sched_init PROVE BaseInv'
  OBVIOUS
<1>1. At("init") /\ Goto("create")
  BY DEF sched_init
<1>2. /\ Replaced(running', running, Frame("create"))
      /\ FramesOK(running') /\ IsContinuation(running')
      /\ Depth' = Depth /\ Depth \in Nat /\ Depth > 0
      /\ \A pc : At(pc)' <=> pc = "create"
  BY <1>1, MoveFacts DEF BaseInv, Pcs, HandlerPcs, BootPcs
<1>3. TypeInv'
  BY <1>2, ConstantFacts DEF BaseInv, TypeInv, TypeOK, Replaced, sched_init, observed
<1>4. ShapeInv'
  BY <1>2 DEF BaseInv, ShapeInv, sched_init
<1>5. ListInv'
  BY <1>1, ConstantFacts DEF BaseInv, StartInv, ListInv, sched_init, Slots
<1>6. StartInv'
  <2>1. \A i \in 1 .. Depth' : running'.frames[i].pc \notin {"s_start", "y_switch"}
    BY <1>1, <1>2 DEF BaseInv, StartInv, Replaced, Depth, Frame
  <2>2. running'.owner = BOOT /\ current_task = NULL /\ masked
    BY <1>1, <1>2 DEF BaseInv, StartInv, Replaced
  <2> QED
    BY <1>2, <2>1, <2>2 DEF BaseInv, StartInv, sched_init
<1> QED
  BY <1>3, <1>4, <1>5, <1>6 DEF BaseInv

\* sched_create_task fills a control block that was not used before.
LEMMA CreateFacts ==
    ASSUME BaseInv, NEW k \in 0 .. 3, sched_create_task(k)
    PROVE  /\ At("create") /\ Goto("create") /\ current_task = NULL
           /\ created + 1 \in Tasks
           /\ UNCHANGED <<current_task_index, current_task, sched_lock, saved, masked, ttbr0_el1,
                          timer_on, raced>>
<1>1. /\ At("create") /\ Goto("create") /\ created < Creates
      /\ saved' = [saved EXCEPT ![created + 1] = Fresh(created + 1)]
      /\ UNCHANGED <<current_task_index, current_task, sched_lock, masked, ttbr0_el1,
                     timer_on, raced>>
  BY DEF sched_create_task, observed
<1>2. created + 1 \in Tasks /\ created + 1 \in Contexts
  BY <1>1, ConstantFacts DEF BaseInv, TypeInv, TypeOK, Tasks, Contexts
<1>3. current_task = NULL /\ saved[created + 1] = Fresh(created + 1)
  BY <1>1, <1>2 DEF BaseInv, StartInv
<1>4. saved' = saved
  BY <1>1, <1>2, <1>3 DEF BaseInv, TypeInv
<1> QED
  BY <1>1, <1>2, <1>3, <1>4

LEMMA CreateBase ==
    ASSUME BaseInv, NEW k \in 0 .. 3, sched_create_task(k)
    PROVE  BaseInv'
<1> DEFINE t == created + 1
           added == k = 3 /\ HasRoom
<1>1. /\ At("create") /\ Goto("create") /\ created < Creates /\ created' = t
      /\ heap' = (heap \cup Allocated(t, k)) \ Returned(t, k)
      /\ saved' = [saved EXCEPT ![t] = Fresh(t)]
      /\ task_list' = IF added THEN [task_list EXCEPT ![num_tasks] = t] ELSE task_list
      /\ num_tasks' = IF added THEN num_tasks + 1 ELSE num_tasks
      /\ UNCHANGED <<current_task_index, current_task, sched_lock, masked, ttbr0_el1,
                     timer_on, raced>>
  BY DEF sched_create_task, observed
<1>2. /\ Replaced(running', running, Frame("create"))
      /\ FramesOK(running') /\ IsContinuation(running')
      /\ Depth' = Depth /\ Depth \in Nat /\ Depth > 0
      /\ \A pc : At(pc)' <=> pc = "create"
  BY <1>1, MoveFacts DEF BaseInv, Pcs, HandlerPcs, BootPcs
<1>3. /\ created \in 0 .. Creates /\ t \in Tasks /\ t \in Contexts
      /\ num_tasks \in 0 .. MaxTasks
      /\ task_list \in [Slots -> Tasks \cup {NULL}]
      /\ heap \subseteq {"tcb", "stack", "pagetable"} \X (1 .. created)
      /\ current_task = NULL
  BY <1>1, ConstantFacts DEF BaseInv, TypeInv, TypeOK, Tasks, Contexts, ListInv, StartInv
<1>4. \A u \in Contexts : saved'[u] = saved[u]
  BY <1>1, <1>3 DEF BaseInv, StartInv, TypeInv
<1>5. saved' \in [Contexts -> Conts] /\ \A u \in Contexts : IsContinuation(saved'[u])
  BY <1>1, <1>3, <1>4, FreshFacts DEF BaseInv, TypeInv, TypeOK, Contexts
<1>6. heap' \subseteq {"tcb", "stack", "pagetable"} \X (1 .. created')
  <2>1. Allocated(t, k) \subseteq {"tcb", "stack", "pagetable"} \X {t}
    BY DEF Allocated
  <2>2. 1 .. created \subseteq 1 .. created' /\ t \in 1 .. created'
    BY <1>1, <1>3
  <2> HIDE DEF t
  <2> QED
    BY <1>1, <1>3, <2>1, <2>2
<1>7. /\ num_tasks' \in 0 .. MaxTasks
      /\ task_list' \in [Slots -> Tasks \cup {NULL}]
      /\ \A i \in Slots : task_list'[i] \in Tasks <=> i < num_tasks'
  <2>1. CASE added
    <3>1. num_tasks \in Slots /\ num_tasks' = num_tasks + 1
      BY <1>1, <1>3, <2>1, ConstantFacts DEF HasRoom, Slots
    <3>2. task_list' = [task_list EXCEPT ![num_tasks] = t]
      BY <1>1, <2>1
    <3> HIDE DEF t
    <3>3. \A i \in Slots : task_list'[i] = IF i = num_tasks THEN t ELSE task_list[i]
      BY <1>3, <3>1, <3>2
    <3> QED
      BY <1>3, <2>1, <3>1, <3>2, <3>3, ConstantFacts DEF BaseInv, ListInv, Slots, HasRoom
  <2>2. CASE ~added
    BY <1>1, <1>3, <2>2 DEF BaseInv, ListInv
  <2> QED
    BY <2>1, <2>2
<1>8. TypeInv'
  <2>1. heap' \subseteq {"tcb", "stack", "pagetable"} \X Tasks /\ created' \in 0 .. Creates
    <3>1. 1 .. created' \subseteq Tasks /\ created' \in 0 .. Creates
      BY <1>1, <1>3, ConstantFacts DEF Tasks
    <3> QED
      BY <1>6, <3>1
  <2> HIDE DEF t, added
  <2> QED
    BY <1>1, <1>2, <1>5, <1>7, <2>1 DEF BaseInv, TypeInv, TypeOK, Replaced, Contexts
<1>9. ShapeInv'
  BY <1>2, <1>4, ConstantFacts DEF BaseInv, ShapeInv
<1>10. ListInv'
  BY <1>6, <1>7 DEF ListInv
<1>11. StartInv'
  <2>1. \A i \in 1 .. Depth' : running'.frames[i].pc \notin {"s_start", "y_switch"}
    BY <1>1, <1>2 DEF BaseInv, StartInv, Replaced, Depth, Frame
  <2>2. running'.owner = BOOT /\ masked
    BY <1>1, <1>2 DEF BaseInv, StartInv, Replaced
  <2> QED
    BY <1>1, <1>2, <1>4, <2>1, <2>2 DEF BaseInv, StartInv
<1> QED
  BY <1>8, <1>9, <1>10, <1>11 DEF BaseInv

\* The steps of kernel_main and of sched_yield that only move on.
LEMMA MovesBase ==
    ASSUME BaseInv,
           \/ cpu_enable_interrupts \/ TaskYields
           \/ spinlock_acquire("s_acquire", "s_locked")
           \/ spinlock_acquire("y_acquire", "y_locked")
    PROVE  BaseInv'
<1> USE DEF Pcs, HandlerPcs, BootPcs
<1>1. masked \in BOOLEAN /\ sched_lock \in {0, 1}
  BY DEF BaseInv, TypeInv, TypeOK
<1>2. CASE cpu_enable_interrupts
  BY <1>1, <1>2, MoveKeepsBase DEF cpu_enable_interrupts, list, observed
<1>3. CASE TaskYields
  BY <1>1, <1>3, MoveKeepsBase DEF TaskYields, list, observed
<1>4. CASE spinlock_acquire("s_acquire", "s_locked")
  BY <1>1, <1>4, MoveKeepsBase DEF spinlock_acquire, list, observed
<1>5. CASE spinlock_acquire("y_acquire", "y_locked")
  BY <1>1, <1>5, MoveKeepsBase DEF spinlock_acquire, list, observed
<1> QED
  BY <1>2, <1>3, <1>4, <1>5

LEMMA ScheduleBase == BaseInv /\ sched_schedule => BaseInv'
<1> SUFFICES ASSUME BaseInv, sched_schedule PROVE BaseInv'
  OBVIOUS
<1> USE DEF Pcs, HandlerPcs, BootPcs
<1>1. /\ At("s_locked") /\ sched_lock' = 0 /\ masked \in BOOLEAN
      /\ UNCHANGED <<task_list, num_tasks, heap, created, saved, timer_on, raced>>
  BY DEF sched_schedule, spinlock_release, list, observed, BaseInv, TypeInv, TypeOK
<1>2. CASE num_tasks = 0
  <2>1. /\ Goto("halt") /\ masked' = TRUE
        /\ UNCHANGED <<current_task_index, current_task, ttbr0_el1>>
    BY <1>2 DEF sched_schedule
  <2> QED
    BY <1>1, <2>1, MoveKeepsBase
<1>3. CASE num_tasks # 0 /\ current_task = NULL
  <2>1. /\ Goto("s_start") /\ UNCHANGED masked /\ current_task_index' = 0
        /\ current_task' = task_list[0] /\ ttbr0_el1' = task_list[0]
    BY <1>3 DEF sched_schedule
  <2>2. /\ Replaced(running', running, Frame("s_start"))
        /\ FramesOK(running') /\ IsContinuation(running')
        /\ Depth' = Depth /\ Depth \in Nat /\ Depth > 0
        /\ \A pc : At(pc)' <=> pc = "s_start"
    BY <1>1, <2>1, MoveFacts DEF BaseInv
  <2>3. task_list[0] \in Tasks /\ NULL \notin Tasks
    BY <1>3, ConstantFacts DEF BaseInv, TypeInv, TypeOK, ListInv, Slots
  <2>4. TypeInv'
    BY <1>1, <2>1, <2>2, <2>3, ConstantFacts DEF BaseInv, TypeInv, TypeOK, Replaced
  <2>5. ShapeInv' /\ ListInv'
    BY <1>1, <2>2 DEF BaseInv, ShapeInv, ListInv
  <2>6. StartInv'
    BY <2>1, <2>2, <2>3 DEF StartInv
  <2> QED
    BY <2>4, <2>5, <2>6 DEF BaseInv
<1>4. CASE num_tasks # 0 /\ current_task # NULL
  <2>1. /\ Goto("y_acquire")
        /\ UNCHANGED <<current_task_index, current_task, ttbr0_el1, masked>>
    BY <1>4 DEF sched_schedule
  <2> QED
    BY <1>1, <2>1, MoveKeepsBase
<1> QED
  BY <1>2, <1>3, <1>4

LEMMA StartTaskBase == BaseInv /\ StartFirstTask => BaseInv'
<1> SUFFICES ASSUME BaseInv, StartFirstTask PROVE BaseInv'
  OBVIOUS
<1>1. /\ At("s_start")
      /\ running' = Fresh(current_task) \/ running' = Wild
      /\ UNCHANGED <<task_list, num_tasks, current_task_index, current_task, sched_lock, heap,
                     created, saved, masked, ttbr0_el1, timer_on, raced>>
  BY DEF StartFirstTask, list, observed
<1>2. current_task \in Contexts /\ MaxHandlers \in Nat
  BY ConstantFacts DEF BaseInv, TypeInv, TypeOK, Contexts
<1>3. /\ running' \in Conts /\ Len(running'.frames) <= 1 /\ FramesOK(running')
      /\ \A i \in 1 .. Len(running'.frames) : running'.frames[i].pc = "body"
      /\ running'.owner \in {current_task, WILD}
  BY <1>1, <1>2, FreshFacts, WildFacts DEF SavedOK, FramesOK
<1>4. TypeInv'
  <2>1. IsContinuation(running')
    BY <1>2, <1>3, ContFacts
  <2> QED
    BY <1>1, <1>3, <2>1 DEF BaseInv, TypeInv, TypeOK
<1>5. ShapeInv' /\ ListInv'
  BY <1>1, <1>3 DEF BaseInv, ShapeInv, ListInv
<1>6. StartInv'
  <2>1. \A pc \in Pcs : At(pc)' => pc = "body"
    BY <1>3, ContFacts DEF At, Top, Depth
  <2>2. current_task # NULL
    BY <1>1 DEF BaseInv, StartInv, At, Top, Depth, TypeInv, Conts
  <2> QED
    BY <1>1, <2>1, <2>2 DEF StartInv, Pcs
<1> QED
  BY <1>4, <1>5, <1>6 DEF BaseInv

LEMMA ReturnBase ==
    ASSUME BaseInv, At("y_locked") \/ At("y_return"), Return, sched_lock' \in {0, 1},
           UNCHANGED <<task_list, num_tasks, current_task_index, current_task, heap, created,
                       saved, ttbr0_el1, timer_on, raced>>
    PROVE  BaseInv'
<1>1. PICK from \in {"y_locked", "y_return"} : At(from)
  OBVIOUS
<1>2. running \in Conts /\ Depth > 0 /\ Depth \in Nat /\ masked \in BOOLEAN
  BY ContFacts DEF BaseInv, TypeInv, TypeOK, At, Depth
<1>3. CASE Depth > 1 /\ Popped(running', running) /\ masked' = FALSE
  <2>1. FramesOK(running')
    BY <1>2, <1>3, PoppedShape DEF BaseInv, ShapeInv, Depth
  <2>2. Depth' = Depth - 1 /\ Top'.pc \notin QuietPcs
    BY <1>2, <1>3 DEF Popped, Depth, Top, BaseInv, ShapeInv, FramesOK
  <2>3. IsContinuation(running')
    BY <1>2, <1>3, ContFacts, ConstantFacts DEF Popped, BaseInv, TypeInv, TypeOK
  <2>4. TypeInv'
    BY <1>3, <2>3 DEF BaseInv, TypeInv, TypeOK, Popped
  <2>5. ShapeInv' /\ ListInv'
    BY <2>1 DEF BaseInv, ShapeInv, ListInv
  <2>6. StartInv'
    <3>1. ~At("init")' /\ ~At("create")' /\ ~At("halt")'
      BY <2>2 DEF At, QuietPcs
    <3>2. current_task = NULL =>
             /\ running'.owner = BOOT
             /\ \A i \in 1 .. Depth' : running'.frames[i].pc \notin {"s_start", "y_switch"}
      BY <1>2, <1>3, <2>2 DEF BaseInv, StartInv, Popped, Depth
    <3> QED
      BY <3>1, <3>2 DEF BaseInv, StartInv
  <2> QED
    BY <2>4, <2>5, <2>6 DEF BaseInv
<1>4. CASE Depth = 1 /\ running.owner = BOOT /\ Goto("halt") /\ masked' = TRUE
  BY <1>1, <1>4, MoveKeepsBase DEF Pcs, HandlerPcs, BootPcs
<1>5. CASE Depth = 1 /\ running.owner # BOOT /\ Goto("body") /\ masked' = masked
  BY <1>1, <1>2, <1>5, MoveKeepsBase DEF Pcs, HandlerPcs, BootPcs
<1> QED
  BY <1>2, <1>3, <1>4, <1>5, ReturnFacts

LEMMA YieldBase == BaseInv /\ sched_yield => BaseInv'
<1> SUFFICES ASSUME BaseInv, sched_yield PROVE BaseInv'
  OBVIOUS
<1>1. /\ At("y_locked") /\ sched_lock' = 0
      /\ UNCHANGED <<task_list, num_tasks, heap, created, saved, timer_on, raced>>
      /\ \/ Return /\ UNCHANGED <<current_task_index, current_task, ttbr0_el1>>
         \/ /\ Switching
            /\ NextIndex \in 0 .. (num_tasks - 1) /\ NextIndex \in Slots
            /\ task_list[NextIndex] \in Tasks
  BY YieldFacts DEF BaseInv
<1>2. CASE Return /\ UNCHANGED <<current_task_index, current_task, ttbr0_el1>>
  BY <1>1, <1>2, ReturnBase
<1>3. CASE Switching /\ NextIndex \in Slots /\ task_list[NextIndex] \in Tasks
  <2> DEFINE n == task_list[NextIndex]
             f == [pc |-> "y_switch", old |-> current_task, new |-> n]
  <2>1. /\ Replaced(running', running, f) /\ UNCHANGED masked
        /\ current_task' = n /\ ttbr0_el1' = n /\ current_task_index' = NextIndex
    BY <1>3 DEF Switching
  <2>2. /\ n \in Tasks /\ n # NULL /\ current_task \in Contexts
    BY <1>3, ConstantFacts DEF BaseInv, TypeInv, TypeOK, Contexts
  <2>3. f \in Frames /\ f.pc = "y_switch" /\ f.old = current_task /\ f.new = n
    BY <2>2 DEF Frames, Pcs, Contexts
  <2> HIDE DEF n, f
  <2>4. running \in Conts /\ Depth > 0 /\ Depth \in Nat /\ Len(running.frames) = Depth
    BY <1>1, ContFacts DEF BaseInv, TypeInv, At, Depth
  <2>5. FramesOK(running')
    <3>1. current_task = NULL => running.owner = BOOT
      BY DEF BaseInv, StartInv
    <3> QED
      BY <2>1, <2>2, <2>3, <2>4, <3>1, ReplacedShape
         DEF BaseInv, ShapeInv, HandlerPcs, BootPcs
  <2>6. Depth' = Depth /\ Top' = f
    BY <2>1, <2>4 DEF Replaced, Depth, Top
  <2>7. IsContinuation(running')
    BY <2>1, <2>4, ContFacts DEF Replaced, BaseInv, TypeInv, TypeOK
  <2>8. TypeInv'
    <3>1. NextIndex \in -1 .. (MaxTasks - 1)
      BY <1>3, ConstantFacts DEF Slots
    <3> QED
      BY <1>1, <2>1, <2>2, <2>7, <3>1 DEF BaseInv, TypeInv, TypeOK, Replaced
  <2>9. ShapeInv' /\ ListInv'
    BY <1>1, <2>5 DEF BaseInv, ShapeInv, ListInv
  <2>10. StartInv'
    BY <2>1, <2>2, <2>3, <2>6 DEF StartInv, At
  <2> QED
    BY <2>8, <2>9, <2>10 DEF BaseInv
<1> QED
  BY <1>1, <1>2, <1>3

LEMMA TimerBase == BaseInv /\ TimerInterrupt => BaseInv'
<1> SUFFICES ASSUME BaseInv, TimerInterrupt PROVE BaseInv'
  OBVIOUS
<1>1. /\ ~masked /\ Depth \in 1 .. MaxHandlers /\ masked' = TRUE
      /\ running' = [running EXCEPT !.frames = Append(@, Frame("y_acquire"))]
      /\ raced' = (raced \/ At("y_switch"))
      /\ UNCHANGED <<task_list, num_tasks, heap, created, current_task_index, current_task,
                     sched_lock, saved, ttbr0_el1, timer_on>>
  BY DEF TimerInterrupt, list
<1>2. Frame("y_acquire") \in Frames /\ Frame("y_acquire").pc = "y_acquire"
  BY FrameFacts DEF Pcs
<1>3. Pushed(running', running, Frame("y_acquire"))
  BY <1>1, <1>2, PushTop DEF BaseInv, TypeInv
<1>4. running \in Conts /\ Depth \in Nat /\ Len(running.frames) = Depth
  BY <1>1, ContFacts DEF BaseInv, TypeInv, Depth
<1>5. Top.pc \notin QuietPcs
  BY <1>1 DEF BaseInv, StartInv, At, QuietPcs
<1>6. FramesOK(running')
  BY <1>1, <1>3, <1>4, <1>5, PushedShape DEF BaseInv, ShapeInv, Top
<1>7. Depth' = Depth + 1 /\ Top' = Frame("y_acquire")
  BY <1>3, <1>4 DEF Pushed, Depth, Top
<1>8. TypeInv'
  <2>1. IsContinuation(running')
    <3>1. running' \in Conts /\ Len(running'.frames) = Depth + 1
      BY <1>3, <1>4 DEF Pushed
    <3>2. Depth + 1 <= MaxHandlers + 1
      BY <1>1, ConstantFacts
    <3> QED
      BY <3>1, <3>2, ContFacts
  <2>2. raced' \in BOOLEAN
    BY <1>1
  <2> QED
    BY <1>1, <1>3, <2>1, <2>2 DEF BaseInv, TypeInv, TypeOK, Pushed
<1>9. ShapeInv' /\ ListInv'
  BY <1>1, <1>6 DEF BaseInv, ShapeInv, ListInv
<1>10. StartInv'
  <2>1. ~At("init")' /\ ~At("create")' /\ ~At("halt")'
    BY <1>2, <1>7 DEF At
  <2>2. current_task = NULL =>
           /\ running'.owner = BOOT
           /\ \A i \in 1 .. Depth' : running'.frames[i].pc \notin {"s_start", "y_switch"}
    BY <1>2, <1>3, <1>4, <1>7 DEF BaseInv, StartInv, Pushed
  <2> QED
    BY <1>1, <2>1, <2>2 DEF BaseInv, StartInv
<1> QED
  BY <1>8, <1>9, <1>10 DEF BaseInv

\* What is saved can be resumed.
LEMMA SwitchBase == BaseInv /\ context_switch => BaseInv'
<1> SUFFICES ASSUME BaseInv, context_switch PROVE BaseInv'
  OBVIOUS
<1>1. /\ At("y_switch") /\ Top \in Frames
      /\ running' = saved'[Top.new] \/ running' = Wild
      /\ UNCHANGED <<task_list, num_tasks, heap, created, current_task_index, current_task,
                     sched_lock, masked, ttbr0_el1, timer_on, raced>>
  BY SwitchFacts DEF BaseInv
<1>2. PICK c \in Conts : /\ Replaced(c, running, Frame("y_return"))
                         /\ saved' = [saved EXCEPT ![Top.old] = c]
  BY SwitchFacts DEF BaseInv
<1>3. running \in Conts /\ Depth > 0 /\ Depth \in Nat /\ Len(running.frames) = Depth
  BY <1>1, ContFacts DEF BaseInv, TypeInv, At, Depth
<1>4. Top.old \in Contexts /\ Top.new \in Contexts
  BY <1>1 DEF Frames
<1>5. /\ current_task # NULL
      /\ Top.new \in Tasks
      /\ Top.old = NULL => running.owner = BOOT
  BY <1>1, <1>3 DEF BaseInv, StartInv, ShapeInv, FramesOK, At, Top
<1>6. SavedOK(c)
  <2>1. Frame("y_return") \in Frames /\ Frame("y_return").pc = "y_return"
    BY FrameFacts DEF Pcs
  <2>2. FramesOK(c)
    BY <1>2, <1>3, <2>1, ReplacedShape DEF BaseInv, ShapeInv, HandlerPcs, BootPcs
  <2> QED
    BY <1>2, <1>3, <2>1, <2>2 DEF SavedOK, Replaced
<1>7. IsContinuation(c)
  BY <1>2, <1>3, ContFacts DEF Replaced, BaseInv, TypeInv, TypeOK
<1>8. \A t \in Contexts : saved'[t] = IF t = Top.old THEN c ELSE saved[t]
  BY <1>2, <1>4 DEF BaseInv, TypeInv
<1>9. /\ saved' \in [Contexts -> Conts]
      /\ \A t \in Contexts : SavedOK(saved'[t]) /\ IsContinuation(saved'[t])
  BY <1>2, <1>4, <1>6, <1>7, <1>8 DEF BaseInv, TypeInv, TypeOK, ShapeInv, Contexts
<1>10. \/ running' = Wild
       \/ running' \in Conts /\ SavedOK(running') /\ IsContinuation(running')
  BY <1>1, <1>4, <1>9
<1>11. running' \in Conts /\ IsContinuation(running') /\ FramesOK(running')
  <2>1. FramesOK(Wild) /\ IsContinuation(Wild)
    <3>1. 0 <= MaxHandlers + 1
      BY ConstantFacts
    <3> QED
      BY <3>1, WildFacts, ContFacts DEF FramesOK
  <2> QED
    BY <1>10, <2>1, WildFacts DEF SavedOK
<1>12. TypeInv'
  BY <1>1, <1>9, <1>11 DEF BaseInv, TypeInv, TypeOK, Contexts
<1>13. ShapeInv'
  <2>1. saved'[NULL].owner = BOOT
    BY <1>2, <1>5, <1>8 DEF BaseInv, ShapeInv, Replaced, Contexts
  <2> QED
    BY <1>9, <1>11, <2>1 DEF ShapeInv
<1>14. ListInv'
  BY <1>1 DEF BaseInv, ListInv
<1>15. StartInv'
  <2>1. ~At("init")' /\ ~At("create")' /\ ~At("halt")'
    BY <1>10, WildFacts DEF At, Top, Depth, SavedOK
  <2> QED
    BY <1>1, <1>5, <2>1 DEF StartInv
<1> QED
  BY <1>12, <1>13, <1>14, <1>15 DEF BaseInv

LEMMA NextBase == BaseInv /\ [Next]_vars => BaseInv'
<1> SUFFICES ASSUME BaseInv, [Next]_vars PROVE BaseInv'
  OBVIOUS
<1>1. CASE UNCHANGED vars
  BY <1>1 DEF vars, BaseInv, TypeInv, TypeOK, ShapeInv, ListInv, StartInv, At, Top, Depth
<1>2. CASE YieldReturns
  <2>1. sched_lock \in {0, 1}
    BY DEF BaseInv, TypeInv, TypeOK
  <2> QED
    BY <1>2, <2>1, ReturnBase DEF YieldReturns, list, observed
<1> QED
  BY <1>1, <1>2, InitCallBase, CreateBase, MovesBase, ScheduleBase, StartTaskBase, YieldBase,
     TimerBase, SwitchBase DEF Next, Execute

\* The scheduler's state keeps its types: in particular every index that
\* sched_yield computes is one of the list's, and no continuation has more handlers
\* than were entered.
THEOREM SchedTypeCorrect == Spec => []TypeOK
<1>1. BaseInv => TypeOK
  BY DEF BaseInv, TypeInv
<1> QED
  BY <1>1, InitBase, NextBase, PTL DEF Spec

-----------------------------------------------------------------------------
(* The lock.                                                               *)

LockPcs == {"s_locked", "y_locked"}

LEMMA CriticalFacts ==
    ASSUME NEW c \in Conts, NEW d, NEW f \in Frames, Len(c.frames) > 0
    PROVE  /\ Replaced(d, c, f) =>
                InCritical(d) = (InCritical(c) \ {Len(c.frames)})
                                  \cup (IF f.pc \in LockPcs THEN {Len(c.frames)} ELSE {})
           /\ Pushed(d, c, f) /\ f.pc \notin LockPcs => InCritical(d) = InCritical(c)
           /\ Popped(d, c) => InCritical(d) = InCritical(c) \ {Len(c.frames)}
           /\ InCritical(c) = {i \in 1 .. Len(c.frames) : c.frames[i].pc \in LockPcs}
<1>1. /\ Len(c.frames) \in Nat
      /\ InCritical(c) = {i \in 1 .. Len(c.frames) : c.frames[i].pc \in LockPcs}
  BY ContFacts DEF InCritical, LockPcs
<1>2. d \in Conts =>
        InCritical(d) = {i \in 1 .. Len(d.frames) : d.frames[i].pc \in LockPcs}
  BY ContFacts DEF InCritical, LockPcs
<1>3. ASSUME Replaced(d, c, f)
      PROVE  InCritical(d) = (InCritical(c) \ {Len(c.frames)})
                               \cup (IF f.pc \in LockPcs THEN {Len(c.frames)} ELSE {})
  BY <1>1, <1>2, <1>3 DEF Replaced
<1>4. ASSUME Pushed(d, c, f), f.pc \notin LockPcs PROVE InCritical(d) = InCritical(c)
  BY <1>1, <1>2, <1>4 DEF Pushed
<1>5. ASSUME Popped(d, c) PROVE InCritical(d) = InCritical(c) \ {Len(c.frames)}
  BY <1>1, <1>2, <1>5 DEF Popped
<1> QED
  BY <1>1, <1>3, <1>4, <1>5

\* Only code that waits for the lock runs above the frame that holds it.
LEMMA LockTop ==
    ASSUME BaseInv, LockInv, NEW pc \in Pcs, At(pc)
    PROVE  /\ pc \notin LockPcs \cup {"y_acquire"} => sched_lock = 0 /\ InCritical(running) = {}
           /\ pc \in LockPcs => sched_lock = 1 /\ InCritical(running) = {Depth}
           /\ Len(running.frames) = Depth /\ Depth \in Nat /\ Depth > 0 /\ running \in Conts
<1>1. /\ Len(running.frames) = Depth /\ Depth \in Nat /\ Depth > 0 /\ running \in Conts
      /\ running.frames[Depth].pc = pc
  BY ContFacts DEF BaseInv, TypeInv, At, Top, Depth
<1>2. InCritical(running) = {i \in 1 .. Depth : running.frames[i].pc \in LockPcs}
  BY <1>1, ContFacts DEF InCritical, LockPcs
<1>3. Depth \in InCritical(running) <=> pc \in LockPcs
  BY <1>1, <1>2
<1>4. CASE sched_lock = 0 /\ InCritical(running) = {}
  BY <1>1, <1>3, <1>4
<1>5. ASSUME NEW i \in 1 .. Depth, sched_lock = 1, InCritical(running) = {i},
             \A j \in (i + 1) .. Depth : running.frames[j].pc = "y_acquire"
      PROVE  /\ pc \notin LockPcs \cup {"y_acquire"} =>
                   sched_lock = 0 /\ InCritical(running) = {}
             /\ pc \in LockPcs => sched_lock = 1 /\ InCritical(running) = {Depth}
  <2>1. CASE i = Depth
    BY <1>3, <1>5, <2>1
  <2>2. CASE i # Depth
    <3>1. pc = "y_acquire"
      BY <1>1, <1>5, <2>2
    <3> QED
      BY <3>1 DEF LockPcs
  <2> QED
    BY <2>1, <2>2
<1> QED
  BY <1>1, <1>4, <1>5 DEF LockInv

\* A step that gives the lock back, or never had it, and leaves no frame with it.
LEMMA FreeKeepsLock ==
    ASSUME LockInv, sched_lock' = 0, InCritical(running') = {}, UNCHANGED saved
    PROVE  LockInv'
<1>1. InCritical(running)' = {}
  BY DEF InCritical
<1> QED
  BY <1>1 DEF LockInv, InCritical

LEMMA MoveFreeLock ==
    ASSUME BaseInv, LockInv, NEW from \in Pcs, NEW to \in Pcs, At(from), Goto(to),
           from # "y_acquire", to \notin LockPcs,
           sched_lock' = 0, UNCHANGED saved
    PROVE  LockInv'
<1>1. /\ InCritical(running) \subseteq {Depth} /\ Len(running.frames) = Depth
      /\ running \in Conts /\ Depth > 0
  BY LockTop
<1>2. Replaced(running', running, Frame(to))
  BY <1>1, GotoFacts
<1>3. InCritical(running') = {}
  BY <1>1, <1>2, CriticalFacts, FrameFacts
<1> QED
  BY <1>3, FreeKeepsLock

LEMMA AcquireLock ==
    ASSUME BaseInv, LockInv, NEW from \in Pcs, NEW to \in LockPcs, spinlock_acquire(from, to)
    PROVE  LockInv'
<1>1. /\ At(from) /\ sched_lock = 0 /\ sched_lock' = 1 /\ Goto(to) /\ UNCHANGED saved
      /\ to \in Pcs
  BY DEF spinlock_acquire, LockPcs, Pcs
<1>2. /\ Len(running.frames) = Depth /\ Depth \in Nat /\ Depth > 0 /\ running \in Conts
      /\ InCritical(running) = {}
  BY <1>1, LockTop DEF LockInv
<1>3. Replaced(running', running, Frame(to))
  BY <1>1, <1>2, GotoFacts
<1>4. InCritical(running') = {Depth} /\ Depth' = Depth
  <2>1. Frame(to) \in Frames /\ Frame(to).pc \in LockPcs
    BY <1>1, FrameFacts
  <2>2. InCritical(running') = (InCritical(running) \ {Depth})
                                 \cup (IF Frame(to).pc \in LockPcs THEN {Depth} ELSE {})
    BY <1>2, <1>3, <2>1, CriticalFacts
  <2>3. Depth' = Depth
    BY <1>3 DEF Replaced, Depth
  <2> QED
    BY <1>2, <2>1, <2>2, <2>3
<1>5. InCritical(running)' = {Depth'}
  BY <1>4 DEF InCritical
<1> QED
  BY <1>1, <1>2, <1>4, <1>5 DEF LockInv, InCritical

LEMMA ReturnLock ==
    ASSUME BaseInv, LockInv, At("y_locked") \/ At("y_return"), Return, sched_lock' = 0,
           UNCHANGED saved
    PROVE  LockInv'
<1>1. PICK from \in {"y_locked", "y_return"} : At(from)
  OBVIOUS
<1>2. /\ InCritical(running) \subseteq {Depth} /\ Len(running.frames) = Depth
      /\ running \in Conts /\ Depth > 0 /\ from \in Pcs /\ masked \in BOOLEAN
  BY <1>1, LockTop DEF LockPcs, Pcs, BaseInv, TypeInv, TypeOK
<1>3. CASE Popped(running', running)
  <2>1. Frame("body") \in Frames
    BY FrameFacts DEF Pcs
  <2>2. InCritical(running') = InCritical(running) \ {Len(running.frames)}
    BY <1>2, <1>3, <2>1, CriticalFacts
  <2>3. InCritical(running') = {}
    BY <1>2, <2>2
  <2> QED
    BY <2>3, FreeKeepsLock
<1>4. CASE Goto("halt") \/ Goto("body")
  BY <1>1, <1>2, <1>4, MoveFreeLock DEF Pcs, LockPcs
<1> QED
  BY <1>2, <1>3, <1>4, ReturnFacts

LEMMA YieldLock == BaseInv /\ LockInv /\ sched_yield => LockInv'
<1> SUFFICES ASSUME BaseInv, LockInv, sched_yield PROVE LockInv'
  OBVIOUS
<1>1. /\ At("y_locked") /\ sched_lock' = 0 /\ UNCHANGED saved
      /\ Return \/ (Switching /\ task_list[NextIndex] \in Tasks)
  BY YieldFacts DEF BaseInv
<1>2. CASE Return
  BY <1>1, <1>2, ReturnLock
<1>3. CASE Switching /\ task_list[NextIndex] \in Tasks
  <2> DEFINE f == [pc |-> "y_switch", old |-> current_task, new |-> task_list[NextIndex]]
  <2>1. Replaced(running', running, f)
    BY <1>3 DEF Switching
  <2>2. f \in Frames /\ f.pc \notin LockPcs
    BY <1>3 DEF Frames, Pcs, Contexts, BaseInv, TypeInv, TypeOK, LockPcs
  <2>3. /\ InCritical(running) = {Depth} /\ Len(running.frames) = Depth
        /\ running \in Conts /\ Depth > 0
    BY <1>1, LockTop DEF LockPcs, Pcs
  <2> HIDE DEF f
  <2>4. InCritical(running') = {}
    BY <2>1, <2>2, <2>3, CriticalFacts
  <2> QED
    BY <1>1, <2>4, FreeKeepsLock
<1> QED
  BY <1>1, <1>2, <1>3

LEMMA TimerLock == BaseInv /\ LockInv /\ TimerInterrupt => LockInv'
<1> SUFFICES ASSUME BaseInv, LockInv, TimerInterrupt PROVE LockInv'
  OBVIOUS
<1>1. /\ Depth \in 1 .. MaxHandlers /\ UNCHANGED <<sched_lock, saved>>
      /\ running' = [running EXCEPT !.frames = Append(@, Frame("y_acquire"))]
  BY DEF TimerInterrupt
<1>2. Frame("y_acquire") \in Frames /\ Frame("y_acquire").pc = "y_acquire"
  BY FrameFacts DEF Pcs
<1>3. /\ running \in Conts /\ Len(running.frames) = Depth /\ Depth \in Nat
      /\ Pushed(running', running, Frame("y_acquire"))
  BY <1>1, <1>2, PushTop, ContFacts DEF BaseInv, TypeInv, Depth
<1>4. InCritical(running)' = InCritical(running)
  <2>1. InCritical(running') = InCritical(running)
    BY <1>1, <1>2, <1>3, CriticalFacts DEF LockPcs
  <2> QED
    BY <2>1 DEF InCritical
<1>5. /\ Depth' = Depth + 1 /\ running'.frames[Depth + 1].pc = "y_acquire"
      /\ \A i \in 1 .. Depth : running'.frames[i] = running.frames[i]
  BY <1>2, <1>3 DEF Pushed, Depth
<1>6. \A t \in Contexts : InCritical(saved[t])' = {}
  BY <1>1 DEF LockInv, InCritical
<1>7. CASE sched_lock = 0 /\ InCritical(running) = {}
  BY <1>1, <1>4, <1>6, <1>7 DEF LockInv
<1>8. ASSUME NEW i \in 1 .. Depth, sched_lock = 1, InCritical(running) = {i},
             \A j \in (i + 1) .. Depth : running.frames[j].pc = "y_acquire"
      PROVE  LockInv'
  <2>1. i \in 1 .. Depth' /\ \A j \in (i + 1) .. Depth' : running'.frames[j].pc = "y_acquire"
    BY <1>3, <1>5, <1>8
  <2> QED
    BY <1>1, <1>4, <1>6, <1>8, <2>1 DEF LockInv
<1> QED
  BY <1>7, <1>8 DEF LockInv

LEMMA SwitchLock == BaseInv /\ LockInv /\ context_switch => LockInv'
<1> SUFFICES ASSUME BaseInv, LockInv, context_switch PROVE LockInv'
  OBVIOUS
<1>1. /\ At("y_switch") /\ Top \in Frames /\ UNCHANGED sched_lock
      /\ running' = saved'[Top.new] \/ running' = Wild
  BY SwitchFacts DEF BaseInv
<1>2. PICK c \in Conts : /\ Replaced(c, running, Frame("y_return"))
                         /\ saved' = [saved EXCEPT ![Top.old] = c]
  BY SwitchFacts DEF BaseInv
<1>3. /\ sched_lock = 0 /\ InCritical(running) = {}
      /\ Len(running.frames) = Depth /\ running \in Conts /\ Depth > 0
  BY <1>1, LockTop DEF LockPcs, Pcs
<1>4. InCritical(c) = {}
  BY <1>2, <1>3, CriticalFacts, FrameFacts DEF Pcs, LockPcs
<1>5. Top.old \in Contexts /\ Top.new \in Contexts
  BY <1>1 DEF Frames
<1>6. \A t \in Contexts : saved'[t] = IF t = Top.old THEN c ELSE saved[t]
  BY <1>2, <1>5 DEF BaseInv, TypeInv
<1>7. \A t \in Contexts : InCritical(saved'[t]) = {}
  BY <1>4, <1>6 DEF LockInv
<1>8. InCritical(running') = {}
  <2>1. InCritical(Wild) = {}
    BY WildFacts, ContFacts DEF InCritical
  <2> QED
    BY <1>1, <1>5, <1>7, <2>1
<1> QED
  BY <1>1, <1>3, <1>7, <1>8 DEF LockInv, InCritical

LEMMA NextLock == BaseInv /\ LockInv /\ [Next]_vars => LockInv'
<1> SUFFICES ASSUME BaseInv, LockInv, [Next]_vars PROVE LockInv'
  OBVIOUS
<1> USE DEF Pcs, LockPcs
<1>1. CASE sched_init
  BY <1>1, MoveFreeLock DEF sched_init
<1>2. ASSUME NEW k \in 0 .. 3, sched_create_task(k) PROVE LockInv'
  <2>1. At("create") /\ Goto("create") /\ UNCHANGED <<sched_lock, saved>>
    BY <1>2, CreateFacts
  <2>2. sched_lock = 0
    BY <2>1, LockTop
  <2> QED
    BY <2>1, <2>2, MoveFreeLock
<1>3. CASE cpu_enable_interrupts
  <2>1. sched_lock = 0
    BY <1>3, LockTop DEF cpu_enable_interrupts
  <2> QED
    BY <1>3, <2>1, MoveFreeLock DEF cpu_enable_interrupts
<1>4. CASE spinlock_acquire("s_acquire", "s_locked") \/ spinlock_acquire("y_acquire", "y_locked")
  BY <1>4, AcquireLock
<1>5. CASE sched_schedule
  <2>1. /\ At("s_locked") /\ sched_lock' = 0 /\ UNCHANGED saved
        /\ Goto("halt") \/ Goto("s_start") \/ Goto("y_acquire")
    BY <1>5 DEF sched_schedule, spinlock_release
  <2> QED
    BY <2>1, MoveFreeLock
<1>6. CASE StartFirstTask
  <2>1. /\ At("s_start") /\ UNCHANGED <<sched_lock, saved>>
        /\ running' = Fresh(current_task) \/ running' = Wild
    BY <1>6 DEF StartFirstTask
  <2>2. sched_lock = 0 /\ current_task \in Contexts
    BY <2>1, LockTop DEF BaseInv, TypeInv, TypeOK, Contexts
  <2>3. InCritical(running') = {}
    BY <2>1, <2>2, FreshFacts, WildFacts, ContFacts DEF InCritical
  <2> QED
    BY <2>1, <2>2, <2>3, FreeKeepsLock
<1>7. CASE TaskYields
  <2>1. sched_lock = 0
    BY <1>7, LockTop DEF TaskYields
  <2> QED
    BY <1>7, <2>1, MoveFreeLock DEF TaskYields
<1>8. CASE YieldReturns
  <2>1. At("y_return") /\ Return /\ UNCHANGED <<saved, sched_lock>>
    BY <1>8 DEF YieldReturns
  <2>2. sched_lock = 0
    BY <2>1, LockTop
  <2> QED
    BY <2>1, <2>2, ReturnLock
<1>9. CASE UNCHANGED vars
  BY <1>9 DEF vars, LockInv, InCritical, Depth
<1> QED
  BY <1>1, <1>2, <1>3, <1>4, <1>5, <1>6, <1>7, <1>8, <1>9, YieldLock, TimerLock, SwitchLock
     DEF Next, Execute

\* The lock is held by the frame that took it, by no other one, and never by code
\* that is switched out.
THEOREM LockIsExclusive == Spec => []LockHeldByOne
<1>1. Init => LockInv
  <2> SUFFICES ASSUME Init PROVE LockInv
    OBVIOUS
  <2>1. BaseInv /\ sched_lock = 0 /\ running = Boot
    BY InitBase DEF Init
  <2>2. running \in Conts /\ Len(running.frames) = 1 /\ running.frames[1].pc = "init"
    BY <2>1 DEF BaseInv, TypeInv, Boot, Frame
  <2>3. InCritical(running) = {}
    BY <2>2, ContFacts DEF InCritical
  <2>4. \A t \in Contexts : InCritical(saved[t]) = {}
    BY FreshFacts, ContFacts DEF InCritical, Init, Contexts
  <2> QED
    BY <2>1, <2>3, <2>4 DEF LockInv
<1>2. BaseInv /\ LockInv => LockHeldByOne
  <2> SUFFICES ASSUME BaseInv, LockInv PROVE LockHeldByOne
    OBVIOUS
  <2>1. DOMAIN saved = Contexts
    BY DEF BaseInv, TypeInv
  <2>2. sched_lock = Cardinality(InCritical(running))
    BY FS_EmptySet, FS_Singleton DEF LockInv
  <2> QED
    BY <2>1, <2>2 DEF LockHeldByOne, LockInv
<1> QED
  BY <1>1, <1>2, InitBase, NextBase, NextLock, PTL DEF Spec

-----------------------------------------------------------------------------
(* The current task, and the memory of tasks that are not listed.          *)

LEMMA NextCurrent == BaseInv /\ CurrentInv /\ [Next]_vars => CurrentInv'
<1> SUFFICES ASSUME BaseInv, CurrentInv, [Next]_vars PROVE CurrentInv'
  OBVIOUS
<1>1. ASSUME UNCHANGED <<task_list, num_tasks, current_task_index, current_task, ttbr0_el1>>
      PROVE  CurrentInv'
  BY <1>1 DEF CurrentInv
<1>2. CASE sched_init
  BY <1>2 DEF sched_init, CurrentInv, BaseInv, StartInv
<1>3. ASSUME NEW k \in 0 .. 3, sched_create_task(k) PROVE CurrentInv'
  BY <1>3, CreateFacts DEF CurrentInv
<1>4. CASE sched_schedule
  <2>1. CASE num_tasks # 0 /\ current_task = NULL
    <3>1. /\ current_task_index' = 0 /\ current_task' = task_list[0]
          /\ ttbr0_el1' = task_list[0] /\ UNCHANGED <<task_list, num_tasks>>
      BY <1>4, <2>1 DEF sched_schedule, list
    <3>2. num_tasks \in Nat
      BY DEF BaseInv, TypeInv, TypeOK
    <3> QED
      BY <2>1, <3>1, <3>2 DEF CurrentInv
  <2>2. CASE num_tasks = 0 \/ current_task # NULL
    BY <1>1, <1>4, <2>2 DEF sched_schedule, list
  <2> QED
    BY <2>1, <2>2
<1>5. CASE sched_yield
  <2>1. /\ UNCHANGED <<task_list, num_tasks>>
        /\ \/ UNCHANGED <<current_task_index, current_task, ttbr0_el1>>
           \/ Switching /\ NextIndex \in 0 .. (num_tasks - 1)
    BY <1>5, YieldFacts DEF BaseInv
  <2>2. CASE Switching /\ NextIndex \in 0 .. (num_tasks - 1)
    BY <2>1, <2>2 DEF Switching, CurrentInv
  <2> QED
    BY <1>1, <2>1, <2>2
<1> QED
  BY <1>1, <1>2, <1>3, <1>4, <1>5
     DEF Next, Execute, cpu_enable_interrupts, spinlock_acquire, StartFirstTask, TaskYields,
         context_switch, YieldReturns, TimerInterrupt, list, vars

\* The index, the current task and the page table stay together.
THEOREM CurrentTaskConsistent == Spec => []CurrentIsConsistent
<1>1. Init => CurrentInv
  BY DEF Init, CurrentInv
<1>2. BaseInv /\ CurrentInv => CurrentIsConsistent
  BY DEF BaseInv, TypeInv, TypeOK, CurrentInv, CurrentIsConsistent
<1> QED
  BY <1>1, <1>2, InitBase, NextBase, NextCurrent, PTL DEF Spec

\* What a call of sched_create_task keeps is all three pieces or nothing.
LEMMA KeptMemory ==
    ASSUME NEW t, NEW k \in 0 .. 3
    PROVE  /\ \A m \in Allocated(t, k) : m[2] = t
           /\ k # 3 => Allocated(t, k) \ Returned(t, k) = {}
<1>1. \A m \in Allocated(t, k) : m[2] = t
  BY DEF Allocated
<1>2. CASE k = 0
  BY <1>2 DEF Allocated, Returned
<1>3. CASE k = 1
  BY <1>3 DEF Allocated, Returned
<1>4. CASE k = 2
  BY <1>4 DEF Allocated, Returned
<1> QED
  BY <1>1, <1>2, <1>3, <1>4

LEMMA CreateLeaks ==
    ASSUME BaseInv, LeaksOnlyWhenFull, NEW k \in 0 .. 3, sched_create_task(k)
    PROVE  LeaksOnlyWhenFull'
<1> DEFINE n == created + 1
           added == k = 3 /\ HasRoom
<1>1. /\ heap' = (heap \cup Allocated(n, k)) \ Returned(n, k)
      /\ task_list' = IF added THEN [task_list EXCEPT ![num_tasks] = n] ELSE task_list
      /\ num_tasks' = IF added THEN num_tasks + 1 ELSE num_tasks
  BY DEF sched_create_task
<1>2. /\ task_list \in [Slots -> Tasks \cup {NULL}] /\ num_tasks \in 0 .. MaxTasks
      /\ created \in Nat /\ MaxTasks \in Nat
      /\ \A m \in heap : m[2] \in 1 .. created
      /\ \A i \in Slots : task_list[i] \in Tasks <=> i < num_tasks
  BY ConstantFacts DEF BaseInv, TypeInv, TypeOK, ListInv
<1>3. n \in Tasks
  BY CreateFacts
<1> SUFFICES ASSUME NEW t \in Tasks, NEW m \in heap', m[2] = t,
                    \A i \in Slots : task_list'[i] # t
             PROVE  num_tasks' = MaxTasks
  BY DEF LeaksOnlyWhenFull
<1>4. CASE t = n
  <2>1. m \notin heap
    BY <1>2, <1>4
  <2>2. m \in Allocated(n, k) \ Returned(n, k)
    BY <1>1, <2>1
  <2>3. k = 3
    BY <2>2, KeptMemory
  <2>4. ~added
    <3>1. SUFFICES ASSUME added PROVE FALSE
      OBVIOUS
    <3>2. num_tasks \in Slots
      BY <1>2, <3>1 DEF HasRoom, Slots
    <3>3. task_list'[num_tasks] = n
      BY <1>1, <1>2, <3>1, <3>2
    <3> QED
      BY <1>4, <3>2, <3>3
  <2> QED
    BY <1>1, <1>2, <2>3, <2>4 DEF HasRoom
<1>5. CASE t # n
  <2>1. m \in heap
    BY <1>1, <1>5, KeptMemory
  <2>2. \A i \in Slots : task_list[i] # t
    <3> SUFFICES ASSUME NEW i \in Slots, task_list[i] = t PROVE FALSE
      OBVIOUS
    <3>1. i # num_tasks
      BY <1>2
    <3>2. task_list'[i] = task_list[i]
      BY <1>1, <1>2, <3>1
    <3> QED
      BY <3>2
  <2>3. num_tasks = MaxTasks
    BY <2>1, <2>2 DEF LeaksOnlyWhenFull
  <2> QED
    BY <1>1, <1>2, <2>3 DEF HasRoom
<1> QED
  BY <1>4, <1>5

\* Memory is lost only with tasks that a full list drops.
THEOREM LeaksOnlyToFullList == Spec => []LeaksOnlyWhenFull
<1>1. Init => LeaksOnlyWhenFull
  BY DEF Init, LeaksOnlyWhenFull
<1>2. BaseInv /\ LeaksOnlyWhenFull /\ [Next]_vars => LeaksOnlyWhenFull'
  <2> SUFFICES ASSUME BaseInv, LeaksOnlyWhenFull, [Next]_vars PROVE LeaksOnlyWhenFull'
    OBVIOUS
  <2>1. ASSUME UNCHANGED <<task_list, num_tasks, heap>> PROVE LeaksOnlyWhenFull'
    BY <2>1 DEF LeaksOnlyWhenFull
  <2>2. CASE sched_init
    BY <2>2 DEF sched_init, BaseInv, StartInv, LeaksOnlyWhenFull
  <2> QED
    BY <2>1, <2>2, CreateLeaks
       DEF Next, Execute, cpu_enable_interrupts, spinlock_acquire, sched_schedule,
           StartFirstTask, TaskYields, sched_yield, context_switch, YieldReturns,
           TimerInterrupt, list, vars
<1> QED
  BY <1>1, <1>2, InitBase, NextBase, PTL DEF Spec

-----------------------------------------------------------------------------
(* Whose context is saved where.                                           *)

LEMMA TopMoves ==
    ASSUME BaseInv, NEW from \in Pcs, NEW to \in Pcs, At(from), Goto(to)
    PROVE  /\ Replaced(running', running, Frame(to)) /\ running'.owner = running.owner
           /\ Depth' = Depth /\ Depth \in Nat /\ Depth > 0 /\ Len(running.frames) = Depth
           /\ \A pc : At(pc)' <=> pc = to
           /\ \A i \in 1 .. (Depth - 1) : running'.frames[i] = running.frames[i]
<1>1. Replaced(running', running, Frame(to))
  BY GotoFacts DEF BaseInv, TypeInv, At
<1>2. /\ Depth' = Depth /\ Depth \in Nat /\ Depth > 0
      /\ Len(running.frames) = Depth
  BY <1>1, ContFacts DEF Depth, Replaced, BaseInv, TypeInv, At
<1>3. Top' = Frame(to)
  BY <1>1, <1>2 DEF Top, Depth, Replaced
<1>4. \A pc : At(pc)' <=> pc = to
  BY <1>2, <1>3 DEF At, Frame
<1> QED
  BY <1>1, <1>2, <1>4 DEF Replaced

\* Without an interrupt in the window, a step that does not switch.
LEMMA MoveRace ==
    ASSUME BaseInv, RaceInv, NEW from \in Pcs, NEW to \in Pcs, At(from), Goto(to),
           from # "y_switch", to # "y_switch", UNCHANGED <<saved, raced>>,
           current_task' = current_task \/ from \in BootPcs
    PROVE  RaceInv'
<1> SUFFICES ASSUME ~raced PROVE RaceInv'
  BY DEF RaceInv
<1>1. /\ running'.owner = running.owner /\ Depth' = Depth /\ Depth \in Nat /\ Depth > 0
      /\ \A pc : At(pc)' <=> pc = to
      /\ \A i \in 1 .. (Depth - 1) : running'.frames[i] = running.frames[i]
  BY TopMoves
<1>2. ~At("y_switch") /\ ~At("y_switch")'
  BY <1>1 DEF At
<1>3. from \in BootPcs => running.owner = BOOT
  BY <1>1 DEF At, Top, BaseInv, ShapeInv, FramesOK, Depth
<1>4. running.owner \in Tasks => current_task' = running.owner
  BY <1>2, <1>3, ConstantFacts DEF RaceInv
<1> QED
  BY <1>1, <1>2, <1>4 DEF RaceInv

LEMMA ReturnRace ==
    ASSUME BaseInv, RaceInv, At("y_locked") \/ At("y_return"), Return,
           UNCHANGED <<saved, raced, current_task>>
    PROVE  RaceInv'
<1> SUFFICES ASSUME ~raced PROVE RaceInv'
  BY DEF RaceInv
<1>1. PICK from \in {"y_locked", "y_return"} : At(from)
  OBVIOUS
<1>2. running \in Conts /\ Depth > 0 /\ Depth \in Nat /\ masked \in BOOLEAN
  BY ContFacts DEF BaseInv, TypeInv, TypeOK, At, Depth
<1>3. CASE Depth > 1 /\ Popped(running', running)
  <2>1. /\ running'.owner = running.owner /\ Depth' = Depth - 1
        /\ \A i \in 1 .. (Depth - 1) : running'.frames[i] = running.frames[i]
    BY <1>3 DEF Popped, Depth
  <2>2. ~At("y_switch") /\ ~At("y_switch")'
    BY <1>1, <1>2, <1>3, <2>1 DEF At, Top, RaceInv
  <2> QED
    BY <1>2, <2>1, <2>2 DEF RaceInv
<1>4. CASE Goto("halt") \/ Goto("body")
  BY <1>1, <1>4, MoveRace DEF Pcs
<1> QED
  BY <1>2, <1>3, <1>4, ReturnFacts

LEMMA YieldRace == BaseInv /\ RaceInv /\ sched_yield => RaceInv'
<1> SUFFICES ASSUME BaseInv, RaceInv, sched_yield PROVE RaceInv'
  OBVIOUS
<1>1. /\ At("y_locked") /\ UNCHANGED <<saved, raced>>
      /\ \/ Return /\ UNCHANGED current_task
         \/ Switching /\ task_list[NextIndex] \in Tasks
  BY YieldFacts DEF BaseInv
<1>2. CASE Return /\ UNCHANGED current_task
  BY <1>1, <1>2, ReturnRace
<1>3. CASE Switching
  <2> SUFFICES ASSUME ~raced PROVE RaceInv'
    BY <1>1 DEF RaceInv
  <2> DEFINE f == [pc |-> "y_switch", old |-> current_task, new |-> task_list[NextIndex]]
  <2>1. Replaced(running', running, f) /\ current_task' = f.new
    BY <1>3 DEF Switching
  <2>2. f.old = current_task
    OBVIOUS
  <2> HIDE DEF f
  <2>3. running \in Conts /\ Depth > 0 /\ Depth \in Nat /\ Len(running.frames) = Depth
    BY <1>1, ContFacts DEF BaseInv, TypeInv, At, Depth
  <2>4. /\ running'.owner = running.owner /\ Depth' = Depth /\ Top' = f
        /\ \A i \in 1 .. (Depth - 1) : running'.frames[i] = running.frames[i]
    BY <2>1, <2>3 DEF Replaced, Depth, Top
  <2>5. running.owner \in Tasks => current_task = running.owner
    BY <1>1 DEF RaceInv, At
  <2>6. At("y_switch")'
    BY <2>3, <2>4 DEF At, f
  <2> QED
    BY <1>1, <2>1, <2>2, <2>3, <2>4, <2>5, <2>6 DEF RaceInv
<1> QED
  BY <1>1, <1>2, <1>3

LEMMA TimerRace == BaseInv /\ RaceInv /\ TimerInterrupt => RaceInv'
<1> SUFFICES ASSUME BaseInv, RaceInv, TimerInterrupt, ~raced' PROVE RaceInv'
  BY DEF RaceInv
<1>1. /\ Depth \in 1 .. MaxHandlers /\ UNCHANGED <<saved, current_task>>
      /\ running' = [running EXCEPT !.frames = Append(@, Frame("y_acquire"))]
      /\ ~raced /\ ~At("y_switch")
  BY DEF TimerInterrupt
<1>2. Frame("y_acquire") \in Frames /\ Frame("y_acquire").pc = "y_acquire"
  BY FrameFacts DEF Pcs
<1>3. /\ running \in Conts /\ Len(running.frames) = Depth /\ Depth \in Nat
      /\ Pushed(running', running, Frame("y_acquire"))
  BY <1>1, <1>2, PushTop, ContFacts DEF BaseInv, TypeInv, Depth
<1>4. /\ running'.owner = running.owner /\ Depth' = Depth + 1 /\ Top' = Frame("y_acquire")
      /\ \A i \in 1 .. Depth : running'.frames[i] = running.frames[i]
  BY <1>3 DEF Pushed, Depth, Top
<1>5. running.frames[Depth].pc # "y_switch" /\ ~At("y_switch")'
  BY <1>1, <1>2, <1>3, <1>4 DEF At, Top
<1>6. \A i \in 1 .. (Depth' - 1) : running'.frames[i].pc # "y_switch"
  BY <1>1, <1>3, <1>4, <1>5 DEF RaceInv
<1> QED
  BY <1>1, <1>4, <1>5, <1>6 DEF RaceInv

LEMMA SwitchRace == BaseInv /\ RaceInv /\ context_switch => RaceInv'
<1> SUFFICES ASSUME BaseInv, RaceInv, context_switch, ~raced PROVE RaceInv'
  BY SwitchFacts DEF RaceInv, BaseInv
<1>1. /\ At("y_switch") /\ Top \in Frames
      /\ running' = saved'[Top.new] \/ running' = Wild
      /\ UNCHANGED <<current_task, raced>>
  BY SwitchFacts DEF BaseInv
<1>2. PICK c \in Conts : /\ Replaced(c, running, Frame("y_return"))
                         /\ saved' = [saved EXCEPT ![Top.old] = c]
  BY SwitchFacts DEF BaseInv
<1>3. /\ running \in Conts /\ Depth > 0 /\ Depth \in Nat /\ Len(running.frames) = Depth
      /\ running.owner \in Contexts \cup {WILD}
  BY <1>1, ContFacts DEF BaseInv, TypeInv, At, Depth
<1>4. /\ Top.old \in Contexts /\ Top.new \in Contexts /\ Top.new = current_task
      /\ running.owner \in Tasks => Top.old = running.owner
  BY <1>1 DEF Frames, RaceInv
<1>5. running.owner # WILD
  BY <1>3 DEF BaseInv, ShapeInv, FramesOK
<1>6. \A i \in 1 .. Len(c.frames) : c.frames[i].pc # "y_switch"
  <2>1. Frame("y_return").pc = "y_return"
    BY DEF Frame
  <2> QED
    BY <1>2, <1>3, <2>1 DEF Replaced, RaceInv
<1>7. c.owner = running.owner /\ saved \in [Contexts -> Conts]
  BY <1>2 DEF Replaced, BaseInv, TypeInv
<1>8. \A t \in Contexts : \A i \in 1 .. Len(saved'[t].frames) :
                             saved'[t].frames[i].pc # "y_switch"
  BY <1>2, <1>4, <1>6, <1>7 DEF RaceInv
<1>9. \A t \in Tasks : saved'[t].owner \in {t, BOOT}
  <2> SUFFICES ASSUME NEW t \in Tasks PROVE saved'[t].owner \in {t, BOOT}
    OBVIOUS
  <2>1. t \in Contexts
    BY DEF Contexts
  <2>2. CASE t # Top.old
    BY <1>2, <1>7, <2>1, <2>2 DEF RaceInv
  <2>3. CASE t = Top.old
    <3>1. saved'[t] = c
      BY <1>2, <1>7, <2>1, <2>3
    <3>2. running.owner \in Tasks \/ running.owner = BOOT
      BY <1>3, <1>5 DEF Contexts, BOOT, NULL
    <3> QED
      BY <1>4, <1>7, <2>3, <3>1, <3>2
  <2> QED
    BY <2>2, <2>3
<1>10. Top.new \in Tasks
  BY <1>1, <1>3 DEF BaseInv, ShapeInv, FramesOK, At, Top
<1>11. CASE running' = saved'[Top.new]
  <2>1. running' \in Conts /\ Depth' \in Nat /\ Depth' = Len(saved'[Top.new].frames)
    BY <1>2, <1>4, <1>7, <1>11, ContFacts DEF Depth
  <2>2. \A i \in 1 .. Depth' : running'.frames[i].pc # "y_switch"
    BY <1>4, <1>8, <1>11, <2>1
  <2>3. ~At("y_switch")'
    BY <2>1, <2>2 DEF At, Top
  <2>4. running'.owner \in {current_task, BOOT}
    BY <1>4, <1>9, <1>10, <1>11
  <2> QED
    BY <1>1, <1>8, <1>9, <2>1, <2>2, <2>3, <2>4, ConstantFacts DEF RaceInv
<1>12. CASE running' = Wild
  <2>1. Depth' = 0 /\ running'.owner = WILD /\ ~At("y_switch")'
    BY <1>12, WildFacts DEF Depth, At
  <2>2. WILD \notin Tasks
    BY ConstantFacts DEF Contexts
  <2> QED
    BY <1>8, <1>9, <2>1, <2>2 DEF RaceInv
<1> QED
  BY <1>1, <1>11, <1>12

LEMMA NextRace == BaseInv /\ RaceInv /\ [Next]_vars => RaceInv'
<1> SUFFICES ASSUME BaseInv, RaceInv, [Next]_vars PROVE RaceInv'
  OBVIOUS
<1> USE DEF Pcs, BootPcs
<1>1. CASE sched_init
  BY <1>1, MoveRace DEF sched_init, observed
<1>2. ASSUME NEW k \in 0 .. 3, sched_create_task(k) PROVE RaceInv'
  BY <1>2, CreateFacts, MoveRace
<1>3. CASE cpu_enable_interrupts
  BY <1>3, MoveRace DEF cpu_enable_interrupts, observed
<1>4. CASE spinlock_acquire("s_acquire", "s_locked")
  BY <1>4, MoveRace DEF spinlock_acquire, observed
<1>5. CASE spinlock_acquire("y_acquire", "y_locked")
  BY <1>5, MoveRace DEF spinlock_acquire, observed
<1>6. CASE sched_schedule
  <2>1. /\ At("s_locked") /\ UNCHANGED <<saved, raced>>
        /\ Goto("halt") \/ Goto("s_start") \/ Goto("y_acquire")
    BY <1>6 DEF sched_schedule, observed
  <2> QED
    BY <2>1, MoveRace
<1>7. CASE StartFirstTask
  <2>1. /\ UNCHANGED <<saved, raced, current_task>>
        /\ running' = Fresh(current_task) \/ running' = Wild
        /\ current_task \in Contexts
    BY <1>7 DEF StartFirstTask, observed, BaseInv, TypeInv, TypeOK, Contexts
  <2>2. /\ running' \in Conts /\ Depth' \in {0, 1}
        /\ Depth' = 1 => running'.frames[1].pc = "body"
        /\ running'.owner \in {current_task, WILD}
    BY <2>1, FreshFacts, WildFacts DEF Depth
  <2>3. ~At("y_switch")' /\ WILD \notin Tasks
    BY <2>2, ConstantFacts DEF At, Top, Contexts
  <2>4. \A i \in 1 .. (Depth' - 1) : running'.frames[i].pc # "y_switch"
    <3>1. 1 .. (0 - 1) = {} /\ 1 .. (1 - 1) = {}
      OBVIOUS
    <3> QED
      BY <2>2, <3>1, Zenon
  <2> QED
    BY <2>1, <2>2, <2>3, <2>4 DEF RaceInv
<1>8. CASE TaskYields
  BY <1>8, MoveRace DEF TaskYields, observed
<1>9. CASE YieldReturns
  BY <1>9, ReturnRace DEF YieldReturns, observed
<1>10. CASE UNCHANGED vars
  BY <1>10 DEF vars, RaceInv, At, Top, Depth
<1> QED
  BY <1>1, <1>2, <1>3, <1>4, <1>5, <1>6, <1>7, <1>8, <1>9, <1>10, YieldRace, TimerRace,
     SwitchRace DEF Next, Execute

\* Without a timer interrupt in the window of sched_yield, context_switch saves a
\* task's context in that task's own control block.
THEOREM ContextsGoHome == Spec => []SavesOwnContext
<1>1. Init => RaceInv
  <2> SUFFICES ASSUME Init PROVE RaceInv
    OBVIOUS
  <2>1. BaseInv /\ running = Boot /\ saved = [t \in Contexts |-> Fresh(t)]
    BY InitBase DEF Init, Contexts
  <2>2. Depth = 1 /\ running.owner = BOOT /\ ~At("y_switch")
    BY <2>1 DEF Boot, Depth, Frame, At, Top
  <2>3. BOOT \notin Tasks /\ Tasks \subseteq Contexts
    BY ConstantFacts DEF Contexts
  <2> QED
    BY <2>1, <2>2, <2>3, FreshFacts DEF RaceInv
<1>2. RaceInv => SavesOwnContext
  BY DEF RaceInv, SavesOwnContext
<1> QED
  BY <1>1, <1>2, InitBase, NextBase, NextRace, PTL DEF Spec

-----------------------------------------------------------------------------
(* Contexts in their own control blocks, and who masks interrupts.         *)

\* Only two steps change whose code runs or what is saved.
LEMMA OwnerStays ==
    ASSUME BaseInv, [Next]_vars, ~StartFirstTask, ~context_switch
    PROVE  saved' = saved /\ running'.owner = running.owner
<1>1. \A from \in Pcs, to \in Pcs : At(from) /\ Goto(to) => running'.owner = running.owner
  BY TopMoves
<1> USE DEF Pcs
<1>2. CASE sched_init
  BY <1>1, <1>2 DEF sched_init
<1>3. ASSUME NEW k \in 0 .. 3, sched_create_task(k)
      PROVE  saved' = saved /\ running'.owner = running.owner
  BY <1>1, <1>3, CreateFacts
<1>4. CASE cpu_enable_interrupts
  BY <1>1, <1>4 DEF cpu_enable_interrupts
<1>5. CASE spinlock_acquire("s_acquire", "s_locked")
  BY <1>1, <1>5 DEF spinlock_acquire
<1>6. CASE spinlock_acquire("y_acquire", "y_locked")
  BY <1>1, <1>6 DEF spinlock_acquire
<1>7. CASE sched_schedule
  <2>1. /\ At("s_locked") /\ UNCHANGED saved
        /\ Goto("halt") \/ Goto("s_start") \/ Goto("y_acquire")
    BY <1>7 DEF sched_schedule
  <2> QED
    BY <1>1, <2>1
<1>8. CASE TaskYields
  BY <1>1, <1>8 DEF TaskYields
<1>9. ASSUME At("y_locked") \/ At("y_return"), Return PROVE running'.owner = running.owner
  <2>1. running \in Conts /\ masked \in BOOLEAN /\ Depth > 0
    BY <1>9 DEF BaseInv, TypeInv, TypeOK, At
  <2>2. Popped(running', running) \/ Goto("halt") \/ Goto("body")
    BY <1>9, <2>1, ReturnFacts
  <2> QED
    BY <1>1, <1>9, <2>2 DEF Popped
<1>10. CASE sched_yield
  <2>1. At("y_locked") /\ UNCHANGED saved /\ (Return \/ Switching)
    BY <1>10, YieldFacts DEF BaseInv
  <2> QED
    BY <1>9, <2>1 DEF Switching, Replaced
<1>11. CASE YieldReturns
  BY <1>9, <1>11 DEF YieldReturns
<1>12. CASE TimerInterrupt
  BY <1>12 DEF TimerInterrupt, BaseInv, TypeInv, Conts
<1> QED
  BY <1>2, <1>3, <1>4, <1>5, <1>6, <1>7, <1>8, <1>10, <1>11, <1>12 DEF Next, Execute, vars

\* A context of which no copy is left does not come back.
LEMMA GoneStays ==
    ASSUME BaseInv, [Next]_vars, NEW t \in Tasks, Gone(t)
    PROVE  Gone(t)'
<1>1. t # WILD
  BY ConstantFacts DEF Contexts
<1>2. CASE StartFirstTask
  <2>1. /\ UNCHANGED saved /\ current_task \in Contexts
        /\ \/ running' = Wild
           \/ running' = Fresh(current_task) /\ saved[current_task] = Fresh(current_task)
    BY <1>2 DEF StartFirstTask, BaseInv, TypeInv, TypeOK, Contexts
  <2> QED
    BY <1>1, <2>1, FreshFacts, WildFacts DEF Gone
<1>3. CASE context_switch
  <2>1. PICK c \in Conts : /\ Replaced(c, running, Frame("y_return"))
                           /\ saved' = [saved EXCEPT ![Top.old] = c]
    BY <1>3, SwitchFacts DEF BaseInv
  <2>2. /\ Top \in Frames /\ saved \in [Contexts -> Conts]
        /\ running' = saved'[Top.new] \/ running' = Wild
    BY <1>3, SwitchFacts DEF BaseInv, TypeInv
  <2>3. Top.old \in Contexts /\ Top.new \in Contexts /\ c.owner = running.owner
    BY <2>1, <2>2 DEF Frames, Replaced
  <2>4. \A u \in Contexts : saved'[u].owner # t
    BY <2>1, <2>2, <2>3 DEF Gone
  <2> QED
    BY <1>1, <2>2, <2>3, <2>4, WildFacts DEF Gone
<1> QED
  BY <1>2, <1>3, OwnerStays DEF Gone

\* Once a context is in a control block that is not its own, one always is; and
\* until then context_switch saves to the control block of what runs.
LEMMA NextOwn ==
    ASSUME BaseInv, OwnInv, [Next]_vars
    PROVE  /\ OwnInv' /\ (AllOwn' => AllOwn)
           /\ context_switch /\ AllOwn' => Top.old = running.owner
<1>1. CASE \E t \in Tasks : Gone(t)
  <2>1. PICK t \in Tasks : Gone(t)
    BY <1>1
  <2>2. Gone(t)'
    BY <2>1, GoneStays
  <2>3. ~AllOwn'
    BY <2>2 DEF Gone, AllOwn, Contexts
  <2> QED
    BY <2>2, <2>3 DEF OwnInv
<1>2. CASE AllOwn /\ context_switch
  <2>1. PICK c \in Conts : /\ Replaced(c, running, Frame("y_return"))
                           /\ saved' = [saved EXCEPT ![Top.old] = c]
    BY <1>2, SwitchFacts DEF BaseInv
  <2>2. /\ Top \in Frames /\ saved \in [Contexts -> Conts] /\ At("y_switch")
        /\ running' = saved'[Top.new] \/ running' = Wild
    BY <1>2, SwitchFacts DEF BaseInv, TypeInv
  <2>3. /\ Top.old \in Contexts /\ Top.new \in Contexts /\ c.owner = running.owner
        /\ Tasks \subseteq Contexts
    BY <2>1, <2>2 DEF Frames, Replaced, Contexts
  <2>4. Top.old = NULL => running.owner = BOOT
    <3>1. Depth \in 1 .. Len(running.frames)
      BY <2>2, ContFacts DEF At, Depth, BaseInv, TypeInv
    <3> QED
      BY <2>2, <3>1 DEF BaseInv, ShapeInv, FramesOK, At, Top
  <2>5. CASE Top.old = running.owner
    BY <1>2, <2>1, <2>2, <2>3, <2>5 DEF OwnInv, AllOwn
  <2>6. CASE Top.old # running.owner
    <3>1. Top.old \in Tasks /\ Top.old # BOOT /\ Top.old # WILD
      BY <2>3, <2>4, <2>6, ConstantFacts DEF Contexts
    <3>2. \A u \in Contexts : saved'[u].owner # Top.old
      <4> SUFFICES ASSUME NEW u \in Contexts PROVE saved'[u].owner # Top.old
        OBVIOUS
      <4>1. CASE u = Top.old
        BY <2>1, <2>2, <2>3, <2>6, <4>1
      <4>2. CASE u # Top.old
        <5>1. saved'[u] = saved[u]
          BY <2>1, <2>2, <2>3, <4>2
        <5>2. u = NULL => saved[u].owner = BOOT
          BY DEF BaseInv, ShapeInv
        <5>3. u # NULL => saved[u].owner = u
          BY <1>2 DEF AllOwn, Contexts
        <5> QED
          BY <3>1, <4>2, <5>1, <5>2, <5>3
      <4> QED
        BY <4>1, <4>2
    <3>3. running'.owner # Top.old
      BY <2>2, <2>3, <3>1, <3>2, WildFacts
    <3> DEFINE o == Top.old
    <3>4. o \in Tasks /\ running'.owner # o /\ \A u \in Contexts : saved'[u].owner # o
      BY <3>1, <3>2, <3>3
    <3> HIDE DEF o
    <3>5. OwnInv' /\ ~AllOwn'
      BY <2>3, <3>4 DEF OwnInv, Gone, AllOwn
    <3> QED
      BY <3>5
  <2> QED
    BY <2>5, <2>6
<1>3. CASE AllOwn /\ ~context_switch
  <2>1. saved' = saved
    BY <1>3, OwnerStays DEF StartFirstTask
  <2> QED
    BY <1>3, <2>1 DEF OwnInv, AllOwn
<1> QED
  BY <1>1, <1>2, <1>3 DEF OwnInv

LEMMA OutstandingFacts ==
    ASSUME TypeInv
    PROVE  /\ \A t \in Contexts : t \in Outstanding <=> /\ t # running.owner
                                                        /\ Len(saved[t].frames) > 1
           /\ WILD \in Outstanding <=> Depth > 1
           /\ Outstanding \subseteq Contexts \cup {WILD}
<1>1. DOMAIN saved = Contexts /\ WILD \notin Contexts
  BY ConstantFacts DEF TypeInv
<1> QED
  BY <1>1 DEF Outstanding, InHandler

Quiet == At("init") \/ At("create") \/ At("halt")

\* A step of the running code that neither switches nor enters or leaves a handler.
LEMMA MaskStays ==
    ASSUME MaskInv, AllOwn, Depth > 0, Depth' = Depth, running'.owner = running.owner,
           saved' = saved, Quiet' \/ (~Quiet /\ masked' = masked)
    PROVE  MaskInv'
<1>1. Outstanding' = Outstanding
  BY DEF Outstanding, InHandler
<1> QED
  BY <1>1 DEF MaskInv, Quiet

LEMMA MoveMask ==
    ASSUME BaseInv, MaskInv, AllOwn, NEW from \in Pcs, NEW to \in Pcs, At(from), Goto(to),
           saved' = saved, to \in QuietPcs \/ (from \notin QuietPcs /\ masked' = masked)
    PROVE  MaskInv'
<1>1. /\ running'.owner = running.owner /\ Depth' = Depth /\ Depth > 0
      /\ \A pc : At(pc)' <=> pc = to
  BY TopMoves
<1>2. Quiet' <=> to \in QuietPcs
  BY <1>1 DEF Quiet, QuietPcs
<1>3. Quiet <=> from \in QuietPcs
  BY DEF Quiet, QuietPcs, At
<1> QED
  BY <1>1, <1>2, <1>3, MaskStays

LEMMA ReturnMask ==
    ASSUME BaseInv, MaskInv, AllOwn, At("y_locked") \/ At("y_return"), Return, saved' = saved,
           BaseInv'
    PROVE  MaskInv'
<1>1. PICK from \in {"y_locked", "y_return"} : At(from)
  OBVIOUS
<1>2. running \in Conts /\ Depth > 0 /\ Depth \in Nat /\ masked \in BOOLEAN
  BY ContFacts DEF BaseInv, TypeInv, TypeOK, At, Depth
<1>3. CASE Depth > 1 /\ Popped(running', running) /\ masked' = FALSE
  <2>1. ~At("init") /\ ~At("create") /\ ~At("halt")
    BY <1>1 DEF At
  <2>2. PICK h \in Contexts \cup {WILD} : Outstanding = {h}
    BY <1>2, <1>3, <2>1, OutstandingFacts DEF MaskInv, BaseInv
  <2>3. WILD \in Outstanding /\ WILD \notin Contexts /\ Depth <= 2
    BY <1>2, <1>3, OutstandingFacts, ConstantFacts DEF BaseInv, MaskInv
  <2>4. \A t \in Contexts : t \notin Outstanding
    BY <2>2, <2>3
  <2>5. running'.owner = running.owner /\ Depth' = 1
    <3>1. running'.owner = running.owner /\ Depth' = Depth - 1
      BY <1>3 DEF Popped, Depth
    <3>2. Depth = 2
      BY <1>2, <1>3, <2>3
    <3> QED
      BY <3>1, <3>2
  <2>6. Outstanding' = {}
    <3>1. /\ \A t \in Contexts : t \in Outstanding' <=> /\ t # running'.owner
                                                         /\ Len(saved'[t].frames) > 1
          /\ WILD \in Outstanding' <=> Depth' > 1
          /\ Outstanding' \subseteq Contexts \cup {WILD}
      <4>1. DOMAIN saved' = Contexts /\ WILD \notin Contexts
        BY ConstantFacts DEF BaseInv, TypeInv
      <4> QED
        BY <4>1 DEF Outstanding, InHandler
    <3>2. \A t \in Contexts : t \notin Outstanding'
      BY <2>4, <2>5, <3>1, OutstandingFacts DEF BaseInv
    <3>3. WILD \notin Outstanding'
      BY <2>5, <3>1
    <3> QED
      BY <3>1, <3>2, <3>3
  <2> QED
    BY <1>2, <1>3, <2>5, <2>6 DEF MaskInv
<1>4. CASE Goto("halt") \/ (Goto("body") /\ masked' = masked)
  BY <1>1, <1>4, MoveMask DEF Pcs, QuietPcs
<1> QED
  BY <1>2, <1>3, <1>4, ReturnFacts

LEMMA EnableMask == BaseInv /\ cpu_enable_interrupts => MaskInv'
<1> SUFFICES ASSUME BaseInv, cpu_enable_interrupts PROVE MaskInv'
  OBVIOUS
<1>1. At("create") /\ Goto("s_acquire") /\ masked' = FALSE /\ saved' = saved
  BY DEF cpu_enable_interrupts
<1>2. /\ running'.owner = running.owner /\ Depth' = Depth /\ Depth \in Nat
      /\ Depth > 0 /\ Len(running.frames) = Depth
  BY <1>1, TopMoves DEF Pcs
<1>3. Depth = 1
  BY <1>1, <1>2 DEF BaseInv, ShapeInv, FramesOK, At, Top, HandlerPcs
<1>4. DOMAIN saved = Contexts /\ \A t \in Contexts : saved[t] = Fresh(t)
  BY <1>1 DEF BaseInv, StartInv, TypeInv
<1>5. \A t \in Contexts : Len(saved[t].frames) <= 2 /\ ~(Len(saved[t].frames) > 1)
  BY <1>4, FreshDepth, Zenon
<1>6. Outstanding' = {}
  <2>1. ~InHandler'
    BY <1>2, <1>3 DEF InHandler
  <2>2. {t \in DOMAIN saved \ {running.owner} : Len(saved[t].frames) > 1} = {}
    BY <1>4, <1>5, Zenon
  <2> QED
    BY <1>1, <1>2, <2>1, <2>2 DEF Outstanding
<1>7. saved[NULL] = Fresh(NULL)
  BY <1>4 DEF Contexts
<1>8. Depth' <= 2 /\ \A t \in Contexts : Len(saved'[t].frames) <= 2
  <2>1. Depth' <= 2
    BY <1>2, <1>3
  <2> QED
    BY <1>1, <1>5, <2>1, Zenon
<1> QED
  BY <1>1, <1>6, <1>7, <1>8, Zenon DEF MaskInv

LEMMA StartTaskMask == BaseInv /\ MaskInv /\ AllOwn /\ StartFirstTask => MaskInv'
<1> SUFFICES ASSUME BaseInv, MaskInv, AllOwn, StartFirstTask PROVE MaskInv'
  OBVIOUS
<1>1. /\ At("s_start") /\ UNCHANGED <<saved, masked>> /\ current_task \in Contexts
      /\ \/ running' = Wild
         \/ running' = Fresh(current_task) /\ saved[current_task] = Fresh(current_task)
  BY DEF StartFirstTask, BaseInv, TypeInv, TypeOK, Contexts
<1>2. /\ Depth \in Nat /\ Depth > 0 /\ Len(running.frames) = Depth
  BY <1>1, ContFacts DEF At, Depth, BaseInv, TypeInv
<1>3. Depth = 1 /\ running.owner = BOOT /\ current_task # NULL
  <2>1. running.frames[Depth].pc = "s_start" /\ Depth \in 1 .. Len(running.frames)
    BY <1>1, <1>2 DEF At, Top
  <2>2. running.owner = BOOT /\ ~(Depth > 1)
    BY <2>1 DEF BaseInv, ShapeInv, FramesOK, HandlerPcs, BootPcs
  <2>3. current_task # NULL
    BY <1>2, <2>1 DEF BaseInv, StartInv
  <2> QED
    BY <1>2, <2>2, <2>3
<1>4. CASE running' = Wild
  BY <1>4, WildFacts DEF MaskInv, Depth
<1>5. CASE running' = Fresh(current_task) /\ saved[current_task] = Fresh(current_task)
  <2>1. running'.owner = current_task /\ Depth' = 1 /\ Len(saved[current_task].frames) = 1
    BY <1>1, <1>5, FreshFacts DEF Depth
  <2>2. Len(saved[NULL].frames) = 1
    BY <1>2, <1>3, FreshFacts DEF MaskInv, Contexts
  <2>3. Outstanding' = Outstanding
    <3>1. ~InHandler /\ ~InHandler'
      BY <1>3, <2>1 DEF InHandler
    <3>2. {t \in DOMAIN saved \ {running.owner} : Len(saved[t].frames) > 1}
            = {t \in DOMAIN saved \ {running'.owner} : Len(saved[t].frames) > 1}
      <4>1. ~(Len(saved[NULL].frames) > 1) /\ ~(Len(saved[current_task].frames) > 1)
        BY <2>1, <2>2
      <4>2. running.owner = NULL /\ running'.owner = current_task
        BY <1>3, <2>1 DEF BOOT, NULL
      <4> QED
        BY <4>1, <4>2, Zenon
    <3> QED
      BY <1>1, <3>1, <3>2 DEF Outstanding
  <2>4. ~At("init") /\ ~At("create") /\ ~At("halt")
    BY <1>1 DEF At
  <2>5. current_task # BOOT
    BY <1>3 DEF BOOT, NULL
  <2> QED
    BY <1>1, <1>2, <2>1, <2>3, <2>4, <2>5 DEF MaskInv
<1> QED
  BY <1>1, <1>4, <1>5

LEMMA TimerMask == BaseInv /\ MaskInv /\ AllOwn /\ TimerInterrupt => MaskInv'
<1> SUFFICES ASSUME BaseInv, MaskInv, AllOwn, TimerInterrupt PROVE MaskInv'
  OBVIOUS
<1>1. /\ ~masked /\ masked' /\ Depth \in 1 .. MaxHandlers /\ UNCHANGED saved
      /\ running' = [running EXCEPT !.frames = Append(@, Frame("y_acquire"))]
  BY DEF TimerInterrupt
<1>2. Frame("y_acquire") \in Frames
  BY FrameFacts DEF Pcs
<1>3. /\ running \in Conts /\ Len(running.frames) = Depth /\ Depth \in Nat /\ Depth > 0
      /\ Pushed(running', running, Frame("y_acquire"))
  BY <1>1, <1>2, PushTop, ContFacts DEF BaseInv, TypeInv, Depth
<1>4. running'.owner = running.owner /\ Depth' = Depth + 1
  BY <1>3 DEF Pushed, Depth
<1>5. Outstanding = {}
  BY <1>1, <1>3 DEF BaseInv, StartInv, MaskInv
<1>6. Depth = 1
  BY <1>3, <1>5, OutstandingFacts DEF BaseInv
<1>7. Outstanding' = {WILD}
  <2>1. {t \in DOMAIN saved \ {running.owner} : Len(saved[t].frames) > 1} = {}
    BY <1>5 DEF Outstanding
  <2>2. InHandler'
    BY <1>4, <1>6 DEF InHandler
  <2> QED
    BY <1>1, <1>4, <2>1, <2>2 DEF Outstanding
<1>8. Depth' <= 2 /\ \A t \in Contexts : Len(saved'[t].frames) <= 2
  BY <1>1, <1>3, <1>4, <1>6 DEF MaskInv
<1>9. running'.owner = BOOT => saved'[NULL] = Fresh(NULL)
  BY <1>1, <1>3, <1>4 DEF MaskInv
<1> QED
  BY <1>1, <1>7, <1>8, <1>9, Zenon DEF MaskInv

\* What runs leaves its handler, if it is in one, in its control block, and what
\* is resumed takes its own out of its control block.
LEMMA SwitchMask ==
    ASSUME BaseInv, BaseInv', MaskInv, AllOwn, AllOwn', context_switch,
           Top.old = running.owner
    PROVE  MaskInv'
<1>1. PICK c \in Conts : /\ Replaced(c, running, Frame("y_return"))
                         /\ saved' = [saved EXCEPT ![Top.old] = c]
  BY SwitchFacts DEF BaseInv
<1>2. /\ Top \in Frames /\ saved \in [Contexts -> Conts] /\ At("y_switch")
      /\ running' = saved'[Top.new] \/ running' = Wild
      /\ UNCHANGED masked
  BY SwitchFacts DEF BaseInv, TypeInv
<1>3. /\ Depth \in Nat /\ Depth > 0 /\ Len(running.frames) = Depth /\ Len(c.frames) = Depth
  BY <1>1, <1>2, ContFacts DEF At, Depth, BaseInv, TypeInv, Replaced
<1>4. CASE running' = Wild
  BY <1>4, WildFacts DEF MaskInv, Depth
<1>5. CASE running' = saved'[Top.new]
  <2> DEFINE o == Top.old
             n == Top.new
  <2>1. o \in Contexts /\ n \in Tasks /\ n \in Contexts /\ n # BOOT
    <3>1. o \in Contexts /\ n \in Tasks
      BY <1>2, <1>3 DEF Frames, BaseInv, ShapeInv, FramesOK, At, Top
    <3> QED
      BY <3>1, ConstantFacts DEF Contexts
  <2>2. /\ saved'[o] = c /\ running.owner = o
        /\ \A t \in Contexts : t # o => saved'[t] = saved[t]
    BY <1>1, <1>2, <2>1
  <2>3. running'.owner = n /\ Depth' = Len(saved'[n].frames)
    BY <1>5, <2>1 DEF AllOwn, Depth
  <2> HIDE DEF o, n
  <2>4. /\ Depth <= 2 /\ \A t \in Contexts : Len(saved[t].frames) <= 2
        /\ \/ ~masked /\ Outstanding = {}
           \/ masked /\ \E h \in Contexts \cup {WILD} : Outstanding = {h}
    <3>1. ~At("init") /\ ~At("create") /\ ~At("halt")
      BY <1>2 DEF At
    <3> QED
      BY <1>3, <3>1 DEF MaskInv
  <2>5. Depth' <= 2 /\ \A t \in Contexts : Len(saved'[t].frames) <= 2
    BY <1>3, <2>1, <2>2, <2>3, <2>4
  <2>6. /\ \A t \in Contexts : t \in Outstanding <=> t # o /\ Len(saved[t].frames) > 1
        /\ WILD \in Outstanding <=> Depth > 1
        /\ Outstanding \subseteq Contexts \cup {WILD}
    BY <2>2, OutstandingFacts DEF BaseInv
  <2>7. /\ \A t \in Contexts : t \in Outstanding' <=> t # n /\ Len(saved'[t].frames) > 1
        /\ WILD \in Outstanding' <=> Len(saved'[n].frames) > 1
        /\ Outstanding' \subseteq Contexts \cup {WILD}
    <3>1. DOMAIN saved' = Contexts /\ WILD \notin Contexts
      BY ConstantFacts DEF BaseInv, TypeInv
    <3> QED
      BY <2>3, <3>1 DEF Outstanding, InHandler
  <2>8. Outstanding = {} => Outstanding' = {}
    BY <1>3, <2>1, <2>2, <2>6, <2>7
  <2>9. ASSUME NEW h \in Contexts \cup {WILD}, Outstanding = {h}
        PROVE  \E g \in Contexts \cup {WILD} : Outstanding' = {g}
    <3>1. CASE n = o
      <4>1. Outstanding' = {h}
        BY <1>3, <2>1, <2>2, <2>6, <2>7, <2>9, <3>1
      <4> QED
        BY <4>1
    <3>2. CASE n # o /\ h = WILD
      <4>1. WILD \notin Contexts
        BY ConstantFacts
      <4>2. Depth > 1 /\ \A t \in Contexts : t # o => ~(Len(saved[t].frames) > 1)
        BY <2>6, <2>9, <3>2, <4>1
      <4>3. Outstanding' = {o}
        BY <1>3, <2>1, <2>2, <2>7, <3>2, <4>1, <4>2
      <4> QED
        BY <2>1, <4>3
    <3>3. CASE n # o /\ h = n
      <4>1. WILD \notin Contexts
        BY ConstantFacts
      <4>2. /\ ~(Depth > 1) /\ Len(saved[n].frames) > 1
            /\ \A t \in Contexts : t # o /\ t # n => ~(Len(saved[t].frames) > 1)
        BY <2>1, <2>6, <2>9, <3>3, <4>1
      <4>3. Outstanding' = {WILD}
        BY <1>3, <2>1, <2>2, <2>7, <3>3, <4>1, <4>2
      <4> QED
        BY <4>3
    <3>4. CASE n # o /\ h # n /\ h # WILD
      <4>1. WILD \notin Contexts /\ h \in Contexts
        BY <3>4, ConstantFacts
      <4>2. /\ ~(Depth > 1) /\ Len(saved[h].frames) > 1 /\ h # o
            /\ \A t \in Contexts : t # o /\ t # h => ~(Len(saved[t].frames) > 1)
        BY <2>1, <2>6, <2>9, <3>4, <4>1
      <4>3. Outstanding' = {h}
        BY <1>3, <2>1, <2>2, <2>7, <3>4, <4>1, <4>2
      <4> QED
        BY <4>3
    <3> QED
      BY <3>1, <3>2, <3>3, <3>4
  <2>10. running'.owner # BOOT
    BY <2>1, <2>3
  <2>11. \/ ~masked' /\ Outstanding' = {}
         \/ masked' /\ \E h \in Contexts \cup {WILD} : Outstanding' = {h}
    BY <1>2, <2>4, <2>8, <2>9, Zenon
  <2> QED
    BY <2>5, <2>10, <2>11, Zenon DEF MaskInv
<1> QED
  BY <1>2, <1>4, <1>5

LEMMA NextMask ==
    ASSUME BaseInv, BaseInv', OwnInv, MaskInv, [Next]_vars
    PROVE  MaskInv'
<1> SUFFICES ASSUME AllOwn' PROVE MaskInv'
  BY DEF MaskInv
<1>1. AllOwn /\ (context_switch => Top.old = running.owner)
  BY NextOwn
<1> USE DEF Pcs, QuietPcs
<1>2. CASE sched_init
  BY <1>1, <1>2, MoveMask DEF sched_init
<1>3. ASSUME NEW k \in 0 .. 3, sched_create_task(k) PROVE MaskInv'
  BY <1>1, <1>3, CreateFacts, MoveMask
<1>4. CASE spinlock_acquire("s_acquire", "s_locked")
  BY <1>1, <1>4, MoveMask DEF spinlock_acquire
<1>5. CASE spinlock_acquire("y_acquire", "y_locked")
  BY <1>1, <1>5, MoveMask DEF spinlock_acquire
<1>6. CASE sched_schedule
  <2>1. /\ At("s_locked") /\ UNCHANGED saved
        /\ \/ Goto("halt")
           \/ Goto("s_start") /\ UNCHANGED masked
           \/ Goto("y_acquire") /\ UNCHANGED masked
    BY <1>6, Zenon DEF sched_schedule
  <2> QED
    BY <1>1, <2>1, MoveMask
<1>7. CASE TaskYields
  BY <1>1, <1>7, MoveMask DEF TaskYields
<1>8. CASE sched_yield
  <2>1. At("y_locked") /\ UNCHANGED saved /\ (Return \/ Switching)
    BY <1>8, YieldFacts DEF BaseInv
  <2>2. CASE Return
    BY <1>1, <2>1, <2>2, ReturnMask
  <2>3. CASE Switching
    <3>1. running'.owner = running.owner /\ Depth' = Depth /\ Depth > 0 /\ masked' = masked
      BY <2>1, <2>3 DEF Switching, Replaced, Depth, At
    <3>2. ~Quiet
      BY <2>1 DEF Quiet, At
    <3> QED
      BY <1>1, <2>1, <3>1, <3>2, MaskStays
  <2> QED
    BY <2>1, <2>2, <2>3
<1>9. CASE YieldReturns
  BY <1>1, <1>9, ReturnMask DEF YieldReturns
<1>10. CASE context_switch
  BY <1>1, <1>10, SwitchMask
<1>11. CASE UNCHANGED vars
  BY <1>11 DEF vars, MaskInv, AllOwn, At, Top, Depth, Outstanding, InHandler
<1> QED
  BY <1>1, <1>2, <1>3, <1>4, <1>5, <1>6, <1>7, <1>8, <1>9, <1>10, <1>11, EnableMask,
     StartTaskMask, TimerMask DEF Next, Execute

\* As long as no context was saved over another one, interrupts are masked exactly
\* while one handler has been entered and has not returned.
THEOREM OneHandlerMasks == Spec => []MaskedByOneHandler
<1>1. Init => OwnInv /\ MaskInv
  <2> SUFFICES ASSUME Init PROVE OwnInv /\ MaskInv
    OBVIOUS
  <2>1. running = Boot /\ saved = [t \in Contexts |-> Fresh(t)] /\ Tasks \subseteq Contexts
    BY DEF Init, Contexts
  <2>2. Depth = 1 /\ At("init")
    BY <2>1 DEF Boot, Depth, Frame, At, Top
  <2>3. saved[NULL] = Fresh(NULL)
    BY <2>1 DEF Contexts
  <2>4. \A t \in Contexts : saved[t].owner = t /\ Len(saved[t].frames) <= 2
    BY <2>1, FreshDepth, Zenon
  <2>5. Depth <= 2
    BY <2>2
  <2> QED
    BY <2>1, <2>2, <2>3, <2>4, <2>5, Zenon DEF OwnInv, AllOwn, MaskInv
<1>2. BaseInv /\ OwnInv /\ [Next]_vars => OwnInv'
  BY NextOwn
<1>3. BaseInv /\ BaseInv' /\ OwnInv /\ MaskInv /\ [Next]_vars => MaskInv'
  BY NextMask
<1>4. BaseInv /\ MaskInv => MaskedByOneHandler
  <2> SUFFICES ASSUME BaseInv, MaskInv, AllOwn, Depth > 0,
                      ~At("init"), ~At("create"), ~At("halt")
               PROVE  Depth <= 2 /\ Cardinality(Outstanding) = IF masked THEN 1 ELSE 0
    BY DEF MaskedByOneHandler, AllOwn
  <2>1. /\ Depth <= 2
        /\ \/ ~masked /\ Outstanding = {}
           \/ masked /\ \E h \in Contexts \cup {WILD} : Outstanding = {h}
    BY DEF MaskInv
  <2> QED
    BY <2>1, FS_EmptySet, FS_Singleton
<1> QED
  BY <1>1, <1>2, <1>3, <1>4, InitBase, NextBase, PTL DEF Spec
=============================================================================
