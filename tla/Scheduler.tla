------------------------------ MODULE Scheduler ------------------------------
(***************************************************************************)
(* The single-processor preemptive scheduler of kernel/scheduler/init.cpp. *)
(*                                                                         *)
(* The processor executes on one stack at a time (cpu).  Each stack has a  *)
(* program point (pc) and, when it is not executing, an interrupt_args     *)
(* frame from which it resumes; of that frame the model keeps the          *)
(* interrupt flag (saved_intr), the program point being pc itself.         *)
(* current_task and stack_pointer are the kernel's own idea of who runs    *)
(* and where each task resumes: that they agree with cpu is a property,    *)
(* not an assumption.                                                      *)
(*                                                                         *)
(* One action is one stretch of code that shared state can be seen before  *)
(* or after: a timer tick may come between any two actions.  An interrupt  *)
(* gate clears the interrupt flag, so the tick's handler is one action.    *)
(***************************************************************************)
EXTENDS IntrusiveList, Sequences

CONSTANTS
    Tasks,      \* the struct task objects
    Stacks,     \* the stacks the processor can run on; a task's own stack is
                \* named by the task
    Lists,      \* list heads a task can block on (the m_list of each mutex)
    Boot,       \* the tasks linked when scheduler::start() runs, in ring
                \* order; the first is the idle task
    MaxNest     \* bound: scoped_preemptlock objects alive on one stack

Idle == Boot[1]

Booted == {Boot[i] : i \in DOMAIN Boot}

ASSUME BootAssumption ==
    /\ Boot \in Seq(Tasks) /\ Len(Boot) > 0
    /\ \A i, j \in DOMAIN Boot : Boot[i] = Boot[j] => i = j

ASSUME StacksAssumption == Tasks \subseteq Stacks

ASSUME ListsAssumption == Tasks \cap Lists = {}

ASSUME FiniteAssumption == IsFiniteSet(Tasks) /\ IsFiniteSet(Lists)

ASSUME MaxNestAssumption == MaxNest \in Nat

VARIABLES
    current_task,       \* scheduler::current_task
    cpu,                \* the stack the processor executes on
    stack_pointer,      \* task::stack_pointer: the stack a task resumes on
    scheduling,         \* task::scheduling, the ring of runnable tasks
    blocking,           \* task::blocking and the list heads in Lists
    preempt_counter,
    intr,               \* the processor's interrupt flag
    saved_intr,         \* the interrupt flag in the frame of each stack
    pc,
    nest,               \* scoped_preemptlock objects alive on each stack
    rc,                 \* task::rc, 0 for a slot not allocated yet
    linking,            \* the argument of the link_task call on each stack
    panic               \* "no", or the kassert that failed

sched_vars == <<current_task, cpu, stack_pointer, scheduling, blocking,
                preempt_counter, intr, saved_intr, pc, nest, rc,
                linking, panic>>

frame_vars == <<current_task, cpu, stack_pointer, intr, saved_intr>>

Nodes == Tasks \cup Lists

----------------------------------------------------------------------------
(***************************************************************************)
(* State left by initialize(), the link_task calls of the boot code and    *)
(* start(): the idle task's frame is entered, with interrupts off because  *)
(* every new frame has EFLAGS 0.                                           *)
(***************************************************************************)
Ring(s) ==
    LET at(t)   == CHOOSE i \in DOMAIN s : s[i] = t
        next(t) == s[(at(t) % Len(s)) + 1]
        prev(t) == s[IF at(t) = 1 THEN Len(s) ELSE at(t) - 1]
    IN  [l_next |-> [t \in Tasks |-> IF t \in Booted THEN next(t) ELSE t],
         l_prev |-> [t \in Tasks |-> IF t \in Booted THEN prev(t) ELSE t]]

SchedInit ==
    /\ current_task = Idle
    /\ cpu = Idle
    /\ stack_pointer = [t \in Tasks |-> t]
    /\ scheduling = Ring(Boot)
    /\ blocking = Fresh(Nodes)
    /\ preempt_counter = 0
    /\ intr = FALSE
    /\ saved_intr = [s \in Stacks |-> FALSE]
    /\ pc = [s \in Stacks |-> "start"]
    /\ nest = [s \in Stacks |-> 0]
    /\ rc = [t \in Tasks |-> IF t = Idle THEN 1
                             ELSE IF t \in Booted THEN 2 ELSE 0]
    /\ linking = [s \in Stacks |-> Idle]
    /\ panic = "no"

----------------------------------------------------------------------------
(***************************************************************************)
(* Building blocks.                                                        *)
(***************************************************************************)

At(point) == panic = "no" /\ pc[cpu] = point

Goto(point) == pc' = [pc EXCEPT ![cpu] = point]

\* A failed kassert logs and halts: nothing else of the machine changes.
kpanic(what, rest) == panic' = what /\ UNCHANGED rest

is_blocked(t) == ~lonely(blocking, t)

\* Mutant: a while loop in place of the do-while.
pick_next_task_while(n) ==
    LET ring == <<current_task>> \o After(scheduling, Tasks, current_task)
    IN  \E k \in DOMAIN ring :
            /\ ring[k] = n
            /\ ~is_blocked(n)
            /\ \A j \in 1 .. k - 1 : is_blocked(ring[j])

\* Mutant: blocked tasks are not skipped.
pick_next_task_any(n) == n = scheduling.l_next[current_task]

\* The do-while of pick_next_task, started at current_task, stops at n.
pick_next_task(n) ==
    LET ring == Append(After(scheduling, Tasks, current_task), current_task)
    IN  \E k \in DOMAIN ring :
            /\ ring[k] = n
            /\ ~is_blocked(n)
            /\ \A j \in 1 .. k - 1 : is_blocked(ring[j])

\* Save the frame of the running stack in its task, with the interrupt flag
\* it will resume with, and enter the frame of the task picked next.
SwitchFrom(flag) ==
    /\ stack_pointer' = [stack_pointer EXCEPT ![current_task] = cpu]
    /\ saved_intr' = [saved_intr EXCEPT ![cpu] = flag]
    /\ \E n \in Tasks :
            /\ pick_next_task(n)
            /\ current_task' = n
            /\ cpu' = stack_pointer'[n]
            /\ intr' = saved_intr'[cpu']

preempt_up == preempt_counter' = preempt_counter + 1

\* The new value must not be (uint32_t)-1.
preempt_down ==
    IF preempt_counter = 0
    THEN kpanic("preempt_down", preempt_counter)
    ELSE preempt_counter' = preempt_counter - 1 /\ panic' = panic

----------------------------------------------------------------------------
(***************************************************************************)
(* Actions.                                                                *)
(***************************************************************************)

\* Mutant: the tick does not look at preempt_counter.
timeslice_passed_unlocked ==
    /\ panic = "no"
    /\ intr
    /\ SwitchFrom(TRUE)
    /\ UNCHANGED <<scheduling, blocking, preempt_counter, pc, nest, rc,
                   linking, panic>>

\* timeslice_passed: a tick that finds preemption disabled changes nothing,
\* and is a stuttering step.
timeslice_passed ==
    /\ panic = "no"
    /\ intr
    /\ preempt_counter = 0
    /\ SwitchFrom(TRUE)
    /\ UNCHANGED <<scheduling, blocking, preempt_counter, pc, nest, rc,
                   linking, panic>>

\* task_wrapper enables interrupts, then calls the task's function.
task_wrapper ==
    /\ At("start")
    /\ intr' = TRUE
    /\ Goto("run")
    /\ UNCHANGED <<current_task, cpu, stack_pointer, saved_intr, scheduling,
                   blocking, preempt_counter, nest, rc, linking, panic>>

\* The task's function opens a scope with a scoped_preemptlock...
scoped_preemptlock ==
    /\ At("run")
    /\ cpu # Idle
    /\ nest[cpu] < MaxNest
    /\ preempt_up
    /\ nest' = [nest EXCEPT ![cpu] = @ + 1]
    /\ UNCHANGED <<frame_vars, scheduling, blocking, pc, rc, linking,
                   panic>>

\* ... and leaves it.
scoped_preemptlock_end ==
    /\ At("run")
    /\ nest[cpu] > 0
    /\ preempt_down
    /\ nest' = [nest EXCEPT ![cpu] = @ - 1]
    /\ UNCHANGED <<frame_vars, scheduling, blocking, pc, rc, linking>>

\* link_task(task::allocate(f)).  allocate holds a scoped_preemptlock from
\* its first statement to its last.
allocate ==
    /\ At("run")
    /\ cpu # Idle
    /\ \E t \in Tasks :
            /\ rc[t] = 0
            /\ rc' = [rc EXCEPT ![t] = 1]
            /\ linking' = [linking EXCEPT ![cpu] = t]
    /\ Goto("link")
    /\ UNCHANGED <<frame_vars, scheduling, blocking, preempt_counter, nest,
                   panic>>

\* Mutant: add_after_self forgets the new node's l_next.
link_node_short ==
    /\ At("link")
    /\ scheduling' = [scheduling EXCEPT !.l_prev[linking[cpu]] = current_task]
    /\ rc' = [rc EXCEPT ![linking[cpu]] = @ + 1]
    /\ Goto("link_prev")
    /\ UNCHANGED <<frame_vars, blocking, preempt_counter, nest, linking,
                   panic>>

(***************************************************************************)
(* link_task takes a reference and no lock: add_after_self's stores are    *)
(* separate steps.                                                         *)
(* Both fields of the new node are written in one, as nobody else can      *)
(* reach the node yet.                                                     *)
(***************************************************************************)
link_node ==
    /\ At("link")
    /\ LET t == linking[cpu] IN
       scheduling' =
         [l_next |-> [scheduling.l_next EXCEPT
                        ![t] = scheduling.l_next[current_task]],
          l_prev |-> [scheduling.l_prev EXCEPT ![t] = current_task]]
    /\ rc' = [rc EXCEPT ![linking[cpu]] = @ + 1]
    /\ Goto("link_prev")
    /\ UNCHANGED <<frame_vars, blocking, preempt_counter, nest, linking,
                   panic>>

link_prev ==
    /\ At("link_prev")
    /\ scheduling' = [scheduling EXCEPT
            !.l_prev[scheduling.l_next[current_task]] = linking[cpu]]
    /\ Goto("link_next")
    /\ UNCHANGED <<frame_vars, blocking, preempt_counter, nest, rc,
                   linking, panic>>

link_next ==
    /\ At("link_next")
    /\ scheduling' = [scheduling EXCEPT !.l_next[current_task] = linking[cpu]]
    /\ Goto("run")
    /\ UNCHANGED <<frame_vars, blocking, preempt_counter, nest, rc,
                   linking, panic>>

\* kpanic ends in a hlt loop with interrupts off.
Halt == panic # "no" /\ UNCHANGED sched_vars

SchedNext ==
    \/ timeslice_passed
    \/ task_wrapper
    \/ scoped_preemptlock
    \/ scoped_preemptlock_end
    \/ allocate
    \/ link_node
    \/ link_prev
    \/ link_next

SchedPoints == {"start", "run", "link", "link_prev", "link_next"}

(***************************************************************************)
(* The processor keeps executing, and the scopes of scoped_preemptlock     *)
(* objects end.  The tick is not synchronised with the code it interrupts, *)
(* so one that is possible again and again is not missed for ever.         *)
(***************************************************************************)
SchedSpec ==
    /\ SchedInit
    /\ [][SchedNext]_sched_vars
    /\ WF_sched_vars(SchedNext)
    /\ WF_sched_vars(scoped_preemptlock_end)
    /\ SF_sched_vars(timeslice_passed)

----------------------------------------------------------------------------
(***************************************************************************)
(* Properties.                                                             *)
(***************************************************************************)

\* The ways the kernel, as far as it is modelled, can stop.
Panics == {"no", "preempt_down", "lock by the owner", "unlock by another",
           "resumed without the mutex", "unblock", "yield", "virtual_memory",
           "release_ref", "frame overwritten"}

\* The types of the scheduler's variables, for a set of program points.
SchedTypeOK(points) ==
    /\ current_task \in Tasks
    /\ cpu \in Stacks
    /\ stack_pointer \in [Tasks -> Stacks]
    /\ scheduling \in Heap(Tasks)
    /\ blocking \in Heap(Nodes)
    /\ preempt_counter \in Nat
    /\ intr \in BOOLEAN
    /\ saved_intr \in [Stacks -> BOOLEAN]
    /\ pc \in [Stacks -> points]
    /\ nest \in [Stacks -> 0 .. MaxNest]
    /\ rc \in [Tasks -> Nat]
    /\ linking \in [Stacks -> Tasks]
    /\ panic \in Panics

\* What the walk of pick_next_task can reach.
InRing(t) ==
    \/ t = current_task
    \/ LET ring == After(scheduling, Tasks, current_task)
       IN  \E i \in DOMAIN ring : ring[i] = t

\* Stacks inside a link_task call.
Linking == {s \in Stacks : pc[s] \in {"link", "link_prev", "link_next"}}

\* link_task's unlocked stores: whatever tick lands between them, and
\* however many tasks are in the middle of a link_task, the ring that
\* pick_next_task walks is a ring (it comes back to current_task) and loses
\* nobody: a task whose link_task has returned is in it.  When no link_task
\* is in progress the two directions of the ring agree.
RingIntact ==
    /\ \A t \in Tasks :
            \/ InRing(t)
            \/ rc[t] = 0
            \/ \E s \in Linking : linking[s] = t
    /\ Len(After(scheduling, Tasks, current_task)) < Cardinality(Tasks)
    /\ Linking = {} => Linked(scheduling, Tasks)

\* timeslice_passed and enter_task: the kernel's current_task is the task
\* whose stack the processor is on, and every other task resumes on its own
\* stack with preemption enabled: the global preempt_counter is what the
\* running task's guards alone account for.
SwitchConsistent ==
    /\ cpu = current_task
    /\ \A t \in Tasks : stack_pointer[t] = t
    /\ \A t \in Tasks : t # cpu => nest[t] = 0
    /\ preempt_counter = nest[cpu]

\* Round robin: a task whose link_task has returned gets the processor again
\* and again, although tasks disable preemption and link others at will.
EveryTaskRuns ==
    \A t \in Tasks : InRing(t) ~> (cpu = t)
=============================================================================
