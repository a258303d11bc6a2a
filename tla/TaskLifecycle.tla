---------------------------- MODULE TaskLifecycle ----------------------------
(***************************************************************************)
(* The end of a task: the second half of task_wrapper and                  *)
(* _sched_final_free (kernel/scheduler/init.cpp), with the references that *)
(* keep a struct task alive.  The last steps run on stack_free_stack, the  *)
(* one stack shared by all the tasks that ever exit.                       *)
(***************************************************************************)
EXTENDS Mutex

CONSTANT stack_free_stack

ASSUME FreeStackAssumption == stack_free_stack \in Stacks \ Tasks

VARIABLES
    kept,           \* tasks on which someone holds a reference of their own
    freed,          \* tasks whose stack has been given back to kmem
    free_stack,     \* the arguments pushed on stack_free_stack for
    switch_stack,   \* _sched_final_free
    torn            \* history: a task has left the ring while a link_task that
                    \* had read it as the successor was in progress

exit_vars == <<kept, freed, free_stack, switch_stack, torn>>

life_vars == <<vars, exit_vars>>

LifeInit ==
    /\ MutexInit
    /\ kept = {}
    /\ freed = {}
    /\ free_stack = Idle
    /\ switch_stack = Idle
    /\ torn = FALSE

\* Mutant: one reference is given up twice.
release_refs_twice(t, n) == rc' = [rc EXCEPT ![t] = @ - n - 1]

\* Mutant: exit gives up the scheduler's reference and not its own.
release_refs_one(t, n) == rc' = [rc EXCEPT ![t] = @ - 1]

\* n calls of release_ref; its kassert wants rc > 0 before the decrement.
release_refs(t, n) == rc' = [rc EXCEPT ![t] = IF @ < n THEN 0 ELSE @ - n]

\* Mutant: the task stays in the ring.
unlink_task_none(t) == UNCHANGED scheduling

\* Mutant: the task's successor is taken out of the ring.
unlink_task_next(t) == scheduling' = unlink(scheduling, scheduling.l_next[t])

unlink_task(t) == scheduling' = unlink(scheduling, t)

\* Some link_task has written t as the new node's l_next, which it will not
\* read again, and has not finished.
Successor(t) ==
    \E s \in Stacks :
        pc[s] \in {"link_prev", "link_next"} /\ scheduling.l_next[s] = t

\* The frame that task t is to resume from is on stack_free_stack.
Overwritten(t) == InRing(t) /\ t # cpu /\ stack_pointer[t] = stack_free_stack

----------------------------------------------------------------------------
\* A running task takes a reference on a task that is alive.
take_ref ==
    /\ At("run")
    /\ cpu # Idle
    /\ \E t \in Tasks \ (kept \cup {Idle}) :
            /\ rc[t] = 2
            /\ rc' = [rc EXCEPT ![t] = @ + 1]
            /\ kept' = kept \cup {t}
    /\ UNCHANGED <<frame_vars, scheduling, blocking, preempt_counter, pc, nest,
                   linking, panic, mutex_vars, freed, free_stack,
                   switch_stack, torn>>

\* task::release of such a reference.  Destroying a task destroys its
\* virtual_memory, whose destructor is a kpanic.
release ==
    /\ At("run")
    /\ \E t \in kept :
            /\ release_refs(t, 1)
            /\ kept' = kept \ {t}
            /\ panic' = IF rc[t] = 1 THEN "virtual_memory" ELSE panic
    /\ UNCHANGED <<frame_vars, scheduling, blocking, preempt_counter, pc, nest,
                   linking, mutex_vars, freed, free_stack, switch_stack, torn>>

\* The task's function returns, with all its guards destroyed; the
\* finalization begins by disabling preemption.
exit ==
    /\ At("run")
    /\ cpu # Idle
    /\ nest[cpu] = 0
    /\ held[cpu] = {}
    /\ preempt_up
    /\ Goto("exit")
    /\ UNCHANGED <<frame_vars, scheduling, blocking, nest, rc, linking, panic,
                   mutex_vars, exit_vars>>

\* What stops the kernel when me exits: a reference too few, the last one, or
\* a frame that some task is to resume from on stack_free_stack, after which
\* what happens is undefined.
exit_panic(me) ==
    IF rc[me] < 2 THEN "release_ref"
    ELSE IF rc[me] = 2 THEN "virtual_memory"
    ELSE IF \E t \in Tasks : Overwritten(t) THEN "frame overwritten" ELSE "no"

(***************************************************************************)
(* current_task moves to the next of the ring, blocked or not; the task    *)
(* leaves the ring and gives up the scheduler's reference and its own; the *)
(* processor continues on stack_free_stack, on top of whatever is there.   *)
(* If a frame some task is to resume from was there, what happens next is  *)
(* undefined, and the model stops.                                         *)
(***************************************************************************)
exit_unlink ==
    /\ At("exit")
    /\ LET me == current_task
           to == scheduling.l_next[me]
       IN  /\ current_task' = to
           /\ unlink_task(me)
           /\ torn' = (torn \/ Successor(me))
           /\ release_refs(me, 2)
           /\ panic' = exit_panic(me)
           /\ IF panic' = "no"
              THEN /\ free_stack' = cpu
                   /\ switch_stack' = stack_pointer[to]
                   /\ cpu' = stack_free_stack
                   /\ pc' = [pc EXCEPT ![cpu] = "gone",
                                       ![stack_free_stack] = "final_free"]
              ELSE UNCHANGED <<cpu, pc, free_stack, switch_stack>>
    /\ UNCHANGED <<stack_pointer, intr, saved_intr, blocking, preempt_counter,
                   nest, linking, mutex_vars, kept, freed>>

\* kmem_free_4k(free_stack); preempt_down().
final_free ==
    /\ At("final_free")
    /\ freed' = freed \cup {free_stack}
    /\ preempt_down
    /\ Goto("final_enter")
    /\ UNCHANGED <<frame_vars, scheduling, blocking, nest, rc, linking,
                   mutex_vars, kept, free_stack, switch_stack, torn>>

\* enter_task(switch_stack): no frame is saved, and a tick may have come
\* since preempt_down.
final_enter ==
    /\ At("final_enter")
    /\ cpu' = switch_stack
    /\ intr' = saved_intr[switch_stack]
    /\ UNCHANGED <<current_task, stack_pointer, saved_intr, scheduling,
                   blocking, preempt_counter, pc, nest, rc, linking, panic,
                   mutex_vars, exit_vars>>

\* Resumed on the stack of a task that is gone, the processor runs whatever
\* is there; no more is said.
lost == At("gone") /\ UNCHANGED life_vars

LifeNext ==
    \/ Next /\ UNCHANGED exit_vars
    \/ take_ref
    \/ release
    \/ exit
    \/ exit_unlink
    \/ final_free
    \/ final_enter
    \/ lost

LifeSpec == LifeInit /\ [][LifeNext]_life_vars

----------------------------------------------------------------------------
(***************************************************************************)
(* Properties.                                                             *)
(***************************************************************************)

LifePoints == Points \cup {"exit", "gone", "final_free", "final_enter"}

\* The types of all the variables.
LifeTypeOK ==
    /\ SchedTypeOK(LifePoints)
    /\ m_owner \in [Mutexes -> Tasks \cup {NULL}]
    /\ want \in [Stacks -> Mutexes \cup {NULL}]
    /\ held \in [Stacks -> SUBSET Mutexes]
    /\ kept \subseteq Tasks
    /\ freed \subseteq Tasks
    /\ free_stack \in Tasks
    /\ switch_stack \in Stacks
    /\ torn \in BOOLEAN

\* A task that was linked and has not exited.
Alive(t) ==
    \/ t = Idle
    \/ /\ rc[t] >= 2
       /\ pc[t] # "gone"
       /\ \A s \in Linking : linking[s] # t

\* "it is assumed for the running of the task that the scheduler holds a
\* reference and the running has a reference" (task.hpp): a task that has not
\* been allocated has no reference and has not run, and the count of any other
\* is what the live references add up to, through the steps of link_task, exit
\* and other holders, until an exit tears the ring.
RefsAddUp ==
    panic = "no" /\ ~torn =>
        \A t \in Tasks \ {Idle} :
            \/ rc[t] = 0 /\ pc[t] = "start" /\ t \notin kept
            \/ rc[t] = IF \E s \in Stacks : pc[s] = "link" /\ linking[s] = t THEN 1
                       ELSE (IF pc[t] = "gone" THEN 0 ELSE 2)
                            + (IF t \in kept THEN 1 ELSE 0)

\* kmem_free_4k(free_stack): the processor never runs on, and no task that
\* is still in the ring resumes on, a stack that has been freed.  So it is
\* until an exit tears the ring; after that, pick_next_task can pick the task
\* that is gone.
FreedStackUnused ==
    panic = "no" /\ ~torn =>
        /\ cpu \notin freed
        /\ \A t \in Tasks : InRing(t) => stack_pointer[t] \notin freed

\* "should have an interrupts::interrupt_args at the top" (task.hpp): the
\* frame that a task's stack_pointer names is not overwritten before the task
\* resumes from it.
FramesIntact == panic # "frame overwritten"

\* "add the task to the scheduler" (init.hpp): a linked task that has not
\* exited is in the ring that pick_next_task walks.
LinkedStaysLinked ==
    panic = "no" => \A t \in Tasks : Alive(t) => InRing(t)

\* The same through any number of exits and of link_task calls in progress,
\* as long as no exit takes away the successor that a link_task has read.
LinkedUntilTorn == ~torn => LinkedStaysLinked

\* "we won't be resumed until we're unblocked" (mutex.cpp).
ResumedOnlyUnblocked ==
    panic # "resumed without the mutex"
=============================================================================
