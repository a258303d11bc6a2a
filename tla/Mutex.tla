-------------------------------- MODULE Mutex --------------------------------
(***************************************************************************)
(* scheduler::concurrency::mutex (kernel/scheduler/mutex.cpp) on top of    *)
(* the scheduler: lock and unlock, the blocking lists, yield, and the      *)
(* scoped_mutex objects through which tasks use them.  A mutex is named by *)
(* the head of its waiting list, m_list.                                   *)
(*                                                                         *)
(* The sections between preempt_up and preempt_down are several actions:   *)
(* that they exclude one another is left to preempt_counter, as in the     *)
(* code.                                                                   *)
(***************************************************************************)
EXTENDS Scheduler

CONSTANT NULL

ASSUME NULLAssumption == NULL \notin Tasks

Mutexes == Lists

VARIABLES
    m_owner,    \* mutex::m_owner
    want,       \* the mutex a stack's lock or unlock call is about
    held        \* mutexes with a live scoped_mutex on each stack

mutex_vars == <<m_owner, want, held>>

vars == <<sched_vars, mutex_vars>>

MutexInit ==
    /\ SchedInit
    /\ m_owner = [m \in Mutexes |-> NULL]
    /\ want = [s \in Stacks |-> NULL]
    /\ held = [s \in Stacks |-> {}]

\* What the steps inside lock and unlock leave alone.
task_vars == <<frame_vars, scheduling, nest, rc, linking>>

\* Mutant: the new waiter goes to the front.
block_on_front(t, m) == add_after_self(blocking, m, t)

\* task_blocking::block_on appends at the tail: the list is circular.
block_on(t, m) == add_after_self(blocking, blocking.l_prev[m], t)

----------------------------------------------------------------------------
(***************************************************************************)
(* mutex::lock.                                                            *)
(***************************************************************************)

\* The constructor of a scoped_mutex calls lock, which disables preemption.
lock ==
    /\ At("run")
    /\ cpu # Idle
    /\ \E m \in Mutexes \ held[cpu] : want' = [want EXCEPT ![cpu] = m]
    /\ preempt_up
    /\ Goto("lock")
    /\ UNCHANGED <<task_vars, blocking, panic, m_owner, held>>

lock_check ==
    /\ At("lock")
    /\ IF m_owner[want[cpu]] = current_task
       THEN kpanic("lock by the owner", pc)
       ELSE /\ Goto(IF m_owner[want[cpu]] = NULL THEN "take" ELSE "block")
            /\ panic' = panic
    /\ UNCHANGED <<task_vars, blocking, preempt_counter, mutex_vars>>

lock_take ==
    /\ At("take")
    /\ m_owner' = [m_owner EXCEPT ![want[cpu]] = current_task]
    /\ Goto("taken")
    /\ UNCHANGED <<task_vars, blocking, preempt_counter, panic, want, held>>

\* The end of an uncontended lock.
lock_taken ==
    /\ At("taken")
    /\ preempt_down
    /\ held' = [held EXCEPT ![cpu] = @ \cup {want[cpu]}]
    /\ Goto("run")
    /\ UNCHANGED <<task_vars, blocking, m_owner, want>>

lock_block ==
    /\ At("block")
    /\ blocking' = block_on(current_task, want[cpu])
    /\ Goto("blocked")
    /\ UNCHANGED <<task_vars, preempt_counter, panic, mutex_vars>>

\* Mutant: preemption stays disabled across yield.
lock_blocked_up ==
    /\ At("blocked")
    /\ Goto("yield")
    /\ UNCHANGED <<task_vars, blocking, mutex_vars, preempt_counter, panic>>

lock_blocked ==
    /\ At("blocked")
    /\ preempt_down
    /\ Goto("yield")
    /\ UNCHANGED <<task_vars, blocking, mutex_vars>>

(***************************************************************************)
(* yield: the interrupt flag is cleared before pushf puts it in the frame  *)
(* the task will resume from.                                              *)
(***************************************************************************)
yield ==
    /\ At("yield")
    /\ IF preempt_counter # 0
       THEN kpanic("yield", <<frame_vars, pc>>)
       ELSE SwitchFrom(FALSE) /\ Goto("resumed") /\ panic' = panic
    /\ UNCHANGED <<scheduling, blocking, preempt_counter, nest, rc, linking,
                   mutex_vars>>

\* The end of a contended lock: the owner has handed the mutex over.
lock_resumed ==
    /\ At("resumed")
    /\ IF m_owner[want[cpu]] # current_task
       THEN kpanic("resumed without the mutex", <<pc, held>>)
       ELSE /\ held' = [held EXCEPT ![cpu] = @ \cup {want[cpu]}]
            /\ Goto("run")
            /\ panic' = panic
    /\ UNCHANGED <<task_vars, blocking, preempt_counter, m_owner, want>>

----------------------------------------------------------------------------
(***************************************************************************)
(* mutex::unlock, called by the destructor of a scoped_mutex.              *)
(***************************************************************************)
unlock ==
    /\ At("run")
    /\ \E m \in held[cpu] :
            /\ want' = [want EXCEPT ![cpu] = m]
            /\ held' = [held EXCEPT ![cpu] = @ \ {m}]
    /\ preempt_up
    /\ Goto("unlock")
    /\ UNCHANGED <<task_vars, blocking, panic, m_owner>>

\* Mutant: unlock does not look for waiters.
unlock_check_release ==
    /\ At("unlock")
    /\ IF m_owner[want[cpu]] # current_task
       THEN kpanic("unlock by another", pc)
       ELSE Goto("release") /\ panic' = panic
    /\ UNCHANGED <<task_vars, blocking, preempt_counter, mutex_vars>>

unlock_check ==
    /\ At("unlock")
    /\ IF m_owner[want[cpu]] # current_task
       THEN kpanic("unlock by another", pc)
       ELSE /\ Goto(IF lonely(blocking, want[cpu]) THEN "release" ELSE "hand")
            /\ panic' = panic
    /\ UNCHANGED <<task_vars, blocking, preempt_counter, mutex_vars>>

unlock_release ==
    /\ At("release")
    /\ m_owner' = [m_owner EXCEPT ![want[cpu]] = NULL]
    /\ Goto("released")
    /\ UNCHANGED <<task_vars, blocking, preempt_counter, panic, want, held>>

\* Mutant: the head of the list is taken for the first waiter.
unlock_hand_head ==
    /\ At("hand")
    /\ blocking' = unlink(blocking, want[cpu])
    /\ m_owner' = [m_owner EXCEPT ![want[cpu]] = want[cpu]]
    /\ Goto("released")
    /\ UNCHANGED <<task_vars, preempt_counter, want, held, panic>>

\* Mutant: the waiter is woken and has to find a free mutex.
unlock_hand_free ==
    /\ At("hand")
    /\ blocking' = unlink(blocking, blocking.l_next[want[cpu]])
    /\ m_owner' = [m_owner EXCEPT ![want[cpu]] = NULL]
    /\ Goto("released")
    /\ UNCHANGED <<task_vars, preempt_counter, want, held, panic>>

\* The first waiter is unlinked and becomes the owner.
unlock_hand ==
    /\ At("hand")
    /\ LET waiter == blocking.l_next[want[cpu]] IN
       IF ~is_blocked(waiter)
       THEN kpanic("unblock", <<blocking, m_owner, pc>>)
       ELSE /\ blocking' = unlink(blocking, waiter)
            /\ m_owner' = [m_owner EXCEPT ![want[cpu]] = waiter]
            /\ Goto("released")
            /\ panic' = panic
    /\ UNCHANGED <<task_vars, preempt_counter, want, held>>

unlock_released ==
    /\ At("released")
    /\ preempt_down
    /\ Goto("run")
    /\ UNCHANGED <<task_vars, blocking, mutex_vars>>

----------------------------------------------------------------------------
\* The steps of a lock or unlock call that has begun.
InCall ==
    \/ lock_check
    \/ lock_take
    \/ lock_taken
    \/ lock_block
    \/ lock_blocked
    \/ yield
    \/ lock_resumed
    \/ unlock_check
    \/ unlock_release
    \/ unlock_hand
    \/ unlock_released

MutexOps == lock \/ unlock \/ InCall

Next ==
    \/ SchedNext /\ UNCHANGED mutex_vars
    \/ MutexOps
    \/ Halt /\ UNCHANGED mutex_vars

Spec == MutexInit /\ [][Next]_vars

(***************************************************************************)
(* The processor keeps executing, and a task that is given the processor   *)
(* again and again gets on with the call it is in.  The scopes of          *)
(* scoped_preemptlock and scoped_mutex objects end, and a tick that is     *)
(* possible again and again is not missed for ever.  Nothing is said of    *)
(* lock: a task need not want a mutex.                                     *)
(***************************************************************************)
FairSpec ==
    /\ Spec
    /\ WF_vars(Next)
    /\ WF_vars(scoped_preemptlock_end /\ UNCHANGED mutex_vars)
    /\ SF_vars(timeslice_passed /\ UNCHANGED mutex_vars)
    /\ \A t \in Tasks : SF_vars(cpu = t /\ InCall)
    /\ \A t \in Tasks : SF_vars(cpu = t /\ unlock)

----------------------------------------------------------------------------
(***************************************************************************)
(* Properties.                                                             *)
(***************************************************************************)

\* Program points at which lock or unlock holds one level of preempt_counter.
SectionPoints == {"lock", "take", "taken", "block", "blocked", "unlock",
                  "release", "hand", "released"}

Points == SchedPoints \cup SectionPoints \cup {"yield", "resumed"}

TypeOK ==
    /\ SchedTypeOK(Points)
    /\ m_owner \in [Mutexes -> Tasks \cup {NULL}]
    /\ want \in [Stacks -> Mutexes \cup {NULL}]
    /\ held \in [Stacks -> SUBSET Mutexes]

\* At most one task is inside the scope of a scoped_mutex on the same mutex,
\* although preempt_counter is the only thing that keeps two lock or unlock
\* calls apart.
MutualExclusion ==
    \A s, t \in Tasks : s # t => held[s] \cap held[t] = {}

\* A task that has put itself in the list of m and is not its owner yet.
Waits(t, m) ==
    /\ pc[t] \in {"blocked", "yield", "resumed"}
    /\ want[t] = m
    /\ m_owner[m] # t

\* The hand-over loses nobody: the list of a mutex holds exactly the tasks
\* blocked in its lock, each once, and it is empty when the mutex is free (a
\* waiter on a free mutex would never be woken).
NoLostWaiter ==
    \A m \in Mutexes :
        LET list == After(blocking, Nodes, m) IN
        /\ {list[i] : i \in DOMAIN list} = {t \in Tasks : Waits(t, m)}
        /\ Len(list) = Cardinality({t \in Tasks : Waits(t, m)})
        /\ m_owner[m] = NULL => list = <<>>

\* "we won't be resumed until we're unblocked" (mutex.cpp): a task in a
\* blocking list runs only from its own block_on to its own yield.
BlockedNeverRuns ==
    is_blocked(cpu) => pc[cpu] \in {"blocked", "yield"}

\* preempt_counter is one global counter that no frame saves: at any switch
\* it must be back to 0, so that it always is what the task on the processor
\* has added to it, and a task off the processor has nothing in it.
PreemptAccounts ==
    /\ cpu = current_task
    /\ \A t \in Tasks : stack_pointer[t] = t
    /\ \A t \in Tasks : t # cpu => nest[t] = 0 /\ pc[t] \notin SectionPoints
    /\ preempt_counter = nest[cpu] + IF pc[cpu] \in SectionPoints
                                     THEN 1 ELSE 0

\* None of the kasserts of lock, unlock, unblock and preempt_down can fail,
\* whatever the tasks do; the one of yield is another matter.
AssertsHold == panic \in {"no", "yield"}

\* Where no scoped_preemptlock is held around a lock, no kassert fails.
NoPanic == panic = "no"

\* The mutexes implement MutexSpec: owner is m_owner, queue the waiting list.
Abstract == INSTANCE MutexSpec WITH
    Threads <- Tasks, Locks <- Mutexes, NoOne <- NULL, owner <- m_owner,
    queue <- [m \in Mutexes |-> After(blocking, Nodes, m)]

ImplementsMutexSpec == Abstract!Spec

Preemptible == intr /\ preempt_counter = 0

\* A task that waits for a mutex gets it, provided that again and again the
\* processor can take a timer tick (see TimerKeepsTicking).
LockGranted ==
    []<>Preemptible =>
        \A t \in Tasks : \A m \in Mutexes : Waits(t, m) ~> (m \in held[t])

\* "timer interrupt handler - should run roughly 1000 times per second"
\* (pic.cpp): the processor never stops accepting ticks.
TimerKeepsTicking == []<>intr

\* yield's "preemption should be disabled" (init.hpp): calling it with
\* preemption disabled is not an error.
YieldAcceptsPreemptOff == panic # "yield"
=============================================================================
