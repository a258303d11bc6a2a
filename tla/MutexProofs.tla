----------------------------- MODULE MutexProofs -----------------------------
(***************************************************************************)
(* Proofs about Mutex, for any number of tasks and mutexes.  The second    *)
(* part shows that the waiting lists are the queues they stand for: nobody *)
(* is lost, and the mutexes implement MutexSpec.                           *)
(***************************************************************************)
EXTENDS Mutex, ListProofs

\* Program points inside lock and unlock.
CallPoints == SectionPoints \cup {"yield", "resumed"}

\* The task is, or is about to be, inside the scope of a guard of m.
Claims(t, m) ==
    \/ m \in held[t]
    \/ /\ want[t] = m
       /\ \/ pc[t] \in {"taken", "unlock", "release", "hand"}
          \/ pc[t] \in {"yield", "resumed"} /\ ~is_blocked(t)

\* m_owner is exactly the task that claims the mutex.
OwnerClaims ==
    \A m \in Mutexes : \A t \in Tasks : m_owner[m] = t <=> Claims(t, m)

\* A call is about a mutex of which the task holds no guard.
WantOK ==
    \A t \in Tasks : pc[t] \in CallPoints => want[t] \in Mutexes \ held[t]

\* The list that a node belongs to.
Home(n) == IF n \in Tasks /\ is_blocked(n) THEN want[n] ELSE n

\* The lists are circular lists of blocked tasks around a head.
ListsOK ==
    /\ Linked(blocking, Nodes)
    /\ \A n \in Nodes : Home(blocking.l_next[n]) = Home(n)

\* Blocked tasks are in lock, and off the processor from their yield on; a
\* free mutex has no waiters.
BlockedOK ==
    /\ \A t \in Tasks : is_blocked(t) => pc[t] \in {"blocked", "yield",
                                                     "resumed"}
    /\ \A t \in Tasks : pc[t] = "blocked" => is_blocked(t)
    /\ is_blocked(cpu) => pc[cpu] \in {"blocked", "yield"}
    /\ \A m \in Mutexes : m_owner[m] = NULL => lonely(blocking, m)

\* What a call has found out and relies on.
BranchOK ==
    LET m == want[cpu] IN
    /\ pc[cpu] = "take" => m_owner[m] = NULL
    /\ pc[cpu] = "block" => m_owner[m] \notin {NULL, cpu}
    /\ pc[cpu] = "release" => lonely(blocking, m)
    /\ pc[cpu] = "hand" => ~lonely(blocking, m)

\* The inductive invariant.
IInv ==
    /\ TypeOK
    /\ PreemptAccounts
    /\ OwnerClaims
    /\ WantOK
    /\ ListsOK
    /\ BlockedOK
    /\ BranchOK
    /\ AssertsHold

----------------------------------------------------------------------------
(***************************************************************************)
(* The pointer surgery of list.hpp.                                        *)
(***************************************************************************)

\* add_after_self puts a lonely node into a well linked heap and leaves a
\* well linked heap.
LEMMA AddAfterSelf ==
    ASSUME NEW Node, NEW l \in Heap(Node), Linked(l, Node),
           NEW self \in Node, NEW t \in Node, lonely(l, t), self # t
    PROVE  /\ add_after_self(l, self, t) \in Heap(Node)
           /\ Linked(add_after_self(l, self, t), Node)
<1>1. l.l_next \in [Node -> Node] /\ l.l_prev \in [Node -> Node]
  BY DEF Heap
<1>2. l.l_next[self] # t
  BY <1>1 DEF Linked, lonely
<1>3. add_after_self(l, self, t) \in Heap(Node)
  BY <1>1 DEF add_after_self, Heap
<1>4. Linked(add_after_self(l, self, t), Node)
  BY <1>1, <1>2 DEF Linked, add_after_self, lonely
<1>. QED BY <1>3, <1>4

\* unlink takes a node out of a well linked heap and leaves a well linked
\* heap.
LEMMA Unlink ==
    ASSUME NEW Node, NEW l \in Heap(Node), Linked(l, Node), NEW t \in Node
    PROVE  /\ unlink(l, t) \in Heap(Node)
           /\ Linked(unlink(l, t), Node)
<1>1. l.l_next \in [Node -> Node] /\ l.l_prev \in [Node -> Node]
  BY DEF Heap
<1>2. unlink(l, t) \in Heap(Node)
  BY <1>1 DEF unlink, Heap
<1>3. Linked(unlink(l, t), Node)
  BY <1>1 DEF Linked, unlink
<1>. QED BY <1>2, <1>3

\* A context switch made while the bookkeeping is right enters the own stack
\* of a task that is not blocked.
LEMMA Switch ==
    ASSUME TypeOK, PreemptAccounts, NEW flag \in BOOLEAN, SwitchFrom(flag)
    PROVE  /\ cpu' \in Tasks
           /\ current_task' = cpu'
           /\ stack_pointer' = stack_pointer
           /\ ~is_blocked(cpu')
           /\ intr' \in BOOLEAN
           /\ saved_intr' \in [Stacks -> BOOLEAN]
<1>1. stack_pointer' = stack_pointer
  BY DEF SwitchFrom, TypeOK, SchedTypeOK, PreemptAccounts
<1>2. saved_intr' \in [Stacks -> BOOLEAN]
  BY DEF SwitchFrom, TypeOK, SchedTypeOK
<1>3. PICK n \in Tasks : /\ pick_next_task(n)
                         /\ current_task' = n
                         /\ cpu' = stack_pointer'[n]
                         /\ intr' = saved_intr'[cpu']
  BY DEF SwitchFrom
<1>4. ~is_blocked(n)
  BY <1>3 DEF pick_next_task
<1>5. cpu' = n
  BY <1>1, <1>3 DEF PreemptAccounts
<1>6. intr' \in BOOLEAN
  BY <1>2, <1>3, <1>5, StacksAssumption
<1>. QED BY <1>1, <1>2, <1>3, <1>4, <1>5, <1>6

\* The ring that the boot code leaves is a heap of tasks.
LEMMA RingType == Ring(Boot) \in Heap(Tasks)
<1>. DEFINE at(t) == CHOOSE i \in DOMAIN Boot : Boot[i] = t
<1>1. Boot \in Seq(Tasks) /\ Len(Boot) \in Nat \ {0} /\ DOMAIN Boot = 1 .. Len(Boot)
  BY BootAssumption
<1>2. \A t \in Booted : at(t) \in 1 .. Len(Boot)
  BY <1>1 DEF Booted
<1>. HIDE DEF at
<1>3. ASSUME NEW t \in Booted
      PROVE  /\ Boot[(at(t) % Len(Boot)) + 1] \in Tasks
             /\ Boot[IF at(t) = 1 THEN Len(Boot) ELSE at(t) - 1] \in Tasks
  <2>1. at(t) % Len(Boot) \in 0 .. Len(Boot) - 1
    BY <1>1, <1>2
  <2>. QED BY <1>1, <1>2, <2>1
<1>. QED BY <1>3 DEF Ring, Heap, at

----------------------------------------------------------------------------
(***************************************************************************)
(* The invariant holds initially.                                          *)
(***************************************************************************)

\* The boot state satisfies the invariant.
LEMMA InitInv == MutexInit => IInv
<1>. SUFFICES ASSUME MutexInit PROVE IInv
  OBVIOUS
<1>. USE DEF MutexInit, SchedInit
<1>1. Idle \in Tasks
  BY BootAssumption DEF Idle
<1>2. TypeOK
  <2>1. scheduling \in Heap(Tasks)
    BY RingType
  <2>2. blocking \in Heap(Nodes)
    BY DEF Heap, Fresh
  <2>3. pc \in [Stacks -> Points] /\ nest \in [Stacks -> 0 .. MaxNest]
    BY MaxNestAssumption DEF Points, SchedPoints
  <2>4. saved_intr \in [Stacks -> BOOLEAN] /\ intr \in BOOLEAN
    OBVIOUS
  <2>5. rc \in [Tasks -> Nat]
    <3>. DEFINE R(t) == IF t = Idle THEN 1 ELSE IF t \in Booted THEN 2 ELSE 0
    <3>1. \A t \in Tasks : R(t) \in Nat
      OBVIOUS
    <3>2. rc = [t \in Tasks |-> R(t)]
      OBVIOUS
    <3>. HIDE DEF R, MutexInit, SchedInit
    <3>. QED BY <3>1, <3>2
  <2>6. /\ current_task \in Tasks /\ cpu \in Stacks
        /\ stack_pointer \in [Tasks -> Stacks]
        /\ linking \in [Stacks -> Tasks]
    BY <1>1, StacksAssumption
  <2>7. /\ m_owner \in [Mutexes -> Tasks \cup {NULL}]
        /\ want \in [Stacks -> Mutexes \cup {NULL}]
        /\ held \in [Stacks -> SUBSET Mutexes]
    OBVIOUS
  <2>8. preempt_counter \in Nat
    OBVIOUS
  <2>9. panic \in Panics
    BY DEF Panics
  <2>. HIDE DEF MutexInit, SchedInit
  <2>. QED BY <2>1, <2>2, <2>3, <2>4, <2>5, <2>6, <2>7, <2>8, <2>9
           DEF TypeOK, SchedTypeOK
<1>3. \A n \in Nodes : lonely(blocking, n)
  BY DEF lonely, Fresh
<1>4. PreemptAccounts
  BY <1>1, StacksAssumption DEF PreemptAccounts, SectionPoints
<1>5. OwnerClaims
  BY StacksAssumption, NULLAssumption DEF OwnerClaims, Claims
<1>6. WantOK
  BY StacksAssumption DEF WantOK, CallPoints, SectionPoints
<1>7. ListsOK
  BY <1>3 DEF ListsOK, Linked, Fresh, Home, is_blocked, Nodes
<1>8. BlockedOK
  BY <1>1, <1>3, StacksAssumption DEF BlockedOK, is_blocked, Nodes, Mutexes
<1>9. BranchOK
  BY <1>1, StacksAssumption DEF BranchOK
<1>10. AssertsHold
  BY DEF AssertsHold
<1>. QED BY <1>2, <1>4, <1>5, <1>6, <1>7, <1>8, <1>9, <1>10 DEF IInv

----------------------------------------------------------------------------
(***************************************************************************)
(* Steps outside the mutex calls.                                          *)
(***************************************************************************)

\* What TypeOK and PreemptAccounts say of the running stack.
LEMMA Running ==
    ASSUME TypeOK, PreemptAccounts
    PROVE  /\ cpu \in Tasks
           /\ cpu \in Stacks
           /\ current_task = cpu
  BY StacksAssumption DEF TypeOK, SchedTypeOK, PreemptAccounts

\* A step that touches no mutex, no blocking list and no program point of a
\* call keeps what the invariant says of them.
LEMMA OutsideCalls ==
    ASSUME IInv, UNCHANGED <<blocking, mutex_vars>>,
           \A t \in Tasks : \/ pc'[t] = pc[t]
                            \/ pc[t] \notin CallPoints /\ pc'[t] \notin CallPoints
    PROVE  /\ OwnerClaims'
           /\ WantOK'
           /\ ListsOK'
           /\ \A t \in Tasks : is_blocked(t)' = is_blocked(t)
           /\ \A m \in Mutexes : m_owner'[m] = NULL => lonely(blocking', m)
           /\ \A t \in Tasks : is_blocked(t)' => pc'[t] \in {"blocked", "yield",
                                                            "resumed"}
           /\ \A t \in Tasks : pc'[t] = "blocked" => is_blocked(t)'
<1>1. \A t \in Tasks : is_blocked(t)' = is_blocked(t)
  BY DEF is_blocked, lonely
<1>2. OwnerClaims'
  BY <1>1 DEF IInv, OwnerClaims, Claims, CallPoints, SectionPoints, mutex_vars
<1>3. WantOK'
  BY DEF IInv, WantOK, mutex_vars
<1>4. ListsOK'
  BY <1>1 DEF IInv, ListsOK, Linked, Home, is_blocked, lonely, mutex_vars
<1>5. \A t \in Tasks : is_blocked(t)' => pc'[t] \in {"blocked", "yield",
                                                     "resumed"}
  BY <1>1 DEF IInv, BlockedOK, CallPoints, SectionPoints
<1>6. \A t \in Tasks : pc'[t] = "blocked" => is_blocked(t)'
  BY <1>1 DEF IInv, BlockedOK, CallPoints, SectionPoints
<1>7. \A m \in Mutexes : m_owner'[m] = NULL => lonely(blocking', m)
  BY DEF IInv, BlockedOK, mutex_vars
<1>. QED BY <1>1, <1>2, <1>3, <1>4, <1>5, <1>6, <1>7

\* A tick preserves the invariant: it finds preempt_counter at 0, so the
\* task it takes the processor from is in no section and holds no guard.
LEMMA TickInv ==
    ASSUME IInv, timeslice_passed, UNCHANGED mutex_vars
    PROVE  IInv'
<1>. USE DEF timeslice_passed
<1>1. /\ TypeOK /\ PreemptAccounts /\ cpu \in Tasks /\ cpu \in Stacks
      /\ nest[cpu] \in Nat
  BY Running, MaxNestAssumption DEF IInv, TypeOK, SchedTypeOK
<1>2. /\ cpu' \in Tasks /\ current_task' = cpu' /\ stack_pointer' = stack_pointer
      /\ ~is_blocked(cpu') /\ intr' \in BOOLEAN
      /\ saved_intr' \in [Stacks -> BOOLEAN]
  BY <1>1, Switch
<1>3. /\ OwnerClaims' /\ WantOK' /\ ListsOK'
      /\ \A t \in Tasks : is_blocked(t)' = is_blocked(t)
      /\ \A m \in Mutexes : m_owner'[m] = NULL => lonely(blocking', m)
      /\ \A t \in Tasks : is_blocked(t)' => pc'[t] \in {"blocked", "yield",
                                                       "resumed"}
      /\ \A t \in Tasks : pc'[t] = "blocked" => is_blocked(t)'
  BY OutsideCalls
<1>4. TypeOK'
  BY <1>1, <1>2, StacksAssumption DEF TypeOK, SchedTypeOK, mutex_vars
<1>5. \A t \in Tasks : nest[t] = 0 /\ pc[t] \notin SectionPoints
  BY <1>1 DEF PreemptAccounts
<1>6. PreemptAccounts'
  BY <1>1, <1>2, <1>5 DEF PreemptAccounts
<1>7. BlockedOK'
  BY <1>2, <1>3 DEF BlockedOK, is_blocked
<1>8. BranchOK'
  BY <1>2, <1>5 DEF BranchOK, SectionPoints
<1>9. AssertsHold'
  BY DEF IInv, AssertsHold
<1>. QED BY <1>3, <1>4, <1>6, <1>7, <1>8, <1>9 DEF IInv

\* So does a step of a running task that stays on the processor, outside the
\* calls, and keeps preempt_counter in line with its guards.
LEMMA OutsideInv ==
    ASSUME IInv, TypeOK',
           UNCHANGED <<current_task, cpu, stack_pointer, blocking, mutex_vars,
                       panic>>,
           pc[cpu] \in SchedPoints,
           NEW point \in SchedPoints, pc' = [pc EXCEPT ![cpu] = point],
           NEW level \in Nat, nest' = [nest EXCEPT ![cpu] = level],
           preempt_counter = nest[cpu] => preempt_counter' = level
    PROVE  IInv'
<1>1. /\ TypeOK /\ PreemptAccounts /\ cpu \in Tasks /\ cpu \in Stacks
      /\ nest[cpu] \in Nat /\ Tasks \subseteq Stacks
  BY Running, MaxNestAssumption, StacksAssumption DEF IInv, TypeOK, SchedTypeOK
<1>2. /\ pc \in [Stacks -> Points] /\ nest \in [Stacks -> 0 .. MaxNest]
  BY <1>1 DEF TypeOK, SchedTypeOK
<1>3. SchedPoints \cap CallPoints = {} /\ SectionPoints \subseteq CallPoints
  BY DEF SchedPoints, CallPoints, SectionPoints
<1>4. \A t \in Tasks : \/ pc'[t] = pc[t]
                       \/ pc[t] \notin CallPoints /\ pc'[t] \notin CallPoints
  BY <1>1, <1>2, <1>3
<1>5. /\ OwnerClaims' /\ WantOK' /\ ListsOK'
      /\ \A t \in Tasks : is_blocked(t)' = is_blocked(t)
      /\ \A m \in Mutexes : m_owner'[m] = NULL => lonely(blocking', m)
      /\ \A t \in Tasks : is_blocked(t)' => pc'[t] \in {"blocked", "yield",
                                                       "resumed"}
      /\ \A t \in Tasks : pc'[t] = "blocked" => is_blocked(t)'
  BY <1>4, OutsideCalls
<1>6. PreemptAccounts'
  <2>1. preempt_counter = nest[cpu] /\ preempt_counter' = nest'[cpu]
    BY <1>1, <1>2, <1>3 DEF PreemptAccounts
  <2>2. pc'[cpu] \notin SectionPoints
    BY <1>1, <1>2, <1>3
  <2>3. \A t \in Tasks : t # cpu => nest'[t] = 0 /\ pc'[t] \notin SectionPoints
    BY <1>1, <1>2 DEF PreemptAccounts
  <2>4. nest'[cpu] \in Nat
    BY <1>1, <1>2
  <2>. QED BY <1>1, <2>1, <2>2, <2>3, <2>4 DEF PreemptAccounts
<1>7. BlockedOK'
  <2>1. ~is_blocked(cpu)
    BY <1>1, <1>3 DEF IInv, BlockedOK, SchedPoints
  <2>. QED BY <1>1, <1>5, <2>1 DEF BlockedOK, is_blocked
<1>8. BranchOK'
  BY <1>1, <1>2, <1>3 DEF BranchOK, CallPoints, SectionPoints, SchedPoints
<1>9. AssertsHold'
  BY DEF IInv, AssertsHold
<1>. QED BY <1>5, <1>6, <1>7, <1>8, <1>9 DEF IInv

\* Every step of the scheduler preserves the invariant.
LEMMA SchedInv ==
    ASSUME IInv, SchedNext, UNCHANGED mutex_vars
    PROVE  IInv'
<1>1. /\ TypeOK /\ PreemptAccounts /\ cpu \in Tasks /\ cpu \in Stacks
      /\ current_task = cpu /\ Tasks \subseteq Stacks
  BY Running, StacksAssumption DEF IInv
<1>2. /\ pc \in [Stacks -> Points] /\ nest \in [Stacks -> 0 .. MaxNest]
      /\ nest[cpu] \in Nat /\ nest = [nest EXCEPT ![cpu] = nest[cpu]]
      /\ pc = [pc EXCEPT ![cpu] = pc[cpu]]
  BY <1>1, MaxNestAssumption DEF TypeOK, SchedTypeOK
<1>3. SchedPoints \subseteq Points
  BY DEF Points
<1>4. CASE timeslice_passed
  BY <1>4, TickInv
<1>5. CASE task_wrapper
  <2>. USE <1>5 DEF task_wrapper, At, Goto
  <2>1. "run" \in SchedPoints /\ pc[cpu] \in SchedPoints
    BY DEF SchedPoints
  <2>2. TypeOK'
    BY <1>1, <1>2, <1>3, <2>1 DEF TypeOK, SchedTypeOK, mutex_vars
  <2>. QED BY <1>2, <2>1, <2>2, OutsideInv
<1>6. CASE scoped_preemptlock
  <2>. USE <1>6 DEF scoped_preemptlock, At, frame_vars, preempt_up
  <2>1. pc[cpu] \in SchedPoints
    BY DEF SchedPoints
  <2>2. TypeOK'
    BY <1>1, <1>2, MaxNestAssumption DEF TypeOK, SchedTypeOK, mutex_vars
  <2>3. /\ nest' = [nest EXCEPT ![cpu] = nest[cpu] + 1] /\ nest[cpu] + 1 \in Nat
        /\ pc' = [pc EXCEPT ![cpu] = pc[cpu]]
        /\ preempt_counter' = preempt_counter + 1
        /\ UNCHANGED <<current_task, cpu, stack_pointer, blocking, mutex_vars,
                       panic>>
    BY <1>2
  <2>. HIDE DEF scoped_preemptlock
  <2>. QED BY <2>1, <2>2, <2>3, OutsideInv
<1>7. CASE scoped_preemptlock_end
  <2>. USE <1>7 DEF scoped_preemptlock_end, At, frame_vars
  <2>1. pc[cpu] \in SchedPoints /\ pc[cpu] \notin SectionPoints
    BY DEF SchedPoints, SectionPoints
  <2>2. preempt_counter = nest[cpu] /\ preempt_counter # 0
    BY <1>2, <2>1, <1>1 DEF PreemptAccounts
  <2>3. preempt_counter' = preempt_counter - 1 /\ panic' = panic
    BY <2>2 DEF preempt_down
  <2>4. nest[cpu] - 1 \in 0 .. MaxNest
    BY <1>1, <1>2, MaxNestAssumption
  <2>5. TypeOK'
    BY <1>1, <1>2, <2>2, <2>3, <2>4 DEF TypeOK, SchedTypeOK, mutex_vars
  <2>6. /\ nest' = [nest EXCEPT ![cpu] = nest[cpu] - 1] /\ nest[cpu] - 1 \in Nat
        /\ pc' = [pc EXCEPT ![cpu] = pc[cpu]]
        /\ UNCHANGED <<current_task, cpu, stack_pointer, blocking, mutex_vars,
                       panic>>
    BY <1>2, <2>3, <2>4
  <2>. HIDE DEF scoped_preemptlock_end
  <2>. QED BY <2>1, <2>2, <2>3, <2>5, <2>6, OutsideInv
<1>8. CASE allocate
  <2>. USE <1>8 DEF allocate, At, Goto, frame_vars
  <2>1. "link" \in SchedPoints /\ pc[cpu] \in SchedPoints
    BY DEF SchedPoints
  <2>2. TypeOK'
    BY <1>1, <1>2, <1>3, <2>1 DEF TypeOK, SchedTypeOK, mutex_vars
  <2>. QED BY <1>2, <2>1, <2>2, OutsideInv
<1>9. CASE link_node
  <2>. USE <1>9 DEF link_node, At, Goto, frame_vars
  <2>1. "link_prev" \in SchedPoints /\ pc[cpu] \in SchedPoints
    BY DEF SchedPoints
  <2>2. scheduling' \in Heap(Tasks)
    BY <1>1 DEF TypeOK, SchedTypeOK, Heap
  <2>3. TypeOK'
    BY <1>1, <1>2, <1>3, <2>1, <2>2 DEF TypeOK, SchedTypeOK, mutex_vars
  <2>. QED BY <1>2, <2>1, <2>3, OutsideInv
<1>10. CASE link_prev
  <2>. USE <1>10 DEF link_prev, At, Goto, frame_vars
  <2>1. "link_next" \in SchedPoints /\ pc[cpu] \in SchedPoints
    BY DEF SchedPoints
  <2>2. scheduling' \in Heap(Tasks)
    BY <1>1 DEF TypeOK, SchedTypeOK, Heap
  <2>3. TypeOK'
    BY <1>1, <1>2, <1>3, <2>1, <2>2 DEF TypeOK, SchedTypeOK, mutex_vars
  <2>. QED BY <1>2, <2>1, <2>3, OutsideInv
<1>11. CASE link_next
  <2>. USE <1>11 DEF link_next, At, Goto, frame_vars
  <2>1. "run" \in SchedPoints /\ pc[cpu] \in SchedPoints
    BY DEF SchedPoints
  <2>2. scheduling' \in Heap(Tasks)
    BY <1>1 DEF TypeOK, SchedTypeOK, Heap
  <2>3. TypeOK'
    BY <1>1, <1>2, <1>3, <2>1, <2>2 DEF TypeOK, SchedTypeOK, mutex_vars
  <2>. QED BY <1>2, <2>1, <2>3, OutsideInv
<1>. QED BY <1>4, <1>5, <1>6, <1>7, <1>8, <1>9, <1>10, <1>11 DEF SchedNext

----------------------------------------------------------------------------
(***************************************************************************)
(* Steps inside the mutex calls.                                           *)
(***************************************************************************)

\* The types that the steps of a call use.
LEMMA Typing ==
    ASSUME IInv
    PROVE  /\ cpu \in Tasks /\ cpu \in Stacks /\ current_task = cpu
           /\ Tasks \subseteq Stacks
           /\ pc \in [Stacks -> Points]
           /\ nest[cpu] \in Nat
           /\ m_owner \in [Mutexes -> Tasks \cup {NULL}]
           /\ want \in [Stacks -> Mutexes \cup {NULL}]
           /\ held \in [Stacks -> SUBSET Mutexes]
           /\ blocking \in Heap(Nodes)
           /\ \A t \in Tasks : pc[t] \in CallPoints =>
                                want[t] \in Mutexes /\ want[t] \notin held[t]
           /\ preempt_counter = nest[cpu] + IF pc[cpu] \in SectionPoints
                                            THEN 1 ELSE 0
<1>1. cpu \in Tasks /\ cpu \in Stacks /\ current_task = cpu
  BY Running DEF IInv
<1>2. nest[cpu] \in Nat
  BY <1>1, MaxNestAssumption DEF IInv, TypeOK, SchedTypeOK
<1>. QED BY <1>1, <1>2, StacksAssumption
         DEF IInv, TypeOK, SchedTypeOK, WantOK, PreemptAccounts

\* A step that moves the running stack to another point keeps the accounts
\* when it leaves preempt_counter at what that point calls for.
LEMMA Accounts ==
    ASSUME IInv, UNCHANGED task_vars,
           NEW point \in Points, pc' = [pc EXCEPT ![cpu] = point],
           preempt_counter' = nest[cpu] + IF point \in SectionPoints
                                          THEN 1 ELSE 0
    PROVE  PreemptAccounts'
<1>1. /\ cpu \in Tasks /\ cpu \in Stacks /\ Tasks \subseteq Stacks
      /\ pc \in [Stacks -> Points]
  BY Typing
<1>2. /\ cpu' = cpu /\ current_task' = current_task
      /\ stack_pointer' = stack_pointer /\ nest' = nest
  BY DEF task_vars, frame_vars
<1>3. pc'[cpu] = point /\ \A t \in Tasks : t # cpu => pc'[t] = pc[t]
  BY <1>1
<1>. QED BY <1>1, <1>2, <1>3 DEF IInv, PreemptAccounts

\* The types survive a step of a call.
LEMMA CallTypes ==
    ASSUME IInv, UNCHANGED task_vars,
           NEW point \in Points, pc' = [pc EXCEPT ![cpu] = point],
           preempt_counter' \in Nat, panic' = panic,
           blocking' \in Heap(Nodes),
           m_owner' \in [Mutexes -> Tasks \cup {NULL}],
           want' \in [Stacks -> Mutexes \cup {NULL}],
           held' \in [Stacks -> SUBSET Mutexes]
    PROVE  TypeOK'
  BY Typing DEF IInv, TypeOK, SchedTypeOK, task_vars, frame_vars

\* A step that changes no list and no blocked task's mutex keeps the lists.
LEMMA ListsKept ==
    ASSUME IInv, blocking' = blocking,
           \A t \in Tasks : is_blocked(t) => want'[t] = want[t]
    PROVE  /\ ListsOK'
           /\ \A n \in Nodes : lonely(blocking, n)' = lonely(blocking, n)
           /\ \A t \in Tasks : is_blocked(t)' = is_blocked(t)
<1>1. \A n \in Nodes : lonely(blocking, n)' = lonely(blocking, n)
  BY DEF lonely
<1>2. \A t \in Tasks : is_blocked(t)' = is_blocked(t)
  BY DEF is_blocked, lonely
<1>3. \A n \in Nodes : Home(n)' = Home(n)
  BY <1>2 DEF Home
<1>4. \A n \in Nodes : blocking.l_next[n] \in Nodes
  BY Typing DEF Heap
<1>. QED BY <1>1, <1>2, <1>3, <1>4 DEF IInv, ListsOK, Linked

\* In a section the level that lock or unlock added is there to take away.
LEMMA PreemptDown ==
    ASSUME IInv, pc[cpu] \in SectionPoints, preempt_down
    PROVE  preempt_counter' = nest[cpu] /\ panic' = panic
<1>1. preempt_counter = nest[cpu] + 1 /\ nest[cpu] \in Nat
  BY Typing
<1>. QED BY <1>1 DEF preempt_down

\* A step that changes no list keeps what is said of blocked tasks, if the
\* point it goes to agrees with the task being blocked or not.
LEMMA BlockedKept ==
    ASSUME IInv, blocking' = blocking, cpu' = cpu,
           NEW point, pc' = [pc EXCEPT ![cpu] = point],
           is_blocked(cpu) => point \in {"blocked", "yield"},
           point = "blocked" => is_blocked(cpu),
           \A m \in Mutexes : m_owner'[m] = NULL => lonely(blocking, m)
    PROVE  BlockedOK'
<1>1. /\ cpu \in Tasks /\ cpu \in Stacks /\ Tasks \subseteq Stacks
      /\ pc \in [Stacks -> Points]
  BY Typing
<1>2. pc'[cpu] = point /\ \A t \in Tasks : t # cpu => pc'[t] = pc[t]
  BY <1>1
<1>. QED BY <1>1, <1>2 DEF IInv, BlockedOK, is_blocked, lonely

\* A step of a call that changes no list preserves the invariant if it keeps
\* the three parts that are about the call itself.
LEMMA CallInv ==
    ASSUME IInv, UNCHANGED <<task_vars, blocking, panic>>,
           NEW point \in Points, pc' = [pc EXCEPT ![cpu] = point],
           preempt_counter' = nest[cpu] + IF point \in SectionPoints
                                          THEN 1 ELSE 0,
           m_owner' \in [Mutexes -> Tasks \cup {NULL}],
           want' \in [Stacks -> Mutexes \cup {NULL}],
           held' \in [Stacks -> SUBSET Mutexes],
           \A t \in Tasks : is_blocked(t) => want'[t] = want[t],
           is_blocked(cpu) => point \in {"blocked", "yield"},
           point = "blocked" => is_blocked(cpu),
           \A m \in Mutexes : m_owner'[m] = NULL => lonely(blocking, m),
           OwnerClaims', WantOK', BranchOK'
    PROVE  IInv'
<1>1. cpu' = cpu
  BY DEF task_vars, frame_vars
<1>2. preempt_counter' \in Nat
  BY Typing
<1>3. blocking \in Heap(Nodes)
  BY Typing
<1>4. TypeOK'
  BY <1>2, <1>3, CallTypes
<1>5. PreemptAccounts'
  BY Accounts
<1>6. ListsOK'
  BY ListsKept
<1>7. BlockedOK'
  BY <1>1, BlockedKept
<1>8. AssertsHold'
  BY DEF IInv, AssertsHold
<1>. QED BY <1>4, <1>5, <1>6, <1>7, <1>8 DEF IInv

\* lock preserves the invariant.
LEMMA LockInv == ASSUME IInv, lock PROVE IInv'
<1>. USE DEF lock, At, Goto
<1>1. /\ cpu \in Tasks /\ cpu \in Stacks /\ Tasks \subseteq Stacks
      /\ pc \in [Stacks -> Points] /\ nest[cpu] \in Nat
      /\ want \in [Stacks -> Mutexes \cup {NULL}]
      /\ held \in [Stacks -> SUBSET Mutexes]
      /\ m_owner \in [Mutexes -> Tasks \cup {NULL}]
      /\ pc[cpu] = "run" /\ preempt_counter = nest[cpu]
  BY Typing DEF SectionPoints
<1>2. PICK m \in Mutexes \ held[cpu] : want' = [want EXCEPT ![cpu] = m]
  OBVIOUS
<1>3. "lock" \in Points /\ "lock" \in SectionPoints
  BY DEF Points, SectionPoints
<1>4. preempt_counter' = nest[cpu] + 1
  BY <1>1 DEF preempt_up
<1>5. ~is_blocked(cpu)
  BY <1>1 DEF IInv, BlockedOK
<1>6. cpu' = cpu
  BY DEF task_vars, frame_vars
<1>7. \A t \in Tasks : is_blocked(t)' = is_blocked(t)
  BY DEF is_blocked, lonely
<1>8. OwnerClaims'
  BY <1>1, <1>2, <1>5, <1>7 DEF IInv, OwnerClaims, Claims
<1>9. WantOK'
  BY <1>1, <1>2 DEF IInv, WantOK
<1>10. BranchOK'
  BY <1>1, <1>6 DEF BranchOK
<1>11. want' \in [Stacks -> Mutexes \cup {NULL}]
  BY <1>1, <1>2
<1>12. \A t \in Tasks : is_blocked(t) => want'[t] = want[t]
  BY <1>1, <1>2, <1>5
<1>13. \A m1 \in Mutexes : m_owner'[m1] = NULL => lonely(blocking, m1)
  BY DEF IInv, BlockedOK
<1>. QED BY <1>1, <1>3, <1>4, <1>5, <1>8, <1>9, <1>10, <1>11, <1>12, <1>13,
            CallInv

\* lock_check preserves the invariant: the kassert that the caller does not
\* own the mutex holds, since an owner would hold a guard of it.
LEMMA LockCheckInv == ASSUME IInv, lock_check PROVE IInv'
<1>. USE DEF lock_check, At, Goto
<1>. DEFINE m == want[cpu]
            point == IF m_owner[m] = NULL THEN "take" ELSE "block"
<1>1. /\ cpu \in Tasks /\ cpu \in Stacks /\ Tasks \subseteq Stacks
      /\ pc \in [Stacks -> Points] /\ nest[cpu] \in Nat
      /\ want \in [Stacks -> Mutexes \cup {NULL}]
      /\ held \in [Stacks -> SUBSET Mutexes]
      /\ m_owner \in [Mutexes -> Tasks \cup {NULL}]
      /\ m \in Mutexes /\ m \notin held[cpu] /\ current_task = cpu
      /\ pc[cpu] = "lock" /\ preempt_counter = nest[cpu] + 1
  BY Typing DEF CallPoints, SectionPoints
<1>2. ~is_blocked(cpu)
  BY <1>1 DEF IInv, BlockedOK
<1>3. m_owner[m] # cpu
  BY <1>1 DEF IInv, OwnerClaims, Claims
<1>4. pc' = [pc EXCEPT ![cpu] = point] /\ panic' = panic
  BY <1>1, <1>3
<1>5. point \in {"take", "block"}
  OBVIOUS
<1>6. point \in Points /\ point \in SectionPoints
  BY <1>5 DEF Points, SectionPoints
<1>7. /\ cpu' = cpu /\ m_owner' = m_owner /\ want' = want /\ held' = held
  BY DEF task_vars, frame_vars, mutex_vars
<1>8. \A t \in Tasks : is_blocked(t)' = is_blocked(t)
  BY DEF is_blocked, lonely
<1>9. OwnerClaims'
  <2>1. /\ pc'[cpu] \in {"take", "block"}
        /\ \A t \in Tasks : t # cpu => pc'[t] = pc[t]
    BY <1>1, <1>4, <1>5
  <2>2. \A t \in Tasks, m1 \in Mutexes : Claims(t, m1)' <=> Claims(t, m1)
    BY <1>1, <1>2, <1>7, <1>8, <2>1 DEF Claims
  <2>. QED BY <1>7, <2>2 DEF IInv, OwnerClaims
<1>10. WantOK'
  BY <1>1, <1>4, <1>7 DEF IInv, WantOK
<1>11. BranchOK'
  BY <1>1, <1>3, <1>4, <1>7 DEF BranchOK
<1>12. \A m1 \in Mutexes : m_owner'[m1] = NULL => lonely(blocking, m1)
  BY <1>7 DEF IInv, BlockedOK
<1>. HIDE DEF point, m
<1>. QED BY <1>1, <1>2, <1>4, <1>5, <1>6, <1>7, <1>9, <1>10, <1>11, <1>12, CallInv

\* lock_take preserves the invariant: the mutex was free, and so claimed by
\* nobody.
LEMMA LockTakeInv == ASSUME IInv, lock_take PROVE IInv'
<1>. USE DEF lock_take, At, Goto
<1>. DEFINE m == want[cpu]
<1>1. /\ cpu \in Tasks /\ cpu \in Stacks /\ Tasks \subseteq Stacks
      /\ pc \in [Stacks -> Points] /\ nest[cpu] \in Nat
      /\ want \in [Stacks -> Mutexes \cup {NULL}]
      /\ held \in [Stacks -> SUBSET Mutexes]
      /\ m_owner \in [Mutexes -> Tasks \cup {NULL}]
      /\ m \in Mutexes /\ m \notin held[cpu] /\ current_task = cpu
      /\ pc[cpu] = "take" /\ preempt_counter = nest[cpu] + 1
  BY Typing DEF CallPoints, SectionPoints
<1>2. ~is_blocked(cpu)
  BY <1>1 DEF IInv, BlockedOK
<1>3. m_owner[m] = NULL
  BY <1>1 DEF IInv, BranchOK
<1>4. \A t \in Tasks : ~Claims(t, m)
  BY <1>1, <1>3, NULLAssumption DEF IInv, OwnerClaims
<1>5. "taken" \in Points /\ "taken" \in SectionPoints
  BY DEF Points, SectionPoints
<1>6. /\ cpu' = cpu /\ want' = want /\ held' = held
      /\ m_owner' \in [Mutexes -> Tasks \cup {NULL}] /\ m_owner'[m] = cpu
      /\ \A m1 \in Mutexes \ {m} : m_owner'[m1] = m_owner[m1]
  BY <1>1 DEF task_vars, frame_vars
<1>7. \A t \in Tasks : is_blocked(t)' = is_blocked(t)
  BY DEF is_blocked, lonely
<1>8. OwnerClaims'
  BY <1>1, <1>2, <1>4, <1>6, <1>7 DEF IInv, OwnerClaims, Claims
<1>9. WantOK'
  BY <1>1, <1>6 DEF IInv, WantOK
<1>10. BranchOK'
  BY <1>1, <1>6 DEF BranchOK
<1>11. \A m1 \in Mutexes : m_owner'[m1] = NULL => lonely(blocking, m1)
  BY <1>1, <1>6, NULLAssumption DEF IInv, BlockedOK
<1>. HIDE DEF m
<1>. QED BY <1>1, <1>2, <1>5, <1>6, <1>8, <1>9, <1>10, <1>11, CallInv

\* lock_taken preserves the invariant: the claim becomes a guard.
LEMMA LockTakenInv == ASSUME IInv, lock_taken PROVE IInv'
<1>. USE DEF lock_taken, At, Goto
<1>. DEFINE m == want[cpu]
<1>1. /\ cpu \in Tasks /\ cpu \in Stacks /\ Tasks \subseteq Stacks
      /\ pc \in [Stacks -> Points] /\ nest[cpu] \in Nat
      /\ want \in [Stacks -> Mutexes \cup {NULL}]
      /\ held \in [Stacks -> SUBSET Mutexes]
      /\ m_owner \in [Mutexes -> Tasks \cup {NULL}]
      /\ m \in Mutexes /\ m \notin held[cpu] /\ current_task = cpu
      /\ pc[cpu] = "taken"
  BY Typing DEF CallPoints, SectionPoints
<1>2. ~is_blocked(cpu)
  BY <1>1 DEF IInv, BlockedOK
<1>3. preempt_counter' = nest[cpu] /\ panic' = panic
  BY <1>1, PreemptDown DEF SectionPoints
<1>4. /\ "run" \in Points
      /\ preempt_counter' = nest[cpu] + IF "run" \in SectionPoints THEN 1 ELSE 0
  BY <1>1, <1>3 DEF Points, SchedPoints, SectionPoints
<1>5. /\ cpu' = cpu /\ want' = want /\ m_owner' = m_owner
      /\ held' \in [Stacks -> SUBSET Mutexes] /\ held'[cpu] = held[cpu] \cup {m}
      /\ \A t \in Tasks \ {cpu} : held'[t] = held[t]
  BY <1>1 DEF task_vars, frame_vars
<1>6. \A t \in Tasks : is_blocked(t)' = is_blocked(t)
  BY DEF is_blocked, lonely
<1>7. OwnerClaims'
  <2>1. \A t \in Tasks, m1 \in Mutexes : Claims(t, m1)' <=> Claims(t, m1)
    BY <1>1, <1>2, <1>5, <1>6 DEF Claims
  <2>. QED BY <1>5, <2>1 DEF IInv, OwnerClaims
<1>8. WantOK'
  BY <1>1, <1>5 DEF IInv, WantOK, CallPoints, SectionPoints
<1>9. BranchOK'
  BY <1>1, <1>5 DEF BranchOK
<1>10. \A m1 \in Mutexes : m_owner'[m1] = NULL => lonely(blocking, m1)
  BY <1>5 DEF IInv, BlockedOK
<1>. HIDE DEF m
<1>. QED BY <1>1, <1>2, <1>3, <1>4, <1>5, <1>7, <1>8, <1>9, <1>10, CallInv

\* lock_blocked preserves the invariant: preemption is enabled again only
\* once the task is in the list.
LEMMA LockBlockedInv == ASSUME IInv, lock_blocked PROVE IInv'
<1>. USE DEF lock_blocked, At, Goto
<1>. DEFINE m == want[cpu]
<1>1. /\ cpu \in Tasks /\ cpu \in Stacks /\ Tasks \subseteq Stacks
      /\ pc \in [Stacks -> Points] /\ nest[cpu] \in Nat
      /\ want \in [Stacks -> Mutexes \cup {NULL}]
      /\ held \in [Stacks -> SUBSET Mutexes]
      /\ m_owner \in [Mutexes -> Tasks \cup {NULL}]
      /\ m \in Mutexes /\ m \notin held[cpu] /\ current_task = cpu
      /\ pc[cpu] = "blocked"
  BY Typing DEF CallPoints, SectionPoints
<1>2. is_blocked(cpu)
  BY <1>1 DEF IInv, BlockedOK
<1>3. preempt_counter' = nest[cpu] /\ panic' = panic
  BY <1>1, PreemptDown DEF SectionPoints
<1>4. /\ "yield" \in Points
      /\ preempt_counter' = nest[cpu] + IF "yield" \in SectionPoints THEN 1 ELSE 0
  BY <1>1, <1>3 DEF Points, SectionPoints
<1>5. /\ cpu' = cpu /\ want' = want /\ m_owner' = m_owner /\ held' = held
  BY <1>1 DEF task_vars, frame_vars, mutex_vars
<1>6. \A t \in Tasks : is_blocked(t)' = is_blocked(t)
  BY DEF is_blocked, lonely
<1>7. OwnerClaims'
  <2>1. \A t \in Tasks, m1 \in Mutexes : Claims(t, m1)' <=> Claims(t, m1)
    BY <1>1, <1>2, <1>5, <1>6 DEF Claims
  <2>. QED BY <1>5, <2>1 DEF IInv, OwnerClaims
<1>8. WantOK'
  BY <1>1, <1>5 DEF IInv, WantOK, CallPoints, SectionPoints
<1>9. BranchOK'
  BY <1>1, <1>5 DEF BranchOK
<1>10. \A m1 \in Mutexes : m_owner'[m1] = NULL => lonely(blocking, m1)
  BY <1>5 DEF IInv, BlockedOK
<1>. HIDE DEF m
<1>. QED BY <1>1, <1>2, <1>3, <1>4, <1>5, <1>7, <1>8, <1>9, <1>10, CallInv

\* lock_resumed preserves the invariant: a task runs at this point only when
\* it is out of the list, and then it owns the mutex.
LEMMA LockResumedInv == ASSUME IInv, lock_resumed PROVE IInv'
<1>. USE DEF lock_resumed, At, Goto
<1>. DEFINE m == want[cpu]
<1>1. /\ cpu \in Tasks /\ cpu \in Stacks /\ Tasks \subseteq Stacks
      /\ pc \in [Stacks -> Points] /\ nest[cpu] \in Nat
      /\ want \in [Stacks -> Mutexes \cup {NULL}]
      /\ held \in [Stacks -> SUBSET Mutexes]
      /\ m_owner \in [Mutexes -> Tasks \cup {NULL}]
      /\ m \in Mutexes /\ m \notin held[cpu] /\ current_task = cpu
      /\ pc[cpu] = "resumed"
  BY Typing DEF CallPoints, SectionPoints
<1>2. ~is_blocked(cpu)
  BY <1>1 DEF IInv, BlockedOK
<1>3. m_owner[m] = cpu
  BY <1>1, <1>2 DEF IInv, OwnerClaims, Claims
<1>4. /\ "run" \in Points
      /\ preempt_counter' = nest[cpu] + IF "run" \in SectionPoints THEN 1 ELSE 0
  <2>1. "run" \notin SectionPoints /\ "resumed" \notin SectionPoints
    BY DEF SectionPoints
  <2>2. preempt_counter = nest[cpu] + 0
    BY <1>1, <2>1, Typing
  <2>. QED BY <2>1, <2>2 DEF Points, SchedPoints
<1>5. /\ cpu' = cpu /\ want' = want /\ m_owner' = m_owner
      /\ pc' = [pc EXCEPT ![cpu] = "run"] /\ panic' = panic
      /\ held' \in [Stacks -> SUBSET Mutexes] /\ held'[cpu] = held[cpu] \cup {m}
      /\ \A t \in Tasks \ {cpu} : held'[t] = held[t]
  BY <1>1, <1>3 DEF task_vars, frame_vars
<1>6. \A t \in Tasks : is_blocked(t)' = is_blocked(t)
  BY DEF is_blocked, lonely
<1>7. OwnerClaims'
  <2>1. \A t \in Tasks, m1 \in Mutexes : Claims(t, m1)' <=> Claims(t, m1)
    BY <1>1, <1>2, <1>5, <1>6 DEF Claims
  <2>. QED BY <1>5, <2>1 DEF IInv, OwnerClaims
<1>8. WantOK'
  BY <1>1, <1>5 DEF IInv, WantOK, CallPoints, SectionPoints
<1>9. BranchOK'
  BY <1>1, <1>5 DEF BranchOK
<1>10. \A m1 \in Mutexes : m_owner'[m1] = NULL => lonely(blocking, m1)
  BY <1>5 DEF IInv, BlockedOK
<1>. HIDE DEF m
<1>. QED BY <1>1, <1>2, <1>4, <1>5, <1>7, <1>8, <1>9, <1>10, CallInv

\* unlock preserves the invariant: the guard becomes a claim.
LEMMA UnlockInv == ASSUME IInv, unlock PROVE IInv'
<1>. USE DEF unlock, At, Goto
<1>1. /\ cpu \in Tasks /\ cpu \in Stacks /\ Tasks \subseteq Stacks
      /\ pc \in [Stacks -> Points] /\ nest[cpu] \in Nat
      /\ want \in [Stacks -> Mutexes \cup {NULL}]
      /\ held \in [Stacks -> SUBSET Mutexes]
      /\ m_owner \in [Mutexes -> Tasks \cup {NULL}]
      /\ pc[cpu] = "run" /\ preempt_counter = nest[cpu]
  BY Typing DEF SectionPoints
<1>2. PICK m \in held[cpu] : /\ want' = [want EXCEPT ![cpu] = m]
                             /\ held' = [held EXCEPT ![cpu] = @ \ {m}]
  OBVIOUS
<1>3. "unlock" \in Points /\ "unlock" \in SectionPoints
  BY DEF Points, SectionPoints
<1>4. preempt_counter' = nest[cpu] + 1
  BY <1>1 DEF preempt_up
<1>5. ~is_blocked(cpu)
  BY <1>1 DEF IInv, BlockedOK
<1>6. /\ cpu' = cpu /\ m_owner' = m_owner /\ m \in Mutexes
      /\ want' \in [Stacks -> Mutexes \cup {NULL}] /\ want'[cpu] = m
      /\ \A t \in Tasks \ {cpu} : want'[t] = want[t] /\ held'[t] = held[t]
      /\ held' \in [Stacks -> SUBSET Mutexes] /\ held'[cpu] = held[cpu] \ {m}
  BY <1>1, <1>2 DEF task_vars, frame_vars
<1>7. \A t \in Tasks : is_blocked(t)' = is_blocked(t)
  BY DEF is_blocked, lonely
<1>8. OwnerClaims'
  <2>1. \A t \in Tasks, m1 \in Mutexes : Claims(t, m1)' <=> Claims(t, m1)
    BY <1>1, <1>2, <1>5, <1>6, <1>7 DEF Claims
  <2>. QED BY <1>6, <2>1 DEF IInv, OwnerClaims
<1>9. WantOK'
  BY <1>1, <1>6 DEF IInv, WantOK
<1>10. BranchOK'
  BY <1>1, <1>6 DEF BranchOK
<1>11. \A t \in Tasks : is_blocked(t) => want'[t] = want[t]
  BY <1>5, <1>6
<1>12. \A m1 \in Mutexes : m_owner'[m1] = NULL => lonely(blocking, m1)
  BY <1>6 DEF IInv, BlockedOK
<1>. QED BY <1>1, <1>3, <1>4, <1>5, <1>6, <1>8, <1>9, <1>10, <1>11, <1>12,
            CallInv

\* unlock_check preserves the invariant: the caller owns the mutex.
LEMMA UnlockCheckInv == ASSUME IInv, unlock_check PROVE IInv'
<1>. USE DEF unlock_check, At, Goto
<1>. DEFINE m == want[cpu]
            point == IF lonely(blocking, m) THEN "release" ELSE "hand"
<1>1. /\ cpu \in Tasks /\ cpu \in Stacks /\ Tasks \subseteq Stacks
      /\ pc \in [Stacks -> Points] /\ nest[cpu] \in Nat
      /\ want \in [Stacks -> Mutexes \cup {NULL}]
      /\ held \in [Stacks -> SUBSET Mutexes]
      /\ m_owner \in [Mutexes -> Tasks \cup {NULL}]
      /\ m \in Mutexes /\ m \notin held[cpu] /\ current_task = cpu
      /\ pc[cpu] = "unlock" /\ preempt_counter = nest[cpu] + 1
  BY Typing DEF CallPoints, SectionPoints
<1>2. ~is_blocked(cpu)
  BY <1>1 DEF IInv, BlockedOK
<1>3. m_owner[m] = cpu
  BY <1>1 DEF IInv, OwnerClaims, Claims
<1>4. pc' = [pc EXCEPT ![cpu] = point] /\ panic' = panic
  BY <1>1, <1>3
<1>5. point \in {"release", "hand"}
  OBVIOUS
<1>6. point \in Points /\ point \in SectionPoints
  BY <1>5 DEF Points, SectionPoints
<1>7. /\ cpu' = cpu /\ m_owner' = m_owner /\ want' = want /\ held' = held
      /\ blocking' = blocking
  BY DEF task_vars, frame_vars, mutex_vars
<1>8. \A t \in Tasks : is_blocked(t)' = is_blocked(t)
  BY DEF is_blocked, lonely
<1>9. OwnerClaims'
  <2>1. /\ pc'[cpu] \in {"release", "hand"}
        /\ \A t \in Tasks : t # cpu => pc'[t] = pc[t]
    BY <1>1, <1>4, <1>5
  <2>2. \A t \in Tasks, m1 \in Mutexes : Claims(t, m1)' <=> Claims(t, m1)
    BY <1>1, <1>2, <1>7, <1>8, <2>1 DEF Claims
  <2>. QED BY <1>7, <2>2 DEF IInv, OwnerClaims
<1>10. WantOK'
  BY <1>1, <1>4, <1>7 DEF IInv, WantOK
<1>11. BranchOK'
  BY <1>1, <1>4, <1>7 DEF BranchOK, lonely
<1>12. \A m1 \in Mutexes : m_owner'[m1] = NULL => lonely(blocking, m1)
  BY <1>7 DEF IInv, BlockedOK
<1>. HIDE DEF point, m
<1>. QED BY <1>1, <1>2, <1>4, <1>5, <1>6, <1>7, <1>9, <1>10, <1>11, <1>12, CallInv

\* unlock_release preserves the invariant: the list was seen to be empty, and
\* no tick could let another task into it since.
LEMMA UnlockReleaseInv == ASSUME IInv, unlock_release PROVE IInv'
<1>. USE DEF unlock_release, At, Goto
<1>. DEFINE m == want[cpu]
<1>1. /\ cpu \in Tasks /\ cpu \in Stacks /\ Tasks \subseteq Stacks
      /\ pc \in [Stacks -> Points] /\ nest[cpu] \in Nat
      /\ want \in [Stacks -> Mutexes \cup {NULL}]
      /\ held \in [Stacks -> SUBSET Mutexes]
      /\ m_owner \in [Mutexes -> Tasks \cup {NULL}]
      /\ m \in Mutexes /\ m \notin held[cpu] /\ current_task = cpu
      /\ pc[cpu] = "release" /\ preempt_counter = nest[cpu] + 1
  BY Typing DEF CallPoints, SectionPoints
<1>2. ~is_blocked(cpu)
  BY <1>1 DEF IInv, BlockedOK
<1>3. m_owner[m] = cpu /\ \A t \in Tasks \ {cpu} : ~Claims(t, m)
  BY <1>1 DEF IInv, OwnerClaims, Claims
<1>4. lonely(blocking, m)
  BY <1>1 DEF IInv, BranchOK
<1>5. "released" \in Points /\ "released" \in SectionPoints
  BY DEF Points, SectionPoints
<1>6. /\ cpu' = cpu /\ want' = want /\ held' = held
      /\ m_owner' \in [Mutexes -> Tasks \cup {NULL}] /\ m_owner'[m] = NULL
      /\ \A m1 \in Mutexes \ {m} : m_owner'[m1] = m_owner[m1]
  BY <1>1 DEF task_vars, frame_vars
<1>7. \A t \in Tasks : is_blocked(t)' = is_blocked(t)
  BY DEF is_blocked, lonely
<1>8. OwnerClaims'
  <2>1. \A t \in Tasks, m1 \in Mutexes \ {m} : Claims(t, m1)' <=> Claims(t, m1)
    BY <1>1, <1>2, <1>6, <1>7 DEF Claims
  <2>2. \A t \in Tasks : ~Claims(t, m)'
    BY <1>1, <1>2, <1>3, <1>6, <1>7 DEF Claims
  <2>. QED BY <1>6, <2>1, <2>2, NULLAssumption DEF IInv, OwnerClaims
<1>9. WantOK'
  BY <1>1, <1>6 DEF IInv, WantOK
<1>10. BranchOK'
  BY <1>1, <1>6 DEF BranchOK
<1>11. \A m1 \in Mutexes : m_owner'[m1] = NULL => lonely(blocking, m1)
  BY <1>4, <1>6 DEF IInv, BlockedOK
<1>. HIDE DEF m
<1>. QED BY <1>1, <1>2, <1>5, <1>6, <1>8, <1>9, <1>10, <1>11, CallInv

\* unlock_released preserves the invariant.
LEMMA UnlockReleasedInv == ASSUME IInv, unlock_released PROVE IInv'
<1>. USE DEF unlock_released, At, Goto
<1>. DEFINE m == want[cpu]
<1>1. /\ cpu \in Tasks /\ cpu \in Stacks /\ Tasks \subseteq Stacks
      /\ pc \in [Stacks -> Points] /\ nest[cpu] \in Nat
      /\ want \in [Stacks -> Mutexes \cup {NULL}]
      /\ held \in [Stacks -> SUBSET Mutexes]
      /\ m_owner \in [Mutexes -> Tasks \cup {NULL}]
      /\ m \in Mutexes /\ m \notin held[cpu] /\ current_task = cpu
      /\ pc[cpu] = "released"
  BY Typing DEF CallPoints, SectionPoints
<1>2. ~is_blocked(cpu)
  BY <1>1 DEF IInv, BlockedOK
<1>3. preempt_counter' = nest[cpu] /\ panic' = panic
  BY <1>1, PreemptDown DEF SectionPoints
<1>4. /\ "run" \in Points
      /\ preempt_counter' = nest[cpu] + IF "run" \in SectionPoints THEN 1 ELSE 0
  BY <1>1, <1>3 DEF Points, SchedPoints, SectionPoints
<1>5. /\ cpu' = cpu /\ want' = want /\ m_owner' = m_owner /\ held' = held
  BY <1>1 DEF task_vars, frame_vars, mutex_vars
<1>6. \A t \in Tasks : is_blocked(t)' = is_blocked(t)
  BY DEF is_blocked, lonely
<1>7. OwnerClaims'
  <2>1. \A t \in Tasks, m1 \in Mutexes : Claims(t, m1)' <=> Claims(t, m1)
    BY <1>1, <1>2, <1>5, <1>6 DEF Claims
  <2>. QED BY <1>5, <2>1 DEF IInv, OwnerClaims
<1>8. WantOK'
  BY <1>1, <1>5 DEF IInv, WantOK, CallPoints, SectionPoints
<1>9. BranchOK'
  BY <1>1, <1>5 DEF BranchOK
<1>10. \A m1 \in Mutexes : m_owner'[m1] = NULL => lonely(blocking, m1)
  BY <1>5 DEF IInv, BlockedOK
<1>. HIDE DEF m
<1>. QED BY <1>1, <1>2, <1>3, <1>4, <1>5, <1>7, <1>8, <1>9, <1>10, CallInv

\* lock_block preserves the invariant: the task enters the list of the mutex
\* it wants, at the tail.
LEMMA LockBlockInv == ASSUME IInv, lock_block PROVE IInv'
<1>. USE DEF lock_block, At, Goto
<1>. DEFINE m == want[cpu]
            nx == blocking.l_next
            pv == blocking.l_prev
<1>1. /\ cpu \in Tasks /\ cpu \in Stacks /\ Tasks \subseteq Stacks
      /\ pc \in [Stacks -> Points] /\ nest[cpu] \in Nat
      /\ want \in [Stacks -> Mutexes \cup {NULL}]
      /\ held \in [Stacks -> SUBSET Mutexes]
      /\ m_owner \in [Mutexes -> Tasks \cup {NULL}]
      /\ m \in Mutexes /\ m \notin held[cpu] /\ current_task = cpu
      /\ pc[cpu] = "block" /\ preempt_counter = nest[cpu] + 1
      /\ blocking \in Heap(Nodes)
  BY Typing DEF CallPoints, SectionPoints
<1>2. /\ m \in Nodes /\ cpu \in Nodes /\ m \notin Tasks
      /\ nx \in [Nodes -> Nodes] /\ pv \in [Nodes -> Nodes]
  BY <1>1, ListsAssumption DEF Nodes, Mutexes, Heap
<1>3. /\ Linked(blocking, Nodes)
      /\ \A n \in Nodes : pv[nx[n]] = n /\ nx[pv[n]] = n
  BY DEF IInv, ListsOK, Linked
<1>4. nx[cpu] = cpu /\ lonely(blocking, cpu)
  BY <1>1 DEF IInv, BlockedOK, is_blocked, lonely
<1>5. pv[m] # cpu /\ pv[m] \in Nodes
  BY <1>1, <1>2, <1>3, <1>4
<1>6. blocking' \in Heap(Nodes) /\ Linked(blocking', Nodes)
  BY <1>1, <1>2, <1>3, <1>4, <1>5, AddAfterSelf DEF block_on
<1>7. blocking'.l_next = [nx EXCEPT ![cpu] = m, ![pv[m]] = cpu]
  BY <1>1, <1>2, <1>3 DEF block_on, add_after_self
<1>8. /\ blocking'.l_next[cpu] = m /\ blocking'.l_next[pv[m]] = cpu
      /\ \A n \in Nodes : n # cpu /\ n # pv[m] => blocking'.l_next[n] = nx[n]
  BY <1>2, <1>5, <1>7
<1>9. is_blocked(cpu)' /\ ~is_blocked(cpu)
  BY <1>1, <1>2, <1>4, <1>8 DEF is_blocked, lonely, task_vars, frame_vars
<1>10. \A t \in Tasks : t # cpu => is_blocked(t)' = is_blocked(t)
  <2>. SUFFICES ASSUME NEW t \in Tasks, t # cpu
                PROVE  blocking'.l_next[t] = t <=> nx[t] = t
    BY DEF is_blocked, lonely
  <2>1. t \in Nodes /\ t # m
    BY <1>2 DEF Nodes
  <2>2. CASE t = pv[m]
    BY <1>2, <1>3, <1>8, <2>1, <2>2
  <2>3. CASE t # pv[m]
    BY <1>8, <2>1, <2>3
  <2>. QED BY <2>2, <2>3
<1>11. /\ cpu' = cpu /\ m_owner' = m_owner /\ want' = want /\ held' = held
       /\ pc'[cpu] = "blocked" /\ \A t \in Tasks : t # cpu => pc'[t] = pc[t]
  BY <1>1 DEF task_vars, frame_vars, mutex_vars
<1>12. "blocked" \in Points /\ "blocked" \in SectionPoints
  BY DEF Points, SectionPoints
<1>13. TypeOK'
  <2>1. preempt_counter' \in Nat /\ panic' = panic
    BY <1>1
  <2>. QED BY <1>1, <1>6, <1>11, <1>12, <2>1, CallTypes
<1>14. PreemptAccounts'
  BY <1>1, <1>12, Accounts
<1>15. OwnerClaims'
  <2>1. \A t \in Tasks, m1 \in Mutexes : Claims(t, m1)' <=> Claims(t, m1)
    BY <1>1, <1>9, <1>10, <1>11 DEF Claims
  <2>. QED BY <1>11, <2>1 DEF IInv, OwnerClaims
<1>16. WantOK'
  BY <1>1, <1>11 DEF IInv, WantOK
<1>17. ListsOK'
  <2>. DEFINE H(n) == IF n \in Tasks /\ blocking'.l_next[n] # n
                      THEN want'[n] ELSE n
  <2>1. H(cpu) = m /\ H(m) = m /\ Home(m) = m
    BY <1>1, <1>2, <1>8, <1>11 DEF Home
  <2>2. \A n \in Nodes : n # cpu => H(n) = Home(n)
    BY <1>10, <1>11 DEF Home, is_blocked, lonely
  <2>3. Home(pv[m]) = m
    BY <1>2, <1>3, <2>1 DEF IInv, ListsOK
  <2>. HIDE DEF H
  <2>4. ASSUME NEW n \in Nodes PROVE H(blocking'.l_next[n]) = H(n)
    <3>1. CASE n = cpu
      BY <1>8, <2>1, <3>1
    <3>2. CASE n = pv[m]
      BY <1>5, <1>8, <2>1, <2>2, <2>3, <3>2
    <3>3. CASE n # cpu /\ n # pv[m]
      <4>1. nx[n] # cpu /\ nx[n] \in Nodes
        BY <1>2, <1>3, <1>4, <3>3
      <4>2. Home(nx[n]) = Home(n)
        BY DEF IInv, ListsOK
      <4>. QED BY <1>8, <2>2, <3>3, <4>1, <4>2
    <3>. QED BY <3>1, <3>2, <3>3
  <2>5. \A n \in Nodes : Home(blocking.l_next[n])' = Home(n)'
    BY <2>4 DEF Home, H, is_blocked, lonely
  <2>. QED BY <1>6, <2>5 DEF ListsOK
<1>18. BlockedOK'
  <2>1. \A t \in Tasks : is_blocked(t)' => pc'[t] \in {"blocked", "yield",
                                                       "resumed"}
    BY <1>10, <1>11 DEF IInv, BlockedOK
  <2>2. \A t \in Tasks : pc'[t] = "blocked" => is_blocked(t)'
    BY <1>9, <1>10, <1>11 DEF IInv, BlockedOK
  <2>3. ASSUME NEW m1 \in Mutexes, m_owner'[m1] = NULL
        PROVE  lonely(blocking', m1)
    <3>1. m1 \in Nodes /\ m1 \notin Tasks /\ nx[m1] = m1
      BY <1>11, <2>3, ListsAssumption
         DEF IInv, BlockedOK, lonely, Nodes, Mutexes
    <3>2. m1 # m
      BY <1>1, <1>11, <2>3 DEF IInv, BranchOK
    <3>3. m1 # pv[m] /\ m1 # cpu
      BY <1>1, <1>2, <1>3, <3>1, <3>2
    <3>. QED BY <1>8, <3>1, <3>3 DEF lonely
  <2>. QED BY <1>11, <2>1, <2>2, <2>3 DEF BlockedOK
<1>19. BranchOK'
  BY <1>11 DEF BranchOK
<1>20. AssertsHold'
  BY DEF IInv, AssertsHold
<1>. QED BY <1>13, <1>14, <1>15, <1>16, <1>17, <1>18, <1>19, <1>20 DEF IInv

\* yield preserves the invariant: the task leaves the processor without any
\* level of preempt_counter, or the kernel stops.
LEMMA YieldInv == ASSUME IInv, yield PROVE IInv'
<1>. USE DEF yield, At, Goto
<1>. DEFINE m == want[cpu]
<1>1. /\ cpu \in Tasks /\ cpu \in Stacks /\ Tasks \subseteq Stacks
      /\ pc \in [Stacks -> Points] /\ nest[cpu] \in Nat
      /\ want \in [Stacks -> Mutexes \cup {NULL}]
      /\ m \in Mutexes /\ m \notin held[cpu] /\ current_task = cpu
      /\ pc[cpu] = "yield"
  BY Typing DEF CallPoints, SectionPoints
<1>2. CASE preempt_counter # 0
  <2>1. /\ panic' = "yield" /\ UNCHANGED <<frame_vars, pc>>
    BY <1>2 DEF kpanic
  <2>2. TypeOK'
    <3>1. panic' \in Panics
      BY <2>1 DEF Panics
    <3>. QED BY <2>1, <3>1 DEF IInv, TypeOK, SchedTypeOK, frame_vars, mutex_vars
  <2>3. PreemptAccounts'
    BY <2>1 DEF IInv, PreemptAccounts, frame_vars
  <2>4. OwnerClaims' /\ WantOK'
    BY <2>1 DEF IInv, OwnerClaims, Claims, WantOK, is_blocked, lonely,
                mutex_vars
  <2>5. ListsOK'
    BY ListsKept DEF mutex_vars
  <2>6. BlockedOK' /\ BranchOK'
    BY <2>1 DEF IInv, BlockedOK, BranchOK, is_blocked, lonely, frame_vars,
                mutex_vars
  <2>7. AssertsHold'
    BY <2>1 DEF AssertsHold
  <2>. QED BY <2>2, <2>3, <2>4, <2>5, <2>6, <2>7 DEF IInv
<1>3. CASE preempt_counter = 0
  <2>1. /\ SwitchFrom(FALSE) /\ pc' = [pc EXCEPT ![cpu] = "resumed"]
        /\ panic' = panic
    BY <1>3
  <2>2. /\ cpu' \in Tasks /\ current_task' = cpu'
        /\ stack_pointer' = stack_pointer
        /\ ~is_blocked(cpu') /\ intr' \in BOOLEAN
        /\ saved_intr' \in [Stacks -> BOOLEAN]
    BY <2>1, Switch DEF IInv
  <2>3. /\ pc'[cpu] = "resumed" /\ \A t \in Tasks : t # cpu => pc'[t] = pc[t]
        /\ m_owner' = m_owner /\ want' = want /\ held' = held
    BY <1>1, <2>1 DEF mutex_vars
  <2>4. "resumed" \in Points /\ "resumed" \notin SectionPoints
    BY DEF Points, SectionPoints
  <2>5. TypeOK'
    BY <1>1, <2>1, <2>2, <2>3, <2>4 DEF IInv, TypeOK, SchedTypeOK
  <2>6. \A t \in Tasks : nest[t] = 0 /\ pc'[t] \notin SectionPoints
    <3>1. preempt_counter = nest[cpu] + 0
      BY <1>1 DEF IInv, PreemptAccounts, SectionPoints
    <3>. QED BY <1>1, <1>3, <2>3, <2>4, <3>1 DEF IInv, PreemptAccounts
  <2>7. PreemptAccounts'
    BY <1>3, <2>2, <2>6 DEF IInv, PreemptAccounts
  <2>8. /\ ListsOK' /\ \A t \in Tasks : is_blocked(t)' = is_blocked(t)
    BY <2>3, ListsKept
  <2>9. OwnerClaims'
    <3>1. \A t \in Tasks, m1 \in Mutexes : Claims(t, m1)' <=> Claims(t, m1)
      BY <1>1, <2>3, <2>8 DEF Claims
    <3>. QED BY <2>3, <3>1 DEF IInv, OwnerClaims
  <2>10. WantOK'
    BY <1>1, <2>3 DEF IInv, WantOK
  <2>11. BlockedOK'
    <3>1. ~is_blocked(cpu)'
      BY <2>2 DEF is_blocked, lonely
    <3>. QED BY <2>3, <2>8, <3>1 DEF IInv, BlockedOK, lonely
  <2>12. BranchOK'
    BY <2>2, <2>6 DEF BranchOK, SectionPoints
  <2>13. AssertsHold'
    BY <2>1 DEF IInv, AssertsHold
  <2>. QED BY <2>5, <2>7, <2>8, <2>9, <2>10, <2>11, <2>12, <2>13 DEF IInv
<1>. QED BY <1>2, <1>3

\* unlock_hand preserves the invariant: what follows the head in the list is
\* a task that wants this mutex and is off the processor, and it is the one
\* task to become the owner.
LEMMA UnlockHandInv == ASSUME IInv, unlock_hand PROVE IInv'
<1>. USE DEF unlock_hand, At, Goto
<1>. DEFINE nx == blocking.l_next
            pv == blocking.l_prev
<1>. PICK m, w : m = want[cpu] /\ w = blocking.l_next[m]
  OBVIOUS
<1>1. /\ cpu \in Tasks /\ cpu \in Stacks /\ Tasks \subseteq Stacks
      /\ pc \in [Stacks -> Points] /\ nest[cpu] \in Nat
      /\ want \in [Stacks -> Mutexes \cup {NULL}]
      /\ held \in [Stacks -> SUBSET Mutexes]
      /\ m_owner \in [Mutexes -> Tasks \cup {NULL}]
      /\ m \in Mutexes /\ m \notin held[cpu] /\ current_task = cpu
      /\ pc[cpu] = "hand" /\ preempt_counter = nest[cpu] + 1
      /\ blocking \in Heap(Nodes)
  BY Typing DEF CallPoints, SectionPoints
<1>2. /\ m \in Nodes /\ m \notin Tasks
      /\ nx \in [Nodes -> Nodes] /\ pv \in [Nodes -> Nodes]
      /\ w \in Nodes
  BY <1>1, ListsAssumption DEF Nodes, Mutexes, Heap
<1>3. /\ Linked(blocking, Nodes)
      /\ \A n \in Nodes : pv[nx[n]] = n /\ nx[pv[n]] = n
  BY DEF IInv, ListsOK, Linked
<1>4. w # m
  BY <1>1 DEF IInv, BranchOK, lonely
<1>5. Home(w) = m
  BY <1>2 DEF IInv, ListsOK, Home
<1>6. w \in Tasks /\ is_blocked(w) /\ want[w] = m
  BY <1>2, <1>4, <1>5 DEF Home
<1>7. w # cpu /\ pc[w] \in {"yield", "resumed"}
  <2>1. pc[w] \in {"blocked", "yield", "resumed"}
    BY <1>6 DEF IInv, BlockedOK
  <2>2. w # cpu
    BY <1>1, <2>1
  <2>. QED BY <1>6, <2>1, <2>2 DEF IInv, PreemptAccounts, SectionPoints
<1>8. /\ blocking' = unlink(blocking, w)
      /\ m_owner' = [m_owner EXCEPT ![m] = w]
      /\ pc' = [pc EXCEPT ![cpu] = "released"] /\ panic' = panic
      /\ UNCHANGED <<task_vars, preempt_counter, want, held>>
  BY <1>6
<1>. HIDE DEF unlock_hand
<1>9. blocking' \in Heap(Nodes) /\ Linked(blocking', Nodes)
  BY <1>1, <1>2, <1>3, <1>8, Unlink
<1>10. blocking'.l_next = [nx EXCEPT ![m] = nx[w], ![w] = w]
  BY <1>2, <1>3, <1>8 DEF unlink
<1>11. /\ blocking'.l_next[m] = nx[w] /\ blocking'.l_next[w] = w
       /\ \A n \in Nodes : n # m /\ n # w => blocking'.l_next[n] = nx[n]
  BY <1>2, <1>4, <1>10
<1>12. ~is_blocked(w)'
  BY <1>8, <1>11 DEF is_blocked, lonely
<1>13. \A t \in Tasks : t # w => is_blocked(t)' = is_blocked(t)
  BY <1>2, <1>11 DEF is_blocked, lonely, Nodes
<1>14. /\ cpu' = cpu /\ want' = want /\ held' = held
       /\ pc'[cpu] = "released" /\ \A t \in Tasks : t # cpu => pc'[t] = pc[t]
       /\ m_owner' \in [Mutexes -> Tasks \cup {NULL}] /\ m_owner'[m] = w
       /\ \A m1 \in Mutexes \ {m} : m_owner'[m1] = m_owner[m1]
  BY <1>1, <1>6, <1>8 DEF task_vars, frame_vars
<1>15. "released" \in Points /\ "released" \in SectionPoints
  BY DEF Points, SectionPoints
<1>16. TypeOK'
  <2>1. preempt_counter' \in Nat
    BY <1>1, <1>8
  <2>2. /\ want' \in [Stacks -> Mutexes \cup {NULL}]
        /\ held' \in [Stacks -> SUBSET Mutexes]
    BY <1>1, <1>14
  <2>3. UNCHANGED task_vars
    BY <1>8
  <2>4. pc' = [pc EXCEPT ![cpu] = "released"] /\ panic' = panic
    BY <1>8
  <2>5. m_owner' \in [Mutexes -> Tasks \cup {NULL}]
    BY <1>14
  <2>. QED BY <1>9, <1>15, <2>1, <2>2, <2>3, <2>4, <2>5, CallTypes
<1>17. PreemptAccounts'
  BY <1>1, <1>8, <1>15, Accounts
<1>18. ~is_blocked(cpu)
  BY <1>1 DEF IInv, BlockedOK
<1>19. OwnerClaims'
  <2>1. \A t \in Tasks, m1 \in Mutexes \ {m} : Claims(t, m1)' <=> Claims(t, m1)
    <3>1. ASSUME NEW t \in Tasks, NEW m1 \in Mutexes \ {m}, t # cpu, t # w
          PROVE  Claims(t, m1)' <=> Claims(t, m1)
      BY <1>13, <1>14, <3>1 DEF Claims
    <3>2. ASSUME NEW t \in Tasks, NEW m1 \in Mutexes \ {m}, t = cpu
          PROVE  Claims(t, m1)' <=> Claims(t, m1)
      BY <1>1, <1>14, <3>2 DEF Claims
    <3>3. ASSUME NEW m1 \in Mutexes \ {m}
          PROVE  Claims(w, m1)' <=> m1 \in held[w]
      BY <1>6, <1>7, <1>8, <1>14 DEF Claims
    <3>4. ASSUME NEW m1 \in Mutexes \ {m}
          PROVE  Claims(w, m1) <=> m1 \in held[w]
      BY <1>6 DEF Claims
    <3>. QED BY <3>1, <3>2, <3>3, <3>4
  <2>2. \A t \in Tasks : Claims(t, m)' <=> t = w
    <3>1. \A t \in Tasks : Claims(t, m) <=> t = cpu
      BY <1>1 DEF IInv, OwnerClaims, Claims
    <3>2. ASSUME NEW t \in Tasks, t # cpu, t # w
          PROVE  Claims(t, m)' <=> Claims(t, m)
      BY <1>13, <1>14, <3>2 DEF Claims
    <3>3. ASSUME NEW t \in Tasks, t = cpu PROVE ~Claims(t, m)'
      BY <1>1, <1>14, <3>3 DEF Claims
    <3>4. Claims(w, m)'
      BY <1>6, <1>7, <1>12, <1>14 DEF Claims
    <3>. QED BY <1>7, <3>1, <3>2, <3>3, <3>4
  <2>. QED BY <1>14, <2>1, <2>2 DEF IInv, OwnerClaims
<1>20. WantOK'
  BY <1>1, <1>14 DEF IInv, WantOK
<1>21. ListsOK'
  <2>. DEFINE H(n) == IF n \in Tasks /\ blocking'.l_next[n] # n
                      THEN want'[n] ELSE n
  <2>1. H(w) = w /\ H(m) = m
    BY <1>2, <1>11
  <2>2. \A n \in Nodes : n # w => H(n) = Home(n)
    BY <1>13, <1>14 DEF Home, is_blocked, lonely
  <2>3. nx[w] \in Nodes /\ nx[w] # w /\ Home(nx[w]) = m
    BY <1>2, <1>5, <1>6 DEF IInv, ListsOK, is_blocked, lonely
  <2>. HIDE DEF H
  <2>4. ASSUME NEW n \in Nodes PROVE H(blocking'.l_next[n]) = H(n)
    <3>1. CASE n = w
      BY <1>11, <3>1
    <3>2. CASE n = m
      BY <1>11, <2>1, <2>2, <2>3, <3>2
    <3>3. CASE n # m /\ n # w
      <4>1. nx[n] # w /\ nx[n] \in Nodes
        BY <1>2, <1>3, <3>3
      <4>2. Home(nx[n]) = Home(n)
        BY DEF IInv, ListsOK
      <4>. QED BY <1>11, <2>2, <3>3, <4>1, <4>2
    <3>. QED BY <3>1, <3>2, <3>3
  <2>5. \A n \in Nodes : Home(blocking.l_next[n])' = Home(n)'
    BY <2>4 DEF Home, H, is_blocked, lonely
  <2>. QED BY <1>9, <2>5 DEF ListsOK
<1>22. BlockedOK'
  <2>1. \A t \in Tasks : is_blocked(t)' => pc'[t] \in {"blocked", "yield",
                                                       "resumed"}
    <3>. SUFFICES ASSUME NEW t \in Tasks, is_blocked(t)'
                  PROVE  pc'[t] \in {"blocked", "yield", "resumed"}
      OBVIOUS
    <3>1. t # w /\ is_blocked(t)
      BY <1>12, <1>13
    <3>. QED BY <1>14, <1>18, <3>1 DEF IInv, BlockedOK
  <2>2. \A t \in Tasks : pc'[t] = "blocked" => is_blocked(t)'
    BY <1>7, <1>13, <1>14 DEF IInv, BlockedOK
  <2>3. ~is_blocked(cpu)'
    BY <1>1, <1>7, <1>13, <1>14, <1>18 DEF is_blocked, lonely
  <2>4. ASSUME NEW m1 \in Mutexes, m_owner'[m1] = NULL
        PROVE  lonely(blocking', m1)
    <3>1. m1 # m
      BY <1>6, <1>14, <2>4, NULLAssumption
    <3>2. m1 \in Nodes /\ m1 # w /\ nx[m1] = m1
      BY <1>6, <1>14, <2>4, <3>1, ListsAssumption
         DEF IInv, BlockedOK, lonely, Nodes, Mutexes
    <3>. QED BY <1>11, <3>1, <3>2 DEF lonely
  <2>. QED BY <2>1, <2>2, <2>3, <2>4 DEF BlockedOK
<1>23. BranchOK'
  BY <1>14 DEF BranchOK
<1>24. AssertsHold'
  BY <1>8 DEF IInv, AssertsHold
<1>. QED BY <1>16, <1>17, <1>19, <1>20, <1>21, <1>22, <1>23, <1>24 DEF IInv

----------------------------------------------------------------------------
(***************************************************************************)
(* The results.                                                            *)
(***************************************************************************)

\* Every step preserves the invariant.
LEMMA NextInv == IInv /\ [Next]_vars => IInv'
<1>. SUFFICES ASSUME IInv, [Next]_vars PROVE IInv'
  OBVIOUS
<1>1. CASE SchedNext /\ UNCHANGED mutex_vars
  BY <1>1, SchedInv
<1>2. CASE MutexOps
  BY <1>2, LockInv, LockCheckInv, LockTakeInv, LockTakenInv, LockBlockInv,
     LockBlockedInv, YieldInv, LockResumedInv, UnlockInv, UnlockCheckInv,
     UnlockReleaseInv, UnlockHandInv, UnlockReleasedInv DEF MutexOps, InCall
<1>3. CASE UNCHANGED vars
  <2>. USE <1>3 DEF vars, sched_vars, mutex_vars
  <2>1. TypeOK'
    BY DEF IInv, TypeOK, SchedTypeOK
  <2>2. PreemptAccounts'
    BY DEF IInv, PreemptAccounts
  <2>3. OwnerClaims' /\ WantOK'
    BY DEF IInv, OwnerClaims, WantOK, Claims, is_blocked, lonely
  <2>4. ListsOK'
    BY ListsKept
  <2>5. BlockedOK' /\ BranchOK' /\ AssertsHold'
    BY DEF IInv, BlockedOK, BranchOK, AssertsHold, is_blocked, lonely
  <2>. QED BY <2>1, <2>2, <2>3, <2>4, <2>5 DEF IInv
<1>4. CASE Halt /\ UNCHANGED mutex_vars
  BY <1>3, <1>4 DEF Halt, vars
<1>. QED BY <1>1, <1>2, <1>3, <1>4 DEF Next

\* The inductive invariant holds throughout.
THEOREM Invariance == Spec => []IInv
  BY InitInv, NextInv, PTL DEF Spec

\* Every variable of the scheduler and of the mutexes keeps its type: the
\* ring and the lists never lead out of the set of nodes, nest never leaves
\* 0 .. MaxNest.
THEOREM TypeCorrect == Spec => []TypeOK
<1>1. IInv => TypeOK
  BY DEF IInv
<1>. QED BY <1>1, Invariance, PTL

\* Two tasks are never in the scope of a scoped_mutex on the same mutex: each
\* of them would be its m_owner.
THEOREM Exclusion == Spec => []MutualExclusion
<1>1. IInv => MutualExclusion
  <2>. SUFFICES ASSUME IInv, NEW s \in Tasks, NEW t \in Tasks, s # t,
                       NEW m \in held[s] \cap held[t]
                PROVE  FALSE
    BY DEF MutualExclusion
  <2>1. m \in Mutexes
    BY Typing
  <2>2. m_owner[m] = s /\ m_owner[m] = t
    BY <2>1 DEF IInv, OwnerClaims, Claims
  <2>. QED BY <2>2
<1>. QED BY <1>1, Invariance, PTL

\* current_task is the task on the processor, and preempt_counter is what
\* that task's guards and its lock or unlock call add up to.
THEOREM Accounting == Spec => []PreemptAccounts
<1>1. IInv => PreemptAccounts
  BY DEF IInv
<1>. QED BY <1>1, Invariance, PTL

\* A task in a blocking list is never given the processor.
THEOREM Blocking == Spec => []BlockedNeverRuns
<1>1. IInv => BlockedNeverRuns
  BY DEF IInv, BlockedOK, BlockedNeverRuns
<1>. QED BY <1>1, Invariance, PTL

\* No kassert of lock, unlock, unblock and preempt_down fails.
THEOREM Asserts == Spec => []AssertsHold
<1>1. IInv => AssertsHold
  BY DEF IInv
<1>. QED BY <1>1, Invariance, PTL

\* Where no scoped_preemptlock is alive around a lock, the kassert of yield
\* holds too, and the kernel never stops.
THEOREM NeverPanics == ASSUME MaxNest = 0 PROVE Spec => []NoPanic
<1>1. MutexInit => NoPanic
  BY DEF MutexInit, SchedInit, NoPanic
<1>2. IInv /\ NoPanic /\ [Next]_vars => NoPanic'
  <2>. SUFFICES ASSUME IInv, NoPanic, [Next]_vars PROVE panic' = "no"
    BY DEF NoPanic
  <2>1. panic = "no" /\ panic' \in {"no", "yield"}
    BY NextInv DEF IInv, AssertsHold, NoPanic
  <2>2. CASE SchedNext
    BY <2>1, <2>2 DEF SchedNext, timeslice_passed, task_wrapper,
       scoped_preemptlock, scoped_preemptlock_end, preempt_down, kpanic,
       allocate, link_node, link_prev, link_next
  <2>3. CASE yield
    <3>1. pc[cpu] = "yield" /\ nest[cpu] = 0
      BY <2>3, Typing DEF yield, At, IInv, TypeOK, SchedTypeOK
    <3>2. preempt_counter = 0
      BY <3>1, Typing DEF SectionPoints
    <3>. QED BY <2>1, <2>3, <3>2 DEF yield
  <2>4. CASE lock \/ lock_check \/ lock_take \/ lock_taken \/ lock_block
             \/ lock_blocked \/ lock_resumed
    BY <2>1, <2>4 DEF lock, lock_check, lock_take, lock_taken, lock_block,
       lock_blocked, lock_resumed, preempt_down, kpanic
  <2>5. CASE unlock \/ unlock_check \/ unlock_release \/ unlock_hand
             \/ unlock_released
    BY <2>1, <2>5 DEF unlock, unlock_check, unlock_release, unlock_hand,
       unlock_released, preempt_down, kpanic
  <2>6. CASE Halt
    BY <2>1, <2>6 DEF Halt
  <2>7. CASE UNCHANGED vars
    BY <2>1, <2>7 DEF vars, sched_vars
  <2>. QED BY <2>2, <2>3, <2>4, <2>5, <2>6, <2>7 DEF Next, MutexOps, InCall
<1>. QED BY <1>1, <1>2, Invariance, PTL DEF Spec

----------------------------------------------------------------------------
(***************************************************************************)
(* The waiting lists as queues.                                            *)
(***************************************************************************)
\* A blocked task can be found from the mutex it waits for.
ReachOK == \A t \in Tasks : is_blocked(t) => Reaches(blocking, Nodes, want[t], t)

WaitInv == IInv /\ ReachOK

queue(m) == After(blocking, Nodes, m)

----------------------------------------------------------------------------
\* What lock_block does to the lists: cpu goes between the last node p and
\* the head.
LEMMA BlockEffect ==
    ASSUME IInv, lock_block
    PROVE  \E m \in Mutexes, p \in Nodes :
            /\ m = want[cpu] /\ m \notin Tasks /\ m \in Nodes
            /\ cpu \in Tasks /\ cpu \in Nodes /\ p # cpu
            /\ blocking.l_next[cpu] = cpu /\ blocking.l_next[p] = m
            /\ \A n \in Nodes : n # cpu => blocking.l_next[n] # cpu
            /\ \A n \in Nodes : blocking.l_next[n] = m => n = p
            /\ Home(p) = m
            /\ blocking'.l_next[cpu] = m /\ blocking'.l_next[p] = cpu
            /\ \A n \in Nodes : n # cpu /\ n # p =>
                    blocking'.l_next[n] = blocking.l_next[n]
            /\ m_owner[m] \notin {NULL, cpu}
            /\ current_task = cpu
            /\ UNCHANGED <<m_owner, want>>
<1>. USE DEF lock_block, At, Goto
<1>. DEFINE m == want[cpu]
            nx == blocking.l_next
            pv == blocking.l_prev
<1>1. /\ cpu \in Tasks /\ m \in Mutexes /\ current_task = cpu
      /\ pc[cpu] = "block" /\ blocking \in Heap(Nodes)
  BY Typing DEF CallPoints, SectionPoints
<1>2. /\ m \in Nodes /\ cpu \in Nodes /\ m \notin Tasks
      /\ nx \in [Nodes -> Nodes] /\ pv \in [Nodes -> Nodes]
  BY <1>1, ListsAssumption DEF Nodes, Mutexes, Heap
<1>3. \A n \in Nodes : pv[nx[n]] = n /\ nx[pv[n]] = n
  BY DEF IInv, ListsOK, Linked
<1>4. nx[cpu] = cpu
  BY <1>1 DEF IInv, BlockedOK, is_blocked, lonely
<1>5. pv[m] # cpu /\ pv[m] \in Nodes /\ nx[pv[m]] = m
  BY <1>1, <1>2, <1>3, <1>4
<1>6. blocking'.l_next = [nx EXCEPT ![cpu] = m, ![pv[m]] = cpu]
  BY <1>1, <1>2, <1>3 DEF block_on, add_after_self
<1>7. Home(pv[m]) = m
  BY <1>2, <1>5 DEF IInv, ListsOK, Home
<1>8. m_owner[m] \notin {NULL, cpu}
  BY <1>1 DEF IInv, BranchOK
<1>9. UNCHANGED <<m_owner, want>>
  BY DEF mutex_vars
<1>. HIDE DEF lock_block
<1>10. /\ blocking'.l_next[cpu] = m /\ blocking'.l_next[pv[m]] = cpu
       /\ \A n \in Nodes : n # cpu /\ n # pv[m] => blocking'.l_next[n] = nx[n]
  BY <1>2, <1>5, <1>6
<1>11. \A n \in Nodes : n # cpu => nx[n] # cpu
  BY <1>2, <1>3, <1>4
<1>12. \A n \in Nodes : nx[n] = m => n = pv[m]
  BY <1>3
<1>. QED BY <1>1, <1>2, <1>4, <1>5, <1>7, <1>8, <1>9, <1>10, <1>11, <1>12

\* What unlock_hand does to the lists: the first waiter w leaves.
LEMMA HandEffect ==
    ASSUME IInv, unlock_hand
    PROVE  \E m \in Mutexes, w \in Tasks :
            /\ m = want[cpu] /\ m \notin Tasks /\ m \in Nodes /\ w \in Nodes
            /\ blocking.l_next[m] = w /\ is_blocked(w) /\ Home(w) = m
            /\ \A n \in Nodes : blocking.l_next[n] = w => n = m
            /\ blocking'.l_next[m] = blocking.l_next[w]
            /\ blocking'.l_next[w] = w
            /\ \A n \in Nodes : n # m /\ n # w =>
                    blocking'.l_next[n] = blocking.l_next[n]
            /\ m_owner[m] # NULL
            /\ m_owner' = [m_owner EXCEPT ![m] = w]
            /\ UNCHANGED want
<1>. USE DEF unlock_hand, At, Goto
<1>. DEFINE nx == blocking.l_next
            pv == blocking.l_prev
            m == want[cpu]
            w == nx[m]
<1>1. /\ cpu \in Tasks /\ m \in Mutexes /\ current_task = cpu
      /\ pc[cpu] = "hand" /\ blocking \in Heap(Nodes)
  BY Typing DEF CallPoints, SectionPoints
<1>2. /\ m \in Nodes /\ m \notin Tasks
      /\ nx \in [Nodes -> Nodes] /\ pv \in [Nodes -> Nodes] /\ w \in Nodes
  BY <1>1, ListsAssumption DEF Nodes, Mutexes, Heap
<1>3. \A n \in Nodes : pv[nx[n]] = n /\ nx[pv[n]] = n
  BY DEF IInv, ListsOK, Linked
<1>4. w # m
  BY <1>1 DEF IInv, BranchOK, lonely
<1>5. Home(w) = m
  BY <1>2 DEF IInv, ListsOK, Home
<1>6. w \in Tasks /\ is_blocked(w)
  BY <1>2, <1>4, <1>5 DEF Home
<1>7. /\ blocking' = unlink(blocking, w)
      /\ m_owner' = [m_owner EXCEPT ![m] = w] /\ UNCHANGED want
  BY <1>6
<1>8. m_owner[m] # NULL
  <2>1. Claims(cpu, m)
    BY <1>1 DEF Claims
  <2>. QED BY <1>1, <2>1, NULLAssumption DEF IInv, OwnerClaims
<1>. HIDE DEF unlock_hand
<1>9. blocking'.l_next = [nx EXCEPT ![m] = nx[w], ![w] = w]
  BY <1>2, <1>3, <1>7 DEF unlink
<1>10. /\ blocking'.l_next[m] = nx[w] /\ blocking'.l_next[w] = w
       /\ \A n \in Nodes : n # m /\ n # w => blocking'.l_next[n] = nx[n]
  BY <1>2, <1>4, <1>9
<1>11. \A n \in Nodes : nx[n] = w => n = m
  BY <1>2, <1>3
<1>. QED BY <1>1, <1>2, <1>5, <1>6, <1>7, <1>8, <1>10, <1>11

----------------------------------------------------------------------------
\* Blocked tasks stay reachable when another one goes to the end of a list.
LEMMA BlockReach == ASSUME WaitInv, lock_block PROVE ReachOK'
<1>1. PICK m \in Mutexes, p \in Nodes :
            /\ m = want[cpu] /\ m \notin Tasks /\ m \in Nodes
            /\ cpu \in Tasks /\ cpu \in Nodes /\ p # cpu
            /\ blocking.l_next[cpu] = cpu /\ blocking.l_next[p] = m
            /\ \A n \in Nodes : n # cpu => blocking.l_next[n] # cpu
            /\ Home(p) = m
            /\ blocking'.l_next[cpu] = m /\ blocking'.l_next[p] = cpu
            /\ \A n \in Nodes : n # cpu /\ n # p =>
                    blocking'.l_next[n] = blocking.l_next[n]
            /\ UNCHANGED want
  BY BlockEffect DEF WaitInv
<1>. SUFFICES ASSUME NEW t \in Tasks, is_blocked(t)',
                     NEW Z \in SUBSET Nodes, want[t] \in Z,
                     \A x \in Z : blocking'.l_next[x] \in Z
              PROVE  t \in Z
  BY <1>1 DEF ReachOK, Reaches
<1>. DEFINE Y == Z \ {cpu}
<1>2. \A x \in Y : blocking.l_next[x] \in Y
  <2>. SUFFICES ASSUME NEW x \in Y PROVE blocking.l_next[x] \in Y
    OBVIOUS
  <2>1. CASE x # p
    BY <1>1, <2>1
  <2>2. CASE x = p
    <3>1. cpu \in Z /\ m \in Z
      BY <1>1, <2>2
    <3>. QED BY <1>1, <2>2, <3>1
  <2>. QED BY <2>1, <2>2
<1>3. ASSUME NEW u \in Tasks, u # cpu, is_blocked(u), want[u] \in Y
      PROVE  u \in Y
  <2>1. Reaches(blocking, Nodes, want[u], u)
    BY <1>3 DEF WaitInv, ReachOK
  <2>2. Y \in SUBSET Nodes
    OBVIOUS
  <2>. QED BY <1>2, <1>3, <2>1, <2>2 DEF Reaches
<1>4. want[t] # cpu
  <2>1. CASE t = cpu
    BY <1>1, <2>1
  <2>2. CASE t # cpu
    <3>1. t \in Nodes
      BY DEF Nodes
    <3>2. is_blocked(t)
      <4>1. CASE t = p
        BY <1>1, <2>2, <3>1, <4>1 DEF is_blocked, lonely
      <4>2. CASE t # p
        BY <1>1, <2>2, <3>1, <4>2 DEF is_blocked, lonely
      <4>. QED BY <4>1, <4>2
    <3>3. want[t] \in Mutexes
      BY <3>2, Typing DEF WaitInv, IInv, BlockedOK, CallPoints, SectionPoints
    <3>. QED BY <1>1, <3>3, ListsAssumption DEF Mutexes
  <2>. QED BY <2>1, <2>2
<1>5. CASE t = cpu
  <2>1. m \in Y
    BY <1>1, <1>5
  <2>2. p \in Y
    <3>1. CASE p = m
      BY <2>1, <3>1
    <3>2. CASE p # m
      <4>1. p \in Tasks /\ is_blocked(p) /\ want[p] = m
        BY <1>1, <3>2 DEF Home
      <4>. QED BY <1>1, <1>3, <2>1, <4>1
    <3>. QED BY <3>1, <3>2
  <2>. QED BY <1>1, <1>5, <2>2
<1>6. CASE t # cpu
  <2>1. t \in Nodes
    BY DEF Nodes
  <2>2. is_blocked(t)
    <3>1. CASE t = p
      BY <1>1, <1>6, <2>1, <3>1 DEF is_blocked, lonely
    <3>2. CASE t # p
      BY <1>1, <1>6, <2>1, <3>2 DEF is_blocked, lonely
    <3>. QED BY <3>1, <3>2
  <2>. QED BY <1>3, <1>4, <1>6, <2>2
<1>. QED BY <1>5, <1>6

\* Blocked tasks stay reachable when the first one leaves.
LEMMA HandReach == ASSUME WaitInv, unlock_hand PROVE ReachOK'
<1>1. PICK m \in Mutexes, w \in Tasks :
            /\ m = want[cpu] /\ m \notin Tasks /\ m \in Nodes /\ w \in Nodes
            /\ blocking.l_next[m] = w
            /\ \A n \in Nodes : blocking.l_next[n] = w => n = m
            /\ blocking'.l_next[m] = blocking.l_next[w]
            /\ blocking'.l_next[w] = w
            /\ \A n \in Nodes : n # m /\ n # w =>
                    blocking'.l_next[n] = blocking.l_next[n]
            /\ UNCHANGED want
  BY HandEffect DEF WaitInv
<1>. SUFFICES ASSUME NEW t \in Tasks, is_blocked(t)',
                     NEW Z \in SUBSET Nodes, want[t] \in Z,
                     \A x \in Z : blocking'.l_next[x] \in Z
              PROVE  t \in Z
  BY <1>1 DEF ReachOK, Reaches
<1>2. t # w /\ t # m /\ t \in Nodes
  BY <1>1 DEF is_blocked, lonely, Nodes
<1>3. is_blocked(t)
  BY <1>1, <1>2 DEF is_blocked, lonely
<1>4. want[t] \in Mutexes /\ want[t] # w
  BY <1>1, <1>3, Typing, ListsAssumption
     DEF WaitInv, IInv, BlockedOK, CallPoints, SectionPoints, Mutexes
<1>5. Reaches(blocking, Nodes, want[t], t)
  BY <1>3 DEF WaitInv, ReachOK
<1>6. CASE m \in Z
  <2>. DEFINE Y == Z \cup {w}
  <2>1. Y \in SUBSET Nodes /\ want[t] \in Y
    BY <1>1
  <2>2. \A x \in Y : blocking.l_next[x] \in Y
    BY <1>1, <1>6
  <2>3. t \in Y
    BY <1>5, <2>1, <2>2 DEF Reaches
  <2>. QED BY <1>2, <2>3
<1>7. CASE m \notin Z
  <2>. DEFINE Y == Z \ {w}
  <2>1. Y \in SUBSET Nodes /\ want[t] \in Y
    BY <1>4
  <2>2. \A x \in Y : blocking.l_next[x] \in Y
    BY <1>1, <1>7
  <2>3. t \in Y
    BY <1>5, <2>1, <2>2 DEF Reaches
  <2>. QED BY <2>3
<1>. QED BY <1>6, <1>7

\* No other step touches the lists, nor what a blocked task waits for.
LEMMA OtherSteps ==
    ASSUME IInv, [Next]_vars, ~lock_block, ~unlock_hand
    PROVE  /\ blocking' = blocking
           /\ \A t \in Tasks : is_blocked(t) => want'[t] = want[t]
<1>0. /\ cpu \in Tasks /\ pc[cpu] = "run" => ~is_blocked(cpu)
      /\ Tasks \subseteq Stacks
      /\ want \in [Stacks -> Mutexes \cup {NULL}]
  BY Typing DEF IInv, BlockedOK
<1>1. CASE SchedNext /\ UNCHANGED mutex_vars
  BY <1>1 DEF SchedNext, timeslice_passed, task_wrapper, scoped_preemptlock,
     scoped_preemptlock_end, allocate, link_node, link_prev, link_next,
     mutex_vars
<1>2. CASE lock \/ unlock
  BY <1>0, <1>2 DEF lock, unlock, At
<1>3. CASE InCall
  BY <1>3 DEF InCall, lock_check, lock_take, lock_taken, lock_blocked, yield,
     lock_resumed, unlock_check, unlock_release, unlock_released, mutex_vars
<1>4. CASE Halt /\ UNCHANGED mutex_vars
  BY <1>4 DEF Halt, sched_vars, mutex_vars
<1>5. CASE UNCHANGED vars
  BY <1>5 DEF vars, sched_vars, mutex_vars
<1>. QED BY <1>1, <1>2, <1>3, <1>4, <1>5 DEF Next, MutexOps

\* Waiters can be found from their mutex, always.
THEOREM Reachable == Spec => []WaitInv
<1>1. MutexInit => WaitInv
  <2>1. MutexInit => ReachOK
    BY DEF MutexInit, SchedInit, ReachOK, is_blocked, lonely, Fresh, Nodes
  <2>. QED BY <2>1, InitInv DEF WaitInv
<1>2. WaitInv /\ [Next]_vars => WaitInv'
  <2>. SUFFICES ASSUME WaitInv, [Next]_vars PROVE ReachOK'
    BY NextInv DEF WaitInv
  <2>1. CASE lock_block
    BY <2>1, BlockReach
  <2>2. CASE unlock_hand
    BY <2>2, HandReach
  <2>3. CASE ~lock_block /\ ~unlock_hand
    <3>1. /\ blocking' = blocking
          /\ \A t \in Tasks : is_blocked(t) => want'[t] = want[t]
      BY <2>3, OtherSteps DEF WaitInv
    <3>. QED BY <3>1 DEF WaitInv, ReachOK, Reaches, is_blocked
  <2>. QED BY <2>1, <2>2, <2>3
<1>. QED BY <1>1, <1>2, PTL DEF Spec

----------------------------------------------------------------------------
\* The queue of a mutex is a walk through nodes whose home it is.
LEMMA QueueWalk ==
    ASSUME IInv, NEW m \in Mutexes
    PROVE  /\ queue(m) \in Seq(Nodes)
           /\ IsWalk(blocking, queue(m), m)
           /\ \A k \in DOMAIN queue(m) : Home(queue(m)[k]) = m
           /\ m \in Nodes /\ m \notin Tasks /\ Home(m) = m
<1>1. m \in Nodes /\ m \notin Tasks /\ Home(m) = m
  BY ListsAssumption DEF Nodes, Mutexes, Home
<1>2. blocking.l_next \in [Nodes -> Nodes]
  BY Typing DEF Heap
<1>3. \A x, y \in Nodes : blocking.l_next[x] = blocking.l_next[y] => x = y
  BY DEF IInv, ListsOK, Linked
<1>4. IsFiniteSet(Nodes)
  BY FiniteAssumption, FS_Union DEF Nodes
<1>5. queue(m) \in Seq(Nodes) /\ IsWalk(blocking, queue(m), m)
  BY <1>1, <1>2, <1>3, <1>4, AfterIsWalk DEF queue
<1>6. \A k \in DOMAIN queue(m) : Home(queue(m)[k]) = m
  <2>. DEFINE Z == {n \in Nodes : Home(n) = m}
  <2>1. m \in Z /\ \A x \in Z : blocking.l_next[x] \in Z
    BY <1>1, <1>2 DEF IInv, ListsOK
  <2>. HIDE DEF Z
  <2>2. \A k \in DOMAIN queue(m) : queue(m)[k] \in Z
    BY <1>5, <2>1, WalkLeast
  <2>. QED BY <2>2 DEF Z
<1>. QED BY <1>1, <1>5, <1>6

\* The tasks that wait for a mutex are the blocked tasks that want it.
LEMMA WaitsBlocked ==
    ASSUME IInv, NEW m \in Mutexes, NEW t \in Tasks
    PROVE  Waits(t, m) <=> is_blocked(t) /\ want[t] = m
<1>1. ASSUME is_blocked(t), want[t] = m PROVE Waits(t, m)
  <2>1. pc[t] \in {"blocked", "yield", "resumed"}
    BY <1>1 DEF IInv, BlockedOK
  <2>2. m \notin held[t]
    BY <1>1, <2>1 DEF IInv, WantOK, CallPoints, SectionPoints
  <2>3. ~Claims(t, m)
    BY <1>1, <2>1, <2>2 DEF Claims
  <2>. QED BY <1>1, <2>1, <2>3 DEF IInv, OwnerClaims, Waits
<1>2. ASSUME Waits(t, m) PROVE is_blocked(t) /\ want[t] = m
  BY <1>2 DEF Waits, IInv, BlockedOK, OwnerClaims, Claims
<1>. QED BY <1>1, <1>2

\* A queue has exactly the waiters, each once.
LEMMA QueueExact ==
    ASSUME WaitInv, NEW m \in Mutexes
    PROVE  /\ {queue(m)[i] : i \in DOMAIN queue(m)} = {t \in Tasks : Waits(t, m)}
           /\ Len(queue(m)) = Cardinality({t \in Tasks : Waits(t, m)})
           /\ lonely(blocking, m) <=> queue(m) = <<>>
<1>. DEFINE q == queue(m)
            W == {t \in Tasks : Waits(t, m)}
<1>1. /\ q \in Seq(Nodes) /\ IsWalk(blocking, q, m)
      /\ \A k \in DOMAIN q : Home(q[k]) = m
      /\ m \in Nodes /\ m \notin Tasks /\ Home(m) = m
  BY QueueWalk DEF WaitInv
<1>2. Len(q) \in Nat /\ DOMAIN q = 1 .. Len(q)
  BY <1>1
<1>. HIDE DEF q
<1>3. ASSUME NEW k \in DOMAIN q PROVE q[k] \in W
  <2>1. q[k] # m /\ Home(q[k]) = m
    BY <1>1 DEF IsWalk
  <2>2. q[k] \in Tasks /\ is_blocked(q[k]) /\ want[q[k]] = m
    BY <2>1 DEF Home
  <2>. QED BY <2>2, WaitsBlocked DEF WaitInv
<1>4. ASSUME NEW t \in W PROVE \E k \in DOMAIN q : q[k] = t
  <2>. DEFINE Z == {m} \cup {q[k] : k \in DOMAIN q}
  <2>1. is_blocked(t) /\ want[t] = m
    BY WaitsBlocked DEF WaitInv
  <2>2. Z \in SUBSET Nodes
    BY <1>1
  <2>3. \A x \in Z : blocking.l_next[x] \in Z
    BY <1>1, WalkClosed
  <2>4. t \in Z
    BY <2>1, <2>2, <2>3 DEF WaitInv, ReachOK, Reaches
  <2>. QED BY <1>1, <2>4
<1>5. {q[i] : i \in DOMAIN q} = W
  BY <1>3, <1>4
<1>6. Len(q) = Cardinality(W)
  <2>1. q \in [1 .. Len(q) -> W]
    BY <1>1, <1>2, <1>3
  <2>2. q \in Bijection(1 .. Len(q), W)
    <3>1. \A j, k \in 1 .. Len(q) : q[j] = q[k] => j = k
      BY <1>1, <1>2 DEF IsWalk
    <3>. HIDE DEF W
    <3>. QED BY <1>2, <1>4, <2>1, <3>1
             DEF Bijection, Injection, Surjection, IsInjective
  <2>3. ExistsBijection(1 .. Len(q), W)
    BY <2>2 DEF ExistsBijection
  <2>. QED BY <1>2, <2>3, FS_CountingElements
<1>7. lonely(blocking, m) <=> q = <<>>
  <2>1. ASSUME q = <<>> PROVE lonely(blocking, m)
    BY <1>1, <2>1 DEF IsWalk, lonely
  <2>2. ASSUME lonely(blocking, m), q # <<>> PROVE FALSE
    <3>1. 1 \in DOMAIN q
      BY <1>1, <1>2, <2>2
    <3>. QED BY <1>1, <2>2, <3>1 DEF IsWalk, lonely
  <2>. QED BY <2>1, <2>2
<1>. QED BY <1>5, <1>6, <1>7 DEF q

\* The hand-over loses nobody: the list of a mutex holds exactly the tasks
\* blocked in its lock, each once, and none when the mutex is free.
THEOREM NoWaiterLost == Spec => []NoLostWaiter
<1>1. WaitInv => NoLostWaiter
  <2>. SUFFICES ASSUME WaitInv, NEW m \in Mutexes
                PROVE  /\ {queue(m)[i] : i \in DOMAIN queue(m)}
                            = {t \in Tasks : Waits(t, m)}
                       /\ Len(queue(m)) = Cardinality({t \in Tasks : Waits(t, m)})
                       /\ m_owner[m] = NULL => queue(m) = <<>>
    BY DEF NoLostWaiter, queue
  <2>1. m_owner[m] = NULL => lonely(blocking, m)
    BY DEF WaitInv, IInv, BlockedOK
  <2>. QED BY <2>1, QueueExact
<1>. QED BY <1>1, Reachable, PTL

----------------------------------------------------------------------------
(***************************************************************************)
(* The refinement: what each step does to the queues.                      *)
(***************************************************************************)

\* A walk in the lists after a step is the queue after the step.
LEMMA QueueNext ==
    ASSUME IInv', NEW m \in Mutexes, NEW a \in Seq(Nodes),
           IsWalk(blocking', a, m)
    PROVE  queue(m)' = a
<1>1. queue(m)' \in Seq(Nodes) /\ IsWalk(blocking', queue(m)', m)
  <2>1. /\ m \in Nodes
        /\ blocking'.l_next \in [Nodes -> Nodes]
        /\ \A x, y \in Nodes :
                blocking'.l_next[x] = blocking'.l_next[y] => x = y
    BY DEF IInv, TypeOK, SchedTypeOK, Heap, ListsOK, Linked, Nodes, Mutexes
  <2>2. IsFiniteSet(Nodes)
    BY FiniteAssumption, FS_Union DEF Nodes
  <2>. QED BY <2>1, <2>2, AfterIsWalk DEF queue
<1>. QED BY <1>1, WalkUnique

\* lock_block puts the task at the end of the queue of the mutex it wants.
LEMMA BlockQueue ==
    ASSUME WaitInv, IInv', lock_block, NEW m2 \in Mutexes
    PROVE  queue(m2)' = IF m2 = want[cpu] THEN Append(queue(m2), cpu)
                        ELSE queue(m2)
<1>1. PICK m \in Mutexes, p \in Nodes :
            /\ m = want[cpu] /\ m \in Nodes
            /\ cpu \in Tasks /\ cpu \in Nodes /\ p # cpu
            /\ blocking.l_next[cpu] = cpu
            /\ \A n \in Nodes : blocking.l_next[n] = m => n = p
            /\ Home(p) = m
            /\ blocking'.l_next[cpu] = m /\ blocking'.l_next[p] = cpu
            /\ \A n \in Nodes : n # cpu /\ n # p =>
                    blocking'.l_next[n] = blocking.l_next[n]
  BY BlockEffect DEF WaitInv
<1>. DEFINE q == queue(m2)
<1>2. /\ q \in Seq(Nodes) /\ IsWalk(blocking, q, m2)
      /\ \A k \in DOMAIN q : Home(q[k]) = m2
      /\ m2 \in Nodes /\ m2 \notin Tasks /\ Home(m2) = m2
  BY QueueWalk DEF WaitInv
<1>3. Len(q) \in Nat /\ DOMAIN q = 1 .. Len(q)
  BY <1>2
<1>. HIDE DEF q
<1>4. \A k \in DOMAIN q : q[k] # cpu
  BY <1>1, <1>2 DEF Home, is_blocked, lonely
<1>5. CASE m2 = m
  <2>1. p = IF Len(q) = 0 THEN m ELSE q[Len(q)]
    BY <1>1, <1>2, <1>3, <1>5 DEF IsWalk
  <2>2. \A x \in {m2} \cup {q[k] : k \in DOMAIN q} :
            x # p => blocking'.l_next[x] = blocking.l_next[x]
    BY <1>1, <1>2, <1>4
  <2>3. IsWalk(blocking', Append(q, cpu), m2)
    BY <1>1, <1>2, <1>4, <1>5, <2>1, <2>2, WalkAppend
  <2>4. Append(q, cpu) \in Seq(Nodes)
    BY <1>1, <1>2
  <2>. QED BY <1>1, <1>5, <2>3, <2>4, QueueNext DEF q
<1>6. CASE m2 # m
  <2>1. m2 # p /\ \A k \in DOMAIN q : q[k] # p
    BY <1>1, <1>2, <1>6
  <2>2. \A x \in {m2} \cup {q[k] : k \in DOMAIN q} :
            blocking'.l_next[x] = blocking.l_next[x]
    BY <1>1, <1>2, <1>4, <2>1
  <2>3. IsWalk(blocking', q, m2)
    BY <1>2, <2>2, WalkSame
  <2>. QED BY <1>1, <1>2, <1>6, <2>3, QueueNext DEF q
<1>. QED BY <1>5, <1>6

\* unlock_hand takes the first waiter out of the queue and makes it the owner.
LEMMA HandQueue ==
    ASSUME WaitInv, IInv', unlock_hand, NEW m2 \in Mutexes
    PROVE  /\ queue(m2)' = IF m2 = want[cpu] THEN Tail(queue(m2))
                           ELSE queue(m2)
           /\ m2 = want[cpu] =>
                /\ queue(m2) # <<>> /\ m_owner[m2] # NULL
                /\ m_owner' = [m_owner EXCEPT ![m2] = Head(queue(m2))]
<1>1. PICK m \in Mutexes, w \in Tasks :
            /\ m = want[cpu] /\ m \in Nodes /\ w \in Nodes /\ m \notin Tasks
            /\ blocking.l_next[m] = w /\ Home(w) = m
            /\ blocking'.l_next[m] = blocking.l_next[w]
            /\ \A n \in Nodes : n # m /\ n # w =>
                    blocking'.l_next[n] = blocking.l_next[n]
            /\ m_owner[m] # NULL
            /\ m_owner' = [m_owner EXCEPT ![m] = w]
  BY HandEffect DEF WaitInv
<1>. DEFINE q == queue(m2)
<1>2. /\ q \in Seq(Nodes) /\ IsWalk(blocking, q, m2)
      /\ \A k \in DOMAIN q : Home(q[k]) = m2
      /\ m2 \in Nodes /\ m2 \notin Tasks /\ Home(m2) = m2
  BY QueueWalk DEF WaitInv
<1>3. Len(q) \in Nat /\ DOMAIN q = 1 .. Len(q)
  BY <1>2
<1>. HIDE DEF q
<1>5. CASE m2 = m
  <2>1. q # <<>>
    BY <1>1, <1>2, <1>3, <1>5 DEF IsWalk
  <2>2. Len(q) # 0 /\ 1 \in DOMAIN q
    BY <1>2, <1>3, <2>1
  <2>3. q[1] = w
    BY <1>1, <1>2, <1>5, <2>2 DEF IsWalk
  <2>4. \A x \in {q[k] : k \in DOMAIN q} :
            x # q[1] => blocking'.l_next[x] = blocking.l_next[x]
    BY <1>1, <1>2, <1>5, <2>3 DEF IsWalk
  <2>5. IsWalk(blocking', Tail(q), m2)
    BY <1>1, <1>2, <1>5, <2>1, <2>3, <2>4, WalkTail
  <2>6. Tail(q) \in Seq(Nodes)
    BY <1>2, <2>1
  <2>7. Head(q) = w
    BY <1>2, <2>1, <2>3
  <2>. QED BY <1>1, <1>5, <2>1, <2>5, <2>6, <2>7, QueueNext DEF q
<1>6. CASE m2 # m
  <2>1. /\ m2 # w /\ \A k \in DOMAIN q : q[k] # w
        /\ m2 # m /\ \A k \in DOMAIN q : q[k] # m
    BY <1>1, <1>2, <1>6 DEF Home
  <2>2. \A x \in {m2} \cup {q[k] : k \in DOMAIN q} :
            blocking'.l_next[x] = blocking.l_next[x]
    BY <1>1, <1>2, <2>1
  <2>3. IsWalk(blocking', q, m2)
    BY <1>2, <2>2, WalkSame
  <2>. QED BY <1>1, <1>2, <1>6, <2>3, QueueNext DEF q
<1>. QED BY <1>5, <1>6

\* The running task waits for nothing when it is not blocked itself.
LEMMA NotWaiting ==
    ASSUME WaitInv, ~is_blocked(cpu)
    PROVE  cpu \in Tasks \ Abstract!Waiting
<1>1. cpu \in Tasks
  BY Typing DEF WaitInv
<1>2. ASSUME NEW m \in Mutexes, NEW i \in DOMAIN queue(m) PROVE queue(m)[i] # cpu
  <2>1. queue(m)[i] \in {t \in Tasks : Waits(t, m)}
    BY QueueExact
  <2>. QED BY <1>1, <2>1, WaitsBlocked DEF WaitInv
<1>3. cpu \notin Abstract!Waiting
  <2>. SUFFICES ASSUME cpu \in Abstract!Waiting PROVE FALSE
    OBVIOUS
  <2>1. PICK m \in Mutexes : \E i \in DOMAIN queue(m) : queue(m)[i] = cpu
    BY DEF Abstract!Waiting, queue
  <2>. QED BY <1>2, <2>1
<1>. QED BY <1>1, <1>3

\* At the start nobody waits.
LEMMA InitRefines == MutexInit => Abstract!Init
<1>. SUFFICES ASSUME MutexInit PROVE Abstract!Init
  OBVIOUS
<1>1. WaitInv
  <2>1. ReachOK
    BY DEF MutexInit, SchedInit, ReachOK, is_blocked, lonely, Fresh, Nodes
  <2>. QED BY <2>1, InitInv DEF WaitInv
<1>2. ASSUME NEW m \in Mutexes PROVE queue(m) = <<>>
  <2>1. lonely(blocking, m)
    BY DEF MutexInit, SchedInit, lonely, Fresh, Nodes, Mutexes
  <2>. QED BY <1>1, <2>1, QueueExact
<1>. QED BY <1>2 DEF MutexInit, Abstract!Init, queue

\* Every step is a step of MutexSpec or changes neither owner nor queue.
LEMMA StepRefines ==
    ASSUME WaitInv, WaitInv', [Next]_vars
    PROVE  [Abstract!Next]_<<m_owner, [m \in Mutexes |-> queue(m)]>>
<1>0. /\ cpu \in Tasks /\ cpu = current_task
      /\ m_owner \in [Mutexes -> Tasks \cup {NULL}]
      /\ pc[cpu] \in CallPoints => want[cpu] \in Mutexes
  BY Typing DEF WaitInv
<1>. DEFINE m == want[cpu]
            Q == [x \in Mutexes |-> queue(x)]
<1>1. CASE lock_take
  <2>1. m \in Mutexes /\ m_owner[m] = NULL /\ ~is_blocked(cpu)
    BY <1>0, <1>1 DEF lock_take, At, WaitInv, IInv, BranchOK, BlockedOK,
                      CallPoints, SectionPoints
  <2>2. m_owner' = [m_owner EXCEPT ![m] = cpu] /\ blocking' = blocking
    BY <1>0, <1>1 DEF lock_take
  <2>3. Abstract!Acquire(cpu, m)
    BY <2>1, <2>2 DEF Abstract!Acquire
  <2>. QED BY <2>1, <2>3, NotWaiting DEF Abstract!Next
<1>2. CASE lock_block
  <2>1. m \in Mutexes /\ m_owner[m] \notin {NULL, cpu} /\ ~is_blocked(cpu)
    BY <1>0, <1>2 DEF lock_block, At, WaitInv, IInv, BranchOK, BlockedOK,
                      CallPoints, SectionPoints
  <2>2. m_owner' = m_owner
    BY <1>2 DEF lock_block, mutex_vars
  <2>3. \A x \in Mutexes : queue(x)' = IF x = m THEN Append(queue(x), cpu)
                                       ELSE queue(x)
    BY <1>2, BlockQueue DEF WaitInv
  <2>4. Q' = [Q EXCEPT ![m] = Append(@, cpu)]
    BY <2>3
  <2>5. Abstract!Enqueue(cpu, m)
    BY <2>1, <2>2, <2>4 DEF Abstract!Enqueue, queue
  <2>. QED BY <2>1, <2>5, NotWaiting DEF Abstract!Next
<1>3. CASE unlock_release
  <2>1. m \in Mutexes /\ m_owner[m] # NULL /\ lonely(blocking, m)
    <3>1. m \in Mutexes /\ pc[cpu] = "release"
      BY <1>0, <1>3 DEF unlock_release, At, CallPoints, SectionPoints
    <3>2. Claims(cpu, m)
      BY <3>1 DEF Claims
    <3>. QED BY <1>0, <3>1, <3>2, NULLAssumption
             DEF WaitInv, IInv, BranchOK, OwnerClaims
  <2>2. m_owner' = [m_owner EXCEPT ![m] = NULL] /\ blocking' = blocking
    BY <1>3 DEF unlock_release
  <2>3. queue(m) = <<>>
    BY <2>1, QueueExact
  <2>4. Abstract!Release(m)
    BY <2>1, <2>2, <2>3 DEF Abstract!Release, queue
  <2>. QED BY <2>1, <2>4 DEF Abstract!Next
<1>4. CASE unlock_hand
  <2>1. m \in Mutexes
    BY <1>0, <1>4 DEF unlock_hand, At, CallPoints, SectionPoints
  <2>2. \A x \in Mutexes : queue(x)' = IF x = m THEN Tail(queue(x))
                                       ELSE queue(x)
    BY <1>4, HandQueue DEF WaitInv
  <2>3. Q' = [Q EXCEPT ![m] = Tail(@)]
    BY <2>2
  <2>4. /\ queue(m) # <<>> /\ m_owner[m] # NULL
        /\ m_owner' = [m_owner EXCEPT ![m] = Head(queue(m))]
    BY <1>4, <2>1, HandQueue DEF WaitInv
  <2>5. Abstract!HandOver(m)
    BY <2>1, <2>3, <2>4 DEF Abstract!HandOver, queue
  <2>. QED BY <2>1, <2>5 DEF Abstract!Next
<1>5. CASE ~lock_take /\ ~lock_block /\ ~unlock_release /\ ~unlock_hand
  <2>1. blocking' = blocking
    BY <1>5, OtherSteps DEF WaitInv
  <2>2. m_owner' = m_owner
    BY <1>5 DEF Next, SchedNext, timeslice_passed, task_wrapper,
       scoped_preemptlock, scoped_preemptlock_end, allocate, link_node,
       link_prev, link_next, MutexOps, InCall, lock, unlock, lock_check,
       lock_taken, lock_blocked, yield, lock_resumed, unlock_check,
       unlock_released, Halt, mutex_vars, vars
  <2>. QED BY <2>1, <2>2 DEF queue
<1>. QED BY <1>1, <1>2, <1>3, <1>4, <1>5

\* The mutexes implement MutexSpec: ownership changes hands only from an
\* owner to the waiter that has waited longest, a waiter enters once and at
\* the end, and nobody takes a mutex past its waiters.
THEOREM Refinement == Spec => ImplementsMutexSpec
<1>1. MutexInit => Abstract!Init
  BY InitRefines
<1>2. WaitInv /\ WaitInv' /\ [Next]_vars
        => [Abstract!Next]_<<m_owner, [m \in Mutexes |-> queue(m)]>>
  BY StepRefines
<1>3. WaitInv /\ WaitInv' /\ [Next]_vars
        => [Abstract!Next]_<<m_owner, [m \in Mutexes |-> After(blocking, Nodes, m)]>>
  BY <1>2 DEF queue
<1>. QED BY <1>1, <1>3, Reachable, PTL
         DEF Spec, ImplementsMutexSpec, Abstract!Spec
=============================================================================
