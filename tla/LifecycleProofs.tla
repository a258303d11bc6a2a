--------------------------- MODULE LifecycleProofs ---------------------------
(***************************************************************************)
(* Proofs about the end of a task, next to any number of link_task calls   *)
(* in progress: the ring loses no task that has not exited, references add *)
(* up, and a stack that was freed is never used again, until an exit takes *)
(* away the successor that a link_task has read.                           *)
(***************************************************************************)
EXTENDS TaskLifecycle, SchedulerProofs

\* The tasks that have been linked and have not exited.
Live == {t \in Members : pc[t] # "gone"}

\* Where stack_free_stack is used.
Final == {"final_free", "final_enter"}

LinkPoints == {"link", "link_prev", "link_next"}

\* A task resumes on its own stack or on stack_free_stack, only members have
\* begun to run, and what has been freed belongs to tasks that are gone.
LifeBase ==
    /\ current_task \in Live
    /\ cpu \in Live \cup {stack_free_stack}
    /\ stack_pointer \in [Tasks -> Stacks]
    /\ \A t \in Tasks : stack_pointer[t] \in {t, stack_free_stack}
    /\ \A t \in Tasks \ Members : stack_pointer[t] = t
    /\ scheduling \in Heap(Tasks)
    /\ pc \in [Stacks -> LifePoints]
    /\ pc[stack_free_stack] \in {"start"} \cup Final
    /\ \A s \in Stacks \ {stack_free_stack} : pc[s] # "start" => s \in Members
    /\ \A t \in Tasks : pc[t] \notin Final
    /\ linking \in [Stacks -> Tasks]
    /\ rc \in [Tasks -> Nat]
    /\ freed \subseteq {t \in Tasks : pc[t] = "gone"}

\* The forward pointers of the tasks that are live form one ring, and the
\* backward pointers agree, but for a task between the last two stores of
\* link_task.
LifeRing ==
    /\ Idle \in Live /\ pc[Idle] # "exit"
    /\ \A x \in Live : scheduling.l_next[x] \in Live
    /\ \A x, y \in Live : scheduling.l_next[x] = scheduling.l_next[y] => x = y
    /\ OneRing(scheduling, Live)
    /\ \A x \in Live : scheduling.l_prev[scheduling.l_next[x]] =
            IF pc[x] = "link_next" THEN linking[x] ELSE x

\* The processor is on the current task's stack, or finishes the exit of the
\* task before it; a task off the processor resumes from stack_free_stack
\* only if it is the one that finishes that exit.
LifeFrames ==
    /\ \/ cpu = current_task
       \/ /\ cpu = stack_free_stack
          /\ switch_stack = current_task
          /\ pc[stack_free_stack] \in Final
    /\ \A t \in Live \ {current_task} :
            stack_pointer[t] = stack_free_stack =>
                switch_stack = t /\ pc[stack_free_stack] \in Final
    /\ pc[stack_free_stack] \in Final =>
            free_stack \in Tasks /\ pc[free_stack] = "gone"

\* Some link_task has not yet taken the scheduler's reference on t.
Unlinked(t) == \E s \in Stacks : pc[s] = "link" /\ linking[s] = t

\* The count of a task: the first reference; then the scheduler's and the
\* running's, until it exits, and that of whoever keeps it.
Count(t) ==
    IF Unlinked(t) THEN 1
    ELSE (IF pc[t] = "gone" THEN 0 ELSE 2) + (IF t \in kept THEN 1 ELSE 0)

\* The counts are right; a count of 0 would have been a failed kassert.
LifeRefs ==
    /\ kept \subseteq Tasks \ {Idle}
    /\ rc[Idle] = 1
    /\ \A t \in kept : ~Unlinked(t)
    /\ \A t \in Tasks \ {Idle} :
            \/ rc[t] = 0 /\ pc[t] = "start" /\ t \notin kept
            \/ rc[t] = Count(t) /\ rc[t] # 0

LifeOK == LifeBase /\ LifeRing /\ NewOK /\ LifeFrames /\ LifeRefs

LifeInv == panic = "no" /\ ~torn => LifeOK

----------------------------------------------------------------------------
(***************************************************************************)
(* The ring.                                                               *)
(***************************************************************************)

\* What pick_next_task walks are tasks that are live.
LEMMA LifeWalk ==
    ASSUME LifeBase, LifeRing
    PROVE  /\ After(scheduling, Tasks, current_task) \in Seq(Live)
           /\ IsWalk(scheduling, After(scheduling, Tasks, current_task), current_task)
<1>1. /\ Live \in SUBSET Tasks /\ scheduling.l_next \in [Tasks -> Tasks]
      /\ IsFiniteSet(Tasks) /\ current_task \in Live
      /\ \A x \in Live : scheduling.l_next[x] \in Live
  BY FiniteAssumption DEF LifeBase, LifeRing, Live, Members, Heap
<1>2. \A x, y \in Live : scheduling.l_next[x] = scheduling.l_next[y] => x = y
  BY DEF LifeRing
<1>. QED BY <1>1, <1>2, AfterIsWalk

\* They are all of them.
LEMMA RingIsLive ==
    ASSUME LifeBase, LifeRing, NEW t \in Tasks
    PROVE  InRing(t) <=> t \in Live
<1>. DEFINE a == After(scheduling, Tasks, current_task)
            Z == {current_task} \cup {a[k] : k \in DOMAIN a}
<1>1. a \in Seq(Live) /\ IsWalk(scheduling, a, current_task)
  BY LifeWalk
<1>2. InRing(t) <=> t \in Z
  BY DEF InRing
<1>. HIDE DEF a
<1>3. Z \in SUBSET Live /\ Z # {}
  BY <1>1 DEF LifeBase
<1>4. \A x \in Z : scheduling.l_next[x] \in Z
  BY <1>1, WalkClosed
<1>. HIDE DEF Z
<1>5. Z = Live
  BY <1>3, <1>4 DEF LifeRing, OneRing
<1>. QED BY <1>2, <1>5

\* The forward pointers of the tasks of C lead to tasks of C.
Closed(l, C) == \A x \in C : l.l_next[x] \in C

\* No two of them lead to the same.
OneToOne(l, C) == \A x, y \in C : l.l_next[x] = l.l_next[y] => x = y

\* Every task of a ring has a predecessor in it.
LEMMA Predecessor ==
    ASSUME NEW l, NEW C, Closed(l, C), OneRing(l, C), NEW t \in C
    PROVE  \E x \in C : l.l_next[x] = t
<1>. DEFINE Z == {l.l_next[x] : x \in C}
<1>1. Z \in SUBSET C /\ Z # {} /\ \A x \in Z : l.l_next[x] \in Z
  BY DEF Closed
<1>2. Z = C
  BY <1>1 DEF OneRing
<1>. QED BY <1>2

\* unlink takes a task out of a ring with another one and leaves one ring, if
\* the task's backward pointer is right.
LEMMA UnlinkRing ==
    ASSUME NEW l \in Heap(Tasks), NEW C \in SUBSET Tasks,
           Closed(l, C), OneToOne(l, C), OneRing(l, C),
           NEW t \in C, NEW i \in C, i # t,
           NEW p \in C, l.l_prev[t] = p, l.l_next[p] = t,
           NEW n, n = l.l_next[t], NEW m, m = unlink(l, t)
    PROVE  /\ m \in Heap(Tasks) /\ n \in C \ {t} /\ p # t
           /\ Closed(m, C \ {t}) /\ OneToOne(m, C \ {t}) /\ OneRing(m, C \ {t})
           /\ m.l_next[p] = n /\ m.l_prev[n] = p
           /\ \A x \in Tasks \ {t, p} : m.l_next[x] = l.l_next[x]
           /\ \A x \in Tasks \ {t, n} : m.l_prev[x] = l.l_prev[x]
<1>1. l.l_next \in [Tasks -> Tasks] /\ l.l_prev \in [Tasks -> Tasks] /\ t \in Tasks
      /\ p \in Tasks /\ \A x \in C : l.l_next[x] \in C
  BY DEF Heap, Closed
<1>2. n \in C \ {t}
  <2>. SUFFICES ASSUME n = t PROVE FALSE
    BY <1>1
  <2>1. {t} \in SUBSET C /\ {t} # {} /\ \A x \in {t} : l.l_next[x] \in {t}
    OBVIOUS
  <2>2. {t} = C
    BY <2>1 DEF OneRing
  <2>. QED BY <2>2
<1>3. p # t
  BY <1>2
<1>4. m = [l_next |-> [l.l_next EXCEPT ![p] = n, ![t] = t],
           l_prev |-> [l.l_prev EXCEPT ![n] = p, ![t] = t]]
  BY DEF unlink
<1>5. m \in Heap(Tasks)
  BY <1>1, <1>2, <1>4 DEF Heap
<1>6. /\ m.l_next[p] = n /\ m.l_prev[n] = p
      /\ \A x \in Tasks \ {t, p} : m.l_next[x] = l.l_next[x]
      /\ \A x \in Tasks \ {t, n} : m.l_prev[x] = l.l_prev[x]
  BY <1>1, <1>2, <1>3, <1>4
<1>7. \A x \in C : l.l_next[x] = t => x = p
  BY DEF OneToOne
<1>8. Closed(m, C \ {t})
  BY <1>1, <1>2, <1>6, <1>7 DEF Closed
<1>9. OneToOne(m, C \ {t})
  <2>1. \A x \in C \ {t, p} : l.l_next[x] # n
    BY DEF OneToOne
  <2>. QED BY <1>6, <2>1 DEF OneToOne
<1>10. OneRing(m, C \ {t})
  <2>. SUFFICES ASSUME NEW Z \in SUBSET (C \ {t}), Z # {},
                       \A x \in Z : m.l_next[x] \in Z
                PROVE  Z = C \ {t}
    BY DEF OneRing
  <2>1. CASE p \in Z
    <3>1. n \in Z
      BY <1>6, <2>1
    <3>2. Z \cup {t} \in SUBSET C /\ Z \cup {t} # {}
          /\ \A x \in Z \cup {t} : l.l_next[x] \in Z \cup {t}
      BY <1>6, <3>1
    <3>3. Z \cup {t} = C
      BY <3>2 DEF OneRing
    <3>. QED BY <3>3
  <2>2. CASE p \notin Z
    <3>1. Z \in SUBSET C /\ \A x \in Z : l.l_next[x] \in Z
      BY <1>6, <2>2
    <3>2. Z = C
      BY <3>1 DEF OneRing
    <3>. QED BY <3>2
  <2>. QED BY <2>1, <2>2
<1>. QED BY <1>2, <1>3, <1>5, <1>6, <1>8, <1>9, <1>10

----------------------------------------------------------------------------
(***************************************************************************)
(* The invariant is inductive.                                             *)
(***************************************************************************)

\* stack_free_stack is no task's stack.
LEMMA FreeStack == stack_free_stack \in Stacks /\ stack_free_stack \notin Tasks
  BY FreeStackAssumption

LEMMA LifeInitInv == LifeInit => LifeInv
<1>. SUFFICES ASSUME LifeInit PROVE LifeOK
  BY DEF LifeInv
<1>1. /\ current_task = Idle /\ cpu = Idle /\ scheduling = Ring(Boot)
      /\ stack_pointer = [t \in Tasks |-> t] /\ pc = [s \in Stacks |-> "start"]
      /\ rc = [t \in Tasks |-> IF t = Idle THEN 1
                               ELSE IF t \in Booted THEN 2 ELSE 0]
      /\ linking = [s \in Stacks |-> Idle] /\ kept = {} /\ freed = {}
  BY DEF LifeInit, MutexInit, SchedInit
<1>2. /\ scheduling \in Heap(Tasks) /\ Booted \subseteq Tasks /\ Idle \in Booted
      /\ \A x \in Booted : /\ scheduling.l_next[x] \in Booted
                           /\ scheduling.l_prev[scheduling.l_next[x]] = x
      /\ OneRing(scheduling, Booted)
      /\ \A t \in Tasks \ Booted :
            scheduling.l_next[t] = t /\ scheduling.l_prev[t] = t
  BY <1>1, BootRing
<1>3. \A s \in Stacks : pc[s] = "start"
  BY <1>1
<1>4. Linking = {} /\ Members = Booted
  BY <1>1, <1>2, <1>3 DEF Linking, Members
<1>5. Live = Booted
  BY <1>2, <1>3, <1>4, StacksAssumption DEF Live
<1>6. LifeBase
  <2>1. /\ stack_pointer \in [Tasks -> Stacks] /\ pc \in [Stacks -> LifePoints]
        /\ linking \in [Stacks -> Tasks] /\ rc \in [Tasks -> Nat]
    BY <1>1, <1>2, StacksAssumption DEF LifePoints, Points, SchedPoints
  <2>2. pc[stack_free_stack] = "start" /\ \A t \in Tasks : stack_pointer[t] = t
    BY <1>1, FreeStack
  <2>3. \A t \in Tasks : pc[t] \notin Final
    BY <1>3, StacksAssumption DEF Final
  <2>. QED BY <1>1, <1>2, <1>3, <1>5, <2>1, <2>2, <2>3 DEF LifeBase
<1>7. LifeRing
  <2>1. pc[Idle] = "start" /\ \A x \in Live : pc[x] # "link_next"
    BY <1>2, <1>3, <1>5, StacksAssumption
  <2>2. \A x, y \in Booted : scheduling.l_next[x] = scheduling.l_next[y] => x = y
    BY <1>2
  <2>. QED BY <1>2, <1>5, <2>1, <2>2 DEF LifeRing
<1>8. NewOK
  BY <1>1, <1>2, <1>4 DEF NewOK
<1>9. LifeFrames
  <2>1. pc[stack_free_stack] = "start" /\ \A t \in Tasks : stack_pointer[t] = t
    BY <1>1, FreeStack
  <2>2. Live \subseteq Tasks
    BY <1>2, <1>5
  <2>. QED BY <1>1, <2>1, <2>2, FreeStack DEF LifeFrames, Final
<1>10. LifeRefs
  <2>1. \A t \in Tasks : ~Unlinked(t) /\ pc[t] = "start"
    BY <1>3, StacksAssumption DEF Unlinked
  <2>2. rc[Idle] = 1 /\ \A t \in Tasks \ {Idle} : rc[t] = IF t \in Booted THEN 2 ELSE 0
    BY <1>1, <1>2
  <2>3. \A t \in Tasks \ {Idle} : Count(t) = 2
    BY <1>1, <2>1 DEF Count
  <2>. QED BY <1>1, <2>1, <2>2, <2>3 DEF LifeRefs
<1>. QED BY <1>6, <1>7, <1>8, <1>9, <1>10 DEF LifeOK

\* The points that the steps of a task lead to outside link_task.
Ordinary == LifePoints \ ({"gone"} \cup Final \cup LinkPoints)

\* The processor is on a task's stack outside _sched_final_free.
LEMMA OnTask ==
    ASSUME LifeOK, pc[cpu] \notin Final
    PROVE  /\ cpu = current_task /\ cpu \in Live /\ cpu \in Tasks /\ cpu \in Stacks
           /\ cpu \in Members /\ cpu # stack_free_stack
  BY FreeStack, StacksAssumption DEF LifeOK, LifeBase, LifeFrames, Live, Members

\* What the invariant says of a task inside link_task.
LEMMA InLinkTask ==
    ASSUME LifeOK, NEW s \in Linking
    PROVE  /\ s \in Live /\ s \in Tasks /\ s \in Stacks
           /\ linking[s] \in Tasks \ Members /\ linking[s] # s
           /\ rc[linking[s]] # 0 /\ scheduling.l_next[s] \in Live
<1>1. s \in Stacks /\ pc[s] \in LinkPoints
  BY DEF Linking, LinkPoints
<1>2. s # stack_free_stack /\ pc[s] # "start" /\ pc[s] # "gone"
  BY <1>1 DEF LifeOK, LifeBase, LinkPoints, Final
<1>3. s \in Members
  BY <1>1, <1>2 DEF LifeOK, LifeBase
<1>4. s \in Live /\ s \in Tasks
  BY <1>2, <1>3 DEF Live, Members
<1>5. linking[s] \in Tasks \ Members
  BY <1>1 DEF LifeOK, LifeBase, Members
<1>. QED BY <1>1, <1>3, <1>4, <1>5 DEF LifeOK, LifeRing, NewOK

\* Steps that move a running task to another point outside link_task, or none.
MovesOn ==
    \/ pc' = pc
    \/ /\ cpu \in Tasks
       /\ pc[cpu] \notin LinkPoints
       /\ \E q \in Ordinary : /\ pc' = [pc EXCEPT ![cpu] = q]
                              /\ q = "exit" => cpu # Idle

\* What such a step leaves alone.
LEMMA MovesOnKeeps ==
    ASSUME LifeOK, MovesOn, UNCHANGED <<rc, linking>>
    PROVE  /\ pc' \in [Stacks -> LifePoints]
           /\ pc'[stack_free_stack] = pc[stack_free_stack]
           /\ \A s \in Stacks : pc'[s] # pc[s] => s \in Live
           /\ \A s \in Stacks : \A q \in LinkPoints : pc'[s] = q <=> pc[s] = q
           /\ \A t \in Tasks : pc'[t] = "gone" <=> pc[t] = "gone"
           /\ pc'[Idle] # "exit"
           /\ \A t \in Tasks : pc'[t] \notin Final
           /\ Linking' = Linking /\ Members' = Members /\ Live' = Live
           /\ \A t \in Tasks : Unlinked(t)' = Unlinked(t)
<1>1. LifeBase /\ LifeRing
  BY DEF LifeOK
<1>2. /\ pc' \in [Stacks -> LifePoints]
      /\ pc'[stack_free_stack] = pc[stack_free_stack]
      /\ \A s \in Stacks : pc'[s] # pc[s] => s \in Live
      /\ \A s \in Stacks : \A q \in LinkPoints : pc'[s] = q <=> pc[s] = q
      /\ \A t \in Tasks : pc'[t] = "gone" <=> pc[t] = "gone"
      /\ pc'[Idle] # "exit"
      /\ \A t \in Tasks : pc'[t] \notin Final
  <2>1. CASE pc' = pc
    BY <1>1, <2>1 DEF LifeBase, LifeRing
  <2>2. CASE pc' # pc
    <3>1. PICK q \in Ordinary : /\ cpu \in Tasks /\ pc[cpu] \notin LinkPoints
                                /\ pc' = [pc EXCEPT ![cpu] = q]
                                /\ q = "exit" => cpu # Idle
      BY <2>2 DEF MovesOn
    <3>2. pc \in [Stacks -> LifePoints] /\ cpu \in Stacks /\ cpu # stack_free_stack
          /\ cpu \in Live /\ stack_free_stack \in Stacks /\ pc[cpu] # "gone"
      BY <1>1, <3>1, FreeStack, StacksAssumption DEF LifeBase, Live
    <3>3. q \in LifePoints /\ q # "gone" /\ q \notin LinkPoints \cup Final
      BY DEF Ordinary
    <3>. QED BY <1>1, <3>1, <3>2, <3>3, StacksAssumption DEF LifeBase, LifeRing
  <2>. QED BY <2>1, <2>2
<1>3. Linking' = Linking
  BY <1>2 DEF Linking, LinkPoints
<1>4. Members' = Members
  BY <1>3 DEF Members
<1>5. Live' = Live
  BY <1>2, <1>4 DEF Live, Members
<1>6. \A t \in Tasks : Unlinked(t)' = Unlinked(t)
  BY <1>2 DEF Unlinked, LinkPoints
<1>. QED BY <1>2, <1>3, <1>4, <1>5, <1>6

\* The parts of the invariant that only depend on the ring and on where the
\* tasks inside link_task are.
LEMMA RingStays ==
    ASSUME LifeOK, MovesOn, UNCHANGED <<rc, linking, scheduling>>
    PROVE  LifeRing' /\ NewOK'
<1>1. /\ Live' = Live /\ Linking' = Linking /\ pc'[Idle] # "exit"
      /\ \A s \in Stacks : \A q \in LinkPoints : pc'[s] = q <=> pc[s] = q
  BY MovesOnKeeps
<1>2. LifeRing'
  <2>1. \A x \in Live : pc'[x] = "link_next" <=> pc[x] = "link_next"
    BY <1>1, StacksAssumption DEF Live, Members, LinkPoints
  <2>. QED BY <1>1, <2>1 DEF LifeOK, LifeRing, OneRing
<1>3. NewOK'
  <2>1. \A s \in Linking : s \in Stacks /\ (pc'[s] = "link" <=> pc[s] = "link")
    BY <1>1 DEF Linking, LinkPoints
  <2>. QED BY <1>1, <2>1 DEF LifeOK, NewOK
<1>. QED BY <1>2, <1>3

\* The counts do not change.
LEMMA RefsStay ==
    ASSUME LifeOK, MovesOn, UNCHANGED <<rc, linking, kept>>
    PROVE  LifeRefs'
<1>1. /\ \A t \in Tasks : Unlinked(t)' = Unlinked(t) /\ (pc'[t] = "gone" <=> pc[t] = "gone")
      /\ \A s \in Stacks : pc'[s] # pc[s] => s \in Live
  BY MovesOnKeeps
<1>2. \A t \in Tasks : Count(t)' = Count(t)
  BY <1>1 DEF Count
<1>3. \A t \in Tasks : rc[t] = 0 => pc'[t] = pc[t]
  BY <1>1, StacksAssumption DEF Live, Members
<1>4. LifeRefs /\ kept \subseteq Tasks
  BY DEF LifeOK, LifeRefs
<1>5. \A t \in Tasks \ {Idle} :
            \/ rc'[t] = 0 /\ pc'[t] = "start" /\ t \notin kept'
            \/ rc'[t] = Count(t)' /\ rc'[t] # 0
  BY <1>2, <1>3, <1>4 DEF LifeRefs
<1>. QED BY <1>1, <1>4, <1>5 DEF LifeRefs

\* Steps that leave the rest of the invariant's variables alone.
LEMMA Quiet ==
    ASSUME LifeOK, MovesOn,
           UNCHANGED <<current_task, cpu, stack_pointer, scheduling, rc, linking,
                       kept, freed, free_stack, switch_stack>>
    PROVE  LifeOK'
<1>1. LifeRing' /\ NewOK' /\ LifeRefs'
  BY RingStays, RefsStay
<1>2. /\ pc' \in [Stacks -> LifePoints]
      /\ pc'[stack_free_stack] = pc[stack_free_stack]
      /\ \A s \in Stacks : pc'[s] # pc[s] => s \in Live
      /\ \A t \in Tasks : pc'[t] = "gone" <=> pc[t] = "gone"
      /\ \A t \in Tasks : pc'[t] \notin Final
      /\ Members' = Members /\ Live' = Live /\ Live \subseteq Members
  BY MovesOnKeeps DEF Live
<1>3. LifeBase'
  BY <1>2 DEF LifeOK, LifeBase
<1>4. LifeFrames'
  BY <1>2 DEF LifeOK, LifeFrames
<1>. QED BY <1>1, <1>3, <1>4 DEF LifeOK

\* A switch: a task off the processor may have been saved on
\* stack_free_stack, and only the one that finishes an exit there.
LEMMA LifeSwitch ==
    ASSUME LifeOK, NEW flag, SwitchFrom(flag), MovesOn,
           UNCHANGED <<scheduling, rc, linking, exit_vars>>
    PROVE  LifeOK'
<1>1. LifeBase /\ LifeRing /\ LifeFrames
  BY DEF LifeOK
<1>2. PICK n \in Tasks : pick_next_task(n) /\ current_task' = n
                         /\ cpu' = stack_pointer'[n]
  BY DEF SwitchFrom
<1>3. stack_pointer' = [stack_pointer EXCEPT ![current_task] = cpu]
  BY DEF SwitchFrom
<1>4. n \in Live
  <2>. DEFINE a == After(scheduling, Tasks, current_task)
  <2>1. a \in Seq(Live)
    BY <1>1, LifeWalk
  <2>2. \E k \in DOMAIN Append(a, current_task) : Append(a, current_task)[k] = n
    BY <1>2 DEF pick_next_task
  <2>. HIDE DEF a
  <2>3. Append(a, current_task) \in Seq(Live)
    BY <1>1, <2>1 DEF LifeBase
  <2>. QED BY <2>2, <2>3
<1>5. /\ pc' \in [Stacks -> LifePoints]
      /\ pc'[stack_free_stack] = pc[stack_free_stack]
      /\ \A s \in Stacks : pc'[s] # pc[s] => s \in Live
      /\ \A t \in Tasks : pc'[t] = "gone" <=> pc[t] = "gone"
      /\ \A t \in Tasks : pc'[t] \notin Final
      /\ Members' = Members /\ Live' = Live /\ Live \subseteq Members
  BY MovesOnKeeps DEF Live
<1>6. /\ current_task \in Tasks /\ cpu \in {current_task, stack_free_stack}
      /\ stack_pointer \in [Tasks -> Stacks] /\ current_task \in Stacks
      /\ \A t \in Tasks : stack_pointer[t] \in {t, stack_free_stack}
      /\ stack_free_stack \in Stacks /\ current_task \in Members
  BY <1>1, FreeStack, StacksAssumption DEF LifeBase, LifeFrames, Live, Members
<1>7. /\ stack_pointer' \in [Tasks -> Stacks]
      /\ \A t \in Tasks : stack_pointer'[t] \in {t, stack_free_stack}
      /\ stack_pointer'[current_task] = cpu
      /\ \A t \in Tasks \ {current_task} : stack_pointer'[t] = stack_pointer[t]
  BY <1>3, <1>6
<1>8. cpu' \in {n, stack_free_stack}
  BY <1>2, <1>7
<1>9. LifeBase'
  <2>1. cpu' \in Live \cup {stack_free_stack}
    BY <1>4, <1>8
  <2>2. \A t \in Tasks \ Members : stack_pointer'[t] = t
    BY <1>1, <1>6, <1>7 DEF LifeBase
  <2>3. \A s \in Stacks \ {stack_free_stack} : pc'[s] # "start" => s \in Members
    BY <1>1, <1>5 DEF LifeBase
  <2>4. freed' \subseteq {t \in Tasks : pc'[t] = "gone"}
    BY <1>1, <1>5 DEF LifeBase, exit_vars
  <2>. QED BY <1>1, <1>2, <1>4, <1>5, <1>7, <2>1, <2>2, <2>3, <2>4 DEF LifeBase
<1>10. LifeFrames'
  <2>1. \A t \in Live \ {n} : stack_pointer'[t] = stack_free_stack =>
            switch_stack = t /\ pc[stack_free_stack] \in Final
    <3>1. Live \subseteq Tasks
      BY DEF Live, Members
    <3>2. CASE cpu = current_task
      BY <1>1, <1>6, <1>7, <3>1, <3>2, FreeStack DEF LifeFrames
    <3>3. CASE cpu # current_task
      BY <1>1, <1>6, <1>7, <3>1, <3>3 DEF LifeFrames
    <3>. QED BY <3>2, <3>3
  <2>2. \/ cpu' = n
        \/ cpu' = stack_free_stack /\ switch_stack = n /\ pc[stack_free_stack] \in Final
    <3>1. CASE n = current_task
      BY <1>1, <1>2, <1>7, <3>1 DEF LifeFrames
    <3>2. CASE n # current_task
      BY <1>1, <1>2, <1>4, <1>7, <1>8, <3>2 DEF LifeFrames
    <3>. QED BY <3>1, <3>2
  <2>. QED BY <1>1, <1>2, <1>5, <2>1, <2>2 DEF LifeFrames, exit_vars
<1>11. LifeRing' /\ NewOK' /\ LifeRefs'
  BY RingStays, RefsStay DEF exit_vars
<1>. QED BY <1>9, <1>10, <1>11 DEF LifeOK

\* What every step of a task inside allocate or link_task rests on.
LEMMA TaskFacts ==
    ASSUME LifeOK, pc[cpu] \notin Final
    PROVE  /\ LifeBase /\ LifeRing /\ NewOK /\ LifeFrames /\ LifeRefs
           /\ cpu = current_task /\ cpu \in Live /\ cpu \in Tasks /\ cpu \in Stacks
           /\ cpu \in Members /\ cpu # stack_free_stack
           /\ Live \subseteq Members /\ Members \subseteq Tasks
           /\ pc \in [Stacks -> LifePoints]
           /\ linking \in [Stacks -> Tasks] /\ rc \in [Tasks -> Nat]
           /\ scheduling \in Heap(Tasks)
           /\ scheduling.l_next \in [Tasks -> Tasks]
           /\ scheduling.l_prev \in [Tasks -> Tasks]
           /\ stack_free_stack \in Stacks /\ Tasks \subseteq Stacks
  BY OnTask, FreeStack, StacksAssumption DEF LifeOK, LifeBase, Live, Members, Heap

\* allocate: a new task that is in nobody's way.
LEMMA AllocateStep ==
    ASSUME LifeOK, allocate, UNCHANGED exit_vars
    PROVE  LifeOK'
<1>. USE DEF allocate, At, Goto, frame_vars, exit_vars
<1>1. /\ LifeBase /\ LifeRing /\ NewOK /\ LifeFrames /\ LifeRefs
      /\ cpu = current_task /\ cpu \in Live /\ cpu \in Tasks /\ cpu \in Stacks
      /\ cpu \in Members /\ cpu # stack_free_stack
      /\ Live \subseteq Members /\ Members \subseteq Tasks
      /\ pc \in [Stacks -> LifePoints]
      /\ linking \in [Stacks -> Tasks] /\ rc \in [Tasks -> Nat]
      /\ stack_free_stack \in Stacks /\ Tasks \subseteq Stacks
  BY TaskFacts DEF Final
<1>2. PICK t \in Tasks : /\ rc[t] = 0 /\ rc' = [rc EXCEPT ![t] = 1]
                         /\ linking' = [linking EXCEPT ![cpu] = t]
  OBVIOUS
<1>3. /\ Linking' = Linking \cup {cpu} /\ cpu \notin Linking
      /\ pc[cpu] = "run" /\ pc'[cpu] = "link"
      /\ \A s \in Stacks \ {cpu} : pc'[s] = pc[s] /\ linking'[s] = linking[s]
      /\ linking'[cpu] = t
  BY <1>1, <1>2 DEF Linking
<1>4. /\ t \notin Members /\ t # cpu /\ \A s \in Linking : linking[s] # t
      /\ rc'[t] = 1 /\ \A u \in Tasks : u # t => rc'[u] = rc[u]
  BY <1>1, <1>2 DEF Members, NewOK
<1>5. Members' = Members
  BY <1>1, <1>2, <1>3, <1>4 DEF Members
<1>6. Live' = Live
  BY <1>1, <1>3, <1>5 DEF Live
<1>7. LifeBase'
  <2>1. pc' \in [Stacks -> LifePoints] /\ linking' \in [Stacks -> Tasks]
        /\ rc' \in [Tasks -> Nat]
    BY <1>1, <1>2 DEF LifePoints, Points, SchedPoints
  <2>2. \A s \in Stacks \ {stack_free_stack} : pc'[s] # "start" => s \in Members
    BY <1>1, <1>3 DEF LifeBase
  <2>3. \A u \in Tasks : pc'[u] \notin Final /\ (pc[u] = "gone" => pc'[u] = "gone")
    BY <1>1, <1>3 DEF LifeBase, Final
  <2>4. pc'[stack_free_stack] = pc[stack_free_stack]
    BY <1>1, <1>3
  <2>. QED BY <1>1, <1>5, <1>6, <2>1, <2>2, <2>3, <2>4 DEF LifeBase
<1>8. LifeRing'
  <2>1. pc'[Idle] # "exit"
    BY <1>1, <1>3 DEF LifeRing
  <2>2. \A x \in Live : /\ pc'[x] = "link_next" <=> pc[x] = "link_next"
                        /\ pc[x] = "link_next" => linking'[x] = linking[x]
    BY <1>1, <1>3
  <2>. QED BY <1>1, <1>6, <2>1, <2>2 DEF LifeRing, OneRing
<1>9. NewOK'
  <2>1. \A s \in Linking : s # cpu /\ linking'[s] = linking[s] /\ pc'[s] = pc[s]
                           /\ linking[s] \in Tasks
    BY <1>1, <1>3 DEF Linking
  <2>2. scheduling.l_next[t] = t /\ scheduling.l_prev[t] = t /\ scheduling' = scheduling
    BY <1>1, <1>2 DEF NewOK
  <2>. QED BY <1>1, <1>3, <1>4, <2>1, <2>2 DEF NewOK
<1>10. LifeFrames'
  <2>1. pc'[stack_free_stack] = pc[stack_free_stack]
        /\ \A u \in Tasks : pc[u] = "gone" => pc'[u] = "gone"
    BY <1>1, <1>3
  <2>. QED BY <1>1, <1>6, <2>1 DEF LifeFrames
<1>11. LifeRefs'
  <2>1. /\ ~Unlinked(t) /\ Unlinked(t)'
        /\ \A u \in Tasks \ {t} : Unlinked(u)' = Unlinked(u)
    BY <1>1, <1>3, <1>4 DEF Unlinked, Linking
  <2>2. t \notin kept /\ t # Idle /\ Idle \in Tasks
    BY <1>1, <1>2, BootRing DEF LifeRefs
  <2>3. Count(t)' = 1
    BY <2>1 DEF Count
  <2>4. \A u \in Tasks \ {t} : Count(u)' = Count(u)
    BY <1>1, <1>3, <2>1 DEF Count
  <2>5. \A u \in Tasks : rc[u] = 0 => u # cpu
    BY <1>1 DEF Members
  <2>6. \A u \in Tasks \ {Idle} :
            \/ rc'[u] = 0 /\ pc'[u] = "start" /\ u \notin kept'
            \/ rc'[u] = Count(u)' /\ rc'[u] # 0
    BY <1>1, <1>3, <1>4, <2>3, <2>4, <2>5 DEF LifeRefs
  <2>. QED BY <1>1, <1>4, <2>1, <2>2, <2>6 DEF LifeRefs
<1>. QED BY <1>7, <1>8, <1>9, <1>10, <1>11 DEF LifeOK

\* link_node: the new node gets its pointers and the scheduler's reference;
\* nobody can see it yet.
LEMMA LinkNodeStep ==
    ASSUME LifeOK, link_node, UNCHANGED exit_vars
    PROVE  LifeOK'
<1>. USE DEF link_node, At, Goto, frame_vars, exit_vars
<1>. DEFINE t == linking[cpu]
<1>1. /\ LifeBase /\ LifeRing /\ NewOK /\ LifeFrames /\ LifeRefs
      /\ cpu = current_task /\ cpu \in Live /\ cpu \in Tasks /\ cpu \in Stacks
      /\ cpu \in Members /\ cpu # stack_free_stack
      /\ Live \subseteq Members /\ Members \subseteq Tasks
      /\ pc \in [Stacks -> LifePoints]
      /\ linking \in [Stacks -> Tasks] /\ rc \in [Tasks -> Nat]
      /\ scheduling \in Heap(Tasks)
      /\ scheduling.l_next \in [Tasks -> Tasks]
      /\ scheduling.l_prev \in [Tasks -> Tasks]
      /\ stack_free_stack \in Stacks /\ Tasks \subseteq Stacks
  BY TaskFacts DEF Final
<1>2. cpu \in Linking /\ t \in Tasks \ Members /\ rc[t] # 0
      /\ scheduling.l_next[cpu] \in Live
  BY <1>1, InLinkTask DEF Linking
<1>3. /\ Linking' = Linking
      /\ \A s \in Linking : s # cpu => pc'[s] = pc[s] /\ linking[s] # t
      /\ \A s \in Stacks \ {cpu} : pc'[s] = pc[s]
      /\ pc[cpu] = "link" /\ pc'[cpu] = "link_prev"
  BY <1>1, <1>2 DEF Linking, NewOK
<1>4. /\ scheduling'.l_next[t] = scheduling.l_next[cpu]
      /\ scheduling'.l_prev[t] = cpu
      /\ \A x \in Tasks : x # t =>
            /\ scheduling'.l_next[x] = scheduling.l_next[x]
            /\ scheduling'.l_prev[x] = scheduling.l_prev[x]
      /\ rc'[t] = rc[t] + 1 /\ rc'[t] # 0 /\ \A x \in Tasks : x # t => rc'[x] = rc[x]
      /\ scheduling' \in Heap(Tasks)
      /\ rc' \in [Tasks -> Nat]
      /\ linking' = linking /\ cpu' = cpu
  BY <1>1, <1>2 DEF Heap
<1>5. Members' = Members
  BY <1>1, <1>2, <1>3, <1>4 DEF Members
<1>6. Live' = Live
  BY <1>1, <1>3, <1>5 DEF Live
<1>7. LifeBase'
  <2>1. pc' \in [Stacks -> LifePoints]
    BY <1>1 DEF LifePoints, Points, SchedPoints
  <2>2. \A s \in Stacks \ {stack_free_stack} : pc'[s] # "start" => s \in Members
    BY <1>1, <1>3 DEF LifeBase
  <2>3. \A u \in Tasks : pc'[u] \notin Final /\ (pc[u] = "gone" => pc'[u] = "gone")
    BY <1>1, <1>3 DEF LifeBase, Final
  <2>4. pc'[stack_free_stack] = pc[stack_free_stack]
    BY <1>1, <1>3
  <2>. QED BY <1>1, <1>4, <1>5, <1>6, <2>1, <2>2, <2>3, <2>4 DEF LifeBase
<1>8. LifeRing'
  <2>1. pc'[Idle] # "exit"
    BY <1>1, <1>3 DEF LifeRing
  <2>2. \A x \in Live : pc'[x] = "link_next" <=> pc[x] = "link_next"
    BY <1>1, <1>3
  <2>3. \A x \in Live : x # t /\ x \in Tasks /\ scheduling.l_next[x] \in Live
    BY <1>1, <1>2 DEF LifeRing
  <2>4. \A x \in Live : scheduling'.l_next[x] = scheduling.l_next[x]
    BY <1>4, <2>3
  <2>5. \A x \in Live : scheduling'.l_prev[scheduling'.l_next[x]] =
            scheduling.l_prev[scheduling.l_next[x]]
    BY <1>4, <2>3, <2>4
  <2>6. OneRing(scheduling', Live)
    BY <1>1, <2>4 DEF LifeRing, OneRing
  <2>. QED BY <1>1, <1>4, <1>6, <2>1, <2>2, <2>4, <2>5, <2>6 DEF LifeRing
<1>9. NewOK'
  <2>1. \A s \in Linking : s \in Tasks /\ s # t /\ linking[s] \in Tasks
    BY <1>1, <1>2, InLinkTask
  <2>. QED BY <1>1, <1>2, <1>3, <1>4, <2>1 DEF NewOK
<1>10. LifeFrames'
  <2>1. pc'[stack_free_stack] = pc[stack_free_stack]
        /\ \A u \in Tasks : pc[u] = "gone" => pc'[u] = "gone"
    BY <1>1, <1>3
  <2>. QED BY <1>1, <1>6, <2>1 DEF LifeFrames
<1>11. LifeRefs'
  <2>1. /\ Unlinked(t) /\ ~Unlinked(t)'
        /\ \A u \in Tasks \ {t} : Unlinked(u)' = Unlinked(u)
    BY <1>1, <1>3, <1>4 DEF Unlinked, Linking
  <2>2. t \notin kept /\ t # Idle /\ Idle \in Tasks
    BY <1>1, <1>2, <2>1, BootRing DEF LifeRefs, LifeRing
  <2>3. rc'[t] = 2
    BY <1>1, <1>2, <1>4, <2>1, <2>2 DEF LifeRefs, Count
  <2>4. pc'[t] # "gone"
    BY <1>1, <1>2, <1>3 DEF LifeBase
  <2>5. Count(t)' = 2
    BY <2>1, <2>2, <2>4 DEF Count
  <2>6. \A u \in Tasks \ {t} : Count(u)' = Count(u)
    BY <1>1, <1>3, <2>1 DEF Count
  <2>7. \A u \in Tasks : rc[u] = 0 => u # cpu
    BY <1>1 DEF Members
  <2>8. \A u \in Tasks \ {Idle} :
            \/ rc'[u] = 0 /\ pc'[u] = "start" /\ u \notin kept'
            \/ rc'[u] = Count(u)' /\ rc'[u] # 0
    BY <1>1, <1>3, <1>4, <2>3, <2>5, <2>6, <2>7 DEF LifeRefs
  <2>9. \A u \in kept' : ~Unlinked(u)'
    BY <1>1, <2>1 DEF LifeRefs
  <2>. QED BY <1>1, <1>4, <2>2, <2>8, <2>9 DEF LifeRefs
<1>. QED BY <1>7, <1>8, <1>9, <1>10, <1>11 DEF LifeOK

\* link_prev: the node behind learns of the new node.
LEMMA LinkPrevStep ==
    ASSUME LifeOK, link_prev, UNCHANGED exit_vars
    PROVE  LifeOK'
<1>. USE DEF link_prev, At, Goto, frame_vars, exit_vars
<1>. DEFINE t == linking[cpu]
            nxt == scheduling.l_next[cpu]
<1>1. /\ LifeBase /\ LifeRing /\ NewOK /\ LifeFrames /\ LifeRefs
      /\ cpu = current_task /\ cpu \in Live /\ cpu \in Tasks /\ cpu \in Stacks
      /\ cpu \in Members /\ cpu # stack_free_stack
      /\ Live \subseteq Members /\ Members \subseteq Tasks
      /\ pc \in [Stacks -> LifePoints]
      /\ linking \in [Stacks -> Tasks] /\ rc \in [Tasks -> Nat]
      /\ scheduling \in Heap(Tasks)
      /\ scheduling.l_next \in [Tasks -> Tasks]
      /\ scheduling.l_prev \in [Tasks -> Tasks]
      /\ stack_free_stack \in Stacks /\ Tasks \subseteq Stacks
  BY TaskFacts DEF Final
<1>2. cpu \in Linking /\ t \in Tasks \ Members /\ rc[t] # 0 /\ nxt \in Live
  BY <1>1, InLinkTask DEF Linking
<1>3. /\ Linking' = Linking /\ Members' = Members
      /\ \A s \in Stacks : s # cpu => pc'[s] = pc[s]
      /\ pc[cpu] = "link_prev" /\ pc'[cpu] = "link_next"
  BY <1>1, <1>2 DEF Linking, Members
<1>4. /\ scheduling'.l_next = scheduling.l_next
      /\ scheduling'.l_prev[nxt] = t
      /\ \A x \in Tasks : x # nxt => scheduling'.l_prev[x] = scheduling.l_prev[x]
      /\ scheduling' \in Heap(Tasks)
      /\ linking' = linking /\ cpu' = cpu /\ rc' = rc
  BY <1>1, <1>2 DEF Heap
<1>6. Live' = Live
  BY <1>1, <1>3 DEF Live
<1>7. LifeBase'
  <2>1. pc' \in [Stacks -> LifePoints]
    BY <1>1 DEF LifePoints, Points, SchedPoints
  <2>2. \A s \in Stacks \ {stack_free_stack} : pc'[s] # "start" => s \in Members
    BY <1>1, <1>3 DEF LifeBase
  <2>3. \A u \in Tasks : pc'[u] \notin Final /\ (pc[u] = "gone" => pc'[u] = "gone")
    BY <1>1, <1>3 DEF LifeBase, Final
  <2>4. pc'[stack_free_stack] = pc[stack_free_stack]
    BY <1>1, <1>3
  <2>. QED BY <1>1, <1>3, <1>4, <1>6, <2>1, <2>2, <2>3, <2>4 DEF LifeBase
<1>8. LifeRing'
  <2>1. pc'[Idle] # "exit"
    BY <1>1, <1>3 DEF LifeRing
  <2>2. \A x \in Live : /\ x \in Stacks
                        /\ scheduling.l_next[x] \in Live
                        /\ scheduling.l_next[x] = nxt => x = cpu
    BY <1>1 DEF LifeRing
  <2>3. \A x \in Live : scheduling'.l_prev[scheduling'.l_next[x]] =
            IF pc'[x] = "link_next" THEN linking'[x] ELSE x
    BY <1>1, <1>2, <1>3, <1>4, <2>2 DEF LifeRing
  <2>. QED BY <1>1, <1>4, <1>6, <2>1, <2>3 DEF LifeRing, OneRing
<1>9. NewOK'
  <2>1. \A s \in Linking : /\ s \in Stacks /\ linking[s] # nxt
                           /\ linking[s] \in Tasks
    BY <1>1, <1>2, InLinkTask
  <2>2. \A u \in Tasks : rc[u] = 0 => u # nxt
    BY <1>1, <1>2 DEF Members
  <2>. QED BY <1>1, <1>2, <1>3, <1>4, <2>1, <2>2 DEF NewOK
<1>10. LifeFrames'
  <2>1. pc'[stack_free_stack] = pc[stack_free_stack]
        /\ \A u \in Tasks : pc[u] = "gone" => pc'[u] = "gone"
    BY <1>1, <1>3
  <2>. QED BY <1>1, <1>6, <2>1 DEF LifeFrames
<1>11. LifeRefs'
  <2>1. \A u \in Tasks : Unlinked(u)' = Unlinked(u)
    BY <1>1, <1>3, <1>4 DEF Unlinked
  <2>2. \A u \in Tasks : Count(u)' = Count(u)
    BY <1>1, <1>3, <2>1 DEF Count
  <2>3. \A u \in Tasks : rc[u] = 0 => u # cpu
    BY <1>1 DEF Members
  <2>4. \A u \in Tasks \ {Idle} :
            \/ rc'[u] = 0 /\ pc'[u] = "start" /\ u \notin kept'
            \/ rc'[u] = Count(u)' /\ rc'[u] # 0
    BY <1>1, <1>3, <1>4, <2>2, <2>3 DEF LifeRefs
  <2>5. \A u \in kept' : ~Unlinked(u)'
    BY <1>1, <2>1 DEF LifeRefs
  <2>. QED BY <1>1, <1>4, <2>4, <2>5 DEF LifeRefs
<1>. QED BY <1>7, <1>8, <1>9, <1>10, <1>11 DEF LifeOK

\* link_next: the new node is in the ring.
LEMMA LinkNextStep ==
    ASSUME LifeOK, link_next, UNCHANGED exit_vars
    PROVE  LifeOK'
<1>. USE DEF link_next, At, Goto, frame_vars, exit_vars
<1>. DEFINE t == linking[cpu]
            nxt == scheduling.l_next[cpu]
<1>1. /\ LifeBase /\ LifeRing /\ NewOK /\ LifeFrames /\ LifeRefs
      /\ cpu = current_task /\ cpu \in Live /\ cpu \in Tasks /\ cpu \in Stacks
      /\ cpu \in Members /\ cpu # stack_free_stack
      /\ Live \subseteq Members /\ Members \subseteq Tasks
      /\ pc \in [Stacks -> LifePoints]
      /\ linking \in [Stacks -> Tasks] /\ rc \in [Tasks -> Nat]
      /\ scheduling \in Heap(Tasks)
      /\ scheduling.l_next \in [Tasks -> Tasks]
      /\ scheduling.l_prev \in [Tasks -> Tasks]
      /\ stack_free_stack \in Stacks /\ Tasks \subseteq Stacks
  BY TaskFacts DEF Final
<1>2. /\ cpu \in Linking /\ t \in Tasks \ Members /\ rc[t] # 0
      /\ nxt \in Live /\ t # cpu
  BY <1>1, InLinkTask DEF Linking
<1>3. /\ Linking' = Linking \ {cpu}
      /\ \A s \in Stacks : s # cpu => pc'[s] = pc[s]
      /\ pc'[cpu] = "run" /\ pc[cpu] = "link_next"
      /\ linking' = linking /\ cpu' = cpu /\ rc' = rc
  BY <1>1, <1>2 DEF Linking
<1>t. t \in Stacks /\ t # stack_free_stack /\ pc[t] = "start" /\ pc'[t] = "start"
      /\ stack_pointer[t] = t
  BY <1>1, <1>2, <1>3, FreeStack DEF LifeBase
<1>4. Members' = Members \cup {t}
  <2>1. \A s \in Linking : s # cpu => linking[s] # t
    BY <1>1, <1>2 DEF NewOK
  <2>. QED BY <1>2, <1>3, <2>1 DEF Members
<1>5. Live' = Live \cup {t}
  BY <1>1, <1>3, <1>4, <1>t DEF Live
<1>6. /\ scheduling'.l_prev = scheduling.l_prev
      /\ scheduling'.l_next[cpu] = t
      /\ \A x \in Tasks : x # cpu => scheduling'.l_next[x] = scheduling.l_next[x]
      /\ scheduling' \in Heap(Tasks)
      /\ scheduling.l_next[t] = nxt /\ scheduling.l_prev[t] = cpu
      /\ scheduling.l_prev[nxt] = t
  <2>1. scheduling'.l_prev = scheduling.l_prev /\ scheduling' \in Heap(Tasks)
        /\ scheduling'.l_next = [scheduling.l_next EXCEPT ![cpu] = t]
    BY <1>1, <1>2 DEF Heap
  <2>2. scheduling.l_next[t] = nxt /\ scheduling.l_prev[t] = cpu
    BY <1>1, <1>2, <1>3 DEF NewOK
  <2>3. scheduling.l_prev[nxt] = t
    BY <1>1, <1>3 DEF LifeRing
  <2>. QED BY <1>1, <2>1, <2>2, <2>3
<1>7. LifeBase'
  <2>1. pc' \in [Stacks -> LifePoints]
    BY <1>1 DEF LifePoints, Points, SchedPoints
  <2>2. \A s \in Stacks \ {stack_free_stack} : pc'[s] # "start" => s \in Members'
    BY <1>1, <1>3, <1>4 DEF LifeBase
  <2>3. \A u \in Tasks : pc'[u] \notin Final /\ (pc[u] = "gone" => pc'[u] = "gone")
    BY <1>1, <1>3 DEF LifeBase, Final
  <2>4. pc'[stack_free_stack] = pc[stack_free_stack]
    BY <1>1, <1>3
  <2>. QED BY <1>1, <1>3, <1>4, <1>5, <1>6, <2>1, <2>2, <2>3, <2>4 DEF LifeBase
<1>8. LifeRing'
  <2>0. pc'[Idle] # "exit"
    BY <1>1, <1>3 DEF LifeRing
  <2>1. /\ \A x \in Live : scheduling.l_next[x] \in Live
        /\ \A x, y \in Live :
                scheduling.l_next[x] = scheduling.l_next[y] => x = y
    BY <1>1 DEF LifeRing
  <2>2. /\ \A x \in Live' : scheduling'.l_next[x] \in Live'
        /\ \A x, y \in Live' :
                scheduling'.l_next[x] = scheduling'.l_next[y] => x = y
    BY <1>1, <1>2, <1>5, <1>6, <2>1
  <2>3. ASSUME NEW Z \in SUBSET Live', Z # {},
               \A x \in Z : scheduling'.l_next[x] \in Z
        PROVE  Z = Live'
    <3>. DEFINE Y == Z \ {t}
    <3>1. Y \in SUBSET Live
      BY <1>5
    <3>2. Y # {}
      BY <1>1, <1>2, <1>6, <2>3
    <3>3. ASSUME NEW x \in Y PROVE scheduling.l_next[x] \in Y
      <4>1. scheduling.l_next[x] \in Live
        BY <2>1, <3>1
      <4>2. CASE x = cpu
        BY <1>1, <1>2, <1>6, <2>3, <4>1, <4>2
      <4>3. CASE x # cpu
        BY <1>1, <1>2, <1>6, <2>3, <3>1, <4>1, <4>3
      <4>. QED BY <4>2, <4>3
    <3>4. Y = Live
      BY <1>1, <3>1, <3>2, <3>3 DEF LifeRing, OneRing
    <3>5. t \in Z
      BY <1>1, <1>6, <2>3, <3>4
    <3>. QED BY <1>5, <3>4, <3>5
  <2>4. \A x \in Live' : scheduling'.l_prev[scheduling'.l_next[x]] =
            IF pc'[x] = "link_next" THEN linking'[x] ELSE x
    BY <1>1, <1>2, <1>3, <1>5, <1>6, <1>t, <2>1 DEF LifeRing
  <2>. QED BY <1>1, <1>5, <2>0, <2>2, <2>3, <2>4 DEF LifeRing, OneRing
<1>9. NewOK'
  <2>1. \A s \in Linking : s \in Stacks /\ linking[s] \in Tasks \ Members /\ s \in Members
    BY <1>1, InLinkTask
  <2>2. \A u \in Tasks : rc[u] = 0 => u # cpu
    BY <1>1 DEF Members
  <2>. QED BY <1>1, <1>2, <1>3, <1>6, <2>1, <2>2 DEF NewOK
<1>10. LifeFrames'
  <2>1. pc'[stack_free_stack] = pc[stack_free_stack]
        /\ \A u \in Tasks : pc[u] = "gone" => pc'[u] = "gone"
    BY <1>1, <1>3
  <2>2. stack_pointer'[t] # stack_free_stack
    BY <1>t
  <2>. QED BY <1>1, <1>5, <2>1, <2>2 DEF LifeFrames
<1>11. LifeRefs'
  <2>1. \A u \in Tasks : Unlinked(u)' = Unlinked(u)
    BY <1>1, <1>3 DEF Unlinked
  <2>2. \A u \in Tasks : Count(u)' = Count(u)
    BY <1>1, <1>3, <2>1 DEF Count
  <2>3. \A u \in Tasks : rc[u] = 0 => u # cpu
    BY <1>1 DEF Members
  <2>4. \A u \in Tasks \ {Idle} :
            \/ rc'[u] = 0 /\ pc'[u] = "start" /\ u \notin kept'
            \/ rc'[u] = Count(u)' /\ rc'[u] # 0
    BY <1>1, <1>3, <2>2, <2>3 DEF LifeRefs
  <2>5. \A u \in kept' : ~Unlinked(u)'
    BY <1>1, <2>1 DEF LifeRefs
  <2>. QED BY <1>1, <1>3, <2>4, <2>5 DEF LifeRefs
<1>. QED BY <1>7, <1>8, <1>9, <1>10, <1>11 DEF LifeOK

\* Most steps of a task are of this kind.
LEMMA QuietStep ==
    ASSUME LifeOK, NEW p, At(p), p \notin Final \cup LinkPoints,
           UNCHANGED <<current_task, cpu, stack_pointer, scheduling, rc, linking,
                       exit_vars>>,
           pc' = pc \/ \E q \in Ordinary \ {"exit"} : Goto(q)
    PROVE  LifeOK'
<1>1. cpu \in Tasks /\ pc[cpu] = p
  BY OnTask DEF At
<1>2. MovesOn
  BY <1>1 DEF MovesOn, Goto
<1>. QED BY <1>2, Quiet DEF exit_vars

\* The scheduler's and the mutex's own steps.
LEMMA LifeNextStep ==
    ASSUME LifeOK, panic = "no", Next, UNCHANGED exit_vars
    PROVE  LifeOK'
<1>. USE DEF task_vars, frame_vars
<1>o. {"run", "lock", "take", "block", "taken", "blocked", "yield", "resumed",
       "unlock", "release", "hand", "released"} \subseteq Ordinary \ {"exit"}
  BY DEF Ordinary, LifePoints, Points, SchedPoints, SectionPoints, Final, LinkPoints
<1>p. {"start", "run", "lock", "take", "block", "taken", "blocked", "yield",
       "resumed", "unlock", "release", "hand", "released"}
            \cap (Final \cup LinkPoints) = {}
  BY DEF Final, LinkPoints
<1>1. CASE timeslice_passed
  BY <1>1, LifeSwitch DEF timeslice_passed, MovesOn
<1>2. CASE task_wrapper
  BY <1>2, <1>o, <1>p, QuietStep DEF task_wrapper
<1>3. CASE scoped_preemptlock
  BY <1>3, <1>p, QuietStep DEF scoped_preemptlock
<1>4. CASE scoped_preemptlock_end
  BY <1>4, <1>p, QuietStep DEF scoped_preemptlock_end
<1>5. CASE allocate \/ link_node \/ link_prev \/ link_next
  BY <1>5, AllocateStep, LinkNodeStep, LinkPrevStep, LinkNextStep
<1>7. CASE lock
  BY <1>7, <1>o, <1>p, QuietStep DEF lock
<1>8. CASE unlock
  BY <1>8, <1>o, <1>p, QuietStep DEF unlock
<1>9. CASE lock_check
  BY <1>9, <1>o, <1>p, QuietStep DEF lock_check, kpanic
<1>10. CASE lock_take
  BY <1>10, <1>o, <1>p, QuietStep DEF lock_take
<1>11. CASE lock_taken
  BY <1>11, <1>o, <1>p, QuietStep DEF lock_taken
<1>12. CASE lock_block
  BY <1>12, <1>o, <1>p, QuietStep DEF lock_block
<1>13. CASE lock_blocked
  BY <1>13, <1>o, <1>p, QuietStep DEF lock_blocked
<1>14. CASE yield
  <2>1. CASE preempt_counter # 0
    BY <1>14, <2>1, <1>p, QuietStep DEF yield, kpanic
  <2>2. CASE preempt_counter = 0
    <3>1. pc[cpu] = "yield" /\ SwitchFrom(FALSE) /\ Goto("resumed")
          /\ UNCHANGED <<scheduling, rc, linking>>
      BY <1>14, <2>2 DEF yield, At
    <3>2. cpu \in Tasks
      BY <1>p, <3>1, OnTask
    <3>3. MovesOn
      BY <1>o, <1>p, <3>1, <3>2 DEF MovesOn, Goto
    <3>. QED BY <3>1, <3>3, LifeSwitch
  <2>. QED BY <2>1, <2>2
<1>15. CASE lock_resumed
  BY <1>15, <1>o, <1>p, QuietStep DEF lock_resumed, kpanic
<1>16. CASE unlock_check
  BY <1>16, <1>o, <1>p, QuietStep DEF unlock_check, kpanic
<1>17. CASE unlock_release
  BY <1>17, <1>o, <1>p, QuietStep DEF unlock_release
<1>18. CASE unlock_hand
  BY <1>18, <1>o, <1>p, QuietStep DEF unlock_hand, kpanic
<1>19. CASE unlock_released
  BY <1>19, <1>o, <1>p, QuietStep DEF unlock_released
<1>20. ~Halt
  BY DEF Halt
<1>. QED
  BY <1>1, <1>2, <1>3, <1>4, <1>5, <1>7, <1>8, <1>9, <1>10, <1>11, <1>12,
     <1>13, <1>14, <1>15, <1>16, <1>17, <1>18, <1>19, <1>20
  DEF Next, SchedNext, MutexOps, InCall

\* A step that changes one count and whether the task is kept, and takes
\* nobody's last reference.
LEMMA CountStep ==
    ASSUME LifeOK, NEW t \in Tasks \ {Idle}, ~Unlinked(t),
           rc[t] # 0, rc[t] = Count(t), rc' \in [Tasks -> Nat], rc'[t] # 0,
           \A u \in Tasks \ {t} : rc'[u] = rc[u],
           kept' \in {kept \cup {t}, kept \ {t}}, rc'[t] = Count(t)',
           UNCHANGED <<current_task, cpu, stack_pointer, scheduling, linking, pc,
                       freed, free_stack, switch_stack>>
    PROVE  LifeOK'
<1>1. LifeBase /\ LifeRing /\ NewOK /\ LifeFrames /\ LifeRefs
  BY DEF LifeOK
<1>2. Linking' = Linking /\ \A u \in Tasks : rc'[u] = 0 <=> rc[u] = 0
  BY DEF Linking
<1>3. Members' = Members
  BY <1>2 DEF Members
<1>4. Live' = Live
  BY <1>3 DEF Live
<1>5. LifeBase'
  BY <1>1, <1>3, <1>4 DEF LifeBase
<1>6. LifeRing' /\ LifeFrames'
  BY <1>1, <1>4 DEF LifeRing, LifeFrames, OneRing
<1>7. NewOK'
  <2>1. \A s \in Linking : linking[s] \in Tasks
    BY <1>1 DEF LifeBase, Linking
  <2>. QED BY <1>1, <1>2, <2>1 DEF NewOK
<1>8. LifeRefs'
  <2>1. \A u \in Tasks : Unlinked(u)' = Unlinked(u)
    BY DEF Unlinked
  <2>2. \A u \in Tasks \ {t} : Count(u)' = Count(u) /\ (u \in kept' <=> u \in kept)
    BY <2>1 DEF Count
  <2>3. \A u \in Tasks \ {Idle} :
            \/ rc'[u] = 0 /\ pc'[u] = "start" /\ u \notin kept'
            \/ rc'[u] = Count(u)' /\ rc'[u] # 0
    BY <1>1, <2>2 DEF LifeRefs
  <2>4. kept' \subseteq Tasks \ {Idle} /\ \A u \in kept' : ~Unlinked(u)'
    BY <1>1, <2>1 DEF LifeRefs
  <2>5. rc'[Idle] = 1
    BY <1>1, BootRing DEF LifeRefs
  <2>. QED BY <2>3, <2>4, <2>5 DEF LifeRefs
<1>. QED BY <1>5, <1>6, <1>7, <1>8 DEF LifeOK

LEMMA TakeRefStep ==
    ASSUME LifeOK, take_ref
    PROVE  LifeOK'
<1>1. LifeRefs /\ rc \in [Tasks -> Nat]
  BY DEF LifeOK, LifeBase
<1>2. PICK t \in Tasks \ (kept \cup {Idle}) :
        /\ rc[t] = 2 /\ rc' = [rc EXCEPT ![t] = @ + 1] /\ kept' = kept \cup {t}
  BY DEF take_ref
<1>3. UNCHANGED <<current_task, cpu, stack_pointer, scheduling, linking, pc, freed,
                  free_stack, switch_stack>>
  BY DEF take_ref, frame_vars
<1>4. rc[t] = Count(t)
  BY <1>1, <1>2 DEF LifeRefs
<1>5. ~Unlinked(t) /\ pc[t] # "gone"
  BY <1>2, <1>4 DEF Count
<1>6. Count(t)' = 3
  BY <1>2, <1>3, <1>5 DEF Count, Unlinked
<1>7. rc' \in [Tasks -> Nat] /\ rc'[t] = 3 /\ \A u \in Tasks \ {t} : rc'[u] = rc[u]
  BY <1>1, <1>2
<1>. QED BY <1>2, <1>3, <1>4, <1>5, <1>6, <1>7, CountStep

LEMMA ReleaseStep ==
    ASSUME LifeOK, release, panic' = "no"
    PROVE  LifeOK'
<1>1. LifeRefs /\ rc \in [Tasks -> Nat]
  BY DEF LifeOK, LifeBase
<1>2. PICK t \in kept :
        /\ release_refs(t, 1) /\ kept' = kept \ {t}
        /\ panic' = IF rc[t] = 1 THEN "virtual_memory" ELSE panic
  BY DEF release
<1>3. UNCHANGED <<current_task, cpu, stack_pointer, scheduling, linking, pc, freed,
                  free_stack, switch_stack>>
  BY DEF release, frame_vars
<1>4. t \in Tasks \ {Idle} /\ ~Unlinked(t) /\ rc[t] = Count(t) /\ rc[t] # 0 /\ rc[t] # 1
  BY <1>1, <1>2 DEF LifeRefs
<1>5. rc' = [rc EXCEPT ![t] = @ - 1] /\ rc[t] - 1 \in Nat \ {0}
  <2>1. rc[t] \in Nat /\ rc[t] # 0 /\ rc[t] # 1
    BY <1>1, <1>4
  <2>2. rc[t] - 1 \in Nat \ {0} /\ ~(rc[t] < 1)
    BY <2>1
  <2>3. rc' = [rc EXCEPT ![t] = IF @ < 1 THEN 0 ELSE @ - 1]
    BY <1>2 DEF release_refs
  <2>. QED BY <2>2, <2>3
<1>6. rc' \in [Tasks -> Nat] /\ rc'[t] = rc[t] - 1 /\ rc'[t] # 0
      /\ \A u \in Tasks \ {t} : rc'[u] = rc[u]
  BY <1>1, <1>4, <1>5
<1>7. Count(t)' = Count(t) - 1
  BY <1>2, <1>3, <1>4 DEF Count, Unlinked
<1>. QED BY <1>2, <1>3, <1>4, <1>6, <1>7, CountStep

LEMMA ExitStep ==
    ASSUME LifeOK, exit
    PROVE  LifeOK'
<1>1. pc[cpu] = "run" /\ cpu # Idle /\ Goto("exit")
      /\ UNCHANGED <<current_task, cpu, stack_pointer, scheduling, rc, linking,
                     exit_vars>>
  BY DEF exit, At, frame_vars
<1>2. cpu \in Tasks
  BY <1>1, OnTask DEF Final
<1>3. "exit" \in Ordinary /\ "run" \notin LinkPoints
  BY DEF Ordinary, LifePoints, Final, LinkPoints
<1>4. MovesOn
  BY <1>1, <1>2, <1>3 DEF MovesOn, Goto
<1>. QED BY <1>1, <1>4, Quiet DEF exit_vars

\* A task that begins to leave the ring is nobody's pending successor: unless
\* the ring is torn, its predecessor is not between the stores of link_task.
LEMMA NotSuccessor ==
    ASSUME LifeOK, NEW p \in Live, ~Successor(scheduling.l_next[p])
    PROVE  scheduling.l_prev[scheduling.l_next[p]] = p
<1>1. p \in Stacks /\ pc[p] # "link_next"
  BY StacksAssumption DEF Live, Members, Successor
<1>. QED BY <1>1 DEF LifeOK, LifeRing

\* The processor leaves the exiting task's stack for stack_free_stack, where
\* no task that is left has a frame.
LEMMA ExitUnlinkStep ==
    ASSUME LifeOK, exit_unlink, panic' = "no", ~torn'
    PROVE  LifeOK'
<1>1. /\ LifeBase /\ LifeRing /\ NewOK /\ LifeFrames /\ LifeRefs
      /\ cpu = current_task /\ cpu \in Live /\ cpu \in Tasks /\ cpu \in Stacks
      /\ cpu \in Members /\ cpu # stack_free_stack
      /\ Live \subseteq Members /\ Members \subseteq Tasks
      /\ pc \in [Stacks -> LifePoints]
      /\ linking \in [Stacks -> Tasks] /\ rc \in [Tasks -> Nat]
      /\ scheduling \in Heap(Tasks)
      /\ stack_free_stack \in Stacks /\ Tasks \subseteq Stacks
      /\ pc[cpu] = "exit"
  BY TaskFacts DEF exit_unlink, At, Final
<1>2. PICK me \in Tasks : me = cpu
  BY <1>1
<1>3. PICK to : to = scheduling.l_next[me]
  OBVIOUS
<1>4. /\ current_task' = to /\ scheduling' = unlink(scheduling, me)
      /\ release_refs(me, 2) /\ ~Successor(me)
      /\ free_stack' = me /\ switch_stack' = stack_pointer[to]
      /\ cpu' = stack_free_stack
      /\ pc' = [pc EXCEPT ![me] = "gone", ![stack_free_stack] = "final_free"]
      /\ exit_panic(me) = "no"
      /\ UNCHANGED <<stack_pointer, linking, kept, freed>>
  BY <1>1, <1>2, <1>3 DEF exit_unlink, unlink_task
<1>5. /\ ~(rc[me] < 2) /\ rc[me] # 2 /\ \A t \in Tasks : ~Overwritten(t)
  BY <1>4 DEF exit_panic
<1>6. /\ Live \in SUBSET Tasks /\ me \in Live /\ Idle \in Live /\ Idle # me
      /\ Closed(scheduling, Live) /\ OneToOne(scheduling, Live)
      /\ OneRing(scheduling, Live)
  BY <1>1, <1>2 DEF LifeRing, Closed, OneToOne
<1>7. PICK p \in Live : scheduling.l_next[p] = me
  BY <1>6, Predecessor
<1>8. scheduling.l_prev[me] = p
  BY <1>4, <1>7, NotSuccessor
<1>9. /\ scheduling' \in Heap(Tasks) /\ to \in Live \ {me} /\ p # me
      /\ Closed(scheduling', Live \ {me}) /\ OneToOne(scheduling', Live \ {me})
      /\ OneRing(scheduling', Live \ {me})
      /\ scheduling'.l_next[p] = to /\ scheduling'.l_prev[to] = p
      /\ \A x \in Tasks \ {me, p} : scheduling'.l_next[x] = scheduling.l_next[x]
      /\ \A x \in Tasks \ {me, to} : scheduling'.l_prev[x] = scheduling.l_prev[x]
  <2>1. PICK m : m = unlink(scheduling, me)
    OBVIOUS
  <2>2. /\ m \in Heap(Tasks) /\ to \in Live \ {me} /\ p # me
        /\ Closed(m, Live \ {me}) /\ OneToOne(m, Live \ {me})
        /\ OneRing(m, Live \ {me})
        /\ m.l_next[p] = to /\ m.l_prev[to] = p
        /\ \A x \in Tasks \ {me, p} : m.l_next[x] = scheduling.l_next[x]
        /\ \A x \in Tasks \ {me, to} : m.l_prev[x] = scheduling.l_prev[x]
    <3>1. scheduling \in Heap(Tasks)
      BY <1>1
    <3>. QED BY <1>3, <1>6, <1>7, <1>8, <2>1, <3>1, UnlinkRing, SMTT(60)
  <2>. QED BY <1>4, <2>1, <2>2
<1>10. /\ pc' \in [Stacks -> LifePoints] /\ pc'[stack_free_stack] = "final_free"
       /\ pc'[me] = "gone"
       /\ \A s \in Stacks \ {me, stack_free_stack} : pc'[s] = pc[s]
       /\ \A t \in Tasks \ {me} : pc'[t] = pc[t]
  BY <1>1, <1>2, <1>4, FreeStack DEF LifePoints
<1>11. rc[me] \in Nat /\ rc[me] = Count(me) /\ rc[me] = 3 /\ me \in kept
       /\ pc[me] = "exit" /\ ~Unlinked(me)
  BY <1>1, <1>2, <1>5, <1>6 DEF LifeRefs, Count
<1>12. rc' \in [Tasks -> Nat] /\ rc'[me] = 1 /\ \A t \in Tasks \ {me} : rc'[t] = rc[t]
  <2>1. rc' = [rc EXCEPT ![me] = IF @ < 2 THEN 0 ELSE @ - 2]
    BY <1>4 DEF release_refs
  <2>. QED BY <1>1, <1>11, <2>1
<1>13. Linking' = Linking /\ me \notin Linking /\ stack_free_stack \notin Linking
       /\ \A s \in Linking : pc'[s] = pc[s]
  <2>1. pc[stack_free_stack] \notin LinkPoints
    BY <1>1 DEF LifeBase, LinkPoints, Final
  <2>. QED BY <1>10, <1>11, <2>1 DEF Linking, LinkPoints
<1>14. Members' = Members
  BY <1>4, <1>11, <1>12, <1>13 DEF Members
<1>15. Live' = Live \ {me}
  BY <1>1, <1>10, <1>14 DEF Live
<1>16. \A t \in Live \ {me} : stack_pointer[t] = t
  <2>. SUFFICES ASSUME NEW t \in Live \ {me} PROVE stack_pointer[t] = t
    OBVIOUS
  <2>1. InRing(t) /\ t \in Tasks
    BY <1>1, RingIsLive
  <2>2. stack_pointer[t] # stack_free_stack
    BY <1>2, <1>5, <2>1 DEF Overwritten
  <2>. QED BY <1>1, <2>1, <2>2 DEF LifeBase
<1>17. LifeBase'
  <2>1. current_task' \in Live' /\ cpu' \in Live' \cup {stack_free_stack}
    BY <1>4, <1>9, <1>15
  <2>2. /\ stack_pointer' \in [Tasks -> Stacks]
        /\ \A t \in Tasks : stack_pointer'[t] \in {t, stack_free_stack}
        /\ \A t \in Tasks \ Members' : stack_pointer'[t] = t
    BY <1>1, <1>4, <1>14 DEF LifeBase
  <2>3. pc'[stack_free_stack] \in {"start"} \cup Final
    BY <1>10 DEF Final
  <2>4. \A s \in Stacks \ {stack_free_stack} : pc'[s] # "start" => s \in Members'
    BY <1>1, <1>2, <1>10, <1>14 DEF LifeBase
  <2>5. \A t \in Tasks : pc'[t] \notin Final
    BY <1>1, <1>10 DEF LifeBase, Final
  <2>6. freed' \subseteq {t \in Tasks : pc'[t] = "gone"}
    BY <1>1, <1>4, <1>10 DEF LifeBase
  <2>. QED BY <1>1, <1>4, <1>9, <1>10, <1>12, <2>1, <2>2, <2>3, <2>4, <2>5, <2>6
           DEF LifeBase
<1>18. LifeRing'
  <2>1. Idle \in Live' /\ pc'[Idle] # "exit"
    BY <1>1, <1>6, <1>10, <1>15, BootRing DEF LifeRing
  <2>2. \A x \in Live' : scheduling'.l_prev[scheduling'.l_next[x]] =
            IF pc'[x] = "link_next" THEN linking'[x] ELSE x
    <3>. SUFFICES ASSUME NEW x \in Live \ {me}
                  PROVE  scheduling'.l_prev[scheduling'.l_next[x]] =
                            IF pc[x] = "link_next" THEN linking[x] ELSE x
      <4>1. \A x \in Live \ {me} : pc'[x] = pc[x] /\ linking'[x] = linking[x]
        BY <1>4, <1>6, <1>10
      <4>. QED BY <1>15, <4>1
    <3>1. CASE x = p
      <4>1. pc[p] # "link_next"
        BY <1>1, <1>4, <1>7 DEF Successor
      <4>. QED BY <1>9, <3>1, <4>1
    <3>2. CASE x # p
      <4>1. /\ scheduling'.l_next[x] = scheduling.l_next[x]
            /\ scheduling.l_next[x] \in Live /\ scheduling.l_next[x] # me
        BY <1>6, <1>7, <1>9, <3>2 DEF Closed, OneToOne
      <4>2. scheduling.l_next[x] # to
        BY <1>3, <1>6 DEF OneToOne
      <4>3. scheduling'.l_prev[scheduling'.l_next[x]] =
                scheduling.l_prev[scheduling.l_next[x]]
        BY <1>6, <1>9, <4>1, <4>2
      <4>. QED BY <1>1, <4>3 DEF LifeRing
    <3>. QED BY <3>1, <3>2
  <2>. QED BY <1>9, <1>15, <2>1, <2>2 DEF LifeRing, Closed, OneToOne
<1>19. NewOK'
  <2>1. ASSUME NEW s \in Linking
        PROVE  /\ s \in Live \ {me} /\ s \in Tasks
               /\ linking[s] \in Tasks \ Members /\ linking[s] \notin {me, p, to}
    BY <1>1, <1>9, <1>2, <1>13, <2>1, InLinkTask DEF LifeOK
  <2>2. ASSUME NEW s \in Linking, pc[s] # "link"
        PROVE  scheduling'.l_next[s] = scheduling.l_next[s]
    <3>1. s \in Stacks /\ pc[s] \in {"link_prev", "link_next"}
      BY <2>2 DEF Linking
    <3>2. s # p
      BY <1>4, <1>7, <3>1 DEF Successor
    <3>. QED BY <1>9, <2>1, <3>2
  <2>3. \A u \in Tasks : rc'[u] = 0 => rc[u] = 0 /\ u \notin Members
    BY <1>11, <1>12 DEF Members
  <2>4. \A u \in Tasks \ Members : /\ scheduling'.l_next[u] = scheduling.l_next[u]
                                   /\ scheduling'.l_prev[u] = scheduling.l_prev[u]
    BY <1>1, <1>2, <1>9
  <2>5. \A s \in Linking : rc'[linking[s]] # 0
    BY <1>1, <1>12, <2>1 DEF NewOK
  <2>. QED BY <1>1, <1>4, <1>13, <2>1, <2>2, <2>3, <2>4, <2>5 DEF NewOK
<1>20. LifeFrames'
  <2>1. cpu' = stack_free_stack /\ switch_stack' = current_task'
        /\ pc'[stack_free_stack] \in Final
    BY <1>4, <1>9, <1>10, <1>16 DEF Final
  <2>2. \A t \in Live' : stack_pointer'[t] # stack_free_stack
    BY <1>4, <1>6, <1>15, <1>16, FreeStack
  <2>. QED BY <1>4, <1>10, <2>1, <2>2 DEF LifeFrames
<1>21. LifeRefs'
  <2>1. \A t \in Tasks : Unlinked(t)' = Unlinked(t)
    BY <1>4, <1>13 DEF Unlinked, Linking
  <2>2. Count(me)' = 1
    BY <1>4, <1>10, <1>11, <2>1 DEF Count
  <2>3. \A t \in Tasks \ {me} : Count(t)' = Count(t)
    BY <1>4, <1>10, <2>1 DEF Count
  <2>4. \A t \in Tasks \ {Idle} :
            \/ rc'[t] = 0 /\ pc'[t] = "start" /\ t \notin kept'
            \/ rc'[t] = Count(t)' /\ rc'[t] # 0
    BY <1>1, <1>4, <1>10, <1>12, <2>2, <2>3 DEF LifeRefs
  <2>5. rc'[Idle] = 1 /\ kept' \subseteq Tasks \ {Idle}
        /\ \A t \in kept' : ~Unlinked(t)'
    BY <1>1, <1>4, <1>6, <1>12, <2>1 DEF LifeRefs
  <2>. QED BY <2>4, <2>5 DEF LifeRefs
<1>. QED BY <1>17, <1>18, <1>19, <1>20, <1>21 DEF LifeOK

\* _sched_final_free runs on stack_free_stack, and will enter current_task.
LEMMA OnFreeStack ==
    ASSUME LifeOK, pc[cpu] \in Final
    PROVE  /\ cpu = stack_free_stack /\ switch_stack = current_task
           /\ free_stack \in Tasks /\ pc[free_stack] = "gone"
<1>1. cpu = stack_free_stack
  BY DEF LifeOK, LifeBase, Live, Members
<1>2. current_task # stack_free_stack
  BY FreeStack DEF LifeOK, LifeBase, Live, Members
<1>. QED BY <1>1, <1>2 DEF LifeOK, LifeFrames

LEMMA FinalFreeStep ==
    ASSUME LifeOK, final_free
    PROVE  LifeOK'
<1>1. LifeBase /\ LifeRing /\ NewOK /\ LifeFrames /\ LifeRefs
  BY DEF LifeOK
<1>2. pc[cpu] \in Final
  BY DEF final_free, At, Final
<1>3. cpu = stack_free_stack /\ free_stack \in Tasks /\ pc[free_stack] = "gone"
      /\ stack_free_stack \in Stacks
  BY <1>2, OnFreeStack, FreeStack
<1>4. /\ freed' = freed \cup {free_stack}
      /\ pc' = [pc EXCEPT ![stack_free_stack] = "final_enter"]
      /\ UNCHANGED <<current_task, cpu, stack_pointer, scheduling, rc, linking, kept,
                     free_stack, switch_stack>>
  BY <1>3 DEF final_free, Goto, frame_vars
<1>5. /\ pc' \in [Stacks -> LifePoints] /\ pc'[stack_free_stack] \in Final
      /\ pc[stack_free_stack] \in Final
      /\ \A s \in Stacks \ {stack_free_stack} : pc'[s] = pc[s]
      /\ \A t \in Tasks : pc'[t] = pc[t]
  BY <1>1, <1>2, <1>3, <1>4, FreeStack, StacksAssumption DEF LifeBase, LifePoints, Final
<1>6. \A s \in Stacks : \A q \in LinkPoints : pc'[s] = q <=> pc[s] = q
  BY <1>5 DEF LinkPoints, Final
<1>7. Linking' = Linking
  BY <1>6 DEF Linking, LinkPoints
<1>8. Members' = Members
  BY <1>4, <1>7 DEF Members
<1>9. Live' = Live
  BY <1>5, <1>8 DEF Live, Members
<1>10. LifeBase'
  BY <1>1, <1>3, <1>4, <1>5, <1>8, <1>9 DEF LifeBase
<1>11. LifeRing'
  <2>1. \A x \in Live : pc'[x] = pc[x]
    BY <1>5 DEF Live, Members
  <2>. QED BY <1>1, <1>4, <1>5, <1>9, <2>1, BootRing DEF LifeRing, OneRing
<1>12. NewOK'
  <2>1. \A s \in Linking : s \in Stacks /\ (pc'[s] = "link" <=> pc[s] = "link")
    BY <1>6 DEF Linking, LinkPoints
  <2>. QED BY <1>1, <1>4, <1>7, <2>1 DEF NewOK
<1>13. LifeFrames'
  BY <1>1, <1>3, <1>4, <1>5, <1>9 DEF LifeFrames
<1>14. LifeRefs'
  <2>1. \A t \in Tasks : Unlinked(t)' = Unlinked(t)
    BY <1>4, <1>6 DEF Unlinked, LinkPoints
  <2>2. \A t \in Tasks : Count(t)' = Count(t)
    BY <1>4, <1>5, <2>1 DEF Count
  <2>3. \A t \in Tasks \ {Idle} :
            \/ rc'[t] = 0 /\ pc'[t] = "start" /\ t \notin kept'
            \/ rc'[t] = Count(t)' /\ rc'[t] # 0
    BY <1>1, <1>4, <1>5, <2>2 DEF LifeRefs
  <2>4. \A t \in kept' : ~Unlinked(t)'
    BY <1>1, <1>4, <2>1 DEF LifeRefs
  <2>. QED BY <1>1, <1>4, <2>3, <2>4 DEF LifeRefs
<1>. QED BY <1>10, <1>11, <1>12, <1>13, <1>14 DEF LifeOK

\* A step that at most takes the processor to the current task's stack.
LEMMA EnterStep ==
    ASSUME LifeOK, cpu' \in {cpu, current_task},
           UNCHANGED <<current_task, stack_pointer, scheduling, rc, linking, pc,
                       exit_vars>>
    PROVE  LifeOK'
<1>1. LifeBase /\ LifeRing /\ NewOK /\ LifeFrames /\ LifeRefs
  BY DEF LifeOK
<1>2. Linking' = Linking
  BY DEF Linking
<1>3. Members' = Members
  BY <1>2 DEF Members
<1>4. Live' = Live
  BY <1>3 DEF Live
<1>5. LifeBase'
  BY <1>1, <1>3, <1>4 DEF LifeBase, exit_vars
<1>6. LifeRing' /\ LifeFrames'
  BY <1>1, <1>4 DEF LifeRing, LifeFrames, OneRing, exit_vars
<1>7. NewOK'
  BY <1>1, <1>2 DEF NewOK
<1>8. LifeRefs'
  <2>1. \A t \in Tasks : Unlinked(t)' = Unlinked(t) /\ Count(t)' = Count(t)
    BY DEF Count, Unlinked, exit_vars
  <2>2. \A t \in kept' : ~Unlinked(t)'
    BY <1>1, <2>1 DEF LifeRefs, exit_vars
  <2>. QED BY <1>1, <2>1, <2>2 DEF LifeRefs, exit_vars
<1>. QED BY <1>5, <1>6, <1>7, <1>8 DEF LifeOK

LEMMA FinalEnterStep ==
    ASSUME LifeOK, final_enter
    PROVE  LifeOK'
<1>1. pc[cpu] \in Final
  BY DEF final_enter, At, Final
<1>2. switch_stack = current_task
  BY <1>1, OnFreeStack
<1>. QED BY <1>2, EnterStep DEF final_enter

\* After a failed kassert no step changes anything.
LEMMA Stopped ==
    ASSUME panic # "no", LifeNext
    PROVE  UNCHANGED life_vars
<1>. USE DEF At
<1>1. ~take_ref /\ ~release /\ ~exit /\ ~exit_unlink /\ ~final_free /\ ~final_enter
      /\ ~lost
  BY DEF take_ref, release, exit, exit_unlink, final_free, final_enter, lost
<1>2. ~SchedNext
  BY DEF SchedNext, timeslice_passed, task_wrapper, scoped_preemptlock,
         scoped_preemptlock_end, allocate, link_node, link_prev, link_next
<1>3. ~lock /\ ~unlock
  BY DEF lock, unlock
<1>4. ~InCall
  BY DEF InCall, lock_check, lock_take, lock_taken, lock_block, lock_blocked, yield,
         lock_resumed, unlock_check, unlock_release, unlock_hand, unlock_released
<1>. QED BY <1>1, <1>2, <1>3, <1>4 DEF LifeNext, Next, MutexOps, Halt, life_vars, vars

LEMMA LifeStep ==
    ASSUME LifeInv, [LifeNext]_life_vars
    PROVE  LifeInv'
<1>. SUFFICES ASSUME panic' = "no", ~torn'
              PROVE  LifeOK'
  BY DEF LifeInv
<1>1. CASE UNCHANGED life_vars
  <2>1. LifeOK /\ UNCHANGED <<current_task, cpu, stack_pointer, scheduling, pc, rc,
                              linking, exit_vars>>
    BY <1>1 DEF LifeInv, life_vars, vars, sched_vars, exit_vars
  <2>. QED BY <2>1, EnterStep
<1>2. CASE LifeNext /\ ~UNCHANGED life_vars
  <2>1. panic = "no"
    BY <1>2, Stopped
  <2>2. ~torn
    BY <1>2 DEF LifeNext, exit_vars, take_ref, release, exit, exit_unlink,
                final_free, final_enter, lost, life_vars
  <2>3. LifeOK
    BY <2>1, <2>2 DEF LifeInv
  <2>4. ~lost
    BY <1>2 DEF lost
  <2>. QED BY <1>2, <2>1, <2>3, <2>4, LifeNextStep, TakeRefStep, ReleaseStep, ExitStep,
              ExitUnlinkStep, FinalFreeStep, FinalEnterStep DEF LifeNext
<1>. QED BY <1>1, <1>2

----------------------------------------------------------------------------
(***************************************************************************)
(* The theorems.                                                           *)
(***************************************************************************)

\* Whatever exits and link_task calls fall between one another, until an exit
\* takes away the successor that a link_task has read: the tasks that have not
\* exited are one ring, the processor is on the stack of one of them or
\* finishes an exit, and the references add up.
THEOREM LifecycleInv == LifeSpec => []LifeInv
<1>1. LifeInit => LifeInv
  BY LifeInitInv
<1>2. LifeInv /\ [LifeNext]_life_vars => LifeInv'
  BY LifeStep
<1>. QED BY <1>1, <1>2, PTL DEF LifeSpec

\* task::rc is what the scheduler's reference, the running's and other
\* holders' add up to, through link_task and any number of exits, until one
\* tears the ring.
THEOREM RefsAlwaysAddUp == LifeSpec => []RefsAddUp
<1>1. LifeInv => RefsAddUp
  <2>. SUFFICES ASSUME LifeInv, NEW t \in Tasks \ {Idle}, panic = "no", ~torn
                PROVE  \/ rc[t] = 0 /\ pc[t] = "start" /\ t \notin kept
                       \/ rc[t] = Count(t)
    BY DEF RefsAddUp, Count, Unlinked
  <2>. QED BY DEF LifeInv, LifeOK, LifeRefs
<1>. QED BY <1>1, LifecycleInv, PTL

\* A stack given to kmem_free_4k is not the one the processor is on, nor one
\* that a task in the ring resumes on, until an exit tears the ring.
THEOREM FreedStacksUnused == LifeSpec => []FreedStackUnused
<1>1. LifeInv => FreedStackUnused
  <2>. SUFFICES ASSUME LifeInv, panic = "no", ~torn
                PROVE  /\ cpu \notin freed
                       /\ \A t \in Tasks : InRing(t) => stack_pointer[t] \notin freed
    BY DEF FreedStackUnused
  <2>1. LifeBase /\ LifeRing /\ freed \subseteq {t \in Tasks : pc[t] = "gone"}
    BY DEF LifeInv, LifeOK, LifeBase
  <2>2. stack_free_stack \notin freed /\ \A t \in Live : t \notin freed
    BY <2>1, FreeStack DEF Live
  <2>3. cpu \notin freed
    BY <2>1, <2>2 DEF LifeBase
  <2>4. ASSUME NEW t \in Tasks, InRing(t) PROVE stack_pointer[t] \notin freed
    <3>1. t \in Live
      BY <2>1, <2>4, RingIsLive
    <3>2. stack_pointer[t] \in {t, stack_free_stack}
      BY <2>1 DEF LifeBase
    <3>. QED BY <2>2, <3>1, <3>2
  <2>. QED BY <2>3, <2>4
<1>. QED BY <1>1, LifecycleInv, PTL

\* However many tasks exit next to link_task calls in progress, a linked task
\* that has not exited is in the ring that pick_next_task walks, unless one of
\* the exits took away the successor that a link_task had read.
THEOREM LinkedTasksStay == LifeSpec => []LinkedUntilTorn
<1>1. LifeInv => LinkedUntilTorn
  <2>. SUFFICES ASSUME LifeInv, ~torn, panic = "no", NEW t \in Tasks, Alive(t)
                PROVE  InRing(t)
    BY DEF LinkedUntilTorn, LinkedStaysLinked
  <2>1. LifeBase /\ LifeRing
    BY DEF LifeInv, LifeOK
  <2>2. CASE t = Idle
    BY <2>1, <2>2, RingIsLive DEF LifeRing
  <2>3. CASE t # Idle
    <3>1. rc[t] \in Nat /\ rc[t] >= 2 /\ pc[t] # "gone"
          /\ \A s \in Linking : linking[s] # t
      BY <2>1, <2>3 DEF Alive, LifeBase
    <3>2. t \in Live
      BY <3>1 DEF Live, Members
    <3>. QED BY <2>1, <3>2, RingIsLive
  <2>. QED BY <2>2, <2>3
<1>. QED BY <1>1, LifecycleInv, PTL
=============================================================================
