--------------------------- MODULE SchedulerProofs ---------------------------
(***************************************************************************)
(* Proofs about the scheduler: switches keep the accounts, and the ring    *)
(* stays a ring whatever tick lands between the stores of link_task.       *)
(***************************************************************************)
EXTENDS Scheduler, ListProofs

\* A task that has been allocated and is not on its way into the ring: the
\* tasks that must be in the ring.
Members == {t \in Tasks : rc[t] # 0 /\ \A s \in Linking : linking[s] # t}

\* No part of the members is a ring of its own.
OneRing(l, C) ==
    \A Z \in SUBSET C : Z # {} /\ (\A x \in Z : l.l_next[x] \in Z) => Z = C

\* The forward pointers of the members form one ring.
RingOK ==
    /\ \A x \in Members : scheduling.l_next[x] \in Members
    /\ \A x, y \in Members :
            scheduling.l_next[x] = scheduling.l_next[y] => x = y
    /\ OneRing(scheduling, Members)

\* The backward pointers agree, but for a member between its two last stores.
BackOK ==
    \A x \in Members : scheduling.l_prev[scheduling.l_next[x]] =
        IF pc[x] = "link_next" THEN linking[x] ELSE x

\* A new node is touched by its creator alone, which writes the pointers of
\* the place it will have; before that a node points at itself.
NewOK ==
    /\ \A s \in Linking : rc[linking[s]] # 0
    /\ \A s, u \in Linking : linking[s] = linking[u] => s = u
    /\ \A s \in Linking : pc[s] # "link" =>
            /\ scheduling.l_next[linking[s]] = scheduling.l_next[s]
            /\ scheduling.l_prev[linking[s]] = s
    /\ \A s \in Linking : pc[s] = "link" =>
            /\ scheduling.l_next[linking[s]] = linking[s]
            /\ scheduling.l_prev[linking[s]] = linking[s]
    /\ \A t \in Tasks : rc[t] = 0 =>
            scheduling.l_next[t] = t /\ scheduling.l_prev[t] = t

\* Only members have begun to run.
StartedOK ==
    /\ cpu \in Members
    /\ \A s \in Stacks : pc[s] # "start" => s \in Members

RingInv ==
    /\ SchedTypeOK(SchedPoints)
    /\ SwitchConsistent
    /\ RingOK
    /\ BackOK
    /\ NewOK
    /\ StartedOK

----------------------------------------------------------------------------
\* Along the boot sequence each task's next is the one after it, and the last
\* one's the first.
LEMMA RingAt ==
    ASSUME NEW i \in 1 .. Len(Boot)
    PROVE  /\ Ring(Boot).l_next[Boot[i]] =
                    Boot[IF i = Len(Boot) THEN 1 ELSE i + 1]
           /\ Ring(Boot).l_prev[Boot[i]] =
                    Boot[IF i = 1 THEN Len(Boot) ELSE i - 1]
<1>. DEFINE at(t) == CHOOSE k \in DOMAIN Boot : Boot[k] = t
            n == Len(Boot)
<1>1. /\ Boot \in Seq(Tasks) /\ n \in Nat \ {0} /\ DOMAIN Boot = 1 .. n
      /\ \A j, k \in DOMAIN Boot : Boot[j] = Boot[k] => j = k
  BY BootAssumption
<1>2. at(Boot[i]) = i /\ Boot[i] \in Booted /\ Boot[i] \in Tasks
  BY <1>1 DEF Booted
<1>3. /\ Ring(Boot).l_next[Boot[i]] = Boot[(at(Boot[i]) % n) + 1]
      /\ Ring(Boot).l_prev[Boot[i]] =
            Boot[IF at(Boot[i]) = 1 THEN n ELSE at(Boot[i]) - 1]
  BY <1>2 DEF Ring
<1>4. i % n = IF i = n THEN 0 ELSE i
  <2>1. \A d \in Nat : d > 0 => d % d = 0
    OBVIOUS
  <2>2. \A d, k \in Nat : d > 0 /\ k < d => k % d = k
    OBVIOUS
  <2>. HIDE DEF n
  <2>3. i \in Nat /\ n \in Nat /\ n > 0 /\ i <= n
    BY <1>1 DEF n
  <2>4. CASE i = n
    BY <2>1, <2>3, <2>4
  <2>5. CASE i < n
    BY <2>2, <2>3, <2>5
  <2>. QED BY <2>3, <2>4, <2>5
<1>. HIDE DEF at, n
<1>5. (i % n) + 1 = IF i = n THEN 1 ELSE i + 1
  BY <1>4
<1>. QED BY <1>2, <1>3, <1>5 DEF n

\* The ring that the boot code leaves is one ring of the booted tasks, with
\* both directions right; the other nodes point at themselves.
LEMMA BootRing ==
    /\ Ring(Boot) \in Heap(Tasks)
    /\ Booted \subseteq Tasks /\ Idle \in Booted
    /\ \A x \in Booted : /\ Ring(Boot).l_next[x] \in Booted
                         /\ Ring(Boot).l_prev[Ring(Boot).l_next[x]] = x
    /\ OneRing(Ring(Boot), Booted)
    /\ \A t \in Tasks \ Booted :
            Ring(Boot).l_next[t] = t /\ Ring(Boot).l_prev[t] = t
<1>. DEFINE n == Len(Boot)
            R == Ring(Boot)
<1>1. /\ Boot \in Seq(Tasks) /\ n \in Nat \ {0} /\ DOMAIN Boot = 1 .. n
      /\ \A j, k \in DOMAIN Boot : Boot[j] = Boot[k] => j = k
  BY BootAssumption
<1>2. /\ Booted \subseteq Tasks /\ Idle \in Booted
      /\ \A t \in Booted : \E i \in 1 .. n : t = Boot[i]
      /\ \A i \in 1 .. n : Boot[i] \in Booted
  BY <1>1 DEF Booted, Idle
<1>3. \A t \in Tasks \ Booted : R.l_next[t] = t /\ R.l_prev[t] = t
  BY DEF Ring
<1>4. /\ DOMAIN R.l_next = Tasks /\ DOMAIN R.l_prev = Tasks
      /\ R = [l_next |-> R.l_next, l_prev |-> R.l_prev]
      /\ R.l_next = [t \in Tasks |-> R.l_next[t]]
      /\ R.l_prev = [t \in Tasks |-> R.l_prev[t]]
  BY DEF Ring
<1>. HIDE DEF n, R
<1>5. ASSUME NEW i \in 1 .. n
      PROVE  /\ R.l_next[Boot[i]] = Boot[IF i = n THEN 1 ELSE i + 1]
             /\ R.l_prev[Boot[i]] = Boot[IF i = 1 THEN n ELSE i - 1]
  BY <1>5, RingAt DEF n, R
<1>6. ASSUME NEW x \in Booted
      PROVE  /\ R.l_next[x] \in Booted /\ R.l_prev[x] \in Booted
             /\ R.l_prev[R.l_next[x]] = x
  <2>1. PICK i \in 1 .. n : x = Boot[i]
    BY <1>2
  <2>2. CASE i = n
    BY <1>1, <1>2, <1>5, <2>1, <2>2
  <2>3. CASE i # n
    <3>1. i + 1 \in 1 .. n /\ i + 1 # 1 /\ (i + 1) - 1 = i
      BY <1>1, <2>3
    <3>2. R.l_next[x] = Boot[i + 1] /\ R.l_prev[Boot[i + 1]] = Boot[i]
      BY <1>5, <2>1, <2>3, <3>1
    <3>3. (IF i = 1 THEN n ELSE i - 1) \in 1 .. n
      BY <1>1
    <3>4. R.l_prev[x] \in Booted
      BY <1>2, <1>5, <2>1, <3>3
    <3>. QED BY <1>2, <2>1, <3>1, <3>2, <3>4
  <2>. QED BY <2>2, <2>3
<1>7. R \in Heap(Tasks)
  BY <1>2, <1>3, <1>4, <1>6 DEF Heap
<1>8. OneRing(R, Booted)
  <2>. SUFFICES ASSUME NEW Z \in SUBSET Booted, Z # {},
                       \A x \in Z : R.l_next[x] \in Z
                PROVE  Z = Booted
    BY DEF OneRing
  <2>1. PICK i \in 1 .. n : Boot[i] \in Z
    BY <1>2
  <2>2. ASSUME NEW j \in 1 .. n, Boot[j] \in Z
        PROVE  \A k \in j .. n : Boot[k] \in Z
    <3>. DEFINE T == {k \in Nat : j + k <= n => Boot[j + k] \in Z}
    <3>1. 0 \in T
      BY <1>1, <2>2
    <3>2. ASSUME NEW k \in T PROVE k + 1 \in T
      <4>. SUFFICES ASSUME j + (k + 1) <= n PROVE Boot[j + (k + 1)] \in Z
        BY <1>1
      <4>1. /\ j + k \in 1 .. n /\ j + k # n /\ j + k <= n
            /\ (j + k) + 1 = j + (k + 1)
        BY <1>1
      <4>2. R.l_next[Boot[j + k]] = Boot[j + (k + 1)]
        BY <1>5, <4>1
      <4>3. Boot[j + k] \in Z
        BY <4>1
      <4>. QED BY <4>2, <4>3
    <3>. HIDE DEF T
    <3>3. \A k \in Nat : k \in T
      BY <3>1, <3>2, NatInd DEF T
    <3>4. ASSUME NEW k \in j .. n PROVE Boot[k] \in Z
      <4>1. k - j \in Nat /\ j + (k - j) = k /\ k <= n
        BY <1>1
      <4>2. k - j \in T
        BY <3>3, <4>1
      <4>. QED BY <4>1, <4>2 DEF T
    <3>. QED BY <3>4
  <2>3. Boot[1] \in Z
    <3>1. n \in i .. n /\ n \in 1 .. n
      BY <1>1
    <3>2. Boot[n] \in Z
      BY <2>1, <2>2, <3>1
    <3>3. R.l_next[Boot[n]] = Boot[1]
      BY <1>5, <3>1
    <3>. QED BY <3>2, <3>3
  <2>4. \A k \in 1 .. n : Boot[k] \in Z
    BY <1>1, <2>2, <2>3
  <2>. QED BY <1>2, <2>4
<1>. QED BY <1>2, <1>3, <1>6, <1>7, <1>8 DEF R

\* The boot state satisfies the invariant.
LEMMA RingInit == SchedInit => RingInv
<1>. SUFFICES ASSUME SchedInit PROVE RingInv
  OBVIOUS
<1>. USE DEF SchedInit
<1>1. Linking = {} /\ Members = Booted
  BY BootRing DEF Linking, Members
<1>2. Fresh(Nodes) \in Heap(Nodes)
  BY DEF Fresh, Heap
<1>3. SchedTypeOK(SchedPoints)
  <2>1. Idle \in Tasks /\ Idle \in Stacks /\ Ring(Boot) \in Heap(Tasks)
    BY BootRing, StacksAssumption
  <2>2. /\ stack_pointer \in [Tasks -> Stacks]
        /\ saved_intr \in [Stacks -> BOOLEAN]
        /\ linking \in [Stacks -> Tasks]
    BY <2>1, StacksAssumption
  <2>3. nest \in [Stacks -> 0 .. MaxNest] /\ rc \in [Tasks -> Nat]
    BY MaxNestAssumption
  <2>4. pc \in [Stacks -> SchedPoints] /\ panic \in Panics
    BY DEF SchedPoints, Panics
  <2>. QED BY <1>2, <2>1, <2>2, <2>3, <2>4 DEF SchedTypeOK
<1>4. SwitchConsistent
  BY BootRing, StacksAssumption DEF SwitchConsistent
<1>5. RingOK
  BY <1>1, BootRing DEF RingOK
<1>6. BackOK
  BY <1>1, BootRing, StacksAssumption DEF BackOK
<1>7. NewOK
  BY <1>1, BootRing DEF NewOK
<1>8. StartedOK
  BY <1>1, BootRing DEF StartedOK
<1>. QED BY <1>3, <1>4, <1>5, <1>6, <1>7, <1>8 DEF RingInv

----------------------------------------------------------------------------
\* What pick_next_task walks is the members, all of them.
LEMMA RingWalk ==
    ASSUME SchedTypeOK(SchedPoints), RingOK, NEW t \in Members
    PROVE  LET a == After(scheduling, Tasks, t) IN
           /\ a \in Seq(Members)
           /\ Len(a) < Cardinality(Tasks)
           /\ {t} \cup {a[k] : k \in DOMAIN a} = Members
<1>. DEFINE a == After(scheduling, Tasks, t)
<1>1. /\ Members \in SUBSET Tasks /\ scheduling.l_next \in [Tasks -> Tasks]
      /\ IsFiniteSet(Tasks)
  BY FiniteAssumption DEF Members, SchedTypeOK, Heap
<1>2. /\ \A x \in Members : scheduling.l_next[x] \in Members
      /\ \A x, y \in Members :
            scheduling.l_next[x] = scheduling.l_next[y] => x = y
  BY DEF RingOK
<1>3. /\ a \in Seq(Members) /\ Len(a) < Cardinality(Tasks)
      /\ IsWalk(scheduling, a, t)
  BY <1>1, <1>2, AfterIsWalk
<1>. HIDE DEF a
<1>4. {t} \cup {a[k] : k \in DOMAIN a} = Members
  <2>. DEFINE Z == {t} \cup {a[k] : k \in DOMAIN a}
  <2>1. Z \in SUBSET Members /\ Z # {}
    BY <1>3
  <2>2. \A x \in Z : scheduling.l_next[x] \in Z
    BY <1>3, WalkClosed
  <2>. HIDE DEF Z
  <2>3. Z = Members
    BY <2>1, <2>2 DEF RingOK, OneRing
  <2>. QED BY <2>3 DEF Z
<1>. QED BY <1>3, <1>4 DEF a

\* The invariant gives what the run checks.
LEMMA RingSafe == RingInv => RingIntact
<1>. SUFFICES ASSUME RingInv PROVE RingIntact
  OBVIOUS
<1>1. SchedTypeOK(SchedPoints) /\ RingOK /\ current_task \in Members
  BY DEF RingInv, SwitchConsistent, StartedOK
<1>. DEFINE a == After(scheduling, Tasks, current_task)
<1>2. /\ Len(a) < Cardinality(Tasks)
      /\ {current_task} \cup {a[k] : k \in DOMAIN a} = Members
  BY <1>1, RingWalk
<1>3. ASSUME NEW t \in Members PROVE InRing(t)
  BY <1>2 DEF InRing
<1>4. \A t \in Tasks : \/ InRing(t)
                       \/ rc[t] = 0
                       \/ \E s \in Linking : linking[s] = t
  BY <1>3 DEF Members
<1>5. ASSUME Linking = {} PROVE Linked(scheduling, Tasks)
  <2>. DEFINE nx == scheduling.l_next
              pv == scheduling.l_prev
  <2>1. Members = {t \in Tasks : rc[t] # 0}
    BY <1>5 DEF Members
  <2>2. \A x \in Members : nx[x] \in Members /\ pv[nx[x]] = x
    <3>1. \A x \in Members : pc[x] # "link_next"
      BY <1>5, StacksAssumption DEF Linking, Members
    <3>. QED BY <3>1 DEF RingInv, RingOK, BackOK
  <2>3. \A y \in Members : \E x \in Members : y = nx[x]
    <3>. DEFINE Z == {nx[x] : x \in Members}
    <3>1. Z \in SUBSET Members /\ Z # {} /\ \A x \in Z : nx[x] \in Z
      BY <1>1, <2>2
    <3>2. Z = Members
      BY <1>1, <3>1 DEF RingOK, OneRing
    <3>. QED BY <3>2
  <2>4. \A y \in Members : nx[pv[y]] = y
    BY <2>2, <2>3
  <2>5. \A t \in Tasks : rc[t] = 0 => nx[t] = t /\ pv[t] = t
    BY DEF RingInv, NewOK
  <2>. QED BY <2>1, <2>2, <2>4, <2>5 DEF Linked
<1>. QED BY <1>2, <1>4, <1>5 DEF RingIntact

----------------------------------------------------------------------------
\* A tick: the processor goes to a member of the ring.
LEMMA TickRing == ASSUME RingInv, timeslice_passed PROVE RingInv'
<1>. USE DEF timeslice_passed
<1>1. /\ SchedTypeOK(SchedPoints) /\ SwitchConsistent /\ RingOK
      /\ current_task = cpu /\ cpu \in Members /\ Members \subseteq Tasks
  BY DEF RingInv, SwitchConsistent, StartedOK, Members
<1>2. UNCHANGED <<Linking, Members>>
  BY DEF Linking, Members
<1>3. stack_pointer' = stack_pointer
  BY <1>1 DEF SwitchFrom, SchedTypeOK, SwitchConsistent
<1>4. saved_intr' \in [Stacks -> BOOLEAN]
  BY <1>1 DEF SwitchFrom, SchedTypeOK
<1>5. PICK n \in Tasks : /\ pick_next_task(n)
                         /\ current_task' = n
                         /\ cpu' = stack_pointer'[n]
                         /\ intr' = saved_intr'[cpu']
  BY DEF SwitchFrom
<1>6. n \in Members
  <2>. DEFINE a == After(scheduling, Tasks, current_task)
  <2>1. a \in Seq(Members)
    BY <1>1, RingWalk
  <2>2. \E k \in DOMAIN Append(a, current_task) : Append(a, current_task)[k] = n
    BY <1>5 DEF pick_next_task
  <2>. HIDE DEF a
  <2>3. Append(a, current_task) \in Seq(Members)
    BY <1>1, <2>1
  <2>. QED BY <2>2, <2>3
<1>7. cpu' = n /\ cpu' \in Stacks
  BY <1>1, <1>3, <1>5, StacksAssumption DEF SwitchConsistent
<1>8. SchedTypeOK(SchedPoints)'
  BY <1>1, <1>3, <1>4, <1>5, <1>7 DEF SchedTypeOK
<1>9. SwitchConsistent'
  <2>1. nest[cpu] = 0
    BY <1>1 DEF SwitchConsistent
  <2>. QED BY <1>1, <1>3, <1>5, <1>7, <2>1 DEF SwitchConsistent
<1>10. RingOK' /\ BackOK' /\ NewOK'
  BY <1>2 DEF RingInv, RingOK, BackOK, NewOK, OneRing
<1>11. StartedOK'
  BY <1>2, <1>6, <1>7 DEF RingInv, StartedOK
<1>. QED BY <1>8, <1>9, <1>10, <1>11 DEF RingInv

\* Steps that leave the ring and the link_task calls alone.
LEMMA OtherRing ==
    ASSUME RingInv, task_wrapper \/ scoped_preemptlock \/ scoped_preemptlock_end
    PROVE  RingInv'
<1>1. /\ SchedTypeOK(SchedPoints) /\ SwitchConsistent /\ RingOK
      /\ current_task = cpu /\ cpu \in Members /\ cpu \in Stacks
      /\ Members \subseteq Tasks
  BY DEF RingInv, SwitchConsistent, StartedOK, Members, SchedTypeOK
<1>2. /\ UNCHANGED <<current_task, cpu, stack_pointer, scheduling, blocking,
                     rc, linking, saved_intr>>
      /\ \A s \in Stacks : pc'[s] = pc[s] \/ (s = cpu /\ pc[s] = "start" /\ pc'[s] = "run")
  BY <1>1 DEF task_wrapper, scoped_preemptlock, scoped_preemptlock_end, At, Goto,
     frame_vars, SchedTypeOK
<1>3. Linking' = Linking
  BY <1>2 DEF Linking
<1>4. Members' = Members
  BY <1>2, <1>3 DEF Members
<1>5. SchedTypeOK(SchedPoints)' /\ SwitchConsistent'
  <2>1. CASE task_wrapper
    BY <1>1, <2>1 DEF SchedTypeOK, SwitchConsistent, SchedPoints, task_wrapper,
       At, Goto
  <2>2. CASE scoped_preemptlock
    BY <1>1, <2>2, MaxNestAssumption DEF SchedTypeOK, SwitchConsistent,
       scoped_preemptlock, At, preempt_up, frame_vars
  <2>3. CASE scoped_preemptlock_end
    <3>1. preempt_counter # 0 /\ nest[cpu] \in Nat /\ preempt_counter \in Nat
      BY <1>1, <2>3, MaxNestAssumption
         DEF SwitchConsistent, scoped_preemptlock_end, SchedTypeOK
    <3>2. preempt_counter' = preempt_counter - 1 /\ panic' = panic
      BY <2>3, <3>1 DEF scoped_preemptlock_end, preempt_down
    <3>. QED BY <1>1, <2>3, <3>1, <3>2, MaxNestAssumption
             DEF SchedTypeOK, SwitchConsistent, scoped_preemptlock_end, frame_vars
  <2>. QED BY <2>1, <2>2, <2>3
<1>6. RingOK' /\ NewOK'
  BY <1>2, <1>3, <1>4 DEF RingInv, RingOK, NewOK, OneRing, Linking
<1>7. BackOK'
  <2>1. \A x \in Members : pc'[x] = "link_next" <=> pc[x] = "link_next"
    BY <1>1, <1>2, StacksAssumption
  <2>. QED BY <1>2, <1>4, <2>1 DEF RingInv, BackOK
<1>8. StartedOK'
  BY <1>1, <1>2, <1>4 DEF RingInv, StartedOK
<1>. QED BY <1>5, <1>6, <1>7, <1>8 DEF RingInv

\* allocate: a new task that is in nobody's way.
LEMMA AllocateRing == ASSUME RingInv, allocate PROVE RingInv'
<1>. USE DEF allocate, At, Goto, frame_vars
<1>1. /\ SchedTypeOK(SchedPoints) /\ SwitchConsistent /\ RingOK /\ NewOK
      /\ current_task = cpu /\ cpu \in Members /\ cpu \in Stacks
      /\ Members \subseteq Tasks /\ pc \in [Stacks -> SchedPoints]
      /\ linking \in [Stacks -> Tasks] /\ rc \in [Tasks -> Nat]
  BY DEF RingInv, SwitchConsistent, StartedOK, Members, SchedTypeOK
<1>2. PICK t \in Tasks : /\ rc[t] = 0 /\ rc' = [rc EXCEPT ![t] = 1]
                         /\ linking' = [linking EXCEPT ![cpu] = t]
  OBVIOUS
<1>3. Linking' = Linking \cup {cpu} /\ cpu \notin Linking /\ pc'[cpu] = "link"
  BY <1>1 DEF Linking
<1>4. t \notin Members /\ t # cpu /\ \A s \in Linking : linking[s] # t
  BY <1>1, <1>2 DEF Members, NewOK
<1>5. Members' = Members
  BY <1>1, <1>2, <1>3, <1>4 DEF Members
<1>6. SchedTypeOK(SchedPoints)' /\ SwitchConsistent'
  BY <1>1, <1>2 DEF SchedTypeOK, SwitchConsistent, SchedPoints
<1>7. RingOK'
  BY <1>5 DEF RingInv, RingOK, OneRing
<1>8. BackOK'
  BY <1>1, <1>2, <1>5, StacksAssumption DEF RingInv, BackOK
<1>9. NewOK'
  <2>1. \A s \in Linking : s # cpu /\ linking'[s] = linking[s] /\ pc'[s] = pc[s]
    BY <1>1, <1>2, <1>3 DEF Linking
  <2>2. linking'[cpu] = t /\ rc'[t] = 1 /\ \A u \in Tasks : u # t => rc'[u] = rc[u]
    BY <1>1, <1>2
  <2>3. scheduling.l_next[t] = t /\ scheduling.l_prev[t] = t /\ scheduling' = scheduling
    BY <1>1, <1>2 DEF NewOK
  <2>4. \A s \in Linking : linking[s] \in Tasks
    BY <1>1 DEF Linking
  <2>. QED BY <1>1, <1>3, <1>4, <2>1, <2>2, <2>3, <2>4 DEF NewOK
<1>10. StartedOK'
  BY <1>1, <1>5 DEF RingInv, StartedOK
<1>. QED BY <1>6, <1>7, <1>8, <1>9, <1>10 DEF RingInv

\* What the invariant says of a task inside link_task.
LEMMA InLink ==
    ASSUME RingInv, NEW s \in Linking
    PROVE  /\ s \in Members /\ s \in Tasks /\ s \in Stacks
           /\ linking[s] \in Tasks \ Members /\ rc[linking[s]] # 0
           /\ scheduling.l_next[s] \in Members
  BY DEF RingInv, SchedTypeOK, StartedOK, Members, NewOK, Linking, RingOK

\* link_node: the new node gets its pointers; nobody can see them yet.
LEMMA LinkNodeRing == ASSUME RingInv, link_node PROVE RingInv'
<1>. USE DEF link_node, At, Goto, frame_vars
<1>. DEFINE t == linking[cpu]
<1>1. /\ SchedTypeOK(SchedPoints) /\ SwitchConsistent /\ RingOK /\ NewOK
      /\ current_task = cpu /\ cpu \in Members /\ cpu \in Stacks
      /\ Members \subseteq Tasks /\ pc \in [Stacks -> SchedPoints]
      /\ linking \in [Stacks -> Tasks] /\ rc \in [Tasks -> Nat]
      /\ scheduling \in Heap(Tasks)
      /\ scheduling.l_next \in [Tasks -> Tasks]
      /\ scheduling.l_prev \in [Tasks -> Tasks]
  BY DEF RingInv, SwitchConsistent, StartedOK, Members, SchedTypeOK, Heap
<1>2. cpu \in Linking /\ t \in Tasks \ Members /\ rc[t] # 0
      /\ scheduling.l_next[cpu] \in Members
  BY <1>1, InLink DEF Linking
<1>3. /\ Linking' = Linking
      /\ \A s \in Linking : s # cpu => pc'[s] = pc[s] /\ linking[s] # t
  BY <1>1, <1>2 DEF Linking, NewOK
<1>4. /\ scheduling'.l_next[t] = scheduling.l_next[cpu]
      /\ scheduling'.l_prev[t] = cpu
      /\ \A x \in Tasks : x # t =>
            /\ scheduling'.l_next[x] = scheduling.l_next[x]
            /\ scheduling'.l_prev[x] = scheduling.l_prev[x]
      /\ rc'[t] # 0 /\ \A x \in Tasks : x # t => rc'[x] = rc[x]
      /\ scheduling' \in Heap(Tasks)
      /\ rc' \in [Tasks -> Nat]
      /\ linking' = linking /\ cpu' = cpu /\ pc'[cpu] = "link_prev"
  BY <1>1, <1>2 DEF Heap
<1>5. Members' = Members
  BY <1>1, <1>2, <1>3, <1>4 DEF Members
<1>6. SchedTypeOK(SchedPoints)' /\ SwitchConsistent'
  BY <1>1, <1>4 DEF SchedTypeOK, SwitchConsistent, SchedPoints
<1>7. RingOK'
  BY <1>1, <1>2, <1>4, <1>5 DEF RingOK, OneRing
<1>8. BackOK'
  <2>1. \A x \in Members : x # t /\ scheduling.l_next[x] \in Members
    BY <1>1, <1>2 DEF RingOK
  <2>2. \A x \in Members : pc'[x] = "link_next" <=> pc[x] = "link_next"
    BY <1>1, <1>2, StacksAssumption
  <2>. QED BY <1>1, <1>2, <1>4, <1>5, <2>1, <2>2 DEF RingInv, BackOK
<1>9. NewOK'
  <2>1. \A s \in Linking : s \in Tasks /\ s # t /\ linking[s] \in Tasks
    BY <1>1, <1>2, InLink
  <2>. QED BY <1>1, <1>2, <1>3, <1>4, <2>1 DEF NewOK
<1>10. StartedOK'
  BY <1>1, <1>5 DEF RingInv, StartedOK
<1>. QED BY <1>6, <1>7, <1>8, <1>9, <1>10 DEF RingInv

\* link_prev: the node behind learns of the new node.
LEMMA LinkPrevRing == ASSUME RingInv, link_prev PROVE RingInv'
<1>. USE DEF link_prev, At, Goto, frame_vars
<1>. DEFINE t == linking[cpu]
            nxt == scheduling.l_next[cpu]
<1>1. /\ SchedTypeOK(SchedPoints) /\ SwitchConsistent /\ RingOK /\ NewOK
      /\ current_task = cpu /\ cpu \in Members /\ cpu \in Stacks
      /\ Members \subseteq Tasks /\ pc \in [Stacks -> SchedPoints]
      /\ linking \in [Stacks -> Tasks] /\ rc \in [Tasks -> Nat]
      /\ scheduling \in Heap(Tasks)
      /\ scheduling.l_next \in [Tasks -> Tasks]
      /\ scheduling.l_prev \in [Tasks -> Tasks]
  BY DEF RingInv, SwitchConsistent, StartedOK, Members, SchedTypeOK, Heap
<1>2. cpu \in Linking /\ t \in Tasks \ Members /\ rc[t] # 0 /\ nxt \in Members
  BY <1>1, InLink DEF Linking
<1>3. /\ Linking' = Linking /\ Members' = Members
      /\ \A s \in Stacks : s # cpu => pc'[s] = pc[s]
      /\ pc'[cpu] = "link_next"
  BY <1>1, <1>2 DEF Linking, Members
<1>4. /\ scheduling'.l_next = scheduling.l_next
      /\ scheduling'.l_prev[nxt] = t
      /\ \A x \in Tasks : x # nxt => scheduling'.l_prev[x] = scheduling.l_prev[x]
      /\ scheduling' \in Heap(Tasks)
      /\ linking' = linking /\ cpu' = cpu /\ rc' = rc
  BY <1>1, <1>2 DEF Heap
<1>6. SchedTypeOK(SchedPoints)' /\ SwitchConsistent'
  BY <1>1, <1>4 DEF SchedTypeOK, SwitchConsistent, SchedPoints
<1>7. RingOK'
  BY <1>1, <1>3, <1>4 DEF RingOK, OneRing
<1>8. BackOK'
  <2>1. \A x \in Members : /\ x \in Stacks
                           /\ scheduling.l_next[x] \in Members
                           /\ scheduling.l_next[x] = nxt => x = cpu
    BY <1>1, StacksAssumption DEF RingOK
  <2>. QED BY <1>1, <1>2, <1>3, <1>4, <2>1 DEF RingInv, BackOK
<1>9. NewOK'
  <2>1. \A s \in Linking : /\ s \in Stacks /\ linking[s] # nxt
                           /\ linking[s] \in Tasks
    BY <1>2, InLink
  <2>2. \A u \in Tasks : rc[u] = 0 => u # nxt
    BY <1>2 DEF Members
  <2>. QED BY <1>1, <1>2, <1>3, <1>4, <2>1, <2>2 DEF NewOK
<1>10. StartedOK'
  BY <1>1, <1>3 DEF RingInv, StartedOK
<1>. QED BY <1>6, <1>7, <1>8, <1>9, <1>10 DEF RingInv

\* link_next: the new node is in the ring.
LEMMA LinkNextRing == ASSUME RingInv, link_next PROVE RingInv'
<1>. USE DEF link_next, At, Goto, frame_vars
<1>. DEFINE t == linking[cpu]
            nxt == scheduling.l_next[cpu]
<1>1. /\ SchedTypeOK(SchedPoints) /\ SwitchConsistent /\ RingOK /\ NewOK
      /\ current_task = cpu /\ cpu \in Members /\ cpu \in Stacks /\ cpu \in Tasks
      /\ Members \subseteq Tasks /\ pc \in [Stacks -> SchedPoints]
      /\ linking \in [Stacks -> Tasks] /\ rc \in [Tasks -> Nat]
      /\ scheduling \in Heap(Tasks)
      /\ scheduling.l_next \in [Tasks -> Tasks]
      /\ scheduling.l_prev \in [Tasks -> Tasks]
  BY DEF RingInv, SwitchConsistent, StartedOK, Members, SchedTypeOK, Heap
<1>2. /\ cpu \in Linking /\ t \in Tasks \ Members /\ rc[t] # 0
      /\ nxt \in Members /\ t # cpu
  BY <1>1, InLink DEF Linking
<1>3. /\ Linking' = Linking \ {cpu}
      /\ \A s \in Stacks : s # cpu => pc'[s] = pc[s]
      /\ pc'[cpu] = "run" /\ pc[cpu] = "link_next"
      /\ linking' = linking /\ cpu' = cpu /\ rc' = rc
  BY <1>1, <1>2 DEF Linking
<1>4. Members' = Members \cup {t}
  <2>1. \A s \in Linking : s # cpu => linking[s] # t
    BY <1>1, <1>2 DEF NewOK
  <2>. QED BY <1>2, <1>3, <2>1 DEF Members
<1>5. /\ scheduling'.l_prev = scheduling.l_prev
      /\ scheduling'.l_next[cpu] = t
      /\ \A x \in Tasks : x # cpu => scheduling'.l_next[x] = scheduling.l_next[x]
      /\ scheduling' \in Heap(Tasks)
      /\ scheduling.l_next[t] = nxt /\ scheduling.l_prev[t] = cpu
      /\ scheduling.l_prev[nxt] = t
  BY <1>1, <1>2, <1>3 DEF Heap, NewOK, RingInv, BackOK
<1>6. SchedTypeOK(SchedPoints)' /\ SwitchConsistent'
  BY <1>1, <1>5 DEF SchedTypeOK, SwitchConsistent, SchedPoints
<1>7. RingOK'
  <2>1. /\ \A x \in Members : scheduling.l_next[x] \in Members
        /\ \A x, y \in Members :
                scheduling.l_next[x] = scheduling.l_next[y] => x = y
    BY <1>1 DEF RingOK
  <2>2. /\ \A x \in Members' : scheduling'.l_next[x] \in Members'
        /\ \A x, y \in Members' :
                scheduling'.l_next[x] = scheduling'.l_next[y] => x = y
    BY <1>1, <1>2, <1>4, <1>5, <2>1
  <2>3. ASSUME NEW Z \in SUBSET Members', Z # {},
               \A x \in Z : scheduling'.l_next[x] \in Z
        PROVE  Z = Members'
    <3>. DEFINE Y == Z \ {t}
    <3>1. Y \in SUBSET Members
      BY <1>4
    <3>2. Y # {}
      BY <1>1, <1>2, <1>5, <2>3
    <3>3. ASSUME NEW x \in Y PROVE scheduling.l_next[x] \in Y
      <4>1. scheduling.l_next[x] \in Members
        BY <2>1, <3>1
      <4>2. CASE x = cpu
        BY <1>2, <1>5, <2>3, <4>1, <4>2
      <4>3. CASE x # cpu
        BY <1>1, <1>2, <1>5, <2>3, <3>1, <4>1, <4>3
      <4>. QED BY <4>2, <4>3
    <3>4. Y = Members
      BY <1>1, <3>1, <3>2, <3>3 DEF RingOK, OneRing
    <3>5. t \in Z
      BY <1>1, <1>5, <2>3, <3>4
    <3>. QED BY <1>4, <3>4, <3>5
  <2>. QED BY <2>2, <2>3 DEF RingOK, OneRing
<1>8. BackOK'
  <2>1. \A x \in Members : x \in Stacks
    BY <1>1, StacksAssumption
  <2>2. pc'[t] # "link_next"
    <3>1. t \in Stacks
      BY <1>2, StacksAssumption
    <3>2. pc[t] = "start"
      BY <1>2, <3>1 DEF RingInv, StartedOK
    <3>. QED BY <1>2, <1>3, <3>1, <3>2
  <2>. QED BY <1>1, <1>2, <1>3, <1>4, <1>5, <2>1, <2>2 DEF RingInv, BackOK
<1>9. NewOK'
  <2>1. \A s \in Linking : s \in Stacks /\ linking[s] \in Tasks \ Members /\ s \in Members
    BY InLink
  <2>2. \A u \in Tasks : rc[u] = 0 => u # cpu
    BY <1>1 DEF Members
  <2>. QED BY <1>1, <1>2, <1>3, <1>5, <2>1, <2>2 DEF NewOK
<1>10. StartedOK'
  BY <1>1, <1>3, <1>4 DEF RingInv, StartedOK
<1>. QED BY <1>6, <1>7, <1>8, <1>9, <1>10 DEF RingInv

----------------------------------------------------------------------------
\* RingInv is an invariant of the scheduler.
LEMMA RingInvariance == SchedSpec => []RingInv
<1>1. RingInv /\ [SchedNext]_sched_vars => RingInv'
  <2>. SUFFICES ASSUME RingInv, [SchedNext]_sched_vars PROVE RingInv'
    OBVIOUS
  <2>1. CASE SchedNext
    BY <2>1, TickRing, OtherRing, AllocateRing, LinkNodeRing, LinkPrevRing,
       LinkNextRing DEF SchedNext
  <2>2. CASE UNCHANGED sched_vars
    <3>1. UNCHANGED sched_vars /\ Linking' = Linking /\ Members' = Members
      BY <2>2 DEF sched_vars, Linking, Members
    <3>2. SchedTypeOK(SchedPoints)' /\ SwitchConsistent'
      BY <3>1 DEF RingInv, sched_vars, SchedTypeOK, SwitchConsistent
    <3>3. RingOK' /\ BackOK' /\ NewOK' /\ StartedOK'
      BY <3>1 DEF RingInv, sched_vars, RingOK, BackOK, NewOK, StartedOK, OneRing
    <3>. QED BY <3>2, <3>3 DEF RingInv
  <2>. QED BY <2>1, <2>2
<1>. QED BY <1>1, RingInit, PTL DEF SchedSpec

\* link_task's unlocked stores: whatever tick lands between them and however
\* many tasks are inside link_task, pick_next_task walks one ring with every
\* task whose link_task has returned.
THEOREM RingStaysIntact == SchedSpec => []RingIntact
  BY RingInvariance, RingSafe, PTL

\* timeslice_passed and enter_task: current_task is the task whose stack the
\* processor is on, and preempt_counter is what its guards account for.
THEOREM SwitchesConsistent == SchedSpec => []SwitchConsistent
<1>1. RingInv => SwitchConsistent
  BY DEF RingInv
<1>. QED BY <1>1, RingInvariance, PTL
=============================================================================
