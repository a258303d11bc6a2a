# tinylittleos: a TLA+ verification project

tinylittleos is a small 32-bit x86 kernel in C++ for one processor: a preemptive
round-robin scheduler with mutexes, two page allocators and a slab allocator,
intrusive data structures, a virtual file system over a tar archive, an ELF
loader, and a text terminal. The kernel checks itself with `kassert`, which
stops the machine; three test kernels (`kernel/tests`) call the data structures,
the page allocator and the file system in sequence, without a scheduler.

This directory models the parts that carry the kernel's own logic, checks them
with TLC on small instances and proves most of what it checks of the scheduler,
the mutex, the end of a task, kmem, the slab allocator, the hash table, page
tables, the loader and the file system with TLAPS, for every number of tasks,
mutexes, levels, buddies, slabs, keys, pages, mount points, inodes and files, and
for every archive and path.
`PROJECT.json` says for every definition which lines of the source it stands
for, lists the runs, the mutants, the findings and the hazards.

## 1. Inventory

| Component | State | Operations | What makes it correct |
|---|---|---|---|
| Scheduler (`scheduler/init.cpp`, `task.hpp`) | `current_task`, the ring of tasks, each task's `stack_pointer`, `preempt_counter`, the interrupt flag | `timeslice_passed`, `yield`, `preempt_up/down`, `link_task`, `task::allocate`, `task_wrapper` | the ring stays a ring and loses nobody; a switch saves and restores the right frame; `preempt_counter` is what the running task put in it; every task runs again and again |
| Task exit (`scheduler/init.cpp`) | reference counts, `stack_free_stack` | end of `task_wrapper`, `_sched_final_free`, `take_ref`, `release` | counts add up; nobody runs on a freed or overwritten stack; nobody falls out of the ring |
| Mutex (`scheduler/mutex.cpp`) | `m_owner`, the list of waiting tasks | `lock`, `unlock` | exclusion; no waiter is lost; first in, first out; no `kassert` fails |
| Lock guards (`util/lock.hpp`, ...) | what each scope has taken | constructors, destructors | every guard gives back what it took |
| Intrusive list (`util/ds/list.hpp`) | `l_prev`, `l_next` | `unlink`, `add_after_self`, iteration | both directions agree |
| kmem (`memory/page_allocator.cpp`) | four bitmaps per buddy, four lists of buddies | `kmem_alloc_*`, `kmem_free_*`, `kmem_buddy_new` | blocks in use never overlap; the bitmaps of all levels agree; the lists have the buddies with a free block |
| Physical memory (same file) | `kmem_phys_end`, `hmem_phys_end`, the list of free hmem pages | buddy growth, `hmem_alloc_page`, `hmem_free_page` | the list has the free pages; the two ends never cross |
| Page tables, temporary mappings (same file) | page directories, page tables | `new_page_directory`, `_map_page`, `map_user_page`, `scoped_hmem_mapping` | kmem is at its address in every directory; no page is at two user addresses |
| Slab allocator (`memory/slab.hpp`) | a bitset per slab, a list of slabs with room | `allocate`, `free` | no object is given out twice or lost |
| Hash table (`util/ds/hashtable.hpp`) | buckets and chained cells | `insert`, `remove`, `lookup` | it is a map |
| Search tree (`util/ds/rbtree.hpp`) | `left`, `right`, `parent`, the root | `insert`, `remove`, `find`, `next`, `prev`, `reset` | find is exact, walks are in order |
| Interrupts, timer | descriptor table, interrupt flag | the timer tick, the keyboard | ticks keep coming |
| VFS (`fs/vfs.cpp`, `vfs.hpp`) | mount points, inodes with counts and mutexes, an inode hash table per file system, file descriptors | `mount`, `traverse`, `open`, `read`, `release` of inodes and files | counts follow the references; an inode in use is not freed, and is found once; a path gives the file it names |
| tar (`fs/tar.cpp`) | a read-only archive | lookup by name and by number, `tar_read` | the two lookups number alike |
| ELF loader (`scheduler/elf.cpp`) | the address space being built | `load_elf` | the pages of a load are accounted for; memory has what the file has |
| Terminal, keyboard | cursor, scroll buffer | `put`, the key handler | the cursor stays on the screen |
| Boot, descriptor tables, logging, strings | - | straight-line set-up, output | - |

How they interact. A timer tick interrupts whatever runs, unless the interrupt
flag is clear, and switches tasks unless `preempt_counter` is above 0. A mutex
protects its own state with `preempt_counter` only, puts the calling task in a
list that the scheduler's `pick_next_task` skips, and calls `yield`. kmem and
hmem protect theirs with `scoped_intlock`; the slab allocator has no lock and
relies on its callers. Tasks, hash cells and inodes live in slabs, which live in
kmem; stacks live in kmem; hash table and list operations run under
`scoped_preemptlock` or a mutex of the caller.

What is hard. One processor, but a tick between any two instructions:
`lock` and `unlock` are several steps each, `link_task` does its pointer
surgery with preemption enabled, and an exiting task runs its last steps on a
stack that all exiting tasks share. `preempt_counter` is one global number that
no frame saves, so each switch depends on everybody having balanced their
guards. In the allocators the difficulty is in long sequences of calls: splits
and merges over four levels, lists that a buddy leaves and enters again. The
hazards in `PROJECT.json` name the lines.

## 2. Modules

```
IntrusiveList - ListProofs
   |  EXTENDS
Scheduler ----- MCScheduler      SchedulerProofs
   |
Mutex --------- MCMutex          MutexSpec (abstract; Mutex implements it)
   |                             MutexProofs
TaskLifecycle - MCTaskLifecycle  LifecycleProofs

BuddyAllocator - MCBuddy         BuddyProofs

PhysicalMemory - MCHmem
   |  EXTENDS
AddressSpace   Tar ------------ Vfs - MCVfs     VfsProofs
          \   /
         ElfLoader - MCElfLoader     ElfProofs

IntrusiveList   SlabAllocator
            \   /  EXTENDS
          Hashtable - MCHashtable    MapSpec (abstract; Hashtable implements it)
                                     HashtableProofs
RBTree - MCRBTree
```

**IntrusiveList** has the list operations as functions from heap to heap, and
`After`, what an iteration meets.

**Scheduler.** `cpu` is the stack the processor really executes on; `pc` is a
program point per stack; `saved_intr` is the interrupt flag in the frame a stack
resumes from. `current_task` and `stack_pointer` are the kernel's own record of
the same thing, and nothing in the model makes them agree with `cpu`: that they
do is `SwitchConsistent` (and `PreemptAccounts` in Mutex). An action is a
stretch of code that shared state can be seen before or after, and the tick,
`timeslice_passed`, may come between any two. Code under `scoped_preemptlock` or
`scoped_intlock` that touches nothing else shared is one action (`allocate`);
`link_task` runs under neither and is three: the new node, `l_prev` of the next,
`l_next` of the current task. `linking` is the argument of the call, `nest` the
number of `scoped_preemptlock` objects alive on a stack. A failed `kassert` sets
`panic`, after which only `Halt` happens.

**Mutex.** One action per step of `lock` and `unlock`:

| Code | Actions |
|---|---|
| `mutex::lock` | `lock` (`preempt_up`), `lock_check`, then `lock_take`, `lock_taken`, or `lock_block`, `lock_blocked` (`preempt_down`), `yield`, `lock_resumed` |
| `mutex::unlock` | `unlock` (`preempt_up`), `unlock_check`, then `unlock_release` or `unlock_hand`, then `unlock_released` (`preempt_down`) |
| `scheduler::yield` | `yield`: its `kassert`, the frame with interrupts off, the switch |

`held` is the set of `scoped_mutex` objects alive on a stack, `want` the mutex
of the call in progress. A list head is a node of `blocking` named by its mutex.
Tasks take mutexes in any order, so deadlock between tasks that nest them
differently is a behaviour of the model, as it is of the kernel; the idle task
then keeps ticking.

**TaskLifecycle** adds the end of a task: `exit`, `exit_unlink` (the choice of
the successor, the unlinking, the two references, the jump to
`stack_free_stack`), `final_free`, `final_enter`; and references held by others.
Tasks link others and exit in any order. `torn` is a history variable: an exit
has taken away the task that some `link_task` had read as its successor and will
not read again, after which the ring leads out of itself (`MCLifeLink.cfg`). What the
processor does on the stack of a task that is gone is not followed (`lost`).

**BuddyAllocator** keeps the bitmaps of all levels of each buddy as sets and the
lists as `next` and `prev` functions in which `Allocator` stands for the head;
`Size[l]` is the number of smallest blocks in a block of level `l`. A call of `alloc`
or `free` marks at each level a set of blocks (`AllocMarks`, `FreeMarks`), which
is what the source's loops up and down the levels amount to; linking and
unlinking follow per level. Operations are atomic: they run under
`scoped_intlock`. A kernel stack is an 8k block that is freed as a 4k
one (`free_stack`); the half that nobody frees again is in `lost`.

**PhysicalMemory** has the two ends of memory, the words of every page, and the
list of free pages that runs through the first word of each. **AddressSpace**
adds the page directories and page tables: `mm.dir` gives the page table of each
entry, `mm.tab` the page of each entry of a table. Directories of tasks are
copies and share the page tables of kmem, which is why `init_page_allocator`
makes those in advance. New page tables are numbered, without a bound;
`Translate` is what the processor does with a directory.
Both have no actions of their own: they are parts of those of **ElfLoader**:

| Code | Actions |
|---|---|
| `task::allocate`, `task_wrapper` | `allocate` (`new_page_directory`), `task_wrapper` (`map_top`) |
| `load_elf` | `load_elf` (the header), `next_phdr`, and per page `load_alloc`, `load_map`, `load_read` (one `pread`), `load_zero` (`memset`) |
| other users of memory | `kmem_grows`, `other_alloc`, `other_free` |

A page is read and written through the page tables, so that a page mapped in the
wrong place is a wrong page written. `loaded` is the set of pages that a load has
allocated. Owners leave anything in the pages they free. `hmem_free_page` stores
no next in a page that goes into the empty list, so that a page whose first word
is not 0 leads the list astray: `stray` records it, and the actions of ElfLoader
stop there (`Runs`), because a stray list may lead out of memory. **MCHmem** has
the allocator alone, with owners that write nothing or 0, and goes on.

**Tar** has names as sequences of components, so that a slash is the boundary
between two. `tar_lookup` numbers the components of the archive in one loop
(`Number`), `tar_lookup_by_index` in another (`IndexFrom`).

**Vfs.** `frame` is where a task is in `traverse`, `release` or `open`. `walker`
is the task inside `traverse`, which disables preemption: while it is set nobody
else moves. `release` is four steps (`release_lock`, `release_ref_locked`,
`release_remove`, `unwind`), because other tasks run between them; the release
of the parent from the destructor repeats the first three, and `dying` has the
structs whose destructors have begun, given back by `unwind`. `open` is three
steps: the slab allocator finds an object, takes it while the constructor begins
to lock the inode, and the count goes up. An inode's mutex is the
one of MutexSpec, the hash table is the map of MapSpec. `initial_rc` is what
`i_rc` holds after the constructor, which does not set it: 0x41414141 in this
build, since `buddy_alloc` fills pages with 0x41, and 1 where a comment and a
test say so; both are initial states, the first because it is what happens, the
second because otherwise no last release would ever happen. `held` is, for each
variable in which a task keeps an inode, that inode and the path it was asked
for by. `OneOpener` and `BelowMounts` say which callers the properties are about
(Section 4); TLC evaluates them on the instance of `vfs`.

**SlabAllocator** has no lock and no actions of its own: `allocate(o)` and
`free(o)` are parts of the actions of its callers. **Hashtable** is such a
caller, whose cells are the objects of the slabs, and the two are checked
together. Every table operation holds a `scoped_preemptlock` and is one action;
so are those of **RBTree**, for callers that exclude one another. The tree is
called a red-black tree in the source, but is not balanced there; the model has
no colours either. Hash values keep the arithmetic modulo the number of buckets.

**MutexSpec** and **MapSpec** say what users may rely on: a mutex with an owner
and a queue that is served from its head, and a finite map.

## 3. Runs

| Run | Instance | What it shows |
|---|---|---|
| `sched_ring` | idle, one booted task, three that tasks create; one guard per stack | `RingIntact`, `SwitchConsistent`, and `EveryTaskRuns` under fairness |
| `mutex_nested` | idle, two booted tasks, one created; two mutexes; one `scoped_preemptlock` per stack | types, `MutualExclusion`, `NoLostWaiter`, `BlockedNeverRuns`, `PreemptAccounts`, `AssertsHold` |
| `mutex_fair` | idle and three tasks, one mutex, no guards | `NoPanic`, the refinement `ImplementsMutexSpec`, `LockGranted` |
| `life_exit` | idle, two booted tasks and one that is created, one mutex | `RefsAddUp`, `FreedStackUnused`, `LinkedUntilTorn` |
| `buddy` | up to two buddies, one block of the largest size each, three sizes | `NoOverlap`, `BitmapsExact`; `ListsExact` until the second buddy is added |
| `hashtable` | two buckets, five keys, four of them in one bucket; two slabs of two objects | `ObjectsConserved` and `FreeListExact` of the slabs, `ChainsExact` (the chains have the cells in use, all of them), and the refinement `ImplementsMap` |
| `rbtree` | five nodes, two of which share a key: trees of up to four items | `FindExact`, `WalksInOrder` |
| `elf` | two tasks; three pages above kmem, which may grow by three; pages of two words, page tables of two entries; seven files | `TypeOK` with the `kassert`s that can fail, `KmemReachable`, `UserPrivate`, `PagesAccounted`, `FreeListExact` until the list goes astray, and `LoadedClean` |
| `vfs` | two tasks, one of which opens files; two archives, the second mounted inside the first; six paths; a task keeps one inode | `RefsFollow`, `TableExact`, `NoDangling`, `TraverseExact`, `AssertsHold`, `LastReleaseFrees` |
| `mutex_timer`, `life_blocked`, `buddy_lists`: runs that end in a violation | as small as the behaviour allows | findings 1 to 3 |

Why the bounds are enough for what is asked. Three tasks beside the idle task
are needed for an owner and two waiters in order, and for a task that links
while its neighbours in the ring run or exit; two mutexes let a task hold one
and wait for another. One nested guard distinguishes a `preempt_counter` that is
zero after `preempt_down` from one that is not. In a buddy, a level looks at the
one below and the one above, so that three sizes have a bottom, a middle and a
top (the source has four; `buddy_lists` uses four), and blocks under different
top blocks never affect one another's bits; a second buddy is what the lists
need. Two slabs of two objects give a slab that is full, one that is not, and a
list in either order. Four keys in one bucket give a chain with the embedded
head, a middle and an end. Four items give a tree in which the replacement of a
removed node is its child, and one in which it is further down; the fifth node
has the key of another, and is refused as long as that one is in the tree. `MaxNest`,
`MaxBuddies`, `MaxSlabs`, `MaxOthers`, `MaxHeld` and the sizes of the sets are
the only bounds.

In `elf`, two pages that others hold make a list of two when they are freed, and
three pages of hmem are used up by a load of two and another load, so that loads
get pages that others had, fail for want of memory, and race the growth of kmem.
The growth reaches pages of hmem; from there on the properties say nothing
(`Apart`). The files are a segment with a page and a half in the file, one with
zeros behind what the file has, one that fills its page, in a file that is cut
short in its data, one cut short in its headers, one that is refused, and one for
each assertion about a header. Tasks are interchangeable, hence the symmetry. In `vfs`, the
archives have a directory that is an entry and one that is only part of a name;
a path that does not exist, one that is too long, and one that is hidden by the
inner mount. With two tasks that keep an inode each, one of them with a file
besides, a directory has references from a child, a file and a walk at the same
time, and the two can release the last two at once.

Deadlock is checked in every run: the idle task is always ready, and a stopped
machine takes the step `Halt`. Runs that check no liveness need no fairness.

**Fairness.** `WF` of the next-state relation: the processor executes. `WF` of
`scoped_preemptlock_end`: a scope in a C++ function ends. `SF` of the tick: the
timer is not synchronised with the code, so a tick that is possible again and
again is not missed for ever; weak fairness would let a task that opens and
closes a guard in a loop do so in step with the timer. `SF`, per task, of the
steps of a `lock` or `unlock` call that has begun and of `unlock`: the steps are
enabled only while the task is on the processor, and a task that is given it
again and again gets on. Nothing is assumed of `lock`: a task need not want a
mutex. `LockGranted` also carries the hypothesis that again and again a tick
could be taken, because the kernel does not guarantee that (first finding).

## 4. Findings

Each has a configuration that ends in the counterexample, given in brackets. The
first three are runs of `PROJECT.json`; the others are kept beside them, because
a passing run states what is left to rely on.

1. **A task resumes from a contended lock with interrupts disabled**
   (`mutex_timer`). `yield` executes `cli` before `pushf`, so the saved frame
   has the flag clear, and no later statement of `lock` sets it. A task that
   then computes in a loop is never preempted.
2. **An exiting task enters a blocked task** (`life_blocked`). It takes its
   successor in the ring without the test of `pick_next_task`; the successor
   finds in `lock` that it does not own the mutex, and a `kassert` fails.
3. **Stale `prev` pointer of a buddy** (`buddy_lists`). A new buddy goes to the
   front of each list without a store to the `prev` of the one that was there;
   a later unlink makes the head point at a buddy without a free block.
4. **`yield` forbids what its header asks for** (`MCMutexYield.cfg`). The header
   says that preemption should be disabled, the body asserts that it is not: a
   contended lock inside a `scoped_preemptlock` stops the kernel
   (`YieldAcceptsPreemptOff`). This is why `AssertsHold` of Mutex makes an
   exception for `yield`.
5. **`link_task` can cut the ring** (`MCLifeLink.cfg`). It stores its pointers with
   preemption enabled. If the linking task is preempted after it has copied its
   successor to the new node, and that successor exits, the last store makes the
   ring lead to the task that is gone; the tasks behind it are lost. `main_task`
   links a task at run time. This refutes `LinkedStaysLinked`; after it,
   `FreedStackUnused` and `RefsAddUp` are lost too, which is why they and
   `LinkedUntilTorn` speak of the time before.
6. **Frames on `stack_free_stack` are overwritten** (`MCLifeFrames.cfg`).
   `_sched_final_free` enables preemption while it still runs on that stack: a
   tick saves it as the one the next task resumes on, and the next task to exit
   writes over the frame (`FramesIntact`).
7. **The last page of the free list keeps its owner's data** (`MCHmem.cfg`).
   `hmem_free_page` writes nothing into a page that goes into the empty list. A
   page that was in the list before still has its next of that time, so the list
   leads to a page that is in use, which is then given out twice
   (`FreeListClaimed`).
8. **`load_elf` clears what it has read** (`MCElfLarge.cfg`). `memset_at` is set
   only when at most a page is left to read, so of a segment with more than a page in
   the file every page but the last one of the file's part ends up zero, which
   refutes `LoadedExact`. `LoadedClean` says what is left to rely on: the file's
   words on that last page, zeros behind it, and nowhere what a former owner left.
9. **Inodes are born with 0x41414141 references** (`MCVfsCount.cfg`). The
   constructor does not set `i_rc`, where a comment says that a new inode "comes with 1
   reference as needed" and `test_filesystem.cpp` expects 2 and 1. No inode is
   ever freed in this build. `RefsFollow` says that the count moves exactly with
   the references from wherever it starts; if that were 1, it would be
   `RefsExact`.
10. **A walk can need the mutex of a preempted task** (`MCVfsYield.cfg`). `traverse`
    runs with preemption disabled and locks inodes; if a task was preempted in
    `release` or `open` with such a mutex, `lock` calls `yield`, whose assertion
    stops the kernel (`WalksNeverYield`).

The modules show more, for which no configuration is kept; in brackets, how to
get the counterexample:

- kmem grows over hmem without a crash, where a comment says that the kernel
  crashes and has a TODO for the assertion (the second conjunct of `Apart`, while
  `panic = "no"`, in `MCElfLoader.cfg`).
- In `load_elf`, a segment whose address is not at a page boundary is loaded at
  the boundary, and two segments that share a page lose the first page mapped
  there (`PagesAccounted`; the source has a TODO for that).
- `traverse` can meet an inode between its last release and its removal from the
  table, which stops the kernel with a `kassert`, if a count can fall to 0. With
  the one of finding 10 this is why `AssertsHold` of Vfs has two exceptions.
- A path that is a mount point gives the caller the root without a reference,
  which the caller then releases (with such a path in `SomePaths`, `RefsFollow`
  is refuted).
- Two tasks that open files at the same time can get the same `file_desc`
  (`Openers = {t, u}` refutes `RefsFollow`). The kernel as it is opens files in
  one task.

The passing runs leave out segments that share a page, paths that are mount
points and a second opener, and check everything else.

`life_exit` follows a behaviour up to the point where a task enters a blocked one
or overwrites a frame, where the model stops.

## 5. Proofs

The proof modules are checked by TLAPS, for every value of the constants that
satisfies the assumptions.

| Module | Theorem | Statement |
|---|---|---|
| SchedulerProofs | `RingStaysIntact` | `SchedSpec => []RingIntact` |
| | `SwitchesConsistent` | `SchedSpec => []SwitchConsistent` |
| MutexProofs | `TypeCorrect` | `Spec => []TypeOK` |
| | `Exclusion` | `Spec => []MutualExclusion` |
| | `Accounting` | `Spec => []PreemptAccounts` |
| | `Blocking` | `Spec => []BlockedNeverRuns` |
| | `Asserts` | `Spec => []AssertsHold` |
| | `NeverPanics` | if `MaxNest = 0`, `Spec => []NoPanic` |
| | `NoWaiterLost` | `Spec => []NoLostWaiter` |
| | `Refinement` | `Spec => ImplementsMutexSpec` |
| LifecycleProofs | `RefsAlwaysAddUp` | `LifeSpec => []RefsAddUp` |
| | `FreedStacksUnused` | `LifeSpec => []FreedStackUnused` |
| | `LinkedTasksStay` | `LifeSpec => []LinkedUntilTorn` |
| BuddyProofs | `KmemTypeOK` | `Spec => []TypeOK` |
| | `NothingGivenTwice` | `Spec => []NoOverlap` |
| | `BitmapsStayExact` | `Spec => []BitmapsExact` |
| | `ListsStayExact` | `Spec => []ListsExact` |
| HashtableProofs | `TableTypeOK` | `Spec => []TypeOK` |
| | `ObjectsStayConserved` | `Spec => []ObjectsConserved` |
| | `SlabListStaysExact` | `Spec => []FreeListExact` |
| | `ChainsStayExact` | `Spec => []ChainsExact` |
| | `TableIsMap` | `Spec => ImplementsMap` |
| ElfProofs | `LoaderTypeOK` | if `FilesFit`, `Spec => []TypeOK` |
| | `FreePagesStayListed` | the same, `Spec => []FreeListExact` |
| | `KmemStaysReachable` | the same, `Spec => []KmemReachable` |
| | `UserPagesStayPrivate` | the same, `Spec => []UserPrivate` |
| | `PagesStayAccounted` | the same, `Spec => []PagesAccounted` |
| | `LoadsStayClean` | the same, `Spec => []LoadedClean` |
| VfsProofs | `VfsTypes` | if `OneOpener` and `BelowMounts`, `Spec => []TypeOK` |
| | `VfsInvariant` | the same, `Spec => []VfsInv` |
| | `VfsCounts` | the same, `Spec => []RefsFollow` |
| | `VfsTable` | the same, `Spec => []TableExact` |
| | `VfsNoDangling` | the same, `Spec => []NoDangling` |
| | `VfsLastRelease` | the same, `Spec => []LastReleaseFrees` |
| | `VfsAsserts` | the same, `Spec => []AssertsHold` |
| | `VfsTraverse` | the same, `Spec => []TraverseExact` |
| | `RoundTrip` | in every archive, `tar_lookup_by_index` gives back the name whose number `tar_lookup` found |

Assumptions, all in the modules that declare the constants and evaluated by TLC:
the boot order is a non-empty sequence of different tasks, there are finitely
many tasks and list heads, each task has a stack of its own name, a list head is
not a task, `NULL` is not a task, `stack_free_stack` is no task's stack,
`MaxNest` is a natural number; the numbers of levels, largest blocks, buddies,
slabs, objects in a slab and buckets are natural numbers and, but for the first,
not 0; keys are natural numbers, and `NULL` is no buddy, slab, link or value; RAM
is larger than what kmem has at boot, which is inside the kmem region, pages and
page tables have at least one entry, and the first directory is no task's; the
file system has finitely many tasks, inodes and files, the objects of a slab are
natural numbers in the order of `find_bit`, mount points are a sequence of
different paths, there are structs for their roots, an entry of an archive has a
name of at least one and at most `NameMax` components, and the count after the
constructor is not 0.

Some theorems have a hypothesis of their own. `NeverPanics` wants `MaxNest = 0`
because a task that locks a mutex inside a `scoped_preemptlock` fails the
`kassert` in `yield` (finding 4). Those about the loader want files whose
segments are below kmem and share no page (`FilesFit`), as a linker makes them
and `load_elf` does not check. Those about the file system want one task that
opens files (`OneOpener`), as the kernel has, because `file_desc_alloc` has no
lock, and paths that are not mount points themselves (`BelowMounts`), because
`traverse` then returns the root without taking a reference. Section 4 has what
goes wrong without each; TLC evaluates `FilesFit` on the files of `elf`, and the
last two on the callers of `vfs`.

Other limits are in the properties themselves. The lifecycle properties hold of
any tasks, booted or created at run time, until `torn` (finding 5). Those of the
loader hold until the list of free pages goes astray (finding 7) or kmem has
grown over hmem (`Apart`).

**Lists** (ListProofs). The walks of an iterator, and the lists they meet, are
recursive functions. What they compute is proved by an induction over natural
numbers that is itself proved from the existence of a least element
(`NatInd`): the property is given as a set of numbers, not as an operator. From
it follow that `After` is the walk of `l_next` up to its return
(`AfterIsWalk`), that this walk is unique, and what inserting and unlinking do
to it; the same for lists that end in NULL (`NilListExact`). Being in a list is
expressed without walks: every set that has the head and is closed under
`l_next` has the node (`Reaches`, `OneRing`). Actions preserve this form with
first-order reasoning, and one lemma per kind of list translates it.

**Scheduler** (`RingInv`). The properties become inductive with: the members of
the ring (linked, and not in the middle of their own `link_task`) are one cycle
of `l_next`, and different members have different successors (`RingOK`);
`l_prev` agrees, except behind a member between its last two stores (`BackOK`);
a new node is touched by its creator alone, and once its fields are written its
`l_next` still is its creator's, however many ticks came (`NewOK`). That
`link_next` can be delayed for ever without harm is `NewOK`: other tasks insert
behind themselves and never write the creator's `l_next`.

**Mutex** (`IInv`). None of the properties is inductive. Exclusion is about
`held`, but `lock_resumed` puts a mutex in `held` because of an assignment that
another task made to `m_owner`, some time earlier, from what it found in the
list. The inductive invariant therefore says:

- `TypeOK` and `PreemptAccounts`: the running task is `current_task`, and only
  it can be at a point where preemption is disabled. This is what makes the
  several steps of `lock` and `unlock` exclude those of others;
- `OwnerClaims`: `m_owner` of a mutex is a task exactly if that task claims the
  mutex (has it in `held`, is at a point of `lock` after taking it, is at a
  point of `unlock` before giving it up, or has been handed it and not resumed
  yet). Exclusion follows, since `m_owner` has one value;
- `WantOK`: the mutex of a call in progress is a mutex, not held at the same
  time;
- `ListsOK`: `blocking` is well linked in both directions, and neighbours belong
  to the same mutex: the list a blocked task is in is that of the mutex it
  wants. Without this, `unlock_hand` could give the mutex to a task that waits
  for another;
- `BlockedOK`: a task in a list is inside `lock`, past its `block_on`, and is on
  the processor only until its own `yield`; a free mutex has no waiters;
- `BranchOK`: what `lock_check` and `unlock_check` found is still true at the
  step that relies on it;
- `AssertsHold`.

`NextInv` shows that each action preserves it, one lemma per action. Steps of
the scheduler leave the mutex's part alone, and the lemma `Switch` says what a
switch does to the accounts: the counter is zero, so whoever comes next has
nothing in it. The lemmas `AddAfterSelf` and `Unlink` say that the list
operations keep both directions in agreement.

For the refinement (`WaitInv`) a blocked task is also reachable from the head of
the mutex it wants. The abstract queue of a mutex is what `After` finds there;
`lock_block` appends to it and `unlock_hand` takes its first element, which is
the abstract hand-over, so first in, first out holds for any number of waiters.

**End of a task** (`LifeInv`). Until `torn`, the tasks that are linked and have
not exited are one ring of `l_next`, next to which new nodes wait to be linked
(`LifeRing`, and `NewOK` of the scheduler); an exit in the middle of another
task's `link_task` keeps `NewOK` unless it is the successor that goes. The
processor is on the stack of `current_task`, or on `stack_free_stack` on behalf
of the task that will be entered next; a task off the processor has its frame on
its own stack, or is the one that was preempted while it finished an exit; the
stack to be freed belongs to a task that is gone. The count of a task goes with
the step of `link_task` that its creator is at (`LifeRefs`). That a second exit
would overwrite a frame on `stack_free_stack` is the model's own stop, where the
source has no check (finding 6).

**kmem** (`BInv`). The bitmaps of a buddy are, at every level, the blocks without
a page in use (`Exact`), which is `BitmapsExact` in terms of pages. The marks
that a call of `alloc` or `free` makes up and down the levels are shown to turn
the exact bitmaps for one set of pages into those for another (`Grows`,
`Shrinks`), also for `free_stack`, which gives back half of what was taken.
`NoOverlap` follows because `alloc` picks a set bit. `ListsExact` is claimed and
proved for one buddy: with more, the list heads are what the finding of
`buddy_lists` is about.

**Slabs and hash table** (`SlabInv`, `HInv`). The free list starts among the
slabs with room, stays there, meets nobody twice and leaves nobody out. No
pointer leads from one chain to another, every cell is reachable from its
bucket, and no key has two entries. `LookupExact` shows that the search finds
the entry of a key if there is one, and the refinement follows: `insert`,
`remove` and `lookup` are steps of MapSpec.

**Memory and loader** (`ElfInv`). A part (`Shape`) holds after a panic too, the
rest (`Sound`) until then:

- `ListOK`: the free pages of hmem are one list that ends in 0. The pages that
  `load_read` and `load_zero` write through the page tables are given out, so no
  word of the list is overwritten;
- `DirsOK`: the first directory has page tables in the kmem entries and nowhere
  else, every created task has the same ones there, and any other page table is
  in one entry of one directory. With `KmemMapped` this gives `KmemReachable`:
  what `kmem_buddy_new` maps in the first directory is mapped in all, because it
  never needs a new page table below `kmem_region_end`. `MapKmem` shows this for
  any number of pages;
- `TaskOK`: the pages of a load are the ones in its user half, each at one
  address, and the one that it is about to map. That `load_map` overwrites no
  entry needs to be known of the past of the load: a mapped page is one that the
  loops have been at (`Visited`), and `FilesFit` says that they come to no page
  twice. A task past `task_wrapper` has a page table for temporary mappings, so
  the `kassert` of `scoped_hmem_mapping` holds;
- `LoadsApart`: pages of a load are given out, and two loads have none in common.

What a single change to the page tables does to every other translation is in
`MapElsewhere`; the lemmas about operations follow from it and from `DirsOK`.

`LoadedClean` speaks of a load that is over, and needs to know how far one that is
not has come (`ContentsInv`): the segments before the one at hand (`Before`) and
the pages of it before the one at hand (`Within`) are clean, and the page at hand
has the words that were read (`ReadTo`). A write
through the page tables is to one page, which by `TaskOK` is at one address of one
task, so it touches no page that is done, of this load or of another
(`WriteKeeps`); a page that another owner frees or gets is in no load.

**File system** (`VfsInv`, `PathInv`). `VfsInv` has a part per kind of state:

- `Control` and `Files`: at each point of `traverse`, `release` and `open`, which
  fields of the frame are in use; an object of `file_desc_alloc` belongs to the
  task that opened it, or is about to. With two openers it would belong to two;
- `Mutexes`: the owner of an inode's mutex and the tasks in its queue are inside
  `release` or `open` of that inode, between `lock` and `unlock`, and nobody is
  there twice;
- `Doom`: a struct in use has count 0 exactly if it is in the hands of one task,
  which is past the last `release` of it: at `release_remove`, or with its
  destructor begun. This makes the steps from the last release to the removal
  from the table and to the slab allocator exclude those of other tasks, though
  none of them holds a lock;
- `Live` and `Parents`: whatever a task holds, walks on, releases or has open,
  and the parent of every struct that is not dying, is in use;
- `Tables`: `TableExact`, and no struct whose destructor has begun is in a table;
- `Walks`: a walk that has left the root does not come back to it, and does not
  end on it, so that what it returns carries a reference;
- `CountsOK`: the count is the number of references, five sets of different
  kinds (kept, opened, children, a walk, a release). Each step adds or removes
  one element of one of them, or moves one from a set to another
  (`RefsChange`, `Balance`), so that the sum changes as `i_rc` does. A step down
  the path moves the walk's own reference to the new child, which keeps its
  parent (`DescendRefs`). The count of an inode with a holder is above 0, from
  which `NoDangling` follows.

The other parts survive a failed `kassert`, and `AssertsHold` is proved along with
them: `Mutexes` gives the owner that makes `yield` fail, `Doom` the task that has
the inode of count 0, and `Files`, `Tables` and `CountsOK` exclude the other
failures. The two that are left are those of Section 4.

`TraverseExact` compares an inode with what the path names, computed from the
archives alone. A number counts the components of all entries before it, so that
those of different entries are apart (`NumbersApart`). The two loops count alike
(`LoopsAgree`), so a number gives back the name that was looked up (`RoundTrip`),
and an inode found in the table by number is the one of that name, even if
another path put it there (`NameOK`). The walk stands on the prefix
of its path below the mount point, and every prefix so far exists (`AtName`); the
mount point is the longest that matches (`HomeIs`). What a task keeps does not
change its name while structs come and go, because a struct in use is not given
out again.

Only model-checked:

- liveness (`EveryTaskRuns`, `LockGranted`): the prover handles neither fairness
  nor ENABLED;
- `LifeTypeOK`: its part about `m_owner` needs the mutex's list invariant again
  in the presence of exits, which break it (`life_blocked`);
- the search tree, whose functions need induction over trees.

## 6. Not modelled

- Terminal and keyboard: output, and a cursor that nothing else reads. The one
  hazard, a keyboard interrupt in the middle of a `put`, is in the list.
- `ht->remove` and the slab allocators under `release` and `open` run without a
  lock; Vfs has each as one step (that of `open` as two), and Hashtable and SlabAllocator
  are checked for callers that exclude one another.
- Page flags, the TLB and the entry of a temporary mapping, which is used under a
  lock; the contents of kmem.
- Parsing of tar and ELF headers, and the write operations of the file system,
  which are `kpanic` or an error.
- Boot, descriptor tables, multiboot, serial output, formatting: straight-line
  set-up and pure output. What they leave behind is the initial states.
- `virtual_memory` is a stub whose destructor is a `kpanic`; TaskLifecycle has
  that.
- Interrupt nesting: gates clear the interrupt flag.
- Process ids: a counter with an assertion.
- Which page size a slab has: decided by the compiler, here `NumObjects`.

## 7. Plan

Done: scheduler, mutex, task exit, allocators, data structures, the file system,
page tables and the loader; proofs for all but the search tree. Next: `ht->remove`
and the slab allocators under `release` step by step, without the lock that they
do not have; `Doom` says who may be inside them.
