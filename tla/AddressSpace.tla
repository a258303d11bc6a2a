---------------------------- MODULE AddressSpace ----------------------------
(***************************************************************************)
(* Page directories and page tables (kernel/memory/page_allocator.cpp, and *)
(* task_wrapper of kernel/scheduler/init.cpp).  A virtual page number      *)
(* selects a directory entry and an entry of the page table found there.   *)
(* User pages come first, then kmem, where virtual page KernelBase + p is  *)
(* physical page p, then the entry for the task's temporary mappings.      *)
(* Every task has a directory; they share the page tables of kmem.  Each   *)
(* operation runs with interrupts disabled or concerns the directory of    *)
(* the running task only, so each is one step of its caller.               *)
(***************************************************************************)
EXTENDS PhysicalMemory

CONSTANTS
    Tasks,
    first_page_directory,
    TableSize,      \* entries of a page table, 1024 in the source
    UserTables      \* directory entries below 0xC0000000

ASSUME TablesAssumption == TableSize \in Nat \ {0} /\ UserTables \in Nat

ASSUME DirectoryAssumption == first_page_directory \notin Tasks

Directories == Tasks \cup {first_page_directory}

KernelBase == UserTables * TableSize

UserPages == 0 .. KernelBase - 1

dir_index(v) == v \div TableSize

tab_index(v) == v % TableSize

\* 0x3FF: the entry after kmem's, which may grow to RegionEnd and is checked
\* afterwards.
TOP == dir_index(KernelBase + RegionEnd + BuddyPages) + 1

\* dir[d][i] is a page table, or 0 if the entry is not present; tab[k][j] a
\* physical page, or 0; n the number of page tables made so far.
VARIABLE mm

None == [i \in 0 .. TOP |-> 0]

Empty == [j \in 0 .. TableSize - 1 |-> 0]

----------------------------------------------------------------------------
\* kmem_alloc_4k and memset: a new page table for entry i of directory d.
new_table(m, d, i) ==
    [dir |-> [m.dir EXCEPT ![d][i] = m.n + 1],
     tab |-> [k \in 1 .. m.n + 1 |-> IF k <= m.n THEN m.tab[k] ELSE Empty],
     n   |-> m.n + 1]

\* _map_page.  kmem_buddy_new is a step of its own, so that kmem_alloc_4k has
\* never just made the page table for us.
map_page(m, d, v, p) ==
    LET i == dir_index(v)
        r == IF m.dir[d][i] # 0 THEN m ELSE new_table(m, d, i)
    IN  [r EXCEPT !.tab[r.dir[d][i]][tab_index(v)] = p]

\* Pages first .. last of kmem, mapped one by one.
map_kmem(m, first, last) ==
    LET to[p \in first - 1 .. last] ==
            IF p < first THEN m
            ELSE map_page(to[p - 1], first_page_directory, KernelBase + p, p)
    IN  to[last]

\* Mutant: page tables for what is mapped at first only.
kmem_tables_mapped == UserTables .. dir_index(KernelBase + KmemStart - 1)

\* The entries of the kmem region, whose page tables are made in advance.
kmem_tables == UserTables .. dir_index(KernelBase + RegionEnd - 1)

\* init_page_allocator: the page tables, and the first pages mapped.
AddressInit ==
    /\ PhysInit
    /\ LET entries == [i \in 0 .. TOP |->
                IF i \in kmem_tables THEN i - UserTables + 1 ELSE 0]
           tables == [dir |-> [d \in Directories |->
                                IF d = first_page_directory THEN entries ELSE None],
                      tab |-> [k \in 1 .. Cardinality(kmem_tables) |-> Empty],
                      n   |-> Cardinality(kmem_tables)]
       IN  mm = map_kmem(tables, 1, KmemStart - 1)

\* kmem_buddy_new maps the pages of the new buddy.
grow_kmem ==
    /\ kmem_buddy_new
    /\ mm' = map_kmem(mm, kmem_phys_end, kmem_phys_end + BuddyPages - 1)

\* Mutant: the copy is made from the directory of the running task.
new_page_directory_used(t) ==
    \E d \in {first_page_directory} \cup {u \in Tasks : mm.dir[u][TOP] # 0} :
        mm' = [mm EXCEPT !.dir[t] = mm.dir[d]]

\* new_page_directory, for task t.
new_page_directory(t) ==
    mm' = [mm EXCEPT !.dir[t] = mm.dir[first_page_directory]]

\* Mutant: the page table is put in the first directory.
map_top_first(t) == mm' = new_table(mm, first_page_directory, TOP)

\* task_wrapper: a page table of its own for the temporary mappings of t.
map_top(t) == mm' = new_table(mm, t, TOP)

\* Mutant: in the directory that is the default argument of _map_page.
map_user_page_first(t, v, p) == mm' = map_page(mm, first_page_directory, v, p)

\* map_user_page, in the directory of the running task.
map_user_page(t, v, p) == mm' = map_page(mm, t, v, p)

\* The kassert of scoped_hmem_mapping, by task t.  The entry it writes is read
\* only until preemption is enabled again, and is left out.
can_map_hmem(t) == mm.dir[t][TOP] # 0

----------------------------------------------------------------------------
\* The physical page that directory d has for virtual page v, or 0.
Translate(d, v) ==
    LET n == mm.dir[d][dir_index(v)]
    IN  IF n = 0 THEN 0 ELSE mm.tab[n][tab_index(v)]

\* The physical pages of the user half of task t.
Mapped(t) == {Translate(t, v) : v \in UserPages} \ {0}

AddressTypeOK ==
    /\ PhysTypeOK
    /\ mm.n \in Nat
    /\ mm.dir \in [Directories -> [0 .. TOP -> 0 .. mm.n]]
    /\ mm.tab \in [1 .. mm.n -> [0 .. TableSize - 1 -> Nat]]
=============================================================================
