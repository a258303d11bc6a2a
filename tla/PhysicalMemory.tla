--------------------------- MODULE PhysicalMemory ---------------------------
(***************************************************************************)
(* How physical memory is shared (kernel/memory/page_allocator.cpp): kmem  *)
(* grows upwards one buddy at a time, hmem grows downwards one page at a   *)
(* time and recycles pages through a list that is threaded through the     *)
(* first word of the free pages.  An address is a page number; 0 is no     *)
(* page.  The operations run with preemption or interrupts disabled, so    *)
(* each is one step of its caller.                                         *)
(***************************************************************************)
EXTENDS Integers, FiniteSets

CONSTANTS
    RamEnd,         \* the first page number after RAM
    KmemStart,      \* kmem_phys_end after init_page_allocator
    BuddyPages,     \* pages of a buddy, 128 in the source
    RegionEnd,      \* kmem_region_end
    PageSize,       \* words in a page
    Words           \* what may be in memory besides data of files

ASSUME RamAssumption == KmemStart \in Nat \ {0} /\ RamEnd \in Nat

ASSUME BuddyAssumption ==
    BuddyPages \in Nat \ {0} /\ RegionEnd \in Nat /\ KmemStart <= RegionEnd

ASSUME PageAssumption == PageSize \in Nat \ {0}

Pages == 1 .. RamEnd - 1

Cells == 0 .. PageSize - 1

ASSUME WordsAssumption == KmemStart < RamEnd /\ Words \subseteq Pages \cup {0}

VARIABLES
    kmem_phys_end,
    hmem_phys_end,
    hmem_phys_list,
    ram,            \* the words of every page
    given,          \* pages that hmem_alloc_page returned, not freed since
    stray,          \* history: a page that went into the empty list did not
                    \* have 0 in its first word
    panic

phys_vars == <<kmem_phys_end, hmem_phys_end, hmem_phys_list, ram, given, stray>>

\* The first word of a page.
word(p) == ram[p][0]

\* init_page_allocator.  RAM starts with something in it.
PhysInit ==
    /\ kmem_phys_end = KmemStart
    /\ hmem_phys_end = RamEnd
    /\ hmem_phys_list = 0
    /\ ram \in {[p \in Pages |-> [c \in Cells |-> w]] : w \in Words}
    /\ given = {}
    /\ stray = FALSE
    /\ panic = "no"

----------------------------------------------------------------------------
\* kmem_buddy_new: only the end of the kmem region is checked.
kmem_buddy_new ==
    /\ kmem_phys_end' = kmem_phys_end + BuddyPages
    /\ panic' = IF kmem_phys_end' < RegionEnd THEN "no" ELSE "kmem_region_end"
    /\ UNCHANGED <<hmem_phys_end, hmem_phys_list, ram, given, stray>>

\* hmem_alloc_page with an empty list: lower hmem_phys_end.
hmem_alloc_new(p) ==
    /\ hmem_phys_list = 0
    /\ p = hmem_phys_end - 1
    /\ hmem_phys_end' = p
    /\ IF kmem_phys_end < p
       THEN given' = given \cup {p} /\ panic' = panic
       ELSE panic' = "hmem_phys_end" /\ UNCHANGED given
    /\ UNCHANGED <<kmem_phys_end, hmem_phys_list, ram, stray>>

\* hmem_alloc_page otherwise: the page's first word is the next of the list.
hmem_alloc_listed(p) ==
    /\ hmem_phys_list # 0
    /\ p = hmem_phys_list
    /\ given' = given \cup {p}
    /\ hmem_phys_list' = word(p)
    /\ UNCHANGED <<kmem_phys_end, hmem_phys_end, ram, stray, panic>>

\* hmem_alloc_page returns p.
hmem_alloc_page(p) == hmem_alloc_new(p) \/ hmem_alloc_listed(p)

\* Mutant: the page is not linked to the list.
hmem_free_page_unlinked(p, w) ==
    /\ given' = given \ {p}
    /\ hmem_phys_list' = p
    /\ ram' = [ram EXCEPT ![p][0] = w]
    /\ UNCHANGED <<kmem_phys_end, hmem_phys_end, stray, panic>>

\* hmem_free_page of a page that was given out, so that the kassert on its
\* address holds; w is what its owner left in the first word, which becomes
\* the next of the list if the list was empty.
hmem_free_page(p, w) ==
    /\ given' = given \ {p}
    /\ hmem_phys_list' = p
    /\ ram' = [ram EXCEPT ![p][0] = IF hmem_phys_list = 0 THEN w
                                    ELSE hmem_phys_list]
    /\ stray' = (stray \/ (hmem_phys_list = 0 /\ w # 0))
    /\ UNCHANGED <<kmem_phys_end, hmem_phys_end, panic>>

----------------------------------------------------------------------------
\* Types of the variables.
PhysTypeOK ==
    /\ kmem_phys_end \in Nat
    /\ hmem_phys_end \in 1 .. RamEnd
    /\ hmem_phys_list \in Pages \cup {0}
    /\ ram \in [Pages -> [Cells -> Nat]]
    /\ given \subseteq Pages
    /\ stray \in BOOLEAN

\* The pages met from hmem_phys_list on.
FreeList ==
    LET at[k \in 0 .. RamEnd] ==
            IF k = 0 THEN hmem_phys_list
            ELSE IF at[k - 1] = 0 THEN 0 ELSE word(at[k - 1])
    IN  {at[k] : k \in 0 .. RamEnd} \ {0}

FreePages == (hmem_phys_end .. RamEnd - 1) \ given

\* The kernel has not stopped, and the list leads nowhere but to free pages.
\* hmem_free_page stores no next in a page that goes into the empty list, and
\* nothing asks an owner to clear its pages; after such a free the list leads
\* where the owner's word says, and the models are not followed any further.
Runs == panic = "no" /\ ~stray

\* Moreover, no physical page belongs to both kmem and hmem: kmem_buddy_new
\* may grow over pages of hmem ("When kmem and hmem collide we crash... TODO
\* add assert for this", page_allocator.cpp), whose contents are then unknown.
Apart == Runs /\ kmem_phys_end <= hmem_phys_end

\* The list has the free pages of hmem and nothing else, so that no page is
\* given out twice and none is lost, for as long as every page that went into
\* the empty list had 0 in its first word.
FreeListExact == Apart => FreeList = FreePages

\* "hmem allocator uses a linked list of pages. 0 if empty. otherwise a
\* physical addr which also contains the next in the list"
\* (page_allocator.cpp): the same of every list, whatever is in the pages
\* that are freed.
FreeListClaimed ==
    panic = "no" /\ kmem_phys_end <= hmem_phys_end => FreeList = FreePages
=============================================================================
