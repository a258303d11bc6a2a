--------------------------- MODULE BuddyAllocator ---------------------------
(***************************************************************************)
(* The kmem allocator (kernel/memory/page_allocator.cpp).  Each buddy      *)
(* covers Tops blocks of the largest size; level 0 is 4k, level MaxLevel   *)
(* the largest.  A bitmap per level has a bit for each block that is       *)
(* entirely free, and per level a list, starting at a head, links the      *)
(* buddies that have such a block.  Every entry point runs under a         *)
(* scoped_intlock, so each is one action.                                  *)
(***************************************************************************)
EXTENDS Integers, FiniteSets

CONSTANTS
    MaxLevel,       \* 3 in the source: 4k, 8k, 16k, 32k
    Tops,           \* 16 in the source: 32k blocks in a buddy
    MaxBuddies,     \* entries of buddy_array
    NULL

ASSUME LevelAssumption == MaxLevel \in Nat

ASSUME TopsAssumption == Tops \in Nat \ {0}

ASSUME BuddiesAssumption == MaxBuddies \in Nat \ {0}

Levels == 0 .. MaxLevel

Buddies == 1 .. MaxBuddies

Allocator == 0      \* kmem_allocator, with first_k4, first_k8, ...

\* The 4k pages in a block of level n: 1, 2, 4, ...
Size[n \in Levels] == IF n = 0 THEN 1 ELSE 2 * Size[n - 1]

Blocks(l) == 0 .. Tops * Size[MaxLevel - l] - 1

ASSUME NULLAssumption == NULL \notin {Allocator} \cup Buddies

VARIABLES
    kmem,               \* buddy_array and kmem_allocator: the record of bits
                        \* (k4, k8, ...), prev (prev_k4, ...) and next
    buddy_array_pos,    \* buddies in use
    used,               \* the blocks given out: [b, l, i] records
    lost,               \* those of them that nobody will ever free
    panic

vars == <<kmem, buddy_array_pos, used, lost, panic>>

Kmem == [bits : [Buddies -> [Levels -> SUBSET Blocks(0)]],
         prev : [Levels -> [Buddies -> {NULL, Allocator} \cup Buddies]],
         next : [Levels -> [{Allocator} \cup Buddies -> {NULL} \cup Buddies]]]

----------------------------------------------------------------------------
(***************************************************************************)
(* The tree of blocks.                                                     *)
(***************************************************************************)
Ancestor(i, n) == i \div Size[n]

Sibling(i) == IF i % 2 = 0 THEN i + 1 ELSE i - 1

\* The blocks of level l inside block i of level n.
Inside(i, n, l) == {j \in Blocks(l) : Ancestor(j, n - l) = i}

----------------------------------------------------------------------------
(***************************************************************************)
(* The list of level l.                                                    *)
(***************************************************************************)

\* A store through a pointer, unless it is null.
Set(f, p, v) == IF p = NULL THEN f ELSE [f EXCEPT ![p] = v]

\* The end of mark_alloc_k*.
Unlink(k, l, b) ==
    LET p == k.prev[l][b]
        n == k.next[l][b]
    IN  [k EXCEPT
           !.next[l] = [Set(@, p, n) EXCEPT ![b] = NULL],
           !.prev[l] = [Set(@, n, p) EXCEPT ![b] = NULL]]

\* The beginning of mark_free_k*.
Link(k, l, b) ==
    LET n == k.next[l][Allocator]
    IN  [k EXCEPT
           !.next[l] = [@ EXCEPT ![b] = n, ![Allocator] = b],
           !.prev[l] = [Set(@, n, b) EXCEPT ![b] = Allocator]]

----------------------------------------------------------------------------
(***************************************************************************)
(* A call of alloc or free marks, at each level, a set of blocks; M is     *)
(* that set for every level, and the levels do not affect one another.     *)
(***************************************************************************)

\* mark_alloc_k*: clear the bits, and unlink at a level if none is left.
mark_alloc(k, b, M) ==
    LET left == [l \in Levels |-> k.bits[b][l] \ M[l]]
        out(l) == M[l] # {} /\ left[l] = {}
        u == [l \in Levels |-> IF out(l) THEN Unlink(k, l, b) ELSE k]
    IN  [bits |-> [k.bits EXCEPT ![b] = left],
         prev |-> [l \in Levels |-> u[l].prev[l]],
         next |-> [l \in Levels |-> u[l].next[l]]]

\* Mutant: a buddy that was full is not linked again.
mark_free_unlinked(k, b, M) ==
    [k EXCEPT !.bits[b] = [l \in Levels |-> k.bits[b][l] \cup M[l]]]

\* mark_free_k*: link at a level if there was none, and set the bits.
mark_free(k, b, M) ==
    LET in(l) == M[l] # {} /\ k.prev[l][b] = NULL /\ k.bits[b][l] = {}
        u == [l \in Levels |-> IF in(l) THEN Link(k, l, b) ELSE k]
    IN  [bits |-> [k.bits EXCEPT ![b] =
                     [l \in Levels |-> k.bits[b][l] \cup M[l]]],
         prev |-> [l \in Levels |-> u[l].prev[l]],
         next |-> [l \in Levels |-> u[l].next[l]]]

\* Mutant: the larger blocks stay free.
AllocMarks_down(free, n, i) ==
    [l \in Levels |-> IF l <= n THEN Inside(i, n, l) ELSE {}]

\* Allocating block i of level n marks itself, the blocks inside it, and
\* those above it as long as the one below was still free.
AllocMarks(free, n, i) ==
    [l \in Levels |->
        IF l <= n THEN Inside(i, n, l)
        ELSE {j \in {Ancestor(i, l - n)} :
                \A m \in n + 1 .. l - 1 : Ancestor(i, m - n) \in free[m]}]

\* Mutant: blocks are merged without a look at the sibling.
FreeMarks_merge(free, n, i) ==
    [l \in Levels |->
        IF l <= n THEN Inside(i, n, l) ELSE {Ancestor(i, l - n)}]

\* Mutant: the index is shifted the wrong way.
FreeMarks_shift(free, n, i) ==
    [l \in Levels |-> IF l <= n THEN Inside(i, n, l) ELSE {i * Size[l - n]}]

\* Freeing it marks itself and the blocks inside it (free_down), and those
\* above it as long as the sibling of the one below is free (free_up).
FreeMarks(free, n, i) ==
    [l \in Levels |->
        IF l <= n THEN Inside(i, n, l)
        ELSE {j \in {Ancestor(i, l - n)} :
                \A m \in n .. l - 1 : Sibling(Ancestor(i, m - n)) \in free[m]}]

alloc(k, b, n, i) == mark_alloc(k, b, AllocMarks(k.bits[b], n, i))

free(k, b, n, i) == mark_free(k, b, FreeMarks(k.bits[b], n, i))

\* kmem_buddy_new_no_alloc: all bits set, and the buddy goes to the front of
\* every list.  The prev field of the buddy that was first is not touched.
kmem_buddy_new(k, b) ==
    [bits |-> [k.bits EXCEPT ![b] = [l \in Levels |-> Blocks(l)]],
     prev |-> [l \in Levels |-> [k.prev[l] EXCEPT ![b] = Allocator]],
     next |-> [l \in Levels |-> [k.next[l] EXCEPT ![b] = k.next[l][Allocator],
                                                  ![Allocator] = b]]]

----------------------------------------------------------------------------
\* Cleared memory, before the first buddy.
Cleared ==
    [bits |-> [b \in Buddies |-> [l \in Levels |-> {}]],
     prev |-> [l \in Levels |-> [b \in Buddies |-> NULL]],
     next |-> [l \in Levels |-> [b \in {Allocator} \cup Buddies |-> NULL]]]

\* init_page_allocator.
Init ==
    /\ kmem = kmem_buddy_new(Cleared, 1)
    /\ buddy_array_pos = 1
    /\ used = {}
    /\ lost = {}
    /\ panic = "no"

First(S) == CHOOSE x \in S : \A y \in S : x <= y

\* buddy_alloc from k: the lowest free block of the first buddy of the list.
\* If that buddy has none, a kassert fails for 4k and 8k, and for 16k and 32k
\* ctz of 0 makes what follows undefined: the model stops in both cases.
buddy_alloc(k, n) ==
    LET b == k.next[n][Allocator]
        i == First(k.bits[b][n])
    IN  IF k.bits[b][n] = {}
        THEN panic' = "no free block" /\ UNCHANGED <<kmem, used>>
        ELSE /\ kmem' = alloc(k, b, n, i)
             /\ used' = used \cup {[b |-> b, l |-> n, i |-> i]}
             /\ panic' = panic

\* kmem_alloc_4k, _8k, _16k and _32k; an empty list calls for a new buddy.
kmem_alloc(n) ==
    /\ panic = "no"
    /\ \/ /\ kmem.next[n][Allocator] # NULL
          /\ buddy_alloc(kmem, n)
          /\ UNCHANGED buddy_array_pos
       \/ /\ kmem.next[n][Allocator] = NULL
          /\ buddy_array_pos < MaxBuddies
          /\ buddy_alloc(kmem_buddy_new(kmem, buddy_array_pos + 1), n)
          /\ buddy_array_pos' = buddy_array_pos + 1
       \/ /\ kmem.next[n][Allocator] = NULL
          /\ buddy_array_pos = MaxBuddies
          /\ buddy_array_pos' = buddy_array_pos + 1
          /\ panic' = "buddy_array"
          /\ UNCHANGED <<kmem, used>>
    /\ UNCHANGED lost

\* kmem_free_4k, _8k, _16k and _32k of a block allocated with that size.
kmem_free(n) ==
    /\ panic = "no"
    /\ \E u \in used \ lost :
            /\ u.l = n
            /\ kmem' = free(kmem, u.b, n, u.i)
            /\ used' = used \ {u}
    /\ UNCHANGED <<buddy_array_pos, lost, panic>>

\* create_kernel_stack allocates a stack with kmem_alloc_8k, and when the task
\* is gone _sched_final_free gives it to kmem_free_4k: half of it stays in use.
free_stack ==
    /\ panic = "no"
    /\ \E u \in used \ lost :
            LET half == [b |-> u.b, l |-> 0, i |-> 2 * u.i + 1] IN
            /\ u.l = 1
            /\ kmem' = free(kmem, u.b, 0, 2 * u.i)
            /\ used' = (used \ {u}) \cup {half}
            /\ lost' = lost \cup {half}
    /\ UNCHANGED <<buddy_array_pos, panic>>

\* kpanic ends in a hlt loop.
Halt == panic # "no" /\ UNCHANGED vars

Next ==
    \/ \E n \in Levels : kmem_alloc(n) \/ kmem_free(n)
    \/ free_stack
    \/ Halt

Spec == Init /\ [][Next]_vars

----------------------------------------------------------------------------
(***************************************************************************)
(* Properties.                                                             *)
(***************************************************************************)

\* Types of the variables.
TypeOK ==
    /\ kmem \in Kmem
    /\ buddy_array_pos \in Nat
    /\ used \subseteq [b : Buddies, l : Levels, i : Blocks(0)]
    /\ lost \subseteq used
    /\ panic \in {"no", "no free block", "buddy_array"}

\* The 4k pages of a block that was given out.
Pages(u) == Inside(u.i, u.l, 0)

\* buddy::alloc never gives out memory that is already in use: two blocks
\* held at the same time have no page in common, whatever their sizes.
NoOverlap ==
    \A u, v \in used : u # v /\ u.b = v.b => Pages(u) \cap Pages(v) = {}

\* The buddies that have been set up.
InUse == {b \in Buddies : b <= buddy_array_pos}

\* The bitmaps of all levels agree: the bit of a block is set exactly if no
\* page of it is in use, so that alloc never splits a block twice and free_up
\* merges blocks as soon, and only when, both halves are free.  This is so
\* even after stacks were freed with half their size: the other half is lost,
\* and nothing else is.
BitmapsExact ==
    \A b \in InUse : \A l \in Levels :
        kmem.bits[b][l] =
            {i \in Blocks(l) : \A u \in used :
                u.b = b => Pages(u) \cap Inside(i, l, 0) = {}}

\* The list of a level, from its head.
List(l) ==
    LET at[k \in 0 .. MaxBuddies + 1] ==
            IF k = 0 THEN Allocator
            ELSE IF at[k - 1] = NULL THEN NULL ELSE kmem.next[l][at[k - 1]]
    IN  {at[k] : k \in 1 .. MaxBuddies + 1} \ {NULL}

\* A buddy is in the list of a level exactly if it has a free block there:
\* memory that is free can be found, and what is found is free.  This is so
\* until a second buddy is added (see HeadIsFreeOrNull).
ListsExact ==
    buddy_array_pos = 1 =>
        \A l \in Levels : List(l) = {b \in InUse : kmem.bits[b][l] # {}}

\* "start of linked list, use next_N, which is either a free buddy or
\* nullptr" (page_allocator.cpp).
HeadIsFreeOrNull ==
    \A l \in Levels :
        kmem.next[l][Allocator] = NULL \/ kmem.bits[kmem.next[l][Allocator]][l] # {}
=============================================================================
