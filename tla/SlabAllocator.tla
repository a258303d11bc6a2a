---------------------------- MODULE SlabAllocator ----------------------------
(***************************************************************************)
(* untyped_slab_allocator (kernel/memory/slab.hpp): slabs of NumObjects    *)
(* objects, each slab a bitset of free objects, and a list of the slabs    *)
(* that have one.  Slabs come from kmem and are never given back.  The     *)
(* allocator has no lock: its callers hold one, and the operations are     *)
(* parts of their actions.                                                 *)
(***************************************************************************)
EXTENDS Integers, FiniteSets

CONSTANTS
    MaxSlabs,       \* bound: slabs that kmem gives
    NumObjects,     \* num_objects_in_page
    NULL

ASSUME SlabsAssumption == MaxSlabs \in Nat \ {0}

ASSUME ObjectsAssumption == NumObjects \in Nat \ {0}

Slabs == 1 .. MaxSlabs

Objects == 0 .. NumObjects - 1

ASSUME NULLAssumption == NULL \notin Slabs

VARIABLES
    m_free_list,    \* the first slab of the list, or NULL
    m_next,         \* slab::m_next
    m_bits,         \* slab::m_bits, the free objects
    pages,          \* slabs obtained from kmem so far
    used            \* objects given out, as <<slab, bit>>

slab_vars == <<m_free_list, m_next, m_bits, pages, used>>

SlabInit ==
    /\ m_free_list = NULL
    /\ m_next = [s \in Slabs |-> NULL]
    /\ m_bits = [s \in Slabs |-> {}]
    /\ pages = 0
    /\ used = {}

----------------------------------------------------------------------------

\* find_bit
find_bit(bits) == CHOOSE i \in bits : \A j \in bits : i <= j

\* Mutant: the bit is not cleared unless it is the last one.
Take_kept(o, s, bits, tail) ==
    /\ o = <<s, find_bit(bits)>>
    /\ m_bits' = [m_bits EXCEPT ![s] = IF Cardinality(bits) = 1 THEN {}
                                       ELSE bits]
    /\ m_free_list' = IF Cardinality(bits) = 1 THEN tail ELSE s
    /\ used' = used \cup {o}

\* The second half of allocate: take an object of slab s, whose bitset is
\* bits, and drop the slab from the front of the list if it was the last one.
Take(o, s, bits, tail) ==
    LET left == bits \ {find_bit(bits)}
    IN  /\ o = <<s, find_bit(bits)>>
        /\ m_bits' = [m_bits EXCEPT ![s] = left]
        /\ m_free_list' = IF left = {} THEN tail ELSE s
        /\ used' = used \cup {o}

\* allocate returns o.
allocate(o) ==
    \/ /\ m_free_list # NULL
       /\ Take(o, m_free_list, m_bits[m_free_list], m_next[m_free_list])
       /\ UNCHANGED <<m_next, pages>>
    \/ /\ m_free_list = NULL            \* need new slab
       /\ pages < MaxSlabs
       /\ pages' = pages + 1
       /\ m_next' = [m_next EXCEPT ![pages + 1] = NULL]
       /\ Take(o, pages + 1, Objects, NULL)

\* Mutant: the slab is linked whether or not it is in the list.
free_relink(o) ==
    /\ m_next' = [m_next EXCEPT ![o[1]] = m_free_list]
    /\ m_free_list' = o[1]
    /\ m_bits' = [m_bits EXCEPT ![o[1]] = @ \cup {o[2]}]
    /\ used' = used \ {o}
    /\ UNCHANGED pages

\* Mutant: the bit of the next object is computed.
free_past(o) ==
    /\ m_next' = IF m_bits[o[1]] = {} THEN [m_next EXCEPT ![o[1]] = m_free_list]
                 ELSE m_next
    /\ m_free_list' = IF m_bits[o[1]] = {} THEN o[1] ELSE m_free_list
    /\ m_bits' = [m_bits EXCEPT ![o[1]] = @ \cup {o[2] + 1}]
    /\ used' = used \ {o}
    /\ UNCHANGED pages

\* free: the slab and the bit come from the address.  A slab without free
\* objects is not in the list, and goes to its front.
free(o) ==
    LET s == o[1]
        i == o[2]
        full == m_bits[s] = {}
    IN  /\ m_next' = IF full THEN [m_next EXCEPT ![s] = m_free_list]
                     ELSE m_next
        /\ m_free_list' = IF full THEN s ELSE m_free_list
        /\ m_bits' = [m_bits EXCEPT ![s] = @ \cup {i}]
        /\ used' = used \ {o}
        /\ UNCHANGED pages

----------------------------------------------------------------------------
\* Types of the variables.
SlabTypeOK ==
    /\ m_free_list \in Slabs \cup {NULL}
    /\ m_next \in [Slabs -> Slabs \cup {NULL}]
    /\ m_bits \in [Slabs -> SUBSET Objects]
    /\ pages \in 0 .. MaxSlabs
    /\ used \subseteq Slabs \X Objects

\* allocate never gives out an object that is in use, and free loses none: an
\* object of a slab is either in use or has its bit set.
ObjectsConserved ==
    \A s \in Slabs : \A i \in Objects :
        s <= pages => (<<s, i>> \in used <=> i \notin m_bits[s])

\* The slabs met along m_next from m_free_list, in order.
ListFrom ==
    LET at[k \in 0 .. MaxSlabs] ==
            IF k = 0 THEN m_free_list
            ELSE IF at[k - 1] = NULL THEN NULL ELSE m_next[at[k - 1]]
        len == {k \in 0 .. MaxSlabs : at[k] # NULL}
    IN  [k \in {j + 1 : j \in len} |-> at[k - 1]]

\* The list has every slab with a free object, once: a slab that allocate
\* drops from the front of the list comes back exactly when free makes room
\* in it, so no memory is lost and no slab is linked twice.
FreeListExact ==
    /\ {ListFrom[k] : k \in DOMAIN ListFrom} = {s \in Slabs : m_bits[s] # {}}
    /\ \A j, k \in DOMAIN ListFrom : j # k => ListFrom[j] # ListFrom[k]
=============================================================================
