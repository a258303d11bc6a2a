-------------------------------- MODULE MCHmem --------------------------------
(* Owners that allocate and free pages of hmem, and write nothing or 0 to    *)
(* the first word: nothing but the allocator puts a page number in memory.   *)
EXTENDS PhysicalMemory

owner_alloc ==
    /\ panic = "no"
    /\ \E p \in Pages : hmem_alloc_page(p)

owner_free ==
    /\ panic = "no"
    /\ \E p \in given : \E w \in {0, word(p)} : hmem_free_page(p, w)

Next ==
    \/ owner_alloc
    \/ owner_free
    \/ panic # "no" /\ UNCHANGED <<phys_vars, panic>>

Spec == PhysInit /\ [][Next]_<<phys_vars, panic>>
=============================================================================
