------------------------------ MODULE Hashtable ------------------------------
(***************************************************************************)
(* ds::hashtable (kernel/util/ds/hashtable.hpp): N buckets, each the head  *)
(* of a circular list and itself a cell, empty when its obj is null.  Every*)
(* operation holds a scoped_preemptlock, so each is one action.  Further   *)
(* cells come from a slab allocator, __hashtable_link_alloc.               *)
(***************************************************************************)
EXTENDS IntrusiveList, SlabAllocator

CONSTANTS
    N,          \* number of buckets, a power of two
    Keys,
    Values

ASSUME NAssumption == N \in Nat \ {0}

ASSUME KeysAssumption == Keys \subseteq Nat

\* A link is named by where it is: m_arr[h] is <<0, h>>, object i of slab s
\* is <<s, i>>.
Buckets == {0} \X (0 .. N - 1)

Cells == Slabs \X Objects

Link == Buckets \cup Cells

ASSUME ValuesAssumption == NULL \notin Values \cup Link

VARIABLES
    list,       \* l_prev and l_next of every link
    key,        \* __ht_link::key
    obj         \* __ht_link::obj

vars == <<list, key, obj, slab_vars>>

\* (val * 0x61C88647) & (N - 1); N divides 2^32, so the factor and the
\* product can be reduced modulo N.
hash(val) == <<0, (val * (1640531527 % N)) % N>>

\* The key field of a bucket starts as 0, like every key.
Init ==
    /\ list = Fresh(Link)
    /\ key = [l \in Link |-> 0]
    /\ obj = [l \in Link |-> NULL]
    /\ SlabInit

----------------------------------------------------------------------------
\* The loop over the chain of k's bucket h: the first link with key k, or NULL.
lookup_internal(k, h) ==
    LET from[l \in Link] ==
            IF key[l] = k THEN l
            ELSE IF list.l_next[l] = h THEN NULL ELSE from[list.l_next[l]]
    IN  from[h]

lookup(k) ==
    LET link == lookup_internal(k, hash(k))
    IN  IF link = NULL THEN NULL ELSE obj[link]

\* insert: callers look the key up first.
insert(k, v) ==
    /\ lookup(k) = NULL
    /\ LET h == hash(k) IN
       \/ /\ obj[h] = NULL
          /\ key' = [key EXCEPT ![h] = k]
          /\ obj' = [obj EXCEPT ![h] = v]
          /\ UNCHANGED <<list, slab_vars>>
       \/ /\ obj[h] # NULL
          /\ \E c \in Cells :
                /\ allocate(c)
                /\ key' = [key EXCEPT ![c] = k]
                /\ obj' = [obj EXCEPT ![c] = v]
                /\ list' = add_after_self(list, h, c)

\* Mutant: the cell is unlinked and never given back.
Drop_leaked(c) ==
    /\ list' = unlink(list, c)
    /\ UNCHANGED slab_vars

\* A cell is unlinked and given back; its fields are dead from then on.
Drop(c) ==
    /\ list' = unlink(list, c)
    /\ free(c)

\* Mutant: a bucket is emptied although a chain hangs from it.
remove_head(k) ==
    LET link == lookup_internal(k, hash(k))
    IN  /\ link # NULL
        /\ obj' = [obj EXCEPT ![link] = NULL]
        /\ key' = [key EXCEPT ![link] = 0]
        /\ IF link = hash(k) THEN UNCHANGED <<list, slab_vars>> ELSE Drop(link)

\* remove: the bucket itself cannot be unlinked, the next cell moves into it.
remove(k) ==
    LET h    == hash(k)
        link == lookup_internal(k, h)
        next == list.l_next[h]
    IN  \/ /\ link = NULL
           /\ UNCHANGED vars
        \/ /\ link = h
           /\ next = h
           /\ obj' = [obj EXCEPT ![h] = NULL]
           /\ UNCHANGED <<list, key, slab_vars>>
        \/ /\ link = h
           /\ next # h
           /\ key' = [key EXCEPT ![h] = key[next], ![next] = 0]
           /\ obj' = [obj EXCEPT ![h] = obj[next], ![next] = NULL]
           /\ Drop(next)
        \/ /\ link \notin {h, NULL}
           /\ key' = [key EXCEPT ![link] = 0]
           /\ obj' = [obj EXCEPT ![link] = NULL]
           /\ Drop(link)

Next ==
    \E k \in Keys :
        \/ \E v \in Values : insert(k, v)
        \/ remove(k)

Spec == Init /\ [][Next]_vars

----------------------------------------------------------------------------
\* Types of the variables.
TypeOK ==
    /\ list \in Heap(Link)
    /\ key \in [Link -> Nat]
    /\ obj \in [Link -> Values \cup {NULL}]
    /\ SlabTypeOK

\* insert and remove keep every chain well formed and lose no cell: the lists
\* are linked both ways, a chain has nothing but cells in use with an entry of
\* its bucket, every cell taken from the allocator is in the chain of its key's
\* bucket, a cell that was given back is in none, and an empty bucket has no
\* chain behind it, so that insert does not hide one.
ChainsExact ==
    /\ Linked(list, Link)
    /\ \A h \in Buckets :
        LET chain == After(list, Link, h) IN
        /\ \A i \in DOMAIN chain :
            /\ chain[i] \in used
            /\ obj[chain[i]] # NULL
            /\ hash(key[chain[i]]) = h
        /\ \A c \in used : hash(key[c]) = h => \E i \in DOMAIN chain : chain[i] = c
        /\ IF obj[h] = NULL THEN chain = <<>> ELSE hash(key[h]) = h
    /\ \A c \in Cells \ used : lonely(list, c)

\* The table implements a map: lookup tells what insert and remove did.
Map == INSTANCE MapSpec WITH
    None <- NULL, map <- [k \in Keys |-> lookup(k)]

ImplementsMap == Map!Spec
=============================================================================
