-------------------------------- MODULE RBTree --------------------------------
(***************************************************************************)
(* ds::rbtree (kernel/util/ds/rbtree.hpp), for now an unbalanced binary    *)
(* search tree whose nodes are embedded in the items.  A node keeps its    *)
(* fields when it is removed.                                              *)
(***************************************************************************)
EXTENDS Integers, FiniteSets

CONSTANTS
    Nodes,
    Key,        \* the key that a node's compare() compares with
    NULL

ASSUME NodesAssumption == IsFiniteSet(Nodes) /\ NULL \notin Nodes

ASSUME KeyAssumption == Key \in [Nodes -> Int]

LEFT == 0

RIGHT == 1

VARIABLES
    m_root,
    m_parent,       \* intrusive_rb_node::m_parent
    m_children,     \* intrusive_rb_node::m_children
    items           \* the nodes inserted and not removed since

vars == <<m_root, m_parent, m_children, items>>

Ref == Nodes \cup {NULL}

Init ==
    /\ m_root = NULL
    /\ m_parent = [n \in Nodes |-> NULL]
    /\ m_children = [n \in Nodes |-> [d \in {LEFT, RIGHT} |-> NULL]]
    /\ items = {}

----------------------------------------------------------------------------
(***************************************************************************)
(* The loops.  Each follows pointers until it stays where it is; no path   *)
(* has more nodes than there are.                                          *)
(***************************************************************************)
Follow(step(_), from) ==
    LET at[k \in 0 .. Cardinality(Nodes) + 1] ==
            IF k = 0 THEN from ELSE step(at[k - 1])
    IN  at[Cardinality(Nodes) + 1]

\* As far as possible in direction d from n: first(), last(), and the loops
\* of prev_or_next and remove_me.
Extreme(n, d) ==
    LET step(x) == IF m_children[x][d] = NULL THEN x ELSE m_children[x][d]
    IN  Follow(step, n)

first == IF m_root = NULL THEN NULL ELSE Extreme(m_root, LEFT)

last == IF m_root = NULL THEN NULL ELSE Extreme(m_root, RIGHT)

prev_or_next(n, d) ==
    IF m_children[n][d] # NULL THEN Extreme(m_children[n][d], 1 - d)
    ELSE LET step(x) == IF m_parent[x] # NULL /\ m_children[m_parent[x]][d] = x
                        THEN m_parent[x] ELSE x
         IN  m_parent[Follow(step, n)]

\* The direction in which node n sends the search for key k.
Dir(n, k) == IF k < Key[n] THEN LEFT ELSE RIGHT

find(k) ==
    LET step(x) == IF x = NULL THEN NULL
                   ELSE IF Key[x] = k THEN x
                   ELSE m_children[x][Dir(x, k)]
    IN  Follow(step, m_root)

\* Where insert's loop ends when the key is not there: the last node it saw.
Parent(k) ==
    LET step(x) == IF x = NULL \/ m_children[x][Dir(x, k)] = NULL THEN x
                   ELSE m_children[x][Dir(x, k)]
    IN  Follow(step, m_root)

----------------------------------------------------------------------------
\* rbtree::insert and intrusive_rb_node::insert; FALSE (and no change) if an
\* item has the same key.
insert(n) ==
    /\ n \notin items
    /\ find(Key[n]) = NULL
    /\ LET p == Parent(Key[n])
           fresh == [m_children EXCEPT ![n] = [d \in {LEFT, RIGHT} |-> NULL]]
       IN  /\ m_parent' = [m_parent EXCEPT ![n] = p]
           /\ m_root' = IF p = NULL THEN n ELSE m_root
           /\ m_children' = IF p = NULL THEN fresh
                            ELSE [fresh EXCEPT ![p][Dir(p, Key[n])] = n]
    /\ items' = items \cup {n}

\* Mutant: the child is always taken for a left one.
Replace_left(c, p, old, new) ==
    IF p = NULL THEN c ELSE [c EXCEPT ![p][LEFT] = new]

\* The children c with the one of p that is `old` replaced by `new`
\* (dir_of_child prefers LEFT); nothing if p is null.
Replace(c, p, old, new) ==
    IF p = NULL THEN c
    ELSE [c EXCEPT ![p][IF c[p][LEFT] = old THEN LEFT ELSE RIGHT] = new]

\* Mutant: children keep the parent they had.
Adopt_none(parents, x, r) == parents

\* Node n replaced by r as the parent of x, unless x is null.
Adopt(parents, x, r) == IF x = NULL THEN parents ELSE [parents EXCEPT ![x] = r]

\* remove_me for a node without children.
remove_leaf(n) ==
    /\ m_children[n][LEFT] = NULL
    /\ m_children[n][RIGHT] = NULL
    /\ m_root' = IF m_root = n THEN NULL ELSE m_root
    /\ m_children' = IF m_root = n THEN m_children
                     ELSE Replace(m_children, m_parent[n], n, NULL)
    /\ UNCHANGED m_parent

\* remove_me otherwise: the predecessor (or, without a left child, the
\* successor) is unlinked from its place, and takes that of n.
remove_inner(n) ==
    LET d  == IF m_children[n][LEFT] = NULL THEN RIGHT ELSE LEFT
        r  == Extreme(m_children[n][d], 1 - d)
        rc == IF m_children[r][LEFT] # NULL THEN m_children[r][LEFT]
              ELSE m_children[r][RIGHT]
        unlinked == Replace(m_children, m_parent[r], r, rc)
        parents  == Adopt(m_parent, rc, m_parent[r])
        mine     == unlinked[n]
    IN  /\ \E e \in {LEFT, RIGHT} : m_children[n][e] # NULL
        /\ m_children' = Replace([unlinked EXCEPT ![r] = mine],
                                 m_parent[n], n, r)
        /\ m_parent' = Adopt(Adopt([parents EXCEPT ![r] = parents[n]],
                                   mine[LEFT], r), mine[RIGHT], r)
        /\ m_root' = IF m_parent[n] = NULL THEN r ELSE m_root

remove(n) ==
    /\ n \in items
    /\ remove_leaf(n) \/ remove_inner(n)
    /\ items' = items \ {n}

\* reset forgets the tree.
reset ==
    /\ m_root' = NULL
    /\ items' = {}
    /\ UNCHANGED <<m_parent, m_children>>

Next ==
    \/ \E n \in Nodes : insert(n) \/ remove(n)
    \/ reset

Spec == Init /\ [][Next]_vars

----------------------------------------------------------------------------
\* find gives the item with a key, for every key in and out of the tree, after
\* any sequence of insertions and removals.
FindExact ==
    \A k \in {Key[n] : n \in Nodes} :
        LET there == {n \in items : Key[n] = k} IN
        IF there = {} THEN find(k) = NULL ELSE {find(k)} = there

\* The item next to n in the order of keys, in direction d; NULL at the end.
Neighbour(n, d) ==
    LET beyond == {m \in items : IF d = RIGHT THEN Key[m] > Key[n]
                                 ELSE Key[m] < Key[n]}
    IN  IF beyond = {} THEN NULL
        ELSE CHOOSE m \in beyond : \A o \in beyond :
                IF d = RIGHT THEN Key[m] <= Key[o] ELSE Key[m] >= Key[o]

\* first, last, next_node and prev_node walk the items in the order of their
\* keys, both ways: the parent pointers that only they use agree with the
\* children pointers that insert and remove_me rewire.
WalksInOrder ==
    /\ first = NULL <=> items = {}
    /\ last = NULL <=> items = {}
    /\ items # {} => Neighbour(first, LEFT) = NULL /\ first \in items
    /\ items # {} => Neighbour(last, RIGHT) = NULL /\ last \in items
    /\ \A n \in items : \A d \in {LEFT, RIGHT} :
            prev_or_next(n, d) = Neighbour(n, d)
=============================================================================
