---------------------------- MODULE IntrusiveList ----------------------------
(***************************************************************************)
(* ds::intrusive_doubly_linked_node (kernel/util/ds/list.hpp): circular,   *)
(* doubly linked, intrusive.  A heap of nodes is a record of the two       *)
(* pointer fields; a node that is alone points at itself.  The operators   *)
(* return the heap after the call.                                         *)
(***************************************************************************)
EXTENDS Naturals, FiniteSets

\* The nodes' pointer fields, as a type.
Heap(Node) == [l_prev : [Node -> Node], l_next : [Node -> Node]]

\* The constructor: every node is a singleton list of itself.
Fresh(Node) == [l_prev |-> [n \in Node |-> n], l_next |-> [n \in Node |-> n]]

lonely(l, n) == l.l_next[n] = n

unlink(l, n) ==
    [l_next |-> [l.l_next EXCEPT ![l.l_prev[n]] = l.l_next[n], ![n] = n],
     l_prev |-> [l.l_prev EXCEPT ![l.l_next[n]] = l.l_prev[n], ![n] = n]]

add_after_self(l, self, t) ==
    [l_next |-> [l.l_next EXCEPT ![t] = l.l_next[self], ![self] = t],
     l_prev |-> [l.l_prev EXCEPT ![t] = self, ![l.l_next[self]] = t]]

\* The nodes an iteration (begin, ++, ... until end) meets after node n, in
\* order.  Node bounds the walk: in a well linked heap it always returns to n.
After(l, Node, n) ==
    LET size == Cardinality(Node)
        at[k \in 0 .. size] == IF k = 0 THEN n ELSE l.l_next[at[k - 1]]
        back == {k \in 1 .. size : at[k] = n}
        len  == IF back = {} THEN size
                ELSE (CHOOSE k \in back : \A j \in back : k <= j) - 1
    IN  [k \in 1 .. len |-> at[k]]

\* Both directions agree: what the pointer surgery must preserve.
Linked(l, Node) ==
    \A n \in Node : l.l_prev[l.l_next[n]] = n /\ l.l_next[l.l_prev[n]] = n
=============================================================================
