------------------------------ MODULE MCRBTree ------------------------------
(* An instance of RBTree: the nodes are numbered, two of them share a key.  *)
EXTENDS RBTree

CONSTANT Last

MCKey == [n \in Nodes |-> IF n = Last THEN 1 ELSE n]
=============================================================================
