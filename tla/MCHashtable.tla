----------------------------- MODULE MCHashtable -----------------------------
(* An instance of Hashtable: two buckets, keys that collide, small slabs.   *)
EXTENDS Hashtable, TLC

ValueSymmetry == Permutations(Values)
=============================================================================
