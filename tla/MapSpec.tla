------------------------------- MODULE MapSpec -------------------------------
(* What a table promises: a map from keys to values that insertion and      *)
(* removal change at one key.                                               *)
CONSTANTS Keys, Values, None

VARIABLE map

Init == map = [k \in Keys |-> None]

\* The other keys keep their values.
Only(k) == \A j \in Keys \ {k} : map'[j] = map[j]

Insert(k) == map[k] = None /\ map'[k] \in Values /\ Only(k)

Remove(k) == map'[k] = None /\ Only(k)

Next == \E k \in Keys : Insert(k) \/ Remove(k)

Spec == Init /\ [][Next]_map
=============================================================================
