------------------------------ MODULE MutexSpec ------------------------------
(***************************************************************************)
(* What mutexes promise their callers: at most one owner, waiters served   *)
(* in the order in which they came, and ownership handed over, so that a   *)
(* mutex with waiters is never up for grabs.                               *)
(***************************************************************************)
EXTENDS Sequences

CONSTANTS Threads, Locks, NoOne

VARIABLES owner, queue

Waiting == UNION {{queue[m][i] : i \in DOMAIN queue[m]} : m \in Locks}

Init ==
    /\ owner = [m \in Locks |-> NoOne]
    /\ queue = [m \in Locks |-> <<>>]

Acquire(t, m) ==
    /\ owner[m] = NoOne
    /\ owner' = [owner EXCEPT ![m] = t]
    /\ UNCHANGED queue

Enqueue(t, m) ==
    /\ owner[m] \notin {NoOne, t}
    /\ queue' = [queue EXCEPT ![m] = Append(@, t)]
    /\ UNCHANGED owner

Release(m) ==
    /\ owner[m] # NoOne
    /\ queue[m] = <<>>
    /\ owner' = [owner EXCEPT ![m] = NoOne]
    /\ UNCHANGED queue

HandOver(m) ==
    /\ owner[m] # NoOne
    /\ queue[m] # <<>>
    /\ owner' = [owner EXCEPT ![m] = Head(queue[m])]
    /\ queue' = [queue EXCEPT ![m] = Tail(@)]

Next ==
    \E m \in Locks :
        \/ \E t \in Threads \ Waiting : Acquire(t, m) \/ Enqueue(t, m)
        \/ Release(m)
        \/ HandOver(m)

Spec == Init /\ [][Next]_<<owner, queue>>
=============================================================================
