------------------------------- MODULE MCMutex -------------------------------
(* Instances of Mutex: an idle task and tasks that contend for mutexes.     *)
EXTENDS Mutex, TLC

CONSTANTS idle, a, b, c

BootTwo == <<idle, a, b>>

BootThree == <<idle, a, b, c>>
=============================================================================
