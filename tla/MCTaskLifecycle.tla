--------------------------- MODULE MCTaskLifecycle ---------------------------
(* Instances of TaskLifecycle.                                              *)
EXTENDS TaskLifecycle

CONSTANTS idle, a, b, c

BootTwo == <<idle, a, b>>

BootThree == <<idle, a, b, c>>
=============================================================================
