----------------------------- MODULE MCScheduler -----------------------------
(* The scheduler alone: no mutex, three tasks created while it runs.        *)
EXTENDS Scheduler

CONSTANTS idle, main, t1, t2, t3

MCBoot == <<idle, main>>
=============================================================================
