------------------------------- MODULE MCBuddy -------------------------------
(* Instances of BuddyAllocator.                                             *)
EXTENDS BuddyAllocator
=============================================================================
