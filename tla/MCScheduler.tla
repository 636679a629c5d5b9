---------------------------- MODULE MCScheduler ----------------------------
(***************************************************************************)
(* Small instances of Scheduler for TLC.                                   *)
(***************************************************************************)
EXTENDS Scheduler, TLC

\* Tasks of one kind, and wait queues, are interchangeable (safety runs only).
Symmetry ==
    Permutations(Kernel) \cup Permutations(User) \cup Permutations(Queues)
=============================================================================
