----------------------------- MODULE MCProcess -----------------------------
(***************************************************************************)
(* Small instances of Process for TLC.                                     *)
(***************************************************************************)
EXTENDS Process, TLC

\* Kernel tasks, and processes other than init, are interchangeable.
Symmetry == Permutations(Kernel) \cup Permutations(Procs \ {InitProc})
=============================================================================
