------------------------------- MODULE MCVfs -------------------------------
(***************************************************************************)
(* Small instances of Vfs for TLC.                                         *)
(***************************************************************************)
EXTENDS Vfs, TLC

\* Nodes that kmalloc hands out, names and processes are interchangeable.
Symmetry == Permutations(Nodes \ (Volumes \cup {Root})) \cup Permutations(Names)
            \cup Permutations(Procs)
=============================================================================
