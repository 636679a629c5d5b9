--------------------------- MODULE MCHandleTable ---------------------------
(* HandleTable on small tables, for TLC.                                    *)
EXTENDS HandleTable, TLC

Symmetry == Permutations(Refs) \cup Permutations(Rights)

\* What no operation reads: the flags a close leaves in a free slot, and the
\* rights an object had before its address was freed.
View ==
    <<object, rights, retained, generation, retainedRefs, ref, orefs, pending,
      watch, wrapped,
      [t \in Tables |-> [s \in Slots |-> object[t][s] # None /\ closing[t][s]]],
      [t \in Tables |-> [s \in Slots |-> object[t][s] = None \/ inheritable[t][s]]],
      [o \in Objects |-> IF orefs[o] = 0 THEN {} ELSE granted[o]]>>
=============================================================================
