------------------------------ MODULE MCMemory ------------------------------
(***************************************************************************)
(* Small instances of Memory for TLC.  Tables have two entries, so user     *)
(* pages start at 8; 11 and 12 are neighbours in different page            *)
(* directories, and the stack shares a directory with 12.                   *)
(***************************************************************************)
EXTENDS Memory

MCFrames == 1..20
MCUserPages == 11..12
MCFlags == {{"WRITABLE"}, {"EXECUTABLE"}}
MCStackPages == <<14, 15>>

\* An image in two directories, which leaves no room for another table; one in
\* the stack's directory, whose second segment overlaps the first.
MCImages ==
    {<<[page |-> 8, flags |-> {"EXECUTABLE"}], [page |-> 12, flags |-> {"WRITABLE"}]>>,
     <<[page |-> 13, flags |-> {"EXECUTABLE"}], [page |-> 13, flags |-> {"WRITABLE"}]>>}

\* States are told apart up to a renaming of the frames: which free frame is the
\* lowest makes no difference to what happens next.  A frame's new name is its
\* first place in the lists of the processes, 0 when it is in none.
View ==
    LET all == FoldSet(LAMBDA p, s : s \o FramesOf(p), <<>>, Procs)
        Name(frame) == IF frame \in Range(all) THEN SelectInSeq(all, LAMBDA f : f = frame) ELSE 0
        Named(s) == [i \in DOMAIN s |-> [s[i] EXCEPT !.frame = Name(@)]]
        Size(S) == <<Cardinality(S), {Name(f) : f \in S}>>
    IN  <<[p \in Procs |->
              [tables |-> [t \in DOMAIN space[p].tables |-> Name(space[p].tables[t])],
               lists |-> [i \in DOMAIN FramesOf(p) |-> Name(FramesOf(p)[i])],
               pte |-> Named(space[p].pte), anon |-> Named(space[p].anon),
               image |-> Named(space[p].image), stack |-> Len(space[p].stack)]],
          Size(free), Size(heap), Size(lost),
          {<<t[1], [t[2] EXCEPT !.frame = Name(@)]>> : t \in tlb}, state, active, cr3>>
=============================================================================
