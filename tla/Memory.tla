------------------------------- MODULE Memory -------------------------------
(***************************************************************************)
(* User memory: page frames (mm/physical/frame.c), address spaces           *)
(* (mm/virtual/address_space.c), ELF images (core/process/user_image.c) and *)
(* the processes that own them (core/process/process.c).  The kernel heap   *)
(* appears as the page frames it commits (mm/heap/heap.c).                  *)
(*                                                                          *)
(* Calls that touch one address space are operators on A, the free frames   *)
(* together with that space: A.sp is the space, A.inv the pages the call    *)
(* invalidates, A.lost the frames it forgets, A.ok its result.  They are    *)
(* atomic: interrupts are off in system calls, and one processor runs user  *)
(* code.                                                                    *)
(*                                                                          *)
(* A page is a number.  The table of level k above it has index             *)
(* page \div Entries^k: level 4 is the root, 3 the pdpt, 2 the page         *)
(* directory, 1 the page table.  User pages start at Entries^3 (1 << 39),   *)
(* so the first pdpt, <<3, 0>>, is the one shared with the kernel.  Every   *)
(* mapping in use is a user mapping; Flags are the other two bits.          *)
(***************************************************************************)
EXTENDS Integers, Sequences, FiniteSets, FiniteSetsExt, SequencesExt, Functions, TLC

CONSTANTS
    Frames,      \* page frames above 1 MiB that the memory map reports free
    Entries,     \* entries of a table (512)
    UserPages,   \* pages that system calls name
    Flags,       \* subsets of {"WRITABLE", "EXECUTABLE"}
    Images,      \* ELF images: sequences of pages to load, with flags
    StackPages,  \* the pages of the user stack, lowest first
    Procs,       \* processes
    MaxTables,   \* length of owned_frames (32)
    MaxAnon,     \* ADDRESS_SPACE_MAX_ANONYMOUS_PAGES (128)
    MaxImage,    \* USER_IMAGE_MAX_PAGES
    MaxHeap,     \* HEAP_PAGE_COUNT (4096)
    None         \* no process: the kernel's own page tables

ASSUME MemoryAssumption ==
    /\ Frames \subseteq Nat /\ IsFiniteSet(Frames)
    /\ Entries \in Nat \ {0, 1}
    /\ UserPages \cup Range(StackPages) \subseteq Entries^3 .. Entries^4 - 1
    /\ \A image \in Images : \A i \in DOMAIN image : image[i].page \in Entries^3 .. Entries^4 - 1
    /\ None \notin Procs

VARIABLES
    free,        \* the frames frame_bitmap shows free
    space,       \* space[p]: p's page tables and the lists of frames p owns
    state,       \* state[p]: FREE, READY, RUNNING or EXITED
    active,      \* active_spaces, active_roots of the processor
    cr3,         \* the process whose page tables the processor uses
    tlb,         \* translations it may have cached: pairs of page and entry
    heap,        \* frames mapped in the heap window
    lost         \* history: frames forgotten by a failed process_clone_user

vars == <<free, space, state, active, cr3, tlb, heap, lost>>

NoSpace == [tables |-> <<>>, owned |-> <<>>, pte |-> <<>>,
            anon |-> <<>>, image |-> <<>>, stack |-> <<>>]

With(p) == [free |-> free, sp |-> space[p], inv |-> {}, lost |-> {}, ok |-> TRUE]

Failed(A) == [A EXCEPT !.ok = FALSE]

\* The next step of a call that has succeeded so far; its error path.
Then(A, Step(_)) == IF A.ok THEN Step(A) ELSE A
OrElse(A, Undo(_)) == IF A.ok THEN A ELSE Undo(A)

Without(f, x) == Restrict(f, DOMAIN f \ {x})

-----------------------------------------------------------------------------
(* Page frames. *)

\* The lowest free frame.
physical_alloc_frame(A) == Min(A.free)

physical_free_frame(A, frame) == [A EXCEPT !.free = @ \cup {frame}]

-----------------------------------------------------------------------------
(* Page tables. *)

Table(level, page) == <<level, page \div Entries^level>>
Root == <<4, 0>>
KernelPdpt == <<3, 0>>

\* Table t, if it is not there yet; later steps of a failed call do nothing.
address_space_allocate_table(A, t) ==
    IF ~A.ok \/ t \in DOMAIN A.sp.tables THEN A
    ELSE IF Len(A.sp.owned) >= MaxTables \/ A.free = {} THEN Failed(A)
    ELSE LET frame == physical_alloc_frame(A)
         IN  [A EXCEPT !.free = @ \ {frame},
                       !.sp.tables = @ @@ (t :> frame),
                       !.sp.owned = Append(@, frame)]

\* Mutant: the frames go back, the links in the tables above them stay.
KeepsLinks(A, before, made) ==
    [A EXCEPT !.free = @ \cup Range(SubSeq(A.sp.owned, before + 1, Len(A.sp.owned))),
              !.sp.owned = SubSeq(@, 1, before)]

\* The tables made since there were `before' of them are unlinked and freed.
address_space_rollback_tables(A, before, made) ==
    [A EXCEPT !.free = @ \cup Range(SubSeq(A.sp.owned, before + 1, Len(A.sp.owned))),
              !.sp.owned = SubSeq(@, 1, before),
              !.sp.tables = Restrict(@, DOMAIN @ \ made)]

\* The root and the pdpt with the kernel's mappings.
address_space_create(A) ==
    OrElse(address_space_allocate_table(address_space_allocate_table(A, Root), KernelPdpt),
           LAMBDA B : [Failed(A) EXCEPT !.free = B.free \cup Range(B.sp.owned)])

address_space_map_page(A, page, frame, flags) ==
    LET above == <<Table(3, page), Table(2, page), Table(1, page)>>
        made == {above[1], above[2]} \ DOMAIN A.sp.tables
        Enter(B) == [B EXCEPT !.sp.pte = @ @@ (page :> [frame |-> frame, flags |-> flags])]
        Undo(B) == address_space_rollback_tables(B, Len(A.sp.owned), made)
    IN  IF Root \notin DOMAIN A.sp.tables \/ page \in DOMAIN A.sp.pte THEN Failed(A)
        ELSE OrElse(Then(FoldLeft(address_space_allocate_table, A, above), Enter), Undo)

address_space_table_empty(A, t) ==
    IF t[1] = 1 THEN \A page \in DOMAIN A.sp.pte : Table(1, page) # t
    ELSE \A u \in DOMAIN A.sp.tables : u[1] = t[1] - 1 => u[2] \div Entries # t[2]

\* An empty table is given back; the last of owned_frames takes its place.
address_space_release_table(A, t) ==
    IF ~address_space_table_empty(A, t) THEN A
    ELSE LET frame == A.sp.tables[t]
             n == Len(A.sp.owned)
             i == CHOOSE i \in 1..n : A.sp.owned[i] = frame
         IN  [physical_free_frame(A, frame) EXCEPT
                 !.sp.tables = Without(@, t),
                 !.sp.owned = SubSeq([@ EXCEPT ![i] = A.sp.owned[n]], 1, n - 1)]

invalidate_active_page(A, page) == [A EXCEPT !.inv = @ \cup {page}]

\* Mutant: empty tables stay.
TablesStay(A, page) ==
    IF page \notin DOMAIN A.sp.pte THEN Failed(A)
    ELSE invalidate_active_page([A EXCEPT !.sp.pte = Without(@, page)], page)

address_space_unmap_page(A, page) ==
    IF page \notin DOMAIN A.sp.pte THEN Failed(A)
    ELSE FoldLeft(address_space_release_table,
                  invalidate_active_page([A EXCEPT !.sp.pte = Without(@, page)], page),
                  <<Table(1, page), Table(2, page), Table(3, page)>>)

address_space_update_page_flags(A, page, flags) ==
    IF page \notin DOMAIN A.sp.pte THEN Failed(A)
    ELSE invalidate_active_page([A EXCEPT !.sp.pte[page].flags = flags], page)

\* Mutant: anonymous pages are not given back.
ForgetsAnonymous(A) ==
    [A EXCEPT !.free = @ \cup Range(A.sp.owned),
              !.sp = [NoSpace EXCEPT !.image = A.sp.image, !.stack = A.sp.stack]]

\* The space is not active.  Image and stack pages belong to the process.
address_space_destroy(A) ==
    [A EXCEPT !.free = @ \cup Range(A.sp.owned) \cup {a.frame : a \in Range(A.sp.anon)},
              !.sp = [NoSpace EXCEPT !.image = A.sp.image, !.stack = A.sp.stack]]

-----------------------------------------------------------------------------
(* Anonymous memory. *)

\* A frame for page, mapped.  A failure gives the frame back.
NewPage(A, page, flags) ==
    IF ~A.ok THEN A
    ELSE IF A.free = {} THEN Failed(A)
    ELSE LET frame == physical_alloc_frame(A)
         IN  OrElse(address_space_map_page([A EXCEPT !.free = @ \ {frame}], page, frame, flags),
                    LAMBDA B : physical_free_frame(B, frame))

AnonymousPage(A, page, flags) ==
    Then(NewPage(A, page, flags),
         LAMBDA B : [B EXCEPT !.sp.anon = Append(@, [page |-> page, frame |-> B.sp.pte[page].frame,
                                                     flags |-> flags])])

\* The anonymous pages beyond the first `before' are unmapped and freed, the
\* last one first.
UndoAnonymous(A, before) ==
    FoldLeft(LAMBDA B, a : [physical_free_frame(address_space_unmap_page(B, a.page), a.frame)
                               EXCEPT !.sp.anon = Front(@), !.ok = FALSE],
             A, Reverse(SubSeq(A.sp.anon, before + 1, Len(A.sp.anon))))

address_space_map_anonymous(A, pages, flags) ==
    IF Len(A.sp.anon) > MaxAnon - Len(pages) THEN Failed(A)
    ELSE OrElse(FoldLeft(LAMBDA C, page : AnonymousPage(C, page, flags), A, pages),
                LAMBDA B : UndoAnonymous(B, Len(A.sp.anon)))

\* Page leaves the list of anonymous pages; the last entry takes its place.
UnmapAnonymousPage(A, page) ==
    LET n == Len(A.sp.anon)
        i == CHOOSE i \in 1..n : A.sp.anon[i].page = page
    IN  physical_free_frame(
            [address_space_unmap_page(A, page) EXCEPT
                !.sp.anon = SubSeq([@ EXCEPT ![i] = A.sp.anon[n]], 1, n - 1)],
            A.sp.anon[i].frame)

address_space_unmap_anonymous(A, pages) ==
    IF Range(pages) \subseteq {a.page : a \in Range(A.sp.anon)}
    THEN FoldLeft(UnmapAnonymousPage, A, pages)
    ELSE Failed(A)

\* All pages are checked before the first changes.  The flags in the list of
\* anonymous pages stay as they were.
address_space_protect_range(A, pages, flags) ==
    IF Range(pages) \subseteq DOMAIN A.sp.pte
    THEN FoldLeft(LAMBDA B, page : address_space_update_page_flags(B, page, flags), A, pages)
    ELSE Failed(A)

\* The anonymous pages of source, with the flags they were mapped with.
address_space_clone_anonymous(A, source) ==
    OrElse(FoldLeft(LAMBDA C, a : AnonymousPage(C, a.page, a.flags), A, source.anon),
           LAMBDA B : UndoAnonymous(B, Len(A.sp.anon)))

-----------------------------------------------------------------------------
(* Images and stacks. *)

\* Every image page is unmapped and its frame freed.
release_pages(A) ==
    [FoldLeft(LAMBDA B, page : physical_free_frame(address_space_unmap_page(B, page.page), page.frame),
              A, A.sp.image)
        EXCEPT !.sp.image = <<>>]

\* A page that an earlier segment loaded gets the later segment's flags, unless
\* those are empty; page_flags collects both.
LoadPage(A, page, flags) ==
    LET loaded == {i \in DOMAIN A.sp.image : A.sp.image[i].page = page}
        Enter(B) == [B EXCEPT !.sp.image = Append(@, [page |-> page, frame |-> B.sp.pte[page].frame,
                                                      flags |-> flags])]
    IN  IF ~A.ok THEN A
        ELSE IF loaded # {}
        THEN [(IF flags = {} THEN A ELSE address_space_update_page_flags(A, page, flags))
                 EXCEPT !.sp.image[Min(loaded)].flags = @ \cup flags]
        ELSE IF Len(A.sp.image) >= MaxImage THEN Failed(A)
        ELSE Then(NewPage(A, page, flags), Enter)

\* valid: whether the headers after these segments are, and the entry point is
\* in an executable one.
user_image_load(A, image, valid) ==
    OrElse(Then(FoldLeft(LAMBDA C, seg : LoadPage(C, seg.page, seg.flags), A, image),
                LAMBDA B : [B EXCEPT !.ok = valid /\ B.sp.image # <<>>]),
           release_pages)

user_image_clone(A, source) ==
    Then(address_space_create(A),
         LAMBDA N : OrElse(FoldLeft(LAMBDA C, page : LoadPage(C, page.page, page.flags),
                                    N, source.image),
                           LAMBDA B : address_space_destroy(release_pages(B))))

StackPage(A, page) ==
    Then(NewPage(A, page, {"WRITABLE"}),
         LAMBDA B : [B EXCEPT !.sp.stack = Append(@, B.sp.pte[page].frame)])

process_map_user_stack(A) ==
    LET Undo(C, i) == [physical_free_frame(address_space_unmap_page(C, StackPages[i]), C.sp.stack[i])
                          EXCEPT !.sp.stack = Front(@), !.ok = FALSE]
    IN  OrElse(FoldLeft(StackPage, A, StackPages),
               LAMBDA B : FoldLeft(Undo, B, Reverse([i \in DOMAIN B.sp.stack |-> i])))

-----------------------------------------------------------------------------
(* Processes. *)

\* What process_destroy does to memory; p's page tables are not active.
Destroyed(A) ==
    LET Rest(B) == [B EXCEPT !.free = @ \cup Range(B.sp.stack), !.sp = NoSpace, !.ok = FALSE]
    IN  Rest(address_space_destroy(release_pages(A)))

\* Memory for a new process; started: its thread is created and started.  On
\* any failure the process is destroyed again.
Spawned(A, image, valid, started) ==
    LET Load(B) == user_image_load(B, image, valid)
        Start(B) == [B EXCEPT !.ok = started]
    IN  Then(address_space_create(A),
             LAMBDA B : OrElse(Then(Then(Load(B), process_map_user_stack), Start), Destroyed))

\* process_clone_user: the child, whose own space is in C, takes over a copy of
\* the parent's image and anonymous memory and gets a copy of its stack.  The
\* failure paths give back less than they should: when the anonymous pages
\* cannot be copied the copy's page tables are forgotten, when the stack cannot
\* be copied the stack pages made so far.
Copied(C, parent, started) ==
    LET Destroy(B) == Destroyed([B EXCEPT !.sp = C.sp])
        ForgetTables(B) == [B EXCEPT !.lost = Range(B.sp.owned)]
        Anonymous(B) == OrElse(address_space_clone_anonymous(B, parent),
                               LAMBDA K : Destroy(ForgetTables(release_pages(K))))
        TakeOver(B) == [address_space_destroy([B EXCEPT !.sp = C.sp]) EXCEPT !.sp = B.sp]
        ForgetStack(B) == [B EXCEPT !.lost = Range(B.sp.stack), !.sp.stack = <<>>]
        Stack(B) == OrElse(FoldLeft(StackPage, TakeOver(B), StackPages),
                           LAMBDA S : Destroyed(ForgetStack(S)))
        Start(B) == IF started THEN B ELSE Destroyed(B)
        Image == OrElse(user_image_clone([C EXCEPT !.sp = NoSpace], parent), Destroy)
    IN  Then(Then(Then(Image, Anonymous), Stack), Start)

Cloned(A, parent, started) ==
    Then(address_space_create(A), LAMBDA C : Copied(C, parent, started))

\* Page numbers `first' to `last'.
Pages(first, last) == [i \in 1..last - first + 1 |-> first + i - 1]
Ranges == {Pages(first, last) : first \in UserPages, last \in UserPages} \ {<<>>}

\* The processor may cache any translation of the tables in use.
Translations(S, root) ==
    IF root = None THEN {} ELSE {<<page, S[root].pte[page]>> : page \in DOMAIN S[root].pte}

\* A call on p's memory has had result A.
Becomes(p, A) ==
    /\ free' = A.free
    /\ space' = [space EXCEPT ![p] = A.sp]
    /\ tlb' = {t \in tlb : active # p \/ t[1] \notin A.inv} \cup Translations(space', cr3)

\* The process that makes system calls: the processor executes in its memory.
Runs(p) == state[p] = "RUNNING" /\ active = p /\ cr3 = p

MAP_ANONYMOUS(p) ==
    /\ Runs(p)
    /\ \E pages \in Ranges, flags \in Flags :
           Becomes(p, address_space_map_anonymous(With(p), pages, flags))
    /\ UNCHANGED <<state, active, cr3, heap, lost>>

UNMAP_ANONYMOUS(p) ==
    /\ Runs(p)
    /\ \E pages \in Ranges : Becomes(p, address_space_unmap_anonymous(With(p), pages))
    /\ UNCHANGED <<state, active, cr3, heap, lost>>

PROTECT_MEMORY(p) ==
    /\ Runs(p)
    /\ \E pages \in Ranges, flags \in Flags :
           Becomes(p, address_space_protect_range(With(p), pages, flags))
    /\ UNCHANGED <<state, active, cr3, heap, lost>>

\* SPAWN and process_create_user.
SPAWN(p) ==
    /\ state[p] = "FREE"
    /\ \E image \in Images, valid, started \in BOOLEAN :
           LET Apply(A) ==
                 /\ Becomes(p, A)
                 /\ state' = [state EXCEPT ![p] = IF A.ok THEN "READY" ELSE "FREE"]
           IN  Apply(Spawned(With(p), image, valid, started))
    /\ UNCHANGED <<active, cr3, heap, lost>>

process_clone_user(p, child) ==
    /\ state[p] \in {"READY", "RUNNING"} /\ state[child] = "FREE"
    /\ space[p].image # <<>>
    /\ \E started \in BOOLEAN :
           LET Apply(A) ==
                 /\ Becomes(child, A)
                 /\ state' = [state EXCEPT ![child] = IF A.ok THEN "READY" ELSE "FREE"]
                 /\ lost' = lost \cup A.lost
           IN  Apply(Cloned(With(child), space[p], started))
    /\ UNCHANGED <<active, cr3, heap>>

\* Loading the page root empties the translation cache.
process_activate(p) ==
    /\ state[p] \in {"READY", "RUNNING"} /\ space[p].stack # <<>>
    /\ state' = [state EXCEPT ![p] = "RUNNING"]
    /\ active' = p /\ cr3' = p
    /\ tlb' = Translations(space, p)
    /\ UNCHANGED <<free, space, heap, lost>>

address_space_activate_kernel ==
    /\ active # None
    /\ active' = None /\ cr3' = None /\ tlb' = {}
    /\ UNCHANGED <<free, space, state, heap, lost>>

\* process_exit_current and process_terminate.
Exit(p) ==
    /\ state[p] \in {"READY", "RUNNING"}
    /\ state' = [state EXCEPT ![p] = "EXITED"]
    /\ UNCHANGED <<free, space, active, cr3, tlb, heap, lost>>

\* The image goes; then, if the page tables are not active, everything else.
process_destroy(p) ==
    /\ state[p] \in {"READY", "EXITED"}
    /\ IF active = p
       THEN Becomes(p, release_pages(With(p))) /\ UNCHANGED state
       ELSE Becomes(p, Destroyed(With(p))) /\ state' = [state EXCEPT ![p] = "FREE"]
    /\ UNCHANGED <<active, cr3, heap, lost>>

\* commit_page: the heap grows by a page.  virtual_memory_map_page ends with
\* loading the kernel's page root.
commit_page ==
    /\ free # {} /\ Cardinality(heap) < MaxHeap
    /\ heap' = heap \cup {Min(free)}
    /\ free' = free \ {Min(free)}
    /\ cr3' = None /\ tlb' = {}
    /\ UNCHANGED <<space, state, active, lost>>

Init ==
    /\ free = Frames
    /\ space = [p \in Procs |-> NoSpace]
    /\ state = [p \in Procs |-> "FREE"]
    /\ active = None /\ cr3 = None /\ tlb = {}
    /\ heap = {} /\ lost = {}

Next ==
    \/ \E p \in Procs :
          \/ MAP_ANONYMOUS(p) \/ UNMAP_ANONYMOUS(p) \/ PROTECT_MEMORY(p)
          \/ SPAWN(p) \/ process_activate(p) \/ Exit(p) \/ process_destroy(p)
          \/ \E child \in Procs : process_clone_user(p, child)
    \/ address_space_activate_kernel
    \/ commit_page

Spec == Init /\ [][Next]_vars

-----------------------------------------------------------------------------
(* Properties. *)

\* Every variable has its type and every list its bound.
TypeOK ==
    /\ free \subseteq Frames /\ heap \subseteq Frames /\ lost \subseteq Frames
    /\ state \in [Procs -> {"FREE", "READY", "RUNNING", "EXITED"}]
    /\ active \in Procs \cup {None} /\ cr3 \in Procs \cup {None}
    /\ Cardinality(heap) <= MaxHeap
    /\ \A p \in Procs :
          /\ Range(space[p].tables) \subseteq Frames
          /\ space[p].owned \in Seq(Frames) /\ Len(space[p].owned) <= MaxTables
          /\ Len(space[p].anon) <= MaxAnon /\ Len(space[p].image) <= MaxImage
          /\ space[p].stack \in Seq(Frames)
          /\ Len(space[p].stack) \in {0, Len(StackPages)}
          /\ \A a \in Range(space[p].anon) \cup Range(space[p].image) :
                a.frame \in Frames /\ a.flags \subseteq {"WRITABLE", "EXECUTABLE"}

\* The frames process p has to give back, in the order of its lists.
FramesOf(p) ==
    LET S == space[p]
    IN  S.owned \o S.stack \o [i \in DOMAIN S.anon |-> S.anon[i].frame]
                \o [i \in DOMAIN S.image |-> S.image[i].frame]

\* Every frame is free, or in exactly one list of one process, or in the heap,
\* or forgotten by a failed clone.  So no call frees a frame twice, frees a
\* frame that is in use, or, process_clone_user aside, loses one, whichever
\* allocation fails on the way.
FramesAccounted ==
    LET Used == UNION {Range(FramesOf(p)) : p \in Procs}
    IN  /\ \A p \in Procs : IsInjective(FramesOf(p))
        /\ \A p, q \in Procs : p # q => Range(FramesOf(p)) \cap Range(FramesOf(q)) = {}
        /\ Frames = free \cup heap \cup lost \cup Used
        /\ Cardinality(Frames) = Cardinality(free) + Cardinality(heap) + Cardinality(lost)
                                 + Cardinality(Used)

\* Typed, and every frame accounted for.
MemoryAccounted == TypeOK /\ FramesAccounted

\* What p's page tables show is what p owns: each mapped page is one entry of
\* the image, the stack or the anonymous list, with the same frame, and each
\* entry is mapped.  A process never sees a frame of another process, of the
\* kernel or of the free pool.
MappingsOwned ==
    \A p \in Procs : space[p].owned # <<>> =>
        LET S == space[p]
            Entry(a) == <<a.page, a.frame>>
        IN  {<<page, S.pte[page].frame>> : page \in DOMAIN S.pte}
              = {Entry(a) : a \in Range(S.anon) \cup Range(S.image)}
                \cup {<<StackPages[i], S.stack[i]>> : i \in DOMAIN S.stack}

\* A space has the tables its pages need and no others, and owned_frames lists
\* their frames: "failed page-table allocation rolls back newly installed table
\* links and owned frames" (docs/ROADMAP.md), and unmapping prunes.
TablesExact ==
    \A p \in Procs : space[p].owned # <<>> =>
        /\ DOMAIN space[p].tables =
               {Root, KernelPdpt}
               \cup {Table(level, page) : level \in 1..3, page \in DOMAIN space[p].pte}
        /\ Range(space[p].tables) = Range(space[p].owned)

\* A call that fails leaves the frames and the space as they were: "anonymous
\* mapping rollback", "failed ranges unchanged" (docs/ROADMAP.md), whichever
\* page, table or limit it fails at; so does a SPAWN.
FailureRestores ==
    LET Restored(A, p) == A.ok \/ (A.free = free /\ A.sp = space[p])
    IN  \A p \in Procs :
          /\ state[p] = "FREE" =>
                \A image \in Images, valid, started \in BOOLEAN :
                   Restored(Spawned(With(p), image, valid, started), p)
          /\ Runs(p) => \A pages \in Ranges, flags \in Flags :
                /\ Restored(address_space_map_anonymous(With(p), pages, flags), p)
                /\ Restored(address_space_unmap_anonymous(With(p), pages), p)
                /\ Restored(address_space_protect_range(With(p), pages, flags), p)

\* "Active address-space page flag updates and unmaps now issue `invlpg', so
\* permission and lifetime changes cannot remain hidden behind stale TLB
\* entries" (docs/ROADMAP.md): what the processor has cached is what the page
\* tables say.
TranslationsFresh == tlb \subseteq Translations(space, cr3)

\* address_space_user_range_valid, of a readable page.
address_space_user_range_valid(p, page) == page \in DOMAIN space[p].pte

\* "User-copy operations validate and access mapped ranges" (docs/DESIGN.md):
\* a page that is valid in the active space is one the processor can access.
UserCopyReaches ==
    active # None =>
        \A page \in UserPages \cup Range(StackPages) :
            address_space_user_range_valid(active, page) => cr3 = active

\* Page tables, owned frames and cached translations tell the same story:
\* mapping, unmapping, protection, clone and every rollback keep them together.
MappingsExact == MappingsOwned /\ TablesExact /\ TranslationsFresh
=============================================================================
