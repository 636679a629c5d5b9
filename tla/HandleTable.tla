----------------------------- MODULE HandleTable -----------------------------
(***************************************************************************)
(* The per-process handle table of kernel/core/process/handle.c.           *)
(*                                                                         *)
(* A handle is a number: the generation of a slot times Capacity (a         *)
(* power of two), or-ed with the slot index plus one.  A lookup may retain an   *)
(* entry (process_handle_get_retain) for the time of a system call; a      *)
(* close of a retained entry leaves the object in the slot, marked         *)
(* closing, and the last process_handle_release_ref drops it.              *)
(*                                                                         *)
(* Every critical section under table->lock is one action.  The release    *)
(* callback runs after the unlock, so it is an action of its own           *)
(* (RunRelease) that other operations may precede.                         *)
(***************************************************************************)
EXTENDS Integers, FiniteSets

CONSTANTS
    Tables,      \* the tables of the live processes
    Capacity,    \* PROCESS_HANDLE_CAPACITY (32), also 1 << PROCESS_HANDLE_SLOT_BITS
    GenMax,      \* UINT16_MAX, the largest generation
    Objects,     \* addresses of kernel objects that handles name
    Retainable,  \* those whose handles carry a retain callback
    Rights,      \* the access bits {READ, WRITE, EXEC}
    Watched,     \* handle numbers the history variables may follow
    MaxPending,  \* bound: callers that may be between an unlock and release()
    Refs,        \* process_handle_ref_t variables of calls in flight
    None         \* the null pointer

ASSUME ConstantAssumption ==
    /\ Capacity \in Nat \ {0}
    /\ GenMax \in Nat \ {0}
    /\ MaxPending \in Nat \ {0}
    /\ Retainable \subseteq Objects
    /\ None \notin Objects
    /\ None \notin Tables
    /\ IsFiniteSet(Refs) /\ IsFiniteSet(Tables)

Slots == 0 .. Capacity - 1

Generations == 1 .. GenMax

VARIABLES
    object,       \* object[t][s]: the entry's object, None when the slot is free
    rights,       \* rights[t][s]: a set of access bits
    retained,     \* retained[t][s]: the entry's retained_references
    closing,      \* closing[t][s]
    inheritable,  \* inheritable[t][s]
    generation,   \* generation[t][s]
    retainedRefs, \* retainedRefs[t]: the table's retained_references
    ref,          \* ref[r]: a process_handle_ref_t
    orefs,        \* orefs[o]: the reference count kept by the object itself
    pending,      \* pending[o]: release(o) calls decided and not yet made
    granted,      \* history: the rights o was first opened with
    watch,        \* history: one handle that was closed, or NoWatch
    wrapped       \* history: its slot's generation has wrapped since

entryVars == <<object, rights, retained, closing, inheritable>>
vars == <<entryVars, generation, retainedRefs, ref, orefs, pending, granted,
          watch, wrapped>>

NoRef == [active |-> FALSE, table |-> None, slot |-> 0, object |-> None]

NoWatch == [table |-> None, handle |-> 0]

-----------------------------------------------------------------------------
(* Handle numbers                                                          *)

\* (generation << SLOT_BITS) | (slot + 1).  The last slot's index plus one is
\* 1 << SLOT_BITS, which falls on the lowest bit of the generation.
make_handle(slot, g) ==
    IF slot + 1 < Capacity THEN g * Capacity + slot + 1
    ELSE (IF g % 2 = 1 THEN g ELSE g + 1) * Capacity

EncodedSlot(h) == h % Capacity

EncodedGeneration(h) == h \div Capacity

Decodable(h) ==
    /\ EncodedSlot(h) # 0
    /\ EncodedSlot(h) <= Capacity
    /\ EncodedGeneration(h) # 0
    /\ EncodedGeneration(h) <= GenMax

SlotOf(h) == EncodedSlot(h) - 1

\* Every number a caller may pass; beyond it nothing decodes.
Handles == 0 .. (GenMax + 1) * Capacity

\* h names a live entry of table t: the test every lookup makes.
Resolves(t, h) ==
    /\ Decodable(h)
    /\ generation[t][SlotOf(h)] = EncodedGeneration(h)
    /\ ~closing[t][SlotOf(h)]
    /\ object[t][SlotOf(h)] # None

process_handle_get(t, h, required) ==
    IF Resolves(t, h) /\ required \subseteq rights[t][SlotOf(h)]
    THEN object[t][SlotOf(h)]
    ELSE None

process_handle_table_has_retained(t) == retainedRefs[t] # 0

FreeSlots(t) == {s \in Slots : object[t][s] = None}

\* The slot every opening scan stops at.
IsFirstFree(t, s) ==
    object[t][s] = None /\ \A u \in Slots : u < s => object[t][u] # None

\* Mutants: a close that forgets to advance the generation, or to wrap it.
SameGeneration(g) == g
NeverWraps(g) == g + 1

NextGeneration(g) == IF g = GenMax THEN 1 ELSE g + 1

\* Mutants: a close that never defers to the retained references, and a
\* duplicate that grants whatever is asked for.
AlwaysDrop(t, s) == TRUE
AnyRights(asked, held) == TRUE

\* close and close_all empty the slot only when nothing retains the entry.
DropNow(t, s) == retained[t][s] = 0

\* A duplicate may narrow the rights of its source; no rights asks for them all.
RightsAllowed(asked, held) == asked \subseteq held

\* The test process_handle_release_ref makes after its decrement.
LastRetained(t, s) == closing[t][s] /\ retained[t][s] = 1

-----------------------------------------------------------------------------
Init ==
    /\ object = [t \in Tables |-> [s \in Slots |-> None]]
    /\ rights = [t \in Tables |-> [s \in Slots |-> {}]]
    /\ retained = [t \in Tables |-> [s \in Slots |-> 0]]
    /\ closing = [t \in Tables |-> [s \in Slots |-> FALSE]]
    /\ inheritable = [t \in Tables |-> [s \in Slots |-> TRUE]]
    /\ generation = [t \in Tables |-> [s \in Slots |-> 1]]
    /\ retainedRefs = [t \in Tables |-> 0]
    /\ ref = [r \in Refs |-> NoRef]
    /\ orefs = [o \in Objects |-> 0]
    /\ pending = [o \in Objects |-> 0]
    /\ granted = [o \in Objects |-> {}]
    /\ watch = NoWatch
    /\ wrapped = FALSE

\* A process slot is reused for a new process: process_create initialises the
\* table of a process that process_destroy reclaimed, which it does only when
\* nothing is retained, and after closing every handle.
process_handle_table_initialize(t) ==
    /\ ~process_handle_table_has_retained(t)
    /\ FreeSlots(t) = Slots
    /\ rights' = [rights EXCEPT ![t] = [s \in Slots |-> {}]]
    /\ retained' = [retained EXCEPT ![t] = [s \in Slots |-> 0]]
    /\ closing' = [closing EXCEPT ![t] = [s \in Slots |-> FALSE]]
    /\ inheritable' = [inheritable EXCEPT ![t] = [s \in Slots |-> TRUE]]
    /\ generation' = [generation EXCEPT ![t] = [s \in Slots |-> 1]]
    /\ watch' = IF watch.table = t THEN NoWatch ELSE watch
    /\ wrapped' = IF watch.table = t THEN FALSE ELSE wrapped
    /\ UNCHANGED <<object, retainedRefs, ref, orefs, pending, granted>>

\* process_handle_open_owned_kind of an object its caller has just allocated
\* with one reference; a full table makes the caller release it again.
process_handle_open_owned_kind(t, o, rs) ==
    /\ orefs[o] = 0
    /\ rs # {}
    /\ \E s \in Slots :
         /\ IsFirstFree(t, s)
         /\ object' = [object EXCEPT ![t][s] = o]
         /\ rights' = [rights EXCEPT ![t][s] = rs]
         /\ closing' = [closing EXCEPT ![t][s] = FALSE]
         /\ inheritable' = [inheritable EXCEPT ![t][s] = TRUE]
    /\ orefs' = [orefs EXCEPT ![o] = 1]
    /\ granted' = [granted EXCEPT ![o] = rs]
    /\ UNCHANGED <<retained, generation, retainedRefs, ref, pending, watch,
                   wrapped>>

process_handle_duplicate(t, h, asked) ==
    LET source == SlotOf(h)
        o == object[t][source]
    IN
    /\ Resolves(t, h)
    /\ o \in Retainable
    /\ RightsAllowed(asked, rights[t][source])
    /\ \E s \in Slots :
         /\ IsFirstFree(t, s)
         /\ object' = [object EXCEPT ![t][s] = o]
         /\ rights' = [rights EXCEPT
                          ![t][s] = IF asked = {} THEN rights[t][source] ELSE asked]
         /\ closing' = [closing EXCEPT ![t][s] = FALSE]
         /\ inheritable' = [inheritable EXCEPT ![t][s] = inheritable[t][source]]
    /\ orefs' = [orefs EXCEPT ![o] = @ + 1]
    /\ UNCHANGED <<retained, generation, retainedRefs, ref, pending, granted,
                   watch, wrapped>>

process_handle_set_inheritable(t, h, flag) ==
    /\ Resolves(t, h)
    /\ inheritable' = [inheritable EXCEPT ![t][SlotOf(h)] = flag]
    /\ UNCHANGED <<object, rights, retained, closing, generation, retainedRefs,
                   ref, orefs, pending, granted, watch, wrapped>>

\* Bound: another caller may close while fewer than MaxPending callers are
\* between the unlock and their release callback.
CallerFree == \A o \in Objects : pending[o] < MaxPending

\* The history variables follow one closed handle and the wrap of its slot.
WatchClosed(t, s, h) ==
    \/ /\ watch = NoWatch
       /\ h \in Watched
       /\ watch' = [table |-> t, handle |-> h]
       /\ wrapped' = (generation[t][s] = GenMax)
    \/ /\ watch' = watch
       /\ wrapped' = (wrapped \/ /\ watch # NoWatch
                                 /\ watch.table = t
                                 /\ SlotOf(watch.handle) = s
                                 /\ generation[t][s] = GenMax)

process_handle_close(t, h) ==
    LET s == SlotOf(h)
        o == object[t][s]
    IN
    /\ CallerFree
    /\ Resolves(t, h)
    /\ rights' = [rights EXCEPT ![t][s] = {}]
    /\ closing' = [closing EXCEPT ![t][s] = TRUE]
    /\ generation' = [generation EXCEPT ![t][s] = NextGeneration(@)]
    /\ IF DropNow(t, s)
         THEN /\ object' = [object EXCEPT ![t][s] = None]
              /\ pending' = [pending EXCEPT ![o] = @ + 1]
         ELSE UNCHANGED <<object, pending>>
    /\ WatchClosed(t, s, h)
    /\ UNCHANGED <<retained, inheritable, retainedRefs, ref, orefs, granted>>

\* The owner of a process closes every slot, the free ones included.
process_handle_table_close_all(t) ==
    LET dropped == {s \in Slots : DropNow(t, s)} IN
    /\ CallerFree
    /\ rights' = [rights EXCEPT ![t] = [s \in Slots |-> {}]]
    /\ closing' = [closing EXCEPT ![t] = [s \in Slots |-> TRUE]]
    /\ object' = [object EXCEPT ![t] =
                    [s \in Slots |-> IF s \in dropped THEN None ELSE @[s]]]
    /\ pending' = [o \in Objects |->
                    pending[o] + Cardinality({s \in dropped : object[t][s] = o})]
    /\ generation' = [generation EXCEPT ![t] =
                        [s \in Slots |-> NextGeneration(@[s])]]
    /\ watch' = watch
    /\ wrapped' = (wrapped \/ /\ watch # NoWatch
                              /\ watch.table = t
                              /\ generation[t][SlotOf(watch.handle)] = GenMax)
    /\ UNCHANGED <<retained, inheritable, retainedRefs, ref, orefs, granted>>

\* Mutant: the entry is retained and the table's counter is forgotten.
EntryOnly(n) == n

\* The table's retained_references after one more lookup.
OneMoreRetained(n) == n + 1

process_handle_get_retain(r, t, h, required) ==
    LET s == SlotOf(h) IN
    /\ ~ref[r].active
    /\ Resolves(t, h)
    /\ required \subseteq rights[t][s]
    /\ retained' = [retained EXCEPT ![t][s] = @ + 1]
    /\ retainedRefs' = [retainedRefs EXCEPT ![t] = OneMoreRetained(@)]
    /\ ref' = [ref EXCEPT ![r] = [active |-> TRUE, table |-> t, slot |-> s,
                                  object |-> object[t][s]]]
    /\ UNCHANGED <<object, rights, closing, inheritable, generation, orefs,
                   pending, granted, watch, wrapped>>

process_handle_release_ref(r) ==
    LET t == ref[r].table
        s == ref[r].slot
        o == object[t][s]
    IN
    /\ CallerFree
    /\ ref[r].active
    /\ ref' = [ref EXCEPT ![r] = NoRef]
    /\ IF retained[t][s] # 0 /\ retainedRefs[t] # 0
         THEN /\ retained' = [retained EXCEPT ![t][s] = @ - 1]
              /\ retainedRefs' = [retainedRefs EXCEPT ![t] = @ - 1]
              /\ IF LastRetained(t, s)
                   THEN /\ object' = [object EXCEPT ![t][s] = None]
                        /\ pending' = [pending EXCEPT ![o] = @ + 1]
                   ELSE UNCHANGED <<object, pending>>
         ELSE UNCHANGED <<retained, retainedRefs, object, pending>>
    /\ UNCHANGED <<rights, closing, inheritable, generation, orefs, granted,
                   watch, wrapped>>

\* Mutant: inheritance copies the entries and skips the retain callback.
NoRetain(src, o) == 0

\* The slots of src that a child inherits, and how often that retains o.
InheritedSlots(src) ==
    {s \in Slots : object[src][s] # None /\ ~closing[src][s] /\ inheritable[src][s]}
InheritedRetains(src, o) ==
    Cardinality({s \in InheritedSlots(src) : object[src][s] = o})

\* process_inherit_handles calls this for a child that is PROCESS_NEW, whose
\* table process_create has just initialised.
process_handle_table_inherit(dst, src) ==
    LET inherited == InheritedSlots(src)
        Copy(from, to) == [s \in Slots |-> IF s \in inherited THEN from[s] ELSE to[s]]
    IN
    /\ dst # src
    /\ generation[dst] = [s \in Slots |-> 1]
    /\ FreeSlots(dst) = Slots
    /\ \A s \in inherited : object[src][s] \in Retainable
    /\ object' = [object EXCEPT ![dst] = Copy(object[src], @)]
    /\ rights' = [rights EXCEPT ![dst] = Copy(rights[src], @)]
    /\ retained' = [retained EXCEPT ![dst] = Copy([s \in Slots |-> 0], @)]
    /\ closing' = [closing EXCEPT ![dst] = Copy([s \in Slots |-> FALSE], @)]
    /\ inheritable' = [inheritable EXCEPT ![dst] = Copy(inheritable[src], @)]
    /\ orefs' = [o \in Objects |-> orefs[o] + InheritedRetains(src, o)]
    /\ UNCHANGED <<generation, retainedRefs, ref, pending, granted, watch, wrapped>>

\* The release callback, made after table->lock is dropped.
RunRelease(o) ==
    /\ pending[o] > 0
    /\ pending' = [pending EXCEPT ![o] = @ - 1]
    /\ orefs' = [orefs EXCEPT ![o] = @ - 1]
    /\ UNCHANGED <<entryVars, generation, retainedRefs, ref, granted, watch,
                   wrapped>>

Next ==
    \/ \E t \in Tables :
         \/ process_handle_table_initialize(t)
         \/ process_handle_table_close_all(t)
         \/ \E o \in Objects, rs \in SUBSET Rights :
              process_handle_open_owned_kind(t, o, rs)
         \/ \E h \in Handles :
              \/ process_handle_close(t, h)
              \/ \E flag \in BOOLEAN : process_handle_set_inheritable(t, h, flag)
              \/ \E rs \in SUBSET Rights : process_handle_duplicate(t, h, rs)
              \/ \E r \in Refs, rs \in SUBSET Rights :
                   process_handle_get_retain(r, t, h, rs)
         \/ \E src \in Tables : process_handle_table_inherit(t, src)
    \/ \E r \in Refs : process_handle_release_ref(r)
    \/ \E o \in Objects : RunRelease(o)

Spec == Init /\ [][Next]_vars

-----------------------------------------------------------------------------
(* Properties                                                              *)

EntryTypes ==
    /\ object \in [Tables -> [Slots -> Objects \cup {None}]]
    /\ rights \in [Tables -> [Slots -> SUBSET Rights]]
    /\ retained \in [Tables -> [Slots -> Nat]]
    /\ closing \in [Tables -> [Slots -> BOOLEAN]]
    /\ inheritable \in [Tables -> [Slots -> BOOLEAN]]

TableTypes ==
    /\ generation \in [Tables -> [Slots -> Generations]]
    /\ retainedRefs \in [Tables -> Nat]

RefTypes ==
    ref \in [Refs -> {NoRef} \cup [active : {TRUE}, table : Tables,
                                  slot : Slots, object : Objects]]

ObjectTypes ==
    /\ orefs \in [Objects -> Int]
    /\ pending \in [Objects -> Nat]
    /\ granted \in [Objects -> SUBSET Rights]

HistoryTypes ==
    /\ watch \in {NoWatch} \cup [table : Tables, handle : {h \in Nat : Decodable(h)}]
    /\ wrapped \in BOOLEAN

\* The table's fields keep their types; a slot's generation is never zero,
\* which is what process_handle_close's wrap of the 16-bit counter keeps.
TypeOK == EntryTypes /\ TableTypes /\ RefTypes /\ ObjectTypes /\ HistoryTypes

RefsOn(t, s) == {r \in Refs : ref[r].active /\ ref[r].table = t /\ ref[r].slot = s}

RefsOnTable(t) == {r \in Refs : ref[r].active /\ ref[r].table = t}

\* A retained reference keeps the entry it was taken on alive: whatever is
\* closed, reopened, duplicated or inherited meanwhile, the slot still holds
\* the object the reference was given (process_handle_get_retain against
\* process_handle_close and process_handle_table_close_all).
RetainedKeepsObject ==
    \A r \in Refs :
        ref[r].active => object[ref[r].table][ref[r].slot] = ref[r].object

\* process_destroy reclaims a process only when the table's counter is zero:
\* the counter is zero only if no call in flight holds an entry of the table.
TeardownSeesReferences ==
    \A t \in Tables : ~process_handle_table_has_retained(t) => RefsOnTable(t) = {}

\* Every reference an object counts is held by exactly one table entry or is
\* a release callback about to run: no close, deferred close, duplicate or
\* inheritance releases an object twice, or leaks it.
ReferencesAccounted ==
    \A o \in Objects :
        orefs[o] = pending[o] + Cardinality({e \in Tables \X Slots :
                                               object[e[1]][e[2]] = o})

\* No chain of duplicates and inheritances widens the rights an object was
\* opened with.
RightsNeverGrow ==
    \A t \in Tables, s \in Slots :
        object[t][s] # None => rights[t][s] \subseteq granted[object[t][s]]

\* A closed handle does not resolve again, whatever is opened in its slot,
\* as long as the slot's 16-bit generation has not wrapped since the close.
StaleHandleRejected ==
    watch # NoWatch /\ ~wrapped => ~Resolves(watch.table, watch.handle)

\* The boot probe of the handle table opens a handle and looks it up: the
\* number made for an entry resolves to that entry.
OpenHandleResolves ==
    \A t \in Tables, s \in Slots :
        object[t][s] # None /\ ~closing[t][s] =>
            /\ Resolves(t, make_handle(s, generation[t][s]))
            /\ SlotOf(make_handle(s, generation[t][s])) = s
=============================================================================
