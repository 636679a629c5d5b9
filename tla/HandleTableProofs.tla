-------------------------- MODULE HandleTableProofs --------------------------
(***************************************************************************)
(* What the handle table guarantees for every number of tables, slots,     *)
(* generations, objects and calls in flight.                               *)
(***************************************************************************)
EXTENDS HandleTable, FiniteSetTheorems, TLAPS

\* The counters count: an entry's retained_references is the number of active
\* references on it, the table's the number on any of its entries.
CountsAgree ==
    /\ \A t \in Tables, s \in Slots : retained[t][s] = Cardinality(RefsOn(t, s))
    /\ \A t \in Tables : retainedRefs[t] = Cardinality(RefsOnTable(t))

\* The watched handle's slot has moved past the handle's generation.
WatchPassed ==
    watch # NoWatch /\ ~wrapped =>
        generation[watch.table][SlotOf(watch.handle)] > EncodedGeneration(watch.handle)

IInv == TypeOK /\ CountsAgree /\ RetainedKeepsObject /\ WatchPassed

-----------------------------------------------------------------------------
\* decode_handle yields a slot of the table and a 16-bit generation.
LEMMA DecodedSlot ==
    ASSUME NEW h \in Nat, Decodable(h)
    PROVE  SlotOf(h) \in Slots /\ EncodedGeneration(h) \in Generations
<1>1. h % Capacity \in 0 .. Capacity - 1
  BY ConstantAssumption
<1>2. h \div Capacity \in Int
  BY ConstantAssumption
<1>3. h \div Capacity >= 0
  BY ConstantAssumption
<1> QED
  BY <1>1, <1>2, <1>3, ConstantAssumption
     DEF Decodable, SlotOf, EncodedSlot, EncodedGeneration, Slots, Generations


\* The reference sets the counters count are finite.
LEMMA RefsFinite ==
    ASSUME NEW t, NEW s
    PROVE  /\ IsFiniteSet(RefsOn(t, s))
           /\ IsFiniteSet(RefsOnTable(t))
           /\ IsFiniteSet(RefsOn(t, s)')
           /\ IsFiniteSet(RefsOnTable(t)')
<1>1. IsFiniteSet(Refs)
  BY ConstantAssumption
<1>2. \A T : T \subseteq Refs => IsFiniteSet(T)
  BY <1>1, FS_Subset
<1> QED
  BY <1>2 DEF RefsOn, RefsOnTable

\* A zero counter means that no call in flight holds the entry or the table.
LEMMA ZeroCount ==
    ASSUME CountsAgree, NEW t \in Tables, NEW s \in Slots
    PROVE  /\ retained[t][s] = 0 => RefsOn(t, s) = {}
           /\ retainedRefs[t] = 0 => RefsOnTable(t) = {}
BY RefsFinite, FS_EmptySet DEF CountsAgree

\* Conversely, a call in flight keeps both counters above zero.
LEMMA ZeroCountInverse ==
    ASSUME CountsAgree, NEW t \in Tables, NEW s \in Slots, NEW r \in RefsOn(t, s)
    PROVE  retained[t][s] # 0 /\ retainedRefs[t] # 0
<1>1. RefsOn(t, s) # {} /\ RefsOnTable(t) # {}
  BY DEF RefsOn, RefsOnTable
<1> QED
  BY <1>1, ZeroCount

\* A counter of one means that the entry is held by the caller alone.
LEMMA OneCount ==
    ASSUME CountsAgree, NEW t \in Tables, NEW s \in Slots,
           retained[t][s] = 1, NEW r \in RefsOn(t, s)
    PROVE  RefsOn(t, s) = {r}
<1>1. Cardinality(RefsOn(t, s)) = 1
  BY DEF CountsAgree
<1>2. PICK x : RefsOn(t, s) = {x}
  BY <1>1, RefsFinite, FS_Singleton
<1> QED
  BY <1>2

\* Steps that leave the references alone leave the sets of references alone.
LEMMA SameRefs ==
    ASSUME UNCHANGED ref, NEW t, NEW s
    PROVE  RefsOn(t, s)' = RefsOn(t, s) /\ RefsOnTable(t)' = RefsOnTable(t)
BY DEF RefsOn, RefsOnTable

\* An active reference names a table, a slot and an object.
LEMMA ActiveRef ==
    ASSUME TypeOK, NEW r \in Refs, ref[r].active
    PROVE  /\ ref[r].table \in Tables
           /\ ref[r].slot \in Slots
           /\ ref[r].object \in Objects
<1>1. ref[r] \in {NoRef} \cup [active : {TRUE}, table : Tables, slot : Slots,
                                object : Objects]
  BY DEF TypeOK, RefTypes
<1>2. ref[r] # NoRef
  <2>1. NoRef.active = FALSE
    BY DEF NoRef
  <2> QED
    BY <2>1
<1>3. ref[r] \in [active : {TRUE}, table : Tables, slot : Slots, object : Objects]
  BY <1>1, <1>2
<1> QED
  BY <1>3

\* An active reference points at a slot that is not free.
LEMMA RefsHoldObjects ==
    ASSUME TypeOK, RetainedKeepsObject, NEW t \in Tables, NEW s \in Slots,
           object[t][s] = None
    PROVE  RefsOn(t, s) = {}
<1> SUFFICES ASSUME NEW r \in RefsOn(t, s) PROVE FALSE
  OBVIOUS
<1>1. ref[r].active /\ ref[r].table = t /\ ref[r].slot = s /\ r \in Refs
  BY DEF RefsOn
<1>2. ref[r].object \in Objects
  BY <1>1, ActiveRef
<1> QED
  BY <1>1, <1>2, ConstantAssumption DEF RetainedKeepsObject

\* What a step that leaves the counters, the watched handle or the slots alone
\* keeps.
LEMMA CountsKept ==
    ASSUME CountsAgree, UNCHANGED <<ref, retained, retainedRefs>>
    PROVE  CountsAgree'
BY SameRefs DEF CountsAgree

LEMMA WatchKept ==
    ASSUME WatchPassed, UNCHANGED <<watch, wrapped, generation>>
    PROVE  WatchPassed'
BY DEF WatchPassed

LEMMA TypesKept ==
    /\ TableTypes /\ UNCHANGED <<generation, retainedRefs>> => TableTypes'
    /\ RefTypes /\ UNCHANGED ref => RefTypes'
    /\ EntryTypes /\ UNCHANGED entryVars => EntryTypes'
    /\ ObjectTypes /\ UNCHANGED <<orefs, pending, granted>> => ObjectTypes'
    /\ HistoryTypes /\ UNCHANGED <<watch, wrapped>> => HistoryTypes'
<1>1. TableTypes /\ UNCHANGED <<generation, retainedRefs>> => TableTypes'
  BY DEF TableTypes
<1>5. RefTypes /\ UNCHANGED ref => RefTypes'
  BY DEF RefTypes
<1>2. EntryTypes /\ UNCHANGED entryVars => EntryTypes'
  BY DEF EntryTypes, entryVars
<1>3. ObjectTypes /\ UNCHANGED <<orefs, pending, granted>> => ObjectTypes'
  BY DEF ObjectTypes
<1>4. HistoryTypes /\ UNCHANGED <<watch, wrapped>> => HistoryTypes'
  BY DEF HistoryTypes
<1> QED
  BY <1>1, <1>2, <1>3, <1>4, <1>5

\* A step may change the object of a slot that no call in flight holds.
LEMMA ObjectsKept ==
    ASSUME TypeOK, RetainedKeepsObject, UNCHANGED ref,
           \A t \in Tables, s \in Slots :
              object'[t][s] = object[t][s] \/ RefsOn(t, s) = {}
    PROVE  RetainedKeepsObject'
<1> SUFFICES ASSUME NEW r \in Refs, ref[r].active
             PROVE  object'[ref[r].table][ref[r].slot] = ref[r].object
  BY DEF RetainedKeepsObject
<1>1. ref[r].table \in Tables /\ ref[r].slot \in Slots
  BY ActiveRef
<1>2. RefsOn(ref[r].table, ref[r].slot) # {}
  BY DEF RefsOn
<1> QED
  BY <1>1, <1>2 DEF RetainedKeepsObject

\* What the history variables name.
LEMMA Watching ==
    ASSUME HistoryTypes, watch # NoWatch
    PROVE  /\ watch.table \in Tables
           /\ watch.handle \in Nat
           /\ SlotOf(watch.handle) \in Slots
           /\ EncodedGeneration(watch.handle) \in Generations
<1>1. watch \in [table : Tables, handle : {h \in Nat : Decodable(h)}]
  BY DEF HistoryTypes
<1> QED
  BY <1>1, DecodedSlot

\* The generation of a slot advances, or wraps to 1 from GenMax.
LEMMA GenerationStep ==
    ASSUME NEW g \in Generations
    PROVE  /\ NextGeneration(g) \in Generations
           /\ g # GenMax => NextGeneration(g) > g
BY ConstantAssumption DEF Generations, NextGeneration

-----------------------------------------------------------------------------
(* The initial state, and one lemma per action.                            *)

LEMMA InitIInv == Init => IInv
<1> SUFFICES ASSUME Init PROVE IInv
  OBVIOUS
<1> USE DEF Init
<1>1. EntryTypes
  BY DEF EntryTypes
<1>2. TableTypes /\ RefTypes
  BY ConstantAssumption DEF TableTypes, RefTypes, Generations
<1>3. ObjectTypes
  BY DEF ObjectTypes
<1>4. HistoryTypes
  BY DEF HistoryTypes
<1>5. \A r \in Refs : ~ref[r].active
  BY DEF NoRef
<1>6. CountsAgree
  <2>1. \A t, s : RefsOn(t, s) = {} /\ RefsOnTable(t) = {}
    BY <1>5 DEF RefsOn, RefsOnTable
  <2> QED
    BY <2>1, FS_EmptySet DEF CountsAgree
<1>7. RetainedKeepsObject
  BY <1>5 DEF RetainedKeepsObject
<1>8. WatchPassed
  BY DEF WatchPassed
<1> QED
  BY <1>1, <1>2, <1>3, <1>4, <1>6, <1>7, <1>8 DEF IInv, TypeOK

LEMMA InitializeStep ==
    ASSUME IInv, NEW t \in Tables, process_handle_table_initialize(t)
    PROVE  IInv'
<1> USE DEF process_handle_table_initialize
<1>0. EntryTypes /\ TableTypes /\ RefTypes /\ ObjectTypes /\ HistoryTypes /\ CountsAgree
  BY DEF IInv, TypeOK
<1>1. EntryTypes'
  BY <1>0 DEF EntryTypes
<1>2. TableTypes'
  <2>1. [s \in Slots |-> 1] \in [Slots -> Generations]
    BY ConstantAssumption DEF Generations
  <2>2. generation \in [Tables -> [Slots -> Generations]]
    BY <1>0 DEF TableTypes
  <2>3. generation' = [generation EXCEPT ![t] = [s \in Slots |-> 1]]
    OBVIOUS
  <2>4. UNCHANGED retainedRefs
    OBVIOUS
  <2> HIDE DEF process_handle_table_initialize
  <2>5. generation' \in [Tables -> [Slots -> Generations]]
    BY <2>1, <2>2, <2>3
  <2> QED
    BY <1>0, <2>4, <2>5 DEF TableTypes
<1>3. ObjectTypes' /\ RefTypes'
  BY <1>0, TypesKept
<1>4. HistoryTypes'
  BY <1>0 DEF HistoryTypes
<1>5. CountsAgree'
  <2>1. \A u \in Tables : retainedRefs'[u] = Cardinality(RefsOnTable(u)')
    BY <1>0, SameRefs DEF CountsAgree
  <2> SUFFICES ASSUME NEW u \in Tables, NEW s \in Slots
               PROVE  retained'[u][s] = Cardinality(RefsOn(u, s)')
    BY <2>1 DEF CountsAgree
  <2>2. CASE u = t
    <3>1. RefsOn(t, s) = {}
      <4>1. RefsOnTable(t) = {}
        BY <1>0, ZeroCount DEF process_handle_table_has_retained
      <4> QED
        BY <4>1 DEF RefsOn, RefsOnTable
    <3>2. retained'[t][s] = 0
      BY <1>0 DEF EntryTypes
    <3> QED
      BY <2>2, <3>1, <3>2, SameRefs, FS_EmptySet
  <2>3. CASE u # t
    BY <1>0, <2>3, SameRefs DEF CountsAgree, EntryTypes
  <2> QED
    BY <2>2, <2>3
<1>6. RetainedKeepsObject'
  BY DEF IInv, RetainedKeepsObject
<1>7. WatchPassed'
  <2>1. CASE watch.table = t
    BY <2>1 DEF WatchPassed
  <2>2. CASE watch.table # t /\ watch # NoWatch
    BY <1>0, <2>2, Watching DEF IInv, WatchPassed, TableTypes
  <2>3. CASE watch.table # t /\ watch = NoWatch
    BY <2>3 DEF WatchPassed
  <2> QED
    BY <2>1, <2>2, <2>3
<1> QED
  BY <1>1, <1>2, <1>3, <1>4, <1>5, <1>6, <1>7 DEF IInv, TypeOK

LEMMA OpenStep ==
    ASSUME IInv, NEW t \in Tables, NEW o \in Objects, NEW rs \in SUBSET Rights,
           process_handle_open_owned_kind(t, o, rs)
    PROVE  IInv'
<1> USE DEF process_handle_open_owned_kind
<1>0. EntryTypes /\ TableTypes /\ RefTypes /\ ObjectTypes /\ HistoryTypes
  BY DEF IInv, TypeOK
<1> PICK s \in Slots :
      /\ IsFirstFree(t, s)
      /\ object' = [object EXCEPT ![t][s] = o]
      /\ rights' = [rights EXCEPT ![t][s] = rs]
      /\ closing' = [closing EXCEPT ![t][s] = FALSE]
      /\ inheritable' = [inheritable EXCEPT ![t][s] = TRUE]
  OBVIOUS
<1>1. EntryTypes'
  BY <1>0 DEF EntryTypes
<1>2. TableTypes' /\ RefTypes' /\ ObjectTypes' /\ HistoryTypes'
  <2>1. ObjectTypes'
    BY <1>0 DEF ObjectTypes
  <2> QED
    BY <1>0, <2>1, TypesKept
<1>3. RetainedKeepsObject'
  <2>1. RefsOn(t, s) = {}
    BY RefsHoldObjects DEF IInv, IsFirstFree
  <2>2. \A u \in Tables, v \in Slots :
          object'[u][v] = object[u][v] \/ (u = t /\ v = s)
    BY <1>0 DEF EntryTypes
  <2> QED
    BY <2>1, <2>2, ObjectsKept DEF IInv
<1> QED
  BY <1>1, <1>2, <1>3, CountsKept, WatchKept DEF IInv, TypeOK

LEMMA DuplicateStep ==
    ASSUME IInv, NEW t \in Tables, NEW h \in Handles, NEW rs \in SUBSET Rights,
           process_handle_duplicate(t, h, rs)
    PROVE  IInv'
<1> DEFINE source == SlotOf(h)
<1>0. EntryTypes /\ TableTypes /\ RefTypes /\ ObjectTypes /\ HistoryTypes
  BY DEF IInv, TypeOK
<1>a. source \in Slots
  <2>1. Decodable(h) /\ h \in Nat
    BY ConstantAssumption DEF process_handle_duplicate, Resolves, Handles
  <2> QED
    BY <2>1, DecodedSlot
<1>b. object[t][source] \in Objects
  BY <1>0, <1>a DEF process_handle_duplicate, Resolves, EntryTypes
<1> PICK s \in Slots :
      /\ IsFirstFree(t, s)
      /\ object' = [object EXCEPT ![t][s] = object[t][source]]
      /\ rights' = [rights EXCEPT
                       ![t][s] = IF rs = {} THEN rights[t][source] ELSE rs]
      /\ closing' = [closing EXCEPT ![t][s] = FALSE]
      /\ inheritable' = [inheritable EXCEPT ![t][s] = inheritable[t][source]]
  BY DEF process_handle_duplicate
<1>1. EntryTypes'
  <2>1. UNCHANGED retained
    BY DEF process_handle_duplicate
  <2>2. rights[t][source] \in SUBSET Rights /\ inheritable[t][source] \in BOOLEAN
    BY <1>0, <1>a DEF EntryTypes
  <2> HIDE DEF source
  <2> QED
    BY <1>0, <1>b, <2>1, <2>2 DEF EntryTypes
<1>2. TableTypes' /\ RefTypes' /\ ObjectTypes' /\ HistoryTypes'
  <2>1. ObjectTypes'
    BY <1>0, <1>b DEF ObjectTypes, process_handle_duplicate
  <2> QED
    BY <1>0, <2>1, TypesKept DEF process_handle_duplicate
<1>3. RetainedKeepsObject'
  <2>1. RefsOn(t, s) = {}
    BY RefsHoldObjects DEF IInv, IsFirstFree
  <2>2. \A u \in Tables, v \in Slots :
          object'[u][v] = object[u][v] \/ (u = t /\ v = s)
    BY <1>0 DEF EntryTypes
  <2> QED
    BY <2>1, <2>2, ObjectsKept DEF IInv, process_handle_duplicate
<1> QED
  BY <1>1, <1>2, <1>3, CountsKept, WatchKept DEF IInv, TypeOK, process_handle_duplicate

LEMMA SetInheritableStep ==
    ASSUME IInv, NEW t \in Tables, NEW h \in Handles, NEW flag \in BOOLEAN,
           process_handle_set_inheritable(t, h, flag)
    PROVE  IInv'
<1> USE DEF process_handle_set_inheritable
<1>0. EntryTypes /\ TableTypes /\ RefTypes /\ ObjectTypes /\ HistoryTypes
  BY DEF IInv, TypeOK
<1>1. EntryTypes'
  BY <1>0 DEF EntryTypes
<1>2. TableTypes' /\ RefTypes' /\ ObjectTypes' /\ HistoryTypes'
  BY <1>0, TypesKept
<1>3. RetainedKeepsObject'
  BY DEF IInv, RetainedKeepsObject
<1> QED
  BY <1>1, <1>2, <1>3, CountsKept, WatchKept DEF IInv, TypeOK

LEMMA RunReleaseStep ==
    ASSUME IInv, NEW o \in Objects, RunRelease(o)
    PROVE  IInv'
<1> USE DEF RunRelease, entryVars
<1>0. EntryTypes /\ TableTypes /\ RefTypes /\ ObjectTypes /\ HistoryTypes
  BY DEF IInv, TypeOK
<1>1. ObjectTypes'
  BY <1>0 DEF ObjectTypes
<1>2. EntryTypes' /\ TableTypes' /\ RefTypes' /\ HistoryTypes'
  BY <1>0, TypesKept
<1>3. RetainedKeepsObject'
  BY DEF IInv, RetainedKeepsObject
<1> QED
  BY <1>1, <1>2, <1>3, CountsKept, WatchKept DEF IInv, TypeOK

\* A handle that resolves decodes to a slot that holds an object.
LEMMA Resolved ==
    ASSUME IInv, NEW t \in Tables, NEW h \in Handles, Resolves(t, h)
    PROVE  /\ h \in Nat /\ Decodable(h)
           /\ SlotOf(h) \in Slots
           /\ object[t][SlotOf(h)] \in Objects
<1>1. h \in Nat /\ Decodable(h)
  BY ConstantAssumption DEF Resolves, Handles
<1>2. SlotOf(h) \in Slots
  BY <1>1, DecodedSlot
<1> QED
  BY <1>1, <1>2 DEF IInv, TypeOK, EntryTypes, Resolves

\* When the generation of slot s of table t advances, the watched handle stays
\* behind its slot unless that slot wraps.
LEMMA WatchAdvance ==
    ASSUME IInv, TableTypes', watch' = watch,
           NEW t \in Tables, NEW S \in SUBSET Slots,
           \A s \in S : generation'[t][s] = NextGeneration(generation[t][s]),
           \A u \in Tables, s \in Slots :
              (u # t \/ s \notin S) => generation'[u][s] = generation[u][s],
           wrapped' = (wrapped \/ /\ watch # NoWatch
                                   /\ watch.table = t
                                   /\ SlotOf(watch.handle) \in S
                                   /\ generation[t][SlotOf(watch.handle)] = GenMax)
    PROVE  WatchPassed'
<1> SUFFICES ASSUME watch # NoWatch, ~wrapped'
             PROVE  generation'[watch.table][SlotOf(watch.handle)]
                       > EncodedGeneration(watch.handle)
  BY DEF WatchPassed
<1> DEFINE u == watch.table
           s == SlotOf(watch.handle)
           e == EncodedGeneration(watch.handle)
<1>1. u \in Tables /\ s \in Slots /\ e \in Generations
  BY Watching DEF IInv, TypeOK
<1>2. generation[u][s] > e
  BY DEF IInv, WatchPassed
<1>3. generation[u][s] \in Generations
  BY <1>1 DEF IInv, TypeOK, TableTypes
<1> HIDE DEF u, s, e
<1>4. CASE u = t /\ s \in S
  <2>1. generation[u][s] # GenMax
    BY <1>4 DEF u, s
  <2>2. generation'[u][s] > generation[u][s]
    BY <1>3, <1>4, <2>1, GenerationStep
  <2>3. generation'[u][s] \in Generations
    BY <1>1 DEF TableTypes
  <2> QED
    BY <1>1, <1>2, <1>3, <2>2, <2>3 DEF Generations, u, s, e
<1>5. CASE ~(u = t /\ s \in S)
  BY <1>1, <1>2, <1>5 DEF u, s, e
<1> QED
  BY <1>4, <1>5

LEMMA CloseStep ==
    ASSUME IInv, NEW t \in Tables, NEW h \in Handles, process_handle_close(t, h)
    PROVE  IInv'
<1> DEFINE s == SlotOf(h)
           o == object[t][s]
<1>0. EntryTypes /\ TableTypes /\ RefTypes /\ ObjectTypes /\ HistoryTypes
  BY DEF IInv, TypeOK
<1>a. /\ rights' = [rights EXCEPT ![t][s] = {}]
      /\ closing' = [closing EXCEPT ![t][s] = TRUE]
      /\ generation' = [generation EXCEPT ![t][s] = NextGeneration(@)]
      /\ WatchClosed(t, s, h)
      /\ UNCHANGED <<retained, inheritable, retainedRefs, ref, orefs, granted>>
  BY DEF process_handle_close
<1>b. \/ /\ retained[t][s] = 0
         /\ object' = [object EXCEPT ![t][s] = None]
         /\ pending' = [pending EXCEPT ![o] = @ + 1]
      \/ UNCHANGED <<object, pending>>
  BY DEF process_handle_close, DropNow
<1>c. Resolves(t, h)
  BY DEF process_handle_close
<1>d. h \in Nat /\ Decodable(h) /\ s \in Slots /\ o \in Objects
  BY <1>c, Resolved
<1>e. generation[t][s] = EncodedGeneration(h)
  BY <1>c DEF Resolves
<1> HIDE DEF s, o
<1>1. EntryTypes'
  <2>1. object' \in [Tables -> [Slots -> Objects \cup {None}]]
    <3>1. object \in [Tables -> [Slots -> Objects \cup {None}]]
      BY <1>0 DEF EntryTypes
    <3>2. object' = [object EXCEPT ![t][s] = None] \/ object' = object
      BY <1>b
    <3> QED
      BY <1>d, <3>1, <3>2
  <2>2. rights' \in [Tables -> [Slots -> SUBSET Rights]]
    BY <1>0, <1>a, <1>d DEF EntryTypes
  <2>3. closing' \in [Tables -> [Slots -> BOOLEAN]]
    BY <1>0, <1>a, <1>d DEF EntryTypes
  <2> QED
    BY <1>0, <1>a, <2>1, <2>2, <2>3 DEF EntryTypes
<1>2. generation[t][s] \in Generations /\ NextGeneration(generation[t][s]) \in Generations
  BY <1>0, <1>d, GenerationStep DEF TableTypes
<1>3. TableTypes'
  BY <1>0, <1>a, <1>d, <1>2 DEF TableTypes
<1>4. ObjectTypes'
  BY <1>0, <1>a, <1>b, <1>d DEF ObjectTypes
<1>5. HistoryTypes'
  <2>1. [table |-> t, handle |-> h] \in [table : Tables, handle : {x \in Nat : Decodable(x)}]
    BY <1>d
  <2>2. watch' \in {watch, [table |-> t, handle |-> h]} /\ wrapped' \in BOOLEAN
    BY <1>0, <1>a DEF WatchClosed, HistoryTypes
  <2> QED
    BY <1>0, <2>1, <2>2 DEF HistoryTypes
<1>6. RefTypes'
  BY <1>0, <1>a, TypesKept
<1>7. CountsAgree'
  BY <1>a, CountsKept DEF IInv
<1>8. RetainedKeepsObject'
  <2>1. retained[t][s] = 0 => RefsOn(t, s) = {}
    BY <1>d, ZeroCount DEF IInv
  <2>2. \A u \in Tables, v \in Slots :
          object'[u][v] = object[u][v] \/ (u = t /\ v = s /\ retained[t][s] = 0)
    BY <1>0, <1>b, <1>d DEF EntryTypes
  <2> QED
    BY <1>a, <2>1, <2>2, ObjectsKept DEF IInv
<1>9. WatchPassed'
  <2>1. generation'[t][s] = NextGeneration(generation[t][s])
    BY <1>0, <1>a, <1>d DEF TableTypes
  <2>2. CASE watch' = [table |-> t, handle |-> h] /\ wrapped' = (generation[t][s] = GenMax)
    <3>1. generation[t][s] # GenMax => generation'[t][s] > EncodedGeneration(h)
      BY <1>2, <1>e, <2>1, GenerationStep
    <3>2. watch'.table = t /\ watch'.handle = h
      BY <2>2
    <3> QED
      BY <2>2, <3>1, <3>2 DEF WatchPassed, s
  <2>3. CASE /\ watch' = watch
             /\ wrapped' = (wrapped \/ /\ watch # NoWatch
                                       /\ watch.table = t
                                       /\ SlotOf(watch.handle) = s
                                       /\ generation[t][s] = GenMax)
    <3>1. \A u \in Tables, v \in Slots :
            (u # t \/ v \notin {s}) => generation'[u][v] = generation[u][v]
      BY <1>0, <1>a, <1>d DEF TableTypes
    <3>2. {s} \in SUBSET Slots
      BY <1>d
    <3>3. wrapped' = (wrapped \/ /\ watch # NoWatch
                                 /\ watch.table = t
                                 /\ SlotOf(watch.handle) \in {s}
                                 /\ generation[t][SlotOf(watch.handle)] = GenMax)
      BY <2>3
    <3>4. \A v \in {s} : generation'[t][v] = NextGeneration(generation[t][v])
      BY <2>1
    <3>5. watch' = watch
      BY <2>3
    <3> QED
      BY <1>3, <3>1, <3>2, <3>3, <3>4, <3>5, WatchAdvance
  <2> QED
    BY <1>a, <2>2, <2>3 DEF WatchClosed
<1> QED
  BY <1>1, <1>3, <1>4, <1>5, <1>6, <1>7, <1>8, <1>9 DEF IInv, TypeOK

LEMMA CloseAllStep ==
    ASSUME IInv, NEW t \in Tables, process_handle_table_close_all(t)
    PROVE  IInv'
<1>0. EntryTypes /\ TableTypes /\ RefTypes /\ ObjectTypes /\ HistoryTypes
  BY DEF IInv, TypeOK
<1> DEFINE dropped == {s \in Slots : DropNow(t, s)}
           empty == [s \in Slots |-> IF s \in dropped THEN None ELSE object[t][s]]
           advanced == [s \in Slots |-> NextGeneration(generation[t][s])]
<1>a. /\ rights' = [rights EXCEPT ![t] = [s \in Slots |-> {}]]
      /\ closing' = [closing EXCEPT ![t] = [s \in Slots |-> TRUE]]
      /\ object' = [object EXCEPT ![t] = empty]
      /\ generation' = [generation EXCEPT ![t] = advanced]
      /\ UNCHANGED <<retained, inheritable, retainedRefs, ref, orefs, granted>>
  BY <1>0 DEF process_handle_table_close_all, EntryTypes, TableTypes
<1>b. /\ watch' = watch
      /\ wrapped' = (wrapped \/ /\ watch # NoWatch
                                /\ watch.table = t
                                /\ generation[t][SlotOf(watch.handle)] = GenMax)
  BY DEF process_handle_table_close_all
<1>1. EntryTypes'
  <2>1. empty \in [Slots -> Objects \cup {None}]
    BY <1>0 DEF EntryTypes
  <2> HIDE DEF empty
  <2> QED
    BY <1>0, <1>a, <2>1 DEF EntryTypes
<1>2. advanced \in [Slots -> Generations]
  BY <1>0, GenerationStep DEF TableTypes
<1>3. TableTypes'
  <2> HIDE DEF advanced
  <2> QED
    BY <1>0, <1>a, <1>2 DEF TableTypes
<1>4. ObjectTypes'
  <2>1. \A x \in Objects : Cardinality({s \in dropped : object[t][s] = x}) \in Nat
    <3>1. IsFiniteSet(Slots)
      BY FS_Interval, ConstantAssumption DEF Slots
    <3>2. \A x : {s \in dropped : object[t][s] = x} \subseteq Slots
      OBVIOUS
    <3> QED
      BY <3>1, <3>2, FS_Subset, FS_CardinalityType
  <2>2. pending' = [x \in Objects |->
                      pending[x] + Cardinality({s \in dropped : object[t][s] = x})]
    BY DEF process_handle_table_close_all
  <2>3. \A x \in Objects : pending[x] \in Nat
    BY <1>0 DEF ObjectTypes
  <2> HIDE DEF dropped
  <2>4. pending' \in [Objects -> Nat]
    BY <2>1, <2>2, <2>3
  <2> QED
    BY <1>0, <1>a, <2>4 DEF ObjectTypes
<1>5. HistoryTypes'
  BY <1>0, <1>b DEF HistoryTypes
<1>6. RefTypes'
  BY <1>0, <1>a, TypesKept
<1>7. CountsAgree'
  BY <1>a, CountsKept DEF IInv
<1>8. RetainedKeepsObject'
  <2>1. \A u \in Tables, v \in Slots :
          object'[u][v] = object[u][v] \/ (u = t /\ retained[t][v] = 0)
    BY <1>0, <1>a DEF EntryTypes, DropNow
  <2>2. \A v \in Slots : retained[t][v] = 0 => RefsOn(t, v) = {}
    BY ZeroCount DEF IInv
  <2> QED
    BY <1>a, <2>1, <2>2, ObjectsKept DEF IInv
<1>9. WatchPassed'
  <2>1. \A v \in Slots : generation'[t][v] = NextGeneration(generation[t][v])
    BY <1>0, <1>a DEF TableTypes
  <2>2. \A u \in Tables, v \in Slots :
          (u # t \/ v \notin Slots) => generation'[u][v] = generation[u][v]
    BY <1>0, <1>a DEF TableTypes
  <2>3. wrapped' = (wrapped \/ /\ watch # NoWatch
                               /\ watch.table = t
                               /\ SlotOf(watch.handle) \in Slots
                               /\ generation[t][SlotOf(watch.handle)] = GenMax)
    BY <1>0, <1>b, Watching
  <2> QED
    BY <1>3, <1>b, <2>1, <2>2, <2>3, WatchAdvance
<1> QED
  BY <1>1, <1>3, <1>4, <1>5, <1>6, <1>7, <1>8, <1>9 DEF IInv, TypeOK

LEMMA GetRetainStep ==
    ASSUME IInv, NEW r \in Refs, NEW t \in Tables, NEW h \in Handles,
           NEW rs \in SUBSET Rights, process_handle_get_retain(r, t, h, rs)
    PROVE  IInv'
<1>0. EntryTypes /\ TableTypes /\ RefTypes /\ ObjectTypes /\ HistoryTypes /\ CountsAgree
  BY DEF IInv, TypeOK
<1> DEFINE s == SlotOf(h)
           held == [active |-> TRUE, table |-> t, slot |-> s, object |-> object[t][s]]
<1>a. /\ ~ref[r].active
      /\ retained' = [retained EXCEPT ![t][s] = @ + 1]
      /\ retainedRefs' = [retainedRefs EXCEPT ![t] = @ + 1]
      /\ ref' = [ref EXCEPT ![r] = held]
      /\ UNCHANGED <<object, rights, closing, inheritable, generation, orefs,
                     pending, granted, watch, wrapped>>
  BY DEF process_handle_get_retain, OneMoreRetained
<1>b. s \in Slots /\ object[t][s] \in Objects
  BY Resolved DEF process_handle_get_retain
<1>c. /\ held.active /\ held.table = t /\ held.slot = s
      /\ held.object = object[t][s]
      /\ held \in [active : {TRUE}, table : Tables, slot : Slots, object : Objects]
  BY <1>b
<1> HIDE DEF s, held
<1>1. EntryTypes'
  <2>1. retained' \in [Tables -> [Slots -> Nat]]
    BY <1>0, <1>a, <1>b DEF EntryTypes
  <2> QED
    BY <1>0, <1>a, <2>1 DEF EntryTypes
<1>2. TableTypes' /\ ObjectTypes' /\ HistoryTypes'
  <2>1. TableTypes'
    BY <1>0, <1>a DEF TableTypes
  <2> QED
    BY <1>0, <1>a, <2>1, TypesKept
<1>3. RefTypes'
  BY <1>0, <1>a, <1>c DEF RefTypes
<1>4. /\ ref'[r] = held
      /\ \A q \in Refs : q # r => ref'[q] = ref[q]
  BY <1>0, <1>a DEF RefTypes
<1>5. CountsAgree'
  <2>1. ASSUME NEW u \in Tables, NEW v \in Slots
        PROVE  retained'[u][v] = Cardinality(RefsOn(u, v)')
    <3>1. CASE u = t /\ v = s
      <4>1. RefsOn(t, s)' = RefsOn(t, s) \cup {r}
        BY <1>4, <1>c DEF RefsOn
      <4>2. r \notin RefsOn(t, s)
        BY <1>a DEF RefsOn
      <4>3. Cardinality(RefsOn(t, s)') = Cardinality(RefsOn(t, s)) + 1
        BY <4>1, <4>2, RefsFinite, FS_AddElement
      <4> QED
        BY <1>0, <1>a, <1>b, <3>1, <4>3 DEF CountsAgree, EntryTypes
    <3>2. CASE ~(u = t /\ v = s)
      <4>1. RefsOn(u, v)' = RefsOn(u, v)
        BY <1>4, <1>c, <1>a, <3>2 DEF RefsOn
      <4> QED
        BY <1>0, <1>a, <1>b, <3>2, <4>1 DEF CountsAgree, EntryTypes
    <3> QED
      BY <3>1, <3>2
  <2>2. ASSUME NEW u \in Tables
        PROVE  retainedRefs'[u] = Cardinality(RefsOnTable(u)')
    <3>1. CASE u = t
      <4>1. RefsOnTable(t)' = RefsOnTable(t) \cup {r}
        BY <1>4, <1>c DEF RefsOnTable
      <4>2. r \notin RefsOnTable(t)
        BY <1>a DEF RefsOnTable
      <4>3. Cardinality(RefsOnTable(t)') = Cardinality(RefsOnTable(t)) + 1
        BY <4>1, <4>2, RefsFinite, FS_AddElement
      <4> QED
        BY <1>0, <1>a, <3>1, <4>3 DEF CountsAgree, TableTypes
    <3>2. CASE u # t
      <4>1. RefsOnTable(u)' = RefsOnTable(u)
        BY <1>4, <1>c, <1>a, <3>2 DEF RefsOnTable
      <4> QED
        BY <1>0, <1>a, <3>2, <4>1 DEF CountsAgree, TableTypes
    <3> QED
      BY <3>1, <3>2
  <2> QED
    BY <2>1, <2>2 DEF CountsAgree
<1>6. RetainedKeepsObject'
  <2> SUFFICES ASSUME NEW q \in Refs, ref'[q].active
               PROVE  object'[ref'[q].table][ref'[q].slot] = ref'[q].object
    BY DEF RetainedKeepsObject
  <2>1. CASE q = r
    BY <1>4, <1>a, <1>c, <2>1
  <2>2. CASE q # r
    BY <1>4, <1>a, <2>2 DEF IInv, RetainedKeepsObject
  <2> QED
    BY <2>1, <2>2
<1>7. WatchPassed'
  BY <1>a, WatchKept DEF IInv
<1> QED
  BY <1>1, <1>2, <1>3, <1>5, <1>6, <1>7 DEF IInv, TypeOK

LEMMA ReleaseRefStep ==
    ASSUME IInv, NEW r \in Refs, process_handle_release_ref(r)
    PROVE  IInv'
<1>0. /\ EntryTypes /\ TableTypes /\ RefTypes /\ ObjectTypes /\ HistoryTypes
      /\ CountsAgree
  BY SMTT(30) DEF IInv, TypeOK
<1>a. ref[r].active
  BY DEF process_handle_release_ref
<1>b. PICK t \in Tables, s \in Slots, o \in Objects :
        t = ref[r].table /\ s = ref[r].slot /\ o = object[t][s]
  BY <1>a, ActiveRef DEF IInv, RetainedKeepsObject
<1>c. r \in RefsOn(t, s) /\ r \in RefsOnTable(t)
  BY <1>a, <1>b DEF RefsOn, RefsOnTable
<1>d. retained[t][s] # 0 /\ retainedRefs[t] # 0
  BY <1>0, <1>b, <1>c, ZeroCountInverse, SMTT(30)
<1>e. /\ ref' = [ref EXCEPT ![r] = NoRef]
      /\ retained' = [retained EXCEPT ![t][s] = @ - 1]
      /\ retainedRefs' = [retainedRefs EXCEPT ![t] = @ - 1]
      /\ UNCHANGED <<rights, closing, inheritable, generation, orefs, granted,
                     watch, wrapped>>
  BY <1>b, <1>d DEF process_handle_release_ref
<1>f. \/ /\ retained[t][s] = 1
         /\ object' = [object EXCEPT ![t][s] = None]
         /\ pending' = [pending EXCEPT ![o] = @ + 1]
      \/ UNCHANGED <<object, pending>>
  BY <1>b, <1>d DEF process_handle_release_ref, LastRetained
<1>g. ~NoRef.active
  BY DEF NoRef
<1>h. /\ ref'[r] = NoRef
      /\ \A q \in Refs : q # r => ref'[q] = ref[q]
  BY <1>0, <1>e DEF RefTypes
<1>1. EntryTypes'
  <2>1. retained' \in [Tables -> [Slots -> Nat]]
    <3>1. retained \in [Tables -> [Slots -> Nat]]
      BY <1>0 DEF EntryTypes
    <3>2. retained[t][s] - 1 \in Nat
      BY <1>b, <1>d, <3>1
    <3> QED
      BY <1>e, <1>b, <3>1, <3>2
  <2>2. object' \in [Tables -> [Slots -> Objects \cup {None}]]
    <3>1. object \in [Tables -> [Slots -> Objects \cup {None}]]
      BY <1>0 DEF EntryTypes
    <3>2. object' = [object EXCEPT ![t][s] = None] \/ object' = object
      BY <1>f
    <3> QED
      BY <1>b, <3>1, <3>2
  <2> QED
    BY <1>0, <1>e, <2>1, <2>2, SMTT(30) DEF EntryTypes
<1>2. TableTypes'
  <2>1. retainedRefs[t] - 1 \in Nat
    BY <1>0, <1>b, <1>d DEF TableTypes
  <2> QED
    BY <1>0, <1>e, <1>b, <2>1 DEF TableTypes
<1>3. ObjectTypes'
  <2>1. pending \in [Objects -> Nat]
    BY <1>0 DEF ObjectTypes
  <2>2. pending' = [pending EXCEPT ![o] = @ + 1] \/ pending' = pending
    BY <1>f
  <2>3. pending' \in [Objects -> Nat]
    BY <2>1, <2>2
  <2> QED
    BY <1>0, <1>e, <2>3 DEF ObjectTypes
<1>4. RefTypes' /\ HistoryTypes'
  <2>1. RefTypes'
    BY <1>0, <1>e DEF RefTypes
  <2> QED
    BY <1>0, <1>e, <2>1, TypesKept
<1>5. CountsAgree'
  <2>1. ASSUME NEW u \in Tables, NEW v \in Slots
        PROVE  retained'[u][v] = Cardinality(RefsOn(u, v)')
    <3>1. CASE u = t /\ v = s
      <4>1. RefsOn(t, s)' = RefsOn(t, s) \ {r}
        BY <1>h, <1>g DEF RefsOn
      <4>2. Cardinality(RefsOn(t, s)') = Cardinality(RefsOn(t, s)) - 1
        BY <1>c, <4>1, RefsFinite, FS_RemoveElement
      <4> QED
        BY <1>0, <1>e, <1>b, <3>1, <4>2 DEF CountsAgree, EntryTypes
    <3>2. CASE ~(u = t /\ v = s)
      <4>1. RefsOn(u, v)' = RefsOn(u, v)
        BY <1>b, <1>h, <1>g, <3>2 DEF RefsOn
      <4> QED
        BY <1>0, <1>e, <1>b, <3>2, <4>1 DEF CountsAgree, EntryTypes
    <3> QED
      BY <3>1, <3>2
  <2>2. ASSUME NEW u \in Tables
        PROVE  retainedRefs'[u] = Cardinality(RefsOnTable(u)')
    <3>1. CASE u = t
      <4>1. RefsOnTable(t)' = RefsOnTable(t) \ {r}
        BY <1>h, <1>g DEF RefsOnTable
      <4>2. Cardinality(RefsOnTable(t)') = Cardinality(RefsOnTable(t)) - 1
        BY <1>c, <4>1, RefsFinite, FS_RemoveElement
      <4> QED
        BY <1>0, <1>e, <1>b, <3>1, <4>2 DEF CountsAgree, TableTypes
    <3>2. CASE u # t
      <4>1. RefsOnTable(u)' = RefsOnTable(u)
        BY <1>b, <1>h, <1>g, <3>2 DEF RefsOnTable
      <4> QED
        BY <1>0, <1>e, <1>b, <3>2, <4>1 DEF CountsAgree, TableTypes
    <3> QED
      BY <3>1, <3>2
  <2> QED
    BY <2>1, <2>2 DEF CountsAgree
<1>6. RetainedKeepsObject'
  <2> SUFFICES ASSUME NEW q \in Refs, ref'[q].active
               PROVE  object'[ref'[q].table][ref'[q].slot] = ref'[q].object
    BY DEF RetainedKeepsObject
  <2>1. q # r /\ ref'[q] = ref[q]
    BY <1>h, <1>g
  <2>2. ref[q].table \in Tables /\ ref[q].slot \in Slots
    BY <2>1, ActiveRef DEF IInv
  <2>3. ~(retained[t][s] = 1 /\ ref[q].table = t /\ ref[q].slot = s)
    <3> SUFFICES ASSUME retained[t][s] = 1, ref[q].table = t, ref[q].slot = s
                 PROVE  FALSE
      OBVIOUS
    <3>1. RefsOn(t, s) = {r}
      BY <1>0, <1>b, <1>c, OneCount
    <3>2. q \in RefsOn(t, s)
      BY <2>1 DEF RefsOn
    <3> QED
      BY <2>1, <3>1, <3>2
  <2>4. object'[ref[q].table][ref[q].slot] = object[ref[q].table][ref[q].slot]
    <3>1. CASE object' = object
      BY <3>1
    <3>2. CASE retained[t][s] = 1 /\ object' = [object EXCEPT ![t][s] = None]
      <4>1. ~(ref[q].table = t /\ ref[q].slot = s)
        BY <2>3, <3>2
      <4>2. object \in [Tables -> [Slots -> Objects \cup {None}]]
        BY <1>0 DEF EntryTypes
      <4> QED
        BY <2>2, <3>2, <4>1, <4>2
    <3> QED
      BY <1>f, <3>1, <3>2
  <2> QED
    BY <2>1, <2>4 DEF IInv, RetainedKeepsObject
<1>7. WatchPassed'
  BY <1>e, WatchKept DEF IInv
<1> QED
  BY <1>1, <1>2, <1>3, <1>4, <1>5, <1>6, <1>7 DEF IInv, TypeOK

LEMMA InheritStep ==
    ASSUME IInv, NEW dst \in Tables, NEW src \in Tables,
           process_handle_table_inherit(dst, src)
    PROVE  IInv'
<1>0. /\ EntryTypes /\ TableTypes /\ RefTypes /\ ObjectTypes /\ HistoryTypes
      /\ CountsAgree
  BY SMTT(30) DEF IInv, TypeOK
<1> DEFINE inherited == InheritedSlots(src)
           Copy(from, to) == [s \in Slots |-> IF s \in inherited THEN from[s] ELSE to[s]]
<1>a. /\ object' = [object EXCEPT ![dst] = Copy(object[src], object[dst])]
      /\ rights' = [rights EXCEPT ![dst] = Copy(rights[src], rights[dst])]
      /\ retained' = [retained EXCEPT ![dst] = Copy([s \in Slots |-> 0], retained[dst])]
      /\ closing' = [closing EXCEPT ![dst] = Copy([s \in Slots |-> FALSE], closing[dst])]
      /\ inheritable' = [inheritable EXCEPT ![dst] =
                            Copy(inheritable[src], inheritable[dst])]
      /\ orefs' = [o \in Objects |-> orefs[o] + InheritedRetains(src, o)]
      /\ UNCHANGED <<generation, retainedRefs, ref, pending, granted, watch, wrapped>>
  BY <1>0 DEF process_handle_table_inherit, EntryTypes
<1>b. \A s \in Slots : RefsOn(dst, s) = {}
  <2>1. \A s \in Slots : object[dst][s] = None
    BY DEF process_handle_table_inherit, FreeSlots
  <2> QED
    BY <2>1, RefsHoldObjects DEF IInv
<1> HIDE DEF inherited
<1>1. EntryTypes'
  <2>1. object' \in [Tables -> [Slots -> Objects \cup {None}]]
    <3>1. Copy(object[src], object[dst]) \in [Slots -> Objects \cup {None}]
      BY <1>0, SMTT(30) DEF EntryTypes
    <3> HIDE DEF Copy
    <3> QED
      BY <1>0, <1>a, <3>1 DEF EntryTypes
  <2>2. rights' \in [Tables -> [Slots -> SUBSET Rights]]
    <3>1. Copy(rights[src], rights[dst]) \in [Slots -> SUBSET Rights]
      BY <1>0 DEF EntryTypes
    <3> HIDE DEF Copy
    <3> QED
      BY <1>0, <1>a, <3>1 DEF EntryTypes
  <2>3. retained' \in [Tables -> [Slots -> Nat]]
    <3>1. Copy([s \in Slots |-> 0], retained[dst]) \in [Slots -> Nat]
      BY <1>0 DEF EntryTypes
    <3> HIDE DEF Copy
    <3> QED
      BY <1>0, <1>a, <3>1, SMTT(30) DEF EntryTypes
  <2>4. closing' \in [Tables -> [Slots -> BOOLEAN]]
    <3>1. Copy([s \in Slots |-> FALSE], closing[dst]) \in [Slots -> BOOLEAN]
      BY <1>0, ZenonT(30) DEF EntryTypes
    <3> HIDE DEF Copy
    <3> QED
      BY <1>0, <1>a, <3>1 DEF EntryTypes
  <2>5. inheritable' \in [Tables -> [Slots -> BOOLEAN]]
    <3>1. Copy(inheritable[src], inheritable[dst]) \in [Slots -> BOOLEAN]
      BY <1>0 DEF EntryTypes
    <3> HIDE DEF Copy
    <3> QED
      BY <1>0, <1>a, <3>1 DEF EntryTypes
  <2> QED
    BY <2>1, <2>2, <2>3, <2>4, <2>5, SMTT(30) DEF EntryTypes
<1>2. ObjectTypes'
  <2>1. \A o \in Objects : InheritedRetains(src, o) \in Nat
    <3>1. IsFiniteSet(Slots)
      BY FS_Interval, ConstantAssumption DEF Slots
    <3>2. \A o : {s \in InheritedSlots(src) : object[src][s] = o} \subseteq Slots
      BY DEF InheritedSlots
    <3> QED
      BY <3>1, <3>2, FS_Subset, FS_CardinalityType DEF InheritedRetains
  <2>2. \A o \in Objects : orefs[o] \in Int
    BY <1>0 DEF ObjectTypes
  <2>3. orefs' \in [Objects -> Int]
    BY <1>a, <2>1, <2>2
  <2> QED
    BY <1>0, <1>a, <2>3 DEF ObjectTypes
<1>3. TableTypes' /\ RefTypes' /\ HistoryTypes'
  BY <1>0, <1>a, TypesKept
<1>4. CountsAgree'
  <2>1. \A u \in Tables : retainedRefs'[u] = Cardinality(RefsOnTable(u)')
    BY <1>0, <1>a, SameRefs DEF CountsAgree
  <2> SUFFICES ASSUME NEW u \in Tables, NEW v \in Slots
               PROVE  retained'[u][v] = Cardinality(RefsOn(u, v)')
    BY <2>1 DEF CountsAgree
  <2>2. CASE u = dst
    <3>1. retained[dst][v] = 0
      BY <1>0, <1>b, FS_EmptySet DEF CountsAgree
    <3>2. retained'[dst][v] = 0
      BY <1>0, <1>a, <3>1 DEF EntryTypes
    <3> QED
      BY <1>0, <1>a, <1>b, <2>2, <3>2, SameRefs, FS_EmptySet, SMTT(30)
  <2>3. CASE u # dst
    BY <1>0, <1>a, <2>3, SameRefs DEF CountsAgree, EntryTypes
  <2> QED
    BY <2>2, <2>3
<1>5. RetainedKeepsObject'
  <2>1. \A u \in Tables, v \in Slots : u # dst => object'[u][v] = object[u][v]
    BY <1>0, <1>a DEF EntryTypes
  <2> QED
    BY <1>a, <1>b, <2>1, ObjectsKept DEF IInv
<1>6. WatchPassed'
  BY <1>a, WatchKept DEF IInv
<1> QED
  BY <1>1, <1>2, <1>3, <1>4, <1>5, <1>6 DEF IInv, TypeOK

-----------------------------------------------------------------------------
\* The inductive invariant holds in every state of every handle table.
THEOREM InductiveInvariant == Spec => []IInv
<1>1. Init => IInv
  BY InitIInv
<1>2. IInv /\ [Next]_vars => IInv'
  <2> SUFFICES ASSUME IInv, [Next]_vars PROVE IInv'
    OBVIOUS
  <2>1. CASE UNCHANGED vars
    <3>1. TypeOK'
      BY <2>1, TypesKept DEF vars, entryVars, IInv, TypeOK
    <3>2. RetainedKeepsObject'
      BY <2>1 DEF vars, entryVars, IInv, RetainedKeepsObject
    <3> QED
      BY <2>1, <3>1, <3>2, CountsKept, WatchKept DEF vars, entryVars, IInv
  <2>2. ASSUME NEW t \in Tables, process_handle_table_initialize(t) PROVE IInv'
    BY <2>2, InitializeStep
  <2>3. ASSUME NEW t \in Tables, process_handle_table_close_all(t) PROVE IInv'
    BY <2>3, CloseAllStep
  <2>4. ASSUME NEW t \in Tables, NEW o \in Objects, NEW rs \in SUBSET Rights,
               process_handle_open_owned_kind(t, o, rs)
        PROVE  IInv'
    BY <2>4, OpenStep
  <2>5. ASSUME NEW t \in Tables, NEW h \in Handles, process_handle_close(t, h)
        PROVE  IInv'
    BY <2>5, CloseStep
  <2>6. ASSUME NEW t \in Tables, NEW h \in Handles, NEW flag \in BOOLEAN,
               process_handle_set_inheritable(t, h, flag)
        PROVE  IInv'
    BY <2>6, SetInheritableStep
  <2>7. ASSUME NEW t \in Tables, NEW h \in Handles, NEW rs \in SUBSET Rights,
               process_handle_duplicate(t, h, rs)
        PROVE  IInv'
    BY <2>7, DuplicateStep
  <2>8. ASSUME NEW t \in Tables, NEW h \in Handles, NEW r \in Refs,
               NEW rs \in SUBSET Rights, process_handle_get_retain(r, t, h, rs)
        PROVE  IInv'
    BY <2>8, GetRetainStep
  <2>9. ASSUME NEW t \in Tables, NEW src \in Tables, process_handle_table_inherit(t, src)
        PROVE  IInv'
    BY <2>9, InheritStep
  <2>10. ASSUME NEW r \in Refs, process_handle_release_ref(r) PROVE IInv'
    BY <2>10, ReleaseRefStep
  <2>11. ASSUME NEW o \in Objects, RunRelease(o) PROVE IInv'
    BY <2>11, RunReleaseStep
  <2> QED
    BY <2>1, <2>2, <2>3, <2>4, <2>5, <2>6, <2>7, <2>8, <2>9, <2>10, <2>11 DEF Next
<1> QED
  BY <1>1, <1>2, PTL DEF Spec

\* The fields of every table keep their types: in particular no generation is
\* ever zero, however often a slot is closed.
THEOREM TypeCorrect == Spec => []TypeOK
<1>1. IInv => TypeOK
  BY DEF IInv
<1> QED
  BY <1>1, InductiveInvariant, PTL

\* An entry that a call in flight retained keeps its object until that call
\* releases it, for any number of tables, slots and callers.
THEOREM RetainedSafety == Spec => []RetainedKeepsObject
<1>1. IInv => RetainedKeepsObject
  BY DEF IInv
<1> QED
  BY <1>1, InductiveInvariant, PTL

\* The table's counter that process_destroy consults is zero only when no call
\* in flight holds one of its entries.
THEOREM TeardownSafety == Spec => []TeardownSeesReferences
<1>1. IInv => TeardownSeesReferences
  <2> SUFFICES ASSUME IInv, NEW t \in Tables, retainedRefs[t] = 0
               PROVE  RefsOnTable(t) = {}
    BY DEF TeardownSeesReferences, process_handle_table_has_retained
  <2> QED
    BY RefsFinite, FS_EmptySet DEF IInv, CountsAgree
<1> QED
  BY <1>1, InductiveInvariant, PTL

\* Below a wrap of the 16-bit generation, a closed handle number never
\* resolves again.
THEOREM StaleHandleSafety == Spec => []StaleHandleRejected
<1>1. IInv => StaleHandleRejected
  <2> SUFFICES ASSUME IInv, watch # NoWatch, ~wrapped,
                      generation[watch.table][SlotOf(watch.handle)]
                         = EncodedGeneration(watch.handle)
               PROVE  FALSE
    BY DEF StaleHandleRejected, Resolves
  <2>1. EncodedGeneration(watch.handle) \in Generations
    BY Watching DEF IInv, TypeOK
  <2> QED
    BY <2>1 DEF IInv, WatchPassed, Generations
<1> QED
  BY <1>1, InductiveInvariant, PTL
=============================================================================
