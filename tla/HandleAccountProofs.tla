-------------------------- MODULE HandleAccountProofs ------------------------
(***************************************************************************)
(* Every reference an object counts is held by an entry or by a deferred   *)
(* close, and no entry holds a right its object was not opened with: the   *)
(* accounting of the handle table, for every value of its constants.       *)
(***************************************************************************)
EXTENDS HandleTableProofs

\* The entries that hold o.
Entries(o) == {e \in Tables \X Slots : object[e[1]][e[2]] = o}

AccountInv == IInv /\ ReferencesAccounted /\ RightsNeverGrow

\* There are finitely many.
LEMMA EntriesFinite ==
    /\ IsFiniteSet(Slots) /\ IsFiniteSet(Tables \X Slots)
    /\ \A S : S \subseteq Tables \X Slots => IsFiniteSet(S) /\ Cardinality(S) \in Nat
<1>1. IsFiniteSet(Slots)
  BY ConstantAssumption, FS_Interval DEF Slots
<1>2. IsFiniteSet(Tables \X Slots)
  BY <1>1, ConstantAssumption, FS_Product
<1> QED
  BY <1>1, <1>2, FS_Subset, FS_CardinalityType

\* The entries of one table that a set of slots selects are as many as these.
LEMMA EntriesOfTable ==
    ASSUME NEW t \in Tables, NEW S \in SUBSET Slots
    PROVE  /\ IsFiniteSet({t} \X S) /\ IsFiniteSet(S)
           /\ Cardinality({t} \X S) = Cardinality(S) /\ Cardinality(S) \in Nat
<1>1. IsFiniteSet(S) /\ Cardinality(S) \in Nat
  BY EntriesFinite, FS_Subset, FS_CardinalityType
<1>2. IsFiniteSet({t}) /\ Cardinality({t}) = 1
  BY FS_Singleton
<1>3. IsFiniteSet({t} \X S) /\ Cardinality({t} \X S) = 1 * Cardinality(S)
  BY <1>1, <1>2, FS_Product
<1> QED
  BY <1>1, <1>3

\* Entries of table t in the slots S begin to hold o, or stop holding it.
LEMMA EntriesAdded ==
    ASSUME NEW o, NEW t \in Tables, NEW S \in SUBSET Slots,
           Entries(o)' = Entries(o) \cup ({t} \X S), Entries(o) \cap ({t} \X S) = {}
    PROVE  Cardinality(Entries(o)') = Cardinality(Entries(o)) + Cardinality(S)
<1>1. IsFiniteSet(Entries(o)) /\ Cardinality(Entries(o)) \in Nat
  BY EntriesFinite DEF Entries
<1>2. /\ IsFiniteSet({t} \X S)
      /\ Cardinality({t} \X S) = Cardinality(S) /\ Cardinality(S) \in Nat
  BY EntriesOfTable
<1>3. Cardinality({}) = 0
  BY FS_EmptySet
<1>4. Cardinality(Entries(o) \cup ({t} \X S))
        = Cardinality(Entries(o)) + Cardinality({t} \X S) - Cardinality(Entries(o) \cap ({t} \X S))
  BY <1>1, <1>2, FS_Union
<1>5. Cardinality(Entries(o) \cap ({t} \X S)) = 0
  BY <1>3
<1> QED
  BY <1>1, <1>2, <1>4, <1>5

LEMMA EntriesRemoved ==
    ASSUME NEW o, NEW t \in Tables, NEW S \in SUBSET Slots,
           Entries(o)' = Entries(o) \ ({t} \X S), {t} \X S \subseteq Entries(o)
    PROVE  Cardinality(Entries(o)') = Cardinality(Entries(o)) - Cardinality(S)
<1>1. IsFiniteSet(Entries(o)) /\ Cardinality(Entries(o)) \in Nat
  BY EntriesFinite DEF Entries
<1>2. Cardinality({t} \X S) = Cardinality(S) /\ Cardinality(S) \in Nat
  BY EntriesOfTable
<1>3. Entries(o) \cap ({t} \X S) = {t} \X S
  OBVIOUS
<1>4. Cardinality(Entries(o) \ ({t} \X S))
        = Cardinality(Entries(o)) - Cardinality(Entries(o) \cap ({t} \X S))
  BY <1>1, FS_Difference
<1> QED
  BY <1>1, <1>2, <1>3, <1>4

\* A free slot gets object o.
LEMMA SlotFilled ==
    ASSUME EntryTypes, NEW t \in Tables, NEW s \in Slots, NEW o \in Objects,
           object[t][s] = None, object' = [object EXCEPT ![t][s] = o]
    PROVE  /\ Cardinality(Entries(o)') = Cardinality(Entries(o)) + 1
           /\ \A p \in Objects \ {o} : Entries(p)' = Entries(p)
           /\ \A u \in Tables, k \in Slots :
                object'[u][k] = IF u = t /\ k = s THEN o ELSE object[u][k]
<1>1. \A u \in Tables, k \in Slots :
        object'[u][k] = IF u = t /\ k = s THEN o ELSE object[u][k]
  BY DEF EntryTypes
<1>2. Entries(o)' = Entries(o) \cup ({t} \X {s})
  BY <1>1 DEF Entries
<1>3. Entries(o) \cap ({t} \X {s}) = {}
  BY ConstantAssumption DEF Entries
<1>4. \A p \in Objects \ {o} : Entries(p)' = Entries(p)
  BY <1>1, ConstantAssumption DEF Entries
<1>5. Cardinality({s}) = 1
  BY FS_Singleton, SMTT(30)
<1>6. {s} \in SUBSET Slots
  OBVIOUS
<1>7. Cardinality(Entries(o)') = Cardinality(Entries(o)) + Cardinality({s})
  BY <1>2, <1>3, <1>6, EntriesAdded
<1> QED
  BY <1>1, <1>4, <1>5, <1>7

\* A slot that holds o is emptied.
LEMMA SlotEmptied ==
    ASSUME EntryTypes, NEW t \in Tables, NEW s \in Slots, NEW o \in Objects,
           object[t][s] = o, object' = [object EXCEPT ![t][s] = None]
    PROVE  /\ Cardinality(Entries(o)') = Cardinality(Entries(o)) - 1
           /\ \A p \in Objects \ {o} : Entries(p)' = Entries(p)
           /\ \A u \in Tables, k \in Slots :
                object'[u][k] = IF u = t /\ k = s THEN None ELSE object[u][k]
<1>1. \A u \in Tables, k \in Slots :
        object'[u][k] = IF u = t /\ k = s THEN None ELSE object[u][k]
  BY DEF EntryTypes
<1>2. Entries(o)' = Entries(o) \ ({t} \X {s})
  BY <1>1, ConstantAssumption DEF Entries
<1>3. {t} \X {s} \subseteq Entries(o)
  BY DEF Entries
<1>4. \A p \in Objects \ {o} : Entries(p)' = Entries(p)
  BY <1>1, ConstantAssumption DEF Entries
<1>5. Cardinality({s}) = 1
  BY FS_Singleton
<1>6. {s} \in SUBSET Slots
  OBVIOUS
<1>7. Cardinality(Entries(o)') = Cardinality(Entries(o)) - Cardinality({s})
  BY <1>2, <1>3, <1>6, EntriesRemoved
<1> QED
  BY <1>1, <1>4, <1>5, <1>7

\* ReferencesAccounted in these terms.
LEMMA Accounting ==
    /\ ReferencesAccounted <=> \A o \in Objects : orefs[o] = pending[o] + Cardinality(Entries(o))
    /\ ReferencesAccounted' <=> \A o \in Objects : orefs'[o] = pending'[o] + Cardinality(Entries(o)')
BY DEF ReferencesAccounted, Entries

\* What holds of every object before a step.
LEMMA ObjectCounts ==
    ASSUME AccountInv, NEW o \in Objects
    PROVE  /\ orefs[o] \in Int /\ pending[o] \in Nat /\ Cardinality(Entries(o)) \in Nat
           /\ IsFiniteSet(Entries(o))
           /\ orefs[o] = pending[o] + Cardinality(Entries(o))
<1>1. IsFiniteSet(Entries(o)) /\ Cardinality(Entries(o)) \in Nat
  BY EntriesFinite DEF Entries
<1> QED
  BY <1>1, Accounting DEF AccountInv, IInv, TypeOK, ObjectTypes

\* Steps that leave objects and their counts alone.
LEMMA AccountKept ==
    ASSUME ReferencesAccounted, UNCHANGED <<object, orefs, pending>>
    PROVE  ReferencesAccounted'
BY DEF ReferencesAccounted

LEMMA OpenAccount ==
    ASSUME AccountInv, NEW t \in Tables, NEW o \in Objects, NEW rs \in SUBSET Rights,
           process_handle_open_owned_kind(t, o, rs)
    PROVE  ReferencesAccounted' /\ RightsNeverGrow'
<1>1. PICK s \in Slots : /\ IsFirstFree(t, s)
                         /\ object' = [object EXCEPT ![t][s] = o]
                         /\ rights' = [rights EXCEPT ![t][s] = rs]
  BY DEF process_handle_open_owned_kind
<1>2. EntryTypes /\ ObjectTypes
  BY DEF AccountInv, IInv, TypeOK
<1>3. /\ orefs[o] = 0 /\ orefs' = [orefs EXCEPT ![o] = 1] /\ pending' = pending
      /\ granted' = [granted EXCEPT ![o] = rs]
  BY DEF process_handle_open_owned_kind
<1>4. /\ Cardinality(Entries(o)') = Cardinality(Entries(o)) + 1
      /\ \A p \in Objects \ {o} : Entries(p)' = Entries(p)
      /\ \A u \in Tables, k \in Slots :
            object'[u][k] = IF u = t /\ k = s THEN o ELSE object[u][k]
  BY <1>1, <1>2, SlotFilled, ZenonT(30) DEF IsFirstFree
<1>5. pending[o] = 0 /\ Cardinality(Entries(o)) = 0
  BY <1>3, ObjectCounts
<1>6. ReferencesAccounted'
  <2> SUFFICES ASSUME NEW p \in Objects
               PROVE  orefs'[p] = pending'[p] + Cardinality(Entries(p)')
    BY Accounting
  <2>1. CASE p = o
    BY <1>2, <1>3, <1>4, <1>5, <2>1 DEF ObjectTypes
  <2>2. CASE p # o
    BY <1>2, <1>3, <1>4, <2>2, ObjectCounts DEF ObjectTypes
  <2> QED
    BY <2>1, <2>2
<1>7. Entries(o) = {}
  BY <1>5, ObjectCounts, FS_EmptySet
<1>8. ASSUME NEW u \in Tables, NEW k \in Slots PROVE object[u][k] # o
  <2>1. object[u][k] = o => <<u, k>> \in Entries(o)
    BY DEF Entries
  <2> QED
    BY <1>7, <2>1
<1>9. RightsNeverGrow'
  <2> SUFFICES ASSUME NEW u \in Tables, NEW k \in Slots, object'[u][k] # None
               PROVE  rights'[u][k] \subseteq granted'[object'[u][k]]
    BY DEF RightsNeverGrow
  <2>1. CASE u = t /\ k = s
    <3>1. object'[u][k] = o /\ rights'[u][k] = rs /\ granted'[o] = rs
      BY <1>1, <1>2, <1>3, <1>4, <2>1 DEF EntryTypes, ObjectTypes
    <3> QED
      BY <3>1
  <2>2. CASE ~(u = t /\ k = s)
    <3>1. object'[u][k] = object[u][k] /\ object[u][k] # o /\ object[u][k] \in Objects
      BY <1>2, <1>4, <1>8, <2>2 DEF EntryTypes
    <3>2. rights'[u][k] = rights[u][k]
      BY <1>1, <1>2, <2>2 DEF EntryTypes
    <3>3. granted'[object[u][k]] = granted[object[u][k]]
      BY <1>2, <1>3, <3>1 DEF ObjectTypes
    <3> QED
      BY <3>1, <3>2, <3>3 DEF AccountInv, RightsNeverGrow
  <2> QED
    BY <2>1, <2>2
<1> QED
  BY <1>6, <1>9

LEMMA DuplicateAccount ==
    ASSUME AccountInv, NEW t \in Tables, NEW h \in Handles, NEW asked \in SUBSET Rights,
           process_handle_duplicate(t, h, asked)
    PROVE  ReferencesAccounted' /\ RightsNeverGrow'
<1> DEFINE source == SlotOf(h)
<1>0. source \in Slots /\ object[t][source] \in Objects
  BY Resolved DEF AccountInv, process_handle_duplicate
<1>1. PICK o \in Objects : o = object[t][source]
  BY <1>0
<1>2. EntryTypes /\ ObjectTypes
  BY DEF AccountInv, IInv, TypeOK
<1>3. /\ o # None /\ asked \subseteq rights[t][source]
      /\ orefs' = [orefs EXCEPT ![o] = @ + 1] /\ pending' = pending /\ granted' = granted
  BY <1>1, ConstantAssumption DEF process_handle_duplicate, RightsAllowed
<1>8. PICK s \in Slots :
        /\ IsFirstFree(t, s)
        /\ object' = [object EXCEPT ![t][s] = o]
        /\ rights' = [rights EXCEPT ![t][s] = IF asked = {} THEN rights[t][source] ELSE asked]
  BY <1>1 DEF process_handle_duplicate
<1> HIDE DEF source
<1>4. /\ Cardinality(Entries(o)') = Cardinality(Entries(o)) + 1
      /\ \A p \in Objects \ {o} : Entries(p)' = Entries(p)
      /\ \A u \in Tables, k \in Slots :
            object'[u][k] = IF u = t /\ k = s THEN o ELSE object[u][k]
  BY <1>2, <1>8, SlotFilled, ZenonT(30) DEF IsFirstFree
<1>5. ReferencesAccounted'
  <2> SUFFICES ASSUME NEW p \in Objects
               PROVE  orefs'[p] = pending'[p] + Cardinality(Entries(p)')
    BY Accounting
  <2>1. CASE p = o
    <3>1. orefs'[o] = orefs[o] + 1 /\ pending'[o] = pending[o]
      BY <1>2, <1>3 DEF ObjectTypes
    <3> QED
      BY <1>4, <2>1, <3>1, ObjectCounts
  <2>2. CASE p # o
    BY <1>2, <1>3, <1>4, <2>2, ObjectCounts DEF ObjectTypes
  <2> QED
    BY <2>1, <2>2
<1>6. rights[t][source] \subseteq granted[o]
  BY <1>0, <1>1, <1>3 DEF AccountInv, RightsNeverGrow
<1>7. RightsNeverGrow'
  <2> SUFFICES ASSUME NEW u \in Tables, NEW k \in Slots, object'[u][k] # None
               PROVE  rights'[u][k] \subseteq granted'[object'[u][k]]
    BY DEF RightsNeverGrow
  <2>1. CASE u = t /\ k = s
    <3>1. object'[u][k] = o /\ rights'[u][k] = IF asked = {} THEN rights[t][source] ELSE asked
      BY <1>2, <1>4, <1>8, <2>1 DEF EntryTypes
    <3> QED
      BY <1>3, <1>6, <3>1
  <2>2. CASE ~(u = t /\ k = s)
    <3>1. object'[u][k] = object[u][k] /\ rights'[u][k] = rights[u][k]
      BY <1>2, <1>4, <1>8, <2>2 DEF EntryTypes
    <3> QED
      BY <1>3, <3>1 DEF AccountInv, RightsNeverGrow
  <2> QED
    BY <2>1, <2>2
<1> QED
  BY <1>5, <1>7

\* A slot that nothing retains is emptied, and the release of its object is due.
LEMMA DropAccount ==
    ASSUME AccountInv, NEW t \in Tables, NEW s \in Slots, NEW o \in Objects,
           object[t][s] = o, object' = [object EXCEPT ![t][s] = None],
           pending' = [pending EXCEPT ![o] = @ + 1], orefs' = orefs
    PROVE  /\ ReferencesAccounted'
           /\ \A u \in Tables, k \in Slots :
                object'[u][k] = IF u = t /\ k = s THEN None ELSE object[u][k]
<1>1. EntryTypes /\ ObjectTypes
  BY DEF AccountInv, IInv, TypeOK
<1>3. /\ Cardinality(Entries(o)') = Cardinality(Entries(o)) - 1
      /\ \A p \in Objects \ {o} : Entries(p)' = Entries(p)
      /\ \A u \in Tables, k \in Slots :
            object'[u][k] = IF u = t /\ k = s THEN None ELSE object[u][k]
  BY <1>1, SlotEmptied
<1>4. ReferencesAccounted'
  <2> SUFFICES ASSUME NEW p \in Objects
               PROVE  orefs'[p] = pending'[p] + Cardinality(Entries(p)')
    BY Accounting
  <2>1. CASE p = o
    <3>1. orefs'[o] = orefs[o] /\ pending'[o] = pending[o] + 1
      BY <1>1 DEF ObjectTypes
    <3> QED
      BY <1>3, <2>1, <3>1, ObjectCounts
  <2>2. CASE p # o
    BY <1>1, <1>3, <2>2, ObjectCounts, SMTT(30) DEF ObjectTypes
  <2> QED
    BY <2>1, <2>2
<1> QED
  BY <1>3, <1>4

\* Entries lose rights or objects: nothing grows.
LEMMA RightsShrink ==
    ASSUME AccountInv, granted' = granted,
           \A u \in Tables, k \in Slots :
              \/ object'[u][k] = None
              \/ object'[u][k] = object[u][k] /\ rights'[u][k] \subseteq rights[u][k]
    PROVE  RightsNeverGrow'
<1> SUFFICES ASSUME NEW u \in Tables, NEW k \in Slots, object'[u][k] # None
             PROVE  rights'[u][k] \subseteq granted'[object'[u][k]]
  BY DEF RightsNeverGrow
<1>1. object'[u][k] = object[u][k] /\ rights'[u][k] \subseteq rights[u][k]
  OBVIOUS
<1> QED
  BY <1>1 DEF AccountInv, RightsNeverGrow

LEMMA CloseAccount ==
    ASSUME AccountInv, NEW t \in Tables, NEW h \in Handles, process_handle_close(t, h)
    PROVE  ReferencesAccounted' /\ RightsNeverGrow'
<1>0. SlotOf(h) \in Slots /\ object[t][SlotOf(h)] \in Objects
  BY Resolved DEF AccountInv, process_handle_close
<1>1. PICK s \in Slots : s = SlotOf(h) /\ object[t][s] \in Objects
  BY <1>0
<1>2. rights' = [rights EXCEPT ![t][s] = {}] /\ orefs' = orefs /\ granted' = granted
  BY <1>1 DEF process_handle_close
<1>3. \/ /\ object' = [object EXCEPT ![t][s] = None]
         /\ pending' = [pending EXCEPT ![object[t][s]] = @ + 1]
      \/ UNCHANGED <<object, pending>>
  BY <1>1 DEF process_handle_close
<1>4. EntryTypes
  BY DEF AccountInv, IInv, TypeOK
<1>5. \A u \in Tables, k \in Slots : rights'[u][k] \subseteq rights[u][k]
  BY <1>1, <1>2, <1>4 DEF EntryTypes
<1>6. ReferencesAccounted'
      /\ \A u \in Tables, k \in Slots : object'[u][k] = None \/ object'[u][k] = object[u][k]
  <2>1. CASE UNCHANGED <<object, pending>>
    BY <1>2, <2>1, AccountKept DEF AccountInv
  <2>2. CASE /\ object' = [object EXCEPT ![t][s] = None]
             /\ pending' = [pending EXCEPT ![object[t][s]] = @ + 1]
    <3>1. PICK o \in Objects : object[t][s] = o
      BY <1>1
    <3>2. /\ object' = [object EXCEPT ![t][s] = None]
          /\ pending' = [pending EXCEPT ![o] = @ + 1]
      BY <2>2, <3>1
    <3>4. orefs' = orefs
      BY <1>2
    <3>3. ReferencesAccounted' /\ \A u \in Tables, k \in Slots :
            object'[u][k] = IF u = t /\ k = s THEN None ELSE object[u][k]
      BY <3>1, <3>2, <3>4, DropAccount
    <3> QED
      BY <3>3
  <2> QED
    BY <1>3, <2>1, <2>2
<1> QED
  BY <1>2, <1>5, <1>6, RightsShrink

LEMMA ReleaseRefAccount ==
    ASSUME AccountInv, NEW r \in Refs, process_handle_release_ref(r)
    PROVE  ReferencesAccounted' /\ RightsNeverGrow'
<1> DEFINE t == ref[r].table
<1> DEFINE s == ref[r].slot
<1>1. t \in Tables /\ s \in Slots /\ object[t][s] \in Objects
  BY ActiveRef, SMTT(30) DEF AccountInv, IInv, RetainedKeepsObject, process_handle_release_ref
<1>2. UNCHANGED <<rights, orefs, granted>>
  BY SMTT(30) DEF process_handle_release_ref
<1>3. \/ /\ object' = [object EXCEPT ![t][s] = None]
         /\ pending' = [pending EXCEPT ![object[t][s]] = @ + 1]
      \/ UNCHANGED <<object, pending>>
  BY DEF process_handle_release_ref
<1>4. PICK u \in Tables, k \in Slots : u = t /\ k = s
  BY <1>1, SMTT(30)
<1>5. ReferencesAccounted'
      /\ \A v \in Tables, i \in Slots : object'[v][i] = None \/ object'[v][i] = object[v][i]
  <2>1. CASE UNCHANGED <<object, pending>>
    BY <1>2, <2>1, AccountKept DEF AccountInv
  <2>2. CASE /\ object' = [object EXCEPT ![t][s] = None]
             /\ pending' = [pending EXCEPT ![object[t][s]] = @ + 1]
    <3> HIDE DEF t, s
    <3>1. PICK o \in Objects : object[u][k] = o
      BY <1>1, <1>4
    <3>2. /\ object' = [object EXCEPT ![u][k] = None]
          /\ pending' = [pending EXCEPT ![o] = @ + 1]
      BY <1>4, <2>2, <3>1
    <3>3. ReferencesAccounted' /\ \A v \in Tables, i \in Slots :
            object'[v][i] = IF v = u /\ i = k THEN None ELSE object[v][i]
      BY <1>2, <3>1, <3>2, DropAccount
    <3> QED
      BY <3>3
  <2> QED
    BY <1>3, <2>1, <2>2
<1> QED
  BY <1>2, <1>5, RightsShrink

LEMMA CloseAllAccount ==
    ASSUME AccountInv, NEW t \in Tables, process_handle_table_close_all(t)
    PROVE  ReferencesAccounted' /\ RightsNeverGrow'
<1> DEFINE dropped == {s \in Slots : DropNow(t, s)}
<1>1. EntryTypes /\ ObjectTypes
  BY DEF AccountInv, IInv, TypeOK
<1>2. /\ object' = [object EXCEPT ![t] = [s \in Slots |-> IF s \in dropped THEN None ELSE @[s]]]
      /\ rights' = [rights EXCEPT ![t] = [s \in Slots |-> {}]]
      /\ pending' = [o \in Objects |-> pending[o] + Cardinality({s \in dropped : object[t][s] = o})]
      /\ orefs' = orefs /\ granted' = granted
  BY DEF process_handle_table_close_all
<1>3. dropped \subseteq Slots
  OBVIOUS
<1> HIDE DEF dropped
<1>4. \A u \in Tables, k \in Slots :
        /\ object'[u][k] = IF u = t /\ k \in dropped THEN None ELSE object[u][k]
        /\ rights'[u][k] \subseteq rights[u][k]
  BY <1>1, <1>2 DEF EntryTypes
<1>5. ReferencesAccounted'
  <2> SUFFICES ASSUME NEW o \in Objects
               PROVE  orefs'[o] = pending'[o] + Cardinality(Entries(o)')
    BY Accounting
  <2> DEFINE S == {s \in dropped : object[t][s] = o}
  <2>1. S \in SUBSET Slots /\ \A k : k \in S <=> k \in dropped /\ object[t][k] = o
    BY <1>3
  <2>2. pending'[o] = pending[o] + Cardinality(S)
    BY <1>2
  <2> HIDE DEF S
  <2>3. PICK D \in SUBSET Slots : D = S
    BY <2>1
  <2>4. Entries(o)' = Entries(o) \ ({t} \X D)
    BY <1>3, <1>4, <2>1, <2>3, ConstantAssumption DEF Entries
  <2>5. {t} \X D \subseteq Entries(o)
    BY <2>1, <2>3 DEF Entries
  <2>6. Cardinality(Entries(o)') = Cardinality(Entries(o)) - Cardinality(D)
    BY <2>4, <2>5, EntriesRemoved
  <2>7. Cardinality(D) \in Nat
    BY EntriesOfTable
  <2> QED
    BY <1>2, <2>2, <2>3, <2>6, <2>7, ObjectCounts
<1> QED
  BY <1>2, <1>4, <1>5, RightsShrink

LEMMA InheritAccount ==
    ASSUME AccountInv, NEW dst \in Tables, NEW src \in Tables,
           process_handle_table_inherit(dst, src)
    PROVE  ReferencesAccounted' /\ RightsNeverGrow'
<1> DEFINE inherited == InheritedSlots(src)
<1>1. EntryTypes /\ ObjectTypes
  BY DEF AccountInv, IInv, TypeOK
<1>2. /\ object' = [object EXCEPT ![dst] = [s \in Slots |-> IF s \in inherited THEN object[src][s] ELSE @[s]]]
      /\ rights' = [rights EXCEPT ![dst] = [s \in Slots |-> IF s \in inherited THEN rights[src][s] ELSE @[s]]]
      /\ orefs' = [o \in Objects |-> orefs[o] + InheritedRetains(src, o)]
      /\ pending' = pending /\ granted' = granted /\ dst # src
  BY DEF process_handle_table_inherit
<1>3. inherited \subseteq Slots
  BY DEF InheritedSlots
<1>4. \A s \in Slots : object[dst][s] = None
  BY DEF process_handle_table_inherit, FreeSlots
<1>5. \A o : InheritedRetains(src, o) = Cardinality({s \in inherited : object[src][s] = o})
  BY DEF InheritedRetains
<1> HIDE DEF inherited
<1>6. \A u \in Tables, k \in Slots :
        /\ object'[u][k] = IF u = dst /\ k \in inherited THEN object[src][k] ELSE object[u][k]
        /\ rights'[u][k] = IF u = dst /\ k \in inherited THEN rights[src][k] ELSE rights[u][k]
  BY <1>1, <1>2 DEF EntryTypes
<1>7. ReferencesAccounted'
  <2> SUFFICES ASSUME NEW o \in Objects
               PROVE  orefs'[o] = pending'[o] + Cardinality(Entries(o)')
    BY Accounting
  <2> DEFINE S == {s \in inherited : object[src][s] = o}
  <2>1. S \in SUBSET Slots /\ \A k : k \in S <=> k \in inherited /\ object[src][k] = o
    BY <1>3
  <2>2. orefs'[o] = orefs[o] + Cardinality(S)
    BY <1>2, <1>5
  <2> HIDE DEF S
  <2>3. PICK D \in SUBSET Slots : D = S
    BY <2>1
  <2>4. o # None
    BY ConstantAssumption
  <2>5. Entries(o)' = Entries(o) \cup ({dst} \X D)
    BY <1>3, <1>4, <1>6, <2>1, <2>3, <2>4 DEF Entries
  <2>6. Entries(o) \cap ({dst} \X D) = {}
    BY <1>4, <2>4 DEF Entries
  <2>7. Cardinality(Entries(o)') = Cardinality(Entries(o)) + Cardinality(D)
    BY <2>5, <2>6, EntriesAdded
  <2>8. Cardinality(D) \in Nat
    BY EntriesOfTable
  <2> QED
    BY <1>2, <2>2, <2>3, <2>7, <2>8, ObjectCounts
<1>8. RightsNeverGrow'
  <2> SUFFICES ASSUME NEW u \in Tables, NEW k \in Slots, object'[u][k] # None
               PROVE  rights'[u][k] \subseteq granted'[object'[u][k]]
    BY DEF RightsNeverGrow
  <2>1. PICK v \in Tables : object'[u][k] = object[v][k] /\ rights'[u][k] = rights[v][k]
    BY <1>6
  <2> QED
    BY <1>2, <2>1 DEF AccountInv, RightsNeverGrow
<1> QED
  BY <1>7, <1>8

LEMMA RunReleaseAccount ==
    ASSUME AccountInv, NEW o \in Objects, RunRelease(o)
    PROVE  ReferencesAccounted' /\ RightsNeverGrow'
<1>1. /\ UNCHANGED <<object, rights, granted>>
      /\ pending' = [pending EXCEPT ![o] = @ - 1] /\ orefs' = [orefs EXCEPT ![o] = @ - 1]
  BY DEF RunRelease, entryVars
<1>2. \A p \in Objects : Entries(p)' = Entries(p)
  BY <1>1 DEF Entries
<1>3. ObjectTypes
  BY DEF AccountInv, IInv, TypeOK
<1>4. ASSUME NEW p \in Objects
      PROVE  orefs'[p] = pending'[p] + Cardinality(Entries(p)')
  <2>1. CASE p = o
    <3>1. orefs'[o] = orefs[o] - 1 /\ pending'[o] = pending[o] - 1
      BY <1>1, <1>3 DEF ObjectTypes
    <3> QED
      BY <1>2, <2>1, <3>1, ObjectCounts
  <2>2. CASE p # o
    BY <1>1, <1>2, <1>3, <2>2, ObjectCounts, SMTT(30) DEF ObjectTypes
  <2> QED
    BY <2>1, <2>2
<1>5. RightsNeverGrow'
  BY <1>1 DEF AccountInv, RightsNeverGrow
<1> QED
  BY <1>4, <1>5, Accounting

LEMMA InitializeAccount ==
    ASSUME AccountInv, NEW t \in Tables, process_handle_table_initialize(t)
    PROVE  ReferencesAccounted' /\ RightsNeverGrow'
<1>1. /\ UNCHANGED <<object, orefs, pending, granted>>
      /\ rights' = [rights EXCEPT ![t] = [s \in Slots |-> {}]]
  BY DEF process_handle_table_initialize
<1>2. \A u \in Tables, k \in Slots : rights'[u][k] \subseteq rights[u][k]
  BY <1>1 DEF AccountInv, IInv, TypeOK, EntryTypes
<1>3. ReferencesAccounted'
  BY <1>1, AccountKept DEF AccountInv
<1> QED
  BY <1>1, <1>2, <1>3, RightsShrink

LEMMA OtherAccount ==
    ASSUME AccountInv, UNCHANGED <<object, rights, orefs, pending, granted>>
    PROVE  ReferencesAccounted' /\ RightsNeverGrow'
BY AccountKept DEF AccountInv, RightsNeverGrow

\* Whatever is opened, duplicated, inherited, closed or retained, in whatever
\* order, for any number of tables, slots, objects and calls in flight: an
\* object's reference count is the number of entries that hold it plus the
\* releases still to be made.
THEOREM AccountInvariant == Spec => []AccountInv
<1>1. Init => AccountInv
  <2> SUFFICES ASSUME Init PROVE AccountInv
    OBVIOUS
  <2>1. \A o \in Objects : Entries(o) = {}
    BY ConstantAssumption DEF Init, Entries
  <2>2. \A o \in Objects : orefs[o] = pending[o] + Cardinality(Entries(o))
    <3>1. \A o \in Objects : Cardinality(Entries(o)) = 0
      BY <2>1, FS_EmptySet
    <3>2. \A o \in Objects : orefs[o] = 0 /\ pending[o] = 0
      BY DEF Init
    <3> QED
      BY <3>1, <3>2
  <2>3. RightsNeverGrow
    BY DEF Init, RightsNeverGrow
  <2> QED
    BY <2>2, <2>3, InitIInv, Accounting DEF AccountInv
<1>2. AccountInv /\ IInv' /\ [Next]_vars => AccountInv'
  <2> SUFFICES ASSUME AccountInv, [Next]_vars PROVE ReferencesAccounted' /\ RightsNeverGrow'
    BY DEF AccountInv
  <2> DEFINE Goal == ReferencesAccounted' /\ RightsNeverGrow'
  <2>1. CASE UNCHANGED vars
    BY <2>1, OtherAccount DEF vars, entryVars
  <2>2. ASSUME NEW t \in Tables, process_handle_table_initialize(t) PROVE Goal
    BY <2>2, InitializeAccount
  <2>3. ASSUME NEW t \in Tables, process_handle_table_close_all(t) PROVE Goal
    BY <2>3, CloseAllAccount
  <2>4. ASSUME NEW t \in Tables, NEW o \in Objects, NEW rs \in SUBSET Rights,
               process_handle_open_owned_kind(t, o, rs)
        PROVE  Goal
    BY <2>4, OpenAccount
  <2>5. ASSUME NEW t \in Tables, NEW h \in Handles, process_handle_close(t, h) PROVE Goal
    BY <2>5, CloseAccount
  <2>6. ASSUME NEW t \in Tables, NEW h \in Handles, NEW flag \in BOOLEAN,
               process_handle_set_inheritable(t, h, flag)
        PROVE  Goal
    BY <2>6, OtherAccount DEF process_handle_set_inheritable
  <2>7. ASSUME NEW t \in Tables, NEW h \in Handles, NEW rs \in SUBSET Rights,
               process_handle_duplicate(t, h, rs)
        PROVE  Goal
    BY <2>7, DuplicateAccount
  <2>8. ASSUME NEW t \in Tables, NEW h \in Handles, NEW r \in Refs, NEW rs \in SUBSET Rights,
               process_handle_get_retain(r, t, h, rs)
        PROVE  Goal
    BY <2>8, OtherAccount DEF process_handle_get_retain
  <2>9. ASSUME NEW t \in Tables, NEW src \in Tables, process_handle_table_inherit(t, src) PROVE Goal
    BY <2>9, InheritAccount
  <2>10. ASSUME NEW r \in Refs, process_handle_release_ref(r) PROVE Goal
    BY <2>10, ReleaseRefAccount
  <2>11. ASSUME NEW o \in Objects, RunRelease(o) PROVE Goal
    BY <2>11, RunReleaseAccount
  <2> HIDE DEF Goal
  <2>12. ASSUME Next PROVE Goal
    BY <2>2, <2>3, <2>4, <2>5, <2>6, <2>7, <2>8, <2>9, <2>10, <2>11, <2>12 DEF Next
  <2> QED
    BY <2>1, <2>12 DEF Goal
<1> QED
  BY <1>1, <1>2, InductiveInvariant, PTL DEF Spec

\* No close, deferred close, duplicate or inheritance releases an object twice
\* or leaks one.
THEOREM ReferenceSafety == Spec => []ReferencesAccounted
<1>1. AccountInv => ReferencesAccounted
  BY DEF AccountInv
<1> QED
  BY <1>1, AccountInvariant, PTL

\* No chain of duplicates and inheritances grants more than the rights the
\* object was opened with.
THEOREM RightsSafety == Spec => []RightsNeverGrow
<1>1. AccountInv => RightsNeverGrow
  BY DEF AccountInv
<1> QED
  BY <1>1, AccountInvariant, PTL
=============================================================================
