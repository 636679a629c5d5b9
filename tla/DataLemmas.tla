----------------------------- MODULE DataLemmas ------------------------------
(***************************************************************************)
(* Facts about the data the models are built from, for the proofs: the      *)
(* least and the greatest of a set (the tables of this kernel are searched  *)
(* slot by slot, and the models name the slot the search ends at), queues   *)
(* that hold everybody at most once, counting, and indices of a ring.       *)
(***************************************************************************)
EXTENDS Integers, Sequences, Functions, FiniteSetTheorems, WellFoundedInduction, TLAPS

\* A set of naturals that is not empty has a least element.  (The well-founded
\* order of the library, taken as a relation, stands in for induction.)
LEMMA LeastExists ==
    ASSUME NEW S \in SUBSET Nat, S # {}
    PROVE  \E i \in S : \A j \in S : i <= j
<1> DEFINE R == {p \in Nat \X Nat : p[1] < p[2]}
<1>1. IsWellFoundedOn(R, Nat)
  BY NatLessThanWellFounded DEF OpToRel
<1> HIDE DEF R
<1>2. PICK i \in S : \A j \in S : ~(<<j, i>> \in R)
  BY <1>1, WFMin
<1>3. \A j \in S : ~(j < i)
  BY <1>2 DEF R
<1>4. \A j \in S : i <= j
  BY <1>3
<1> QED
  BY <1>4

\* A bounded one has a greatest element.
LEMMA GreatestExists ==
    ASSUME NEW S, S # {}, NEW n \in Nat, S \subseteq 0 .. n
    PROVE  \E i \in S : \A j \in S : j <= i
<1> DEFINE T == {n - i : i \in S}
<1>1. \A i \in S : n - i \in T /\ n - i \in Nat
  OBVIOUS
<1>2. T \in SUBSET Nat
  BY <1>1
<1>3. T # {}
  BY <1>1
<1>4. PICK k \in T : \A l \in T : k <= l
  BY <1>2, <1>3, LeastExists
<1>5. PICK i \in S : k = n - i
  BY <1>4
<1>6. ASSUME NEW j \in S PROVE j <= i
  <2>1. k <= n - j
    BY <1>1, <1>4
  <2>2. i \in Int /\ j \in Int
    OBVIOUS
  <2> QED
    BY <1>5, <2>1, <2>2
<1> QED
  BY <1>6

\* Induction up to n, with the indices at which a property holds as a set.
LEMMA IntervalInduction ==
    ASSUME NEW n \in Nat, NEW I, 0 \in I, \A i \in 0 .. n - 1 : i \in I => i + 1 \in I
    PROVE  0 .. n \subseteq I
<1> SUFFICES ASSUME (0 .. n) \ I # {} PROVE FALSE
  OBVIOUS
<1>1. PICK i \in (0 .. n) \ I : \A j \in (0 .. n) \ I : i <= j
  <2>1. (0 .. n) \ I \in SUBSET Nat
    OBVIOUS
  <2> QED
    BY <2>1, LeastExists
<1>2. i # 0 /\ i - 1 \in 0 .. n - 1 /\ (i - 1) + 1 = i
  BY <1>1
<1>3. i - 1 \in I
  BY <1>1, <1>2
<1> QED
  BY <1>1, <1>2, <1>3

\* The values of a loop of n rounds: it starts with c, and round i turns the
\* value v into G[<<i, v>>].
IsLoop(f, n, V, c, G) ==
    /\ f \in [0 .. n -> V]
    /\ f[0] = c /\ \A i \in 1 .. n : f[i] = G[<<i, f[i - 1]>>]

\* A loop has values.
LEMMA LoopExists ==
    ASSUME NEW n \in Nat, NEW V, NEW c \in V, NEW G \in [(1 .. n) \X V -> V]
    PROVE  \E f : IsLoop(f, n, V, c, G)
<1> DEFINE Loop(f, m) == f[0] = c /\ \A i \in 1 .. m : f[i] = G[<<i, f[i - 1]>>]
           I == {m \in 0 .. n : \E f \in [0 .. m -> V] : Loop(f, m)}
<1>1. 0 \in I
  <2> DEFINE f == [i \in 0 .. 0 |-> c]
  <2>1. f \in [0 .. 0 -> V] /\ Loop(f, 0)
    OBVIOUS
  <2>2. 0 \in 0 .. n
    OBVIOUS
  <2> HIDE DEF f
  <2> QED
    BY <2>1, <2>2
<1>2. ASSUME NEW m \in 0 .. n - 1, m \in I PROVE m + 1 \in I
  <2>1. PICK f \in [0 .. m -> V] : Loop(f, m)
    BY <1>2
  <2> DEFINE g == [i \in 0 .. m + 1 |-> IF i = m + 1 THEN G[<<m + 1, f[m]>>] ELSE f[i]]
  <2>2. G[<<m + 1, f[m]>>] \in V
    OBVIOUS
  <2>3. g \in [0 .. m + 1 -> V]
    BY <2>2
  <2>4. g[0] = c
    BY <2>1
  <2>5. ASSUME NEW i \in 1 .. m + 1 PROVE g[i] = G[<<i, g[i - 1]>>]
    <3>1. CASE i = m + 1
      <4>1. g[m] = f[m] /\ g[m + 1] = G[<<m + 1, f[m]>>] /\ i - 1 = m
        BY <3>1
      <4> QED
        BY <3>1, <4>1
    <3>2. CASE i # m + 1
      BY <2>1, <3>2
    <3> QED
      BY <3>1, <3>2
  <2>6. m + 1 \in 0 .. n
    OBVIOUS
  <2> HIDE DEF g
  <2> QED
    BY <2>3, <2>4, <2>5, <2>6
<1> HIDE DEF I
<1>3. n \in I
  BY <1>1, <1>2, IntervalInduction
<1> QED
  BY <1>3 DEF I, IsLoop

-----------------------------------------------------------------------------
\* A queue that t is not in, with t behind it.
LEMMA AppendOnce ==
    ASSUME NEW S, NEW q \in Seq(S), IsInjective(q), NEW t \in S, t \notin Range(q)
    PROVE  /\ Append(q, t) \in Seq(S) /\ IsInjective(Append(q, t))
           /\ Range(Append(q, t)) = Range(q) \cup {t}
<1> DEFINE r == Append(q, t)
<1>1. /\ r \in Seq(S) /\ Len(q) \in Nat
      /\ DOMAIN q = 1 .. Len(q) /\ DOMAIN r = 1 .. Len(q) + 1
      /\ \A i \in 1 .. Len(q) : r[i] = q[i]
      /\ r[Len(q) + 1] = t
  OBVIOUS
<1>2. \A i \in DOMAIN r : i \in DOMAIN q \/ i = Len(q) + 1
  BY <1>1
<1> HIDE DEF r
<1>3. \A i \in DOMAIN q : q[i] # t
  BY DEF Range
<1>4. IsInjective(r)
  BY <1>1, <1>2, <1>3 DEF IsInjective
<1>5. Range(r) = Range(q) \cup {t}
  BY <1>1, <1>2 DEF Range
<1> QED
  BY <1>1, <1>4, <1>5 DEF r

\* A queue without its first.
LEMMA TailOnce ==
    ASSUME NEW S, NEW q \in Seq(S), IsInjective(q), q # <<>>
    PROVE  /\ Tail(q) \in Seq(S) /\ IsInjective(Tail(q))
           /\ Head(q) \in S /\ Head(q) \in Range(q)
           /\ Range(Tail(q)) = Range(q) \ {Head(q)}
<1> DEFINE r == Tail(q)
<1>1. /\ r \in Seq(S) /\ Len(q) \in Nat \ {0}
      /\ DOMAIN q = 1 .. Len(q) /\ DOMAIN r = 1 .. Len(q) - 1
      /\ \A i \in 1 .. Len(q) - 1 : r[i] = q[i + 1]
      /\ Head(q) = q[1]
  OBVIOUS
<1> HIDE DEF r
<1>2. \A i \in DOMAIN r : i + 1 \in DOMAIN q /\ r[i] = q[i + 1] /\ i \in Nat
  BY <1>1
<1>3. \A i \in DOMAIN q : i = 1 \/ (i - 1 \in DOMAIN r /\ r[i - 1] = q[i])
  BY <1>1
<1>4. 1 \in DOMAIN q
  BY <1>1
<1>5. IsInjective(r)
  BY <1>2 DEF IsInjective
<1>6. Range(r) \subseteq Range(q) \ {Head(q)}
  <2> SUFFICES ASSUME NEW i \in DOMAIN r PROVE r[i] \in Range(q) \ {Head(q)}
    BY DEF Range
  <2>1. i + 1 # 1
    BY <1>2
  <2> QED
    BY <1>1, <1>2, <1>4, <2>1 DEF Range, IsInjective
<1>7. Range(q) \ {Head(q)} \subseteq Range(r)
  BY <1>1, <1>3 DEF Range
<1>8. Head(q) \in S /\ Head(q) \in Range(q)
  BY <1>1, <1>4 DEF Range
<1> QED
  BY <1>1, <1>5, <1>6, <1>7, <1>8 DEF r

-----------------------------------------------------------------------------
\* How the size of a subset of a finite set changes with its members.
LEMMA Counting ==
    ASSUME NEW U, IsFiniteSet(U), NEW S \in SUBSET U, NEW T \in SUBSET U
    PROVE  /\ Cardinality(S) \in Nat /\ Cardinality(T) \in Nat
           /\ S \subseteq T => Cardinality(S) <= Cardinality(T)
           /\ \A x \in T : x \notin S /\ S \subseteq T => Cardinality(T) >= Cardinality(S) + 1
           /\ \A x : S \ {x} \subseteq T => Cardinality(T) >= Cardinality(S) - 1
           /\ \A x : \A y \in T : S \ {x} \subseteq T /\ y \notin S
                  => Cardinality(T) >= Cardinality(S)
<1>1. \A X \in SUBSET U : IsFiniteSet(X) /\ Cardinality(X) \in Nat
  BY FS_Subset, FS_CardinalityType
<1>2. \A X, Y \in SUBSET U : X \subseteq Y => Cardinality(X) <= Cardinality(Y)
  BY <1>1, FS_Subset
<1>3. \A X \in SUBSET U, x \in U : x \notin X => Cardinality(X \cup {x}) = Cardinality(X) + 1
  BY <1>1, FS_AddElement
<1>4. ASSUME NEW x \in T, x \notin S, S \subseteq T
      PROVE  Cardinality(T) >= Cardinality(S) + 1
  <2>1. S \cup {x} \subseteq T /\ S \cup {x} \in SUBSET U
    BY <1>4
  <2>2. Cardinality(S \cup {x}) <= Cardinality(T)
    BY <1>2, <2>1
  <2> QED
    BY <1>1, <1>3, <1>4, <2>2
<1>5. ASSUME NEW x, S \ {x} \subseteq T
      PROVE  Cardinality(T) >= Cardinality(S) - 1
  <2>1. S \ {x} \in SUBSET U /\ x \notin S \ {x}
    OBVIOUS
  <2>2. Cardinality(S \ {x}) <= Cardinality(T)
    BY <1>2, <1>5, <2>1
  <2>3. CASE x \in S
    <3>1. (S \ {x}) \cup {x} = S /\ x \in U
      BY <2>3
    <3>2. Cardinality(S) = Cardinality(S \ {x}) + 1
      BY <1>3, <2>1, <3>1
    <3> QED
      BY <1>1, <2>1, <2>2, <3>2
  <2>4. CASE x \notin S
    <3>1. S \ {x} = S
      BY <2>4
    <3> QED
      BY <1>1, <2>2, <3>1
  <2> QED
    BY <2>3, <2>4
<1>6. ASSUME NEW x, NEW y \in T, S \ {x} \subseteq T, y \notin S
      PROVE  Cardinality(T) >= Cardinality(S)
  <2>1. /\ S \ {x} \in SUBSET U /\ (S \ {x}) \cup {y} \in SUBSET U /\ y \in U
        /\ y \notin S \ {x} /\ (S \ {x}) \cup {y} \subseteq T
    BY <1>6
  <2>2. Cardinality((S \ {x}) \cup {y}) = Cardinality(S \ {x}) + 1
    BY <1>3, <2>1
  <2>3. Cardinality((S \ {x}) \cup {y}) <= Cardinality(T)
    BY <1>2, <2>1
  <2>4. CASE x \in S
    <3>1. (S \ {x}) \cup {x} = S /\ x \in U /\ x \notin S \ {x}
      BY <2>4
    <3>2. Cardinality(S) = Cardinality(S \ {x}) + 1
      BY <1>3, <2>1, <3>1
    <3> QED
      BY <1>1, <2>1, <2>2, <2>3, <3>2
  <2>5. CASE x \notin S
    <3>1. S \ {x} = S
      BY <2>5
    <3> QED
      BY <1>1, <2>1, <2>2, <2>3, <3>1
  <2> QED
    BY <2>4, <2>5
<1> QED
  BY <1>1, <1>2, <1>4, <1>5, <1>6

\* An index of a ring wraps at most once.
LEMMA RingIndex ==
    ASSUME NEW C \in Nat \ {0}, NEW a \in 0 .. C - 1, NEW k \in 0 .. C
    PROVE  (a + k) % C = IF a + k < C THEN a + k ELSE a + k - C
OBVIOUS
=============================================================================
