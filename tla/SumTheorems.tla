---------------------------- MODULE SumTheorems ----------------------------
(***************************************************************************)
(* What MapThenSumSet of the community modules computes: the sum over a    *)
(* finite set, whichever element it chooses to take next.  The properties  *)
(* that add up counters or credits rest on these facts.                    *)
(***************************************************************************)
EXTENDS Naturals, FiniteSetsExt, FiniteSetTheorems, TLAPS

\* Induction over the subsets of a finite set: T has the empty set, and every
\* set of which it has all those with one element less.
LEMMA SetInduction ==
    ASSUME NEW S, IsFiniteSet(S), NEW T, {} \in T,
           \A U \in SUBSET S : U # {} /\ (\A x \in U : U \ {x} \in T) => U \in T
    PROVE  SUBSET S \subseteq T
<1> DEFINE R == StrictSubsetOrdering(S)
           Missing == (SUBSET S) \ T
<1> SUFFICES ASSUME Missing # {} PROVE FALSE
  OBVIOUS
<1>1. IsWellFoundedOn(R, SUBSET S)
  BY FS_StrictSubsetOrderingWellFounded, FS_FiniteSubsetsOfFinite
<1>2. PICK U \in Missing : \A V \in Missing : <<V, U>> \notin R
  <2> HIDE DEF R
  <2>1. Missing \subseteq SUBSET S
    OBVIOUS
  <2> HIDE DEF Missing
  <2> QED
    BY <1>1, <2>1, WFMin
<1>3. ASSUME NEW x \in U PROVE U \ {x} \in T
  <2>1. U \ {x} \in SUBSET S /\ U \ {x} # U
    BY <1>2
  <2>2. <<U \ {x}, U>> \in R
    BY <2>1, <1>2 DEF StrictSubsetOrdering
  <2> QED
    BY <1>2, <2>1, <2>2
<1> QED
  BY <1>2, <1>3

LEMMA ImageIsFinite ==
    ASSUME NEW S, IsFiniteSet(S), NEW f
    PROVE  IsFiniteSet({f[x] : x \in S})
<1> DEFINE T == {f[x] : x \in S}
           g == [x \in S |-> f[x]]
<1>1. g \in Surjection(S, T)
  BY DEF Surjection
<1> HIDE DEF T, g
<1>2. IsFiniteSet(T)
  BY <1>1, FS_Surjection
<1> QED
  BY <1>2 DEF T

-----------------------------------------------------------------------------
(* The sum of f[x] for x in S, and the recursion that defines it.           *)

SumOver(f, S) == MapThenSumSet(LAMBDA x : f[x], S)

Some(s) == CHOOSE x \in s : TRUE

SumRule(f, g, s) == IF s = {} THEN 0 ELSE f[Some(s)] + g[s \ {Some(s)}]

IsSum(g, f, S) == g = [s \in SUBSET S |-> SumRule(f, g, s)]

LEMMA SomeIn == ASSUME NEW s, s # {} PROVE Some(s) \in s
  BY DEF Some

LEMMA SumIsChosen ==
    ASSUME NEW S, NEW f
    PROVE  SumOver(f, S) = (CHOOSE g : IsSum(g, f, S))[S]
  BY DEF SumOver, MapThenSumSet, MapThenFoldSet, IsSum, SumRule, Some

LEMMA SumStep ==
    ASSUME NEW g, NEW f, NEW S, IsSum(g, f, S), NEW s \in SUBSET S
    PROVE  g[s] = SumRule(f, g, s)
<1>1. g = [t \in SUBSET S |-> SumRule(f, g, t)]
  BY DEF IsSum
<1> HIDE DEF SumRule
<1> QED
  BY <1>1

\* Two solutions agree wherever both are defined.
LEMMA SumUnique ==
    ASSUME NEW f, NEW V, NEW W, NEW g, NEW h, IsSum(g, f, V), IsSum(h, f, W),
           NEW U, IsFiniteSet(U), U \subseteq V, U \subseteq W
    PROVE  g[U] = h[U]
<1> DEFINE T == {s \in SUBSET U : g[s] = h[s]}
<1>1. ASSUME NEW s \in SUBSET U, s # {}, \A x \in s : s \ {x} \in T PROVE s \in T
  <2>1. Some(s) \in s
    BY <1>1, SomeIn
  <2>2. g[s] = SumRule(f, g, s) /\ h[s] = SumRule(f, h, s)
    BY SumStep
  <2>3. g[s \ {Some(s)}] = h[s \ {Some(s)}]
    BY <1>1, <2>1
  <2> QED
    BY <2>2, <2>3 DEF SumRule
<1>2. {} \in T
  <2>1. {} \in SUBSET V /\ {} \in SUBSET W
    OBVIOUS
  <2>2. g[{}] = SumRule(f, g, {}) /\ h[{}] = SumRule(f, h, {})
    BY <2>1, SumStep
  <2> QED
    BY <2>2 DEF SumRule
<1>3. SUBSET U \subseteq T
  <2> HIDE DEF T
  <2> QED
    BY <1>1, <1>2, SetInduction
<1> QED
  BY <1>3

\* A solution for a set is put together from those for the sets with one
\* element less.
LEMMA SumExists ==
    ASSUME NEW S, IsFiniteSet(S), NEW f
    PROVE  \E g : IsSum(g, f, S)
<1> DEFINE T == {U \in SUBSET S : \E g : IsSum(g, f, U)}
<1>1. {} \in T
  <2> DEFINE g == [s \in SUBSET {} |-> 0]
  <2>1. g = [s \in SUBSET {} |-> SumRule(f, g, s)]
    BY DEF SumRule
  <2> QED
    BY <2>1 DEF IsSum
<1>2. ASSUME NEW U \in SUBSET S, U # {}, \A x \in U : U \ {x} \in T PROVE U \in T
  <2> DEFINE Sol(V) == CHOOSE g : IsSum(g, f, V)
             Out(s) == Some(U \ s)
             last == SumRule(f, Sol(U \ {Some(U)}), U)
             g == [s \in SUBSET U |-> IF s = U THEN last ELSE Sol(U \ {Out(s)})[s]]
  <2>1. \A x \in U : IsSum(Sol(U \ {x}), f, U \ {x})
    BY <1>2
  <2>2. ASSUME NEW s \in SUBSET U, s # U
        PROVE  Out(s) \in U /\ s \subseteq U \ {Out(s)}
    <3>1. U \ s # {}
      BY <2>2
    <3>2. Out(s) \in U \ s
      BY <3>1, SomeIn
    <3> HIDE DEF Out
    <3> QED
      BY <2>2, <3>2
  <2>3. Some(U) \in U
    BY <1>2, SomeIn
  <2> HIDE DEF Sol, Out
  <2>fin. \A s \in SUBSET U : IsFiniteSet(s)
    BY FS_Subset
  <2>4. ASSUME NEW x \in U, NEW s \in SUBSET (U \ {x})
        PROVE  g[s] = Sol(U \ {x})[s]
    <3>1. s \in SUBSET U /\ s # U
      OBVIOUS
    <3>2. g[s] = Sol(U \ {Out(s)})[s]
      BY <3>1
    <3> QED
      BY <2>1, <2>2, <2>fin, <3>1, <3>2, SumUnique
  <2>5. ASSUME NEW s \in SUBSET U PROVE g[s] = SumRule(f, g, s)
    <3>1. CASE s = U
      <4>1. g[U \ {Some(U)}] = Sol(U \ {Some(U)})[U \ {Some(U)}]
        BY <2>3, <2>4
      <4>2. g[s] = last
        BY <3>1
      <4> HIDE DEF g
      <4> QED
        BY <3>1, <4>1, <4>2 DEF SumRule
    <3>2. CASE s # U
      <4>1. Out(s) \in U /\ s \in SUBSET (U \ {Out(s)})
        BY <2>2, <3>2
      <4>2. g[s] = Sol(U \ {Out(s)})[s]
        BY <2>4, <4>1
      <4>3. Sol(U \ {Out(s)})[s] = SumRule(f, Sol(U \ {Out(s)}), s)
        BY <2>1, <4>1, SumStep
      <4>4. s \ {Some(s)} \in SUBSET (U \ {Out(s)})
        BY <4>1
      <4>5. g[s \ {Some(s)}] = Sol(U \ {Out(s)})[s \ {Some(s)}]
        BY <2>4, <4>1, <4>4
      <4> HIDE DEF g
      <4> QED
        BY <4>2, <4>3, <4>5 DEF SumRule
    <3> QED
      BY <3>1, <3>2
  <2>6. g = [s \in SUBSET U |-> SumRule(f, g, s)]
    <3>1. g = [s \in SUBSET U |-> g[s]]
      OBVIOUS
    <3> HIDE DEF g
    <3> QED
      BY <2>5, <3>1
  <2>7. IsSum(g, f, U)
    <3> HIDE DEF g
    <3> QED
      BY <2>6 DEF IsSum
  <2> QED
    BY <2>7
<1>3. SUBSET S \subseteq T
  <2> HIDE DEF T
  <2> QED
    BY <1>1, <1>2, SetInduction
<1> QED
  BY <1>3

\* The recursion equation.
LEMMA SumDef ==
    ASSUME NEW S, IsFiniteSet(S), NEW f
    PROVE  SumOver(f, S) = IF S = {} THEN 0 ELSE f[Some(S)] + SumOver(f, S \ {Some(S)})
<1> DEFINE Sol(V) == CHOOSE g : IsSum(g, f, V)
           T == S \ {Some(S)}
<1>1. IsSum(Sol(S), f, S)
  BY SumExists
<1>2. IsFiniteSet(T) /\ T \subseteq S
  BY FS_Subset
<1>3. IsSum(Sol(T), f, T)
  <2> HIDE DEF T
  <2> QED
    BY <1>2, SumExists
<1>4. SumOver(f, S) = Sol(S)[S] /\ SumOver(f, T) = Sol(T)[T]
  <2> HIDE DEF T
  <2> QED
    BY SumIsChosen
<1> HIDE DEF Sol
<1>5. Sol(S)[S] = SumRule(f, Sol(S), S)
  BY <1>1, SumStep
<1>6. Sol(S)[T] = Sol(T)[T]
  <2> HIDE DEF T
  <2> QED
    BY <1>1, <1>2, <1>3, SumUnique
<1> QED
  BY <1>4, <1>5, <1>6 DEF SumRule

-----------------------------------------------------------------------------
(* What follows for sums of natural numbers.                                *)

LEMMA SumEmpty == ASSUME NEW f PROVE SumOver(f, {}) = 0
  BY SumDef, FS_EmptySet

LEMMA SumType ==
    ASSUME NEW S, IsFiniteSet(S), NEW f, \A x \in S : f[x] \in Nat
    PROVE  SumOver(f, S) \in Nat
<1> DEFINE T == {U \in SUBSET S : SumOver(f, U) \in Nat}
<1>1. ASSUME NEW U \in SUBSET S, U # {}, \A x \in U : U \ {x} \in T PROVE U \in T
  <2>1. Some(U) \in U
    BY <1>1, SomeIn
  <2>2. SumOver(f, U) = f[Some(U)] + SumOver(f, U \ {Some(U)})
    BY <1>1, SumDef, FS_Subset
  <2>3. SumOver(f, U \ {Some(U)}) \in Nat /\ f[Some(U)] \in Nat
    BY <1>1, <2>1
  <2>4. SumOver(f, U) \in Nat
    BY <2>2, <2>3
  <2> QED
    BY <2>4
<1>2. {} \in T
  BY SumEmpty
<1>3. SUBSET S \subseteq T
  <2> HIDE DEF T
  <2> QED
    BY <1>1, <1>2, SetInduction
<1> QED
  BY <1>3

\* Any element can be taken first.
LEMMA SumRemove ==
    ASSUME NEW S, IsFiniteSet(S), NEW f, \A x \in S : f[x] \in Nat, NEW z \in S
    PROVE  SumOver(f, S) = f[z] + SumOver(f, S \ {z})
<1> DEFINE T == {U \in SUBSET S : \A x \in U : SumOver(f, U) = f[x] + SumOver(f, U \ {x})}
<1>1. ASSUME NEW U \in SUBSET S, U # {}, \A x \in U : U \ {x} \in T PROVE U \in T
  <2> DEFINE y == Some(U)
  <2>1. y \in U
    BY <1>1, SomeIn
  <2>2. SumOver(f, U) = f[y] + SumOver(f, U \ {y})
    BY <1>1, SumDef, FS_Subset
  <2> HIDE DEF y
  <2>3. ASSUME NEW x \in U, x # y PROVE SumOver(f, U) = f[x] + SumOver(f, U \ {x})
    <3>1. SumOver(f, U \ {y}) = f[x] + SumOver(f, (U \ {y}) \ {x})
      BY <1>1, <2>1, <2>3
    <3>2. SumOver(f, U \ {x}) = f[y] + SumOver(f, (U \ {x}) \ {y})
      BY <1>1, <2>1, <2>3
    <3>3. (U \ {y}) \ {x} = (U \ {x}) \ {y}
      OBVIOUS
    <3>4. IsFiniteSet((U \ {x}) \ {y}) /\ (U \ {x}) \ {y} \subseteq S
      BY FS_Subset
    <3>5. SumOver(f, (U \ {x}) \ {y}) \in Nat
      BY <3>4, SumType
    <3>6. f[x] \in Nat /\ f[y] \in Nat
      BY <2>1
    <3> QED
      BY <2>2, <3>1, <3>2, <3>3, <3>5, <3>6
  <2>4. \A x \in U : SumOver(f, U) = f[x] + SumOver(f, U \ {x})
    BY <2>2, <2>3
  <2> QED
    BY <2>4
<1>2. {} \in T
  OBVIOUS
<1>3. SUBSET S \subseteq T
  <2> HIDE DEF T
  <2> QED
    BY <1>1, <1>2, SetInduction
<1> QED
  BY <1>3

LEMMA SumAdd ==
    ASSUME NEW S, IsFiniteSet(S), NEW z, z \notin S,
           NEW f, \A x \in S \cup {z} : f[x] \in Nat
    PROVE  SumOver(f, S \cup {z}) = SumOver(f, S) + f[z]
<1>1. IsFiniteSet(S \cup {z}) /\ (S \cup {z}) \ {z} = S
  BY FS_AddElement
<1>2. SumOver(f, S \cup {z}) = f[z] + SumOver(f, S)
  BY <1>1, SumRemove
<1>3. SumOver(f, S) \in Nat /\ f[z] \in Nat
  BY SumType
<1> QED
  BY <1>2, <1>3

\* Only the values on S matter.
LEMMA SumSame ==
    ASSUME NEW S, IsFiniteSet(S), NEW f, NEW g, \A x \in S : f[x] = g[x]
    PROVE  SumOver(f, S) = SumOver(g, S)
<1> DEFINE T == {U \in SUBSET S : SumOver(f, U) = SumOver(g, U)}
<1>1. ASSUME NEW U \in SUBSET S, U # {}, \A x \in U : U \ {x} \in T PROVE U \in T
  <2>1. Some(U) \in U
    BY <1>1, SomeIn
  <2>2. IsFiniteSet(U)
    BY FS_Subset
  <2>3. /\ SumOver(f, U) = f[Some(U)] + SumOver(f, U \ {Some(U)})
        /\ SumOver(g, U) = g[Some(U)] + SumOver(g, U \ {Some(U)})
    BY <1>1, <2>2, SumDef
  <2>4. SumOver(f, U \ {Some(U)}) = SumOver(g, U \ {Some(U)}) /\ f[Some(U)] = g[Some(U)]
    BY <1>1, <2>1
  <2>5. SumOver(f, U) = SumOver(g, U)
    BY <2>3, <2>4
  <2> QED
    BY <2>5
<1>2. {} \in T
  BY SumEmpty
<1>3. SUBSET S \subseteq T
  <2> HIDE DEF T
  <2> QED
    BY <1>1, <1>2, SetInduction
<1> QED
  BY <1>3

\* One value that changes changes the sum by as much.
LEMMA SumChange ==
    ASSUME NEW S, IsFiniteSet(S), NEW f, NEW g, NEW z \in S,
           \A x \in S : f[x] \in Nat /\ g[x] \in Nat,
           \A x \in S : x # z => g[x] = f[x]
    PROVE  SumOver(g, S) + f[z] = SumOver(f, S) + g[z]
<1>1. IsFiniteSet(S \ {z})
  BY FS_Subset
<1>2. SumOver(f, S \ {z}) = SumOver(g, S \ {z}) /\ SumOver(f, S \ {z}) \in Nat
  BY <1>1, SumSame, SumType
<1>3. /\ SumOver(f, S) = f[z] + SumOver(f, S \ {z})
      /\ SumOver(g, S) = g[z] + SumOver(g, S \ {z})
  BY SumRemove
<1>4. f[z] \in Nat /\ g[z] \in Nat
  OBVIOUS
<1> QED
  BY <1>2, <1>3, <1>4

LEMMA SumZero ==
    ASSUME NEW S, IsFiniteSet(S), NEW f, \A x \in S : f[x] = 0
    PROVE  SumOver(f, S) = 0
<1> DEFINE T == {U \in SUBSET S : SumOver(f, U) = 0}
<1>1. ASSUME NEW U \in SUBSET S, U # {}, \A x \in U : U \ {x} \in T PROVE U \in T
  <2>1. Some(U) \in U
    BY <1>1, SomeIn
  <2>2. SumOver(f, U) = f[Some(U)] + SumOver(f, U \ {Some(U)})
    BY <1>1, SumDef, FS_Subset
  <2>3. SumOver(f, U \ {Some(U)}) = 0 /\ f[Some(U)] = 0
    BY <1>1, <2>1
  <2>4. SumOver(f, U) = 0
    BY <2>2, <2>3
  <2> QED
    BY <2>4
<1>2. {} \in T
  BY SumEmpty
<1>3. SUBSET S \subseteq T
  <2> HIDE DEF T
  <2> QED
    BY <1>1, <1>2, SetInduction
<1> QED
  BY <1>3

\* Summed group by group, the sum is the same.
LEMMA SumByGroup ==
    ASSUME NEW S, IsFiniteSet(S), NEW D, IsFiniteSet(D), NEW k, \A x \in S : k[x] \in D,
           NEW f, \A x \in S : f[x] \in Nat
    PROVE  SumOver([d \in D |-> SumOver(f, {x \in S : k[x] = d})], D) = SumOver(f, S)
<1> DEFINE Part(U) == [d \in D |-> SumOver(f, {x \in U : k[x] = d})]
           T == {U \in SUBSET S : SumOver(Part(U), D) = SumOver(f, U)}
<1>fin. \A U \in SUBSET S : IsFiniteSet(U)
  BY FS_Subset
<1>typ. \A U \in SUBSET S : \A d \in D : Part(U)[d] \in Nat
  <2> SUFFICES ASSUME NEW U \in SUBSET S, NEW d \in D
               PROVE  SumOver(f, {x \in U : k[x] = d}) \in Nat
    OBVIOUS
  <2>1. {x \in U : k[x] = d} \in SUBSET S
    OBVIOUS
  <2> QED
    BY <1>fin, <2>1, SumType
<1>1. ASSUME NEW U \in SUBSET S, U # {}, \A x \in U : U \ {x} \in T PROVE U \in T
  <2>1. PICK y : y \in U
    BY <1>1
  <2> DEFINE V == U \ {y}
  <2>2. SumOver(Part(V), D) = SumOver(f, V) /\ V \in SUBSET S
    BY <1>1, <2>1
  <2>3. SumOver(f, U) = f[y] + SumOver(f, V)
    BY <1>fin, <2>1, SumRemove
  <2>4. \A d \in D : d # k[y] => Part(U)[d] = Part(V)[d]
    <3> SUFFICES ASSUME NEW d \in D, d # k[y]
                 PROVE  {x \in U : k[x] = d} = {x \in V : k[x] = d}
      OBVIOUS
    <3> QED
      OBVIOUS
  <2>5. Part(U)[k[y]] = f[y] + Part(V)[k[y]]
    <3> DEFINE A == {x \in U : k[x] = k[y]}
               B == {x \in V : k[x] = k[y]}
    <3>1. B = A \ {y} /\ y \in A /\ A \in SUBSET S
      BY <2>1
    <3>2. Part(U)[k[y]] = SumOver(f, A) /\ Part(V)[k[y]] = SumOver(f, B)
      BY <2>1
    <3> HIDE DEF A, B
    <3>3. SumOver(f, A) = f[y] + SumOver(f, A \ {y})
      BY <1>fin, <3>1, SumRemove
    <3> HIDE DEF Part
    <3> QED
      BY <3>1, <3>2, <3>3
  <2>6. k[y] \in D /\ f[y] \in Nat
    BY <2>1
  <2> HIDE DEF Part, V
  <2>7. Part(V)[k[y]] \in Nat /\ Part(U)[k[y]] \in Nat /\ SumOver(f, V) \in Nat
    BY <1>fin, <1>typ, <2>2, <2>6, SumType
  <2>8. SumOver(Part(U), D) + Part(V)[k[y]] = SumOver(Part(V), D) + Part(U)[k[y]]
    BY <1>typ, <2>2, <2>4, <2>6, SumChange
  <2>9. SumOver(Part(U), D) \in Nat
    BY <1>typ, SumType
  <2>10. SumOver(Part(U), D) = SumOver(f, U)
    BY <2>2, <2>3, <2>5, <2>6, <2>7, <2>8, <2>9
  <2> QED
    BY <2>10
<1>2. {} \in T
  <2>1. \A d \in D : Part({})[d] = 0
    <3>1. \A d \in D : {x \in {} : k[x] = d} = {}
      OBVIOUS
    <3> QED
      BY <3>1, SumEmpty
  <2> HIDE DEF Part
  <2>2. SumOver(Part({}), D) = 0
    BY <2>1, SumZero
  <2> QED
    BY <2>2, SumEmpty
<1>3. SUBSET S \subseteq T
  <2> HIDE DEF T
  <2> QED
    BY <1>1, <1>2, SetInduction
<1>4. SumOver(Part(S), D) = SumOver(f, S)
  BY <1>3
<1> QED
  BY <1>4

\* Summed under other names, the sum is the same.
LEMMA SumImage ==
    ASSUME NEW D, IsFiniteSet(D), NEW g, NEW B, B = {g[d] : d \in D},
           \A d, e \in D : g[d] = g[e] => d = e,
           NEW f, \A b \in B : f[b] \in Nat
    PROVE  SumOver(f, B) = SumOver([d \in D |-> f[g[d]]], D)
<1> DEFINE h == [d \in D |-> f[g[d]]]
           Part == [b \in B |-> SumOver(h, {d \in D : g[d] = b})]
<1>1. IsFiniteSet(B)
  BY ImageIsFinite
<1>2. (\A d \in D : g[d] \in B) /\ (\A d \in D : h[d] \in Nat)
  OBVIOUS
<1>3. ASSUME NEW b \in B PROVE Part[b] = f[b]
  <2>1. PICK d \in D : g[d] = b
    OBVIOUS
  <2>2. {e \in D : g[e] = b} = {d}
    BY <2>1
  <2>3. h[d] = f[b] /\ h[d] \in Nat
    BY <2>1
  <2>4. Part[b] = SumOver(h, {d})
    BY <2>2
  <2> HIDE DEF h, Part
  <2>5. IsFiniteSet({d}) /\ {d} \ {d} = {}
    BY FS_Singleton
  <2>6. SumOver(h, {d}) = h[d] + SumOver(h, {d} \ {d})
    BY <2>3, <2>5, SumRemove
  <2>7. SumOver(h, {d} \ {d}) = 0
    BY <2>5, SumEmpty
  <2> QED
    BY <2>3, <2>4, <2>6, <2>7
<1> HIDE DEF h
<1>4. SumOver(Part, B) = SumOver(h, D)
  BY <1>1, <1>2, SumByGroup
<1> HIDE DEF Part
<1>5. SumOver(Part, B) = SumOver(f, B)
  BY <1>1, <1>3, SumSame
<1> QED
  BY <1>4, <1>5 DEF h
=============================================================================
