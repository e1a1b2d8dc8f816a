-------------------------- MODULE InductionTheorems --------------------------
(***************************************************************************)
(* Facts about finite sets and numbers that the proofs of several components  *)
(* need: induction with the predicate given as a set, extreme elements, sums   *)
(* over finite sets, how often a sequence has a value, and recursion.         *)
(*                                                                         *)
(* The library's induction theorems take an operator as a parameter.  Here     *)
(* induction is drawn from the well-foundedness of strict inclusion, which     *)
(* speaks of sets only: a predicate P over S is the set {x \in S : P(x)}.       *)
(***************************************************************************)
EXTENDS Integers, Sequences, Functions, FiniteSetsExt, FiniteSetTheorems, WellFoundedInduction, TLAPS

\* A family of subsets of a finite set has a minimal member.
LEMMA MinimalSubset ==
    ASSUME NEW S, IsFiniteSet(S), NEW F, F \subseteq SUBSET S, F # {}
    PROVE  \E m \in F : \A x \in F : x \subseteq m => x = m
<1>1. F \subseteq FiniteSubsetsOf(S)
  BY FS_FiniteSubsetsOfFinite
<1>2. IsWellFoundedOn(StrictSubsetOrdering(S), FiniteSubsetsOf(S))
  BY FS_StrictSubsetOrderingWellFounded
<1>3. \E x \in F : \A y \in F : ~ (<<y, x>> \in StrictSubsetOrdering(S))
  BY <1>1, <1>2, WFMin
<1> QED
  BY <1>3 DEF StrictSubsetOrdering

\* A set of natural numbers that is not empty has a least member.
LEMMA LeastNumber ==
    ASSUME NEW T, T \subseteq Nat, T # {}
    PROVE  \E m \in T : \A n \in T : m <= n
<1>1. PICK t \in T : TRUE
  OBVIOUS
<1> DEFINE F == {1..n : n \in {x \in T : x <= t}}
           Upto == 1..t
<1>2. IsFiniteSet(Upto)
  BY FS_Interval
<1>3. F \subseteq SUBSET Upto /\ F # {}
  BY <1>1
<1>4. \E m \in F : \A x \in F : x \subseteq m => x = m
  <2> HIDE DEF F, Upto
  <2> QED BY <1>2, <1>3, MinimalSubset
<1>5. PICK k \in T : k <= t /\ \A x \in F : x \subseteq 1..k => x = 1..k
  BY <1>4
<1>6. ASSUME NEW n \in T, n < k PROVE FALSE
  <2>1. 1..n \in F
    BY <1>5, <1>6
  <2>2. 1..n \subseteq 1..k /\ k \in 1..k /\ k \notin 1..n
    BY <1>6
  <2> QED BY <2>1, <2>2, <1>5
<1> QED BY <1>5, <1>6

\* Induction over the natural numbers.
LEMMA NumberInduction ==
    ASSUME NEW T, 0 \in T, \A n \in Nat : n \in T => n + 1 \in T
    PROVE  Nat \subseteq T
<1> SUFFICES ASSUME Nat \ T # {} PROVE FALSE
  OBVIOUS
<1>1. PICK m \in Nat \ T : \A n \in Nat \ T : m <= n
  <2> DEFINE U == Nat \ T
  <2>1. U \subseteq Nat /\ U # {}
    OBVIOUS
  <2> HIDE DEF U
  <2>2. \E m \in U : \A n \in U : m <= n
    BY <2>1, LeastNumber
  <2> QED BY <2>2 DEF U
<1>2. m - 1 \in Nat /\ m - 1 \in T
  BY <1>1
<1> QED BY <1>1, <1>2

\* Induction over a finite set, element by element.
LEMMA SetInduction ==
    ASSUME NEW S, IsFiniteSet(S), NEW F, {} \in F,
           \A T \in SUBSET S : T \in F => \A x \in S \ T : T \cup {x} \in F
    PROVE  S \in F
<1> SUFFICES ASSUME S \notin F PROVE FALSE
  OBVIOUS
<1> DEFINE G == {T \in SUBSET S : T \notin F}
<1>1. G \subseteq SUBSET S /\ G # {}
  OBVIOUS
<1>2. \E m \in G : \A x \in G : x \subseteq m => x = m
  <2> HIDE DEF G
  <2> QED BY <1>1, MinimalSubset
<1>3. PICK m \in G : \A x \in G : x \subseteq m => x = m
  BY <1>2
<1>4. PICK y \in m : TRUE
  BY <1>3
<1>5. m \ {y} \in F
  BY <1>3, <1>4
<1>6. (m \ {y}) \cup {y} \in F
  BY <1>3, <1>4, <1>5
<1>7. (m \ {y}) \cup {y} = m
  BY <1>4
<1> QED BY <1>3, <1>6, <1>7

\* The values of a function over a finite set that is not empty have a least
\* and a greatest one.
LEMMA ExtremeValues ==
    ASSUME NEW S, IsFiniteSet(S), S # {}, NEW f \in [S -> Int]
    PROVE  /\ \E x \in S : \A y \in S : f[x] <= f[y]
           /\ \E x \in S : \A y \in S : f[x] >= f[y]
<1> DEFINE F == {T \in SUBSET S : T = {} \/ (/\ \E x \in T : \A y \in T : f[x] <= f[y]
                                             /\ \E x \in T : \A y \in T : f[x] >= f[y])}
<1>1. {} \in F
  OBVIOUS
<1>2. ASSUME NEW T \in SUBSET S, T \in F, NEW z \in S \ T
      PROVE  T \cup {z} \in F
  <2>1. CASE T = {}
    <3>1. \A y \in T \cup {z} : f[z] <= f[y] /\ f[z] >= f[y]
      BY <2>1
    <3> QED BY <3>1
  <2>2. CASE T # {}
    <3>1. PICK a \in T : \A y \in T : f[a] <= f[y]
      BY <1>2, <2>2
    <3>2. PICK b \in T : \A y \in T : f[b] >= f[y]
      BY <1>2, <2>2
    <3>3. \E x \in T \cup {z} : \A y \in T \cup {z} : f[x] <= f[y]
      <4>1. CASE f[a] <= f[z] BY <3>1, <4>1
      <4>2. CASE ~ (f[a] <= f[z])
        <5>1. \A y \in T \cup {z} : f[z] <= f[y]
          BY <3>1, <4>2
        <5> QED BY <5>1
      <4> QED BY <4>1, <4>2
    <3>4. \E x \in T \cup {z} : \A y \in T \cup {z} : f[x] >= f[y]
      <4>1. CASE f[b] >= f[z] BY <3>2, <4>1
      <4>2. CASE ~ (f[b] >= f[z])
        <5>1. \A y \in T \cup {z} : f[z] >= f[y]
          BY <3>2, <4>2
        <5> QED BY <5>1
      <4> QED BY <4>1, <4>2
    <3> QED BY <3>3, <3>4
  <2> QED BY <2>1, <2>2
<1>3. S \in F
  <2>1. \A T \in SUBSET S : T \in F => \A x \in S \ T : T \cup {x} \in F
    BY <1>2
  <2> HIDE DEF F
  <2> QED BY <1>1, <2>1, SetInduction
<1> QED BY <1>3

\* Of the greatest values of a function over a finite set of integers one comes
\* first, and one last.
LEMMA BestPositions ==
    ASSUME NEW D, IsFiniteSet(D), D # {}, D \subseteq Int, NEW f \in [D -> Int]
    PROVE  /\ \E i \in D : \A k \in D : f[k] < f[i] \/ (f[k] = f[i] /\ i <= k)
           /\ \E i \in D : \A k \in D : f[k] < f[i] \/ (f[k] = f[i] /\ k <= i)
<1>1. PICK b \in D : \A y \in D : f[b] >= f[y]
  BY ExtremeValues
<1> DEFINE Best == {i \in D : f[i] = f[b]}
           id == [i \in Best |-> i]
<1>2. IsFiniteSet(Best) /\ Best # {} /\ id \in [Best -> Int]
  BY <1>1, FS_Subset
<1>3. /\ \E x \in Best : \A y \in Best : id[x] <= id[y]
      /\ \E x \in Best : \A y \in Best : id[x] >= id[y]
  <2> HIDE DEF Best, id
  <2> QED BY <1>2, ExtremeValues
<1>4. PICK x \in Best : \A y \in Best : x <= y
  BY <1>3
<1>5. PICK z \in Best : \A y \in Best : z >= y
  BY <1>3
<1>6. \A k \in D : f[k] < f[x] \/ (f[k] = f[x] /\ x <= k)
  BY <1>1, <1>4
<1>7. \A k \in D : f[k] < f[z] \/ (f[k] = f[z] /\ k <= z)
  BY <1>1, <1>5
<1> QED BY <1>6, <1>7

\* The positions of P among 1 to n as they are numbered when position i is removed.
AfterRemoval(n, i, P) == {k \in 1..(n - 1) : (IF k < i THEN k ELSE k + 1) \in P}

\* Removing position i of n moves every later position down by one.
LEMMA PositionRemoved ==
    ASSUME NEW n \in Nat, NEW i \in 1..n, NEW P \in SUBSET (1..n)
    PROVE  /\ Cardinality(P) \in Nat /\ Cardinality(AfterRemoval(n, i, P)) \in Nat
           /\ Cardinality(AfterRemoval(n, i, P)) = Cardinality(P) - (IF i \in P THEN 1 ELSE 0)
<1> DEFINE Q == {k \in 1..(n - 1) : (IF k < i THEN k ELSE k + 1) \in P}
           R == P \ {i}
           f == [k \in Q |-> IF k < i THEN k ELSE k + 1]
<1>1. IsFiniteSet(P)
  <2>1. IsFiniteSet(1..n) BY FS_Interval
  <2> QED BY <2>1, FS_Subset
<1>2. IsFiniteSet(Q)
  <2> DEFINE U == 1..(n - 1)
  <2>1. IsFiniteSet(U) BY FS_Interval
  <2>2. Q \in SUBSET U OBVIOUS
  <2> HIDE DEF U, Q
  <2> QED BY <2>1, <2>2, FS_Subset
<1>3. f \in Bijection(Q, R)
  <2>1. f \in [Q -> R]
    OBVIOUS
  <2>2. \A a, b \in Q : f[a] = f[b] => a = b
    OBVIOUS
  <2>3. \A y \in R : \E a \in Q : f[a] = y
    <3> TAKE y \in R
    <3>1. CASE y < i
      <4>1. y \in Q /\ f[y] = y
        BY <3>1
      <4> QED BY <4>1
    <3>2. CASE y > i
      <4>1. y - 1 \in Q /\ f[y - 1] = y
        BY <3>2
      <4> QED BY <4>1
    <3> QED BY <3>1, <3>2
  <2> HIDE DEF Q, R, f
  <2> QED BY <2>1, <2>2, <2>3 DEF Bijection, Injection, Surjection, IsInjective
<1>4. Cardinality(R) = Cardinality(Q)
  <2>1. ExistsBijection(Q, R)
    BY <1>3 DEF ExistsBijection
  <2> HIDE DEF Q, R
  <2> QED BY <1>2, <2>1, FS_Bijection
<1>5. Cardinality(R) = Cardinality(P) - (IF i \in P THEN 1 ELSE 0)
  <2>1. Cardinality(P) \in Nat BY <1>1, FS_CardinalityType
  <2>2. CASE i \in P
    <3>1. Cardinality(R) = Cardinality(P) - 1
      BY <1>1, <2>2, FS_RemoveElement
    <3> HIDE DEF R
    <3> QED BY <3>1, <2>2
  <2>3. CASE i \notin P
    <3>1. R = P BY <2>3
    <3> HIDE DEF R
    <3> QED BY <3>1, <2>1, <2>3
  <2> QED BY <2>2, <2>3
<1>6. Cardinality(P) \in Nat /\ Cardinality(Q) \in Nat
  BY <1>1, <1>2, FS_CardinalityType
<1> QED BY <1>4, <1>5, <1>6 DEF AfterRemoval


-----------------------------------------------------------------------------
(* Sums of natural numbers.  SumFunctionOnSet picks the elements of the set   *)
(* one by one; what it computes is how many units there are under them, and    *)
(* units can be counted with the theorems about cardinalities.                *)

Units(f, S) == UNION {{x} \X (1..f[x]) : x \in S}

\* One element more adds its value to the units.
LEMMA UnitsStep ==
    ASSUME NEW S, IsFiniteSet(S), NEW f, \A x \in S : f[x] \in Nat
    PROVE  /\ Cardinality(Units(f, {})) = 0
           /\ \A T \in SUBSET S : IsFiniteSet(Units(f, T)) /\ Cardinality(Units(f, T)) \in Nat
           /\ \A T \in SUBSET S : \A x \in S \ T :
                 Cardinality(Units(f, T \cup {x})) = Cardinality(Units(f, T)) + f[x]
<1>1. Units(f, {}) = {}
  BY DEF Units
<1>2. ASSUME NEW x \in S
      PROVE  IsFiniteSet({x} \X (1..f[x])) /\ Cardinality({x} \X (1..f[x])) = f[x]
  <2> DEFINE n == f[x]
  <2>1. n \in Nat
    OBVIOUS
  <2> HIDE DEF n
  <2>2. IsFiniteSet(1..n) /\ Cardinality(1..n) = n
    BY <2>1, FS_Interval
  <2>3. IsFiniteSet({x}) /\ Cardinality({x}) = 1
    BY FS_Singleton
  <2>4. IsFiniteSet({x} \X (1..n)) /\ Cardinality({x} \X (1..n)) = 1 * n
    BY <2>2, <2>3, FS_Product
  <2> QED  BY <2>1, <2>4 DEF n
<1>3. ASSUME NEW T \in SUBSET S, NEW x \in S \ T
      PROVE  /\ Units(f, T \cup {x}) = Units(f, T) \cup ({x} \X (1..f[x]))
             /\ Units(f, T) \cap ({x} \X (1..f[x])) = {}
  BY DEF Units
<1>4. ASSUME NEW T \in SUBSET S PROVE IsFiniteSet(Units(f, T))
  <2> DEFINE F == {U \in SUBSET T : IsFiniteSet(Units(f, U))}
  <2>1. {} \in F
    BY <1>1, FS_EmptySet
  <2>2. ASSUME NEW U \in SUBSET T, U \in F, NEW x \in T \ U PROVE U \cup {x} \in F
    <3>1. IsFiniteSet(Units(f, U) \cup ({x} \X (1..f[x])))
      BY <1>2, <2>2, FS_Union
    <3> QED  BY <1>3, <3>1
  <2>3. IsFiniteSet(T)
    BY FS_Subset
  <2>4. T \in F
    <3> HIDE DEF F
    <3> QED  BY <2>1, <2>2, <2>3, SetInduction
  <2> QED  BY <2>4
<1>5. ASSUME NEW T \in SUBSET S, NEW x \in S \ T
      PROVE  Cardinality(Units(f, T \cup {x})) = Cardinality(Units(f, T)) + f[x]
  <2> DEFINE A == Units(f, T)
             B == {x} \X (1..f[x])
  <2>1. IsFiniteSet(A) /\ IsFiniteSet(B) /\ Cardinality(B) = f[x] /\ A \cap B = {}
    BY <1>2, <1>3, <1>4
  <2>2. Units(f, T \cup {x}) = A \cup B
    BY <1>3
  <2> HIDE DEF A, B
  <2>3. Cardinality(A \cup B) = Cardinality(A) + Cardinality(B) - Cardinality(A \cap B)
    BY <2>1, FS_Union
  <2>4. Cardinality(A \cap B) = 0 /\ Cardinality(A) \in Nat
    BY <2>1, FS_EmptySet, FS_CardinalityType
  <2>5. Cardinality(A \cup B) = Cardinality(A) + f[x]
    BY <2>1, <2>3, <2>4
  <2> QED  BY <2>2, <2>5 DEF A
<1>6. Cardinality(Units(f, {})) = 0
  BY <1>1, FS_EmptySet
<1>7. \A T \in SUBSET S : Cardinality(Units(f, T)) \in Nat
  BY <1>4, FS_CardinalityType
<1> QED  BY <1>4, <1>5, <1>6, <1>7

\* What SumFunctionOnSet computes.
LEMMA SumIsUnits ==
    ASSUME NEW S, IsFiniteSet(S), NEW f, \A x \in S : f[x] \in Nat
    PROVE  SumFunctionOnSet(f, S) = Cardinality(Units(f, S))
<1> DEFINE first(s) == CHOOSE x \in s : TRUE
           Body(g) == [s \in SUBSET S |-> IF s = {} THEN 0
                                          ELSE f[first(s)] + g[s \ {first(s)}]]
           count == [s \in SUBSET S |-> Cardinality(Units(f, s))]
<1>1. SumFunctionOnSet(f, S) = (CHOOSE g : g = Body(g))[S]
  BY DEF SumFunctionOnSet, FoldFunctionOnSet, MapThenFoldSet
<1>2. ASSUME NEW s \in SUBSET S, s # {}
      PROVE  /\ first(s) \in s /\ s \ {first(s)} \in SUBSET S /\ first(s) \in S \ (s \ {first(s)})
             /\ (s \ {first(s)}) \cup {first(s)} = s
  BY <1>2
<1>3. ASSUME NEW s \in SUBSET S
      PROVE  count[s] = IF s = {} THEN 0 ELSE f[first(s)] + count[s \ {first(s)}]
  <2>1. CASE s = {}
    BY <2>1, UnitsStep
  <2>2. CASE s # {}
    <3> DEFINE x == first(s)
               r == s \ {x}
    <3>1. r \in SUBSET S /\ x \in S \ r /\ r \cup {x} = s
      BY <1>2, <2>2
    <3> HIDE DEF first, x, r
    <3>2. /\ Cardinality(Units(f, r \cup {x})) = Cardinality(Units(f, r)) + f[x]
          /\ Cardinality(Units(f, r)) \in Nat
      BY <3>1, UnitsStep
    <3>3. count[s] = f[x] + count[r]
      <4>1. count[s] = Cardinality(Units(f, r \cup {x})) /\ count[r] = Cardinality(Units(f, r))
        BY <3>1
      <4>2. f[x] \in Nat
        BY <3>1
      <4> HIDE DEF count
      <4> QED  BY <3>2, <4>1, <4>2
    <3> QED  BY <2>2, <3>3 DEF x, r
  <2> QED  BY <2>1, <2>2
<1>4. count = Body(count)
  <2> HIDE DEF first
  <2>1. \A s \in SUBSET S : count[s] = Body(count)[s]
    BY <1>3
  <2> QED  BY <2>1
<1>5. ASSUME NEW g, g = Body(g) PROVE g = count
  <2>1. DOMAIN g = SUBSET S /\ g = [s \in SUBSET S |-> g[s]]
    <3> HIDE DEF first
    <3> QED  BY <1>5
  <2> DEFINE F == {s \in SUBSET S : g[s] # count[s]}
  <2>2. F = {}
    <3> SUFFICES ASSUME F # {} PROVE FALSE
      OBVIOUS
    <3>1. F \subseteq SUBSET S
      OBVIOUS
    <3>2. \E m \in F : \A x \in F : x \subseteq m => x = m
      <4> HIDE DEF F
      <4> QED  BY <3>1, MinimalSubset
    <3>3. PICK m \in F : \A x \in F : x \subseteq m => x = m
      BY <3>2
    <3>4. g[m] = IF m = {} THEN 0 ELSE f[first(m)] + g[m \ {first(m)}]
      <4> HIDE DEF first
      <4> QED  BY <1>5
    <3>5. m # {}
      BY <1>3, <3>4
    <3>6. g[m \ {first(m)}] = count[m \ {first(m)}]
      <4> DEFINE r == m \ {first(m)}
      <4>1. r \in SUBSET S /\ r \subseteq m /\ r # m
        BY <1>2, <3>5
      <4> HIDE DEF r, first, count
      <4>2. g[r] = count[r]
        BY <3>3, <4>1
      <4> QED  BY <4>2 DEF r
    <3>7. g[m] = count[m]
      <4> HIDE DEF first, count
      <4> QED  BY <1>3, <3>4, <3>5, <3>6
    <3> QED  BY <3>7
  <2> HIDE DEF first, Body
  <2> QED  BY <2>1, <2>2
<1>6. (CHOOSE g : g = Body(g)) = count
  <2> HIDE DEF Body, count
  <2> QED  BY <1>4, <1>5
<1> QED  BY <1>1, <1>6

\* Sums step by step, in any order.
LEMMA SumStep ==
    ASSUME NEW S, IsFiniteSet(S), NEW f, \A x \in S : f[x] \in Nat
    PROVE  /\ SumFunctionOnSet(f, {}) = 0
           /\ \A T \in SUBSET S : SumFunctionOnSet(f, T) \in Nat
           /\ \A T \in SUBSET S : \A x \in S \ T :
                 SumFunctionOnSet(f, T \cup {x}) = SumFunctionOnSet(f, T) + f[x]
<1>1. ASSUME NEW T \in SUBSET S
      PROVE  SumFunctionOnSet(f, T) = Cardinality(Units(f, T))
  <2>1. IsFiniteSet(T) /\ \A x \in T : f[x] \in Nat
    BY FS_Subset
  <2> QED  BY <2>1, SumIsUnits
<1>2. ASSUME NEW T \in SUBSET S, NEW x \in S \ T
      PROVE  SumFunctionOnSet(f, T \cup {x}) = SumFunctionOnSet(f, T) + f[x]
  BY <1>1, UnitsStep, T \cup {x} \in SUBSET S
<1> QED  BY <1>1, <1>2, UnitsStep

\* A sum over more elements is no smaller.
LEMMA SumGrows ==
    ASSUME NEW S, IsFiniteSet(S), NEW f, \A x \in S : f[x] \in Nat, NEW T \in SUBSET S
    PROVE  SumFunctionOnSet(f, T) <= SumFunctionOnSet(f, S)
<1> DEFINE R == S \ T
           F == {U \in SUBSET R : SumFunctionOnSet(f, T) <= SumFunctionOnSet(f, T \cup U)}
<1>1. {} \in F
  <2>1. T \cup {} = T /\ SumFunctionOnSet(f, T) \in Nat
    BY SumStep
  <2> QED  BY <2>1
<1>2. ASSUME NEW U \in SUBSET R, U \in F, NEW x \in R \ U PROVE U \cup {x} \in F
  <2>1. /\ SumFunctionOnSet(f, (T \cup U) \cup {x}) = SumFunctionOnSet(f, T \cup U) + f[x]
        /\ SumFunctionOnSet(f, T \cup U) \in Nat /\ SumFunctionOnSet(f, T) \in Nat
    <3> DEFINE V == T \cup U
    <3>1. V \in SUBSET S /\ x \in S \ V
      OBVIOUS
    <3> HIDE DEF V
    <3>2. /\ SumFunctionOnSet(f, V \cup {x}) = SumFunctionOnSet(f, V) + f[x]
          /\ SumFunctionOnSet(f, V) \in Nat /\ SumFunctionOnSet(f, T) \in Nat
      BY <3>1, SumStep
    <3> QED  BY <3>2 DEF V
  <2>2. (T \cup U) \cup {x} = T \cup (U \cup {x})
    OBVIOUS
  <2>3. SumFunctionOnSet(f, T) <= SumFunctionOnSet(f, T \cup (U \cup {x}))
    <3>1. f[x] \in Nat /\ SumFunctionOnSet(f, T) <= SumFunctionOnSet(f, T \cup U)
      BY <1>2
    <3> DEFINE a == SumFunctionOnSet(f, T)
               b == SumFunctionOnSet(f, T \cup U)
               c == SumFunctionOnSet(f, T \cup (U \cup {x}))
    <3>2. a <= b /\ c = b + f[x] /\ a \in Nat /\ b \in Nat /\ f[x] \in Nat
      BY <2>1, <2>2, <3>1
    <3> HIDE DEF a, b, c
    <3>3. a <= c
      BY <3>2
    <3> QED  BY <3>3 DEF a, c
  <2> QED  BY <2>3
<1>3. IsFiniteSet(R)
  BY FS_Subset
<1>4. R \in F
  <2> HIDE DEF F, R
  <2> QED  BY <1>1, <1>2, <1>3, SetInduction
<1> QED  BY <1>4, T \cup R = S

\* Functions that agree on a set have one sum over it.
LEMMA SumSame ==
    ASSUME NEW S, IsFiniteSet(S), NEW f, \A x \in S : f[x] \in Nat,
           NEW g, \A x \in S : g[x] = f[x]
    PROVE  SumFunctionOnSet(g, S) = SumFunctionOnSet(f, S)
<1>1. Units(g, S) = Units(f, S)
  BY DEF Units
<1>2. \A x \in S : g[x] \in Nat
  OBVIOUS
<1> QED  BY <1>1, <1>2, SumIsUnits

\* A change of one value changes the sum by as much.
LEMMA SumUpdate ==
    ASSUME NEW S, IsFiniteSet(S), NEW f, \A x \in S : f[x] \in Nat,
           NEW g, \A x \in S : g[x] \in Nat,
           NEW z \in S, \A x \in S : x # z => g[x] = f[x]
    PROVE  SumFunctionOnSet(g, S) = SumFunctionOnSet(f, S) - f[z] + g[z]
<1> DEFINE R == S \ {z}
<1>1. IsFiniteSet(R) /\ \A x \in R : f[x] \in Nat /\ g[x] = f[x]
  BY FS_Subset
<1>2. SumFunctionOnSet(g, R) = SumFunctionOnSet(f, R)
  <2> HIDE DEF R
  <2> QED  BY <1>1, SumSame
<1>3. R \in SUBSET S /\ z \in S \ R /\ R \cup {z} = S
  OBVIOUS
<1> HIDE DEF R
<1>4. /\ SumFunctionOnSet(f, S) = SumFunctionOnSet(f, R) + f[z]
      /\ SumFunctionOnSet(f, R) \in Nat
  BY <1>3, SumStep
<1>5. SumFunctionOnSet(g, S) = SumFunctionOnSet(g, R) + g[z]
  BY <1>3, SumStep
<1> QED  BY <1>2, <1>4, <1>5

\* A sum over one element more.
LEMMA SumExtended ==
    ASSUME NEW S, IsFiniteSet(S), NEW f, \A x \in S : f[x] \in Nat, NEW z, z \notin S,
           NEW g, \A x \in S : g[x] = f[x], g[z] \in Nat
    PROVE  SumFunctionOnSet(g, S \cup {z}) = SumFunctionOnSet(f, S) + g[z]
<1> DEFINE R == S \cup {z}
<1>1. IsFiniteSet(R) /\ (\A x \in R : g[x] \in Nat) /\ S \in SUBSET R /\ z \in R \ S
  BY FS_AddElement
<1> HIDE DEF R
<1>2. SumFunctionOnSet(g, S \cup {z}) = SumFunctionOnSet(g, S) + g[z]
  BY <1>1, SumStep
<1>3. SumFunctionOnSet(g, S) = SumFunctionOnSet(f, S)
  BY SumSame
<1> QED  BY <1>2, <1>3

\* The sum of zeros.
LEMMA SumOfZeros ==
    ASSUME NEW S, IsFiniteSet(S), NEW f, \A x \in S : f[x] = 0
    PROVE  SumFunctionOnSet(f, S) = 0
<1>1. Units(f, S) = {}
  <2>1. 1..0 = {}
    OBVIOUS
  <2> QED  BY <2>1 DEF Units
<1>2. \A x \in S : f[x] \in Nat
  OBVIOUS
<1> QED  BY <1>1, <1>2, SumIsUnits, FS_EmptySet


\* A sum of numbers up to m is at most m for each.
LEMMA SumBound ==
    ASSUME NEW S, IsFiniteSet(S), NEW m \in Nat, NEW f, \A x \in S : f[x] \in Nat /\ f[x] <= m
    PROVE  SumFunctionOnSet(f, S) <= Cardinality(S) * m
<1> DEFINE F == {T \in SUBSET S : SumFunctionOnSet(f, T) <= Cardinality(T) * m}
<1>0. \A x \in S : f[x] \in Nat
  OBVIOUS
<1>1. {} \in F
  <2>1. SumFunctionOnSet(f, {}) = 0 /\ Cardinality({}) = 0
    BY <1>0, SumStep, FS_EmptySet
  <2> QED  BY <2>1
<1>2. ASSUME NEW T \in SUBSET S, T \in F, NEW x \in S \ T PROVE T \cup {x} \in F
  <2> DEFINE a == SumFunctionOnSet(f, T)
             b == SumFunctionOnSet(f, T \cup {x})
             n == Cardinality(T)
             v == f[x]
  <2>1. b = a + v /\ a \in Nat /\ v \in Nat /\ v <= m
    BY <1>0, SumStep
  <2>2. n \in Nat /\ Cardinality(T \cup {x}) = n + 1
    BY FS_Subset, FS_AddElement, FS_CardinalityType
  <2>3. a <= n * m
    BY <1>2
  <2> HIDE DEF a, b, n, v
  <2>4. (n + 1) * m = n * m + m /\ n * m \in Nat
    BY <2>2
  <2>5. b <= (n + 1) * m
    BY <2>1, <2>3, <2>4
  <2> QED  BY <2>2, <2>5 DEF b
<1>3. S \in F
  <2> HIDE DEF F
  <2> QED  BY <1>1, <1>2, SetInduction
<1> QED  BY <1>3

\* The greatest element of a finite set of numbers.
LEMMA MaxIs ==
    ASSUME NEW S, IsFiniteSet(S), S # {}, S \subseteq Int
    PROVE  Max(S) \in S /\ \A x \in S : x <= Max(S)
<1> DEFINE id == [x \in S |-> x]
<1>1. \E x \in S : \A y \in S : id[x] >= id[y]
  <2>1. id \in [S -> Int]
    OBVIOUS
  <2> HIDE DEF id
  <2> QED  BY <2>1, ExtremeValues
<1>2. \E x \in S : \A y \in S : x >= y
  BY <1>1
<1>3. \E x \in S : \A y \in S : y <= x
  BY <1>2
<1> QED  BY <1>3 DEF Max


\* Two sets that do not overlap are together as large as both.
LEMMA DisjointUnion ==
    ASSUME NEW U, IsFiniteSet(U), NEW V, IsFiniteSet(V), U \cap V = {}
    PROVE  /\ Cardinality(U) \in Nat /\ Cardinality(V) \in Nat
           /\ Cardinality(U \cup V) = Cardinality(U) + Cardinality(V)
<1>1. Cardinality(U) \in Nat /\ Cardinality(V) \in Nat
  BY FS_CardinalityType
<1>2. Cardinality(U \cup V) = Cardinality(U) + Cardinality(V) - Cardinality(U \cap V)
  BY FS_Union
<1>3. Cardinality(U \cap V) = 0
  BY FS_EmptySet
<1> QED  BY <1>1, <1>2, <1>3

\* Parts that do not overlap add up to no more than the whole.
LEMMA SumOfParts ==
    ASSUME NEW S, IsFiniteSet(S), NEW f, \A x \in S : f[x] \in Nat,
           NEW A \in SUBSET S, NEW B \in SUBSET S, A \cap B = {}
    PROVE  SumFunctionOnSet(f, A) + SumFunctionOnSet(f, B) <= SumFunctionOnSet(f, S)
<1>1. IsFiniteSet(A) /\ IsFiniteSet(B) /\ A \cup B \in SUBSET S /\ IsFiniteSet(A \cup B)
  BY FS_Subset, A \cup B \in SUBSET S
<1>2. /\ SumFunctionOnSet(f, A) = Cardinality(Units(f, A))
      /\ SumFunctionOnSet(f, B) = Cardinality(Units(f, B))
  BY <1>1, SumIsUnits
<1>3. SumFunctionOnSet(f, A \cup B) = Cardinality(Units(f, A \cup B))
  <2> DEFINE C == A \cup B
  <2>1. IsFiniteSet(C) /\ \A x \in C : f[x] \in Nat
    BY <1>1
  <2> HIDE DEF C
  <2>2. SumFunctionOnSet(f, C) = Cardinality(Units(f, C))
    BY <2>1, SumIsUnits
  <2> QED  BY <2>2 DEF C
<1>4. SumFunctionOnSet(f, A \cup B) <= SumFunctionOnSet(f, S)
  BY <1>1, SumGrows
<1> DEFINE U == Units(f, A)
           V == Units(f, B)
<1>5. Units(f, A \cup B) = U \cup V /\ U \cap V = {}
  BY DEF Units
<1>6. IsFiniteSet(U) /\ IsFiniteSet(V)
  <2>1. \A x \in A : f[x] \in Nat
    OBVIOUS
  <2>2. \A x \in B : f[x] \in Nat
    OBVIOUS
  <2> QED  BY <1>1, <2>1, <2>2, UnitsStep
<1> HIDE DEF U, V
<1>7. Cardinality(U \cup V) = Cardinality(U) + Cardinality(V)
  BY <1>5, <1>6, DisjointUnion
<1> QED  BY <1>2, <1>3, <1>4, <1>5, <1>7 DEF U, V

\* A function without repetitions has as many values as arguments.
LEMMA DistinctValues ==
    ASSUME NEW S, IsFiniteSet(S), NEW f, \A x, y \in S : f[x] = f[y] => x = y
    PROVE  Cardinality({f[x] : x \in S}) = Cardinality(S)
<1> DEFINE T == {f[x] : x \in S}
           g == [x \in S |-> f[x]]
<1>1. g \in Bijection(S, T)
  BY DEF Bijection, Injection, Surjection, IsInjective
<1>2. ExistsBijection(S, T)
  BY <1>1 DEF ExistsBijection
<1> HIDE DEF T
<1>3. Cardinality(T) = Cardinality(S)
  BY <1>2, FS_Bijection
<1> QED  BY <1>3 DEF T

\* The sizes of the classes add up to the size of the set.
LEMMA SumOfClasses ==
    ASSUME NEW S, IsFiniteSet(S), NEW f
    PROVE  LET K == {f[i] : i \in S}
           IN  SumFunctionOnSet([x \in K |-> Cardinality({i \in S : f[i] = x})], K) = Cardinality(S)
<1> DEFINE K == {f[i] : i \in S}
           c == [x \in K |-> Cardinality({i \in S : f[i] = x})]
           In(U) == {i \in S : f[i] \in U}
           F == {U \in SUBSET K : SumFunctionOnSet(c, U) = Cardinality(In(U))}
<1>1. IsFiniteSet(K)
  <2> DEFINE g == [i \in S |-> f[i]]
  <2>1. g \in Surjection(S, K)
    BY DEF Surjection
  <2> HIDE DEF g, K
  <2> QED  BY <2>1, FS_Surjection
<1>2. \A U \in SUBSET K : IsFiniteSet(In(U)) /\ Cardinality(In(U)) \in Nat
  <2> SUFFICES ASSUME NEW U \in SUBSET K PROVE IsFiniteSet(In(U)) /\ Cardinality(In(U)) \in Nat
    OBVIOUS
  <2>1. In(U) \in SUBSET S
    OBVIOUS
  <2> HIDE DEF In
  <2> QED  BY <2>1, FS_Subset, FS_CardinalityType
<1>3. \A x \in K : c[x] = Cardinality(In({x})) /\ c[x] \in Nat
  <2> SUFFICES ASSUME NEW x \in K PROVE c[x] = Cardinality(In({x})) /\ c[x] \in Nat
    OBVIOUS
  <2>1. {i \in S : f[i] = x} = In({x})
    OBVIOUS
  <2>2. {x} \in SUBSET K
    OBVIOUS
  <2>3. c[x] = Cardinality(In({x}))
    BY <2>1
  <2> HIDE DEF In, c
  <2> QED  BY <1>2, <2>2, <2>3
<1>4. {} \in F
  <2>1. In({}) = {} /\ {} \in SUBSET K
    OBVIOUS
  <2> HIDE DEF In, c, K
  <2>2. SumFunctionOnSet(c, {}) = 0
    BY <1>1, <1>3, SumStep
  <2> QED  BY <2>1, <2>2, FS_EmptySet
<1>5. ASSUME NEW U \in SUBSET K, U \in F, NEW x \in K \ U PROVE U \cup {x} \in F
  <2>1. In(U \cup {x}) = In(U) \cup In({x}) /\ In(U) \cap In({x}) = {}
    OBVIOUS
  <2>2. {x} \in SUBSET K /\ U \cup {x} \in SUBSET K
    OBVIOUS
  <2> DEFINE a == In(U)
             b == In({x})
  <2>3. IsFiniteSet(a) /\ IsFiniteSet(b) /\ Cardinality(a) \in Nat /\ Cardinality(b) \in Nat
    <3> HIDE DEF In
    <3> QED  BY <1>2, <2>2
  <2>4. In(U \cup {x}) = a \cup b /\ a \cap b = {}
    BY <2>1
  <2>5. SumFunctionOnSet(c, U) = Cardinality(a) /\ c[x] = Cardinality(b)
    <3> HIDE DEF c, In
    <3> QED  BY <1>3, <1>5
  <2> HIDE DEF a, b, In, c, K
  <2>6. Cardinality(a \cup b) = Cardinality(a) + Cardinality(b)
    BY <2>3, <2>4, DisjointUnion
  <2>7. SumFunctionOnSet(c, U \cup {x}) = SumFunctionOnSet(c, U) + c[x]
    <3>1. \A y \in K : c[y] \in Nat
      BY <1>3
    <3> QED  BY <1>1, <1>5, <3>1, SumStep
  <2> QED  BY <2>2, <2>4, <2>5, <2>6, <2>7
<1>6. K \in F
  <2> HIDE DEF F, K
  <2> QED  BY <1>1, <1>4, <1>5, SetInduction
<1>7. In(K) = S
  OBVIOUS
<1> QED  BY <1>6, <1>7

-----------------------------------------------------------------------------
(* How often a sequence has a value. *)

Places(s, V) == {i \in DOMAIN s : s[i] \in V}
Times(s, V) == Cardinality(Places(s, V))

LEMMA TimesOf ==
    ASSUME NEW E, NEW s \in Seq(E), NEW V
    PROVE  /\ IsFiniteSet(Places(s, V)) /\ Times(s, V) \in Nat
           /\ Times(<<>>, V) = 0
           /\ Places(s, V) # {} => Times(s, V) >= 1
<1> DEFINE n == Len(s)
<1>1. n \in Nat /\ IsFiniteSet(1..n) /\ Places(s, V) \in SUBSET (1..n)
  BY FS_Interval DEF Places
<1> HIDE DEF n
<1>2. IsFiniteSet(Places(s, V))
  <2> DEFINE P == Places(s, V)
             D == 1..n
  <2>1. P \in SUBSET D /\ IsFiniteSet(D)
    BY <1>1
  <2> HIDE DEF P, D
  <2> QED  BY <2>1, FS_Subset DEF P
<1>3. Places(<<>>, V) = {}
  BY DEF Places
<1>4. Times(s, V) \in Nat
  BY <1>2, FS_CardinalityType DEF Times
<1>5. Places(s, V) # {} => Times(s, V) # 0
  BY <1>2, FS_EmptySet DEF Times
<1>6. Times(<<>>, V) = 0
  BY <1>3, FS_EmptySet DEF Times
<1> HIDE DEF Times
<1> QED  BY <1>2, <1>4, <1>5, <1>6

LEMMA TimesAppend ==
    ASSUME NEW E, NEW s \in Seq(E), NEW x \in E, NEW V
    PROVE  Times(Append(s, x), V) = Times(s, V) + (IF x \in V THEN 1 ELSE 0)
<1> DEFINE n == Len(s)
           P == Places(s, V)
<1>1. IsFiniteSet(P) /\ Cardinality(P) \in Nat /\ n + 1 \notin P
  BY TimesOf DEF Times, Places
<1>2. Places(Append(s, x), V) = IF x \in V THEN P \cup {n + 1} ELSE P
  BY DEF Places
<1> HIDE DEF P, n
<1>3. Cardinality(P \cup {n + 1}) = Cardinality(P) + 1
  BY <1>1, FS_AddElement
<1> QED  BY <1>1, <1>2, <1>3 DEF Times, P

LEMMA TimesTail ==
    ASSUME NEW E, NEW s \in Seq(E), s # <<>>, NEW V
    PROVE  Times(s, V) = Times(Tail(s), V) + (IF Head(s) \in V THEN 1 ELSE 0)
<1> DEFINE n == Len(s)
           P == Places(s, V)
<1>1. n \in Nat /\ 1 \in 1..n /\ P \in SUBSET (1..n)
  BY DEF Places
<1>2. Places(Tail(s), V) = AfterRemoval(n, 1, P)
  BY DEF Places, AfterRemoval
<1>3. 1 \in P <=> Head(s) \in V
  BY <1>1 DEF Places
<1> HIDE DEF P, n
<1>4. /\ Cardinality(P) \in Nat /\ Cardinality(AfterRemoval(n, 1, P)) \in Nat
      /\ Cardinality(AfterRemoval(n, 1, P)) = Cardinality(P) - (IF 1 \in P THEN 1 ELSE 0)
  BY <1>1, PositionRemoved
<1> QED  BY <1>2, <1>3, <1>4 DEF Times, P

\* A function on 0..n can be defined by its value at 0 and a step.
RecursesOn(h, n, base, step) == \A i \in 0..n : h[i] = IF i = 0 THEN base ELSE step[i][h[i - 1]]

LEMMA RecursionOnNumbers ==
    ASSUME NEW n \in Nat, NEW V, NEW base \in V, NEW step, \A i \in 1..n : \A v \in V : step[i][v] \in V
    PROVE  \E h \in [0..n -> V] : RecursesOn(h, n, base, step)
<1> DEFINE T == {m \in Nat : m <= n =>
                   \E h \in [0..m -> V] : \A i \in 0..m : h[i] = IF i = 0 THEN base ELSE step[i][h[i - 1]]}
<1>1. 0 \in T
  <2> DEFINE h == [i \in 0..0 |-> base]
  <2>1. h \in [0..0 -> V] /\ \A i \in 0..0 : h[i] = IF i = 0 THEN base ELSE step[i][h[i - 1]]
    OBVIOUS
  <2> QED  BY <2>1
<1>2. ASSUME NEW m \in Nat, m \in T PROVE m + 1 \in T
  <2> SUFFICES ASSUME m + 1 <= n
               PROVE  \E h \in [0..(m + 1) -> V] : \A i \in 0..(m + 1) :
                          h[i] = IF i = 0 THEN base ELSE step[i][h[i - 1]]
    OBVIOUS
  <2>1. PICK h \in [0..m -> V] : \A i \in 0..m : h[i] = IF i = 0 THEN base ELSE step[i][h[i - 1]]
    BY <1>2
  <2> DEFINE k == [i \in 0..(m + 1) |-> IF i = m + 1 THEN step[m + 1][h[m]] ELSE h[i]]
  <2>2. h[m] \in V /\ m + 1 \in 1..n
    BY <2>1
  <2>3. step[m + 1][h[m]] \in V
    BY <2>2
  <2>4. ASSUME NEW i \in 0..(m + 1) PROVE k[i] \in V
    <3>1. i = m + 1 \/ i \in 0..m
      OBVIOUS
    <3> QED  BY <2>1, <2>3, <3>1
  <2>5. k \in [0..(m + 1) -> V]
    BY <2>4
  <2>6. ASSUME NEW i \in 0..(m + 1) PROVE k[i] = IF i = 0 THEN base ELSE step[i][k[i - 1]]
    <3>1. CASE i = m + 1
      <4>1. k[i] = step[m + 1][h[m]] /\ i # 0
        BY <3>1
      <4>2. i - 1 = m /\ m \in 0..(m + 1) /\ m # m + 1
        BY <3>1
      <4>3. k[i - 1] = h[m]
        BY <4>2
      <4> HIDE DEF k
      <4> QED  BY <3>1, <4>1, <4>3
    <3>2. CASE i \in 0..m
      <4>1. k[i] = h[i]
        BY <3>2
      <4>2. i # 0 => k[i - 1] = h[i - 1]
        BY <3>2
      <4> HIDE DEF k
      <4> QED  BY <2>1, <3>2, <4>1, <4>2
    <3> QED  BY <3>1, <3>2
  <2> HIDE DEF k
  <2> QED  BY <2>5, <2>6
<1>3. Nat \subseteq T
  <2> HIDE DEF T
  <2> QED  BY <1>1, <1>2, NumberInduction
<1>4. n \in T /\ n <= n
  <2> HIDE DEF T
  <2> QED  BY <1>3
<1>5. PICK h \in [0..n -> V] : \A i \in 0..n : h[i] = IF i = 0 THEN base ELSE step[i][h[i - 1]]
  BY <1>4
<1> QED
  BY <1>5 DEF RecursesOn

=============================================================================
