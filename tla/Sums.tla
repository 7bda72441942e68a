-------------------------------- MODULE Sums --------------------------------
(***************************************************************************)
(* Facts about finite sets of numbers and about sums over them, on which   *)
(* the proofs about positions (Diff), about windows of requests            *)
(* (EdgarClient) and about pages (Api) rest.  A sum is Functions'          *)
(* SumFunctionOnSet, which takes the elements in an order of its own; the  *)
(* lemmas are proved by looking at a smallest set that violates them.      *)
(***************************************************************************)
EXTENDS Integers, FiniteSets, FiniteSetsExt, FiniteSetTheorems, TLAPS

-----------------------------------------------------------------------------
(* Smallest counterexamples. *)

\* Among finite sets, a nonempty collection has one that contains no other of it.
LEMMA SmallestSet ==
  ASSUME NEW S, IsFiniteSet(S), NEW B \in SUBSET SUBSET S, B # {}
  PROVE  \E U \in B : /\ IsFiniteSet(U)
                      /\ \A x \in U : U \ {x} \notin B
<1>1. B \subseteq FiniteSubsetsOf(S)
  BY FS_Subset DEF FiniteSubsetsOf
<1>2. PICK U \in B : \A V \in B : <<V, U>> \notin StrictSubsetOrdering(S)
  BY <1>1, WFMin, FS_StrictSubsetOrderingWellFounded
<1>3. \A x \in U : <<U \ {x}, U>> \in StrictSubsetOrdering(S)
  BY DEF StrictSubsetOrdering
<1> QED
  BY <1>1, <1>2, <1>3 DEF FiniteSubsetsOf

\* The values of a function on a finite set are finitely many.
LEMMA ImageFinite ==
  ASSUME NEW S, IsFiniteSet(S), NEW f
  PROVE  IsFiniteSet({f[x] : x \in S})
<1> DEFINE T == {f[x] : x \in S}
           g == [x \in S |-> f[x]]
<1>1. g \in Surjection(S, T)
  BY DEF Surjection
<1> HIDE DEF g, T
<1>2. IsFiniteSet(T)
  BY <1>1, FS_Surjection
<1> QED
  BY <1>2 DEF T

\* Every nonempty finite set of numbers has a greatest one.
LEMMA MaxOfFinite ==
  ASSUME NEW S \in SUBSET Int, IsFiniteSet(S), S # {}
  PROVE  Max(S) \in S /\ \A y \in S : y <= Max(S)
<1> DEFINE Bounded(U) == \E x \in U : \A y \in U : y <= x
           B          == {U \in SUBSET S : U # {} /\ ~Bounded(U)}
<1>1. ASSUME B # {} PROVE FALSE
  <2>1. PICK U \in B : \A x \in U : U \ {x} \notin B
    <3> HIDE DEF B
    <3>1. B \in SUBSET SUBSET S
      BY DEF B
    <3> QED
      BY <1>1, <3>1, SmallestSet
  <2>2. PICK x \in U : TRUE
    OBVIOUS
  <2>3. U \ {x} = {} \/ Bounded(U \ {x})
    BY <2>1, <2>2
  <2>4. CASE U \ {x} = {}
    BY <2>2, <2>4
  <2>5. CASE Bounded(U \ {x})
    <3>1. PICK m \in U \ {x} : \A y \in U \ {x} : y <= m
      BY <2>5
    <3>2. CASE m <= x
      BY <2>2, <3>1, <3>2
    <3>3. CASE ~(m <= x)
      BY <2>2, <3>1, <3>3
    <3> QED
      BY <3>2, <3>3
  <2> QED
    BY <2>3, <2>4, <2>5
<1>2. \E x \in S : \A y \in S : x >= y
  BY <1>1
<1> QED
  BY <1>2 DEF Max

\* A nonempty set of natural numbers has a smallest one.
LEMMA Smallest ==
  ASSUME NEW S \in SUBSET Nat, S # {}
  PROVE  \E x \in S : \A y \in S : x <= y
<1>1. PICK b \in S : TRUE
  OBVIOUS
<1> DEFINE F == {0 - y : y \in {z \in S : z <= b}}
<1>2. F \in SUBSET (-b)..0 /\ 0 - b \in F
  BY <1>1
<1>3. IsFiniteSet(F)
  <2>1. -b \in Int /\ 0 \in Int
    BY <1>1
  <2>2. IsFiniteSet((-b)..0)
    BY <2>1, FS_Interval
  <2> HIDE DEF F
  <2> QED
    BY <1>2, <2>2, FS_Subset
<1>4. F \in SUBSET Int /\ F # {}
  BY <1>1, <1>2
<1> HIDE DEF F
<1>5. Max(F) \in F /\ \A y \in F : y <= Max(F)
  BY <1>3, <1>4, MaxOfFinite
<1>6. PICK x \in S : x <= b /\ Max(F) = 0 - x
  BY <1>5 DEF F
<1>7. ASSUME NEW y \in S PROVE x <= y
  <2>1. CASE y <= b
    <3>1. 0 - y \in F
      BY <2>1 DEF F
    <3> QED
      BY <1>5, <1>6, <3>1
  <2>2. CASE ~(y <= b)
    BY <1>6, <2>2
  <2> QED
    BY <2>1, <2>2
<1> QED
  BY <1>7

-----------------------------------------------------------------------------
(* The defining equation. *)

\* The element that a sum takes first.
First(s) == CHOOSE x \in s : TRUE

\* g gives the partial sums of f over the subsets of S.
Sums(f, S, g) ==
  g = [s \in SUBSET S |-> IF s = {} THEN 0 ELSE f[First(s)] + g[s \ {First(s)}]]

LEMMA FirstIsIn ==
  ASSUME NEW s, s # {}
  PROVE  First(s) \in s
BY DEF First

LEMMA SumIsChosen ==
  ASSUME NEW f, NEW S
  PROVE  SumFunctionOnSet(f, S) = (CHOOSE g : Sums(f, S, g))[S]
BY DEF SumFunctionOnSet, FoldFunctionOnSet, MapThenFoldSet, Sums, First

LEMMA SumsAt ==
  ASSUME NEW f, NEW S, NEW g, Sums(f, S, g), NEW s \in SUBSET S
  PROVE  g[s] = IF s = {} THEN 0 ELSE f[First(s)] + g[s \ {First(s)}]
<1> DEFINE e(t) == IF t = {} THEN 0 ELSE f[First(t)] + g[t \ {First(t)}]
<1>1. g = [t \in SUBSET S |-> e(t)]
  BY DEF Sums
<1> HIDE DEF e
<1>2. g[s] = e(s)
  BY <1>1
<1> QED
  BY <1>2 DEF e

\* Partial sums do not depend on what else is summed.
LEMMA SumsUnique ==
  ASSUME NEW f, NEW S, NEW T, IsFiniteSet(S), T \subseteq S,
         NEW g, NEW h, Sums(f, S, g), Sums(f, T, h)
  PROVE  h[T] = g[T]
<1> DEFINE B == {U \in SUBSET T : h[U] # g[U]}
<1>1. ASSUME B # {} PROVE FALSE
  <2>1. PICK U \in B : \A x \in U : U \ {x} \notin B
    <3> HIDE DEF B
    <3>1. B \in SUBSET SUBSET S
      BY DEF B
    <3> QED
      BY <1>1, <3>1, SmallestSet
  <2>2. U \in SUBSET T /\ U \in SUBSET S /\ h[U] # g[U]
    OBVIOUS
  <2>3. U # {}
    BY <2>2, SumsAt
  <2>4. h[U \ {First(U)}] = g[U \ {First(U)}]
    BY <2>1, <2>2, <2>3, FirstIsIn
  <2> QED
    BY <2>2, <2>3, <2>4, SumsAt
<1> QED
  BY <1>1

LEMMA SumsRestrict ==
  ASSUME NEW f, NEW S, NEW T, T \subseteq S, NEW g, Sums(f, S, g)
  PROVE  Sums(f, T, [s \in SUBSET T |-> g[s]])
<1> DEFINE h == [s \in SUBSET T |-> g[s]]
<1>1. ASSUME NEW s \in SUBSET T
      PROVE  g[s] = IF s = {} THEN 0 ELSE f[First(s)] + h[s \ {First(s)}]
  <2>1. s \in SUBSET S /\ s \ {First(s)} \in SUBSET T
    OBVIOUS
  <2> QED
    BY <2>1, SumsAt
<1> QED
  BY <1>1 DEF Sums

\* The partial sum of a set that has one.
LEMMA SumsValue ==
  ASSUME NEW f, NEW S, IsFiniteSet(S), NEW g, Sums(f, S, g), NEW T \in SUBSET S
  PROVE  SumFunctionOnSet(f, T) = g[T]
<1>1. Sums(f, T, CHOOSE h : Sums(f, T, h))
  BY SumsRestrict
<1> QED
  BY <1>1, SumsUnique, SumIsChosen

LEMMA SumsExist ==
  ASSUME NEW f, NEW S, IsFiniteSet(S)
  PROVE  \E g : Sums(f, S, g)
<1> DEFINE B == {U \in SUBSET S : ~\E g : Sums(f, U, g)}
<1>1. ASSUME B # {} PROVE FALSE
  <2>1. PICK U \in B : IsFiniteSet(U) /\ \A x \in U : U \ {x} \notin B
    <3> HIDE DEF B
    <3>1. B \in SUBSET SUBSET S
      BY DEF B
    <3> QED
      BY <1>1, <3>1, SmallestSet
  <2>2. ASSUME NEW s \in SUBSET U, s # U
        PROVE  \E g : Sums(f, s, g)
    <3>1. PICK x \in U : x \notin s
      BY <2>2
    <3>2. PICK g : Sums(f, U \ {x}, g)
      BY <2>1
    <3>3. s \subseteq U \ {x}
      BY <3>1
    <3>4. Sums(f, s, [t \in SUBSET s |-> g[t]])
      BY <3>2, <3>3, SumsRestrict
    <3> QED
      BY <3>4
  <2> DEFINE v(s) == SumFunctionOnSet(f, s)
             G    == [s \in SUBSET U |-> IF s = U THEN IF s = {} THEN 0
                                                      ELSE f[First(s)] + v(s \ {First(s)})
                                         ELSE v(s)]
  <2>3. ASSUME NEW s \in SUBSET U
        PROVE  G[s] = IF s = {} THEN 0 ELSE f[First(s)] + v(s \ {First(s)})
    <3>1. CASE s = U
      BY <3>1
    <3>2. CASE s # U
      <4>1. PICK g : Sums(f, s, g)
        BY <2>2, <3>2
      <4>2. IsFiniteSet(s)
        BY <2>1, FS_Subset
      <4>3. v(s) = g[s] /\ v(s \ {First(s)}) = g[s \ {First(s)}]
        BY <4>1, <4>2, SumsValue
      <4>4. v(s) = IF s = {} THEN 0 ELSE f[First(s)] + v(s \ {First(s)})
        BY <4>1, <4>3, SumsAt
      <4> QED
        BY <3>2, <4>4
    <3> QED
      BY <3>1, <3>2
  <2>4. ASSUME NEW s \in SUBSET U, s # {}
        PROVE  G[s \ {First(s)}] = v(s \ {First(s)})
    BY <2>4, FirstIsIn
  <2>5. G = [s \in SUBSET U |-> IF s = {} THEN 0 ELSE f[First(s)] + G[s \ {First(s)}]]
    <3> DEFINE e(s) == IF s = {} THEN 0 ELSE f[First(s)] + G[s \ {First(s)}]
    <3>1. \A s \in SUBSET U : G[s] = e(s)
      BY <2>3, <2>4
    <3>2. G = [s \in SUBSET U |-> G[s]]
      OBVIOUS
    <3> HIDE DEF G, e
    <3>3. G = [s \in SUBSET U |-> e(s)]
      BY <3>1, <3>2
    <3> QED
      BY <3>3 DEF e
  <2>6. Sums(f, U, G)
    <3> HIDE DEF G
    <3> QED
      BY <2>5 DEF Sums
  <2> QED
    BY <2>1, <2>6
<1> QED
  BY <1>1

LEMMA SumEquation ==
  ASSUME NEW f, NEW S, IsFiniteSet(S)
  PROVE  SumFunctionOnSet(f, S) =
           IF S = {} THEN 0 ELSE f[First(S)] + SumFunctionOnSet(f, S \ {First(S)})
<1>1. PICK g : Sums(f, S, g)
  BY SumsExist
<1>2. /\ SumFunctionOnSet(f, S) = g[S]
      /\ SumFunctionOnSet(f, S \ {First(S)}) = g[S \ {First(S)}]
  BY <1>1, SumsValue
<1> QED
  BY <1>1, <1>2, SumsAt

-----------------------------------------------------------------------------
(* What a sum is. *)

LEMMA SumEmpty ==
  ASSUME NEW f
  PROVE  SumFunctionOnSet(f, {}) = 0
BY SumEquation, FS_EmptySet

LEMMA SumInt ==
  ASSUME NEW f, NEW S, IsFiniteSet(S), \A x \in S : f[x] \in Int
  PROVE  SumFunctionOnSet(f, S) \in Int
<1> DEFINE B == {U \in SUBSET S : SumFunctionOnSet(f, U) \notin Int}
<1>1. ASSUME B # {} PROVE FALSE
  <2>1. PICK U \in B : IsFiniteSet(U) /\ \A x \in U : U \ {x} \notin B
    <3> HIDE DEF B
    <3>1. B \in SUBSET SUBSET S
      BY DEF B
    <3> QED
      BY <1>1, <3>1, SmallestSet
  <2>2. U # {} /\ SumFunctionOnSet(f, U \ {First(U)}) \in Int
    BY <2>1, SumEmpty, FirstIsIn
  <2> QED
    BY <2>1, <2>2, SumEquation, FirstIsIn
<1> QED
  BY <1>1

LEMMA SumNat ==
  ASSUME NEW f, NEW S, IsFiniteSet(S), \A x \in S : f[x] \in Nat
  PROVE  SumFunctionOnSet(f, S) \in Nat
<1> DEFINE B == {U \in SUBSET S : SumFunctionOnSet(f, U) \notin Nat}
<1>1. ASSUME B # {} PROVE FALSE
  <2>1. PICK U \in B : IsFiniteSet(U) /\ \A x \in U : U \ {x} \notin B
    <3> HIDE DEF B
    <3>1. B \in SUBSET SUBSET S
      BY DEF B
    <3> QED
      BY <1>1, <3>1, SmallestSet
  <2>2. U # {} /\ SumFunctionOnSet(f, U \ {First(U)}) \in Nat
    BY <2>1, SumEmpty, FirstIsIn
  <2> QED
    BY <2>1, <2>2, SumEquation, FirstIsIn
<1> QED
  BY <1>1

\* Any element can be taken out first.
LEMMA SumRemove ==
  ASSUME NEW f, NEW S, IsFiniteSet(S), \A x \in S : f[x] \in Int, NEW x \in S
  PROVE  SumFunctionOnSet(f, S) = f[x] + SumFunctionOnSet(f, S \ {x})
<1> DEFINE sum(U) == SumFunctionOnSet(f, U)
           B == {U \in SUBSET S : \E y \in U : sum(U) # f[y] + sum(U \ {y})}
<1>1. ASSUME B # {} PROVE FALSE
  <2>1. PICK U \in B : IsFiniteSet(U) /\ \A y \in U : U \ {y} \notin B
    <3> HIDE DEF B
    <3>1. B \in SUBSET SUBSET S
      BY DEF B
    <3> QED
      BY <1>1, <3>1, SmallestSet
  <2>2. PICK y \in U : sum(U) # f[y] + sum(U \ {y})
    BY <2>1
  <2> DEFINE c == First(U)
  <2>3. c \in U /\ sum(U) = f[c] + sum(U \ {c})
    BY <2>1, <2>2, SumEquation, FirstIsIn
  <2>4. c # y
    BY <2>2, <2>3
  <2> HIDE DEF c
  <2>5. sum(U \ {c}) = f[y] + sum((U \ {c}) \ {y})
    BY <2>1, <2>2, <2>3, <2>4
  <2>6. sum(U \ {y}) = f[c] + sum((U \ {y}) \ {c})
    BY <2>1, <2>2, <2>3, <2>4
  <2>7. (U \ {c}) \ {y} = (U \ {y}) \ {c}
    OBVIOUS
  <2>8. sum((U \ {y}) \ {c}) \in Int /\ f[c] \in Int /\ f[y] \in Int
    <3>1. IsFiniteSet((U \ {y}) \ {c}) /\ (U \ {y}) \ {c} \subseteq S
      BY <2>1, FS_Subset
    <3> QED
      BY <2>2, <2>3, <3>1, SumInt
  <2> DEFINE rest == sum((U \ {y}) \ {c})
  <2>9. /\ sum(U) = f[c] + (f[y] + rest) /\ sum(U \ {y}) = f[c] + rest
        /\ rest \in Int /\ f[c] \in Int /\ f[y] \in Int
    BY <2>3, <2>5, <2>6, <2>7, <2>8
  <2> HIDE DEF rest
  <2>10. sum(U) = f[y] + sum(U \ {y})
    BY <2>9
  <2> QED
    BY <2>2, <2>10
<1> QED
  BY <1>1

LEMMA SumAdd ==
  ASSUME NEW f, NEW S, IsFiniteSet(S), NEW x, x \notin S, \A y \in S \cup {x} : f[y] \in Int
  PROVE  SumFunctionOnSet(f, S \cup {x}) = SumFunctionOnSet(f, S) + f[x]
<1>1. (S \cup {x}) \ {x} = S
  OBVIOUS
<1>2. IsFiniteSet(S \cup {x})
  BY FS_AddElement
<1>3. SumFunctionOnSet(f, S \cup {x}) = f[x] + SumFunctionOnSet(f, S)
  BY <1>1, <1>2, SumRemove
<1>4. SumFunctionOnSet(f, S) \in Int
  BY SumInt
<1> QED
  BY <1>3, <1>4

LEMMA SumSingle ==
  ASSUME NEW f, NEW x, f[x] \in Int
  PROVE  SumFunctionOnSet(f, {x}) = f[x]
<1>1. {} \cup {x} = {x}
  OBVIOUS
<1> QED
  BY <1>1, SumAdd, SumEmpty, FS_EmptySet

LEMMA SumSame ==
  ASSUME NEW f, NEW g, NEW S, IsFiniteSet(S), \A x \in S : f[x] = g[x]
  PROVE  SumFunctionOnSet(f, S) = SumFunctionOnSet(g, S)
<1> DEFINE B == {U \in SUBSET S : SumFunctionOnSet(f, U) # SumFunctionOnSet(g, U)}
<1>1. ASSUME B # {} PROVE FALSE
  <2>1. PICK U \in B : IsFiniteSet(U) /\ \A x \in U : U \ {x} \notin B
    <3> HIDE DEF B
    <3>1. B \in SUBSET SUBSET S
      BY DEF B
    <3> QED
      BY <1>1, <3>1, SmallestSet
  <2>2. U # {}
    BY SumEmpty
  <2>3. SumFunctionOnSet(f, U \ {First(U)}) = SumFunctionOnSet(g, U \ {First(U)})
    BY <2>1, <2>2, FirstIsIn
  <2> QED
    BY <2>1, <2>2, <2>3, SumEquation, FirstIsIn
<1> QED
  BY <1>1

\* Of two functions that differ at one element.
LEMMA SumChange ==
  ASSUME NEW f, NEW g, NEW S, IsFiniteSet(S), NEW x \in S,
         \A y \in S : f[y] \in Int /\ g[y] \in Int,
         \A y \in S \ {x} : g[y] = f[y]
  PROVE  SumFunctionOnSet(g, S) = SumFunctionOnSet(f, S) - f[x] + g[x]
<1>1. IsFiniteSet(S \ {x})
  BY FS_Subset
<1>2. SumFunctionOnSet(f, S \ {x}) = SumFunctionOnSet(g, S \ {x})
  BY <1>1, SumSame
<1>3. SumFunctionOnSet(f, S \ {x}) \in Int
  BY <1>1, SumInt
<1>4. /\ SumFunctionOnSet(f, S) = f[x] + SumFunctionOnSet(f, S \ {x})
      /\ SumFunctionOnSet(g, S) = g[x] + SumFunctionOnSet(g, S \ {x})
  BY SumRemove
<1> QED
  BY <1>2, <1>3, <1>4

\* A sum of natural numbers is no less than any of them.
LEMMA SumAtLeast ==
  ASSUME NEW f, NEW S, IsFiniteSet(S), \A y \in S : f[y] \in Nat, NEW x \in S
  PROVE  f[x] <= SumFunctionOnSet(f, S)
<1>1. IsFiniteSet(S \ {x})
  BY FS_Subset
<1>2. SumFunctionOnSet(f, S \ {x}) \in Nat
  BY <1>1, SumNat
<1>3. SumFunctionOnSet(f, S) = f[x] + SumFunctionOnSet(f, S \ {x})
  BY SumRemove
<1> QED
  BY <1>2, <1>3

LEMMA SumZeros ==
  ASSUME NEW f, NEW S, IsFiniteSet(S), \A x \in S : f[x] = 0
  PROVE  SumFunctionOnSet(f, S) = 0
<1> DEFINE B == {U \in SUBSET S : SumFunctionOnSet(f, U) # 0}
<1>1. ASSUME B # {} PROVE FALSE
  <2>1. PICK U \in B : IsFiniteSet(U) /\ \A x \in U : U \ {x} \notin B
    <3> HIDE DEF B
    <3>1. B \in SUBSET SUBSET S
      BY DEF B
    <3> QED
      BY <1>1, <3>1, SmallestSet
  <2>2. U # {}
    BY SumEmpty
  <2>3. SumFunctionOnSet(f, U \ {First(U)}) = 0 /\ f[First(U)] = 0
    BY <2>1, <2>2, FirstIsIn
  <2> QED
    BY <2>1, <2>2, <2>3, SumEquation
<1> QED
  BY <1>1

LEMMA SumAtMost ==
  ASSUME NEW f, NEW S, IsFiniteSet(S), NEW c \in Nat, \A x \in S : f[x] \in Nat /\ f[x] <= c
  PROVE  SumFunctionOnSet(f, S) <= c * Cardinality(S)
<1> DEFINE B == {U \in SUBSET S : ~(SumFunctionOnSet(f, U) <= c * Cardinality(U))}
<1>1. ASSUME B # {} PROVE FALSE
  <2>1. PICK U \in B : IsFiniteSet(U) /\ \A x \in U : U \ {x} \notin B
    <3> HIDE DEF B
    <3>1. B \in SUBSET SUBSET S
      BY DEF B
    <3> QED
      BY <1>1, <3>1, SmallestSet
  <2>2. U # {}
    BY SumEmpty, FS_EmptySet
  <2> DEFINE x == First(U)
             n == Cardinality(U \ {x})
             r == SumFunctionOnSet(f, U \ {x})
  <2>3. x \in U
    BY <2>2, FirstIsIn
  <2> HIDE DEF x
  <2>4. n \in Nat /\ Cardinality(U) = n + 1
    <3>1. IsFiniteSet(U \ {x}) /\ Cardinality(U \ {x}) = Cardinality(U) - 1
      BY <2>1, <2>3, FS_RemoveElement
    <3> QED
      BY <2>1, <3>1, FS_CardinalityType
  <2>5. r <= c * n /\ r \in Nat
    <3>1. IsFiniteSet(U \ {x}) /\ \A y \in U \ {x} : f[y] \in Nat
      BY <2>1, FS_Subset
    <3> QED
      BY <2>1, <2>3, <3>1, SumNat
  <2>6. SumFunctionOnSet(f, U) = f[x] + r
    BY <2>1, <2>3, SumRemove
  <2>7. f[x] \in Nat /\ f[x] <= c
    BY <2>3
  <2>8. c * (n + 1) = c * n + c /\ c * n \in Nat
    BY <2>4
  <2> HIDE DEF n, r
  <2>9. f[x] + r <= c * n + c
    BY <2>5, <2>7, <2>8
  <2> QED
    BY <2>1, <2>4, <2>6, <2>8, <2>9
<1> QED
  BY <1>1

-----------------------------------------------------------------------------
(* Sums of the first elements of a sequence. *)

LEMMA SumPrefix ==
  ASSUME NEW f, NEW n \in Nat, \A i \in 1..n + 1 : f[i] \in Int
  PROVE  SumFunctionOnSet(f, 1..n + 1) = SumFunctionOnSet(f, 1..n) + f[n + 1]
<1>1. 1..n + 1 = (1..n) \cup {n + 1} /\ n + 1 \notin 1..n
  OBVIOUS
<1>2. IsFiniteSet(1..n)
  BY FS_Interval
<1>3. \A i \in (1..n) \cup {n + 1} : f[i] \in Int
  OBVIOUS
<1>4. SumFunctionOnSet(f, (1..n) \cup {n + 1}) = SumFunctionOnSet(f, 1..n) + f[n + 1]
  <2> DEFINE I == 1..n
             x == n + 1
  <2>1. IsFiniteSet(I) /\ x \notin I /\ \A i \in I \cup {x} : f[i] \in Int
    BY <1>1, <1>2, <1>3
  <2> HIDE DEF I, x
  <2>2. SumFunctionOnSet(f, I \cup {x}) = SumFunctionOnSet(f, I) + f[x]
    BY <2>1, SumAdd
  <2> QED
    BY <2>2 DEF I, x
<1> QED
  BY <1>1, <1>4

\* g is f moved by one, with a zero in front.
Shifted(N, f, g) ==
  \A i \in 1..N : /\ f[i] \in Int /\ g[i] \in Int
                  /\ g[i] = IF i = 1 THEN 0 ELSE f[i - 1]

LEMMA SumShift ==
  ASSUME NEW N \in Nat, NEW f, NEW g, Shifted(N, f, g), NEW k \in 1..N
  PROVE  SumFunctionOnSet(g, 1..k) = SumFunctionOnSet(f, 1..k - 1)
<1> USE DEF Shifted
<1> DEFINE B == {n \in 1..N : SumFunctionOnSet(g, 1..n) # SumFunctionOnSet(f, 1..n - 1)}
<1>1. ASSUME B # {} PROVE FALSE
  <2>1. PICK n \in B : \A m \in B : n <= m
    <3> HIDE DEF B
    <3>1. B \in SUBSET Nat
      BY DEF B
    <3> QED
      BY <1>1, <3>1, Smallest
  <2>2. CASE n = 1
    <3>1. 1..n = {1} /\ 1..n - 1 = {}
      BY <2>2
    <3>2. g[1] = 0
      BY <2>2
    <3> QED
      BY <2>2, <3>1, <3>2, SumSingle, SumEmpty
  <2>3. CASE n # 1
    <3> DEFINE m == n - 1
    <3>1. m \in 1..N /\ m \notin B /\ n = m + 1 /\ m - 1 \in Nat /\ m = (m - 1) + 1
      BY <2>1, <2>3
    <3> HIDE DEF m
    <3>2. SumFunctionOnSet(g, 1..m) = SumFunctionOnSet(f, 1..m - 1)
      BY <3>1
    <3>3. SumFunctionOnSet(g, 1..m + 1) = SumFunctionOnSet(g, 1..m) + g[m + 1]
      BY <2>1, <3>1, SumPrefix
    <3>4. SumFunctionOnSet(f, 1..(m - 1) + 1) = SumFunctionOnSet(f, 1..m - 1) + f[(m - 1) + 1]
      <4> DEFINE l == m - 1
      <4>1. l \in Nat /\ \A i \in 1..l + 1 : f[i] \in Int
        BY <2>1, <3>1
      <4> HIDE DEF l
      <4>2. SumFunctionOnSet(f, 1..l + 1) = SumFunctionOnSet(f, 1..l) + f[l + 1]
        BY <4>1, SumPrefix
      <4> QED
        BY <4>2 DEF l
    <3>5. g[n] = f[m]
      BY <2>1, <2>3, <3>1
    <3>6. SumFunctionOnSet(g, 1..n) # SumFunctionOnSet(f, 1..m)
      BY <2>1, <3>1
    <3> QED
      BY <3>1, <3>2, <3>3, <3>4, <3>5, <3>6
  <2> QED
    BY <2>2, <2>3
<1> QED
  BY <1>1

=============================================================================
