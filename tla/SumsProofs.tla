----------------------------- MODULE SumsProofs -----------------------------
(***************************************************************************)
(* What sums of integers over finite sets obey.                            *)
(*                                                                         *)
(* The sum is a fold, a function on the subsets of the domain that is      *)
(* defined by recursion.  That the function exists is an induction on the  *)
(* size of the subsets, and that the order of summing does not matter is   *)
(* another; both inductions are about a set of numbers.                    *)
(***************************************************************************)
EXTENDS Sums, FiniteSetTheorems, WellFoundedInduction, TLAPS

-----------------------------------------------------------------------------
(* Induction.                                                              *)

LEMMA AllNumbers ==
  ASSUME NEW T \in SUBSET Nat, 0 \in T, \A n \in T : n + 1 \in T
  PROVE  T = Nat
<1> DEFINE R == OpToRel(<, Nat)
<1>1. IsWellFoundedOn(R, Nat)
  BY NatLessThanWellFounded
<1>2. \A i, j \in Nat : <<i, j>> \in R <=> i < j
  BY DEF OpToRel
<1> HIDE DEF R
<1> SUFFICES ASSUME Nat \ T # {} PROVE FALSE
  OBVIOUS
<1>3. Nat \ T \subseteq Nat
  OBVIOUS
<1>4. PICK n \in Nat \ T : \A j \in Nat \ T : ~ (<<j, n>> \in R)
  BY <1>1, <1>3, WFMin
<1>5. n # 0 /\ n - 1 \in Nat /\ n - 1 < n
  OBVIOUS
<1>6. n - 1 \in T
  BY <1>2, <1>4, <1>5
<1>7. (n - 1) + 1 \in T
  BY <1>6
<1> QED
  BY <1>7

\* A set of subsets that has the empty one and grows by any element.
LEMMA AllSubsets ==
  ASSUME NEW S, IsFiniteSet(S), NEW T \in SUBSET SUBSET S, {} \in T,
         \A s \in T : \A x \in S \ s : s \cup {x} \in T
  PROVE  S \in T
<1> DEFINE Of(n) == {s \in SUBSET S : Cardinality(s) = n}
           N == {n \in Nat : Of(n) \subseteq T}
<1>1. \A s \in SUBSET S : IsFiniteSet(s) /\ Cardinality(s) \in Nat
  BY FS_Subset, FS_CardinalityType
<1>2. 0 \in N
  <2>1. \A s \in Of(0) : s = {}
    BY <1>1, FS_EmptySet
  <2> QED  BY <2>1
<1>3. ASSUME NEW n \in N PROVE n + 1 \in N
  <2> SUFFICES ASSUME NEW s \in Of(n + 1) PROVE s \in T
    BY <1>3
  <2>1. s \in SUBSET S /\ Cardinality(s) = n + 1 /\ n \in Nat /\ IsFiniteSet(s)
    BY <1>1
  <2>2. s # {}
    BY <2>1, FS_EmptySet
  <2>3. PICK x \in s : TRUE
    BY <2>2
  <2>4. Cardinality(s \ {x}) = n
    <3>1. Cardinality(s \ {x}) = Cardinality(s) - 1
      BY <2>1, <2>3, FS_RemoveElement
    <3> QED  BY <2>1, <3>1
  <2>5. s \ {x} \in T /\ x \in S \ (s \ {x})
    BY <2>1, <2>3, <2>4
  <2>6. (s \ {x}) \cup {x} = s
    BY <2>3
  <2> QED
    BY <2>5, <2>6
<1> HIDE DEF N
<1>4. N = Nat
  BY <1>2, <1>3, AllNumbers DEF N
<1> QED
  BY <1>1, <1>4 DEF N

-----------------------------------------------------------------------------
(* The fold.                                                               *)

Some(s) == CHOOSE x \in s : TRUE

\* What SumOf recurses on: the sum over a subset.
IsFold(F, it) ==
  it = [s \in SUBSET DOMAIN F |->
          IF s = {} THEN 0
          ELSE LET x == CHOOSE x \in s : TRUE IN F[x] + it[s \ {x}]]

\* One step of it, at every subset of up to n elements.
Folds(F, it, n) ==
  \A s \in SUBSET DOMAIN F : Cardinality(s) <= n =>
    it[s] = IF s = {} THEN 0 ELSE F[Some(s)] + it[s \ {Some(s)}]

LEMMA SubsetFinite ==
  ASSUME NEW S, IsFiniteSet(S), NEW s \in SUBSET S
  PROVE  /\ IsFiniteSet(s) /\ Cardinality(s) \in Nat
         /\ Cardinality(s) = 0 <=> s = {}
         /\ Cardinality(s) <= Cardinality(S)
         /\ \A x \in s : s \ {x} \in SUBSET S /\ Cardinality(s \ {x}) = Cardinality(s) - 1
<1>1. IsFiniteSet(s) /\ Cardinality(s) <= Cardinality(S)
  BY FS_Subset
<1>2. Cardinality(s) \in Nat /\ (Cardinality(s) = 0 <=> s = {})
  BY <1>1, FS_CardinalityType, FS_EmptySet
<1>3. \A x \in s : Cardinality(s \ {x}) = Cardinality(s) - 1
  BY <1>1, FS_RemoveElement
<1> QED
  BY <1>1, <1>2, <1>3

LEMMA FoldExists ==
  ASSUME NEW S, IsFiniteSet(S), NEW F \in [S -> Int]
  PROVE  \E it \in [SUBSET S -> Int] : IsFold(F, it)
<1> DEFINE N == {n \in Nat : \E it \in [SUBSET S -> Int] : Folds(F, it, n)}
<1>1. 0 \in N
  <2> DEFINE it == [s \in SUBSET S |-> 0]
  <2>1. Folds(F, it, 0)
    BY SubsetFinite DEF Folds
  <2>2. it \in [SUBSET S -> Int]
    OBVIOUS
  <2> HIDE DEF it
  <2> QED  BY <2>1, <2>2
<1>2. ASSUME NEW n \in N PROVE n + 1 \in N
  <2>1. PICK old \in [SUBSET S -> Int] : Folds(F, old, n)
    BY <1>2
  <2> DEFINE new == [s \in SUBSET S |->
                       IF s = {} THEN 0 ELSE F[Some(s)] + old[s \ {Some(s)}]]
  <2>2. \A s \in SUBSET S : s # {} => Some(s) \in s
    BY DEF Some
  <2>3. new \in [SUBSET S -> Int]
    BY <2>2
  <2>4. ASSUME NEW s \in SUBSET S, Cardinality(s) <= n PROVE new[s] = old[s]
    BY <2>1, <2>4 DEF Folds
  <2>5. ASSUME NEW s \in SUBSET S, Cardinality(s) <= n + 1, s # {}
        PROVE  new[s \ {Some(s)}] = old[s \ {Some(s)}]
    <3>1. Some(s) \in s
      BY <2>2, <2>5
    <3>2. /\ s \ {Some(s)} \in SUBSET S
          /\ Cardinality(s \ {Some(s)}) = Cardinality(s) - 1
          /\ Cardinality(s) \in Nat
      BY <3>1, SubsetFinite
    <3>3. n \in Nat
      OBVIOUS
    <3>4. Cardinality(s \ {Some(s)}) <= n
      BY <2>5, <3>2, <3>3
    <3> HIDE DEF new
    <3> QED  BY <2>4, <3>2, <3>4
  <2>6. DOMAIN F = S
    OBVIOUS
  <2>7. \A s \in SUBSET S :
          new[s] = IF s = {} THEN 0 ELSE F[Some(s)] + old[s \ {Some(s)}]
    OBVIOUS
  <2> HIDE DEF new
  <2>8. Folds(F, new, n + 1)
    BY <2>5, <2>6, <2>7 DEF Folds
  <2> QED
    BY <2>3, <2>8
<1> HIDE DEF N
<1>3. N = Nat
  BY <1>1, <1>2, AllNumbers DEF N
<1>4. PICK it \in [SUBSET S -> Int] : Folds(F, it, Cardinality(S))
  BY <1>3, FS_CardinalityType DEF N
<1>5. it = [s \in SUBSET S |-> IF s = {} THEN 0 ELSE F[Some(s)] + it[s \ {Some(s)}]]
  BY <1>4, SubsetFinite DEF Folds
<1> QED
  BY <1>5 DEF IsFold, Some

LEMMA SumFold ==
  ASSUME NEW S, IsFiniteSet(S), NEW F \in [S -> Int]
  PROVE  \E it : IsFold(F, it) /\ SumOf(F) = it[S]
<1> DEFINE it == CHOOSE it : IsFold(F, it)
<1>1. IsFold(F, it)
  BY FoldExists
<1>2. SumOf(F) = LET g == CHOOSE g : g = [s \in SUBSET DOMAIN F |->
                       IF s = {} THEN 0
                       ELSE LET x == CHOOSE x \in s : TRUE IN F[x] + g[s \ {x}]]
                 IN  g[DOMAIN F]
  BY DEF SumOf, FoldFunction, FoldFunctionOnSet, MapThenFoldSet
<1>3. SumOf(F) = it[DOMAIN F]
  BY <1>2 DEF IsFold
<1> QED
  BY <1>1, <1>3

\* A fold at a subset, whatever function it folds further out.
LEMMA FoldStep ==
  ASSUME NEW S, NEW F \in [S -> Int], NEW it, IsFold(F, it)
  PROVE  /\ it[{}] = 0
         /\ \A s \in SUBSET S : s # {} =>
              Some(s) \in s /\ it[s] = F[Some(s)] + it[s \ {Some(s)}]
<1>1. DOMAIN F = S
  OBVIOUS
<1>2. \A s \in SUBSET S :
        it[s] = IF s = {} THEN 0 ELSE F[Some(s)] + it[s \ {Some(s)}]
  BY <1>1 DEF IsFold, Some
<1>3. \A s \in SUBSET S : s # {} => Some(s) \in s
  BY DEF Some
<1> QED
  BY <1>2, <1>3

LEMMA FoldIsSum ==
  ASSUME NEW S, IsFiniteSet(S), NEW F \in [S -> Int], NEW it, IsFold(F, it),
         NEW s \in SUBSET S
  PROVE  it[s] \in Int /\ it[s] = SumOf([x \in s |-> F[x]])
<1> DEFINE G == [x \in s |-> F[x]]
           Below(n) == {u \in SUBSET s : Cardinality(u) = n}
<1>1. IsFiniteSet(s) /\ G \in [s -> Int]
  BY FS_Subset
<1>2. PICK jt : IsFold(G, jt) /\ SumOf(G) = jt[s]
  BY <1>1, SumFold
<1> DEFINE N == {n \in Nat : \A u \in Below(n) : it[u] \in Int /\ it[u] = jt[u]}
<1>3. 0 \in N
  <2>1. \A u \in Below(0) : u = {}
    BY <1>1, SubsetFinite
  <2>2. it[{}] = 0 /\ jt[{}] = 0
    BY <1>1, <1>2, FoldStep
  <2> QED  BY <2>1, <2>2
<1>4. ASSUME NEW n \in N PROVE n + 1 \in N
  <2> SUFFICES ASSUME NEW u \in Below(n + 1) PROVE it[u] \in Int /\ it[u] = jt[u]
    BY <1>4
  <2>1. n \in Nat /\ u \in SUBSET s /\ u \in SUBSET S /\ Cardinality(u) = n + 1
    OBVIOUS
  <2>2. u # {}
    BY <1>1, <2>1, SubsetFinite
  <2> DEFINE x == Some(u)
  <2>3. /\ x \in u /\ it[u] = F[x] + it[u \ {x}]
    BY <2>1, <2>2, FoldStep
  <2>4. jt[u] = G[x] + jt[u \ {x}]
    BY <1>1, <1>2, <2>1, <2>2, FoldStep
  <2>5. u \ {x} \in SUBSET s /\ Cardinality(u \ {x}) = Cardinality(u) - 1
    BY <1>1, <2>1, <2>3, SubsetFinite
  <2>6. Cardinality(u \ {x}) = n
    BY <2>1, <2>5
  <2>7. it[u \ {x}] \in Int /\ it[u \ {x}] = jt[u \ {x}]
    BY <1>4, <2>5, <2>6
  <2>8. F[x] \in Int /\ G[x] = F[x]
    BY <2>1, <2>3
  <2> QED
    BY <2>3, <2>4, <2>7, <2>8
<1> HIDE DEF N
<1>5. N = Nat
  BY <1>3, <1>4, AllNumbers DEF N
<1>6. Cardinality(s) \in Nat /\ s \in Below(Cardinality(s))
  BY <1>1, FS_CardinalityType
<1> QED
  BY <1>2, <1>5, <1>6 DEF N

-----------------------------------------------------------------------------
(* Sums.                                                                   *)

LEMMA SumEmpty ==
  ASSUME NEW F, DOMAIN F = {}
  PROVE  SumOf(F) = 0
<1>1. F \in [{} -> Int] /\ IsFiniteSet({})
  BY FS_EmptySet
<1>2. PICK it : IsFold(F, it) /\ SumOf(F) = it[{}]
  BY <1>1, SumFold
<1> QED
  BY <1>1, <1>2, FoldStep

LEMMA SumType ==
  ASSUME NEW S, IsFiniteSet(S), NEW F \in [S -> Int]
  PROVE  SumOf(F) \in Int
<1>1. PICK it : IsFold(F, it) /\ SumOf(F) = it[S]
  BY SumFold
<1> QED
  BY <1>1, FoldIsSum

LEMMA SumSome ==
  ASSUME NEW S, IsFiniteSet(S), NEW F \in [S -> Int], S # {}
  PROVE  SumOf(F) = F[Some(S)] + SumOf([y \in S \ {Some(S)} |-> F[y]])
<1>1. PICK it : IsFold(F, it) /\ SumOf(F) = it[S]
  BY SumFold
<1>2. Some(S) \in S /\ it[S] = F[Some(S)] + it[S \ {Some(S)}]
  <2>1. \A s \in SUBSET S : s # {} =>
          Some(s) \in s /\ it[s] = F[Some(s)] + it[s \ {Some(s)}]
    BY <1>1, FoldStep
  <2>2. S \in SUBSET S
    OBVIOUS
  <2> QED  BY <2>1, <2>2
<1>3. it[S \ {Some(S)}] = SumOf([y \in S \ {Some(S)} |-> F[y]])
  BY <1>1, FoldIsSum
<1> QED
  BY <1>1, <1>2, <1>3

\* The order does not matter: any element may be taken off first.
LEMMA SumRemove ==
  ASSUME NEW S, IsFiniteSet(S), NEW F \in [S -> Int], NEW x \in S
  PROVE  SumOf(F) = F[x] + SumOf([y \in S \ {x} |-> F[y]])
<1> DEFINE On(s) == [y \in s |-> F[y]]
           Off(s) == \A z \in s : SumOf(On(s)) = F[z] + SumOf(On(s \ {z}))
           Below(n) == {s \in SUBSET S : Cardinality(s) = n}
           N == {n \in Nat : \A s \in Below(n) : Off(s)}
<1>0. \A s \in SUBSET S : On(s) \in [s -> Int] /\ SumOf(On(s)) \in Int
  <2> SUFFICES ASSUME NEW s \in SUBSET S
               PROVE  On(s) \in [s -> Int] /\ SumOf(On(s)) \in Int
    OBVIOUS
  <2>1. On(s) \in [s -> Int] /\ IsFiniteSet(s)
    BY SubsetFinite
  <2> QED  BY <2>1, SumType
<1>1. 0 \in N
  BY SubsetFinite
<1>2. ASSUME NEW n \in N PROVE n + 1 \in N
  <2> SUFFICES ASSUME NEW s \in Below(n + 1), NEW z \in s
               PROVE  SumOf(On(s)) = F[z] + SumOf(On(s \ {z}))
    BY <1>2
  <2>1. n \in Nat /\ s \in SUBSET S /\ Cardinality(s) = n + 1 /\ IsFiniteSet(s)
    BY SubsetFinite
  <2> DEFINE a == Some(s)
  <2>2. a \in s
    BY DEF Some
  <2>3. SumOf(On(s)) = F[a] + SumOf(On(s \ {a}))
    <3>1. On(s) \in [s -> Int] /\ s # {}
      BY <2>1
    <3>2. SumOf(On(s)) = On(s)[a] + SumOf([y \in s \ {a} |-> On(s)[y]])
      BY <2>1, <3>1, SumSome
    <3>3. On(s)[a] = F[a] /\ [y \in s \ {a} |-> On(s)[y]] = On(s \ {a})
      BY <2>2
    <3> QED  BY <3>2, <3>3
  <2>4. CASE z = a
    BY <2>3, <2>4
  <2>5. CASE z # a
    <3>1. s \ {a} \in Below(n) /\ s \ {z} \in Below(n)
      <4>1. /\ Cardinality(s \ {a}) = Cardinality(s) - 1
            /\ Cardinality(s \ {z}) = Cardinality(s) - 1
        BY <2>1, <2>2, SubsetFinite
      <4> QED  BY <2>1, <4>1
    <3>2. Off(s \ {a}) /\ Off(s \ {z})
      BY <1>2, <3>1
    <3>3. (s \ {a}) \ {z} = (s \ {z}) \ {a}
      OBVIOUS
    <3> DEFINE t == (s \ {a}) \ {z}
    <3>4. /\ SumOf(On(s \ {a})) = F[z] + SumOf(On(t))
          /\ SumOf(On(s \ {z})) = F[a] + SumOf(On(t))
      BY <2>2, <2>5, <3>2, <3>3
    <3>5. F[a] \in Int /\ F[z] \in Int /\ SumOf(On(t)) \in Int
      BY <1>0, <2>1, <2>2
    <3> HIDE DEF On, a, t
    <3> QED
      BY <2>3, <3>4, <3>5
  <2> QED
    BY <2>4, <2>5
<1> HIDE DEF N
<1>3. N = Nat
  BY <1>1, <1>2, AllNumbers DEF N
<1>4. Cardinality(S) \in Nat /\ S \in Below(Cardinality(S))
  BY FS_CardinalityType
<1>5. Off(S)
  BY <1>3, <1>4 DEF N
<1>6. On(S) = F
  OBVIOUS
<1> QED
  BY <1>5, <1>6

\* The terms of a subset.
Part(F, s) == SumOf([y \in s |-> F[y]])

LEMMA PartAll ==
  ASSUME NEW S, NEW F \in [S -> Int]
  PROVE  Part(F, {}) = 0 /\ Part(F, S) = SumOf(F)
<1>1. DOMAIN [y \in {} |-> F[y]] = {} /\ [y \in S |-> F[y]] = F
  OBVIOUS
<1> QED
  BY <1>1, SumEmpty DEF Part

LEMMA PartAdd ==
  \A S, F, s, x :
    IsFiniteSet(S) /\ F \in [S -> Int] /\ s \subseteq S /\ x \in S /\ x \notin s =>
      /\ Part(F, s) \in Int
      /\ Part(F, s \cup {x}) = F[x] + Part(F, s)
<1> TAKE S, F, s, x
<1> HAVE /\ IsFiniteSet(S) /\ F \in [S -> Int] /\ s \subseteq S
         /\ x \in S /\ x \notin s
<1> DEFINE u == s \cup {x}
           G == [y \in u |-> F[y]]
<1>1. /\ IsFiniteSet(u) /\ G \in [u -> Int] /\ x \in u
      /\ IsFiniteSet(s) /\ [y \in s |-> F[y]] \in [s -> Int]
  <2>1. u \in SUBSET S
    OBVIOUS
  <2> QED  BY <2>1, SubsetFinite
<1>2. SumOf(G) = G[x] + SumOf([y \in u \ {x} |-> G[y]])
  <2> HIDE DEF G, u
  <2> QED  BY <1>1, SumRemove
<1>3. G[x] = F[x] /\ [y \in u \ {x} |-> G[y]] = [y \in s |-> F[y]]
  <2>1. u \ {x} = s
    OBVIOUS
  <2> QED  BY <2>1
<1> QED
  BY <1>1, <1>2, <1>3, SumType DEF Part

\* The sum when one term changes.
LEMMA SumUpdate ==
  ASSUME NEW S, IsFiniteSet(S), NEW F \in [S -> Int], NEW x \in S, NEW v \in Int
  PROVE  SumOf([F EXCEPT ![x] = v]) = SumOf(F) + (v - F[x])
<1> DEFINE G == [F EXCEPT ![x] = v]
           R == [y \in S \ {x} |-> F[y]]
<1>1. G \in [S -> Int] /\ G[x] = v
  OBVIOUS
<1>2. R = [y \in S \ {x} |-> G[y]]
  OBVIOUS
<1>3. R \in [S \ {x} -> Int] /\ IsFiniteSet(S \ {x})
  BY FS_Subset
<1>4. SumOf(G) = v + SumOf(R) /\ SumOf(F) = F[x] + SumOf(R)
  <2>1. SumOf(G) = G[x] + SumOf([y \in S \ {x} |-> G[y]])
    BY <1>1, SumRemove
  <2>2. SumOf(F) = F[x] + SumOf([y \in S \ {x} |-> F[y]])
    BY SumRemove
  <2> QED  BY <1>1, <1>2, <2>1, <2>2
<1>5. SumOf(R) \in Int /\ F[x] \in Int
  BY <1>3, SumType
<1> HIDE DEF R
<1> QED
  BY <1>4, <1>5

LEMMA SumZero ==
  ASSUME NEW S, IsFiniteSet(S), NEW F \in [S -> Int], \A x \in S : F[x] = 0
  PROVE  SumOf(F) = 0
<1> DEFINE T == {s \in SUBSET S : Part(F, s) = 0}
<1>1. {} \in T
  BY PartAll
<1>2. ASSUME NEW s \in T, NEW x \in S \ s PROVE s \cup {x} \in T
  BY PartAdd
<1> HIDE DEF T
<1>3. S \in T
  <2>1. T \in SUBSET SUBSET S
    BY DEF T
  <2> QED  BY <1>1, <1>2, <2>1, AllSubsets
<1> QED
  BY <1>3, PartAll DEF T

\* Sums compare as their terms do.
LEMMA SumMonotone ==
  ASSUME NEW S, IsFiniteSet(S), NEW P \in [S -> Int], NEW Q \in [S -> Int],
         \A x \in S : P[x] <= Q[x]
  PROVE  SumOf(P) <= SumOf(Q)
<1> DEFINE T == {s \in SUBSET S : Part(P, s) <= Part(Q, s)}
<1>1. {} \in T
  BY PartAll
<1>2. ASSUME NEW s \in T, NEW x \in S \ s PROVE s \cup {x} \in T
  <2>0. s \in SUBSET S /\ x \in S \ s /\ P \in [S -> Int] /\ Q \in [S -> Int]
    OBVIOUS
  <2>1. s \cup {x} \in SUBSET S /\ Part(P, s) <= Part(Q, s)
    OBVIOUS
  <2>2. Part(P, s) \in Int /\ Part(P, s \cup {x}) = P[x] + Part(P, s)
    BY <2>0, PartAdd
  <2>3. Part(Q, s) \in Int /\ Part(Q, s \cup {x}) = Q[x] + Part(Q, s)
    BY <2>0, PartAdd
  <2>4. P[x] \in Int /\ Q[x] \in Int /\ P[x] <= Q[x]
    OBVIOUS
  <2> QED  BY <2>0, <2>1, <2>2, <2>3, <2>4
<1> HIDE DEF T
<1>3. S \in T
  <2>1. T \in SUBSET SUBSET S
    BY DEF T
  <2> QED  BY <1>1, <1>2, <2>1, AllSubsets
<1> QED
  BY <1>3, PartAll DEF T

\* A combination of two functions.
Combines(H, p, F, q, G) == \A x \in DOMAIN H : H[x] = p * F[x] + q * G[x]

LEMMA SumLinear ==
  ASSUME NEW S, IsFiniteSet(S), NEW F \in [S -> Int], NEW G \in [S -> Int],
         NEW H \in [S -> Int], NEW p \in Int, NEW q \in Int
  PROVE  Combines(H, p, F, q, G) => SumOf(H) = p * SumOf(F) + q * SumOf(G)
<1>0. ASSUME NEW s \in SUBSET S, NEW x \in S \ s
      PROVE  /\ Part(F, s) \in Int /\ Part(F, s \cup {x}) = F[x] + Part(F, s)
             /\ Part(G, s) \in Int /\ Part(G, s \cup {x}) = G[x] + Part(G, s)
             /\ Part(H, s) \in Int /\ Part(H, s \cup {x}) = H[x] + Part(H, s)
  BY PartAdd
<1> HAVE Combines(H, p, F, q, G)
<1>c. \A x \in S : H[x] = p * F[x] + q * G[x]
  BY DEF Combines
<1> DEFINE T == {s \in SUBSET S : Part(H, s) = p * Part(F, s) + q * Part(G, s)}
<1>1. {} \in T
  <2>1. Part(F, {}) = 0 /\ Part(G, {}) = 0 /\ Part(H, {}) = 0
    BY PartAll
  <2> QED  BY <2>1
<1>2. ASSUME NEW s \in T, NEW x \in S \ s PROVE s \cup {x} \in T
  <2>0. /\ s \in SUBSET S /\ x \in S \ s
        /\ F \in [S -> Int] /\ G \in [S -> Int] /\ H \in [S -> Int]
    OBVIOUS
  <2>1. s \cup {x} \in SUBSET S /\ Part(H, s) = p * Part(F, s) + q * Part(G, s)
    OBVIOUS
  <2>2. Part(F, s) \in Int /\ Part(F, s \cup {x}) = F[x] + Part(F, s)
    BY <1>0, <2>0
  <2>3. Part(G, s) \in Int /\ Part(G, s \cup {x}) = G[x] + Part(G, s)
    BY <1>0, <2>0
  <2>4. Part(H, s) \in Int /\ Part(H, s \cup {x}) = H[x] + Part(H, s)
    BY <1>0, <2>0
  <2>5. /\ F[x] \in Int /\ G[x] \in Int /\ H[x] \in Int
        /\ H[x] = p * F[x] + q * G[x]
    BY <1>c
  <2>6. /\ p * (F[x] + Part(F, s)) = p * F[x] + p * Part(F, s)
        /\ q * (G[x] + Part(G, s)) = q * G[x] + q * Part(G, s)
    BY <2>2, <2>3, <2>5
  <2>7. {p * F[x], p * Part(F, s), q * G[x], q * Part(G, s)} \subseteq Int
    BY <2>2, <2>3, <2>5
  <2>8. Part(H, s \cup {x}) = p * Part(F, s \cup {x}) + q * Part(G, s \cup {x})
    BY <2>1, <2>2, <2>3, <2>4, <2>5, <2>6, <2>7
  <2> QED  BY <2>1, <2>8
<1> HIDE DEF T
<1>3. S \in T
  <2>1. T \in SUBSET SUBSET S
    BY DEF T
  <2> QED  BY <1>1, <1>2, <2>1, AllSubsets
<1> QED
  BY <1>3, PartAll DEF T

\* A sum of naturals is one, and no less than each.
LEMMA SumNat ==
  ASSUME NEW S, IsFiniteSet(S), NEW F \in [S -> Nat]
  PROVE  SumOf(F) \in Nat /\ \A x \in S : F[x] <= SumOf(F)
<1>1. ASSUME NEW R, IsFiniteSet(R), NEW G \in [R -> Nat] PROVE SumOf(G) \in Nat
  <2> DEFINE Z == [x \in R |-> 0]
  <2>1. Z \in [R -> Int] /\ G \in [R -> Int] /\ \A x \in R : Z[x] = 0 /\ Z[x] <= G[x]
    OBVIOUS
  <2> HIDE DEF Z
  <2>2. SumOf(Z) = 0 /\ SumOf(Z) <= SumOf(G) /\ SumOf(G) \in Int
    BY <1>1, <2>1, SumZero, SumMonotone, SumType
  <2> QED  BY <2>2
<1>2. ASSUME NEW x \in S PROVE F[x] <= SumOf(F)
  <2> DEFINE G == [y \in S \ {x} |-> F[y]]
  <2>1. IsFiniteSet(S \ {x}) /\ G \in [S \ {x} -> Nat] /\ F \in [S -> Int]
    BY FS_Subset
  <2>2. SumOf(F) = F[x] + SumOf(G)
    BY <2>1, SumRemove
  <2>3. SumOf(G) \in Nat
    <3> HIDE DEF G
    <3> QED  BY <1>1, <2>1
  <2>4. F[x] \in Nat
    OBVIOUS
  <2> HIDE DEF G
  <2> QED  BY <2>2, <2>3, <2>4
<1> QED
  BY <1>1, <1>2

-----------------------------------------------------------------------------
(* Sums of the first n.                                                    *)

SumUpTo(F, n) == SumOf([i \in 1..n |-> F[i]])

LEMMA UpToNone == \A F : SumUpTo(F, 0) = 0
<1> TAKE F
<1>1. DOMAIN [i \in 1..0 |-> F[i]] = {}
  OBVIOUS
<1> QED
  BY <1>1, SumEmpty DEF SumUpTo

LEMMA UpToType ==
  ASSUME NEW n \in Nat, NEW F, \A i \in 1..n : F[i] \in Int
  PROVE  SumUpTo(F, n) \in Int
<1>1. IsFiniteSet(1..n) /\ [i \in 1..n |-> F[i]] \in [1..n -> Int]
  BY FS_Interval
<1> QED
  BY <1>1, SumType DEF SumUpTo

LEMMA UpToNext ==
  ASSUME NEW n \in Nat, NEW F, \A i \in 1..(n + 1) : F[i] \in Int
  PROVE  SumUpTo(F, n + 1) = SumUpTo(F, n) + F[n + 1]
<1> DEFINE S == 1..(n + 1)
           G == [i \in S |-> F[i]]
<1>1. IsFiniteSet(S) /\ G \in [S -> Int] /\ n + 1 \in S
  BY FS_Interval
<1>2. S \ {n + 1} = 1..n
  OBVIOUS
<1>3. SumOf(G) = G[n + 1] + SumOf([y \in S \ {n + 1} |-> G[y]])
  <2> HIDE DEF S, G
  <2> QED  BY <1>1, SumRemove
<1>4. [y \in S \ {n + 1} |-> G[y]] = [i \in 1..n |-> F[i]] /\ G[n + 1] = F[n + 1]
  BY <1>1, <1>2
<1>5. SumUpTo(F, n + 1) = F[n + 1] + SumUpTo(F, n)
  BY <1>3, <1>4 DEF SumUpTo
<1>6. SumUpTo(F, n) \in Int /\ F[n + 1] \in Int
  BY UpToType
<1> QED
  BY <1>5, <1>6

\* Only the terms count.
LEMMA UpToSame ==
  ASSUME NEW n \in Nat, NEW F, NEW G, \A i \in 1..n : F[i] = G[i]
  PROVE  SumUpTo(F, n) = SumUpTo(G, n)
<1>1. [i \in 1..n |-> F[i]] = [i \in 1..n |-> G[i]]
  OBVIOUS
<1> QED
  BY <1>1 DEF SumUpTo

\* The first a + n are the first a and the n after them.
Continues(G, F, a, b) ==
  /\ \A i \in 1..(a + b) : F[i] \in Int
  /\ \A k \in 1..b : G[k] = F[a + k]

LEMMA UpToShift ==
  ASSUME NEW a \in Nat, NEW b \in Nat, NEW F, NEW G, Continues(G, F, a, b)
  PROVE  \A n \in 0..b : SumUpTo(F, a + n) = SumUpTo(F, a) + SumUpTo(G, n)
<1>0. /\ \A i \in 1..(a + b) : F[i] \in Int
      /\ \A k \in 1..b : G[k] = F[a + k]
  BY DEF Continues
<1> DEFINE N == {n \in Nat : n <= b => SumUpTo(F, a + n) = SumUpTo(F, a) + SumUpTo(G, n)}
<1>1. \A k \in 1..b : G[k] \in Int
  <2> TAKE k \in 1..b
  <2>1. a + k \in 1..(a + b)
    OBVIOUS
  <2> QED  BY <1>0, <2>1
<1>2. SumUpTo(F, a) \in Int
  <2>1. \A i \in 1..a : i \in 1..(a + b)
    OBVIOUS
  <2> QED  BY <1>0, <2>1, UpToType
<1>3. 0 \in N
  <2>1. SumUpTo(G, 0) = 0 /\ a + 0 = a
    BY UpToNone
  <2> QED  BY <1>2, <2>1
<1>4. ASSUME NEW n \in N PROVE n + 1 \in N
  <2> SUFFICES ASSUME n + 1 <= b
               PROVE  SumUpTo(F, a + (n + 1)) = SumUpTo(F, a) + SumUpTo(G, n + 1)
    OBVIOUS
  <2>1. n \in Nat /\ n <= b /\ n + 1 \in 1..b /\ a + n \in Nat
        /\ a + (n + 1) = (a + n) + 1 /\ (a + n) + 1 \in 1..(a + b)
    OBVIOUS
  <2>2. \A i \in 1..((a + n) + 1) : F[i] \in Int
    BY <1>0, <2>1
  <2>3. \A i \in 1..(n + 1) : G[i] \in Int
    BY <1>1, <2>1
  <2>4. SumUpTo(F, (a + n) + 1) = SumUpTo(F, a + n) + F[(a + n) + 1]
    BY <2>1, <2>2, UpToNext
  <2>5. SumUpTo(G, n + 1) = SumUpTo(G, n) + G[n + 1]
    BY <2>1, <2>3, UpToNext
  <2>6. SumUpTo(G, n) \in Int
    <3>1. \A i \in 1..n : G[i] \in Int
      BY <2>1, <2>3
    <3> QED  BY <2>1, <3>1, UpToType
  <2>7. G[n + 1] = F[(a + n) + 1] /\ G[n + 1] \in Int
    BY <1>0, <1>1, <2>1
  <2>8. SumUpTo(F, a + n) = SumUpTo(F, a) + SumUpTo(G, n)
    BY <2>1
  <2> QED
    BY <1>2, <2>1, <2>4, <2>5, <2>6, <2>7, <2>8
<1> HIDE DEF N
<1>5. N = Nat
  BY <1>3, <1>4, AllNumbers DEF N
<1> QED
  BY <1>5 DEF N

\* A bound on each term is one on the sum.
Bounded(b, p, F, q, G, c) ==
  \A i \in 1..b : F[i] \in Int /\ G[i] \in Int /\ p * F[i] <= q * G[i] + c

LEMMA UpToBound ==
  ASSUME NEW b \in Nat, NEW F, NEW G, NEW p \in Int, NEW q \in Int, NEW c \in Int,
         Bounded(b, p, F, q, G, c)
  PROVE  \A n \in 0..b : p * SumUpTo(F, n) <= q * SumUpTo(G, n) + n * c
<1>0. \A i \in 1..b : F[i] \in Int /\ G[i] \in Int /\ p * F[i] <= q * G[i] + c
  BY DEF Bounded
<1> DEFINE N == {n \in Nat : n <= b => p * SumUpTo(F, n) <= q * SumUpTo(G, n) + n * c}
<1>1. 0 \in N
  BY UpToNone
<1>2. ASSUME NEW n \in N PROVE n + 1 \in N
  <2> SUFFICES ASSUME n + 1 <= b
               PROVE  p * SumUpTo(F, n + 1) <= q * SumUpTo(G, n + 1) + (n + 1) * c
    OBVIOUS
  <2>1. n \in Nat /\ n <= b /\ n + 1 \in 1..b
    OBVIOUS
  <2>2. \A i \in 1..(n + 1) : F[i] \in Int /\ G[i] \in Int
    BY <1>0, <2>1
  <2> DEFINE f == SumUpTo(F, n)
             g == SumUpTo(G, n)
  <2>3. SumUpTo(F, n + 1) = f + F[n + 1] /\ SumUpTo(G, n + 1) = g + G[n + 1]
    BY <2>1, <2>2, UpToNext
  <2>4. f \in Int /\ g \in Int
    <3>1. \A i \in 1..n : F[i] \in Int /\ G[i] \in Int
      BY <2>1, <2>2
    <3> QED  BY <2>1, <3>1, UpToType
  <2>5. p * f <= q * g + n * c
    BY <2>1
  <2>6. p * F[n + 1] <= q * G[n + 1] + c /\ F[n + 1] \in Int /\ G[n + 1] \in Int
    BY <1>0, <2>1
  <2> HIDE DEF f, g
  <2>7. /\ p * (f + F[n + 1]) = p * f + p * F[n + 1]
        /\ q * (g + G[n + 1]) = q * g + q * G[n + 1]
        /\ (n + 1) * c = n * c + c
    BY <2>1, <2>4, <2>6
  <2>8. {p * f, p * F[n + 1], q * g, q * G[n + 1], n * c} \subseteq Int
    BY <2>1, <2>4, <2>6
  <2> QED
    BY <2>3, <2>5, <2>6, <2>7, <2>8
<1> HIDE DEF N
<1>3. N = Nat
  BY <1>1, <1>2, AllNumbers DEF N
<1> QED
  BY <1>3 DEF N

\* Terms that are not negative only add.
LEMMA UpToGrows ==
  ASSUME NEW b \in Nat, NEW F, \A i \in 1..b : F[i] \in Nat
  PROVE  \A n \in 0..b : 0 <= SumUpTo(F, n) /\ SumUpTo(F, n) <= SumUpTo(F, b)
<1> DEFINE N == {n \in Nat : n <= b => 0 <= SumUpTo(F, n)}
           M == {m \in Nat : \A n \in 0..b : n + m <= b => SumUpTo(F, n) <= SumUpTo(F, n + m)}
<1>0. ASSUME NEW n \in Nat, n <= b PROVE SumUpTo(F, n) \in Int
  <2>1. \A i \in 1..n : F[i] \in Int
    BY <1>0
  <2> QED  BY <2>1, UpToType
<1>1. ASSUME NEW n \in Nat, n + 1 <= b
      PROVE  SumUpTo(F, n + 1) = SumUpTo(F, n) + F[n + 1] /\ F[n + 1] \in Nat
  <2>1. \A i \in 1..(n + 1) : F[i] \in Int
    BY <1>1
  <2>2. n + 1 \in 1..b
    BY <1>1
  <2> QED  BY <2>1, <2>2, UpToNext
<1>2. 0 \in N
  BY UpToNone
<1>3. ASSUME NEW n \in N PROVE n + 1 \in N
  BY <1>0, <1>1
<1>4. 0 \in M
  <2>1. \A n \in 0..b : n + 0 = n /\ SumUpTo(F, n) \in Int
    BY <1>0
  <2> QED  BY <2>1
<1>5. ASSUME NEW m \in M PROVE m + 1 \in M
  <2> SUFFICES ASSUME NEW n \in 0..b, n + (m + 1) <= b
               PROVE  SumUpTo(F, n) <= SumUpTo(F, n + (m + 1))
    OBVIOUS
  <2>1. m \in Nat /\ n \in Nat /\ n + m \in Nat /\ n + m <= b
        /\ n + (m + 1) = (n + m) + 1
    OBVIOUS
  <2>2. SumUpTo(F, n) <= SumUpTo(F, n + m)
    BY <2>1
  <2>3. SumUpTo(F, (n + m) + 1) = SumUpTo(F, n + m) + F[(n + m) + 1]
        /\ F[(n + m) + 1] \in Nat
    BY <1>1, <2>1
  <2>4. SumUpTo(F, n) \in Int /\ SumUpTo(F, n + m) \in Int
    BY <1>0, <2>1
  <2> QED  BY <2>1, <2>2, <2>3, <2>4
<1> HIDE DEF N, M
<1>6. N = Nat /\ M = Nat
  <2>1. N = Nat
    BY <1>2, <1>3, AllNumbers DEF N
  <2>2. M = Nat
    BY <1>4, <1>5, AllNumbers DEF M
  <2> QED  BY <2>1, <2>2
<1>7. ASSUME NEW n \in 0..b PROVE SumUpTo(F, n) <= SumUpTo(F, b)
  <2>1. b - n \in Nat /\ n + (b - n) = b
    OBVIOUS
  <2>2. b - n \in M /\ n + (b - n) <= b
    BY <1>6, <2>1
  <2>3. SumUpTo(F, n) <= SumUpTo(F, n + (b - n))
    BY <2>2 DEF M
  <2> QED  BY <2>1, <2>3
<1>8. ASSUME NEW n \in 0..b PROVE 0 <= SumUpTo(F, n)
  BY <1>6 DEF N
<1> QED
  BY <1>7, <1>8
=============================================================================
